------------------------------ MODULE MCLiveFeed ------------------------------
(* An instance of LiveFeed for TLC; the .cfg file gives the constants.      *)
EXTENDS LiveFeed
CONSTANTS b1, b2
=============================================================================
