------------------------------- MODULE MCSignIn -------------------------------
(* An instance of SignIn for TLC; the .cfg file gives the constants.        *)
EXTENDS SignIn
=============================================================================
