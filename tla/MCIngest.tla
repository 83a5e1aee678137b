------------------------------- MODULE MCIngest -------------------------------
(* Instances of Ingest for TLC; the .cfg files give the constants.          *)
EXTENDS Ingest
=============================================================================
