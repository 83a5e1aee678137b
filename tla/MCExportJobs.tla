----------------------------- MODULE MCExportJobs -----------------------------
(* Instances of ExportJobs for TLC; the .cfg files give the constants.      *)
EXTENDS ExportJobs
=============================================================================
