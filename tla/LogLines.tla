------------------------------- MODULE LogLines -------------------------------
(***************************************************************************)
(* What the pipeline carries: the lines of the sources' access logs.  A    *)
(* parsed event (log_parser.ParsedEvent, event_store.StoredEvent.event) is *)
(* abstracted to the line it was parsed from.                              *)
(***************************************************************************)
EXTENDS Integers

CONSTANTS
  Sources,      \* Log sources (LOG_SOURCES): one access log and one tailer each.
  MaxLine       \* Lines each source ever writes.  Bounds the model.

ASSUME SourcesAssumption == Sources # {} /\ MaxLine \in Nat

Lines == Sources \X (1..MaxLine)
=============================================================================
