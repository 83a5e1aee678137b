----------------------------- MODULE SessionChain -----------------------------
(***************************************************************************)
(* What sign-in sessions promise, whatever the tokens behind them: a       *)
(* session starts once, lives, and once ended never comes back.            *)
(* SignIn implements it.                                                   *)
(***************************************************************************)
CONSTANT Sessions
VARIABLE status

Init == status \in [Sessions -> {"none", "live"}]

Start(s) ==
  /\ status[s] = "none"
  /\ status' = [status EXCEPT ![s] = "live"]

End(S) ==
  /\ \A s \in S : status[s] = "live"
  /\ status' = [s \in Sessions |-> IF s \in S THEN "dead" ELSE status[s]]

Next == (\E s \in Sessions : Start(s)) \/ (\E S \in SUBSET Sessions : End(S))

Spec == Init /\ [][Next]_status
=============================================================================
