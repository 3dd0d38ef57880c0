---------------------------- MODULE MCLLFCRestart ----------------------------
(* One node crashes once it has finalised a block that no chain has yet; the *)
(* second transaction reaches the nodes after that.                          *)
EXTENDS MCLLFC, LLFCRestart

CrashSchedule ==
    /\ crashes > 0 => finals # {}
    /\ crashes = 0 =>
           \A n \in Node : 2 \in net_transaction[n] /\ blocks[n] = <<>>
    /\ (\E n \in Node : engine[n] = "proposing") =>
           \A n \in Node : 1 \notin net_transaction[n]
    /\ FewInFlight
=============================================================================
