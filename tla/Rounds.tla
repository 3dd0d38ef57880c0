------------------------------- MODULE Rounds -------------------------------
(***************************************************************************)
(* The rounds of an engine, as LLFC has them: one action for each way in   *)
(* which a pass of the behaviour tree may change the stage, the height and *)
(* the number of retries.  Passes implements it.                           *)
(***************************************************************************)
EXTENDS Naturals

VARIABLES stage, num_height, num_retry_count

vars == <<stage, num_height, num_retry_count>>

Init == stage = "PROPOSE" /\ num_height = 1 /\ num_retry_count = 0

Moves(from, to) == stage = from /\ stage' = to

Propose ==
    /\ Moves("PROPOSE", "COLLECT_CANDIDATE")
    /\ UNCHANGED <<num_height, num_retry_count>>

SelectAndVote ==
    /\ Moves("COLLECT_CANDIDATE", "COLLECT_VOTE")
    /\ UNCHANGED <<num_height, num_retry_count>>

\* The engine has seen a quorum, be its creator the node itself or not.
Elect ==
    /\ Moves("COLLECT_VOTE", "WAIT_FOR_FINALIZE")
    /\ UNCHANGED <<num_height, num_retry_count>>

RetryRound ==
    /\ Moves("COLLECT_VOTE", "PROPOSE")
    /\ num_retry_count' = num_retry_count + 1
    /\ UNCHANGED num_height

NewRound ==
    /\ stage' = "PROPOSE"
    /\ num_height' = num_height + 1
    /\ UNCHANGED num_retry_count

Next == Propose \/ SelectAndVote \/ Elect \/ RetryRound \/ NewRound

Spec == Init /\ [][Next]_vars
=============================================================================
