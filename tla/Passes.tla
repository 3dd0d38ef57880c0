------------------------------- MODULE Passes -------------------------------
(***************************************************************************)
(* The passes of the behaviour tree, one after the other, and what they    *)
(* leave in the engine.  LLFC has the tree unfolded into actions; here are *)
(* the paths that it takes for granted.                                    *)
(***************************************************************************)
EXTENDS BehaviorTree

CONSTANTS MaxHeight, MaxRetry \* bounds

VARIABLES stage, num_height, num_retry_count \* the engine's fields

passes == <<stage, num_height, num_retry_count>>

PassesInit == stage = "PROPOSE" /\ num_height = 1 /\ num_retry_count = 0

\* mq_process_synced, whatever the checks find
PassesNext ==
    \E found \in [Checks -> BOOLEAN] :
        LET t == create_root(stage, found).trace
        IN  /\ num_height' = num_height + Count(t, "increase_height")
            /\ num_retry_count' = num_retry_count + Count(t, "retry_round")
            /\ stage' = LastStage(t, stage)
            /\ num_height' <= MaxHeight /\ num_retry_count' <= MaxRetry

PassesSpec == PassesInit /\ [][PassesNext]_passes

-----------------------------------------------------------------------------
Abstract == INSTANCE Rounds

(* Whatever the checks find, a pass changes stage, height and retries the    *)
(* way one action of LLFC does: no pass does half of one, or two.            *)
ImplementsRounds == Abstract!Spec
=============================================================================
