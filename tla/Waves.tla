------------------------------- MODULE Waves -------------------------------
(***************************************************************************)
(* The waves of engines that find no quorum, with the clock that LLFC      *)
(* leaves out: each runs the behaviour tree from its first transaction on, *)
(* with the one timestamp all its stages share.  num_retry_count is never  *)
(* set back; an engine that restarts is one that begins late, at 0.        *)
(*                                                                         *)
(* The queue threads poll without a pause: the clock moves on when no pass *)
(* would do anything.                                                      *)
(***************************************************************************)
EXTENDS Integers, BehaviorTree

CONSTANTS
    Engine,
    LLFCTerm,  \* ticks, the same for all stages (5 seconds in the code)
    MaxTime,   \* bound
    Never      \* the first proposal of an engine that has made none

ASSUME TermAssumption == LLFCTerm \in Nat /\ MaxTime \in Nat /\ Never \notin Nat

VARIABLES
    now,
    stage_of, retries_of, timestamp_of, \* the fields of each engine
    first                               \* when it proposed first

waves == <<now, stage_of, retries_of, timestamp_of, first>>

WavesInit ==
    /\ now = 0
    /\ stage_of = [n \in Engine |-> "PROPOSE"]
    /\ retries_of = [n \in Engine |-> 0]
    /\ timestamp_of = [n \in Engine |-> 0]
    /\ first = [n \in Engine |-> Never]

\* The chain does not grow, nobody has a quorum, and wait looks at the clock.
Found(n) ==
    [c \in Checks |->
        CASE c = "wait" -> now - timestamp_of[n] > LLFCTerm
          [] c \in {"check_diff_height", "check_select_vote"} -> FALSE
          [] OTHER -> TRUE]

\* What a pass would do
Actions(n) == create_root(stage_of[n], Found(n)).trace

Moves(n) == Does(Actions(n), "update_stage")

\* A pass that reaches update_stage, which the others do not
Pass(n) ==
    /\ Moves(n)
    /\ stage_of' = [stage_of EXCEPT ![n] = LastStage(Actions(n), @)]
    /\ retries_of' = [retries_of EXCEPT ![n] = @ + Count(Actions(n), "retry_round")]
    /\ timestamp_of' = [timestamp_of EXCEPT ![n] =
                           IF Does(Actions(n), "time_start") THEN now ELSE @]
    /\ UNCHANGED now

\* The first transaction comes at any time.
Begin(n) == first[n] = Never /\ Pass(n) /\ first' = [first EXCEPT ![n] = now]

Continue(n) == first[n] # Never /\ Pass(n) /\ UNCHANGED first

Tick ==
    /\ now < MaxTime
    /\ \A n \in Engine : first[n] # Never => ~Moves(n)
    /\ now' = now + 1
    /\ UNCHANGED <<stage_of, retries_of, timestamp_of, first>>

WavesNext == Tick \/ \E n \in Engine : Begin(n) \/ Continue(n)

WavesSpec == WavesInit /\ [][WavesNext]_waves

-----------------------------------------------------------------------------
\* A wave: two waits, each over when more than its term has passed
WaveLength == 2 * (LLFCTerm + 1)

(* Engines whose first proposals are no more than a term apart share every   *)
(* wave: none goes on before the others have voted in it.  Engines more than *)
(* a wave apart never share one: their retry counts stay different for ever, *)
(* and no stage waits shorter or longer than the others.                     *)
KeepStep ==
    \A m, n \in Engine :
        first[m] # Never /\ first[n] # Never =>
            LET ahead == retries_of[m] - retries_of[n]
                apart == first[n] - first[m]
            IN  /\ (apart \in -LLFCTerm .. LLFCTerm /\ ahead > 0) =>
                       (ahead = 1 /\ stage_of[n] = "COLLECT_VOTE")
                /\ apart > WaveLength => ahead > 0
=============================================================================
