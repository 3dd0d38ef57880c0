---------------------------- MODULE BehaviorTree ----------------------------
(***************************************************************************)
(* The behaviour tree of the engine, as LLFCBehaviorTree builds it and the *)
(* node classes invoke it.  A tree is what its invoke gives when the       *)
(* checks of the engine find "found": the value it returns and the actions *)
(* it adds to the trace.                                                   *)
(***************************************************************************)
EXTENDS Naturals, SequencesExt

-----------------------------------------------------------------------------
(* The node classes.                                                         *)

\* What an action returns: a check what the engine finds, and the others True,
\* but for select_timecompatibility, which is disabled.
Checks ==
    {"check_diff_height", "check_exist_transaction", "wait",
     "select_maximum_tx", "select_oldest_tx",
     "check_select_vote", "check_block_creator"}

Returns(found, name) ==
    /\ name # "select_timecompatibility"
    /\ name \in Checks => found[name]

Call(name, arg) == [name |-> name, arg |-> arg]

Action(found, name, arg) ==
    [value |-> Returns(found, name), trace |-> <<Call(name, arg)>>]
Do(found, name) == Action(found, name, "")

\* The children in their order, up to the first that returns stop.
InvokeUntil(stop, child) ==
    LET run[i \in 0 .. Len(child)] ==
            IF i = 0 THEN [value |-> ~stop, trace |-> <<>>]
              ELSE LET before == run[i - 1]
                   IN  IF before.value = stop THEN before
                         ELSE [value |-> child[i].value,
                               trace |-> before.trace \o child[i].trace]
    IN  run[Len(child)]

\* Mutant: a Selector goes on until a child returns False.
SelectorAsSequencer(child) == InvokeUntil(FALSE, child)

Selector(child) == InvokeUntil(TRUE, child)
Sequencer(child) == InvokeUntil(FALSE, child)

-----------------------------------------------------------------------------
(* The tree.                                                                 *)

new_round_tree(found) ==
    Sequencer(<<Do(found, "increase_height"), Do(found, "clear_pool"),
                Action(found, "update_stage", "PROPOSE")>>)

check_finalize_tree(found) ==
    Selector(<<Sequencer(<<Do(found, "check_diff_height"),
                           new_round_tree(found)>>)>>)

propose_block_tree(found) ==
    Sequencer(<<Do(found, "check_exist_transaction"), Do(found, "time_start"),
                Do(found, "create_candidate_block"),
                Action(found, "update_stage", "COLLECT_CANDIDATE")>>)

select_block_tree(found) ==
    Selector(<<Do(found, "select_maximum_tx"), Do(found, "select_oldest_tx"),
               Do(found, "select_timecompatibility"),
               Do(found, "select_conflict_tolerance")>>)

\* Mutant: the clock is not started, so the wait that follows is over at once.
select_tree_untimed(found) ==
    Sequencer(<<Action(found, "wait", "COLLECT_CANDIDATE"),
                Do(found, "get_propose_block_from_pool"),
                select_block_tree(found), Do(found, "create_vote"),
                Action(found, "update_stage", "COLLECT_VOTE")>>)

select_tree(found) ==
    Sequencer(<<Action(found, "wait", "COLLECT_CANDIDATE"),
                Do(found, "time_start"),
                Do(found, "get_propose_block_from_pool"),
                select_block_tree(found), Do(found, "create_vote"),
                Action(found, "update_stage", "COLLECT_VOTE")>>)

finalize_tree(found) ==
    Selector(<<
        Sequencer(<<Do(found, "check_block_creator"),
                    Do(found, "create_finalize_block"),
                    Action(found, "update_stage", "WAIT_FOR_FINALIZE"),
                    Do(found, "time_start")>>),
        Sequencer(<<Action(found, "update_stage", "WAIT_FOR_FINALIZE"),
                    Do(found, "time_start")>>)>>)

collect_vote_tree(found) ==
    Selector(<<
        Sequencer(<<Do(found, "check_select_vote"), finalize_tree(found)>>),
        Sequencer(<<Action(found, "wait", "COLLECT_VOTE"),
                    Do(found, "retry_round"),
                    Action(found, "update_stage", "PROPOSE")>>)>>)

Indexer(found) ==
    [PROPOSE |-> propose_block_tree(found),
     COLLECT_CANDIDATE |-> select_tree(found),
     COLLECT_VOTE |-> collect_vote_tree(found),
     WAIT_FOR_FINALIZE |-> Action(found, "wait", "WAIT_FOR_FINALIZE")]

create_root(stage, found) ==
    Selector(<<check_finalize_tree(found), Indexer(found)[stage]>>)

-----------------------------------------------------------------------------
(* What the actions t of a pass do to the fields of the engine.              *)

Calls(t, name) == {i \in DOMAIN t : t[i].name = name}

Does(t, name) == Calls(t, name) # {}
Count(t, name) == Cardinality(Calls(t, name))

\* The stage that the last update_stage sets
LastStage(t, stage) ==
    IF Does(t, "update_stage") THEN t[Max(Calls(t, "update_stage"))].arg
                               ELSE stage
=============================================================================
