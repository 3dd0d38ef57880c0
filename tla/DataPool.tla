------------------------------ MODULE DataPool ------------------------------
(***************************************************************************)
(* The pool of transactions: the pending ones, with the ages at which one  *)
(* is refused and dropped, and what it records of finalised blocks, which  *)
(* pool_manager trims.  No code calls put_finalize_data or pool_manager,   *)
(* and of the blocks it is given the first takes those that are empty.     *)
(*                                                                         *)
(* A transaction stands for its hash, and dict_finalize_tx is the sequence *)
(* of its keys, the hashes of blocks, in their order of insertion.         *)
(***************************************************************************)
EXTENDS TransactionData, SequencesExt

VARIABLES
    now,                \* time.time()
    dict_pending_tx,
    dict_finalize_tx,
    accepted,           \* history: when a transaction was accepted last, or
                        \* Never, which it is again when it is removed
    finalized           \* history: the blocks that were recorded, in order

vars == <<now, dict_pending_tx, dict_finalize_tx, accepted, finalized>>

Never == -1

TypeOK ==
    /\ now \in Nat
    /\ dict_pending_tx \subseteq Tx
    /\ dict_finalize_tx \in Seq(FinalBlock)
    /\ accepted \in [Tx -> Nat \cup {Never}]
    /\ finalized \in Seq(FinalBlock)

Init ==
    /\ now = 0
    /\ dict_pending_tx = {}
    /\ dict_finalize_tx = <<>>
    /\ accepted = [t \in Tx |-> Never]
    /\ finalized = <<>>

Tick ==
    /\ now < MaxTime
    /\ now' = now + 1
    /\ UNCHANGED <<dict_pending_tx, dict_finalize_tx, accepted, finalized>>

Age(t) == now - TimeOf[t]

\* Mutant: a transaction that the pool would keep is accepted.
put_data_of_any_age(t) ==
    /\ Age(t) <= KeepAge
    /\ t \notin dict_pending_tx
    /\ t \notin ToSet(dict_finalize_tx)
    /\ dict_pending_tx' = dict_pending_tx \cup {t}
    /\ accepted' = [accepted EXCEPT ![t] = now]
    /\ UNCHANGED <<now, dict_finalize_tx, finalized>>

\* Otherwise it returns without a change.
put_data(t) ==
    /\ Age(t) <= AcceptAge
    /\ t \notin dict_pending_tx
    /\ t \notin ToSet(dict_finalize_tx)
    /\ dict_pending_tx' = dict_pending_tx \cup {t}
    /\ accepted' = [accepted EXCEPT ![t] = now]
    /\ UNCHANGED <<now, dict_finalize_tx, finalized>>

\* The address of the sender is bytes, and what verifying makes of the
\* signature is a str, which no bytes are equal to.
Bytes(text) == [type |-> "bytes", text |-> text]
Str(text) == [type |-> "str", text |-> text]
is_valid(t) == Bytes(Sender[t]) = Str(Signer[t])

\* A transaction that is not valid raises a ValueError, which changes nothing;
\* a hash that is in the dictionary keeps its place.
put_finalize_data(b) ==
    /\ Len(finalized) < MaxPut
    /\ \A t \in TxsOf[b] : is_valid(t)
    /\ b \notin ToSet(dict_finalize_tx)
    /\ dict_finalize_tx' = Append(dict_finalize_tx, b)
    /\ finalized' = Append(finalized, b)
    /\ UNCHANGED <<now, dict_pending_tx, accepted>>

\* remove_data, and remove_data_list when it is given transactions.
remove_data_list(S) ==
    /\ dict_pending_tx' = dict_pending_tx \ S
    /\ accepted' = [t \in Tx |-> IF t \in S THEN Never ELSE accepted[t]]
    /\ UNCHANGED <<now, dict_finalize_tx, finalized>>

\* The last k blocks of the dictionary.
Newest(k) ==
    SubSeq(dict_finalize_tx, Len(dict_finalize_tx) - k + 1,
           Len(dict_finalize_tx))

\* Mutant: the trimming pops the newest blocks.
TrimmedNewest ==
    IF Len(dict_finalize_tx) > FinalHigh
      THEN SubSeq(dict_finalize_tx, 1, FinalLow - 1)
      ELSE dict_finalize_tx

\* Blocks are popped from the oldest on until fewer than FinalLow are left.
Trimmed ==
    IF Len(dict_finalize_tx) > FinalHigh
      THEN Newest(FinalLow - 1)
      ELSE dict_finalize_tx

pool_manager ==
    /\ dict_finalize_tx' = Trimmed
    /\ dict_pending_tx' = {t \in dict_pending_tx : Age(t) <= KeepAge}
    /\ UNCHANGED <<now, accepted, finalized>>

Next ==
    \/ Tick
    \/ \E t \in Tx : put_data(t)
    \/ \E b \in FinalBlock : put_finalize_data(b)
    \/ \E S \in SUBSET Tx : remove_data_list(S)
    \/ pool_manager

Spec == Init /\ [][Next]_vars

-----------------------------------------------------------------------------

AtLeast(k, n) == IF n < k THEN n ELSE k

(* However often pool_manager runs, the finalised blocks in the pool are the *)
(* newest of those that were recorded, in their order, and at least          *)
(* FinalLow - 1 of them.  They are blocks without transactions, so that the  *)
(* pool finds no transaction of a finalised block, however recent: any may   *)
(* be put and proposed again.                                                *)
KeepsTheNewest ==
    /\ IsSuffix(dict_finalize_tx, finalized)
    /\ Len(dict_finalize_tx) >= AtLeast(FinalLow - 1, Len(finalized))
    /\ \A b \in ToSet(dict_finalize_tx) : TxsOf[b] = {}

(* The two ages together give an accepted transaction its time: unless it is *)
(* removed, it stays for KeepAge - AcceptAge (two and a half hours) at least.*)
AcceptedStays ==
    \A t \in Tx :
        (accepted[t] # Never /\ now - accepted[t] <= KeepAge - AcceptAge)
            => t \in dict_pending_tx
=============================================================================
