--------------------------- MODULE DataPoolProofs ---------------------------
(* Theorems about DataPool, for any transactions, blocks, ages and limits.   *)
EXTENDS DataPool, TLAPS

USE PoolAssumption

LEMMA TypeInit == Init => TypeOK
BY DEF Init, TypeOK, Never

\* The blocks that are left by a trimming.
LEMMA TrimmedBlocks ==
    ASSUME TypeOK
    PROVE  /\ Trimmed \in Seq(FinalBlock)
           /\ Len(Trimmed) <= Len(dict_finalize_tx)
           /\ \A i \in 1..Len(Trimmed) :
                  Trimmed[i] =
                      dict_finalize_tx[Len(dict_finalize_tx) - Len(Trimmed) + i]
           /\ Len(Trimmed) >= AtLeast(FinalLow - 1, Len(dict_finalize_tx))
<1> DEFINE s == dict_finalize_tx
           k == FinalLow - 1
<1>1. s \in Seq(FinalBlock) /\ Len(s) \in Nat /\ k \in Nat
    BY DEF TypeOK
<1>2. CASE Len(s) <= FinalHigh
  <2>1. Trimmed = s
    BY <1>1, <1>2 DEF Trimmed
  <2> QED BY <1>1, <2>1 DEF AtLeast
<1>3. CASE Len(s) > FinalHigh
  <2>1. k < Len(s)
    BY <1>1, <1>3
  <2>2. Trimmed = SubSeq(s, Len(s) - k + 1, Len(s))
    BY <1>3 DEF Trimmed, Newest
  <2> HIDE DEF s, k
  <2>3. /\ Trimmed \in Seq(FinalBlock) /\ Len(Trimmed) = k
        /\ \A i \in 1..k : Trimmed[i] = s[Len(s) - k + i]
    BY <1>1, <2>1, <2>2
  <2> QED BY <1>1, <2>1, <2>3 DEF AtLeast, s, k
<1> QED BY <1>1, <1>2, <1>3

LEMMA TypeStep == TypeOK /\ [Next]_vars => TypeOK'
<1> SUFFICES ASSUME TypeOK, [Next]_vars PROVE TypeOK'
    OBVIOUS
<1>1. CASE Tick
    BY <1>1 DEF Tick, TypeOK
<1>2. ASSUME NEW t \in Tx, put_data(t) PROVE TypeOK'
    BY <1>2 DEF put_data, TypeOK
<1>3. ASSUME NEW b \in FinalBlock, put_finalize_data(b) PROVE TypeOK'
    BY <1>3 DEF put_finalize_data, TypeOK
<1>4. ASSUME NEW S \in SUBSET Tx, remove_data_list(S) PROVE TypeOK'
    BY <1>4 DEF remove_data_list, TypeOK
<1>5. CASE pool_manager
  <2>1. dict_finalize_tx' \in Seq(FinalBlock)
    BY <1>5, TrimmedBlocks DEF pool_manager
  <2> QED BY <1>5, <2>1 DEF pool_manager, TypeOK
<1>6. CASE UNCHANGED vars
    BY <1>6 DEF vars, TypeOK
<1> QED BY <1>1, <1>2, <1>3, <1>4, <1>5, <1>6 DEF Next

(* The pool is well typed.                                                   *)
THEOREM TypeCorrect == Spec => []TypeOK
BY TypeInit, TypeStep, PTL DEF Spec

-----------------------------------------------------------------------------
(* The finalised blocks.                                                     *)

\* KeepsTheNewest, block by block
NewestInv ==
    /\ Len(dict_finalize_tx) <= Len(finalized)
    /\ \A i \in 1..Len(dict_finalize_tx) :
           dict_finalize_tx[i] =
               finalized[Len(finalized) - Len(dict_finalize_tx) + i]
    /\ Len(dict_finalize_tx) >= AtLeast(FinalLow - 1, Len(finalized))

LEMMA NewestStep == TypeOK /\ NewestInv /\ [Next]_vars => NewestInv'
<1> SUFFICES ASSUME TypeOK, NewestInv, [Next]_vars PROVE NewestInv'
    OBVIOUS
<1> DEFINE s == dict_finalize_tx
           f == finalized
<1>1. /\ s \in Seq(FinalBlock) /\ Len(s) \in Nat
      /\ f \in Seq(FinalBlock) /\ Len(f) \in Nat
    BY DEF TypeOK
<1>2. CASE UNCHANGED <<dict_finalize_tx, finalized>>
    BY <1>2 DEF NewestInv
<1>3. ASSUME NEW b \in FinalBlock, put_finalize_data(b) PROVE NewestInv'
  <2>1. s' = Append(s, b) /\ f' = Append(f, b)
    BY <1>3 DEF put_finalize_data
  <2>2. Len(s') = Len(s) + 1 /\ Len(f') = Len(f) + 1
    BY <1>1, <2>1
  <2>3. ASSUME NEW i \in 1..Len(s') PROVE s'[i] = f'[Len(f') - Len(s') + i]
    <3>1. CASE i = Len(s) + 1
      BY <1>1, <2>1, <2>2, <3>1
    <3>2. CASE i # Len(s) + 1
      <4>1. i \in 1..Len(s) /\ Len(f) - Len(s) + i \in 1..Len(f)
        BY <1>1, <2>2, <3>2 DEF NewestInv
      <4>2. s'[i] = s[i]
        BY <1>1, <2>1, <4>1
      <4>3. f'[Len(f) - Len(s) + i] = f[Len(f) - Len(s) + i]
        BY <1>1, <2>1, <4>1
      <4>4. Len(f') - Len(s') + i = Len(f) - Len(s) + i
        BY <1>1, <2>2
      <4> QED BY <4>1, <4>2, <4>3, <4>4 DEF NewestInv
    <3> QED BY <3>1, <3>2
  <2>4. /\ Len(s') <= Len(f')
        /\ Len(s') >= AtLeast(FinalLow - 1, Len(f'))
    BY <1>1, <2>2 DEF NewestInv, AtLeast
  <2> QED BY <2>3, <2>4 DEF NewestInv
<1>4. CASE pool_manager
  <2>1. s' = Trimmed /\ f' = f
    BY <1>4 DEF pool_manager
  <2>2. /\ Len(s') \in Nat /\ Len(s') <= Len(s)
        /\ \A i \in 1..Len(s') : s'[i] = s[Len(s) - Len(s') + i]
        /\ Len(s') >= AtLeast(FinalLow - 1, Len(s))
    BY <1>1, <2>1, TrimmedBlocks
  <2>3. ASSUME NEW i \in 1..Len(s') PROVE s'[i] = f'[Len(f') - Len(s') + i]
    <3> DEFINE j == Len(s) - Len(s') + i
    <3>1. j \in 1..Len(s) /\ Len(f) - Len(s) + j = Len(f) - Len(s') + i
      BY <1>1, <2>2
    <3>2. s'[i] = s[j] /\ s[j] = f[Len(f) - Len(s) + j]
      BY <2>2, <3>1 DEF NewestInv
    <3> QED BY <2>1, <3>1, <3>2
  <2>4. /\ Len(s') <= Len(f')
        /\ Len(s') >= AtLeast(FinalLow - 1, Len(f'))
    BY <1>1, <2>1, <2>2 DEF NewestInv, AtLeast
  <2> QED BY <2>3, <2>4 DEF NewestInv
<1> QED BY <1>2, <1>3, <1>4
        DEF Next, Tick, put_data, remove_data_list, vars

\* A suffix, block by block, is a suffix.
LEMMA SuffixOf ==
    ASSUME NEW s \in Seq(FinalBlock), NEW f \in Seq(FinalBlock),
           Len(s) <= Len(f),
           \A i \in 1..Len(s) : s[i] = f[Len(f) - Len(s) + i]
    PROVE  IsSuffix(s, f)
<1> DEFINE r == Reverse(s)
           g == Reverse(f)
<1>1. Len(s) \in Nat /\ Len(f) \in Nat
    OBVIOUS
<1>2. /\ r = [i \in 1..Len(s) |-> s[(Len(s) - i) + 1]]
      /\ g = [i \in 1..Len(f) |-> f[(Len(f) - i) + 1]]
    BY DEF Reverse
<1> HIDE DEF r, g
<1>3. /\ r \in Seq(FinalBlock) /\ g \in Seq(FinalBlock)
      /\ Len(r) = Len(s) /\ Len(g) = Len(f)
    BY <1>1, <1>2
<1>4. ASSUME NEW i \in 1..Len(s) PROVE r[i] = g[i]
  <2> DEFINE j == (Len(s) - i) + 1
  <2>1. j \in 1..Len(s) /\ Len(f) - Len(s) + j = (Len(f) - i) + 1
    BY <1>1
  <2>2. s[j] = f[(Len(f) - i) + 1]
    BY <2>1
  <2> QED BY <1>1, <1>2, <2>2
<1>5. SubSeq(g, 1, Len(r)) = r
    BY <1>1, <1>3, <1>4
<1>6. IsPrefix(r, g)
    BY <1>1, <1>3, <1>5 DEF IsPrefix
<1> QED BY <1>6 DEF IsSuffix, r, g

\* No block that is recorded has a transaction.
EmptyInv ==
    \A i \in 1..Len(dict_finalize_tx) : TxsOf[dict_finalize_tx[i]] = {}

\* A sender is bytes and what is made of a signature is none.
LEMMA NeverValid == ASSUME NEW t \in Tx PROVE ~is_valid(t)
<1>1. "bytes" # "str"
    OBVIOUS
<1>2. Bytes(Sender[t]).type = "bytes" /\ Str(Signer[t]).type = "str"
    BY DEF Bytes, Str
<1> QED BY <1>1, <1>2 DEF is_valid

LEMMA EmptyStep == TypeOK /\ EmptyInv /\ [Next]_vars => EmptyInv'
<1> SUFFICES ASSUME TypeOK, EmptyInv, [Next]_vars PROVE EmptyInv'
    OBVIOUS
<1> DEFINE s == dict_finalize_tx
<1>1. s \in Seq(FinalBlock) /\ Len(s) \in Nat
    BY DEF TypeOK
<1>2. CASE UNCHANGED dict_finalize_tx
    BY <1>2 DEF EmptyInv
<1>3. ASSUME NEW b \in FinalBlock, put_finalize_data(b) PROVE EmptyInv'
  <2>1. TxsOf[b] = {}
    BY <1>3, NeverValid DEF put_finalize_data
  <2>2. s' = Append(s, b)
    BY <1>3 DEF put_finalize_data
  <2> QED BY <1>1, <2>1, <2>2 DEF EmptyInv
<1>4. CASE pool_manager
  <2>1. s' = Trimmed
    BY <1>4 DEF pool_manager
  <2>2. /\ Len(s') \in Nat /\ Len(s') <= Len(s)
        /\ \A i \in 1..Len(s') : s'[i] = s[Len(s) - Len(s') + i]
    BY <1>1, <2>1, TrimmedBlocks
  <2>3. \A i \in 1..Len(s') : Len(s) - Len(s') + i \in 1..Len(s)
    BY <1>1, <2>2
  <2> QED BY <2>2, <2>3 DEF EmptyInv
<1> QED BY <1>2, <1>3, <1>4
        DEF Next, Tick, put_data, remove_data_list, vars

(* The finalised blocks in the pool are the newest of those it took, in      *)
(* their order, at least FinalLow - 1 of them, however often pool_manager    *)
(* runs, and none of them has a transaction.                                 *)
THEOREM NewestKept == Spec => []KeepsTheNewest
<1>1. Init => NewestInv /\ EmptyInv
    BY DEF Init, NewestInv, EmptyInv, AtLeast
<1>2. TypeOK /\ NewestInv /\ EmptyInv => KeepsTheNewest
  <2>1. TypeOK /\ EmptyInv =>
            \A b \in ToSet(dict_finalize_tx) : TxsOf[b] = {}
    BY DEF TypeOK, EmptyInv, ToSet
  <2> QED BY <2>1, SuffixOf DEF TypeOK, NewestInv, KeepsTheNewest
<1> QED BY <1>1, <1>2, NewestStep, EmptyStep, TypeCorrect, PTL DEF Spec

-----------------------------------------------------------------------------
(* The pending transactions.                                                 *)

\* An accepted transaction was young enough when it was accepted.
AcceptedInv ==
    \A t \in Tx : accepted[t] # Never => accepted[t] - TimeOf[t] <= AcceptAge

LEMMA AcceptedStep ==
    TypeOK /\ AcceptedInv /\ AcceptedStays /\ [Next]_vars =>
        AcceptedInv' /\ AcceptedStays'
<1> SUFFICES ASSUME TypeOK, AcceptedInv, AcceptedStays, [Next]_vars
             PROVE  AcceptedInv' /\ AcceptedStays'
    OBVIOUS
<1> USE DEF AcceptedInv, AcceptedStays, TypeOK
<1>1. now \in Nat /\ \A t \in Tx : accepted[t] \in Int /\ TimeOf[t] \in Int
    BY DEF Never
<1>2. CASE Tick
    BY <1>1, <1>2 DEF Tick
<1>3. ASSUME NEW t \in Tx, put_data(t) PROVE AcceptedInv' /\ AcceptedStays'
    BY <1>1, <1>3 DEF put_data, Age
<1>4. ASSUME NEW b \in FinalBlock, put_finalize_data(b)
      PROVE  AcceptedInv' /\ AcceptedStays'
    BY <1>4 DEF put_finalize_data
<1>5. ASSUME NEW S \in SUBSET Tx, remove_data_list(S)
      PROVE  AcceptedInv' /\ AcceptedStays'
    BY <1>5 DEF remove_data_list
<1>6. CASE pool_manager
    BY <1>1, <1>6 DEF pool_manager, Age
<1>7. CASE UNCHANGED vars
    BY <1>7 DEF vars
<1> QED BY <1>2, <1>3, <1>4, <1>5, <1>6, <1>7 DEF Next

(* An accepted transaction that is not removed stays for                     *)
(* KeepAge - AcceptAge at least.                                             *)
THEOREM AcceptedKept == Spec => []AcceptedStays
<1>1. Init => AcceptedInv /\ AcceptedStays
    BY DEF Init, AcceptedInv, AcceptedStays
<1> QED BY <1>1, AcceptedStep, TypeCorrect, PTL DEF Spec
=============================================================================
