---------------------------- MODULE LedgerProofs ----------------------------
(* Theorems about Ledger: what the chain, the Wagon and the world state of a *)
(* node keep through any number of crashes, for every set of blocks.         *)
EXTENDS Ledger, SequenceTheorems, FiniteSetTheorems, TLAPS

USE BlockAssumption, GenesisAssumption, CrashAssumption

-----------------------------------------------------------------------------
(* Type correctness.                                                         *)

\* finalize is half done with a block.
TypeInv == LedgerTypeOK /\ (chain_thread = "written" => last \in Block)

LEMMA ChargeFeeType ==
    ASSUME NEW t \in Transfer, NEW state \in [Account -> AccountState]
    PROVE  ChargeFee(state, t) \in [Account -> AccountState]
BY DEF ChargeFee, Loss, AccountState, Transfer

LEMMA DebitType ==
    ASSUME NEW t \in Transfer, NEW state \in [Account -> AccountState]
    PROVE  Debit(state, t) \in [Account -> AccountState]
BY DEF Debit, AccountState, Transfer

LEMMA CreditType ==
    ASSUME NEW t \in Transfer, NEW state \in [Account -> AccountState]
    PROVE  Credit(state, t) \in [Account -> AccountState]
BY DEF Credit, Loss, AccountState, Transfer

LEMMA PayType ==
    ASSUME NEW t \in Transfer, NEW state \in [Account -> AccountState]
    PROVE  Pay(state, t) \in [Account -> AccountState]
<1>1. Debit(state, t) \in [Account -> AccountState]
    BY DebitType
<1> QED BY <1>1, CreditType DEF Pay

LEMMA QueueType ==
    ASSUME NEW S, NEW q \in Seq(S), q # <<>>
    PROVE  Head(q) \in S /\ Tail(q) \in Seq(S)
OBVIOUS

LEMMA UnknownType == Unknown \in [Account -> AccountState]
BY DEF Unknown, AccountState

LEMMA TypeInit == LedgerInit => TypeInv
BY UnknownType DEF LedgerInit, LedgerTypeOK, TypeInv

LEMMA TransactionType ==
    ASSUME LedgerTypeOK, executing # NoBlock, position <= Len(Transactions[executing])
    PROVE  Transactions[executing][position] \in Transfer
<1>1. Transactions[executing] \in Seq(Transfer) /\ position \in Nat \ {0}
    BY DEF LedgerTypeOK
<1> QED BY <1>1

LEMMA TypeStep == TypeInv /\ [LedgerNext]_ledger => TypeInv'
<1> SUFFICES ASSUME TypeInv, [LedgerNext]_ledger PROVE TypeInv'
    OBVIOUS
<1> USE DEF TypeInv, chainVars, wagonVars, stateVars
<1>1. CASE Start
    BY <1>1 DEF Start, LedgerTypeOK
<1>2. CASE UpdateGenesisBlock
    <2>1. accounts' \in [Account -> AccountState]
        BY <1>2 DEF UpdateGenesisBlock, AccountState
    <2> QED BY <1>2, <2>1 DEF UpdateGenesisBlock, LedgerTypeOK
<1>3. CASE Restart
    BY <1>3 DEF Restart, LedgerTypeOK
<1>4. CASE Crash
    BY <1>4, UnknownType DEF Crash, LedgerTypeOK
<1>5. CASE \E b \in Block : Push(b)
    BY <1>5 DEF Push, LedgerTypeOK
<1>6. CASE Finalize
    <2>1. Head(chain_queue) \in Block /\ chain_queue' \in Seq(Block)
        BY <1>6, QueueType DEF Finalize, LedgerTypeOK
    <2> QED BY <1>6, <2>1 DEF Finalize, LedgerTypeOK
<1>7. CASE PushToWagon
    <2>1. last \in Block /\ Append(wagon_queue, last) \in Seq(Block)
        BY <1>7 DEF PushToWagon, LedgerTypeOK
    <2> QED BY <1>7, <2>1 DEF PushToWagon, LedgerTypeOK
<1>8. CASE StartBlock
    <2>1. Head(wagon_queue) \in Block /\ Tail(wagon_queue) \in Seq(Block)
        BY <1>8, QueueType DEF StartBlock, LedgerTypeOK
    <2> QED BY <1>8, <2>1 DEF StartBlock, LedgerTypeOK
<1>9. CASE CommitTransaction
    <2>1. dict_state' \in [Account -> AccountState]
        BY <1>9, ChargeFeeType, PayType, TransactionType
        DEF CommitTransaction, LedgerTypeOK
    <2> QED BY <1>9, <2>1 DEF CommitTransaction, LedgerTypeOK
<1>10. CASE UpdateState
    BY <1>10 DEF UpdateState, LedgerTypeOK
<1>11. CASE UNCHANGED ledger
    BY <1>11 DEF ledger, LedgerTypeOK
<1> QED
    BY <1>1, <1>2, <1>3, <1>4, <1>5, <1>6, <1>7, <1>8, <1>9, <1>10, <1>11
    DEF LedgerNext, ChainStep, WagonStep

(* The two threads and the two databases are well typed, and the Wagon never *)
(* looks for a transaction that is not in its block.                         *)
THEOREM TypeCorrect == LedgerSpec => []LedgerTypeOK
<1>1. TypeInv => LedgerTypeOK
    BY DEF TypeInv
<1> QED BY <1>1, TypeInit, TypeStep, PTL DEF LedgerSpec

-----------------------------------------------------------------------------
(* The chain.                                                                *)

ChainInv == ChainIsLinked /\ (process # "down" => last # NoBlock)

LEMMA ChainInit == LedgerInit => ChainInv
BY DEF LedgerInit, ChainInv, ChainIsLinked

LEMMA ExtensionIsHighest ==
    ASSUME ChainInv, LedgerTypeOK, process = "up", NEW b \in Block, Extends(b)
    PROVE  \A c \in stored : Height[c] < Height[b]
<1>1. /\ last \in Block \cup {Genesis} /\ stored \subseteq Block
      /\ Height[b] = HeightOf(last) + 1
    BY DEF ChainInv, Extends, LedgerTypeOK
<1>2. HeightOf(last) \in Nat /\ \A c \in stored : Height[c] \in Nat
    BY <1>1 DEF HeightOf
<1> QED BY <1>1, <1>2 DEF ChainInv, ChainIsLinked

LEMMA ChainStepKeeps == TypeInv /\ ChainInv /\ [LedgerNext]_ledger => ChainInv'
<1> SUFFICES ASSUME TypeInv, ChainInv, [LedgerNext]_ledger PROVE ChainInv'
    OBVIOUS
<1> USE DEF ChainInv, chainVars, wagonVars, stateVars
<1>1. CASE Start
    BY <1>1 DEF Start, ChainIsLinked
<1>2. CASE Finalize
    <2> DEFINE b == Head(chain_queue)
    <2>1. CASE Extends(b)
        <3>1. /\ b \in Block /\ last \in stored \cup {Genesis}
              /\ stored \subseteq Block
              /\ Height[b] = HeightOf(last) + 1 /\ Prev[b] = last
              /\ last' = b /\ stored' = stored \cup {b}
            BY <1>2, <2>1, QueueType
            DEF Finalize, Extends, ChainIsLinked, TypeInv, LedgerTypeOK
        <3>2. \A c \in stored : Height[c] < Height[b]
            BY <1>2, <2>1, <3>1, ExtensionIsHighest DEF Finalize, TypeInv
        <3>3. /\ HeightOf(last) \in Nat
              /\ HeightOf(b) = Height[b]
              /\ \A c \in stored : Height[c] \in Nat /\ HeightOf(Prev[c]) \in Nat
            BY <3>1 DEF HeightOf
        <3> HIDE DEF b
        <3>4. ChainIsLinked'
            BY <3>1, <3>2, <3>3 DEF ChainIsLinked, HeightOf
        <3> QED BY <1>2, <3>1, <3>4 DEF Finalize
    <2>2. CASE ~Extends(b)
        BY <1>2, <2>2 DEF Finalize, ChainIsLinked
    <2> QED BY <2>1, <2>2
<1>3. CASE UNCHANGED <<process, last, stored>>
    BY <1>3 DEF ChainIsLinked
<1>4. CASE Crash \/ Restart \/ UpdateGenesisBlock
    BY <1>4 DEF Crash, Restart, UpdateGenesisBlock, ChainIsLinked
<1> QED
    BY <1>1, <1>2, <1>3, <1>4
    DEF LedgerNext, ChainStep, WagonStep, Push, PushToWagon, StartBlock,
        CommitTransaction, UpdateState, ledger

LEMMA ChainInvariant == LedgerSpec => [](TypeInv /\ ChainInv)
BY TypeInit, TypeStep, ChainInit, ChainStepKeeps, PTL DEF LedgerSpec

(* Whatever blocks the engine hands over, and wherever the process crashes,  *)
(* the database holds one branch that begins at the genesis block.           *)
THEOREM Linked == LedgerSpec => []ChainIsLinked
<1>1. ChainInv => ChainIsLinked
    BY DEF ChainInv
<1> QED BY <1>1, ChainInvariant, PTL

-----------------------------------------------------------------------------
(* The pipeline: what the Wagon has applied, what it executes, what waits in *)
(* its queue and what finalize is about to put there are, in this order, the *)
(* blocks of the chain by height.                                            *)

Items(q) == {q[i] : i \in 1 .. Len(q)}
Executing == IF executing = NoBlock THEN {} ELSE {executing}
Written == IF chain_thread = "written" THEN {last} ELSE {}
Waiting == Items(wagon_queue)

Before(S, T) == \A b \in S, c \in T : Height[b] < Height[c]
Increasing(q) ==
    \A i, j \in 1 .. Len(q) : i < j => Height[q[i]] < Height[q[j]]

OrderInv ==
    /\ Items(applied) \cup Executing \cup Waiting \cup Written \subseteq stored
    /\ crashes = 0 =>
           stored \subseteq Items(applied) \cup Executing \cup Waiting \cup Written
    /\ Increasing(applied) /\ Increasing(wagon_queue)
    /\ Before(Items(applied), Executing \cup Waiting \cup Written)
    /\ Before(Executing, Waiting \cup Written)
    /\ Before(Waiting, Written)
    /\ process = "genesis" => stored = {}
    /\ applied # <<>> => last_block_hash = applied[Len(applied)]

LEMMA AppendItems ==
    ASSUME NEW q \in Seq(Block), NEW b \in Block
    PROVE  /\ Items(Append(q, b)) = Items(q) \cup {b}
           /\ Append(q, b) # <<>>
           /\ Append(q, b)[Len(Append(q, b))] = b
           /\ Increasing(q) /\ Before(Items(q), {b}) => Increasing(Append(q, b))
<1> DEFINE r == Append(q, b)
<1>1. /\ Len(r) = Len(q) + 1 /\ Len(q) \in Nat /\ r[Len(r)] = b
      /\ \A i \in 1 .. Len(q) : r[i] = q[i]
    OBVIOUS
<1> HIDE DEF r
<1>2. \A i \in 1 .. Len(r) : i = Len(r) \/ i \in 1 .. Len(q)
    <2>1. Len(q) \in Nat /\ Len(r) = Len(q) + 1
        BY <1>1
    <2> QED BY <2>1
<1>3. Items(r) = Items(q) \cup {b}
    <2>1. Len(r) \in 1 .. Len(r) /\ \A i \in 1 .. Len(q) : i \in 1 .. Len(r)
        BY <1>1
    <2>2. \A x \in Items(r) : x \in Items(q) \cup {b}
        BY <1>1, <1>2 DEF Items
    <2>3. \A x \in Items(q) : x \in Items(r)
        BY <1>1, <2>1 DEF Items
    <2>4. b \in Items(r)
        BY <1>1, <2>1 DEF Items
    <2> QED BY <2>2, <2>3, <2>4
<1>4. ASSUME Increasing(q), Before(Items(q), {b}) PROVE Increasing(r)
    <2> SUFFICES \A i \in 1 .. Len(r), j \in 1 .. Len(r) :
                     i < j => Height[r[i]] < Height[r[j]]
        BY DEF Increasing
    <2> TAKE i \in 1 .. Len(r), j \in 1 .. Len(r)
    <2> HAVE i < j
    <2>1. i \in 1 .. Len(q) /\ r[i] = q[i]
        BY <1>1
    <2>2. q[i] \in Items(q)
        BY <2>1 DEF Items
    <2>3. CASE j = Len(r)
        BY <1>1, <1>4, <2>1, <2>2, <2>3 DEF Before
    <2>4. CASE j # Len(r)
        <3>1. j \in 1 .. Len(q)
            BY <1>2, <2>4
        <3> QED BY <1>1, <1>4, <2>1, <3>1 DEF Increasing
    <2> QED BY <2>3, <2>4
<1>5. r # <<>>
    BY <1>1
<1> QED BY <1>1, <1>3, <1>4, <1>5 DEF r

LEMMA TailItems ==
    ASSUME NEW q \in Seq(Block), q # <<>>
    PROVE  /\ Items(q) = {Head(q)} \cup Items(Tail(q))
           /\ Increasing(q) => /\ Increasing(Tail(q))
                               /\ Before({Head(q)}, Items(Tail(q)))
<1> DEFINE r == Tail(q)
           h == Head(q)
<1>1. /\ Len(q) \in Nat \ {0} /\ Len(r) = Len(q) - 1 /\ h = q[1]
      /\ \A i \in 1 .. Len(r) : r[i] = q[i + 1]
    OBVIOUS
<1> HIDE DEF r, h
<1>2. \A x \in Items(q) : x \in {h} \cup Items(r)
    <2> TAKE x \in Items(q)
    <2>1. PICK i \in 1 .. Len(q) : x = q[i]
        BY DEF Items
    <2>2. CASE i = 1
        BY <1>1, <2>1, <2>2
    <2>3. CASE i # 1
        <3>1. i - 1 \in 1 .. Len(r) /\ r[i - 1] = q[i]
            BY <1>1, <2>3
        <3> QED BY <2>1, <3>1 DEF Items
    <2> QED BY <2>2, <2>3
<1>3. h \in Items(q) /\ \A x \in Items(r) : x \in Items(q)
    <2>1. h \in Items(q)
        BY <1>1 DEF Items
    <2>2. ASSUME NEW i \in 1 .. Len(r) PROVE r[i] \in Items(q)
        <3>1. i + 1 \in 1 .. Len(q) /\ r[i] = q[i + 1]
            BY <1>1
        <3> QED BY <3>1 DEF Items
    <2> QED BY <2>1, <2>2 DEF Items
<1>4. \A i \in 1 .. Len(r) : i + 1 \in 1 .. Len(q) /\ 1 < i + 1
    BY <1>1
<1>5. ASSUME Increasing(q) PROVE Increasing(r)
    <2> SUFFICES ASSUME NEW i \in 1 .. Len(r), NEW j \in 1 .. Len(r), i < j
                 PROVE  Height[r[i]] < Height[r[j]]
        BY DEF Increasing
    <2>1. i + 1 < j + 1 /\ i + 1 \in 1 .. Len(q) /\ j + 1 \in 1 .. Len(q)
        BY <1>4
    <2>2. Height[q[i + 1]] < Height[q[j + 1]]
        BY <1>5, <2>1 DEF Increasing
    <2> QED BY <1>1, <2>2
<1>6. ASSUME Increasing(q) PROVE Before({h}, Items(r))
    <2> SUFFICES ASSUME NEW i \in 1 .. Len(r) PROVE Height[h] < Height[r[i]]
        BY DEF Before, Items
    <2>1. 1 \in 1 .. Len(q)
        BY <1>1
    <2> QED BY <1>1, <1>4, <1>6, <2>1 DEF Increasing
<1> QED BY <1>2, <1>3, <1>5, <1>6 DEF r, h

LEMMA OrderInit == LedgerInit => OrderInv
BY DEF LedgerInit, OrderInv, Items, Executing, Written, Waiting, Before, Increasing

LEMMA NothingApplied ==
    ASSUME LedgerTypeOK, OrderInv, stored = {}
    PROVE  applied = <<>>
<1>1. Items(applied) = {}
    BY DEF OrderInv
<1>2. ASSUME applied # <<>> PROVE FALSE
    <2>1. applied \in Seq(Block)
        BY DEF LedgerTypeOK
    <2>2. Len(applied) \in Nat \ {0}
        BY <1>2, <2>1, EmptySeq
    <2>3. 1 \in 1 .. Len(applied)
        BY <2>2
    <2>4. applied[1] \in Items(applied)
        BY <2>3 DEF Items
    <2> QED BY <1>1, <2>4
<1> QED BY <1>2

LEMMA OrderStep == TypeInv /\ ChainInv /\ OrderInv /\ [LedgerNext]_ledger => OrderInv'
<1> SUFFICES ASSUME TypeInv, ChainInv, OrderInv, [LedgerNext]_ledger PROVE OrderInv'
    OBVIOUS
<1> USE DEF chainVars, wagonVars, stateVars
<1>1. LedgerTypeOK
    BY DEF TypeInv
<1>2. CASE Start
    <2>1. stored = {}
        BY <1>2 DEF Start, ChainInv, ChainIsLinked
    <2>2. Written = {} /\ Written' = {}
        BY <1>2, <2>1 DEF Start, OrderInv, Written
    <2>3. Executing' = Executing /\ Waiting' = Waiting
        BY <1>2 DEF Start, Executing, Waiting
    <2> QED BY <1>2, <2>1, <2>2, <2>3 DEF Start, OrderInv
<1>3. CASE UpdateGenesisBlock
    <2>1. applied = <<>>
        BY <1>1, <1>3, NothingApplied DEF UpdateGenesisBlock, OrderInv
    <2> QED BY <1>3, <2>1
        DEF UpdateGenesisBlock, OrderInv, Executing, Waiting, Written
<1>4. CASE Restart \/ \E b \in Block : Push(b)
    BY <1>4 DEF Restart, Push, OrderInv, Executing, Waiting, Written
<1>5. CASE Crash
    <2>1. crashes' # 0 /\ process' # "genesis"
        BY <1>1, <1>5 DEF Crash, LedgerTypeOK
    <2>2. Executing' = {} /\ Waiting' = {} /\ Written' = {} /\ wagon_queue' = <<>>
        BY <1>5 DEF Crash, Executing, Waiting, Written, Items
    <2> QED BY <1>5, <2>1, <2>2 DEF Crash, OrderInv, Before, Increasing
<1>6. CASE Finalize
    <2> DEFINE b == Head(chain_queue)
    <2>1. CASE Extends(b)
        <3>1. b \in Block /\ stored' = stored \cup {b}
              /\ Written = {} /\ Written' = {b} /\ process = "up"
            BY <1>1, <1>6, <2>1, QueueType DEF Finalize, Written, LedgerTypeOK
        <3>2. \A c \in stored : Height[c] < Height[b]
            BY <1>1, <2>1, <3>1, ExtensionIsHighest
        <3>3. /\ applied' = applied /\ Executing' = Executing /\ Waiting' = Waiting
              /\ wagon_queue' = wagon_queue /\ process' = process
              /\ crashes' = crashes /\ last_block_hash' = last_block_hash
            BY <1>6 DEF Finalize, Executing, Waiting
        <3> HIDE DEF b
        <3> QED BY <3>1, <3>2, <3>3 DEF OrderInv, Before
    <2>2. CASE ~Extends(b)
        BY <1>6, <2>2 DEF Finalize, OrderInv, Executing, Waiting, Written
    <2> QED BY <2>1, <2>2
<1>7. CASE PushToWagon
    <2>1. /\ last \in Block /\ Written = {last} /\ Written' = {}
          /\ Waiting' = Waiting \cup {last} /\ Executing' = Executing
          /\ applied' = applied /\ stored' = stored /\ process' = process
          /\ crashes' = crashes /\ last_block_hash' = last_block_hash
        BY <1>1, <1>7, AppendItems
        DEF PushToWagon, Written, Waiting, Executing, TypeInv, LedgerTypeOK
    <2>2. Increasing(wagon_queue')
        BY <1>1, <1>7, <2>1, AppendItems
        DEF PushToWagon, OrderInv, Waiting, LedgerTypeOK
    <2> QED BY <2>1, <2>2 DEF OrderInv, Before
<1>8. CASE StartBlock
    <2>1. /\ Executing = {} /\ Written' = Written
          /\ applied' = applied /\ stored' = stored /\ process' = process
          /\ crashes' = crashes /\ last_block_hash' = last_block_hash
        BY <1>8 DEF StartBlock, Executing, Written
    <2>2. /\ Head(wagon_queue) \in Block /\ Executing' = {Head(wagon_queue)}
          /\ Waiting = Executing' \cup Waiting'
          /\ Increasing(wagon_queue') /\ Before(Executing', Waiting')
        BY <1>1, <1>8, QueueType, TailItems
        DEF StartBlock, Executing, Waiting, OrderInv, LedgerTypeOK
    <2> QED BY <2>1, <2>2 DEF OrderInv, Before
<1>9. CASE CommitTransaction
    BY <1>9 DEF CommitTransaction, OrderInv, Executing, Waiting, Written
<1>10. CASE UpdateState
    <2>1. /\ executing \in Block /\ Executing = {executing} /\ Executing' = {}
          /\ Waiting' = Waiting /\ Written' = Written
          /\ wagon_queue' = wagon_queue /\ stored' = stored /\ process' = process
          /\ crashes' = crashes
        BY <1>1, <1>10 DEF UpdateState, Executing, Waiting, Written, LedgerTypeOK
    <2>2. /\ Items(applied') = Items(applied) \cup {executing}
          /\ Increasing(applied')
          /\ last_block_hash' = applied'[Len(applied')]
        BY <1>1, <1>10, <2>1, AppendItems DEF UpdateState, OrderInv, Before, LedgerTypeOK
    <2> QED BY <2>1, <2>2 DEF OrderInv, Before
<1>11. CASE UNCHANGED ledger
    BY <1>11 DEF ledger, OrderInv, Executing, Waiting, Written
<1> QED
    BY <1>2, <1>3, <1>4, <1>5, <1>6, <1>7, <1>8, <1>9, <1>10, <1>11
    DEF LedgerNext, ChainStep, WagonStep

LEMMA OrderInvariant == LedgerSpec => [](TypeInv /\ ChainInv /\ OrderInv)
BY ChainInvariant, OrderInit, OrderStep, PTL DEF LedgerSpec

(* The StateDB is made by blocks of the chain, in the order of their heights *)
(* and none of them twice, wherever a crash falls between the write to the   *)
(* one database and the write to the other.                                  *)
THEOREM InOrder == LedgerSpec => []AppliedInOrder
<1>1. OrderInv => AppliedInOrder
    <2> SUFFICES ASSUME OrderInv PROVE AppliedInOrder
        OBVIOUS
    <2>1. \A i \in 1 .. Len(applied) : applied[i] \in stored
        BY DEF OrderInv, Items
    <2> QED BY <2>1 DEF OrderInv, AppliedInOrder, Increasing
<1> QED BY <1>1, OrderInvariant, PTL

(* Without a crash no block that finalize has written is lost on its way     *)
(* through the Wagon, however long the queue is.                             *)
THEOREM NoneSkipped == LedgerSpec => []NothingSkipped
<1>1. OrderInv => NothingSkipped
    BY DEF OrderInv, NothingSkipped, Items, Executing, Waiting, Written
<1> QED BY <1>1, OrderInvariant, PTL

-----------------------------------------------------------------------------
(* The fee is charged before the balance is looked at, and a payment of less *)
(* than zero takes from a recipient whose balance nobody looks at, so a      *)
(* balance may fall below zero; it does so by no more than these took.       *)

LEMMA ChargeFeeSolvent ==
    ASSUME NEW t \in Transfer, NEW state \in [Account -> AccountState],
           Solvent(state)
    PROVE  Solvent(ChargeFee(state, t))
BY DEF Solvent, ChargeFee, Loss, AccountState, Transfer

LEMMA DebitSolvent ==
    ASSUME NEW t \in Transfer, NEW state \in [Account -> AccountState],
           Solvent(state), CanPay(state, t)
    PROVE  Solvent(Debit(state, t))
BY DEF Solvent, Debit, CanPay, AccountState, Transfer

LEMMA CreditSolvent ==
    ASSUME NEW t \in Transfer, NEW state \in [Account -> AccountState],
           Solvent(state)
    PROVE  Solvent(Credit(state, t))
BY DEF Solvent, Credit, Loss, AccountState, Transfer

LEMMA PaySolvent ==
    ASSUME NEW t \in Transfer, NEW state \in [Account -> AccountState],
           Solvent(state), CanPay(state, t)
    PROVE  Solvent(Pay(state, t))
<1>1. Debit(state, t) \in [Account -> AccountState]
    BY DebitType
<1>2. Solvent(Debit(state, t))
    BY DebitSolvent
<1> QED BY <1>1, <1>2, CreditSolvent DEF Pay

LEMMA UnknownSolvent == Solvent(Unknown)
BY DEF Solvent, Unknown

LEMMA SolventInit == LedgerInit => NoOverspend
BY UnknownSolvent DEF LedgerInit, NoOverspend

LEMMA SolventStep == TypeInv /\ NoOverspend /\ [LedgerNext]_ledger => NoOverspend'
<1> SUFFICES ASSUME TypeInv, NoOverspend, [LedgerNext]_ledger PROVE NoOverspend'
    OBVIOUS
<1>1. CASE UNCHANGED <<accounts, dict_state>>
    BY <1>1 DEF NoOverspend, Solvent
<1>2. CASE UpdateGenesisBlock
    <2>1. Solvent(accounts')
        BY <1>2 DEF UpdateGenesisBlock, Solvent
    <2>2. UNCHANGED dict_state
        BY <1>2 DEF UpdateGenesisBlock, wagonVars
    <2> QED BY <2>1, <2>2 DEF NoOverspend, Solvent
<1>3. CASE Crash
    BY <1>3, UnknownSolvent DEF Crash, stateVars, NoOverspend, Solvent
<1>4. CASE StartBlock
    BY <1>4 DEF StartBlock, stateVars, NoOverspend, Solvent
<1>5. CASE CommitTransaction
    <2> DEFINE t == Transactions[executing][position]
               charged == ChargeFee(dict_state, t)
    <2>1. t \in Transfer /\ dict_state \in [Account -> AccountState]
        BY <1>5, TransactionType DEF CommitTransaction, TypeInv, LedgerTypeOK
    <2>2. charged \in [Account -> AccountState] /\ Solvent(charged)
        BY <2>1, ChargeFeeType, ChargeFeeSolvent DEF NoOverspend
    <2>3. CanPay(charged, t) => Solvent(Pay(charged, t))
        BY <2>1, <2>2, PaySolvent
    <2>4. /\ dict_state' = IF CanPay(charged, t) THEN Pay(charged, t) ELSE charged
          /\ accounts' = accounts
        BY <1>5 DEF CommitTransaction, stateVars
    <2> HIDE DEF charged, t
    <2>5. Solvent(dict_state')
        BY <2>2, <2>3, <2>4
    <2> QED BY <2>4, <2>5 DEF NoOverspend, Solvent
<1>6. CASE UpdateState
    BY <1>6 DEF UpdateState, NoOverspend, Solvent
<1> QED
    BY <1>1, <1>2, <1>3, <1>4, <1>5, <1>6
    DEF LedgerNext, ChainStep, WagonStep, Start, Restart, Push, Finalize, PushToWagon,
        ledger, wagonVars, stateVars

(* Nobody can pay out more than he has, whatever transfers the blocks hold,  *)
(* of amounts of either sign, and in whatever order: nobody owes more than   *)
(* his fees and the payments of less than zero that were made to him.        *)
THEOREM NobodyOverspends == LedgerSpec => []NoOverspend
BY TypeInit, TypeStep, SolventInit, SolventStep, PTL DEF LedgerSpec

-----------------------------------------------------------------------------
(* Sums over the accounts.  Total folds over the set of the accounts and     *)
(* takes them out one by one, so what is true of every sum is shown for a    *)
(* set of accounts from the same set without the account that is taken out.  *)

\* The account that the fold takes out of a set
Taken(s) == CHOOSE a \in s : TRUE

\* sum maps each set of accounts in D to the sum of f over it.
Sums(sum, D, f) ==
    sum = [s \in D |-> IF s = {} THEN 0
                                 ELSE f[Taken(s)] + sum[s \ {Taken(s)}]]

LEMMA TotalIs ==
    ASSUME NEW f \in [Account -> Int]
    PROVE  Total(f) = (CHOOSE sum : Sums(sum, SUBSET Account, f))[Account]
BY DEF Total, FoldFunction, FoldFunctionOnSet, MapThenFoldSet, Sums, Taken

LEMMA TakenIn ==
    ASSUME NEW s \in SUBSET Account, s # {}
    PROVE  /\ Taken(s) \in s /\ Taken(s) \in Account
           /\ s \ {Taken(s)} \in SUBSET Account
<1>1. Taken(s) \in s
    BY DEF Taken
<1> QED BY <1>1

\* What holds of no accounts, and of a set when it holds of the set without
\* the account taken, holds of every set.
LEMMA SetInduction ==
    ASSUME NEW T \in SUBSET SUBSET Account, {} \in T,
           \A s \in SUBSET Account :
               s # {} /\ s \ {Taken(s)} \in T => s \in T
    PROVE  T = SUBSET Account
<1> SUFFICES ASSUME T # SUBSET Account PROVE FALSE
    OBVIOUS
<1> DEFINE U == (SUBSET Account) \ T
           R == StrictSubsetOrdering(Account)
<1>1. IsWellFoundedOn(R, FiniteSubsetsOf(Account))
    BY FS_StrictSubsetOrderingWellFounded
<1>2. U # {} /\ U \subseteq FiniteSubsetsOf(Account)
    BY FS_Subset DEF FiniteSubsetsOf
<1> HIDE DEF U, R
<1>3. PICK s \in U : \A u \in U : ~ (<<u, s>> \in R)
    BY <1>1, <1>2, WFMin
<1>4. s \in SUBSET Account /\ s \notin T /\ s # {}
    BY DEF U
<1>5. Taken(s) \in s
    BY <1>4, TakenIn
<1>6. s \ {Taken(s)} \in U
    BY <1>4 DEF U
<1>7. <<s \ {Taken(s)}, s>> \in R
    BY <1>4, <1>5 DEF R, StrictSubsetOrdering
<1> QED BY <1>3, <1>6, <1>7

\* The sets of at most n accounts
UpTo(n) == {s \in SUBSET Account : Cardinality(s) <= n}

LEMMA Cardinals ==
    /\ Cardinality({}) = 0
    /\ \A s \in SUBSET Account :
           /\ Cardinality(s) \in Nat
           /\ Cardinality(s) <= Cardinality(Account)
           /\ s = {} <=> Cardinality(s) = 0
           /\ s # {} => Cardinality(s \ {Taken(s)}) = Cardinality(s) - 1
<1>1. ASSUME NEW s \in SUBSET Account
      PROVE  /\ IsFiniteSet(s) /\ Cardinality(s) <= Cardinality(Account)
             /\ Cardinality(s) \in Nat
    BY FS_Subset, FS_CardinalityType
<1>2. ASSUME NEW s \in SUBSET Account
      PROVE  s = {} <=> Cardinality(s) = 0
    BY <1>1, FS_EmptySet
<1>3. ASSUME NEW s \in SUBSET Account, s # {}
      PROVE  Cardinality(s \ {Taken(s)}) = Cardinality(s) - 1
  <2>1. IsFiniteSet(s) /\ Taken(s) \in s
    BY <1>1, <1>3, TakenIn
  <2> QED BY <2>1, FS_RemoveElement
<1> QED BY <1>1, <1>2, <1>3, FS_EmptySet

\* The sums over sets of n accounts follow from those over fewer.
LEMMA SumsGrow ==
    ASSUME NEW f \in [Account -> Int], NEW n \in Nat,
           NEW g \in [UpTo(n) -> Int], Sums(g, UpTo(n), f)
    PROVE  \E h \in [UpTo(n + 1) -> Int] : Sums(h, UpTo(n + 1), f)
<1> DEFINE D == UpTo(n)
           E == UpTo(n + 1)
           h == [s \in E |-> IF s \in D THEN g[s]
                               ELSE f[Taken(s)] + g[s \ {Taken(s)}]]
<1>1. ASSUME NEW s \in E, s # {}
      PROVE  Taken(s) \in Account /\ s \ {Taken(s)} \in D
  <2>1. s \in SUBSET Account /\ Cardinality(s) <= n + 1
    BY DEF UpTo
  <2>2. /\ Taken(s) \in Account /\ s \ {Taken(s)} \in SUBSET Account
        /\ Cardinality(s) \in Nat
        /\ Cardinality(s \ {Taken(s)}) = Cardinality(s) - 1
    BY <1>1, <2>1, Cardinals, TakenIn
  <2>3. Cardinality(s \ {Taken(s)}) <= n
    BY <2>1, <2>2
  <2> QED BY <2>2, <2>3 DEF UpTo
<1>2. ASSUME NEW s \in D PROVE s \in E
  <2>1. s \in SUBSET Account /\ Cardinality(s) <= n /\ Cardinality(s) \in Nat
    BY Cardinals DEF UpTo
  <2> QED BY <2>1 DEF UpTo
<1>3. {} \in D
    BY Cardinals DEF UpTo
<1>4. \A s \in D : g[s] = IF s = {} THEN 0
                            ELSE f[Taken(s)] + g[s \ {Taken(s)}]
    BY DEF Sums
<1> HIDE DEF D, E
<1>5. h \in [E -> Int]
  <2>1. g \in [D -> Int]
    BY DEF D
  <2>2. ASSUME NEW s \in E
        PROVE  (IF s \in D THEN g[s]
                  ELSE f[Taken(s)] + g[s \ {Taken(s)}]) \in Int
    <3>1. CASE s \in D
      BY <2>1, <3>1
    <3>2. CASE s \notin D
      <4>1. f[Taken(s)] \in Int /\ g[s \ {Taken(s)}] \in Int
        BY <1>1, <1>3, <2>1, <3>2
      <4> QED BY <3>2, <4>1
    <3> QED BY <3>1, <3>2
  <2> QED BY <2>2
<1>6. \A s \in E : h[s] = IF s = {} THEN 0
                            ELSE f[Taken(s)] + h[s \ {Taken(s)}]
  <2> SUFFICES ASSUME NEW s \in E
               PROVE  h[s] = IF s = {} THEN 0
                               ELSE f[Taken(s)] + h[s \ {Taken(s)}]
    OBVIOUS
  <2>1. CASE s = {}
    BY <1>3, <1>4, <2>1
  <2>2. CASE s # {}
    <3>1. s \ {Taken(s)} \in D /\ s \ {Taken(s)} \in E
      BY <1>1, <1>2, <2>2
    <3>2. h[s \ {Taken(s)}] = g[s \ {Taken(s)}]
      BY <3>1
    <3>3. h[s] = f[Taken(s)] + g[s \ {Taken(s)}]
      BY <1>4, <2>2
    <3> QED BY <2>2, <3>2, <3>3
  <2> QED BY <2>1, <2>2
<1> HIDE DEF h
<1>7. Sums(h, E, f)
    BY <1>5, <1>6 DEF Sums
<1> QED BY <1>5, <1>7 DEF E

\* Every function has sums.
LEMMA SumsExist ==
    ASSUME NEW f \in [Account -> Int]
    PROVE  \E sum \in [SUBSET Account -> Int] : Sums(sum, SUBSET Account, f)
<1> DEFINE Sized(n) == \E g \in [UpTo(n) -> Int] : Sums(g, UpTo(n), f)
           T == {s \in SUBSET Account : Sized(Cardinality(s))}
<1>1. Sized(0)
  <2> DEFINE g == [s \in {{}} |-> 0]
  <2>1. UpTo(0) = {{}}
    <3>1. ASSUME NEW s \in SUBSET Account, Cardinality(s) <= 0 PROVE s = {}
      <4>1. Cardinality(s) \in Nat
        BY Cardinals
      <4>2. Cardinality(s) = 0
        BY <3>1, <4>1
      <4> QED BY <4>2, Cardinals
    <3>2. {} \in SUBSET Account /\ Cardinality({}) <= 0
      BY Cardinals
    <3> QED BY <3>1, <3>2 DEF UpTo
  <2>2. g \in [{{}} -> Int] /\ Sums(g, {{}}, f)
    BY DEF Sums
  <2> QED BY <2>1, <2>2
<1>2. ASSUME NEW n \in Nat, Sized(n) PROVE Sized(n + 1)
    BY <1>2, SumsGrow
<1> HIDE DEF Sized
<1>3. {} \in T
    BY <1>1, Cardinals
<1>4. ASSUME NEW s \in SUBSET Account, s # {}, s \ {Taken(s)} \in T
      PROVE  s \in T
  <2> DEFINE u == s \ {Taken(s)}
  <2>1. u \in SUBSET Account
    BY <1>4, TakenIn
  <2>2. /\ Cardinality(u) \in Nat /\ Cardinality(s) \in Nat
        /\ Cardinality(u) = Cardinality(s) - 1
    BY <1>4, <2>1, Cardinals
  <2>3. Sized(Cardinality(u))
    BY <1>4
  <2> HIDE DEF u
  <2>4. PICK n \in Nat : n = Cardinality(u)
    BY <2>2
  <2>5. Cardinality(s) = n + 1
    BY <2>2, <2>4
  <2>6. Sized(n + 1)
    BY <1>2, <2>3, <2>4
  <2> QED BY <2>5, <2>6
<1> HIDE DEF T
<1>5. T = SUBSET Account
  <2>1. T \in SUBSET SUBSET Account
    BY DEF T
  <2> QED BY <1>3, <1>4, <2>1, SetInduction
<1>6. Sized(Cardinality(Account))
    BY <1>5 DEF T
<1>7. UpTo(Cardinality(Account)) = SUBSET Account
    BY Cardinals DEF UpTo
<1> QED BY <1>6, <1>7 DEF Sized

Sum(f) == CHOOSE sum : Sums(sum, SUBSET Account, f)

LEMMA SumIs ==
    ASSUME NEW f \in [Account -> Int]
    PROVE  /\ Sum(f) \in [SUBSET Account -> Int]
           /\ Sum(f)[{}] = 0
           /\ \A s \in SUBSET Account :
                  s # {} => Sum(f)[s] = f[Taken(s)] + Sum(f)[s \ {Taken(s)}]
           /\ Total(f) = Sum(f)[Account]
<1>1. PICK g \in [SUBSET Account -> Int] : Sums(g, SUBSET Account, f)
    BY SumsExist
<1>2. Sums(Sum(f), SUBSET Account, f)
    BY <1>1 DEF Sum
<1> DEFINE h == Sum(f)
<1>3. Total(f) = h[Account]
    BY TotalIs DEF Sum
<1> HIDE DEF h
<1>4. h = [s \in SUBSET Account |->
              IF s = {} THEN 0 ELSE f[Taken(s)] + h[s \ {Taken(s)}]]
    BY <1>2 DEF Sums, h
<1>5. /\ h[{}] = 0
      /\ \A s \in SUBSET Account :
             s # {} => h[s] = f[Taken(s)] + h[s \ {Taken(s)}]
    BY <1>4
<1>6. h \in [SUBSET Account -> Int]
  <2> DEFINE T == {s \in SUBSET Account : h[s] \in Int}
  <2>1. {} \in T
    BY <1>5
  <2>2. ASSUME NEW s \in SUBSET Account, s # {}, s \ {Taken(s)} \in T
        PROVE  s \in T
    <3>1. /\ h[s] = f[Taken(s)] + h[s \ {Taken(s)}]
          /\ h[s \ {Taken(s)}] \in Int
      BY <1>5, <2>2
    <3>2. f[Taken(s)] \in Int
      BY <2>2, TakenIn
    <3> QED BY <3>1, <3>2
  <2> HIDE DEF T
  <2>3. T \in SUBSET SUBSET Account
    BY DEF T
  <2>4. T = SUBSET Account
    BY <2>1, <2>2, <2>3, SetInduction
  <2>5. \A s \in SUBSET Account : h[s] \in Int
    BY <2>4 DEF T
  <2> QED BY <1>4, <2>5
<1> QED BY <1>3, <1>5, <1>6 DEF h

\* What is added to one account is added to the total.
LEMMA TotalAdds ==
    ASSUME NEW f \in [Account -> Int], NEW a \in Account, NEW d \in Int
    PROVE  Total([f EXCEPT ![a] = f[a] + d]) = Total(f) + d
<1> DEFINE g == [f EXCEPT ![a] = f[a] + d]
           F == Sum(f)
           G == Sum(g)
           T == {s \in SUBSET Account :
                    G[s] = IF a \in s THEN F[s] + d ELSE F[s]}
<1>1. /\ g \in [Account -> Int]
      /\ \A b \in Account : g[b] = IF b = a THEN f[b] + d ELSE f[b]
    OBVIOUS
<1> HIDE DEF g
<1>2. /\ F \in [SUBSET Account -> Int] /\ F[{}] = 0
      /\ \A s \in SUBSET Account :
             s # {} => F[s] = f[Taken(s)] + F[s \ {Taken(s)}]
      /\ Total(f) = F[Account]
    BY SumIs
<1>3. /\ G \in [SUBSET Account -> Int] /\ G[{}] = 0
      /\ \A s \in SUBSET Account :
             s # {} => G[s] = g[Taken(s)] + G[s \ {Taken(s)}]
      /\ Total(g) = G[Account]
    BY <1>1, SumIs
<1> HIDE DEF F, G
<1>4. {} \in T
    BY <1>2, <1>3
<1>5. ASSUME NEW s \in SUBSET Account, s # {}, s \ {Taken(s)} \in T
      PROVE  s \in T
  <2> DEFINE x == Taken(s)
             u == s \ {x}
  <2>1. x \in s /\ x \in Account /\ u \in SUBSET Account
    BY <1>5, TakenIn
  <2>2. G[u] = IF a \in u THEN F[u] + d ELSE F[u]
    BY <1>5
  <2>3. F[s] = f[x] + F[u] /\ G[s] = g[x] + G[u]
    BY <1>2, <1>3, <1>5
  <2>4. f[x] \in Int /\ F[u] \in Int /\ g[x] = IF x = a THEN f[x] + d ELSE f[x]
    BY <1>1, <1>2, <2>1
  <2> HIDE DEF x
  <2>5. a \in s <=> (a \in u \/ x = a)
    BY <2>1
  <2>6. ~(a \in u /\ x = a)
    OBVIOUS
  <2> HIDE DEF u
  <2>7. G[s] = IF a \in s THEN F[s] + d ELSE F[s]
    BY <2>2, <2>3, <2>4, <2>5, <2>6
  <2> QED BY <2>7
<1> HIDE DEF T
<1>6. T \in SUBSET SUBSET Account
    BY DEF T
<1>7. T = SUBSET Account
    BY <1>4, <1>5, <1>6, SetInduction
<1>8. G[Account] = F[Account] + d
    BY <1>7 DEF T
<1> QED BY <1>2, <1>3, <1>8 DEF g

\* Nothing adds up to nothing.
LEMMA TotalOfNothing == Total([a \in Account |-> 0]) = 0
<1> DEFINE f == [a \in Account |-> 0]
           T == {s \in SUBSET Account : Sum(f)[s] = 0}
<1>1. f \in [Account -> Int] /\ \A a \in Account : f[a] = 0
    OBVIOUS
<1> HIDE DEF f
<1>2. /\ Sum(f)[{}] = 0
      /\ \A s \in SUBSET Account :
             s # {} => Sum(f)[s] = f[Taken(s)] + Sum(f)[s \ {Taken(s)}]
      /\ Total(f) = Sum(f)[Account]
    BY <1>1, SumIs
<1>3. {} \in T
    BY <1>2
<1>4. ASSUME NEW s \in SUBSET Account, s # {}, s \ {Taken(s)} \in T
      PROVE  s \in T
  <2>1. /\ Sum(f)[s] = f[Taken(s)] + Sum(f)[s \ {Taken(s)}]
        /\ Sum(f)[s \ {Taken(s)}] = 0
    BY <1>2, <1>4
  <2>2. f[Taken(s)] = 0
    BY <1>1, <1>4, TakenIn
  <2> QED BY <2>1, <2>2
<1> HIDE DEF T
<1>5. T \in SUBSET SUBSET Account
    BY DEF T
<1>6. T = SUBSET Account
    BY <1>3, <1>4, <1>5, SetInduction
<1>7. Sum(f)[Account] = 0
    BY <1>6 DEF T
<1> QED BY <1>2, <1>7 DEF f

-----------------------------------------------------------------------------
(* The funds.                                                                *)

\* What an account was given and not paid away to another
Worth(state) == [a \in Account |-> state[a].balance + state[a].paid]

LEMMA WorthType ==
    ASSUME NEW state \in [Account -> AccountState]
    PROVE  Worth(state) \in [Account -> Int]
BY DEF Worth, AccountState

LEMMA ChargeFeeWorth ==
    ASSUME NEW t \in Transfer, NEW state \in [Account -> AccountState]
    PROVE  Worth(ChargeFee(state, t)) = Worth(state)
BY DEF Worth, ChargeFee, AccountState, Transfer

LEMMA DebitWorth ==
    ASSUME NEW t \in Transfer, NEW state \in [Account -> AccountState]
    PROVE  Total(Worth(Debit(state, t))) =
               Total(Worth(state)) + (-t.amount_value)
<1> DEFINE f == Worth(state)
           a == t.address_sender
           d == -t.amount_value
<1>1. a \in Account /\ d \in Int /\ f \in [Account -> Int]
    BY WorthType DEF Transfer
<1>2. Worth(Debit(state, t)) = [f EXCEPT ![a] = f[a] + d]
  <2>1. ASSUME NEW b \in Account
        PROVE  Worth(Debit(state, t))[b] = [f EXCEPT ![a] = f[a] + d][b]
    <3>1. /\ state[b].balance \in Int /\ state[b].paid \in Int
          /\ t.amount_value \in Int
      BY DEF AccountState, Transfer
    <3> QED BY <1>1, <3>1 DEF Worth, Debit, AccountState
  <2> QED BY <1>1, <2>1 DEF Worth
<1> HIDE DEF f, a, d
<1>3. Total([f EXCEPT ![a] = f[a] + d]) = Total(f) + d
    BY <1>1, TotalAdds
<1> QED BY <1>2, <1>3 DEF f, d

LEMMA CreditWorth ==
    ASSUME NEW t \in Transfer, NEW state \in [Account -> AccountState]
    PROVE  Total(Worth(Credit(state, t))) =
               Total(Worth(state)) + t.amount_value
<1> DEFINE f == Worth(state)
           a == t.address_recipient
           d == t.amount_value
<1>1. a \in Account /\ d \in Int /\ f \in [Account -> Int]
    BY WorthType DEF Transfer
<1>2. Worth(Credit(state, t)) = [f EXCEPT ![a] = f[a] + d]
  <2>1. ASSUME NEW b \in Account
        PROVE  Worth(Credit(state, t))[b] = [f EXCEPT ![a] = f[a] + d][b]
    <3>1. /\ state[b].balance \in Int /\ state[b].paid \in Int
          /\ t.amount_value \in Int
      BY DEF AccountState, Transfer
    <3> QED BY <1>1, <3>1 DEF Worth, Credit, AccountState
  <2> QED BY <1>1, <2>1 DEF Worth
<1> HIDE DEF f, a, d
<1>3. Total([f EXCEPT ![a] = f[a] + d]) = Total(f) + d
    BY <1>1, TotalAdds
<1> QED BY <1>2, <1>3 DEF f, d

\* A payment moves money, be it to the payer himself.
LEMMA PayWorth ==
    ASSUME NEW t \in Transfer, NEW state \in [Account -> AccountState]
    PROVE  Total(Worth(Pay(state, t))) = Total(Worth(state))
<1> DEFINE s == Debit(state, t)
<1>1. s \in [Account -> AccountState]
    BY DebitType
<1>2. Total(Worth(s)) = Total(Worth(state)) + (-t.amount_value)
    BY DebitWorth
<1> HIDE DEF s
<1>3. Total(Worth(Credit(s, t))) = Total(Worth(s)) + t.amount_value
    BY <1>1, CreditWorth
<1>4. Total(Worth(state)) \in Int
  <2>1. PICK f \in [Account -> Int] : f = Worth(state)
    BY WorthType
  <2>2. Total(f) \in Int
    <3>1. Total(f) = Sum(f)[Account] /\ Sum(f) \in [SUBSET Account -> Int]
      BY SumIs
    <3> QED BY <3>1
  <2> QED BY <2>1, <2>2
<1>5. t.amount_value \in Int
    BY DEF Transfer
<1>6. Total(Worth(Credit(s, t))) = Total(Worth(state))
    BY <1>2, <1>3, <1>4, <1>5
<1> QED BY <1>6 DEF Pay, s

\* The Wagon executes with the funds of the StateDB.  Until the accounts are
\* funded they have nothing, which a crash may leave so for ever.
FundsInv ==
    /\ process # "up" =>
           /\ executing = NoBlock /\ wagon_queue = <<>>
           /\ chain_thread = "idle"
    /\ executing # NoBlock => Total(Worth(dict_state)) = Funds
    /\ process = "genesis" \/ (process = "down" /\ last = NoBlock) => Funds = 0
    /\ process = "up" \/ (process = "down" /\ last # NoBlock) =>
           Funds = Total(Assignment) \/ (Funds = 0 /\ crashes > 0)

LEMMA FundsAre == Funds = Total(Worth(accounts))
BY DEF Funds, Worth

LEMMA FundsInit == LedgerInit => FundsInv
<1> SUFFICES ASSUME LedgerInit PROVE FundsInv
    OBVIOUS
<1>1. Worth(accounts) = [a \in Account |-> 0]
    BY DEF LedgerInit, Worth, Unknown
<1>2. Funds = 0
    BY <1>1, FundsAre, TotalOfNothing
<1> QED BY <1>2 DEF LedgerInit, FundsInv

LEMMA FundsStep == TypeInv /\ ChainInv /\ FundsInv /\ [LedgerNext]_ledger => FundsInv'
<1> SUFFICES ASSUME TypeInv, ChainInv, FundsInv, [LedgerNext]_ledger PROVE FundsInv'
    OBVIOUS
<1> USE DEF chainVars, wagonVars, stateVars
<1>1. Funds = Total(Worth(accounts)) /\ Funds' = Total(Worth(accounts'))
    BY DEF Funds, Worth
<1>2. ASSUME UNCHANGED accounts PROVE Funds' = Funds
    BY <1>1, <1>2
<1>3. crashes \in Nat /\ process \in {"down", "genesis", "up"}
    BY CrashAssumption DEF TypeInv, LedgerTypeOK
<1>4. CASE UNCHANGED ledger
    BY <1>2, <1>4 DEF ledger, FundsInv
<1>5. CASE Start
    BY <1>2, <1>5 DEF Start, FundsInv
<1>6. CASE UpdateGenesisBlock
  <2>1. Worth(accounts') = Assignment
    BY <1>6 DEF UpdateGenesisBlock, Worth
  <2>2. Funds' = Total(Assignment)
    BY <1>1, <2>1
  <2> QED BY <1>6, <2>2 DEF UpdateGenesisBlock, FundsInv
<1>7. CASE Restart
    BY <1>2, <1>7 DEF Restart, FundsInv
<1>8. CASE Crash
    BY <1>2, <1>3, <1>8 DEF Crash, FundsInv, ChainInv
<1>9. ASSUME NEW b \in Block, Push(b) PROVE FundsInv'
    BY <1>2, <1>9 DEF Push, FundsInv
<1>10. CASE Finalize
    BY <1>2, <1>10 DEF Finalize, FundsInv
<1>11. CASE PushToWagon
    BY <1>2, <1>11 DEF PushToWagon, FundsInv
<1>12. CASE StartBlock
    BY <1>1, <1>2, <1>12 DEF StartBlock, FundsInv
<1>13. CASE CommitTransaction
  <2> DEFINE t == Transactions[executing][position]
             charged == ChargeFee(dict_state, t)
  <2>1. t \in Transfer /\ dict_state \in [Account -> AccountState]
    BY <1>13, TransactionType DEF CommitTransaction, TypeInv, LedgerTypeOK
  <2>2. PICK u \in Transfer, s \in [Account -> AccountState] :
            u = t /\ s = dict_state
    BY <2>1
  <2>3. dict_state' = IF CanPay(charged, t) THEN Pay(charged, t) ELSE charged
    BY <1>13 DEF CommitTransaction
  <2> DEFINE c == ChargeFee(s, u)
  <2>4. c \in [Account -> AccountState] /\ Total(Worth(c)) = Total(Worth(s))
    BY ChargeFeeType, ChargeFeeWorth
  <2>5. dict_state' = Pay(c, u) \/ dict_state' = c
    BY <2>2, <2>3
  <2> HIDE DEF t, charged, c
  <2>6. Total(Worth(Pay(c, u))) = Total(Worth(s))
    BY <2>4, PayWorth
  <2>7. Total(Worth(dict_state')) = Total(Worth(dict_state))
    BY <2>2, <2>4, <2>5, <2>6
  <2> QED BY <1>2, <1>13, <2>7 DEF CommitTransaction, FundsInv
<1>14. CASE UpdateState
  <2>1. accounts' = dict_state /\ executing # NoBlock
    BY <1>14 DEF UpdateState
  <2>2. Funds' = Funds
    BY <1>1, <2>1 DEF FundsInv
  <2> QED BY <1>14, <2>2 DEF UpdateState, FundsInv
<1> QED
    BY <1>4, <1>5, <1>6, <1>7, <1>8, <1>9, <1>10, <1>11, <1>12, <1>13, <1>14
    DEF LedgerNext, ChainStep, WagonStep

(* Whatever transfers the blocks hold, and wherever the process crashes, the *)
(* balances and the fees add up to what the genesis block assigned.          *)
THEOREM Conserved == LedgerSpec => []MoneyIsConserved
<1>1. FundsInv => MoneyIsConserved
    BY DEF FundsInv, MoneyIsConserved
<1> QED BY <1>1, ChainInvariant, FundsInit, FundsStep, PTL DEF LedgerSpec
=============================================================================
