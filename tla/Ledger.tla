------------------------------- MODULE Ledger -------------------------------
(* One node's chain and world state through crashes: the BlockChain thread   *)
(* (gbrick/blockchain/blockchain.py), the Wagon thread that executes what it *)
(* finalises (gbrick/wagon), and the two databases they write, each alone    *)
(* (blockchain.py, statedb/statedb.py).  The queues between them are in      *)
(* memory only.                                                              *)
(*                                                                           *)
(* A block is its hash.  The engine hands over any block, of any height, on  *)
(* any branch.  _num_height and _block_last, the copies of the database that *)
(* the engine reads, are in LLFC; a restart reads them anew.  A crash is one *)
(* of the process: what was written to a database is there after it.         *)
EXTENDS Integers, Sequences, FiniteSets, Functions

CONSTANTS
    Account,      \* addresses
    Block,        \* finalised blocks
    Height, Prev, \* num_height and hash_prev_block of a block
    Transactions, \* list_transactions of a block
    Assignment,   \* dict_assignment of the genesis block, 0 where it has none
    MaxCrash,     \* bound: the process crashes at most so often
    Genesis,      \* the genesis block
    NoBlock       \* a key that is not in the database, a thread with no block

\* Nothing looks at the sign of an amount: from_dict takes what the JSON has,
\* commit only compares it with the balance, and the engine's call of
\* _is_valid is commented out.
Transfer ==
    [address_sender : Account, address_recipient : Account,
     amount_value : Int, amount_fee : Int]

ASSUME BlockAssumption ==
    /\ Genesis \notin Block /\ NoBlock \notin Block /\ Genesis # NoBlock
    /\ Height \in [Block -> Nat \ {0}]
    /\ Prev \in [Block -> Block \cup {Genesis}]
    /\ Transactions \in [Block -> Seq(Transfer)]
ASSUME GenesisAssumption ==
    IsFiniteSet(Account) /\ Assignment \in [Account -> Nat]
ASSUME CrashAssumption == MaxCrash \in Nat

HeightOf(b) == IF b = Genesis THEN 0 ELSE Height[b]

VARIABLES
    process,      \* "down", "genesis" (half of the first start), "up"
    incoming,     \* the blocks the engine has not handed over yet
    \* BlockChain: its queue, its thread, its database
    chain_queue,
    chain_thread, \* "idle", "written" (half of finalize), "dead"
    last,         \* the keys 'last' and 'height'
    stored,       \* the blocks, by hash
    \* Wagon: its queue, its thread
    wagon_queue,
    executing,    \* the block TransactionProcessPool.start is in, or NoBlock
    position,     \* its next transaction
    dict_state,   \* its copy of the accounts
    \* StateDB: the accounts, 'last_block_hash' ('height' is that block's)
    accounts,
    last_block_hash,
    \* history
    applied,      \* the blocks whose execution reached the StateDB
    crashes

chainVars == <<chain_queue, chain_thread, last, stored>>
wagonVars == <<wagon_queue, executing, position, dict_state>>
stateVars == <<accounts, last_block_hash, applied>>
ledger == <<process, incoming, chainVars, wagonVars, stateVars, crashes>>

\* History: paid is the sum of the fees the account has been charged, taken
\* what was taken from it without a look at its balance, which are the fees
\* above zero and the payments to it below zero.
AccountState == [balance : Int, paid : Int, taken : Nat]

\* StateDB.get_state makes up an account it does not find.
Unknown == [a \in Account |-> [balance |-> 0, paid |-> 0, taken |-> 0]]

LedgerTypeOK ==
    /\ process \in {"down", "genesis", "up"}
    /\ incoming \in SUBSET Block
    /\ chain_queue \in Seq(Block)
    /\ chain_thread \in {"idle", "written", "dead"}
    /\ last \in Block \cup {Genesis, NoBlock}
    /\ stored \in SUBSET Block
    /\ wagon_queue \in Seq(Block)
    /\ executing \in Block \cup {NoBlock}
    /\ position \in Nat \ {0}
    /\ dict_state \in [Account -> AccountState]
    /\ accounts \in [Account -> AccountState]
    /\ last_block_hash \in Block \cup {Genesis, NoBlock}
    /\ applied \in Seq(Block)
    /\ crashes \in 0 .. MaxCrash

LedgerInit ==
    /\ process = "down"
    /\ incoming = Block
    /\ chain_queue = <<>>
    /\ chain_thread = "idle"
    /\ last = NoBlock
    /\ stored = {}
    /\ wagon_queue = <<>>
    /\ executing = NoBlock
    /\ position = 1
    /\ dict_state = Unknown
    /\ accounts = Unknown
    /\ last_block_hash = NoBlock
    /\ applied = <<>>
    /\ crashes = 0

-----------------------------------------------------------------------------
(* The process.                                                              *)

\* BlockChain.__init__ when the database has no height
Start ==
    /\ process = "down"
    /\ last = NoBlock
    /\ last' = Genesis
    /\ process' = "genesis"
    /\ UNCHANGED <<incoming, chain_queue, chain_thread, stored, wagonVars,
                   stateVars, crashes>>

\* StateDB.update_genesis_block, in the same __init__
UpdateGenesisBlock ==
    /\ process = "genesis"
    /\ accounts' =
        [a \in Account |-> [balance |-> Assignment[a], paid |-> 0, taken |-> 0]]
    /\ last_block_hash' = Genesis
    /\ process' = "up"
    /\ UNCHANGED <<incoming, chainVars, wagonVars, applied, crashes>>

\* Mutant: the block on top of the chain is executed again.
RestartReplays ==
    /\ process = "down"
    /\ last # NoBlock
    /\ process' = "up"
    /\ wagon_queue' = IF last = Genesis THEN <<>> ELSE <<last>>
    /\ UNCHANGED <<incoming, chainVars, executing, position, dict_state,
                   stateVars, crashes>>

\* BlockChain.__init__ when it has
Restart ==
    /\ process = "down"
    /\ last # NoBlock
    /\ process' = "up"
    /\ UNCHANGED <<incoming, chainVars, wagonVars, stateVars, crashes>>

\* What is in memory is gone.
Crash ==
    /\ process # "down"
    /\ crashes < MaxCrash
    /\ process' = "down"
    /\ chain_queue' = <<>>
    /\ chain_thread' = "idle"
    /\ wagon_queue' = <<>>
    /\ executing' = NoBlock
    /\ position' = 1
    /\ dict_state' = Unknown
    /\ crashes' = crashes + 1
    /\ UNCHANGED <<incoming, last, stored, stateVars>>

-----------------------------------------------------------------------------
(* BlockChain.                                                               *)

\* BlockChain.push, by the engine
Push(b) ==
    /\ process = "up"
    /\ b \in incoming
    /\ incoming' = incoming \ {b}
    /\ chain_queue' = Append(chain_queue, b)
    /\ UNCHANGED <<process, chain_thread, last, stored, wagonVars, stateVars,
                   crashes>>

Extends(b) == Height[b] = HeightOf(last) + 1 /\ Prev[b] = last

\* Mutant: the previous hash is not compared.
FinalizeAnyBranch ==
    LET b == Head(chain_queue)
    IN  /\ process = "up" /\ chain_thread = "idle" /\ chain_queue # <<>>
        /\ chain_queue' = Tail(chain_queue)
        /\ IF Height[b] = HeightOf(last) + 1
             THEN /\ last' = b
                  /\ stored' = stored \cup {b}
                  /\ chain_thread' = "written"
             ELSE chain_thread' = "dead" /\ UNCHANGED <<last, stored>>
        /\ UNCHANGED <<process, incoming, wagonVars, stateVars, crashes>>

\* finalize, to the write of the batch: a block that does not extend the chain
\* is a ValueError, which ends the thread.
Finalize ==
    LET b == Head(chain_queue)
    IN  /\ process = "up" /\ chain_thread = "idle" /\ chain_queue # <<>>
        /\ chain_queue' = Tail(chain_queue)
        /\ IF Extends(b)
             THEN /\ last' = b
                  /\ stored' = stored \cup {b}
                  /\ chain_thread' = "written"
             ELSE chain_thread' = "dead" /\ UNCHANGED <<last, stored>>
        /\ UNCHANGED <<process, incoming, wagonVars, stateVars, crashes>>

\* Mutant: a busy Wagon does not get the block.
PushToIdleWagon ==
    /\ chain_thread = "written"
    /\ chain_thread' = "idle"
    /\ wagon_queue' =
        IF executing = NoBlock THEN Append(wagon_queue, last) ELSE wagon_queue
    /\ UNCHANGED <<process, incoming, chain_queue, last, stored, executing,
                   position, dict_state, stateVars, crashes>>

\* The rest of finalize
PushToWagon ==
    /\ chain_thread = "written"
    /\ chain_thread' = "idle"
    /\ wagon_queue' = Append(wagon_queue, last)
    /\ UNCHANGED <<process, incoming, chain_queue, last, stored, executing,
                   position, dict_state, stateVars, crashes>>

-----------------------------------------------------------------------------
(* Wagon.                                                                    *)

\* Mutant: the first transaction is looked for one too early.
StartBlockAtZero ==
    /\ executing = NoBlock
    /\ wagon_queue # <<>>
    /\ executing' = Head(wagon_queue)
    /\ wagon_queue' = Tail(wagon_queue)
    /\ position' = 0
    /\ dict_state' = accounts
    /\ UNCHANGED <<process, incoming, chainVars, stateVars, crashes>>

\* TransactionProcessPool.start: verify_block always succeeds on a block that
\* finalize has accepted.
StartBlock ==
    /\ executing = NoBlock
    /\ wagon_queue # <<>>
    /\ executing' = Head(wagon_queue)
    /\ wagon_queue' = Tail(wagon_queue)
    /\ position' = 1
    /\ dict_state' = accounts
    /\ UNCHANGED <<process, incoming, chainVars, stateVars, crashes>>

\* What an amount above zero takes
Loss(amount) == IF amount > 0 THEN amount ELSE 0

ChargeFee(state, t) ==
    [state EXCEPT ![t.address_sender] =
        [balance |-> @.balance - t.amount_fee,
         paid |-> @.paid + t.amount_fee,
         taken |-> @.taken + Loss(t.amount_fee)]]

\* Mutant: the balance is compared with nothing but zero.
HasCredit(state, t) == state[t.address_sender].balance > 0

CanPay(state, t) ==
    /\ state[t.address_sender].balance > 0
    /\ state[t.address_sender].balance >= t.amount_value

Debit(state, t) ==
    [state EXCEPT ![t.address_sender] =
        [balance |-> @.balance - t.amount_value,
         paid |-> @.paid, taken |-> @.taken]]
Credit(state, t) ==
    [state EXCEPT ![t.address_recipient] =
        [balance |-> @.balance + t.amount_value, paid |-> @.paid,
         taken |-> @.taken + Loss(-t.amount_value)]]

\* Mutant: the recipient's balance is the one from before the payment.
PaySeparately(state, t) ==
    [Debit(state, t) EXCEPT ![t.address_recipient].balance =
        state[t.address_recipient].balance + t.amount_value]

\* Sender and recipient are the same object when their address is.
Pay(state, t) == Credit(Debit(state, t), t)

\* Tpu.commit: every account is of type EOA, since nothing makes another.  A
\* transfer that cannot be paid has been charged its fee.
CommitTransaction ==
    LET t == Transactions[executing][position]
        charged == ChargeFee(dict_state, t)
    IN  /\ executing # NoBlock
        /\ position <= Len(Transactions[executing])
        /\ dict_state' = IF CanPay(charged, t) THEN Pay(charged, t) ELSE charged
        /\ position' = position + 1
        /\ UNCHANGED <<process, incoming, chainVars, wagon_queue, executing,
                       stateVars, crashes>>

\* StateDB.update_state: one batch
UpdateState ==
    /\ executing # NoBlock
    /\ position > Len(Transactions[executing])
    /\ accounts' = dict_state
    /\ last_block_hash' = executing
    /\ applied' = Append(applied, executing)
    /\ executing' = NoBlock
    /\ UNCHANGED <<process, incoming, chainVars, wagon_queue, position,
                   dict_state, crashes>>

-----------------------------------------------------------------------------
ChainStep == Finalize \/ PushToWagon
WagonStep == StartBlock \/ CommitTransaction \/ UpdateState

LedgerNext ==
    \/ Start
    \/ UpdateGenesisBlock
    \/ Restart
    \/ Crash
    \/ \E b \in Block : Push(b)
    \/ ChainStep
    \/ WagonStep

LedgerSpec == LedgerInit /\ [][LedgerNext]_ledger

\* The two queue threads run for as long as the process does.
LedgerFairness == WF_ledger(ChainStep) /\ WF_ledger(WagonStep)

-----------------------------------------------------------------------------
(* The chain on disk is one branch that goes back to the genesis block, at   *)
(* every moment of every crash, whatever blocks the engine hands over.       *)
ChainIsLinked ==
    /\ last \in stored \cup {Genesis, NoBlock}
    /\ last = NoBlock => stored = {}
    /\ \A b \in stored :
           /\ Prev[b] \in stored \cup {Genesis}
           /\ Height[b] = HeightOf(Prev[b]) + 1
           /\ Height[b] <= HeightOf(last)
           /\ \A c \in stored : Height[b] = Height[c] => b = c

(* The world state is made by blocks of the chain, in the order of their     *)
(* heights and none of them twice, although a crash may fall between the     *)
(* write to one database and the write to the other.                         *)
AppliedInOrder ==
    /\ \A i \in 1 .. Len(applied) : applied[i] \in stored
    /\ \A i, j \in 1 .. Len(applied) :
           i < j => Height[applied[i]] < Height[applied[j]]
    /\ applied # <<>> => last_block_hash = applied[Len(applied)]

(* Unless the process has crashed, every block of the chain has been         *)
(* executed or is on its way through the Wagon.                              *)
NothingSkipped ==
    crashes = 0 =>
        \A b \in stored :
            \/ \E i \in 1 .. Len(applied) : applied[i] = b
            \/ executing = b
            \/ \E i \in 1 .. Len(wagon_queue) : wagon_queue[i] = b
            \/ chain_thread = "written" /\ last = b

Solvent(state) == \A a \in Account : state[a].balance + state[a].taken >= 0

(* Nobody pays out more than he has.  An account may be below zero all the   *)
(* same: what it lacks are fees, which Tpu.commit charges before it looks at *)
(* the balance, and payments of less than zero that others made to it, for   *)
(* which commit looks at the balance of the payer only.                      *)
NoOverspend == Solvent(accounts) /\ Solvent(dict_state)

(* Money is neither made nor lost: the balances and the fees that were       *)
(* charged add up to the genesis assignment, whoever pays whom, paid or      *)
(* refused, and whatever the sign of the amounts.  They add up to nothing    *)
(* for ever when the process crashed after it had created the chain and      *)
(* before it had funded the accounts.                                        *)
Total(f) == FoldFunction(+, 0, f)
Funds == Total([a \in Account |-> accounts[a].balance + accounts[a].paid])

MoneyIsConserved ==
    process = "up" =>
        \/ Funds = Total(Assignment)
        \/ Funds = 0 /\ crashes > 0

(* Every block of the chain reaches the world state, unless the process      *)
(* crashes: the Wagon catches up with the chain again and again.             *)
ChainIsExecuted == []<>(crashes > 0 \/ stored \subseteq Range(applied))
=============================================================================
