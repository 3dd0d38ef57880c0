-------------------------- MODULE TransactionData --------------------------
(* What the pool of transactions holds, and its ages and limits.             *)
EXTENDS Integers

CONSTANTS
    Tx,         \* transactions
    TimeOf,     \* TimeOf[t]: the timestamp its sender gave it
    Sender,     \* Sender[t]: the text of its address_sender
    Signer,     \* Signer[t]: the address whose key has signed it
    FinalBlock, \* hashes of finalised blocks
    TxsOf,      \* TxsOf[b]: the transactions of b
    AcceptAge,  \* 1800: an older transaction is refused
    KeepAge,    \* 10800: an older transaction is dropped
    FinalHigh,  \* 50: more finalised blocks than these are trimmed
    FinalLow,   \* 20: ... until they are fewer than these
    MaxTime,    \* bound on the clock
    MaxPut      \* bound on the blocks put

ASSUME PoolAssumption ==
    /\ AcceptAge \in Nat /\ KeepAge \in Nat /\ AcceptAge <= KeepAge
    /\ FinalLow \in Nat \ {0} /\ FinalHigh \in Nat /\ FinalLow <= FinalHigh + 1
    /\ TimeOf \in [Tx -> Int]
    /\ Tx \cap FinalBlock = {}
    /\ TxsOf \in [FinalBlock -> SUBSET Tx]
    /\ MaxTime \in Nat
=============================================================================
