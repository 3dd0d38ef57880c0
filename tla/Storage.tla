------------------------------ MODULE Storage ------------------------------
(* What a node stores, side by side: the three pools of the engine, the      *)
(* profile with its key files and the database.  They share nothing, so a    *)
(* behaviour has the calls of one of them.                                   *)
EXTENDS StagedDataPool, VoteData, TransactionData

CONSTANTS
    Address, Process, NoCoinbase, Absent, Cut, \* the profile
    Thread, DbKey, Val, Missing                \* the database

\* A file that is cut names no coinbase, and a thread that is in the middle of
\* no update cannot be taken for one that is.
ASSUME StorageAssumption == Cut \notin Address /\ Missing \notin DbKey \X Val

VARIABLES
    part,   \* what is called
    vote_data, vote_index, vote_error, vote_twice,
    now, dict_pending_tx, dict_finalize_tx, accepted, finalized,
    profile, keystore, address_coinbase, private_key, writing, known,
    db, updating, acked, broken

votes == <<vote_data, vote_index, vote_error, vote_twice>>
transactions == <<now, dict_pending_tx, dict_finalize_tx, accepted, finalized>>
identity == <<profile, keystore, address_coinbase, private_key, writing, known>>
database == <<db, updating, acked, broken>>

Votes ==
    INSTANCE VotePool
        WITH dict_data <- vote_data, dict_index <- vote_index,
             error <- vote_error, twice <- vote_twice
TxPool == INSTANCE DataPool
Identity == INSTANCE Profile WITH Empty <- NoCoinbase
Db == INSTANCE Database WITH Key <- DbKey

NoProfile ==
    /\ profile = Absent /\ keystore = {} /\ writing = {} /\ known = {}
    /\ address_coinbase = [p \in Process |-> None]
    /\ private_key = [p \in Process |-> FALSE]

StorageInit ==
    /\ Init /\ Votes!Init /\ TxPool!Init /\ Db!Init
    /\ \/ part = "profile" /\ Identity!Init
       \/ /\ part \in {"candidates", "votes", "transactions", "database"}
          /\ NoProfile

StorageNext ==
    /\ UNCHANGED part
    /\ \/ /\ part = "candidates" /\ Next
          /\ UNCHANGED <<votes, transactions, identity, database>>
       \/ /\ part = "votes" /\ Votes!Next
          /\ UNCHANGED <<vars, transactions, identity, database>>
       \/ /\ part = "transactions" /\ TxPool!Next
          /\ UNCHANGED <<vars, votes, identity, database>>
       \/ /\ part = "profile" /\ Identity!Next
          /\ UNCHANGED <<vars, votes, transactions, database>>
       \/ /\ part = "database" /\ Db!Next
          /\ UNCHANGED <<vars, votes, transactions, identity>>

storage == <<part, vars, votes, transactions, identity, database>>

StorageSpec == StorageInit /\ [][StorageNext]_storage

(* The index of the pool of votes leads to a vote, each vote of a wave       *)
(* counts once, and only a vote that has been in two waves at once can make  *)
(* a removal fail half way, whatever was put and removed before.             *)
VotesFit ==
    /\ Votes!TypeOK
    /\ Votes!IndexFits
    /\ Votes!CountsOnce
    /\ Votes!FailsOnTwiceOnly

(* The pool of votes does what Pool promises, as that of candidates does.    *)
VotesImplementPool == Votes!ImplementsPool

(* A transaction that is accepted stays as long as the two ages allow;       *)
(* trimming leaves the newest of the blocks that were recorded, none of      *)
(* which has a transaction.                                                  *)
TransactionsStay ==
    /\ TxPool!AcceptedStays
    /\ TxPool!KeepsTheNewest

(* A node has one coinbase over all its starts, crashes and writes.          *)
IdentityStays == Identity!IdentityStays

(* What a call of the database acknowledged is found, but for what an update *)
(* is in the middle of or was cut in.                                        *)
Acknowledged == Db!Acknowledged
=============================================================================
