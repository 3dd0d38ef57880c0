------------------------------- MODULE MCNode -------------------------------
(* The parts of a node beside the engine: what it stores, its chain with the *)
(* Wagon and the world state, and its transport.  Here they share nothing    *)
(* (blocks are handed to the chain and messages to the transport by nobody   *)
(* in particular), so a behaviour is one of one of them.                     *)
EXTENDS MCPools, MCLedger, MCTransport

NoStorage ==
    Init /\ Votes!Init /\ TxPool!Init /\ Db!Init /\ NoProfile

\* Where nothing is called of the transport, no thread of it is to start.
NoTransport ==
    /\ todo = {} /\ sent = {}
    /\ thread = [n \in Node |-> "dead"]
    /\ queue = [n \in Node |-> <<>>]
    /\ peers = [n \in Node |-> [t \in NodeType |-> {}]]
    /\ router = [n \in Node |-> {}]
    /\ wire = [n \in Node |-> [m \in Message |-> 0]]
    /\ inbox = wire

NodeInit ==
    /\ LedgerInit
    /\ \/ StorageInit /\ NoTransport
       \/ /\ part = "ledger" /\ NoTransport /\ NoStorage
       \/ /\ part = "transport" /\ TransportInit /\ NoStorage

NodeNext ==
    \/ /\ part = "ledger" /\ LedgerNext
       /\ UNCHANGED <<storage, transport>>
    \/ /\ part = "transport" /\ TransportNext
       /\ UNCHANGED <<storage, ledger>>
    \/ /\ StorageNext
       /\ UNCHANGED <<ledger, transport>>

NodeSpec ==
    /\ NodeInit /\ [][NodeNext]_<<storage, ledger, transport>>
    /\ LedgerFairness /\ TransportFairness
=============================================================================
