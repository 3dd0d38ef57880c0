----------------------------- MODULE Transport -----------------------------
(***************************************************************************)
(* How a message gets from the engine of a node to the engines of its      *)
(* peers: the queue thread of P2P, its two dictionaries of peers, one      *)
(* thread per peer and broadcast, the sockets, the ten workers of the      *)
(* Receiver and the ModuleHub.                                             *)
(*                                                                         *)
(* A sender thread, the sockets and a worker between recv_multipart and    *)
(* push keep no order among messages: together they are the wire, which    *)
(* counts the copies of each message on their way to a node.  A message is *)
(* a value; Dest is its field "to".                                        *)
(*                                                                         *)
(* A Sender gives its socket the id of the node it connects to, so all the *)
(* Senders to one node connect to its ROUTER under one identity.  ZeroMQ   *)
(* keeps the first of them and ignores the others, for good (the code does *)
(* not set ROUTER_HANDOVER): what they push stays on the wire.             *)
(***************************************************************************)
EXTENDS Naturals, Sequences, FiniteSets

CONSTANTS
    Node,       \* the nodes
    Message,    \* what the engines and the clients of the nodes send
    Dest,       \* Dest[m]: the module that m is for
    Hub,        \* the modules that set_module registered
    Input       \* what the rest of the world pushes into the P2P queues

NodeType == {"REP", "NORMAL"}

\* The list of an ADD_PEER message: nodes with their types.
PeerList == SUBSET (Node \X NodeType)

\* A message in the queue of P2P: one to broadcast, a list of peers to add,
\* or one for another module of the node.
Entry ==
    [kind : {"broadcast"}, type : NodeType, msg : Message]
        \cup [kind : {"add_peer"}, list : PeerList]
        \cup [kind : {"relay"}, msg : Message]

\* Every input happens at most once.  An engine broadcasts a message once,
\* a client sends a message of its own, and nobody is its own peer.  A node
\* is told of a peer once for each type: a second time the new Sender would
\* take the place of the old one, with what that has not sent.
ASSUME InputAssumption ==
    /\ Dest \in [Message -> STRING]
    /\ Input \subseteq [at : Node, entry : Entry]
    /\ \A i, j \in Input :
          (/\ i.entry.kind # "add_peer"
           /\ j.entry.kind # "add_peer"
           /\ i.entry.msg = j.entry.msg) => i = j
    /\ \A i \in Input :
          i.entry.kind = "add_peer" =>
              \A p \in i.entry.list : p[1] # i.at
    /\ \A i, j \in Input :
          (/\ i.entry.kind = "add_peer" /\ j.entry.kind = "add_peer"
           /\ i.at = j.at /\ i # j) => i.entry.list \cap j.entry.list = {}

VARIABLES
    todo,       \* the inputs that have not happened
    queue,      \* MessageQueue.queue of P2P
    thread,     \* its thread: not started, running, or ended by an exception
    peers,      \* dict_peer_rep and dict_peer_normal
    router,     \* router[p]: the Sender that the ROUTER of p hears, if any:
                \* its node and the dictionary it is in
    wire,       \* wire[n][m]: copies of m on their way to the queue of n
    inbox,      \* inbox[n][m]: how often the hub gave m to a module of n
    sent        \* history: the messages that were put on the wire

transport == <<todo, queue, thread, peers, router, wire, inbox, sent>>

TransportTypeOK ==
    /\ todo \subseteq Input
    /\ queue \in [Node -> Seq(Entry)]
    /\ thread \in [Node -> {"new", "running", "dead"}]
    /\ peers \in [Node -> [NodeType -> SUBSET Node]]
    /\ router \in [Node -> SUBSET (Node \X NodeType)]
    /\ wire \in [Node -> [Message -> Nat]]
    /\ inbox \in [Node -> [Message -> Nat]]
    /\ sent \subseteq Message

TransportInit ==
    /\ todo = Input
    /\ queue = [n \in Node |-> <<>>]
    /\ thread = [n \in Node |-> "new"]
    /\ peers = [n \in Node |-> [t \in NodeType |-> {}]]
    /\ router = [n \in Node |-> {}]
    /\ wire = [n \in Node |-> [m \in Message |-> 0]]
    /\ inbox = [n \in Node |-> [m \in Message |-> 0]]
    /\ sent = {}

-----------------------------------------------------------------------------

\* P2P.start: the queue thread, then the workers of the Receiver.
StartP2P(n) ==
    /\ thread[n] = "new"
    /\ thread' = [thread EXCEPT ![n] = "running"]
    /\ UNCHANGED <<todo, queue, peers, router, wire, inbox, sent>>

\* P2P.push by the engine, through the hub: it may come before the start.
EnginePush(i) ==
    /\ i \in todo
    /\ i.entry.kind = "broadcast"
    /\ todo' = todo \ {i}
    /\ queue' = [queue EXCEPT ![i.at] = Append(@, i.entry)]
    /\ UNCHANGED <<thread, peers, router, wire, inbox, sent>>

\* A client of the node, or the controller that lists its peers, sends a
\* message: a worker of the Receiver pushes it, which a thread that has
\* ended does not hinder.
ClientSend(i) ==
    /\ i \in todo
    /\ i.entry.kind # "broadcast"
    /\ thread[i.at] # "new"
    /\ todo' = todo \ {i}
    /\ queue' = [queue EXCEPT ![i.at] = Append(@, i.entry)]
    /\ sent' = IF i.entry.kind = "relay" THEN sent \cup {i.entry.msg} ELSE sent
    /\ UNCHANGED <<thread, peers, router, wire, inbox>>

\* The ROUTER of p meets a Sender of its identity, and it has no other yet.
Connect(p, n, type) ==
    /\ thread[p] # "new"
    /\ p \in peers[n][type]
    /\ router[p] = {}
    /\ router' = [router EXCEPT ![p] = {<<n, type>>}]
    /\ UNCHANGED <<todo, queue, thread, peers, wire, inbox, sent>>

\* The Senders to each peer that push m
Origin(m) ==
    {<<i.at, i.entry.type>> :
        i \in {i \in Input : i.entry.kind = "broadcast" /\ i.entry.msg = m}}

\* P2P.receiver_receive, of what comes from the Sender that the ROUTER hears
Receive(n, m) ==
    /\ thread[n] # "new"
    /\ router[n] \cap Origin(m) # {}
    /\ wire[n][m] > 0
    /\ wire' = [wire EXCEPT ![n][m] = @ - 1]
    /\ queue' = [queue EXCEPT ![n] = Append(@, [kind |-> "relay", msg |-> m])]
    /\ UNCHANGED <<todo, thread, peers, router, inbox, sent>>

\* The queue thread takes a message of this kind.
Takes(n, kind) ==
    /\ thread[n] = "running"
    /\ queue[n] # <<>>
    /\ Head(queue[n]).kind = kind
    /\ queue' = [queue EXCEPT ![n] = Tail(@)]

\* Mutant: what broadcast has pushed is pushed again by the loop that follows
\* in mq_process_queue.
CopiesTwice(m, receivers) ==
    [p \in Node |->
        IF p \in receivers THEN [wire[p] EXCEPT ![m] = @ + 2] ELSE wire[p]]

\* P2P.broadcast: one more copy for each of the peers.
Copies(m, receivers) ==
    [p \in Node |->
        IF p \in receivers THEN [wire[p] EXCEPT ![m] = @ + 1] ELSE wire[p]]

\* mq_process_queue of BROADCAST_REP and BROADCAST_NORMAL
ProcessBroadcast(n) ==
    /\ Takes(n, "broadcast")
    /\ LET e == Head(queue[n])
       IN  /\ wire' = Copies(e.msg, peers[n][e.type])
           /\ sent' = sent \cup {e.msg}
    /\ UNCHANGED <<todo, thread, peers, router, inbox>>

\* Mutant: add_peer begins a new dictionary.
ProcessAddPeerAnew(n) ==
    /\ Takes(n, "add_peer")
    /\ peers' = [peers EXCEPT ![n] =
                    [t \in NodeType |->
                        {p \in Node : <<p, t>> \in Head(queue[n]).list}]]
    /\ UNCHANGED <<todo, thread, router, wire, inbox, sent>>

\* add_peer, for every entry of the list: a node that changes its type stays
\* in the dictionary of the old one.
ProcessAddPeer(n) ==
    /\ Takes(n, "add_peer")
    /\ peers' = [peers EXCEPT ![n] =
                    [t \in NodeType |->
                        @[t] \cup {p \in Node :
                                      <<p, t>> \in Head(queue[n]).list}]]
    /\ UNCHANGED <<todo, thread, router, wire, inbox, sent>>

\* ModuleHub.push to a module it has.
ProcessRelay(n) ==
    /\ Takes(n, "relay")
    /\ LET m == Head(queue[n]).msg
       IN  /\ Dest[m] \in Hub
           /\ inbox' = [inbox EXCEPT ![n][m] = @ + 1]
    /\ UNCHANGED <<todo, thread, peers, router, wire, sent>>

\* ModuleHub.push to a module it does not have: dict_module.get returns None,
\* and the exception ends the queue thread, whose is_running stays True.
ProcessUnknown(n) ==
    /\ Takes(n, "relay")
    /\ Dest[Head(queue[n]).msg] \notin Hub
    /\ thread' = [thread EXCEPT ![n] = "dead"]
    /\ UNCHANGED <<todo, peers, router, wire, inbox, sent>>

ProcessQueue(n) ==
    \/ ProcessBroadcast(n)
    \/ ProcessAddPeer(n)
    \/ ProcessRelay(n)
    \/ ProcessUnknown(n)

TransportNext ==
    \/ \E n \in Node :
        \/ StartP2P(n)
        \/ ProcessQueue(n)
        \/ \E m \in Message : Receive(n, m)
        \/ \E p \in Node, type \in NodeType : Connect(p, n, type)
    \/ \E i \in Input : EnginePush(i) \/ ClientSend(i)

TransportSpec == TransportInit /\ [][TransportNext]_transport

\* The nodes start, their queue threads run and so do the sockets, the sender
\* threads and the workers: these are all the same to a message, and there are
\* finitely many messages, so that each has its turn.  Nothing makes an engine
\* or a client send.
TransportFairness ==
    \A n \in Node :
        /\ WF_transport(StartP2P(n) \/ ProcessQueue(n))
        /\ WF_transport(\E s \in Node \X NodeType : Connect(n, s[1], s[2]))
        /\ \A m \in Message : WF_transport(Receive(n, m))

TransportFairSpec == TransportSpec /\ TransportFairness

-----------------------------------------------------------------------------
(* Properties.                                                               *)

\* The positions in the queue of n of copies of m for another module.
Relayed(n, m) ==
    {i \in 1 .. Len(queue[n]) :
        queue[n][i].kind = "relay" /\ queue[n][i].msg = m}

\* The messages for a module that the hub has.
Known(S) == {m \in S : Dest[m] \in Hub}

Net ==
    INSTANCE Network
        WITH net <- [n \in Node |->
                        {m \in Known(Message) :
                            wire[n][m] > 0 \/ Relayed(n, m) # {}}],
             inbox <- [n \in Node |-> {m \in Message : inbox[n][m] > 0}]

(* Together they are the network of LLFC: what a module gets was sent, and   *)
(* it gets it once; a second copy is neither on the wire nor in a queue.     *)
(* Nothing downstream could tell a second copy of a finalised block from a   *)
(* block of a wrong height.                                                  *)
ImplementsNetwork == Net!Spec

\* When the thread of n comes to position j of its queue, p is its peer.
IsPeerAt(n, p, type, j) ==
    \/ p \in peers[n][type]
    \/ \E i \in 1 .. j - 1 :
        /\ queue[n][i].kind = "add_peer"
        /\ <<p, type>> \in queue[n][i].list

\* The broadcast of input i waits in the queue of its node, where the thread
\* will come to it after p has been added.
Waits(i, p) ==
    \E j \in 1 .. Len(queue[i.at]) :
        /\ queue[i.at][j] = i.entry
        /\ IsPeerAt(i.at, p, i.entry.type, j)

Broadcasts ==
    {i \in Input : i.entry.kind = "broadcast" /\ Dest[i.entry.msg] \in Hub}

(* A broadcast that waits in the queue behind the ADD_PEER of a node reaches *)
(* the module of that node, unless one of the two queue threads has ended or *)
(* the ROUTER of that node hears another Sender in the place of this one.    *)
PeersHear ==
    \A i \in Broadcasts : \A p \in Node \ {i.at} :
        Waits(i, p) ~>
            \/ inbox[p][i.entry.msg] > 0
            \/ thread[i.at] = "dead" \/ thread[p] = "dead"
            \/ router[p] \ {<<i.at, i.entry.type>>} # {}

(* README, "Each node propagates the tx of the client it has received to the *)
(* network": it reaches every peer whose queue thread lives, the broadcaster *)
(* being alive.  The code does not keep this.                                *)
EveryPeerHears ==
    \A i \in Broadcasts : \A p \in Node \ {i.at} :
        Waits(i, p) ~>
            \/ inbox[p][i.entry.msg] > 0
            \/ thread[i.at] = "dead" \/ thread[p] = "dead"
=============================================================================
