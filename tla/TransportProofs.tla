--------------------------- MODULE TransportProofs ---------------------------
(* Proofs about Transport, for every set of nodes and messages, every hub    *)
(* and every set of inputs: no message is duplicated on its way.             *)
EXTENDS Transport, TLAPS

-----------------------------------------------------------------------------
(* What a queue holds.                                                       *)

At(q, kind, m) == \E i \in 1 .. Len(q) : q[i].kind = kind /\ q[i].msg = m

\* No message is in the queue twice in the same way.
Distinct(q) ==
    \A i, j \in 1 .. Len(q) :
        (/\ q[i].kind = q[j].kind /\ q[i].kind # "add_peer"
         /\ q[i].msg = q[j].msg) => i = j

LEMMA EntryType ==
    /\ \A e \in Entry :
           /\ e.kind \in {"broadcast", "add_peer", "relay"}
           /\ e.kind = "broadcast" => e.type \in NodeType /\ e.msg \in Message
           /\ e.kind = "relay" => e.msg \in Message
           /\ e.kind = "add_peer" => e.list \in PeerList
    /\ \A m \in Message : [kind |-> "relay", msg |-> m] \in Entry
BY DEF Entry

LEMMA AppendAt ==
    ASSUME NEW q \in Seq(Entry), NEW e \in Entry, NEW kind, NEW m
    PROVE  At(Append(q, e), kind, m) <=>
               At(q, kind, m) \/ (e.kind = kind /\ e.msg = m)
<1> DEFINE r == Append(q, e)
<1>1. /\ Len(q) \in Nat /\ Len(r) = Len(q) + 1
      /\ \A i \in 1 .. Len(q) : r[i] = q[i]
      /\ r[Len(q) + 1] = e
    OBVIOUS
<1>2. 1 .. Len(r) = (1 .. Len(q)) \cup {Len(q) + 1}
    BY <1>1
<1> HIDE DEF r
<1> QED BY <1>1, <1>2 DEF At

LEMMA AppendDistinct ==
    ASSUME NEW q \in Seq(Entry), NEW e \in Entry, Distinct(q),
           e.kind # "add_peer" => ~At(q, e.kind, e.msg)
    PROVE  Distinct(Append(q, e))
<1> DEFINE r == Append(q, e)
<1>1. /\ Len(q) \in Nat /\ Len(r) = Len(q) + 1
      /\ \A i \in 1 .. Len(q) : r[i] = q[i]
      /\ r[Len(q) + 1] = e
    OBVIOUS
<1>2. 1 .. Len(r) = (1 .. Len(q)) \cup {Len(q) + 1}
    BY <1>1
<1> HIDE DEF r
<1> SUFFICES Distinct(r)
    BY DEF r
<1> SUFFICES ASSUME NEW i \in 1 .. Len(r), NEW j \in 1 .. Len(r),
                    r[i].kind = r[j].kind, r[i].kind # "add_peer",
                    r[i].msg = r[j].msg
             PROVE  i = j
    BY DEF Distinct
<1>3. CASE i \in 1 .. Len(q) /\ j \in 1 .. Len(q)
    BY <1>1, <1>3 DEF Distinct
<1>4. CASE i \in 1 .. Len(q) /\ j = Len(q) + 1
    BY <1>1, <1>4 DEF At
<1>5. CASE i = Len(q) + 1 /\ j \in 1 .. Len(q)
    BY <1>1, <1>5 DEF At
<1> QED BY <1>2, <1>3, <1>4, <1>5

\* What the thread takes is in the queue no longer, and the rest is.
LEMMA TailAt ==
    ASSUME NEW q \in Seq(Entry), q # <<>>, Distinct(q),
           NEW kind \in {"broadcast", "relay"}, NEW m
    PROVE  At(Tail(q), kind, m) <=>
               At(q, kind, m) /\ ~(Head(q).kind = kind /\ Head(q).msg = m)
<1> DEFINE r == Tail(q)
           h == Head(q)
<1>1. /\ Len(q) \in Nat \ {0} /\ Len(r) = Len(q) - 1
      /\ \A i \in 1 .. Len(r) : r[i] = q[i + 1]
      /\ h = q[1]
    OBVIOUS
<1> HIDE DEF r, h
<1>2. ASSUME NEW i \in 1 .. Len(r), r[i].kind = kind, r[i].msg = m
      PROVE  At(q, kind, m) /\ ~(h.kind = kind /\ h.msg = m)
  <2>1. i + 1 \in 1 .. Len(q) /\ 1 \in 1 .. Len(q) /\ i + 1 # 1
    BY <1>1
  <2>2. q[i + 1].kind = kind /\ q[i + 1].msg = m
    BY <1>1, <1>2
  <2>3. At(q, kind, m)
    BY <2>1, <2>2 DEF At
  <2>4. ~(h.kind = kind /\ h.msg = m)
    BY <1>1, <2>1, <2>2 DEF Distinct
  <2> QED BY <2>3, <2>4
<1>3. ASSUME NEW i \in 1 .. Len(q), q[i].kind = kind, q[i].msg = m,
             ~(h.kind = kind /\ h.msg = m)
      PROVE  At(r, kind, m)
  <2>1. i # 1
    BY <1>1, <1>3
  <2>2. i - 1 \in 1 .. Len(r) /\ r[i - 1] = q[i]
    BY <1>1, <2>1
  <2> QED BY <1>3, <2>2 DEF At
<1>4. At(r, kind, m) <=> At(q, kind, m) /\ ~(h.kind = kind /\ h.msg = m)
    BY <1>2, <1>3 DEF At
<1> QED BY <1>4 DEF r, h

LEMMA TailDistinct ==
    ASSUME NEW q \in Seq(Entry), q # <<>>, Distinct(q)
    PROVE  Distinct(Tail(q))
<1> DEFINE r == Tail(q)
<1>1. /\ Len(q) \in Nat \ {0} /\ Len(r) = Len(q) - 1
      /\ \A i \in 1 .. Len(r) : r[i] = q[i + 1]
    OBVIOUS
<1>2. \A i \in 1 .. Len(r) : i \in Nat /\ i + 1 \in 1 .. Len(q)
    BY <1>1
<1> HIDE DEF r
<1>3. Distinct(r)
    BY <1>1, <1>2 DEF Distinct
<1> QED BY <1>3 DEF r

-----------------------------------------------------------------------------
(* Types.                                                                    *)

LEMMA InputType ==
    TransportTypeOK => \A i \in todo : i \in Input /\ i.at \in Node /\ i.entry \in Entry
BY InputAssumption DEF TransportTypeOK

LEMMA CopiesType ==
    ASSUME TransportTypeOK, NEW m \in Message, NEW receivers
    PROVE  /\ Copies(m, receivers) \in [Node -> [Message -> Nat]]
           /\ \A p \in Node, k \in Message :
                  Copies(m, receivers)[p][k] =
                      IF p \in receivers /\ k = m THEN wire[p][k] + 1
                                                  ELSE wire[p][k]
BY DEF Copies, TransportTypeOK

LEMMA TypeInit == TransportInit => TransportTypeOK
BY DEF TransportInit, TransportTypeOK

LEMMA TypeStep == TransportTypeOK /\ [TransportNext]_transport => TransportTypeOK'
<1> SUFFICES ASSUME TransportTypeOK, [TransportNext]_transport PROVE TransportTypeOK'
    OBVIOUS
<1> USE DEF TransportTypeOK
<1>1. ASSUME NEW n \in Node, StartP2P(n) PROVE TransportTypeOK'
    BY <1>1 DEF StartP2P
<1>2. ASSUME NEW i \in Input, EnginePush(i) \/ ClientSend(i) PROVE TransportTypeOK'
  <2>1. i \in todo /\ i.at \in Node /\ i.entry \in Entry
    BY <1>2, InputType DEF EnginePush, ClientSend
  <2>2. queue' = [queue EXCEPT ![i.at] = Append(@, i.entry)]
    BY <1>2 DEF EnginePush, ClientSend
  <2>3. queue' \in [Node -> Seq(Entry)]
    BY <2>1, <2>2
  <2>4. sent' \subseteq Message
    <3>1. CASE EnginePush(i)
      BY <3>1 DEF EnginePush
    <3>2. CASE ClientSend(i) /\ i.entry.kind # "relay"
      BY <3>2 DEF ClientSend
    <3>3. CASE ClientSend(i) /\ i.entry.kind = "relay"
      <4>1. i.entry.msg \in Message
        BY <2>1, <3>3, EntryType
      <4> QED BY <3>3, <4>1 DEF ClientSend
    <3> QED BY <1>2, <3>1, <3>2, <3>3
  <2> QED BY <1>2, <2>3, <2>4 DEF EnginePush, ClientSend
<1>3. ASSUME NEW n \in Node, NEW m \in Message, Receive(n, m) PROVE TransportTypeOK'
  <2>1. [kind |-> "relay", msg |-> m] \in Entry
    BY EntryType
  <2>2. queue' \in [Node -> Seq(Entry)]
    BY <1>3, <2>1 DEF Receive
  <2>3. wire' \in [Node -> [Message -> Nat]]
    BY <1>3 DEF Receive
  <2> QED BY <1>3, <2>2, <2>3 DEF Receive
<1>4. ASSUME NEW n \in Node, ProcessQueue(n) PROVE TransportTypeOK'
  <2>1. queue[n] # <<>> /\ queue' = [queue EXCEPT ![n] = Tail(@)]
    BY <1>4 DEF ProcessQueue, ProcessBroadcast, ProcessAddPeer, ProcessRelay,
       ProcessUnknown, Takes
  <2>2. queue' \in [Node -> Seq(Entry)]
    BY <2>1
  <2>3. Head(queue[n]) \in Entry
    BY <2>1
  <2>4. CASE ProcessBroadcast(n)
    <3>1. Head(queue[n]).msg \in Message
      BY <2>3, <2>4, EntryType DEF ProcessBroadcast, Takes
    <3> QED BY <2>2, <2>4, <3>1, CopiesType DEF ProcessBroadcast
  <2>5. CASE ProcessAddPeer(n)
    <3>1. peers' \in [Node -> [NodeType -> SUBSET Node]]
      BY <2>5 DEF ProcessAddPeer
    <3> QED BY <2>2, <2>5, <3>1 DEF ProcessAddPeer
  <2>6. CASE ProcessRelay(n)
    <3> DEFINE m == Head(queue[n]).msg
    <3>1. m \in Message
      BY <2>3, <2>6, EntryType DEF ProcessRelay, Takes
    <3>2. inbox' = [inbox EXCEPT ![n][m] = @ + 1]
      BY <2>6 DEF ProcessRelay
    <3> HIDE DEF m
    <3>3. inbox' \in [Node -> [Message -> Nat]]
      BY <3>1, <3>2
    <3> QED BY <2>2, <2>6, <3>3 DEF ProcessRelay
  <2>7. CASE ProcessUnknown(n)
    BY <2>2, <2>7 DEF ProcessUnknown
  <2> QED BY <1>4, <2>4, <2>5, <2>6, <2>7 DEF ProcessQueue
<1>5. ASSUME NEW n \in Node, NEW p \in Node, NEW type \in NodeType,
             Connect(p, n, type)
      PROVE  TransportTypeOK'
    BY <1>5 DEF Connect
<1>6. CASE UNCHANGED transport
    BY <1>6 DEF transport
<1> QED BY <1>1, <1>2, <1>3, <1>4, <1>5, <1>6 DEF TransportNext

(* Type correctness: the queues hold entries, the dictionaries hold nodes,   *)
(* and no copy is taken off the wire that is not on it.                      *)
THEOREM TypeCorrect == TransportSpec => []TransportTypeOK
BY TypeInit, TypeStep, PTL DEF TransportSpec

-----------------------------------------------------------------------------
(* A message has one origin, and one copy on its way to a node.              *)

\* A message that is yet to be sent, or waits to be broadcast, was not sent;
\* one that was sent waits nowhere to be broadcast, and is on the wire to a
\* node or in its queue, but once.
QueuesDistinct == \A n \in Node : Distinct(queue[n])

TodoFresh ==
    \A i \in todo :
        i.entry.kind # "add_peer" =>
            /\ i.entry.msg \notin sent
            /\ \A n \in Node : ~At(queue[n], "broadcast", i.entry.msg)

BroadcastFresh ==
    \A n \in Node, m \in Message :
        At(queue[n], "broadcast", m) =>
            /\ m \notin sent
            /\ \A p \in Node \ {n} : ~At(queue[p], "broadcast", m)

RelayOffWire ==
    \A n \in Node, m \in Message :
        At(queue[n], "relay", m) => m \in sent /\ wire[n][m] = 0

WireOnce ==
    \A n \in Node, m \in Message :
        wire[n][m] # 0 => m \in sent /\ wire[n][m] = 1

OneCopy ==
    QueuesDistinct /\ TodoFresh /\ BroadcastFresh /\ RelayOffWire /\ WireOnce

Inv == TransportTypeOK /\ OneCopy

LEMMA OneCopyInit == TransportInit => OneCopy
BY DEF TransportInit, OneCopy, QueuesDistinct, TodoFresh, BroadcastFresh, RelayOffWire,
   WireOnce, Distinct, At

\* What an input adds to the queue of its node.
LEMMA Pushed ==
    ASSUME Inv, NEW n \in Node, NEW e \in Entry,
           e.kind # "add_peer" => ~At(queue[n], e.kind, e.msg),
           queue' = [queue EXCEPT ![n] = Append(@, e)]
    PROVE  /\ \A p \in Node : Distinct(queue'[p])
           /\ \A p \in Node : \A kind, m :
                  At(queue'[p], kind, m) <=>
                      \/ At(queue[p], kind, m)
                      \/ p = n /\ e.kind = kind /\ e.msg = m
<1> USE DEF Inv, TransportTypeOK, OneCopy, QueuesDistinct
<1>1. /\ queue'[n] = Append(queue[n], e)
      /\ \A p \in Node \ {n} : queue'[p] = queue[p]
      /\ queue[n] \in Seq(Entry) /\ Distinct(queue[n])
    OBVIOUS
<1>2. Distinct(queue'[n])
    BY <1>1, AppendDistinct
<1>3. \A kind, m : At(queue'[n], kind, m) <=>
          At(queue[n], kind, m) \/ (e.kind = kind /\ e.msg = m)
    BY <1>1, AppendAt
<1> QED BY <1>1, <1>2, <1>3

\* What the queue thread takes from the queue of its node.
LEMMA Taken ==
    ASSUME Inv, NEW n \in Node, queue[n] # <<>>,
           queue' = [queue EXCEPT ![n] = Tail(@)]
    PROVE  LET h == Head(queue[n])
           IN  /\ h \in Entry
               /\ \A m : h.msg = m => At(queue[n], h.kind, m)
               /\ \A p \in Node : Distinct(queue'[p])
               /\ \A p \in Node, kind \in {"broadcast", "relay"} : \A m :
                      At(queue'[p], kind, m) <=>
                          /\ At(queue[p], kind, m)
                          /\ ~(p = n /\ h.kind = kind /\ h.msg = m)
<1> USE DEF Inv, TransportTypeOK, OneCopy, QueuesDistinct
<1> DEFINE h == Head(queue[n])
<1>1. /\ queue'[n] = Tail(queue[n])
      /\ \A p \in Node \ {n} : queue'[p] = queue[p]
      /\ queue[n] \in Seq(Entry) /\ Distinct(queue[n])
    OBVIOUS
<1>2. Distinct(queue'[n])
    BY <1>1, TailDistinct
<1>3. \A kind \in {"broadcast", "relay"} : \A m : At(queue'[n], kind, m) <=>
          At(queue[n], kind, m) /\ ~(h.kind = kind /\ h.msg = m)
    BY <1>1, TailAt
<1>4. h \in Entry /\ h = queue[n][1] /\ 1 \in 1 .. Len(queue[n])
    BY <1>1
<1>5. \A m : h.msg = m => At(queue[n], h.kind, m)
    BY <1>4 DEF At
<1> QED BY <1>1, <1>2, <1>3, <1>4, <1>5

\* A step of the queue thread that sends nothing.
LEMMA TakenOneCopy ==
    ASSUME Inv, NEW n \in Node, queue[n] # <<>>,
           queue' = [queue EXCEPT ![n] = Tail(@)],
           UNCHANGED <<todo, wire, sent>>
    PROVE  OneCopy'
<1>1. /\ \A p \in Node : Distinct(queue'[p])
      /\ \A p \in Node, kind \in {"broadcast", "relay"} : \A m :
             At(queue'[p], kind, m) => At(queue[p], kind, m)
    BY Taken
  <1>p1. QueuesDistinct'
    BY <1>1 DEF Inv, OneCopy, QueuesDistinct
  <1>p2. TodoFresh'
    BY <1>1 DEF Inv, OneCopy, TodoFresh
  <1>p3. BroadcastFresh'
    BY <1>1 DEF Inv, OneCopy, BroadcastFresh
  <1>p4. RelayOffWire'
    BY <1>1 DEF Inv, OneCopy, RelayOffWire
  <1>p5. WireOnce'
    BY <1>1 DEF Inv, OneCopy, WireOnce
  <1> QED BY <1>p1, <1>p2, <1>p3, <1>p4, <1>p5 DEF OneCopy

LEMMA OneCopyStep == Inv /\ [TransportNext]_transport => OneCopy'
<1> SUFFICES ASSUME Inv, [TransportNext]_transport PROVE OneCopy'
    OBVIOUS
<1>1. ASSUME NEW n \in Node,
             \/ StartP2P(n)
             \/ \E p \in Node, type \in NodeType : Connect(p, n, type)
      PROVE  OneCopy'
    BY <1>1 DEF StartP2P, Connect, Inv, OneCopy, QueuesDistinct, TodoFresh,
       BroadcastFresh, RelayOffWire, WireOnce
<1>2. ASSUME NEW i \in Input, EnginePush(i) \/ ClientSend(i) PROVE OneCopy'
  <2> DEFINE n == i.at
             e == i.entry
             m == i.entry.msg
  <2>1. /\ i \in todo /\ n \in Node /\ e \in Entry
        /\ todo' = todo \ {i} /\ UNCHANGED wire
        /\ queue' = [queue EXCEPT ![n] = Append(@, e)]
    BY <1>2, InputType DEF EnginePush, ClientSend, Inv
  <2>2. e.kind # "add_peer" =>
            /\ m \in Message /\ m \notin sent
            /\ \A p \in Node : ~At(queue[p], "broadcast", m)
            /\ \A p \in Node : ~At(queue[p], "relay", m) /\ wire[p][m] = 0
    BY <2>1, EntryType DEF Inv, OneCopy, TodoFresh, RelayOffWire, WireOnce
  <2>3. e.kind # "add_peer" =>
            \A j \in todo' : j.entry.kind # "add_peer" => j.entry.msg # m
    BY <2>1, InputAssumption DEF Inv, TransportTypeOK
  <2>4. /\ e.kind = "relay" => sent' = sent \cup {m}
        /\ e.kind # "relay" => sent' = sent
    BY <1>2, <2>1 DEF EnginePush, ClientSend
  <2>5. e.kind \in {"broadcast", "add_peer", "relay"}
    BY <2>1, EntryType
  <2>6. e.kind # "add_peer" => ~At(queue[n], e.kind, e.msg)
    BY <2>1, <2>2, <2>5
  <2> HIDE DEF n, e, m
  <2>7. /\ \A p \in Node : Distinct(queue'[p])
        /\ \A p \in Node : \A kind, k :
               At(queue'[p], kind, k) <=>
                   \/ At(queue[p], kind, k)
                   \/ p = n /\ e.kind = kind /\ e.msg = k
    BY <2>1, <2>6, Pushed
  <2>8. CASE e.kind = "add_peer"
    <3>a. /\ \A p \in Node : \A k :
                /\ At(queue'[p], "broadcast", k)
                       <=> At(queue[p], "broadcast", k)
                /\ At(queue'[p], "relay", k) <=> At(queue[p], "relay", k)
          /\ UNCHANGED <<wire, sent>>
      BY <2>1, <2>4, <2>7, <2>8
    <3>b. todo' \subseteq todo
      BY <2>1
    <3>1. QueuesDistinct'
      BY <2>7 DEF QueuesDistinct
    <3>2. TodoFresh'
      BY <3>a, <3>b DEF Inv, OneCopy, TodoFresh
    <3>3. BroadcastFresh'
      BY <3>a DEF Inv, OneCopy, BroadcastFresh
    <3>4. RelayOffWire'
      BY <3>a DEF Inv, OneCopy, RelayOffWire
    <3>5. WireOnce'
      BY <3>a DEF Inv, OneCopy, WireOnce
    <3> QED BY <3>1, <3>2, <3>3, <3>4, <3>5 DEF OneCopy
  <2>9. CASE e.kind = "broadcast"
    <3>1. QueuesDistinct'
      BY <2>7 DEF QueuesDistinct
    <3>2. TodoFresh'
      <4>1. SUFFICES ASSUME NEW j \in todo', j.entry.kind # "add_peer"
                     PROVE  /\ j.entry.msg \notin sent'
                            /\ \A p \in Node :
                                   ~At(queue'[p], "broadcast", j.entry.msg)
        BY DEF TodoFresh
      <4>2. j \in todo /\ j.entry.msg # e.msg
        BY <2>1, <2>3, <2>9, <4>1 DEF e, m
      <4>3. \A p \in Node : At(queue'[p], "broadcast", j.entry.msg) =>
                At(queue[p], "broadcast", j.entry.msg)
        BY <2>7, <4>2
      <4> QED BY <2>4, <2>9, <4>1, <4>2, <4>3 DEF Inv, OneCopy, TodoFresh
    <3>3. BroadcastFresh'
      <4>1. \A p \in Node, k \in Message : At(queue'[p], "broadcast", k) =>
                \/ At(queue[p], "broadcast", k) /\ k # e.msg
                \/ p = n /\ k = e.msg
        BY <2>2, <2>7, <2>9 DEF e, m
      <4>2. \A p \in Node : ~At(queue[p], "broadcast", e.msg)
        BY <2>2, <2>9 DEF e, m
      <4>3. e.msg \notin sent /\ sent' = sent
        BY <2>2, <2>4, <2>9 DEF e, m
      <4> QED BY <4>1, <4>2, <4>3 DEF Inv, OneCopy, BroadcastFresh
    <3>a. /\ \A p \in Node : \A k : At(queue'[p], "relay", k) <=>
                                  At(queue[p], "relay", k)
          /\ UNCHANGED <<wire, sent>>
      BY <2>1, <2>4, <2>7, <2>9
    <3>4. RelayOffWire'
      BY <3>a DEF Inv, OneCopy, RelayOffWire
    <3>5. WireOnce'
      BY <3>a DEF Inv, OneCopy, WireOnce
    <3> QED BY <3>1, <3>2, <3>3, <3>4, <3>5 DEF OneCopy
  <2>10. CASE e.kind = "relay"
    <3>a. /\ \A p \in Node : \A k :
                /\ At(queue'[p], "broadcast", k)
                       <=> At(queue[p], "broadcast", k)
                /\ At(queue'[p], "relay", k) <=>
                       At(queue[p], "relay", k) \/ (p = n /\ k = m)
          /\ wire' = wire /\ sent' = sent \cup {m} /\ todo' \subseteq todo
      BY <2>1, <2>4, <2>7, <2>10 DEF m, e
    <3>b. /\ \A p \in Node : ~At(queue[p], "broadcast", m) /\ wire[p][m] = 0
          /\ \A j \in todo' : j.entry.kind # "add_peer" => j.entry.msg # m
      BY <2>2, <2>3, <2>10
    <3>1. QueuesDistinct'
      BY <2>7 DEF QueuesDistinct
    <3>2. TodoFresh'
      BY <3>a, <3>b DEF Inv, OneCopy, TodoFresh
    <3>3. BroadcastFresh'
      BY <3>a, <3>b DEF Inv, OneCopy, BroadcastFresh
    <3>4. RelayOffWire'
      BY <3>a, <3>b DEF Inv, OneCopy, RelayOffWire
    <3>5. WireOnce'
      BY <3>a DEF Inv, OneCopy, WireOnce
    <3> QED BY <3>1, <3>2, <3>3, <3>4, <3>5 DEF OneCopy
  <2> QED BY <2>5, <2>8, <2>9, <2>10
<1>3. ASSUME NEW n \in Node, NEW m \in Message, Receive(n, m) PROVE OneCopy'
  <2> DEFINE e == [kind |-> "relay", msg |-> m]
  <2>1. e \in Entry /\ e.kind = "relay" /\ e.msg = m
    BY EntryType
  <2>2. /\ queue' = [queue EXCEPT ![n] = Append(@, e)]
        /\ wire' = [wire EXCEPT ![n][m] = @ - 1]
        /\ UNCHANGED <<todo, sent>>
        /\ wire[n][m] # 0
    BY <1>3 DEF Receive
  <2> HIDE DEF e
  <2>3. wire[n][m] = 1 /\ m \in sent /\ ~At(queue[n], "relay", m)
    BY <2>2 DEF Inv, OneCopy, RelayOffWire, WireOnce
  <2>4. \A p \in Node, k \in Message :
            wire'[p][k] = IF p = n /\ k = m THEN 0 ELSE wire[p][k]
    BY <2>2, <2>3 DEF Inv, TransportTypeOK
  <2>5. /\ \A p \in Node : Distinct(queue'[p])
        /\ \A p \in Node : \A kind, k :
               At(queue'[p], kind, k) <=>
                   \/ At(queue[p], kind, k)
                   \/ p = n /\ e.kind = kind /\ e.msg = k
    <3>1. ~At(queue[n], e.kind, e.msg)
      BY <2>1, <2>3
    <3> QED BY <2>1, <2>2, <3>1, Pushed
  <2>p1. QueuesDistinct'
    BY <2>1, <2>2, <2>3, <2>4, <2>5 DEF Inv, OneCopy, QueuesDistinct
  <2>p2. TodoFresh'
    BY <2>1, <2>2, <2>3, <2>4, <2>5 DEF Inv, OneCopy, TodoFresh
  <2>p3. BroadcastFresh'
    BY <2>1, <2>2, <2>3, <2>4, <2>5 DEF Inv, OneCopy, BroadcastFresh
  <2>p4. RelayOffWire'
    BY <2>1, <2>2, <2>3, <2>4, <2>5 DEF Inv, OneCopy, RelayOffWire
  <2>p5. WireOnce'
    BY <2>1, <2>2, <2>3, <2>4, <2>5 DEF Inv, OneCopy, WireOnce
  <2> QED BY <2>p1, <2>p2, <2>p3, <2>p4, <2>p5 DEF OneCopy
<1>4. ASSUME NEW n \in Node, ProcessBroadcast(n) PROVE OneCopy'
  <2> DEFINE h == Head(queue[n])
             m == h.msg
             R == peers[n][h.type]
  <2>1. /\ queue[n] # <<>> /\ queue' = [queue EXCEPT ![n] = Tail(@)]
        /\ h.kind = "broadcast"
        /\ wire' = Copies(m, R)
        /\ sent' = sent \cup {m}
        /\ UNCHANGED todo
    BY <1>4 DEF ProcessBroadcast, Takes
  <2>2. h \in Entry /\ At(queue[n], "broadcast", m)
    BY <2>1, Taken
  <2>3. m \in Message
    BY <2>1, <2>2, EntryType
  <2>4. /\ \A p \in Node : Distinct(queue'[p])
        /\ \A p \in Node, kind \in {"broadcast", "relay"} : \A k :
               At(queue'[p], kind, k) <=>
                   /\ At(queue[p], kind, k)
                   /\ ~(p = n /\ h.kind = kind /\ h.msg = k)
    BY <2>1, Taken
  <2> HIDE DEF h, R
  <2>5. \A p \in Node, k \in Message :
            wire'[p][k] = IF p \in R /\ k = m THEN wire[p][k] + 1
                                              ELSE wire[p][k]
    BY <2>1, <2>3, CopiesType DEF Inv
  <2>6. /\ m \notin sent
        /\ \A p \in Node \ {n} : ~At(queue[p], "broadcast", m)
        /\ \A p \in Node : ~At(queue[p], "relay", m) /\ wire[p][m] = 0
    BY <2>2, <2>3 DEF Inv, OneCopy, BroadcastFresh, RelayOffWire, WireOnce
  <2>7. \A p \in Node : ~At(queue'[p], "broadcast", m)
    BY <2>1, <2>4, <2>6
  <2>8. \A j \in todo : j.entry.kind # "add_peer" => j.entry.msg # m
    BY <2>2 DEF Inv, OneCopy, TodoFresh
  <2> HIDE DEF m
  <2>p1. QueuesDistinct'
    BY <2>4 DEF QueuesDistinct
  <2>p2. TodoFresh'
    BY <2>1, <2>4, <2>8 DEF Inv, OneCopy, TodoFresh
  <2>p3. BroadcastFresh'
    <3>1. \A p \in Node, k \in Message :
              At(queue'[p], "broadcast", k) =>
                  At(queue[p], "broadcast", k) /\ k # m
      BY <2>4, <2>7
    <3> QED BY <2>1, <3>1 DEF Inv, OneCopy, BroadcastFresh
  <2>p4. RelayOffWire'
    <3> SUFFICES ASSUME NEW p \in Node, NEW k \in Message,
                        At(queue'[p], "relay", k)
                 PROVE  k \in sent' /\ wire'[p][k] = 0
      BY DEF RelayOffWire
    <3>1. At(queue[p], "relay", k)
      BY <2>4
    <3>2. k # m
      BY <2>6, <3>1
    <3>3. k \in sent /\ wire[p][k] = 0
      BY <3>1 DEF Inv, OneCopy, RelayOffWire
    <3> QED BY <2>1, <2>5, <3>2, <3>3
  <2>p5. WireOnce'
    <3> SUFFICES ASSUME NEW p \in Node, NEW k \in Message, wire'[p][k] # 0
                 PROVE  k \in sent' /\ wire'[p][k] = 1
      BY DEF WireOnce
    <3>1. CASE k = m
      <4>1. wire[p][k] = 0
        BY <2>6, <3>1
      <4> QED BY <2>1, <2>5, <3>1, <4>1
    <3>2. CASE k # m
      <4>1. wire'[p][k] = wire[p][k]
        BY <2>5, <3>2
      <4> QED BY <2>1, <4>1 DEF Inv, OneCopy, WireOnce
    <3> QED BY <3>1, <3>2
  <2> QED BY <2>p1, <2>p2, <2>p3, <2>p4, <2>p5 DEF OneCopy
<1>5. ASSUME NEW n \in Node,
             ProcessAddPeer(n) \/ ProcessRelay(n) \/ ProcessUnknown(n)
      PROVE  OneCopy'
    BY <1>5, TakenOneCopy
    DEF ProcessAddPeer, ProcessRelay, ProcessUnknown, Takes
<1>6. CASE UNCHANGED transport
    BY <1>6 DEF transport, Inv, OneCopy, QueuesDistinct, TodoFresh,
       BroadcastFresh, RelayOffWire, WireOnce
<1> QED BY <1>1, <1>2, <1>3, <1>4, <1>5, <1>6 DEF TransportNext, ProcessQueue

LEMMA Invariant == TransportSpec => []Inv
<1>1. TransportInit => Inv
    BY TypeInit, OneCopyInit DEF Inv
<1>2. Inv /\ [TransportNext]_transport => Inv'
    BY TypeStep, OneCopyStep DEF Inv
<1> QED BY <1>1, <1>2, PTL DEF TransportSpec

-----------------------------------------------------------------------------
(* The transport is a Network.                                               *)

\* The refinement mapping: what is on its way to n, and what n got.
OnItsWay ==
    [n \in Node |-> {m \in Known(Message) :
                        wire[n][m] > 0 \/ Relayed(n, m) # {}}]

Got == [n \in Node |-> {m \in Message : inbox[n][m] > 0}]

\* What is on its way to a node, and what it got, node by node and message by
\* message
Mapped ==
    /\ OnItsWay \in [Node -> SUBSET Message]
    /\ Got \in [Node -> SUBSET Message]
    /\ \A n \in Node, m \in Message :
           m \in OnItsWay[n] <=>
               Dest[m] \in Hub /\ (wire[n][m] # 0 \/ At(queue[n], "relay", m))

LEMMA Mapping == TransportTypeOK => Mapped
<1> SUFFICES ASSUME TransportTypeOK PROVE Mapped
    OBVIOUS
<1>0. OnItsWay \in [Node -> SUBSET Message] /\ Got \in [Node -> SUBSET Message]
    BY DEF OnItsWay, Known, Got
<1> SUFFICES ASSUME TransportTypeOK, NEW n \in Node, NEW m \in Message
             PROVE  m \in OnItsWay[n] <=>
                        /\ Dest[m] \in Hub
                        /\ wire[n][m] # 0 \/ At(queue[n], "relay", m)
    BY <1>0 DEF Mapped
<1>1. Relayed(n, m) # {} <=> At(queue[n], "relay", m)
    BY DEF Relayed, At
<1>2. wire[n][m] \in Nat
    BY DEF TransportTypeOK
<1> QED BY <1>1, <1>2 DEF OnItsWay, Known

\* Steps by which no message is sent or given to a module.
LEMMA Stutter ==
    ASSUME TransportTypeOK, TransportTypeOK', UNCHANGED <<sent, inbox>>,
           \A n \in Node, m \in Message :
               (Dest[m] \in Hub =>
                   ((wire'[n][m] # 0 \/ At(queue'[n], "relay", m)) <=>
                       (wire[n][m] # 0 \/ At(queue[n], "relay", m))))
    PROVE  UNCHANGED <<sent, OnItsWay, Got>>
<1>1. UNCHANGED Got
    BY DEF Got
<1>m. Mapped /\ Mapped'
    BY Mapping, PTL
<1>2. \A n \in Node, m \in Message : m \in OnItsWay[n] <=>
          Dest[m] \in Hub /\ (wire[n][m] # 0 \/ At(queue[n], "relay", m))
    BY <1>m DEF Mapped
<1>3. \A n \in Node, m \in Message : m \in OnItsWay'[n] <=>
          Dest[m] \in Hub /\ (wire'[n][m] # 0 \/ At(queue'[n], "relay", m))
    BY <1>m DEF Mapped
<1>4. /\ OnItsWay \in [Node -> SUBSET Message]
      /\ OnItsWay' \in [Node -> SUBSET Message]
    BY <1>m DEF Mapped
<1> HIDE DEF OnItsWay
<1>5. \A n \in Node : OnItsWay'[n] = OnItsWay[n]
    BY <1>2, <1>3, <1>4
<1>6. UNCHANGED OnItsWay
    BY <1>4, <1>5
<1> QED BY <1>1, <1>6

\* Steps that put copies of a message on their way to some of the nodes.
LEMMA Sends ==
    ASSUME TransportTypeOK, TransportTypeOK', UNCHANGED inbox, NEW k \in Message, k \notin sent,
           sent' = sent \cup {k}, NEW R \in SUBSET Node,
           \A n \in Node, m \in Message :
               ((wire'[n][m] # 0 \/ At(queue'[n], "relay", m)) <=>
                   (\/ wire[n][m] # 0 \/ At(queue[n], "relay", m)
                    \/ m = k /\ n \in R))
    PROVE  \E receivers \in SUBSET Node :
               /\ OnItsWay' = [n \in Node |->
                     IF n \in receivers THEN OnItsWay[n] \cup {k}
                                        ELSE OnItsWay[n]]
               /\ UNCHANGED Got
<1>1. UNCHANGED Got
    BY DEF Got
<1>m. Mapped /\ Mapped'
    BY Mapping, PTL
<1>2. \A n \in Node, m \in Message : m \in OnItsWay[n] <=>
          Dest[m] \in Hub /\ (wire[n][m] # 0 \/ At(queue[n], "relay", m))
    BY <1>m DEF Mapped
<1>3. \A n \in Node, m \in Message : m \in OnItsWay'[n] <=>
          Dest[m] \in Hub /\ (wire'[n][m] # 0 \/ At(queue'[n], "relay", m))
    BY <1>m DEF Mapped
<1>4. /\ OnItsWay \in [Node -> SUBSET Message]
      /\ OnItsWay' \in [Node -> SUBSET Message]
    BY <1>m DEF Mapped
<1> DEFINE receivers == {n \in R : Dest[k] \in Hub}
<1>5. \A n \in Node : OnItsWay'[n] =
          IF n \in receivers THEN OnItsWay[n] \cup {k} ELSE OnItsWay[n]
  <2> SUFFICES ASSUME NEW n \in Node
               PROVE  OnItsWay'[n] = IF n \in receivers
                          THEN OnItsWay[n] \cup {k} ELSE OnItsWay[n]
    OBVIOUS
  <2>1. \A m \in Message : m \in OnItsWay'[n] <=>
            m \in OnItsWay[n] \/ (m = k /\ n \in receivers)
    BY <1>2, <1>3
  <2> HIDE DEF receivers
  <2> QED BY <1>4, <2>1
<1>6. OnItsWay' = [n \in Node |->
          IF n \in receivers THEN OnItsWay[n] \cup {k} ELSE OnItsWay[n]]
    BY <1>4, <1>5
<1>7. receivers \in SUBSET Node
    OBVIOUS
<1> HIDE DEF receivers
<1> QED BY <1>1, <1>6, <1>7

\* The step that gives a message to a module.
LEMMA Delivers ==
    ASSUME TransportTypeOK, TransportTypeOK', UNCHANGED sent,
           NEW p \in Node, NEW k \in Message, Dest[k] \in Hub,
           At(queue[p], "relay", k),
           inbox' = [inbox EXCEPT ![p][k] = @ + 1],
           \A n \in Node, m \in Message :
               ((wire'[n][m] # 0 \/ At(queue'[n], "relay", m)) <=>
                   (/\ wire[n][m] # 0 \/ At(queue[n], "relay", m)
                    /\ ~(m = k /\ n = p)))
    PROVE  /\ k \in OnItsWay[p]
           /\ OnItsWay' = [OnItsWay EXCEPT ![p] = @ \ {k}]
           /\ Got' = [Got EXCEPT ![p] = @ \cup {k}]
<1>m. Mapped /\ Mapped'
    BY Mapping, PTL
<1>2. \A n \in Node, m \in Message : m \in OnItsWay[n] <=>
          Dest[m] \in Hub /\ (wire[n][m] # 0 \/ At(queue[n], "relay", m))
    BY <1>m DEF Mapped
<1>3. \A n \in Node, m \in Message : m \in OnItsWay'[n] <=>
          Dest[m] \in Hub /\ (wire'[n][m] # 0 \/ At(queue'[n], "relay", m))
    BY <1>m DEF Mapped
<1>4. /\ OnItsWay \in [Node -> SUBSET Message]
      /\ OnItsWay' \in [Node -> SUBSET Message]
      /\ Got \in [Node -> SUBSET Message] /\ Got' \in [Node -> SUBSET Message]
    BY <1>m DEF Mapped
<1>5. k \in OnItsWay[p]
    BY <1>2
<1>6. OnItsWay' = [OnItsWay EXCEPT ![p] = @ \ {k}]
  <2>1. \A n \in Node : OnItsWay'[n] =
            IF n = p THEN OnItsWay[n] \ {k} ELSE OnItsWay[n]
    <3> SUFFICES ASSUME NEW n \in Node
                 PROVE  OnItsWay'[n] =
                            IF n = p THEN OnItsWay[n] \ {k} ELSE OnItsWay[n]
      OBVIOUS
    <3>1. \A m \in Message : m \in OnItsWay'[n] <=>
              m \in OnItsWay[n] /\ ~(m = k /\ n = p)
      BY <1>2, <1>3
    <3> QED BY <1>4, <3>1
  <2> QED BY <1>4, <2>1
<1>7. Got' = [Got EXCEPT ![p] = @ \cup {k}]
  <2>1. \A n \in Node, m \in Message :
            /\ inbox[n][m] \in Nat
            /\ inbox'[n][m] = IF n = p /\ m = k THEN inbox[n][m] + 1
                                                ELSE inbox[n][m]
    <3>1. inbox \in [Node -> [Message -> Nat]]
      BY DEF TransportTypeOK
    <3> QED BY <3>1
  <2>3. \A n \in Node, m \in Message :
            /\ m \in Got[n] <=> inbox[n][m] > 0
            /\ m \in Got'[n] <=> inbox'[n][m] > 0
    BY DEF Got
  <2>2. \A n \in Node : Got'[n] = IF n = p THEN Got[n] \cup {k} ELSE Got[n]
    <3> SUFFICES ASSUME NEW n \in Node
                 PROVE  Got'[n] = IF n = p THEN Got[n] \cup {k} ELSE Got[n]
      OBVIOUS
    <3>1. \A m \in Message : m \in Got'[n] <=>
              m \in Got[n] \/ (m = k /\ n = p)
      BY <2>1, <2>3
    <3> QED BY <1>4, <3>1
  <2> QED BY <1>4, <2>2
<1> QED BY <1>5, <1>6, <1>7

LEMMA NetworkStep == Inv /\ Inv' /\ [TransportNext]_transport => [Net!Next]_(Net!vars)
<1> SUFFICES ASSUME Inv, Inv', [TransportNext]_transport
             PROVE  Net!Next \/ UNCHANGED <<sent, OnItsWay, Got>>
    BY DEF Net!vars, OnItsWay, Got
<1> DEFINE Near(n, m) == wire[n][m] # 0 \/ At(queue[n], "relay", m)
           NearThen(n, m) == wire'[n][m] # 0 \/ At(queue'[n], "relay", m)
<1>t. TransportTypeOK /\ TransportTypeOK'
    BY DEF Inv
\* Send, as the mapping sees it
<1>s. ASSUME UNCHANGED inbox, NEW k \in Message, k \notin sent,
             sent' = sent \cup {k}, NEW R \in SUBSET Node,
             \A n \in Node, m \in Message :
                 NearThen(n, m) <=> (Near(n, m) \/ (m = k /\ n \in R))
      PROVE  Net!Next
  <2>1. PICK receivers \in SUBSET Node :
            /\ OnItsWay' = [n \in Node |->
                  IF n \in receivers THEN OnItsWay[n] \cup {k} ELSE OnItsWay[n]]
            /\ UNCHANGED Got
    BY <1>s, <1>t, Sends
  <2>2. Net!Send(k, receivers)
    BY <1>s, <2>1 DEF Net!Send, OnItsWay, Got
  <2> QED BY <2>2 DEF Net!Next
<1>u. ASSUME UNCHANGED <<sent, inbox>>,
             \A n \in Node, m \in Message :
                 Dest[m] \in Hub => (NearThen(n, m) <=> Near(n, m))
      PROVE  UNCHANGED <<sent, OnItsWay, Got>>
    BY <1>u, <1>t, Stutter
<1>1. ASSUME NEW n \in Node,
             \/ StartP2P(n)
             \/ \E p \in Node, type \in NodeType : Connect(p, n, type)
      PROVE  UNCHANGED <<sent, OnItsWay, Got>>
    BY <1>1, <1>u DEF StartP2P, Connect
<1>2. ASSUME NEW i \in Input, EnginePush(i) \/ ClientSend(i)
      PROVE  Net!Next \/ UNCHANGED <<sent, OnItsWay, Got>>
  <2> DEFINE n == i.at
             e == i.entry
             k == i.entry.msg
  <2>1. /\ i \in todo /\ n \in Node /\ e \in Entry
        /\ queue' = [queue EXCEPT ![n] = Append(@, e)]
        /\ UNCHANGED <<wire, inbox>>
    BY <1>2, InputType DEF EnginePush, ClientSend, Inv
  <2>2. e.kind # "add_peer" =>
            /\ k \in Message /\ k \notin sent
            /\ \A p \in Node : ~At(queue[p], "broadcast", k)
            /\ \A p \in Node : ~At(queue[p], "relay", k)
    BY <2>1, EntryType DEF Inv, OneCopy, TodoFresh, RelayOffWire
  <2>3. e.kind \in {"broadcast", "add_peer", "relay"}
    BY <2>1, EntryType
  <2>4. /\ e.kind = "relay" => sent' = sent \cup {k}
        /\ e.kind # "relay" => sent' = sent
    BY <1>2 DEF EnginePush, ClientSend
  <2>5. e.kind # "add_peer" => ~At(queue[n], e.kind, e.msg)
    BY <2>1, <2>2, <2>3
  <2> HIDE DEF n, e, k
  <2>6. \A p \in Node, m \in Message :
            At(queue'[p], "relay", m) <=>
                \/ At(queue[p], "relay", m)
                \/ p = n /\ e.kind = "relay" /\ e.msg = m
    BY <2>1, <2>5, Pushed
  <2>7. CASE e.kind # "relay"
    BY <2>1, <2>4, <2>6, <2>7, <1>u
  <2>8. CASE e.kind = "relay"
    <3>1. e.msg = k
      BY DEF e, k
    <3>2. \A p \in Node, m \in Message :
              NearThen(p, m) <=> (Near(p, m) \/ (m = k /\ p \in {n}))
      BY <2>1, <2>6, <2>8, <3>1
    <3>3. {n} \in SUBSET Node
      BY <2>1
    <3>4. k \in Message /\ k \notin sent /\ sent' = sent \cup {k}
      BY <2>2, <2>4, <2>8
    <3> HIDE DEF Near, NearThen
    <3>5. Net!Next
      BY <2>1, <3>2, <3>3, <3>4, <1>s
    <3> QED BY <3>5
  <2> QED BY <2>7, <2>8
<1>3. ASSUME NEW n \in Node, NEW k \in Message, Receive(n, k)
      PROVE  UNCHANGED <<sent, OnItsWay, Got>>
  <2> DEFINE e == [kind |-> "relay", msg |-> k]
  <2>1. e \in Entry /\ e.kind = "relay" /\ e.msg = k
    BY EntryType
  <2>2. /\ queue' = [queue EXCEPT ![n] = Append(@, e)]
        /\ wire' = [wire EXCEPT ![n][k] = @ - 1]
        /\ UNCHANGED <<sent, inbox>>
        /\ wire[n][k] # 0
    BY <1>3 DEF Receive
  <2> HIDE DEF e
  <2>3. wire[n][k] = 1 /\ ~At(queue[n], "relay", k)
    BY <2>2 DEF Inv, OneCopy, RelayOffWire, WireOnce
  <2>4. \A p \in Node, m \in Message :
            wire'[p][m] = IF p = n /\ m = k THEN 0 ELSE wire[p][m]
    <3>1. wire \in [Node -> [Message -> Nat]]
      BY <1>t DEF TransportTypeOK
    <3> QED BY <2>2, <2>3, <3>1
  <2>5. ~At(queue[n], e.kind, e.msg)
    BY <2>1, <2>3
  <2>6. \A p \in Node, m \in Message :
            At(queue'[p], "relay", m) <=>
                At(queue[p], "relay", m) \/ (p = n /\ m = k)
    <3>1. \A p \in Node, m \in Message :
              At(queue'[p], "relay", m) <=>
                  \/ At(queue[p], "relay", m)
                  \/ p = n /\ e.kind = "relay" /\ e.msg = m
      BY <2>1, <2>2, <2>5, Pushed
    <3> QED BY <2>1, <3>1
  <2>7. \A p \in Node, m \in Message : NearThen(p, m) <=> Near(p, m)
    BY <2>3, <2>4, <2>6
  <2> HIDE DEF Near, NearThen
  <2> QED BY <2>2, <2>7, <1>u
<1>4. ASSUME NEW n \in Node, ProcessBroadcast(n) PROVE Net!Next
  <2> DEFINE h == Head(queue[n])
             k == h.msg
             R == peers[n][h.type]
  <2>1. /\ queue[n] # <<>> /\ queue' = [queue EXCEPT ![n] = Tail(@)]
        /\ h.kind = "broadcast"
        /\ wire' = Copies(k, R)
        /\ sent' = sent \cup {k}
        /\ UNCHANGED inbox
    BY <1>4 DEF ProcessBroadcast, Takes
  <2>2. h \in Entry /\ At(queue[n], "broadcast", k)
    BY <2>1, Taken
  <2>3. k \in Message /\ h.type \in NodeType
    BY <2>1, <2>2, EntryType
  <2>4. R \in SUBSET Node
    BY <2>3, <1>t DEF TransportTypeOK
  <2>5. \A p \in Node, m \in Message :
            At(queue'[p], "relay", m) <=>
                /\ At(queue[p], "relay", m)
                /\ ~(p = n /\ h.kind = "relay" /\ h.msg = m)
    BY <2>1, Taken
  <2> HIDE DEF h, R
  <2>6. \A p \in Node, m \in Message :
            wire'[p][m] = IF p \in R /\ m = k THEN wire[p][m] + 1
                                              ELSE wire[p][m]
    BY <2>1, <2>3, <1>t, CopiesType
  <2>7. \A p \in Node, m \in Message : wire[p][m] \in Nat
    BY <1>t DEF TransportTypeOK
  <2>8. k \notin sent
    BY <2>2, <2>3 DEF Inv, OneCopy, BroadcastFresh
  <2> HIDE DEF k
  <2>9. \A p \in Node, m \in Message :
            NearThen(p, m) <=> (Near(p, m) \/ (m = k /\ p \in R))
    BY <2>1, <2>5, <2>6, <2>7
  <2> HIDE DEF Near, NearThen
  <2> QED BY <2>1, <2>3, <2>4, <2>8, <2>9, <1>s
<1>5. ASSUME NEW n \in Node, ProcessAddPeer(n) \/ ProcessUnknown(n)
      PROVE  UNCHANGED <<sent, OnItsWay, Got>>
  <2> DEFINE h == Head(queue[n])
  <2>1. /\ queue[n] # <<>> /\ queue' = [queue EXCEPT ![n] = Tail(@)]
        /\ h.kind = "add_peer" \/ Dest[h.msg] \notin Hub
        /\ UNCHANGED <<wire, sent, inbox>>
    BY <1>5 DEF ProcessAddPeer, ProcessUnknown, Takes
  <2>2. \A p \in Node, m \in Message :
            At(queue'[p], "relay", m) <=>
                /\ At(queue[p], "relay", m)
                /\ ~(p = n /\ h.kind = "relay" /\ h.msg = m)
    BY <2>1, Taken
  <2> HIDE DEF h
  <2> QED BY <2>1, <2>2, <1>u
<1>6. ASSUME NEW n \in Node, ProcessRelay(n) PROVE Net!Next
  <2> DEFINE h == Head(queue[n])
             k == h.msg
  <2>1. /\ queue[n] # <<>> /\ queue' = [queue EXCEPT ![n] = Tail(@)]
        /\ h.kind = "relay" /\ Dest[k] \in Hub
        /\ inbox' = [inbox EXCEPT ![n][k] = @ + 1]
        /\ UNCHANGED <<wire, sent>>
    BY <1>6 DEF ProcessRelay, Takes
  <2>2. h \in Entry /\ At(queue[n], "relay", k)
    BY <2>1, Taken
  <2>3. k \in Message
    BY <2>1, <2>2, EntryType
  <2>4. \A p \in Node, m \in Message :
            At(queue'[p], "relay", m) <=>
                /\ At(queue[p], "relay", m)
                /\ ~(p = n /\ h.kind = "relay" /\ h.msg = m)
    BY <2>1, Taken
  <2>5. wire[n][k] = 0
    BY <2>2, <2>3 DEF Inv, OneCopy, RelayOffWire
  <2>6. h.msg = k
    OBVIOUS
  <2> HIDE DEF h, k
  <2>7. \A p \in Node, m \in Message :
            NearThen(p, m) <=> (Near(p, m) /\ ~(m = k /\ p = n))
    BY <2>1, <2>4, <2>5, <2>6
  <2>8. /\ k \in OnItsWay[n]
        /\ OnItsWay' = [OnItsWay EXCEPT ![n] = @ \ {k}]
        /\ Got' = [Got EXCEPT ![n] = @ \cup {k}]
    BY <2>1, <2>2, <2>3, <2>7, <1>t, Delivers
  <2>9. PICK m \in Message : m = k
    BY <2>3
  <2>10. Net!Deliver(n, m)
    BY <2>1, <2>8, <2>9 DEF Net!Deliver, OnItsWay, Got
  <2> QED BY <2>9, <2>10 DEF Net!Next
<1>7. CASE UNCHANGED transport
  <2>1. UNCHANGED <<sent, inbox, wire, queue>>
    BY <1>7 DEF transport
  <2> QED BY <2>1, <1>u
<1> QED
    BY <1>1, <1>2, <1>3, <1>4, <1>5, <1>6, <1>7 DEF TransportNext, ProcessQueue

(* The queue threads, the dictionaries of peers, the sender threads and the  *)
(* hub implement the abstract Network: a module gets what was sent, in any   *)
(* order, and gets it once.                                                  *)
THEOREM Refinement == TransportSpec => ImplementsNetwork
<1>1. TransportInit => Net!Init
  <2> SUFFICES ASSUME TransportInit PROVE Net!Init
    OBVIOUS
  <2>1. \A n \in Node, m \in Message : wire[n][m] = 0 /\ Relayed(n, m) = {}
    BY DEF TransportInit, Relayed
  <2>2. \A n \in Node : {m \in Known(Message) :
                            wire[n][m] > 0 \/ Relayed(n, m) # {}} = {}
    BY <2>1 DEF Known
  <2>3. \A n \in Node : {m \in Message : inbox[n][m] > 0} = {}
    BY DEF TransportInit
  <2> QED BY <2>2, <2>3 DEF TransportInit, Net!Init
<1> QED
    BY <1>1, NetworkStep, Invariant, PTL
    DEF TransportSpec, ImplementsNetwork, Net!Spec
=============================================================================
