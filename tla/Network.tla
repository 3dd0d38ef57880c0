------------------------------ MODULE Network ------------------------------
(***************************************************************************)
(* What a node may rely on: a message that is sent is on its way to some   *)
(* of the nodes, and each of them gets it at most once, in any order.      *)
(* LLFC is written on this network; Transport implements it.               *)
(***************************************************************************)

CONSTANTS Node, Message

VARIABLES sent,  \* the messages that were ever sent
          net,   \* net[n]: the messages on their way to n
          inbox  \* inbox[n]: the messages that n got

vars == <<sent, net, inbox>>

TypeOK ==
    /\ sent \subseteq Message
    /\ net \in [Node -> SUBSET Message]
    /\ inbox \in [Node -> SUBSET Message]

Init ==
    /\ sent = {}
    /\ net = [n \in Node |-> {}]
    /\ inbox = [n \in Node |-> {}]

Send(m, receivers) ==
    /\ m \notin sent
    /\ sent' = sent \cup {m}
    /\ net' = [n \in Node |->
                  IF n \in receivers THEN net[n] \cup {m} ELSE net[n]]
    /\ UNCHANGED inbox

Deliver(n, m) ==
    /\ m \in net[n]
    /\ net' = [net EXCEPT ![n] = @ \ {m}]
    /\ inbox' = [inbox EXCEPT ![n] = @ \cup {m}]
    /\ UNCHANGED sent

Next ==
    \E m \in Message :
        \/ \E receivers \in SUBSET Node : Send(m, receivers)
        \/ \E n \in Node : Deliver(n, m)

Spec == Init /\ [][Next]_vars
=============================================================================
