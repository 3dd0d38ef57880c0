---------------------------- MODULE MCTransport ----------------------------
(* Three nodes: n1 and n2 broadcast, n2 is a peer of n1, and n3 first is a   *)
(* NORMAL peer of n1, then a REP one, and a REP peer of n2, so that three    *)
(* Senders want to be heard by its ROUTER; a client sends n3 a message for a *)
(* module that no hub has.                                                   *)
EXTENDS Transport

CONSTANTS n1, n2, n3, m1, m2, lost

MCMessage == {m1, m2, lost}

MCDest == [m \in MCMessage |-> IF m = lost THEN "BLOCKCHAIN" ELSE "CONSENSUS"]

MCHub == {"CONSENSUS", "P2P"}

Broadcast(n, t, m) ==
    [at |-> n, entry |-> [kind |-> "broadcast", type |-> t, msg |-> m]]
AddPeer(n, list) == [at |-> n, entry |-> [kind |-> "add_peer", list |-> list]]
Request(n, m) == [at |-> n, entry |-> [kind |-> "relay", msg |-> m]]

MCInput ==
    {Broadcast(n1, "REP", m1), Broadcast(n2, "REP", m2),
     AddPeer(n1, {<<n2, "REP">>, <<n3, "NORMAL">>}), AddPeer(n1, {<<n3, "REP">>}),
     AddPeer(n2, {<<n3, "REP">>}), Request(n3, lost)}
=============================================================================
