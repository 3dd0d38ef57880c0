------------------------------ MODULE MCLedger ------------------------------
EXTENDS Ledger, TLC

CONSTANTS ann, bob, b1, b2, b3, c1

MCAccount == {ann, bob}

\* Two branches: b1 - b2 - b3 and c1.
MCBlock == {b1, b2, b3, c1}
MCHeight == (b1 :> 1) @@ (b2 :> 2) @@ (b3 :> 3) @@ (c1 :> 1)
MCPrev == (b1 :> Genesis) @@ (b2 :> b1) @@ (b3 :> b2) @@ (c1 :> Genesis)

Send(from, to, value, fee) ==
    [address_sender |-> from, address_recipient |-> to,
     amount_value |-> value, amount_fee |-> fee]

\* Payments that are made, that exceed the balance, that a fee makes exceed
\* it, to the payer himself, from an account that has nothing, of less than
\* zero, which takes the recipient below zero, and with a fee below zero.
MCTransactions ==
    (b1 :> <<Send(ann, bob, 3, 1), Send(bob, bob, 1, 1)>>) @@
    (b2 :> <<Send(ann, ann, 2, 1), Send(ann, bob, 5, 0)>>) @@
    (b3 :> <<Send(bob, ann, 1, 1), Send(bob, ann, -9, -1)>>) @@
    (c1 :> <<Send(bob, ann, 1, 1), Send(bob, ann, -9, -1), Send(ann, bob, 6, 1)>>)

MCAssignment == (ann :> 6) @@ (bob :> 0)
=============================================================================
