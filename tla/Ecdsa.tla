------------------------------- MODULE Ecdsa -------------------------------
(***************************************************************************)
(* sign and recover: a signature of a transaction, a vote or a block holds *)
(* no key, and who made it is what recover computes from it.               *)
(***************************************************************************)
EXTENDS Secp256k1

CONSTANTS
    Private,    \* private keys
    MsgHash,    \* hashes of messages, as integers
    Nonce,      \* what deterministic returns, an HMAC of the two
    None,
    Raised      \* a TypeError: verifying takes the False of recover apart

\* No key is a multiple of the order, and no HMAC is: the code has no test.
ASSUME KeyAssumption ==
    /\ Private \subseteq 1 .. N - 1
    /\ MsgHash \subseteq Nat
    /\ Nonce \subseteq {d \in Nat : d % N # 0}

VARIABLES private, msg_hash, vrs, signer

vars == <<private, msg_hash, vrs, signer>>

Init ==
    /\ private \in Private /\ msg_hash \in MsgHash
    /\ vrs = None /\ signer = None

\* s before it is made small
S(r, d) == (inverse(d, N) * (msg_hash + r * private)) % N

\* Mutant: s is made small and the parity stays.
SignSameParity(d) ==
    LET R == mul(G, d)
        s == S(R[1], d)
    IN  <<27 + (R[2] % 2), R[1], IF s * 2 < N THEN s ELSE N - s>>

\* A small s is half of them: the other one is of the opposite point, so the
\* parity changes with it.
sign(d) ==
    LET R == mul(G, d)
        s == S(R[1], d)
    IN  IF s * 2 < N THEN <<27 + (R[2] % 2), R[1], s>>
                     ELSE <<27 + ((R[2] + 1) % 2), R[1], N - s>>

RECURSIVE PowerMod(_, _)
PowerMod(x, e) == IF e = 0 THEN 1 ELSE (x * PowerMod(x, e - 1)) % P

\* The point of the nonce is found by its x, r, and the parity of its y.
recover ==
    LET r == vrs[2]
        s == vrs[3]
        square == (r * r * r + 7) % P
        u == PowerMod(square, (P + 1) \div 4)
        y == IF vrs[1] % 2 # u % 2 THEN u ELSE P - u
        Qa == j_add(j_mul(to_j(G), (N - msg_hash) % N), j_mul(<<r, y, 1>>, s))
    IN  IF (square - y * y) % P # 0 \/ r % N = 0 \/ s % N = 0
          THEN Raised
          ELSE from_j(j_mul(Qa, inverse(r, N)))

\* signing, but for the assertion at its end, which is Verify
Sign ==
    /\ vrs = None
    /\ \E d \in Nonce : vrs' = sign(d)
    /\ UNCHANGED <<private, msg_hash, signer>>

\* verifying; the address it returns is a hash of this public key
Verify ==
    /\ vrs # None /\ signer = None
    /\ signer' = recover
    /\ UNCHANGED <<private, msg_hash, vrs>>

Next == Sign \/ Verify

Spec == Init /\ [][Next]_vars

(* A signature is its signer's: recover gives the public key of the private  *)
(* key it was made with, and fails only on one whose s is zero, although r   *)
(* is a coordinate that may be more than the order of the group.  So the     *)
(* assertion of signing holds, and it is the signer's address it computes.   *)
RecoversSigner ==
    (vrs # None /\ signer # None) =>
        signer = IF vrs[3] = 0 THEN Raised ELSE mul(G, private)

=============================================================================
