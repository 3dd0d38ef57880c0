----------------------------- MODULE CurveWalk -----------------------------
(***************************************************************************)
(* Additions and doublings of Secp256k1, one after the other, so that the  *)
(* third coordinate takes every value, beside the group law in affine      *)
(* coordinates as a textbook gives it.                                     *)
(***************************************************************************)
EXTENDS Secp256k1

VARIABLES
    point,  \* what the code has computed, in Jacobian coordinates
    affine, \* the same by the group law; <<0, 0>> for the point at infinity
    factor  \* it is the base point that many times

vars == <<point, affine, factor>>

Infinity == <<0, 0>>

Slope(dy, dx) == (dy * (CHOOSE i \in Coordinate : (dx * i) % P = 1)) % P

\* The third point of the line through p and q, or of the tangent, mirrored.
Plus(p, q) ==
    IF p = Infinity THEN q
    ELSE IF q = Infinity THEN p
    ELSE IF p[1] = q[1] /\ (p[2] + q[2]) % P = 0 THEN Infinity
    ELSE LET m == IF p = q
                    THEN Slope(3 * p[1] * p[1], (2 * p[2]) % P)
                    ELSE Slope((q[2] - p[2]) % P, (q[1] - p[1]) % P)
             x == (m * m - p[1] - q[1]) % P
         IN  <<x, (m * (p[1] - x) - p[2]) % P>>

Init ==
    /\ point = to_j(G)
    /\ affine = G
    /\ factor = 1

Double ==
    /\ point' = j_double(point)
    /\ affine' = Plus(affine, affine)
    /\ factor' = (2 * factor) % N

\* The sum with the base point, on either side.
AddBase ==
    /\ \/ point' = j_add(point, to_j(G))
       \/ point' = j_add(to_j(G), point)
    /\ affine' = Plus(affine, G)
    /\ factor' = (factor + 1) % N

\* j_add of a point and itself
AddItself ==
    /\ point' = j_add(point, point)
    /\ affine' = Plus(affine, affine)
    /\ factor' = (2 * factor) % N

Next == Double \/ AddBase \/ AddItself

Spec == Init /\ [][Next]_vars

(* Every sum and double of the code is the sum of the group, whatever the    *)
(* third coordinates are: of a point and itself, of opposites, and with the  *)
(* point at infinity, which the code writes in two ways.  The recursion of   *)
(* j_mul gives as many times the base point as its factor says, and reduces  *)
(* a factor that is negative or at least N.                                  *)
ComputesInGroup ==
    /\ from_j(point) = affine
    /\ \A q \in {factor - N, factor, factor + N} : mul(G, q) = affine
=============================================================================
