----------------------------- MODULE Secp256k1 -----------------------------
(***************************************************************************)
(* The arithmetic under the signatures: points of y^2 = x^3 + 7 over a     *)
(* prime field, in Jacobian coordinates <<x, y, z>>.  The field and the    *)
(* base point are constants, since the curve of the code has 2^256 points. *)
(***************************************************************************)
EXTENDS Integers

CONSTANTS
    P,      \* the field's prime
    N,      \* the order of the group, a prime
    Gx, Gy  \* the base point

\* What the curve of the code has and recover needs: a square root is a
\* power, and as in the code the order is less than the prime.
ASSUME CurveAssumption ==
    /\ P \in Nat /\ N \in Nat /\ P % 12 = 7 /\ 2 < N /\ N < P
    /\ Gx \in 1 .. P - 1 /\ Gy \in 1 .. P - 1
    /\ (Gy * Gy - Gx * Gx * Gx - 7) % P = 0

Coordinate == 0 .. P - 1

G == <<Gx, Gy>>

RECURSIVE Euclid(_, _, _, _)
Euclid(l, low, h, high) ==
    IF low <= 1 THEN l
      ELSE LET r == high \div low
           IN  Euclid(h - l * r, high - low * r, l, low)

inverse(p, q) == IF p = 0 THEN 0 ELSE Euclid(1, p % q, 0, q) % q

to_j(p) == <<p[1], p[2], 1>>

from_j(p) ==
    LET k == inverse(p[3], P)
    IN  <<(p[1] * k * k) % P, (p[2] * k * k * k) % P>>

j_double(p) ==
    IF p[2] = 0 THEN <<0, 0, 0>>
      ELSE LET y == (p[2] * p[2]) % P
               S == (4 * p[1] * y) % P
               M == (3 * p[1] * p[1]) % P
               x == (M * M - 2 * S) % P
           IN  <<x, (M * (S - x) - 8 * y * y) % P, (2 * p[2] * p[3]) % P>>

\* Mutant: the sum of a point and itself is not told from that of opposites.
SameXOpposite(p, y1, y2) == <<0, 0, 1>>

\* The sum of two points with one x, which are equal or opposite
SameX(p, y1, y2) == IF y1 # y2 THEN <<0, 0, 1>> ELSE j_double(p)

j_add(p, q) ==
    IF p[2] = 0 THEN q
    ELSE IF q[2] = 0 THEN p
    ELSE LET x1 == (p[1] * q[3] * q[3]) % P
             x2 == (q[1] * p[3] * p[3]) % P
             y1 == (p[2] * q[3] * q[3] * q[3]) % P
             y2 == (q[2] * p[3] * p[3] * p[3]) % P
             dx == x2 - x1
             dy == y2 - y1
             du == (dx * dx) % P
             dv == (dx * du) % P
             dudv == (x1 * du) % P
             x == (dy * dy - dv - 2 * dudv) % P
         IN  IF x1 = x2 THEN SameX(p, y1, y2)
               ELSE <<x, (dy * (dudv - x) - y1 * dv) % P,
                      (dx * p[3] * q[3]) % P>>

RECURSIVE j_mul(_, _)

j_mul(p, q) ==
    IF p[2] = 0 \/ q = 0 THEN <<0, 0, 1>>
    ELSE IF q = 1 THEN p
    ELSE IF q < 0 \/ q >= N THEN j_mul(p, q % N)
    ELSE LET twice == j_double(j_mul(p, q \div 2))
         IN  IF q % 2 = 0 THEN twice ELSE j_add(twice, p)

mul(p, q) == from_j(j_mul(to_j(p), q))
=============================================================================
