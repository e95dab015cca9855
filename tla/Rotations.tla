------------------------------ MODULE Rotations ------------------------------
(***************************************************************************)
(* The rotations of the avatar's modules.  Quaternions are abstracted to   *)
(* the non-abelian group of order 21: every rotation has an inverse and a  *)
(* unique half, products depend on their order, and the turn of the model  *)
(* by 180 degrees is an automorphism that keeps the turns about Y and      *)
(* inverts those about X and Z.                                            *)
(***************************************************************************)
EXTENDS Integers

Rotation == (0 .. 6) \X (0 .. 2)

Identity == <<0, 0>>

\* 2 has order 3 modulo 7.
Times(a, b) ==
  <<(a[1] + (CASE a[2] = 0 -> 1 [] a[2] = 1 -> 2 [] a[2] = 2 -> 4) * b[1]) % 7,
    (a[2] + b[2]) % 3>>

Inv == [a \in Rotation |-> CHOOSE b \in Rotation : Times(a, b) = Identity]

Half == [a \in Rotation |-> CHOOSE h \in Rotation : Times(h, h) = a]

\* slerp at one half: as far from a as from b.
Halfway(a, b) == Times(a, Half[Times(Inv[a], b)])

\* The turn by 0 or 1 units about an axis.
Turn(axis, v) == IF v = 0 THEN Identity
                 ELSE CASE axis = "X" -> <<1, 0>>
                        [] axis = "Y" -> <<0, 1>>
                        [] axis = "Z" -> <<3, 0>>

\* Conjugation by 180 degrees about Y.
Turned(a) == <<(-a[1]) % 7, a[2]>>
=============================================================================
