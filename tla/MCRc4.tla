------------------------------- MODULE MCRc4 --------------------------------
(***************************************************************************)
(* Rc4 with bytes of four values.                                          *)
(***************************************************************************)
EXTENDS Rc4, Bitwise

MCXor(a, b) == a ^^ b

(* It changes the first half of the table and keeps no permutation. *)
MCTransform(s) == [n \in Byte |-> IF n < N \div 2 THEN (s[n] * s[n]) % N ELSE s[n]]

MCExtra == {[n \in Byte |-> (a * n + b) % N] : a \in {1, 2}, b \in Byte}
=============================================================================
