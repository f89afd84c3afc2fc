-------------------------------- MODULE Ints --------------------------------
(***************************************************************************)
(* The sized integers of the language. IntTypes stands for the table      *)
(* INT_TYPES: a width and a signedness for every type name. An instance   *)
(* gives the types small widths, so that overflow is within reach.        *)
(***************************************************************************)
EXTENDS Integers, Bitwise

CONSTANT IntTypes

ASSUME IntTypesAssumption ==
  \A t \in DOMAIN IntTypes :
    IntTypes[t].bits \in Nat \ {0} /\ IntTypes[t].signed \in BOOLEAN

Modulus(t) == 2 ^ IntTypes[t].bits
Least(t) == IF IntTypes[t].signed THEN -(Modulus(t) \div 2) ELSE 0
Greatest(t) == Least(t) + Modulus(t) - 1
Fits(v, t) == v \in Least(t)..Greatest(t)

\* Two's complement: the value of the low bits of v at type t.
Wrapped(v, t) == Least(t) + ((v - Least(t)) % Modulus(t))

Magnitude(v) == IF v < 0 THEN -v ELSE v

\* Division that truncates toward zero, and the remainder that goes with it.
TruncDiv(a, b) ==
  LET q == Magnitude(a) \div Magnitude(b)
  IN  IF (a < 0) # (b < 0) THEN -q ELSE q
TruncMod(a, b) == a - TruncDiv(a, b) * b

\* Bitwise operators on the two's complement representation at type t.
Bits(v, t) == v % Modulus(t)
\* a * 2^n, and a / 2^n rounded down (the shift of a signed integer).
ShiftLeft(a, n) == a * 2 ^ n
ShiftRight(a, n) == a \div 2 ^ n
=============================================================================
