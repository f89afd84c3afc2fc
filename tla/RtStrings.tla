----------------------------- MODULE RtStrings -----------------------------
(***************************************************************************)
(* Strings, twice: the interpreter's are sequences of code points, those   *)
(* of bootstrap/runtime/cardinal_rt.c their UTF-8 bytes. A program makes   *)
(* strings of characters, of parts of others and of numbers; every action  *)
(* is one call of it, carried out by both. text is what the interpreter    *)
(* holds, bytes what the compiled program does.                            *)
(*                                                                         *)
(* The bytes that reach the runtime from outside, of literals and files,   *)
(* are taken to be well-formed. i64 is -HalfRange .. HalfRange - 1, u64 has *)
(* as many numbers.                                                        *)
(***************************************************************************)
EXTENDS Integers, Sequences, FiniteSets

CONSTANTS
  Values,    \* the arguments of chr
  Numbers,   \* the arguments of int_to_str
  Counts,    \* the arguments of substr
  HalfRange, \* 2 ^ 63 in the code
  MaxLen     \* bound on the characters of a string
MaxU == 2 * HalfRange - 1
ASSUME RangeAssumption == HalfRange \in Nat \ {0}
ASSUME ArgumentsAssumption ==
  /\ Values \subseteq Nat
  /\ Counts \subseteq 0 .. MaxU
  /\ Numbers \subseteq -HalfRange .. HalfRange - 1
\* Positions in a string are of type u64.
ASSUME LengthAssumption == MaxLen \in 0 .. MaxU

VARIABLES
  text, bytes,   \* of the variables s and t of the program
  panicked       \* which of the two has panicked
vars == <<text, bytes, panicked>>
Strings == {"s", "t"}

Least(x, y) == IF x < y THEN x ELSE y
Wrap(x) == ((x + HalfRange) % (2 * HalfRange)) - HalfRange

\* --------------------------------------------------------------------- UTF-8
\* mutant: the first code point of three bytes is given two
utf8_encode_OffByOne(cp) ==
  IF cp < 128 THEN <<cp>>
  ELSE IF cp <= 2048 THEN <<192 + cp \div 64, 128 + (cp % 64)>>
  ELSE IF cp < 65536 THEN <<224 + cp \div 4096, 128 + ((cp \div 64) % 64), 128 + (cp % 64)>>
  ELSE <<240 + cp \div 262144, 128 + ((cp \div 4096) % 64), 128 + ((cp \div 64) % 64), 128 + (cp % 64)>>
utf8_encode(cp) ==
  IF cp < 128 THEN <<cp>>
  ELSE IF cp < 2048 THEN <<192 + cp \div 64, 128 + (cp % 64)>>
  ELSE IF cp < 65536 THEN <<224 + cp \div 4096, 128 + ((cp \div 64) % 64), 128 + (cp % 64)>>
  ELSE <<240 + cp \div 262144, 128 + ((cp \div 4096) % 64), 128 + ((cp \div 64) % 64), 128 + (cp % 64)>>

\* One code point of b, from position i on, and the position after it.
Extra(c) == IF c < 128 THEN 0 ELSE IF c < 224 THEN 1 ELSE IF c < 240 THEN 2 ELSE 3
LeadBits(c) == IF c < 128 THEN c ELSE IF c < 224 THEN c % 32 ELSE IF c < 240 THEN c % 16 ELSE c % 8
utf8_decode(b, i) ==
  LET n    == Least(Extra(b[i]), Len(b) - i)
      lead == LeadBits(b[i])
      bits(k) == b[i + k] % 64
  IN  [next |-> i + n + 1,
       cp |-> CASE n = 0 -> lead
                [] n = 1 -> lead * 64 + bits(1)
                [] n = 2 -> (lead * 64 + bits(1)) * 64 + bits(2)
                [] n = 3 -> ((lead * 64 + bits(1)) * 64 + bits(2)) * 64 + bits(3)]

\* The loops over a string: its code points, and the number of bytes up to and
\* including each.
Decoded(b) ==
  LET from[i \in 1 .. Len(b) + 1] ==
        IF i > Len(b) THEN << >>
        ELSE LET d == utf8_decode(b, i)
             IN  <<[cp |-> d.cp, end |-> d.next - 1]>> \o from[d.next]
  IN  from[1]

\* ----------------------------------------------------------- string functions
\* Bytes that do not continue a code point; chars makes an array of that many.
cl_str_len(b) == Cardinality({i \in DOMAIN b : b[i] \notin 128 .. 191})
cl_strings__chars(b) == [k \in DOMAIN Decoded(b) |-> Decoded(b)[k].cp]
cl_strings__eq(a, b) == Len(a) = Len(b) /\ \A i \in DOMAIN a : a[i] = b[i]

\* Where the n-th code point ends; past the last one, at the end.
Offset(b, n) ==
  IF n = 0 THEN 0 ELSE IF n <= Len(Decoded(b)) THEN Decoded(b)[n].end ELSE Len(b)
\* mutant: the sum of start and count wraps
cl_strings__substr_Wraps(b, start, count) ==
  LET lo == Offset(b, start)
      hi == Offset(b, (start + count) % (MaxU + 1))
  IN  SubSeq(b, lo + 1, IF hi < lo THEN lo ELSE hi)
cl_strings__substr(b, start, count) ==
  LET end == IF start + count > MaxU THEN MaxU ELSE start + count
      lo  == Offset(b, start)
      hi  == Offset(b, end)
  IN  SubSeq(b, lo + 1, IF hi < lo THEN lo ELSE hi)
_substr(s, start, count) == SubSeq(s, start + 1, Least(start + count, Len(s)))

Scalar(v) == v <= 1114111 /\ v \notin 55296 .. 57343

\* ------------------------------------------------------------------- numbers
\* Without the white space around it, and without its sign.
Blank == {32, 9, 10, 13}
Trimmed(s) ==
  LET kept == {i \in DOMAIN s : s[i] \notin Blank}
  IN  IF kept = {} THEN << >>
      ELSE SubSeq(s, CHOOSE i \in kept : \A j \in kept : i <= j,
                     CHOOSE i \in kept : \A j \in kept : i >= j)
Negative(s) == Trimmed(s) # << >> /\ Trimmed(s)[1] = 45
Unsigned(s) ==
  IF Trimmed(s) # << >> /\ Trimmed(s)[1] \in {43, 45} THEN Tail(Trimmed(s)) ELSE Trimmed(s)
IsNumber(s) == Unsigned(s) # << >> /\ \A i \in DOMAIN Unsigned(s) : Unsigned(s)[i] \in 48 .. 57

\* The interpreter's result is exact, then wrapped.
_str_to_int(s) ==
  LET acc[i \in 0 .. Len(Unsigned(s))] ==
        IF i = 0 THEN 0 ELSE acc[i - 1] * 10 + (Unsigned(s)[i] - 48)
      n == acc[Len(Unsigned(s))]
  IN  Wrap(IF Negative(s) THEN -n ELSE n)
\* The runtime's overflows at any digit, and when it is negated; it is compiled
\* with -fwrapv.
\* mutant: the accumulator stops at the greatest number
cl_convert__str_to_int_Saturates(s) ==
  LET acc[i \in 0 .. Len(Unsigned(s))] ==
        IF i = 0 THEN 0
        ELSE Least(acc[i - 1] * 10 + (Unsigned(s)[i] - 48), HalfRange - 1)
      n == acc[Len(Unsigned(s))]
  IN  Wrap(IF Negative(s) THEN -n ELSE n)
cl_convert__str_to_int(s) ==
  LET acc[i \in 0 .. Len(Unsigned(s))] ==
        IF i = 0 THEN 0 ELSE Wrap(acc[i - 1] * 10 + (Unsigned(s)[i] - 48))
      n == acc[Len(Unsigned(s))]
  IN  Wrap(IF Negative(s) THEN -n ELSE n)
\* Decimal, in ASCII: the same code points and bytes.
int_to_str(v) ==
  LET digits[n \in 0 .. MaxU] ==
        IF n < 10 THEN <<48 + n>> ELSE digits[n \div 10] \o <<48 + (n % 10)>>
  IN  IF v < 0 THEN <<45>> \o digits[-v] ELSE digits[v]

\* strutil::str_lt, on the characters of two strings.
\* mutant: a string is less than its prefixes
str_lt_Longer(a, b) ==
  \/ \E i \in 1 .. Least(Len(a), Len(b)) : a[i] < b[i] /\ \A j \in 1 .. i - 1 : a[j] = b[j]
  \/ Len(a) > Len(b) /\ \A j \in DOMAIN b : a[j] = b[j]
str_lt(a, b) ==
  \/ \E i \in 1 .. Least(Len(a), Len(b)) : a[i] < b[i] /\ \A j \in 1 .. i - 1 : a[j] = b[j]
  \/ Len(a) < Len(b) /\ \A j \in DOMAIN a : a[j] = b[j]

-----------------------------------------------------------------------------
Runs == panicked = {}
Assign(x, t, b) ==
  /\ Len(t) <= MaxLen
  /\ text' = [text EXCEPT ![x] = t] /\ bytes' = [bytes EXCEPT ![x] = b]
  /\ UNCHANGED panicked
Panics(who) == panicked' = who /\ UNCHANGED <<text, bytes>>

Init ==
  /\ text = [x \in Strings |-> << >>] /\ bytes = [x \in Strings |-> << >>]
  /\ panicked = {}

\* chr and from_char. What is no scalar value makes both panic.
FromChar(v) ==
  /\ Runs
  /\ IF Scalar(v) THEN Assign("t", <<v>>, utf8_encode(v)) ELSE Panics({"text", "bytes"})
Concat == Runs /\ Assign("s", text["s"] \o text["t"], bytes["s"] \o bytes["t"])
Substr(x, start, count) ==
  /\ Runs
  /\ Assign(x, _substr(text["s"], start, count), cl_strings__substr(bytes["s"], start, count))
IntToStr(v) == Runs /\ Assign("t", int_to_str(v), int_to_str(v))
\* The number that s spells, spelled again.
StrToInt ==
  /\ Runs
  /\ LET who == {w \in {"text", "bytes"} : ~IsNumber(IF w = "text" THEN text["s"] ELSE bytes["s"])}
     IN  IF who = {}
         THEN Assign("t", int_to_str(_str_to_int(text["s"])), int_to_str(cl_convert__str_to_int(bytes["s"])))
         ELSE Panics(who)

Next ==
  \/ \E v \in Values : FromChar(v)
  \/ Concat
  \/ \E x \in Strings, start, count \in Counts : Substr(x, start, count)
  \/ \E v \in Numbers : IntToStr(v)
  \/ StrToInt
Spec == Init /\ [][Next]_vars

-----------------------------------------------------------------------------
(* Properties                                                              *)

\* "All indexing is by Unicode codepoint, to match the interpreter"
\* (cardinal_rt.c): whatever was cut, joined or converted, both have the same
\* characters, chars fills the array that it makes for them, equal strings have
\* equal bytes however they were made, and they panic together.
StringsAgree ==
  /\ \A x \in Strings :
       /\ cl_strings__chars(bytes[x]) = text[x]
       /\ cl_str_len(bytes[x]) = Len(text[x])
  /\ cl_strings__eq(bytes["s"], bytes["t"]) <=> text["s"] = text["t"]
  /\ panicked \in {{}, {"text", "bytes"}}

\* Strings are UTF-8 in the form that the standard calls well-formed: no code
\* point is cut, none is longer than it has to be, no surrogate is encoded. Then
\* other programs can read what is printed.
Continues(b, i) == i \in DOMAIN b /\ b[i] \in 128 .. 191
Trail(b, i) == {j \in 1 .. 4 : \A k \in 1 .. j : Continues(b, i + k)}
WellFormedBytes(b) ==
  \A i \in DOMAIN b :
    \/ Continues(b, i) /\ i > 1
    \/ b[i] \in 0 .. 127 /\ Trail(b, i) = {}
    \/ b[i] \in 194 .. 223 /\ Trail(b, i) = {1}
    \/ /\ b[i] \in 224 .. 239 /\ Trail(b, i) = {1, 2}
       /\ (b[i] = 224 => b[i + 1] >= 160) /\ (b[i] = 237 => b[i + 1] < 160)
    \/ /\ b[i] \in 240 .. 244 /\ Trail(b, i) = {1, 2, 3}
       /\ (b[i] = 240 => b[i + 1] >= 144) /\ (b[i] = 244 => b[i + 1] < 144)
WellFormed == \A x \in Strings : WellFormedBytes(bytes[x])

\* "Lexicographic byte-wise less-than on two strings (compares Unicode scalar
\* values of the chars ...)" (strutil.cardinal): the two orders are one.
Before(a, b) ==
  \E n \in 0 .. Least(Len(a), Len(b)) :
    /\ \A i \in 1 .. n : a[i] = b[i]
    /\ n < Len(b) /\ (n = Len(a) \/ a[n + 1] < b[n + 1])
OrderOfBytes == str_lt(text["s"], text["t"]) <=> Before(bytes["s"], bytes["t"])

\* A number that is spelled is read back, the least one too, whose digits alone
\* are out of range.
NumbersReadBack ==
  \A x \in Strings, v \in Numbers :
    text[x] = int_to_str(v) =>
      cl_convert__str_to_int(bytes[x]) = v /\ _str_to_int(text[x]) = v
=============================================================================
