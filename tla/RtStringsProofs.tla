-------------------------- MODULE RtStringsProofs --------------------------
(***************************************************************************)
(* The strings of cardinal_rt.c for every code point, every number and any *)
(* sequence of calls. First UTF-8: what utf8_encode writes, utf8_decode    *)
(* reads, wherever in a string it stands; it is well-formed; and bytes are *)
(* ordered as code points are. The proofs take a code point apart into     *)
(* digits to the base 64, which are what the bytes carry.                  *)
(*                                                                         *)
(* Then strings: bytes encode a text when its characters stand in them one *)
(* after the other (Encodes). That both hold the same is that relation,    *)
(* and every operation keeps it: joining, cutting, trimming, spelling a    *)
(* number and reading one. From it follow all four invariants.             *)
(***************************************************************************)
EXTENDS RtStrings, Inductions, TLAPS

CodePoint == {cp \in Nat : cp < 1114112}

\* What is left of a code point after one, two or three digits, and the digits.
Q1(cp) == cp \div 64
Q2(cp) == cp \div 4096
Q3(cp) == cp \div 262144
D0(cp) == cp % 64
D1(cp) == (cp \div 64) % 64
D2(cp) == (cp \div 4096) % 64

LEMMA CodePointType ==
  ASSUME NEW cp \in CodePoint
  PROVE  cp \in Nat /\ cp < 1114112
BY SMT DEF CodePoint

LEMMA Quotients ==
  ASSUME NEW cp \in CodePoint
  PROVE  /\ Q1(cp) \in Nat /\ Q2(cp) \in Nat /\ Q3(cp) \in Nat /\ Q3(cp) < 5
         /\ cp = Q1(cp) * 64 + D0(cp)
         /\ Q1(cp) = Q2(cp) * 64 + D1(cp)
         /\ Q2(cp) = Q3(cp) * 64 + D2(cp)
<1>1. cp \in Nat /\ cp < 1114112
  BY SMT, CodePointType
<1>2. Q1(cp) \in Nat /\ cp = Q1(cp) * 64 + D0(cp)
  BY SMT, <1>1 DEF Q1, D0
<1>3. Q2(cp) \in Nat /\ Q1(cp) = Q2(cp) * 64 + D1(cp)
  BY SMT, <1>1 DEF Q1, Q2, D1
<1>4. Q2(cp) = Q3(cp) * 64 + D2(cp)
  BY SMT, <1>1 DEF Q2, Q3, D2
<1>5. Q3(cp) \in Nat
  BY SMT, <1>1 DEF Q3
<1>6. Q3(cp) < 5
  BY SMT, <1>1 DEF Q3
<1> QED
  BY <1>2, <1>3, <1>4, <1>5, <1>6

LEMMA Digits ==
  ASSUME NEW cp \in CodePoint
  PROVE  /\ D0(cp) \in Nat /\ D0(cp) < 64
         /\ D1(cp) \in Nat /\ D1(cp) < 64
         /\ D2(cp) \in Nat /\ D2(cp) < 64
<1>1. cp \in Nat
  BY SMT, CodePointType
<1>2. D0(cp) \in Nat /\ D0(cp) < 64
  BY SMT, <1>1 DEF D0
<1>3. D1(cp) \in Nat /\ D1(cp) < 64
  BY SMT, <1>1 DEF D1
<1>4. D2(cp) \in Nat /\ D2(cp) < 64
  BY SMT, <1>1 DEF D2
<1> QED
  BY <1>2, <1>3, <1>4

\* ------------------------------------------------------------- the four lengths
Enc(n, cp) ==
  CASE n = 1 -> <<cp>>
    [] n = 2 -> <<192 + Q1(cp), 128 + D0(cp)>>
    [] n = 3 -> <<224 + Q2(cp), 128 + D1(cp), 128 + D0(cp)>>
    [] n = 4 -> <<240 + Q3(cp), 128 + D2(cp), 128 + D1(cp), 128 + D0(cp)>>
Length(cp) == IF cp < 128 THEN 1 ELSE IF cp < 2048 THEN 2 ELSE IF cp < 65536 THEN 3 ELSE 4

LEMMA Encoding ==
  ASSUME NEW cp \in CodePoint
  PROVE  utf8_encode(cp) = Enc(Length(cp), cp)
<1>1. CASE cp < 128
  BY SMT, <1>1 DEF utf8_encode, Enc, Length
<1>2. CASE ~(cp < 128) /\ cp < 2048
  BY SMT, <1>2 DEF utf8_encode, Enc, Length, Q1, D0
<1>3. CASE ~(cp < 128) /\ ~(cp < 2048) /\ cp < 65536
  BY SMT, <1>3 DEF utf8_encode, Enc, Length, Q2, D1, D0
<1>4. CASE ~(cp < 128) /\ ~(cp < 2048) /\ ~(cp < 65536)
  BY SMT, <1>4 DEF utf8_encode, Enc, Length, Q3, D2, D1, D0
<1> QED
  BY SMT, <1>1, <1>2, <1>3, <1>4

LEMMA Lengths ==
  ASSUME NEW cp \in CodePoint
  PROVE  /\ Length(cp) = 1 \/ Length(cp) = 2 \/ Length(cp) = 3 \/ Length(cp) = 4
         /\ Length(cp) = 1 => cp < 128
         /\ Length(cp) = 2 => cp >= 128 /\ cp < 2048
         /\ Length(cp) = 3 => cp >= 2048 /\ cp < 65536
         /\ Length(cp) = 4 => cp >= 65536
BY SMT, CodePointType DEF Length

\* What the lead byte carries, and how much of it the byte after it bounds.
LEMMA TwoDigits ==
  ASSUME NEW cp \in Nat, NEW q1 \in Nat, NEW d0 \in Nat,
         d0 < 64, cp = q1 * 64 + d0, cp >= 128, cp < 2048
  PROVE  q1 >= 2 /\ q1 < 32
BY SMT
LEMMA ThreeDigits ==
  ASSUME NEW cp \in Nat, NEW q1 \in Nat, NEW q2 \in Nat, NEW d0 \in Nat, NEW d1 \in Nat,
         d0 < 64, d1 < 64, cp = q1 * 64 + d0, q1 = q2 * 64 + d1, cp >= 2048, cp < 65536
  PROVE  q2 < 16 /\ (q2 = 0 => d1 >= 32)
BY SMT
LEMMA FourDigits ==
  ASSUME NEW cp \in Nat, NEW q1 \in Nat, NEW q2 \in Nat, NEW q3 \in Nat,
         NEW d0 \in Nat, NEW d1 \in Nat, NEW d2 \in Nat, d0 < 64, d1 < 64, d2 < 64,
         cp = q1 * 64 + d0, q1 = q2 * 64 + d1, q2 = q3 * 64 + d2, cp >= 65536, cp < 1114112
  PROVE  (q3 = 0 => d2 >= 16) /\ (q3 = 4 => d2 < 16)
<1>1. q2 >= 16
  BY SMT
<1>2. q2 < 272
  BY SMT
<1> QED
  BY SMT, <1>1, <1>2
\* A surrogate would be an encoding of three bytes, by its first two.
LEMMA NoSurrogate ==
  ASSUME NEW cp \in CodePoint, Scalar(cp), Q2(cp) = 13
  PROVE  D1(cp) < 32
<1>1. cp = Q1(cp) * 64 + D0(cp) /\ Q1(cp) = 13 * 64 + D1(cp) /\ Q1(cp) \in Nat
  BY SMT, Quotients
<1>2. D0(cp) \in Nat /\ D0(cp) < 64 /\ D1(cp) \in Nat /\ D1(cp) < 64
  BY SMT, Digits
<1>3. cp \in Nat /\ (cp < 55296 \/ cp > 57343)
  BY SMT, CodePointType DEF Scalar
<1>4. cp = 53248 + D1(cp) * 64 + D0(cp)
  BY SMT, <1>1, <1>2
<1> QED
  BY SMT, <1>2, <1>3, <1>4

LEMMA LeadTwo ==
  ASSUME NEW cp \in CodePoint, Length(cp) = 2
  PROVE  Q1(cp) >= 2 /\ Q1(cp) < 32
<1>1. cp \in Nat /\ cp >= 128 /\ cp < 2048
  BY SMT, CodePointType, Lengths
<1>2. Q1(cp) \in Nat /\ cp = Q1(cp) * 64 + D0(cp) /\ D0(cp) \in Nat /\ D0(cp) < 64
  BY Quotients, Digits
<1> QED
  BY SMT, <1>1, <1>2, TwoDigits
LEMMA LeadThree ==
  ASSUME NEW cp \in CodePoint, Length(cp) = 3
  PROVE  Q2(cp) < 16 /\ (Q2(cp) = 0 => D1(cp) >= 32)
<1>1. cp \in Nat /\ cp >= 2048 /\ cp < 65536
  BY SMT, CodePointType, Lengths
<1>2. /\ Q1(cp) \in Nat /\ cp = Q1(cp) * 64 + D0(cp) /\ D0(cp) \in Nat /\ D0(cp) < 64
      /\ Q2(cp) \in Nat /\ Q1(cp) = Q2(cp) * 64 + D1(cp) /\ D1(cp) \in Nat /\ D1(cp) < 64
  BY Quotients, Digits
<1> QED
  BY SMT, <1>1, <1>2, ThreeDigits
LEMMA LeadFour ==
  ASSUME NEW cp \in CodePoint, Length(cp) = 4
  PROVE  (Q3(cp) = 0 => D2(cp) >= 16) /\ (Q3(cp) = 4 => D2(cp) < 16)
<1>1. cp \in Nat /\ cp >= 65536 /\ cp < 1114112
  BY SMT, CodePointType, Lengths
<1>2. /\ Q1(cp) \in Nat /\ cp = Q1(cp) * 64 + D0(cp) /\ D0(cp) \in Nat /\ D0(cp) < 64
      /\ Q2(cp) \in Nat /\ Q1(cp) = Q2(cp) * 64 + D1(cp) /\ D1(cp) \in Nat /\ D1(cp) < 64
      /\ Q3(cp) \in Nat /\ Q2(cp) = Q3(cp) * 64 + D2(cp) /\ D2(cp) \in Nat /\ D2(cp) < 64
  BY Quotients, Digits
<1> QED
  BY SMT, <1>1, <1>2, FourDigits

\* ---------------------------------------------------------- the bytes they make
Byte == 0 .. 255
\* e is an encoding of n bytes: what it carries and where its bytes lie.
One(e, cp) == e \in Seq(Byte) /\ Len(e) = 1 /\ e[1] = cp /\ e[1] \in Nat /\ e[1] < 128
Two(e, cp) ==
  /\ e \in Seq(Byte) /\ Len(e) = 2
  /\ e[1] = 192 + Q1(cp) /\ e[1] \in Nat /\ e[1] >= 194 /\ e[1] < 224
  /\ e[2] = 128 + D0(cp) /\ e[2] \in Nat /\ e[2] >= 128 /\ e[2] < 192
Three(e, cp) ==
  /\ e \in Seq(Byte) /\ Len(e) = 3
  /\ e[1] = 224 + Q2(cp) /\ e[1] \in Nat /\ e[1] >= 224 /\ e[1] < 240
  /\ e[2] = 128 + D1(cp) /\ e[2] \in Nat /\ e[2] >= 128 /\ e[2] < 192
  /\ e[3] = 128 + D0(cp) /\ e[3] \in Nat /\ e[3] >= 128 /\ e[3] < 192
  /\ (e[1] = 224 => e[2] >= 160)
Four(e, cp) ==
  /\ e \in Seq(Byte) /\ Len(e) = 4
  /\ e[1] = 240 + Q3(cp) /\ e[1] \in Nat /\ e[1] >= 240 /\ e[1] < 245
  /\ e[2] = 128 + D2(cp) /\ e[2] \in Nat /\ e[2] >= 128 /\ e[2] < 192
  /\ e[3] = 128 + D1(cp) /\ e[3] \in Nat /\ e[3] >= 128 /\ e[3] < 192
  /\ e[4] = 128 + D0(cp) /\ e[4] \in Nat /\ e[4] >= 128 /\ e[4] < 192
  /\ (e[1] = 240 => e[2] >= 144) /\ (e[1] = 244 => e[2] < 144)

LEMMA BytesOne ==
  ASSUME NEW cp \in CodePoint, Length(cp) = 1
  PROVE  One(utf8_encode(cp), cp)
<1>1. utf8_encode(cp) = <<cp>>
  BY SMT, Encoding DEF Enc
<1>2. cp \in Nat /\ cp < 128
  BY SMT, CodePointType, Lengths
<1>3. <<cp>> \in Seq(Byte) /\ Len(<<cp>>) = 1 /\ <<cp>>[1] = cp
  BY SMT, <1>2 DEF Byte
<1> QED
  BY <1>1, <1>2, <1>3 DEF One
LEMMA BytesTwo ==
  ASSUME NEW cp \in CodePoint, Length(cp) = 2
  PROVE  Two(utf8_encode(cp), cp)
<1> DEFINE c == 192 + Q1(cp)  x == 128 + D0(cp)
<1>1. utf8_encode(cp) = <<c, x>>
  BY SMT, Encoding DEF Enc
<1>2. /\ Q1(cp) \in Nat /\ Q1(cp) >= 2 /\ Q1(cp) < 32
      /\ D0(cp) \in Nat /\ D0(cp) < 64
  BY Quotients, Digits, LeadTwo
<1>3. /\ c \in Nat /\ c >= 194 /\ c < 224
      /\ x \in Nat /\ x >= 128 /\ x < 192
  BY SMT, <1>2
<1>4. c = 192 + Q1(cp) /\ x = 128 + D0(cp)
  OBVIOUS
<1> HIDE DEF c, x
<1>5. <<c, x>> \in Seq(Byte) /\ Len(<<c, x>>) = 2
  BY SMT, <1>3 DEF Byte
<1>6. <<c, x>>[1] = c /\ <<c, x>>[2] = x
  BY SMT
<1> DEFINE e == <<c, x>>
<1>7. Two(e, cp)
  <2>1. e \in Seq(Byte) /\ Len(e) = 2
    BY <1>5
  <2>2. e[1] = c /\ e[2] = x
    BY <1>6
  <2> HIDE DEF e
  <2> QED
    BY SMT, <1>3, <1>4, <2>1, <2>2 DEF Two
<1> QED
  BY <1>1, <1>7
LEMMA BytesThree ==
  ASSUME NEW cp \in CodePoint, Length(cp) = 3
  PROVE  Three(utf8_encode(cp), cp)
<1> DEFINE c == 224 + Q2(cp)  y == 128 + D1(cp)  x == 128 + D0(cp)
<1>1. utf8_encode(cp) = <<c, y, x>>
  BY SMT, Encoding DEF Enc
<1>2. /\ Q2(cp) \in Nat /\ Q2(cp) < 16 /\ (Q2(cp) = 0 => D1(cp) >= 32)
      /\ D0(cp) \in Nat /\ D0(cp) < 64 /\ D1(cp) \in Nat /\ D1(cp) < 64
  BY Quotients, Digits, LeadThree
<1>3. /\ c \in Nat /\ c >= 224 /\ c < 240
      /\ y \in Nat /\ y >= 128 /\ y < 192
      /\ x \in Nat /\ x >= 128 /\ x < 192 /\ (c = 224 => y >= 160)
  BY SMT, <1>2
<1>4. c = 224 + Q2(cp) /\ y = 128 + D1(cp) /\ x = 128 + D0(cp)
  OBVIOUS
<1> HIDE DEF c, y, x
<1>5. <<c, y, x>> \in Seq(Byte) /\ Len(<<c, y, x>>) = 3
  BY SMT, <1>3 DEF Byte
<1>6. <<c, y, x>>[1] = c /\ <<c, y, x>>[2] = y /\ <<c, y, x>>[3] = x
  BY SMT
<1> DEFINE e == <<c, y, x>>
<1>7. Three(e, cp)
  <2>1. e \in Seq(Byte) /\ Len(e) = 3
    BY <1>5
  <2>2. e[1] = c /\ e[2] = y /\ e[3] = x
    BY <1>6
  <2> HIDE DEF e
  <2> QED
    BY SMT, <1>3, <1>4, <2>1, <2>2 DEF Three
<1> QED
  BY <1>1, <1>7
LEMMA BytesFour ==
  ASSUME NEW cp \in CodePoint, Length(cp) = 4
  PROVE  Four(utf8_encode(cp), cp)
<1> DEFINE c == 240 + Q3(cp)  z == 128 + D2(cp)  y == 128 + D1(cp)  x == 128 + D0(cp)
<1>1. utf8_encode(cp) = <<c, z, y, x>>
  BY SMT, Encoding DEF Enc
<1>2. /\ Q3(cp) \in Nat /\ Q3(cp) < 5 /\ (Q3(cp) = 0 => D2(cp) >= 16) /\ (Q3(cp) = 4 => D2(cp) < 16)
      /\ D0(cp) \in Nat /\ D0(cp) < 64 /\ D1(cp) \in Nat /\ D1(cp) < 64 /\ D2(cp) \in Nat /\ D2(cp) < 64
  BY Quotients, Digits, LeadFour
<1>3. /\ c \in Nat /\ c >= 240 /\ c < 245
      /\ z \in Nat /\ z >= 128 /\ z < 192
      /\ y \in Nat /\ y >= 128 /\ y < 192
      /\ x \in Nat /\ x >= 128 /\ x < 192
      /\ (c = 240 => z >= 144) /\ (c = 244 => z < 144)
  BY SMT, <1>2
<1>4. c = 240 + Q3(cp) /\ z = 128 + D2(cp) /\ y = 128 + D1(cp) /\ x = 128 + D0(cp)
  OBVIOUS
<1> HIDE DEF c, z, y, x
<1>5. <<c, z, y, x>> \in Seq(Byte) /\ Len(<<c, z, y, x>>) = 4
  BY SMT, <1>3 DEF Byte
<1>6. <<c, z, y, x>>[1] = c /\ <<c, z, y, x>>[2] = z /\ <<c, z, y, x>>[3] = y /\ <<c, z, y, x>>[4] = x
  BY SMT
<1> DEFINE e == <<c, z, y, x>>
<1>7. Four(e, cp)
  <2>1. e \in Seq(Byte) /\ Len(e) = 4
    BY <1>5
  <2>2. e[1] = c /\ e[2] = z /\ e[3] = y /\ e[4] = x
    BY <1>6
  <2> HIDE DEF e
  <2> QED
    BY SMT, <1>3, <1>4, <2>1, <2>2 DEF Four
<1> QED
  BY <1>1, <1>7

LEMMA Encoded ==
  ASSUME NEW cp \in CodePoint
  PROVE  LET e == utf8_encode(cp) IN One(e, cp) \/ Two(e, cp) \/ Three(e, cp) \/ Four(e, cp)
BY Lengths, BytesOne, BytesTwo, BytesThree, BytesFour

\* ------------------------------------------------------------------- decoding
\* The bytes of a part of a string.
LEMMA Within ==
  ASSUME NEW pre \in Seq(Byte), NEW e \in Seq(Byte), NEW post \in Seq(Byte)
  PROVE  LET b == pre \o e \o post
         IN  /\ Len(pre) \in Nat /\ Len(post) \in Nat
             /\ Len(b) = Len(pre) + Len(e) + Len(post)
             /\ \A k \in 1 .. Len(e) : b[Len(pre) + k] = e[k]
BY SMT

LEMMA Continuation ==
  ASSUME NEW d \in Nat, d < 64
  PROVE  (128 + d) % 64 = d
BY SMT

LEMMA ContinuedDigits ==
  ASSUME NEW cp \in CodePoint
  PROVE  /\ (128 + D0(cp)) % 64 = D0(cp)
         /\ (128 + D1(cp)) % 64 = D1(cp)
         /\ (128 + D2(cp)) % 64 = D2(cp)
<1>1. \A d \in Nat : d < 64 => (128 + d) % 64 = d
  BY Continuation
<1> QED
  BY Zenon, <1>1, Digits

LEMMA Lead ==
  ASSUME NEW q \in Nat
  PROVE  /\ q < 128 => Extra(q) = 0 /\ LeadBits(q) = q
         /\ 192 + q < 224 => Extra(192 + q) = 1 /\ LeadBits(192 + q) = q
         /\ 224 + q < 240 => Extra(224 + q) = 2 /\ LeadBits(224 + q) = q
         /\ 240 + q < 245 => Extra(240 + q) = 3 /\ LeadBits(240 + q) = q
BY SMT DEF Extra, LeadBits

LEMMA DecodeOne ==
  ASSUME NEW pre \in Seq(Byte), NEW e \in Seq(Byte), NEW post \in Seq(Byte),
         NEW cp \in CodePoint, One(e, cp)
  PROVE  utf8_decode(pre \o e \o post, Len(pre) + 1) = [next |-> Len(pre) + Len(e) + 1, cp |-> cp]
<1> DEFINE c == e[1]
           b == pre \o e \o post
           p == Len(pre) + 1
<1>1. /\ c = cp /\ c \in Nat /\ c < 128
  BY DEF One
<1>2. Len(e) = 1
  BY DEF One
<1>3. /\ Len(pre) \in Nat /\ Len(post) \in Nat /\ Len(b) = Len(pre) + Len(e) + Len(post)
      /\ \A k \in 1 .. Len(e) : b[Len(pre) + k] = e[k]
  BY Within
<1>4. /\ p \in Nat /\ p = Len(pre) + 1
      /\ Len(pre) + Len(e) + 1 = p + 0 + 1
  BY SMT, <1>2, <1>3
<1>5. b[p] = c
  <2>1. 1 \in 1 .. Len(e)
    BY SMT, <1>2
  <2> QED
    BY <1>3, <1>4, <2>1
<1>6. Least(0, Len(b) - p) = 0
  <2> DEFINE after == Len(b)
  <2>1. after = Len(pre) + 1 + Len(post)
    BY <1>2, <1>3
  <2> HIDE DEF after
  <2>2. after - p \in Nat /\ after - p >= 0
    BY SMT, <1>3, <2>1 DEF p
  <2> QED
    BY SMT, <2>2 DEF Least, after
<1> HIDE DEF c, b, p
<1>8. Extra(c) = 0 /\ LeadBits(c) = cp
  BY <1>1, Quotients, Lead
<1>9. utf8_decode(b, p) = [next |-> p + 0 + 1, cp |-> cp]
  BY SMT, <1>4, <1>5, <1>6, <1>8 DEF utf8_decode
<1>10. cp = cp
  BY Quotients
<1> QED
  BY <1>4, <1>9, <1>10 DEF b, p
LEMMA DecodeTwo ==
  ASSUME NEW pre \in Seq(Byte), NEW e \in Seq(Byte), NEW post \in Seq(Byte),
         NEW cp \in CodePoint, Two(e, cp)
  PROVE  utf8_decode(pre \o e \o post, Len(pre) + 1) = [next |-> Len(pre) + Len(e) + 1, cp |-> cp]
<1> DEFINE c == e[1]  x == e[2]
           b == pre \o e \o post
           p == Len(pre) + 1
<1>1. /\ c = 192 + Q1(cp) /\ c \in Nat /\ c >= 194 /\ c < 224
      /\ x = 128 + D0(cp) /\ x \in Nat /\ x >= 128 /\ x < 192
  BY DEF Two
<1>2. Len(e) = 2
  BY DEF Two
<1>3. /\ Len(pre) \in Nat /\ Len(post) \in Nat /\ Len(b) = Len(pre) + Len(e) + Len(post)
      /\ \A k \in 1 .. Len(e) : b[Len(pre) + k] = e[k]
  BY Within
<1>4. /\ p \in Nat /\ p = Len(pre) + 1 /\ p + 1 = Len(pre) + 2
      /\ Len(pre) + Len(e) + 1 = p + 1 + 1
  BY SMT, <1>2, <1>3
<1>5. b[p] = c /\ b[p + 1] = x
  <2>1. 1 \in 1 .. Len(e) /\ 2 \in 1 .. Len(e)
    BY SMT, <1>2
  <2> QED
    BY <1>3, <1>4, <2>1
<1>6. Least(1, Len(b) - p) = 1
  <2> DEFINE after == Len(b)
  <2>1. after = Len(pre) + 2 + Len(post)
    BY <1>2, <1>3
  <2> HIDE DEF after
  <2>2. after - p \in Nat /\ after - p >= 1
    BY SMT, <1>3, <2>1 DEF p
  <2> QED
    BY SMT, <2>2 DEF Least, after
<1> HIDE DEF c, x, b, p
<1>7. x % 64 = D0(cp)
  BY Zenon, <1>1, ContinuedDigits
<1>8. Extra(c) = 1 /\ LeadBits(c) = Q1(cp)
  BY <1>1, Quotients, Lead
<1>9. utf8_decode(b, p) = [next |-> p + 1 + 1, cp |-> Q1(cp) * 64 + D0(cp)]
  BY SMT, <1>4, <1>5, <1>6, <1>7, <1>8 DEF utf8_decode
<1>10. Q1(cp) * 64 + D0(cp) = cp
  BY Quotients
<1> QED
  BY <1>4, <1>9, <1>10 DEF b, p
LEMMA DecodeThree ==
  ASSUME NEW pre \in Seq(Byte), NEW e \in Seq(Byte), NEW post \in Seq(Byte),
         NEW cp \in CodePoint, Three(e, cp)
  PROVE  utf8_decode(pre \o e \o post, Len(pre) + 1) = [next |-> Len(pre) + Len(e) + 1, cp |-> cp]
<1> DEFINE c == e[1]  y == e[2]  x == e[3]
           b == pre \o e \o post
           p == Len(pre) + 1
<1>1. /\ c = 224 + Q2(cp) /\ c \in Nat /\ c >= 224 /\ c < 240
      /\ y = 128 + D1(cp) /\ y \in Nat /\ y >= 128 /\ y < 192
      /\ x = 128 + D0(cp) /\ x \in Nat /\ x >= 128 /\ x < 192
  BY DEF Three
<1>2. Len(e) = 3
  BY DEF Three
<1>3. /\ Len(pre) \in Nat /\ Len(post) \in Nat /\ Len(b) = Len(pre) + Len(e) + Len(post)
      /\ \A k \in 1 .. Len(e) : b[Len(pre) + k] = e[k]
  BY Within
<1>4. /\ p \in Nat /\ p = Len(pre) + 1 /\ p + 1 = Len(pre) + 2 /\ p + 2 = Len(pre) + 3
      /\ Len(pre) + Len(e) + 1 = p + 2 + 1
  BY SMT, <1>2, <1>3
<1>5. b[p] = c /\ b[p + 1] = y /\ b[p + 2] = x
  <2>1. 1 \in 1 .. Len(e) /\ 2 \in 1 .. Len(e) /\ 3 \in 1 .. Len(e)
    BY SMT, <1>2
  <2> QED
    BY <1>3, <1>4, <2>1
<1>6. Least(2, Len(b) - p) = 2
  <2> DEFINE after == Len(b)
  <2>1. after = Len(pre) + 3 + Len(post)
    BY <1>2, <1>3
  <2> HIDE DEF after
  <2>2. after - p \in Nat /\ after - p >= 2
    BY SMT, <1>3, <2>1 DEF p
  <2> QED
    BY SMT, <2>2 DEF Least, after
<1> HIDE DEF c, y, x, b, p
<1>7. y % 64 = D1(cp) /\ x % 64 = D0(cp)
  <2>1. y % 64 = D1(cp)
    BY Zenon, <1>1, ContinuedDigits
  <2>2. x % 64 = D0(cp)
    BY Zenon, <1>1, ContinuedDigits
  <2> QED
    BY <2>1, <2>2
<1>8. Extra(c) = 2 /\ LeadBits(c) = Q2(cp)
  BY <1>1, Quotients, Lead
<1>9. utf8_decode(b, p) = [next |-> p + 2 + 1, cp |-> (Q2(cp) * 64 + D1(cp)) * 64 + D0(cp)]
  BY SMT, <1>4, <1>5, <1>6, <1>7, <1>8 DEF utf8_decode
<1>10. (Q2(cp) * 64 + D1(cp)) * 64 + D0(cp) = cp
  BY Quotients
<1> QED
  BY <1>4, <1>9, <1>10 DEF b, p
LEMMA DecodeFour ==
  ASSUME NEW pre \in Seq(Byte), NEW e \in Seq(Byte), NEW post \in Seq(Byte),
         NEW cp \in CodePoint, Four(e, cp)
  PROVE  utf8_decode(pre \o e \o post, Len(pre) + 1) = [next |-> Len(pre) + Len(e) + 1, cp |-> cp]
<1> DEFINE c == e[1]  z == e[2]  y == e[3]  x == e[4]
           b == pre \o e \o post
           p == Len(pre) + 1
<1>1. /\ c = 240 + Q3(cp) /\ c \in Nat /\ c >= 240 /\ c < 245
      /\ z = 128 + D2(cp) /\ z \in Nat /\ z >= 128 /\ z < 192
      /\ y = 128 + D1(cp) /\ y \in Nat /\ y >= 128 /\ y < 192
      /\ x = 128 + D0(cp) /\ x \in Nat /\ x >= 128 /\ x < 192
  BY DEF Four
<1>2. Len(e) = 4
  BY DEF Four
<1>3. /\ Len(pre) \in Nat /\ Len(post) \in Nat /\ Len(b) = Len(pre) + Len(e) + Len(post)
      /\ \A k \in 1 .. Len(e) : b[Len(pre) + k] = e[k]
  BY Within
<1>4. /\ p \in Nat /\ p = Len(pre) + 1 /\ p + 1 = Len(pre) + 2 /\ p + 2 = Len(pre) + 3 /\ p + 3 = Len(pre) + 4
      /\ Len(pre) + Len(e) + 1 = p + 3 + 1
  BY SMT, <1>2, <1>3
<1>5. b[p] = c /\ b[p + 1] = z /\ b[p + 2] = y /\ b[p + 3] = x
  <2>1. 1 \in 1 .. Len(e) /\ 2 \in 1 .. Len(e) /\ 3 \in 1 .. Len(e) /\ 4 \in 1 .. Len(e)
    BY SMT, <1>2
  <2> QED
    BY <1>3, <1>4, <2>1
<1>6. Least(3, Len(b) - p) = 3
  <2> DEFINE after == Len(b)
  <2>1. after = Len(pre) + 4 + Len(post)
    BY <1>2, <1>3
  <2> HIDE DEF after
  <2>2. after - p \in Nat /\ after - p >= 3
    BY SMT, <1>3, <2>1 DEF p
  <2> QED
    BY SMT, <2>2 DEF Least, after
<1> HIDE DEF c, z, y, x, b, p
<1>7. z % 64 = D2(cp) /\ y % 64 = D1(cp) /\ x % 64 = D0(cp)
  <2>1. z % 64 = D2(cp)
    BY Zenon, <1>1, ContinuedDigits
  <2>2. y % 64 = D1(cp)
    BY Zenon, <1>1, ContinuedDigits
  <2>3. x % 64 = D0(cp)
    BY Zenon, <1>1, ContinuedDigits
  <2> QED
    BY <2>1, <2>2, <2>3
<1>8. Extra(c) = 3 /\ LeadBits(c) = Q3(cp)
  <2>1. Q3(cp) \in Nat /\ c = 240 + Q3(cp) /\ 240 + Q3(cp) < 245
    <3>1. Q3(cp) \in Nat
      BY Zenon, Quotients
    <3> QED
      BY Zenon, <1>1, <3>1
  <2> QED
    BY Zenon, <2>1, Lead
<1>9. utf8_decode(b, p) = [next |-> p + 3 + 1, cp |-> ((Q3(cp) * 64 + D2(cp)) * 64 + D1(cp)) * 64 + D0(cp)]
  BY SMT, <1>4, <1>5, <1>6, <1>7, <1>8 DEF utf8_decode
<1>10. ((Q3(cp) * 64 + D2(cp)) * 64 + D1(cp)) * 64 + D0(cp) = cp
  BY Quotients
<1> QED
  BY <1>4, <1>9, <1>10 DEF b, p

\* "Decode one codepoint" undoes what utf8_encode did, in the middle of any other
\* bytes: the code point is the same and the position is behind its last byte.
\* So chars and substr find the characters that from_char and concat put there.
THEOREM CodecRoundTrip ==
  ASSUME NEW pre \in Seq(Byte), NEW post \in Seq(Byte), NEW cp \in CodePoint
  PROVE  utf8_decode(pre \o utf8_encode(cp) \o post, Len(pre) + 1)
           = [next |-> Len(pre) + Len(utf8_encode(cp)) + 1, cp |-> cp]
<1> DEFINE e == utf8_encode(cp)
<1>1. One(e, cp) \/ Two(e, cp) \/ Three(e, cp) \/ Four(e, cp)
  BY Encoded
<1> HIDE DEF e
<1>2. e \in Seq(Byte)
  BY <1>1 DEF One, Two, Three, Four
<1>3. utf8_decode(pre \o e \o post, Len(pre) + 1) = [next |-> Len(pre) + Len(e) + 1, cp |-> cp]
  BY <1>1, <1>2, DecodeOne, DecodeTwo, DecodeThree, DecodeFour
<1> QED
  BY <1>3 DEF e

\* --------------------------------------------------------------- well-formedness
LEMMA TrailIs ==
  ASSUME NEW b, NEW i \in Nat, NEW n \in 0 .. 3,
         \A k \in 1 .. n : Continues(b, i + k), ~Continues(b, i + (n + 1))
  PROVE  Trail(b, i) = 1 .. n
<1>1. ASSUME NEW j \in 1 .. n PROVE j \in Trail(b, i)
  BY SMT DEF Trail
<1>2. ASSUME NEW j \in Trail(b, i) PROVE j \in 1 .. n
  <2>1. j \in 1 .. 4 /\ \A k \in 1 .. j : Continues(b, i + k)
    BY DEF Trail
  <2> QED
    BY SMT, <2>1
<1> QED
  BY <1>1, <1>2

LEMMA WellFormedOne ==
  ASSUME NEW b, NEW cp, One(b, cp)
  PROVE  WellFormedBytes(b)
<1> DEFINE c == b[1]
<1>1. /\ c = cp /\ c \in Nat /\ c < 128
  BY DEF One
<1>2. DOMAIN b = 1 .. 1
  <2>1. b \in Seq(Byte) /\ Len(b) = 1
    BY DEF One
  <2> QED
    BY <2>1
<1>3. 1 \in 1 .. 1 /\ 2 \notin 1 .. 1
  BY SMT
<1> HIDE DEF c
<1>4. c \in 0 .. 127
  BY SMT, <1>1
<1>5. ~Continues(b, 2)
  BY <1>2, <1>3, <1>4 DEF Continues
<1>6. Trail(b, 1) = 1 .. 0
  BY SMT, <1>5, TrailIs
<1>7. Trail(b, 1) = {}
  BY SMT, <1>6
<1> DEFINE Starts(i) ==
        \/ Continues(b, i) /\ i > 1
        \/ b[i] \in 0 .. 127 /\ Trail(b, i) = {}
        \/ b[i] \in 194 .. 223 /\ Trail(b, i) = {1}
        \/ /\ b[i] \in 224 .. 239 /\ Trail(b, i) = {1, 2}
           /\ (b[i] = 224 => b[i + 1] >= 160) /\ (b[i] = 237 => b[i + 1] < 160)
        \/ /\ b[i] \in 240 .. 244 /\ Trail(b, i) = {1, 2, 3}
           /\ (b[i] = 240 => b[i + 1] >= 144) /\ (b[i] = 244 => b[i + 1] < 144)
<1>8. Starts(1)
  BY 1 + 1 = 2, <1>1, <1>4, <1>7 DEF c
<1>9. ASSUME NEW i \in 1 .. 1 PROVE Starts(i)
  <2>1. i = 1
    BY SMT
  <2>2. ASSUME i # 1 PROVE Continues(b, i) /\ i > 1
    BY SMT, <1>5, <2>1, <2>2
  <2> QED
    BY <1>8, <2>2
<1> QED
  BY <1>2, <1>9 DEF WellFormedBytes
LEMMA WellFormedTwo ==
  ASSUME NEW b, NEW cp, Two(b, cp)
  PROVE  WellFormedBytes(b)
<1> DEFINE c == b[1]  x == b[2]
<1>1. /\ c = 192 + Q1(cp) /\ c \in Nat /\ c >= 194 /\ c < 224
      /\ x = 128 + D0(cp) /\ x \in Nat /\ x >= 128 /\ x < 192
  BY DEF Two
<1>2. DOMAIN b = 1 .. 2
  <2>1. b \in Seq(Byte) /\ Len(b) = 2
    BY DEF Two
  <2> QED
    BY <2>1
<1>3. 1 \in 1 .. 2 /\ 2 \in 1 .. 2 /\ 3 \notin 1 .. 2
  BY SMT
<1> HIDE DEF c, x
<1>4. c \in 194 .. 223 /\ x \in 128 .. 191
  BY SMT, <1>1
<1>5. Continues(b, 2) /\ ~Continues(b, 3)
  BY <1>2, <1>3, <1>4 DEF Continues, x
<1>6. Trail(b, 1) = 1 .. 1
  BY SMT, <1>5, TrailIs
<1>7. Trail(b, 1) = {1}
  BY SMT, <1>6
<1> DEFINE Starts(i) ==
        \/ Continues(b, i) /\ i > 1
        \/ b[i] \in 0 .. 127 /\ Trail(b, i) = {}
        \/ b[i] \in 194 .. 223 /\ Trail(b, i) = {1}
        \/ /\ b[i] \in 224 .. 239 /\ Trail(b, i) = {1, 2}
           /\ (b[i] = 224 => b[i + 1] >= 160) /\ (b[i] = 237 => b[i + 1] < 160)
        \/ /\ b[i] \in 240 .. 244 /\ Trail(b, i) = {1, 2, 3}
           /\ (b[i] = 240 => b[i + 1] >= 144) /\ (b[i] = 244 => b[i + 1] < 144)
<1>8. Starts(1)
  BY 1 + 1 = 2, <1>1, <1>4, <1>7 DEF c, x
<1>9. ASSUME NEW i \in 1 .. 2 PROVE Starts(i)
  <2>1. i = 1 \/ i = 2
    BY SMT
  <2>2. ASSUME i # 1 PROVE Continues(b, i) /\ i > 1
    BY SMT, <1>5, <2>1, <2>2
  <2> QED
    BY <1>8, <2>2
<1> QED
  BY <1>2, <1>9 DEF WellFormedBytes
LEMMA WellFormedThree ==
  ASSUME NEW b, NEW cp, Three(b, cp), b[1] = 237 => b[2] < 160
  PROVE  WellFormedBytes(b)
<1> DEFINE c == b[1]  y == b[2]  x == b[3]
<1>1. /\ c = 224 + Q2(cp) /\ c \in Nat /\ c >= 224 /\ c < 240
      /\ y = 128 + D1(cp) /\ y \in Nat /\ y >= 128 /\ y < 192
      /\ x = 128 + D0(cp) /\ x \in Nat /\ x >= 128 /\ x < 192
      /\ (c = 224 => y >= 160) /\ (c = 237 => y < 160)
  BY DEF Three
<1>2. DOMAIN b = 1 .. 3
  <2>1. b \in Seq(Byte) /\ Len(b) = 3
    BY DEF Three
  <2> QED
    BY <2>1
<1>3. 1 \in 1 .. 3 /\ 2 \in 1 .. 3 /\ 3 \in 1 .. 3 /\ 4 \notin 1 .. 3
  BY SMT
<1> HIDE DEF c, y, x
<1>4. c \in 224 .. 239 /\ y \in 128 .. 191 /\ x \in 128 .. 191
  BY SMT, <1>1
<1>5. Continues(b, 2) /\ Continues(b, 3) /\ ~Continues(b, 4)
  BY <1>2, <1>3, <1>4 DEF Continues, y, x
<1>6. Trail(b, 1) = 1 .. 2
  BY SMT, <1>5, TrailIs
<1>7. Trail(b, 1) = {1, 2}
  BY SMT, <1>6
<1> DEFINE Starts(i) ==
        \/ Continues(b, i) /\ i > 1
        \/ b[i] \in 0 .. 127 /\ Trail(b, i) = {}
        \/ b[i] \in 194 .. 223 /\ Trail(b, i) = {1}
        \/ /\ b[i] \in 224 .. 239 /\ Trail(b, i) = {1, 2}
           /\ (b[i] = 224 => b[i + 1] >= 160) /\ (b[i] = 237 => b[i + 1] < 160)
        \/ /\ b[i] \in 240 .. 244 /\ Trail(b, i) = {1, 2, 3}
           /\ (b[i] = 240 => b[i + 1] >= 144) /\ (b[i] = 244 => b[i + 1] < 144)
<1>8. Starts(1)
  BY 1 + 1 = 2, <1>1, <1>4, <1>7 DEF c, y
<1>9. ASSUME NEW i \in 1 .. 3 PROVE Starts(i)
  <2>1. i = 1 \/ i = 2 \/ i = 3
    BY SMT
  <2>2. ASSUME i # 1 PROVE Continues(b, i) /\ i > 1
    BY SMT, <1>5, <2>1, <2>2
  <2> QED
    BY <1>8, <2>2
<1> QED
  BY <1>2, <1>9 DEF WellFormedBytes
LEMMA WellFormedFour ==
  ASSUME NEW b, NEW cp, Four(b, cp)
  PROVE  WellFormedBytes(b)
<1> DEFINE c == b[1]  z == b[2]  y == b[3]  x == b[4]
<1>1. /\ c = 240 + Q3(cp) /\ c \in Nat /\ c >= 240 /\ c < 245
      /\ z = 128 + D2(cp) /\ z \in Nat /\ z >= 128 /\ z < 192
      /\ y = 128 + D1(cp) /\ y \in Nat /\ y >= 128 /\ y < 192
      /\ x = 128 + D0(cp) /\ x \in Nat /\ x >= 128 /\ x < 192
      /\ (c = 240 => z >= 144) /\ (c = 244 => z < 144)
  BY DEF Four
<1>2. DOMAIN b = 1 .. 4
  <2>1. b \in Seq(Byte) /\ Len(b) = 4
    BY DEF Four
  <2> QED
    BY <2>1
<1>3. 1 \in 1 .. 4 /\ 2 \in 1 .. 4 /\ 3 \in 1 .. 4 /\ 4 \in 1 .. 4 /\ 5 \notin 1 .. 4
  BY SMT
<1> HIDE DEF c, z, y, x
<1>4. c \in 240 .. 244 /\ z \in 128 .. 191 /\ y \in 128 .. 191 /\ x \in 128 .. 191
  BY SMT, <1>1
<1>5. Continues(b, 2) /\ Continues(b, 3) /\ Continues(b, 4) /\ ~Continues(b, 5)
  BY <1>2, <1>3, <1>4 DEF Continues, z, y, x
<1>6. Trail(b, 1) = 1 .. 3
  BY SMT, <1>5, TrailIs
<1>7. Trail(b, 1) = {1, 2, 3}
  BY SMT, <1>6
<1> DEFINE Starts(i) ==
        \/ Continues(b, i) /\ i > 1
        \/ b[i] \in 0 .. 127 /\ Trail(b, i) = {}
        \/ b[i] \in 194 .. 223 /\ Trail(b, i) = {1}
        \/ /\ b[i] \in 224 .. 239 /\ Trail(b, i) = {1, 2}
           /\ (b[i] = 224 => b[i + 1] >= 160) /\ (b[i] = 237 => b[i + 1] < 160)
        \/ /\ b[i] \in 240 .. 244 /\ Trail(b, i) = {1, 2, 3}
           /\ (b[i] = 240 => b[i + 1] >= 144) /\ (b[i] = 244 => b[i + 1] < 144)
<1>8. Starts(1)
  BY 1 + 1 = 2, <1>1, <1>4, <1>7 DEF c, z
<1>9. ASSUME NEW i \in 1 .. 4 PROVE Starts(i)
  <2>1. i = 1 \/ i = 2 \/ i = 3 \/ i = 4
    BY SMT
  <2>2. ASSUME i # 1 PROVE Continues(b, i) /\ i > 1
    BY SMT, <1>5, <2>1, <2>2
  <2> QED
    BY <1>8, <2>2
<1> QED
  BY <1>2, <1>9 DEF WellFormedBytes

\* What from_char writes for a scalar value, which is all that chr lets through, is
\* well-formed UTF-8: no surrogate, no code point longer than it has to be.
THEOREM EncodingWellFormed ==
  ASSUME NEW cp \in CodePoint, Scalar(cp)
  PROVE  WellFormedBytes(utf8_encode(cp))
<1> DEFINE e == utf8_encode(cp)
<1>1. One(e, cp) \/ Two(e, cp) \/ Three(e, cp) \/ Four(e, cp)
  BY Encoded
<1> HIDE DEF e
<1>2. ASSUME Three(e, cp), e[1] = 237 PROVE e[2] < 160
  <2>1. Q2(cp) \in Nat /\ e[1] = 224 + Q2(cp) /\ e[2] = 128 + D1(cp) /\ D1(cp) \in Nat
    BY <1>2, Quotients, Digits DEF Three
  <2>2. Q2(cp) = 13
    BY SMT, <1>2, <2>1
  <2>3. D1(cp) < 32
    BY SMT, <2>2, NoSurrogate
  <2> QED
    BY SMT, <2>1, <2>3
<1>3. WellFormedBytes(e)
  BY <1>1, <1>2, WellFormedOne, WellFormedTwo, WellFormedThree, WellFormedFour
<1> QED
  BY <1>3 DEF e

\* -------------------------------------------------------------------------- order
\* Of two numbers with a digit more each, the greater has the greater rest, or the
\* same rest and the greater digit.
LEMMA Compare ==
  ASSUME NEW q \in Nat, NEW r \in Nat, NEW d \in Nat, NEW f \in Nat, d < 64, f < 64,
         q * 64 + d < r * 64 + f
  PROVE  q < r \/ (q = r /\ d < f)
BY SMT
LEMMA SameRest ==
  ASSUME NEW q \in Nat, NEW r \in Nat, NEW d \in Nat, q * 64 + d = r * 64 + d
  PROVE  q = r
BY SMT

\* The longer encoding begins with the greater byte.
LEMMA LongerIsGreater ==
  ASSUME NEW c \in CodePoint, NEW d \in CodePoint, c < d, Length(c) # Length(d)
  PROVE  utf8_encode(c)[1] < utf8_encode(d)[1]
<1> DEFINE a == utf8_encode(c)[1]
           b == utf8_encode(d)[1]
<1>1. /\ a \in Nat /\ b \in Nat
      /\ Length(c) = 1 => a < 128
      /\ Length(c) = 2 => a < 224
      /\ Length(c) = 3 => a < 240
      /\ Length(d) = 2 => b >= 194
      /\ Length(d) = 3 => b >= 224
      /\ Length(d) = 4 => b >= 240
  BY Lengths, BytesOne, BytesTwo, BytesThree, BytesFour DEF One, Two, Three, Four
<1>2. c \in Nat /\ d \in Nat
  BY CodePointType
<1> HIDE DEF a, b
<1>3. a < b
  BY SMT, <1>1, <1>2, Lengths
<1> QED
  BY <1>3 DEF a, b


\* The first byte that differs is in both.
Below(a, b) ==
  \E n \in Nat : /\ n < Len(a) /\ n < Len(b)
                 /\ \A i \in 1 .. n : a[i] = b[i]
                 /\ a[n + 1] < b[n + 1]
LEMMA FirstSmaller ==
  ASSUME NEW a \in Seq(Byte), NEW b \in Seq(Byte), Len(a) > 0, Len(b) > 0, a[1] < b[1]
  PROVE  Below(a, b)
<1>1. \A i \in 1 .. 0 : a[i] = b[i]
  BY SMT
<1>2. 0 \in Nat /\ 0 + 1 = 1 /\ 0 < Len(a) /\ 0 < Len(b)
  BY SMT
<1> QED
  BY <1>1, <1>2 DEF Below

LEMMA DigitsCompare ==
  ASSUME NEW c \in CodePoint, NEW d \in CodePoint, c < d
  PROVE  /\ Q1(c) < Q1(d) \/ (Q1(c) = Q1(d) /\ D0(c) < D0(d))
         /\ Q1(c) < Q1(d) => Q2(c) < Q2(d) \/ (Q2(c) = Q2(d) /\ D1(c) < D1(d))
         /\ Q2(c) < Q2(d) => Q3(c) < Q3(d) \/ (Q3(c) = Q3(d) /\ D2(c) < D2(d))
<1>1. /\ Q1(c) \in Nat /\ Q2(c) \in Nat /\ Q3(c) \in Nat
      /\ D0(c) \in Nat /\ D1(c) \in Nat /\ D2(c) \in Nat
      /\ D0(c) < 64 /\ D1(c) < 64 /\ D2(c) < 64
  BY Quotients, Digits
<1>2. /\ Q1(d) \in Nat /\ Q2(d) \in Nat /\ Q3(d) \in Nat
      /\ D0(d) \in Nat /\ D1(d) \in Nat /\ D2(d) \in Nat
      /\ D0(d) < 64 /\ D1(d) < 64 /\ D2(d) < 64
  BY Quotients, Digits
<1>3. Q1(c) < Q1(d) \/ (Q1(c) = Q1(d) /\ D0(c) < D0(d))
  <2>1. Q1(c) * 64 + D0(c) < Q1(d) * 64 + D0(d)
    BY Quotients
  <2> QED
    BY <1>1, <1>2, <2>1, Compare
<1>4. ASSUME Q1(c) < Q1(d)
      PROVE  Q2(c) < Q2(d) \/ (Q2(c) = Q2(d) /\ D1(c) < D1(d))
  <2>1. Q2(c) * 64 + D1(c) < Q2(d) * 64 + D1(d)
    BY <1>4, Quotients
  <2> QED
    BY <1>1, <1>2, <2>1, Compare
<1>5. ASSUME Q2(c) < Q2(d)
      PROVE  Q3(c) < Q3(d) \/ (Q3(c) = Q3(d) /\ D2(c) < D2(d))
  <2>1. Q3(c) * 64 + D2(c) < Q3(d) * 64 + D2(d)
    BY <1>5, Quotients
  <2> QED
    BY <1>1, <1>2, <2>1, Compare
<1> QED
  BY <1>3, <1>4, <1>5

\* What two code points share above a digit they share above the next one, too.
LEMMA SameAbove ==
  ASSUME NEW c \in CodePoint, NEW d \in CodePoint
  PROVE  /\ Q1(c) = Q1(d) => Q2(c) = Q2(d) /\ D1(c) = D1(d)
         /\ Q2(c) = Q2(d) => Q3(c) = Q3(d) /\ D2(c) = D2(d)
<1>1. ASSUME Q1(c) = Q1(d) PROVE Q2(c) = Q2(d) /\ D1(c) = D1(d)
  <2>1. D1(c) = D1(d)
    BY <1>1 DEF Q1, D1
  <2>2. /\ Q2(c) \in Nat /\ Q2(d) \in Nat /\ D1(c) \in Nat
        /\ Q1(c) = Q2(c) * 64 + D1(c) /\ Q1(d) = Q2(d) * 64 + D1(d)
    BY Quotients, Digits
  <2>3. Q2(c) * 64 + D1(c) = Q2(d) * 64 + D1(c)
    BY <1>1, <2>1, <2>2
  <2> QED
    BY <2>1, <2>2, <2>3, SameRest
<1>2. ASSUME Q2(c) = Q2(d) PROVE Q3(c) = Q3(d) /\ D2(c) = D2(d)
  <2>1. D2(c) = D2(d)
    BY <1>2 DEF Q2, D2
  <2>2. /\ Q3(c) \in Nat /\ Q3(d) \in Nat /\ D2(c) \in Nat
        /\ Q2(c) = Q3(c) * 64 + D2(c) /\ Q2(d) = Q3(d) * 64 + D2(d)
    BY Quotients, Digits
  <2>3. Q3(c) * 64 + D2(c) = Q3(d) * 64 + D2(c)
    BY <1>2, <2>1, <2>2
  <2> QED
    BY <2>1, <2>2, <2>3, SameRest
<1> QED
  BY <1>1, <1>2

\* Where one number is less than another, so is what is the same above it.
LEMMA Shift ==
  ASSUME NEW m \in Nat, NEW n \in Nat, m < n
  PROVE  /\ 128 + m < 128 + n /\ 192 + m < 192 + n
         /\ 224 + m < 224 + n /\ 240 + m < 240 + n
BY SMT

LEMMA SecondSmaller ==
  ASSUME NEW a \in Seq(Byte), NEW b \in Seq(Byte), Len(a) >= 2, Len(b) >= 2,
         a[1] = b[1], a[2] < b[2]
  PROVE  Below(a, b)
<1>1. \A i \in 1 .. 1 : a[i] = b[i]
  <2>1. \A i \in 1 .. 1 : i = 1
    BY SMT
  <2> QED
    BY <2>1
<1>2. 1 \in Nat /\ 1 + 1 = 2 /\ 1 < Len(a) /\ 1 < Len(b)
  BY SMT
<1> QED
  BY <1>1, <1>2 DEF Below
LEMMA ThirdSmaller ==
  ASSUME NEW a \in Seq(Byte), NEW b \in Seq(Byte), Len(a) >= 3, Len(b) >= 3,
         a[1] = b[1], a[2] = b[2], a[3] < b[3]
  PROVE  Below(a, b)
<1>1. \A i \in 1 .. 2 : a[i] = b[i]
  <2>1. \A i \in 1 .. 2 : i = 1 \/ i = 2
    BY SMT
  <2> QED
    BY <2>1
<1>2. 2 \in Nat /\ 2 + 1 = 3 /\ 2 < Len(a) /\ 2 < Len(b)
  BY SMT
<1> QED
  BY <1>1, <1>2 DEF Below
LEMMA FourthSmaller ==
  ASSUME NEW a \in Seq(Byte), NEW b \in Seq(Byte), Len(a) >= 4, Len(b) >= 4,
         a[1] = b[1], a[2] = b[2], a[3] = b[3], a[4] < b[4]
  PROVE  Below(a, b)
<1>1. \A i \in 1 .. 3 : a[i] = b[i]
  <2>1. \A i \in 1 .. 3 : i = 1 \/ i = 2 \/ i = 3
    BY SMT
  <2> QED
    BY <2>1
<1>2. 3 \in Nat /\ 3 + 1 = 4 /\ 3 < Len(a) /\ 3 < Len(b)
  BY SMT
<1> QED
  BY <1>1, <1>2 DEF Below

\* No encoding is the beginning of another.
LEMMA EncodingsDiffer ==
  ASSUME NEW c \in CodePoint, NEW d \in CodePoint, c < d
  PROVE  Below(utf8_encode(c), utf8_encode(d))
<1> DEFINE a == utf8_encode(c)
           b == utf8_encode(d)
<1>1. /\ One(a, c) \/ Two(a, c) \/ Three(a, c) \/ Four(a, c)
      /\ One(b, d) \/ Two(b, d) \/ Three(b, d) \/ Four(b, d)
  BY Encoded
<1>2. a \in Seq(Byte) /\ b \in Seq(Byte)
  BY <1>1 DEF One, Two, Three, Four
<1>3. ASSUME Length(c) # Length(d) PROVE Below(a, b)
  <2>1. Len(a) > 0 /\ Len(b) > 0
    BY SMTT(30), <1>1 DEF One, Two, Three, Four
  <2> QED
    BY <1>2, <1>3, <2>1, LongerIsGreater, FirstSmaller
<1>4. ASSUME Length(c) = 1, Length(d) = 1 PROVE Below(a, b)
  <2>1. a[1] = c /\ b[1] = d /\ Len(a) = 1 /\ Len(b) = 1
    BY <1>4, BytesOne DEF One
  <2>2. Len(a) > 0 /\ Len(b) > 0
    BY SMT, <2>1
  <2> QED
    BY <1>2, <2>1, <2>2, FirstSmaller
<1> DEFINE Q(x) == /\ Q1(x) \in Nat /\ Q2(x) \in Nat /\ Q3(x) \in Nat
                   /\ D0(x) \in Nat /\ D1(x) \in Nat /\ D2(x) \in Nat
<1>5. Q(c) /\ Q(d)
  BY Quotients, Digits
<1> HIDE DEF a, b
<1>6. ASSUME Length(c) = 2, Length(d) = 2 PROVE Below(a, b)
  <2>1. Two(a, c) /\ Two(b, d)
    BY <1>6, BytesTwo DEF a, b
  <2>2. /\ Len(a) = 2 /\ a[1] = 192 + Q1(c) /\ a[2] = 128 + D0(c)
        /\ Len(b) = 2 /\ b[1] = 192 + Q1(d) /\ b[2] = 128 + D0(d)
    BY <2>1 DEF Two
  <2>3. Len(a) > 0 /\ Len(b) > 0 /\ Len(a) >= 2 /\ Len(b) >= 2
    <3> DEFINE m == Len(a)  n == Len(b)
    <3>1. m = 2 /\ n = 2
      BY <2>2
    <3> HIDE DEF m, n
    <3>2. m > 0 /\ n > 0 /\ m >= 2 /\ n >= 2
      BY SMT, <3>1
    <3> QED
      BY <3>2 DEF m, n
  <2>4. CASE Q1(c) < Q1(d)
    <3>1. a[1] < b[1]
      BY <1>5, <2>2, <2>4, Shift
    <3> QED
      BY <1>2, <2>3, <3>1, FirstSmaller
  <2>5. CASE Q1(c) = Q1(d) /\ D0(c) < D0(d)
    <3>1. a[1] = b[1]
      BY <2>2, <2>5, SameAbove
    <3>2. a[2] < b[2]
      BY <1>5, <2>2, <2>5, Shift
    <3> QED
      BY <1>2, <2>3, <3>1, <3>2, SecondSmaller
  <2> QED
    BY <2>4, <2>5, DigitsCompare
<1>7. ASSUME Length(c) = 3, Length(d) = 3 PROVE Below(a, b)
  <2>1. Three(a, c) /\ Three(b, d)
    BY <1>7, BytesThree DEF a, b
  <2>2. /\ Len(a) = 3 /\ a[1] = 224 + Q2(c) /\ a[2] = 128 + D1(c) /\ a[3] = 128 + D0(c)
        /\ Len(b) = 3 /\ b[1] = 224 + Q2(d) /\ b[2] = 128 + D1(d) /\ b[3] = 128 + D0(d)
    BY <2>1 DEF Three
  <2>3. /\ Len(a) > 0 /\ Len(b) > 0 /\ Len(a) >= 2 /\ Len(b) >= 2
        /\ Len(a) >= 3 /\ Len(b) >= 3
    <3> DEFINE m == Len(a)  n == Len(b)
    <3>1. m = 3 /\ n = 3
      BY <2>2
    <3> HIDE DEF m, n
    <3>2. /\ m > 0 /\ n > 0 /\ m >= 2 /\ n >= 2
        /\ m >= 3 /\ n >= 3
      BY SMT, <3>1
    <3> QED
      BY <3>2 DEF m, n
  <2>4. CASE Q2(c) < Q2(d)
    <3>1. a[1] < b[1]
      BY <1>5, <2>2, <2>4, Shift
    <3> QED
      BY <1>2, <2>3, <3>1, FirstSmaller
  <2>5. CASE Q2(c) = Q2(d) /\ D1(c) < D1(d)
    <3>1. a[1] = b[1]
      BY <2>2, <2>5, SameAbove
    <3>2. a[2] < b[2]
      BY <1>5, <2>2, <2>5, Shift
    <3> QED
      BY <1>2, <2>3, <3>1, <3>2, SecondSmaller
  <2>6. CASE Q1(c) = Q1(d) /\ D0(c) < D0(d)
    <3>1. a[1] = b[1] /\ a[2] = b[2]
      BY <2>2, <2>6, SameAbove
    <3>2. a[3] < b[3]
      BY <1>5, <2>2, <2>6, Shift
    <3> QED
      BY <1>2, <2>3, <3>1, <3>2, ThirdSmaller
  <2> QED
    BY <2>4, <2>5, <2>6, DigitsCompare
<1>8. ASSUME Length(c) = 4, Length(d) = 4 PROVE Below(a, b)
  <2>1. Four(a, c) /\ Four(b, d)
    BY <1>8, BytesFour DEF a, b
  <2>2. /\ Len(a) = 4 /\ a[1] = 240 + Q3(c) /\ a[2] = 128 + D2(c) /\ a[3] = 128 + D1(c) /\ a[4] = 128 + D0(c)
        /\ Len(b) = 4 /\ b[1] = 240 + Q3(d) /\ b[2] = 128 + D2(d) /\ b[3] = 128 + D1(d) /\ b[4] = 128 + D0(d)
    BY <2>1 DEF Four
  <2>3. /\ Len(a) > 0 /\ Len(b) > 0 /\ Len(a) >= 2 /\ Len(b) >= 2
        /\ Len(a) >= 3 /\ Len(b) >= 3 /\ Len(a) >= 4 /\ Len(b) >= 4
    <3> DEFINE m == Len(a)  n == Len(b)
    <3>1. m = 4 /\ n = 4
      BY <2>2
    <3> HIDE DEF m, n
    <3>2. /\ m > 0 /\ n > 0 /\ m >= 2 /\ n >= 2
        /\ m >= 3 /\ n >= 3 /\ m >= 4 /\ n >= 4
      BY SMT, <3>1
    <3> QED
      BY <3>2 DEF m, n
  <2>4. CASE Q3(c) < Q3(d)
    <3>1. a[1] < b[1]
      BY <1>5, <2>2, <2>4, Shift
    <3> QED
      BY <1>2, <2>3, <3>1, FirstSmaller
  <2>5. CASE Q3(c) = Q3(d) /\ D2(c) < D2(d)
    <3>1. a[1] = b[1]
      BY <2>2, <2>5, SameAbove
    <3>2. a[2] < b[2]
      BY <1>5, <2>2, <2>5, Shift
    <3> QED
      BY <1>2, <2>3, <3>1, <3>2, SecondSmaller
  <2>6. CASE Q2(c) = Q2(d) /\ D1(c) < D1(d)
    <3>1. a[1] = b[1] /\ a[2] = b[2]
      BY <2>2, <2>6, SameAbove
    <3>2. a[3] < b[3]
      BY <1>5, <2>2, <2>6, Shift
    <3> QED
      BY <1>2, <2>3, <3>1, <3>2, ThirdSmaller
  <2>7. CASE Q1(c) = Q1(d) /\ D0(c) < D0(d)
    <3>1. a[1] = b[1] /\ a[2] = b[2] /\ a[3] = b[3]
      BY <2>2, <2>7, SameAbove
    <3>2. a[4] < b[4]
      BY <1>5, <2>2, <2>7, Shift
    <3> QED
      BY <1>2, <2>3, <3>1, <3>2, FourthSmaller
  <2> QED
    BY <2>4, <2>5, <2>6, <2>7, DigitsCompare
<1>9. Below(a, b)
  BY <1>3, <1>4, <1>6, <1>7, <1>8, Lengths
<1> QED
  BY <1>9 DEF a, b

LEMMA BeforeAt ==
  ASSUME NEW a \in Seq(Byte), NEW b \in Seq(Byte), NEW n \in Nat, n < Len(a), n < Len(b),
         \A i \in 1 .. n : a[i] = b[i], a[n + 1] < b[n + 1]
  PROVE  Before(a, b)
<1>1. Len(a) \in Nat /\ Len(b) \in Nat
  BY SMT
<1>2. n \in 0 .. Least(Len(a), Len(b))
  BY SMT, <1>1 DEF Least
<1> QED
  BY <1>2 DEF Before

\* "Lexicographic byte-wise less-than" and "compares Unicode scalar values of the
\* chars" (strutil.cardinal) are the same for characters: the bytes of the smaller
\* code point come before those of the greater one.
THEOREM EncodingKeepsOrder ==
  ASSUME NEW c \in CodePoint, NEW d \in CodePoint, c < d
  PROVE  Before(utf8_encode(c), utf8_encode(d))
<1>1. utf8_encode(c) \in Seq(Byte) /\ utf8_encode(d) \in Seq(Byte)
  BY Encoded DEF One, Two, Three, Four
<1> QED
  BY <1>1, EncodingsDiffer, BeforeAt DEF Below

\* ------------------------------------------------------------------- strings
Char == {cp \in CodePoint : Scalar(cp)}

\* The characters of s, encoded one after the other, are b, and the k-th of them
\* ends at f[k].
Ends(s, b, f) ==
  /\ f \in [0 .. Len(s) -> 0 .. Len(b)]
  /\ f[0] = 0 /\ f[Len(s)] = Len(b)
  /\ \A k \in 1 .. Len(s) :
       /\ f[k] = f[k - 1] + Len(utf8_encode(s[k]))
       /\ \A j \in 1 .. Len(utf8_encode(s[k])) : b[f[k - 1] + j] = utf8_encode(s[k])[j]
Encodes(s, b) == s \in Seq(Char) /\ b \in Seq(Byte) /\ \E f : Ends(s, b, f)

LEMMA EncodingType ==
  ASSUME NEW cp \in CodePoint
  PROVE  utf8_encode(cp) \in Seq(Byte) /\ Len(utf8_encode(cp)) \in 1 .. 4
<1> DEFINE e == utf8_encode(cp)
<1>1. One(e, cp) \/ Two(e, cp) \/ Three(e, cp) \/ Four(e, cp)
  BY Encoded
<1> HIDE DEF e
<1>2. e \in Seq(Byte)
  BY <1>1 DEF One, Two, Three, Four
<1>3. Len(e) = 1 \/ Len(e) = 2 \/ Len(e) = 3 \/ Len(e) = 4
  BY <1>1 DEF One, Two, Three, Four
<1> DEFINE n == Len(e)
<1> HIDE DEF n
<1>4. n \in 1 .. 4
  BY <1>3 DEF n
<1> QED BY <1>2, <1>4 DEF e, n

LEMMA CharType ==
  ASSUME NEW s \in Seq(Char), NEW k \in 1 .. Len(s)
  PROVE  s[k] \in CodePoint /\ Scalar(s[k])
<1>1. s[k] \in Char
  OBVIOUS
<1> QED BY Zenon, <1>1 DEF Char

\* Ends grow.
LEMMA EndsGrow ==
  ASSUME NEW s \in Seq(Char), NEW b \in Seq(Byte), NEW f, Ends(s, b, f)
  PROVE  /\ \A k \in 1 .. Len(s) : f[k - 1] \in 0 .. Len(b) /\ f[k] \in 0 .. Len(b) /\ f[k - 1] < f[k]
         /\ \A j, k \in 0 .. Len(s) : j <= k => f[j] <= f[k]
<1> DEFINE n == Len(s)
           N == Len(b)
<1>0. n \in Nat /\ N \in Nat
  OBVIOUS
<1>1. f \in [0 .. n -> 0 .. N]
  BY DEF Ends
<1>2. ASSUME NEW k \in 1 .. n
      PROVE  f[k - 1] \in 0 .. N /\ f[k] \in 0 .. N /\ f[k - 1] < f[k]
  <2> DEFINE l == Len(utf8_encode(s[k]))
  <2>1. l \in 1 .. 4
    BY CharType, EncodingType
  <2>2. f[k] = f[k - 1] + l
    BY DEF Ends
  <2> HIDE DEF n, N, l
  <2>3. f[k - 1] \in 0 .. N /\ f[k] \in 0 .. N
    BY <1>0, <1>1
  <2> QED BY <2>1, <2>2, <2>3
<1> DEFINE T == {k \in Nat : k <= n => \A j \in 0 .. k : f[j] <= f[k]}
<1> HIDE DEF n, N
<1>3. 0 \in T
  BY <1>0, <1>1
<1>4. ASSUME NEW k \in Nat, k \in T PROVE k + 1 \in T
  <2> SUFFICES ASSUME k + 1 <= n, NEW j \in 0 .. k + 1 PROVE f[j] <= f[k + 1]
    OBVIOUS
  <2>1. k + 1 \in 1 .. n /\ k + 1 - 1 = k
    BY <1>0
  <2>2. f[k] \in 0 .. N /\ f[k + 1] \in 0 .. N /\ f[k] < f[k + 1]
    BY <1>2, <2>1
  <2>3. CASE j \in 0 .. k
    <3>1. f[j] <= f[k] /\ f[j] \in 0 .. N
      BY <1>0, <1>1, <1>4, <2>3
    <3> QED BY <1>0, <2>2, <3>1
  <2>4. CASE j = k + 1
    BY <2>2, <2>4
  <2> QED BY <2>3, <2>4
<1> HIDE DEF T
<1>5. Nat \subseteq T
  BY <1>3, <1>4, NaturalInduction
<1>6. \A j, k \in 0 .. n : j <= k => f[j] <= f[k]
  BY <1>0, <1>5 DEF T
<1> QED BY <1>2, <1>6 DEF n, N

\* Every byte is one of a character.
LEMMA ByteOfChar ==
  ASSUME NEW s \in Seq(Char), NEW b \in Seq(Byte), NEW f, Ends(s, b, f), NEW i \in 1 .. Len(b)
  PROVE  \E k \in 1 .. Len(s) : f[k - 1] < i /\ i <= f[k]
<1> DEFINE n == Len(s)
           N == Len(b)
           S == {k \in 0 .. n : i <= f[k]}
<1>0. n \in Nat /\ N \in Nat
  OBVIOUS
<1>1. f \in [0 .. n -> 0 .. N] /\ f[0] = 0 /\ f[n] = N
  BY DEF Ends
<1> HIDE DEF n
<1>2. S \in SUBSET Nat /\ n \in S
  BY <1>0, <1>1
<1>3. PICK k \in S : \A j \in S : k <= j
  BY <1>2, LeastNatural
<1>4. k \in 1 .. n
  BY <1>0, <1>1, <1>3
<1>5. ~(i <= f[k - 1])
  BY <1>0, <1>3, <1>4
<1>6. f[k - 1] < i
  BY <1>0, <1>1, <1>4, <1>5
<1> QED BY <1>3, <1>4, <1>6 DEF n

LEMMA SplitInThree ==
  ASSUME NEW b \in Seq(Byte), NEW i \in Nat, NEW e \in Seq(Byte), i + Len(e) <= Len(b),
         \A j \in 1 .. Len(e) : b[i + j] = e[j]
  PROVE  \E pre, post \in Seq(Byte) : Len(pre) = i /\ b = pre \o e \o post
<1> DEFINE m == Len(e)
           N == Len(b)
           pre == [j \in 1 .. i |-> b[j]]
           post == [j \in 1 .. N - i - m |-> b[i + m + j]]
<1>0. m \in Nat /\ N \in Nat /\ \A j \in 1 .. N : b[j] \in Byte
  OBVIOUS
<1>1. pre \in Seq(Byte) /\ Len(pre) = i
  <2>1. pre \in [1 .. i -> Byte]
    BY <1>0
  <2> QED BY <2>1
<1>2. post \in Seq(Byte) /\ Len(post) = N - i - m
  <2>1. post \in [1 .. N - i - m -> Byte] /\ N - i - m \in Nat
    BY <1>0
  <2> QED BY <2>1
<1>3. \A j \in 1 .. i : pre[j] = b[j]
  OBVIOUS
<1>4. \A j \in 1 .. N - i - m : post[j] = b[i + m + j]
  OBVIOUS
<1> HIDE DEF pre, post
<1> DEFINE c == pre \o e \o post
<1>5. c \in Seq(Byte) /\ Len(c) = N
  BY <1>0, <1>1, <1>2
<1>6. ASSUME NEW j \in 1 .. N PROVE c[j] = b[j]
  <2>1. CASE j <= i
    BY <1>0, <1>1, <1>2, <1>3, <2>1
  <2>2. CASE i < j /\ j <= i + m
    <3>1. j - i \in 1 .. m /\ c[j] = e[j - i] /\ i + (j - i) = j
      BY <1>0, <1>1, <1>2, <2>2
    <3> QED BY <3>1
  <2>3. CASE i + m < j
    <3>1. j - i - m \in 1 .. N - i - m /\ c[j] = post[j - i - m] /\ i + m + (j - i - m) = j
      BY <1>0, <1>1, <1>2, <2>3
    <3> QED BY <1>4, <3>1
  <2>4. j \in Nat /\ i \in Nat
    BY <1>0
  <2> HIDE DEF c, m, N
  <2> QED BY <1>0, <2>1, <2>2, <2>3, <2>4
<1>7. c = b
  <2> HIDE DEF c
  <2> QED BY <1>5, <1>6
<1> QED BY <1>1, <1>2, <1>7

LEMMA DecodesChar ==
  ASSUME NEW s \in Seq(Char), NEW b \in Seq(Byte), NEW f, Ends(s, b, f), NEW k \in 1 .. Len(s)
  PROVE  utf8_decode(b, f[k - 1] + 1) = [next |-> f[k] + 1, cp |-> s[k]]
<1> DEFINE e == utf8_encode(s[k])
           i == f[k - 1]
<1>1. s[k] \in CodePoint /\ e \in Seq(Byte) /\ Len(e) \in 1 .. 4
  BY CharType, EncodingType
<1>2. i \in 0 .. Len(b) /\ f[k] \in 0 .. Len(b)
  BY EndsGrow
<1>3. f[k] = i + Len(e) /\ \A j \in 1 .. Len(e) : b[i + j] = e[j]
  BY DEF Ends
<1>4. PICK pre, post \in Seq(Byte) : Len(pre) = i /\ b = pre \o e \o post
  <2> HIDE DEF e, i
  <2>1. i + Len(e) <= Len(b) /\ i \in Nat
    BY <1>2, <1>3
  <2> QED BY <1>1, <1>3, <2>1, SplitInThree
<1>5. utf8_decode(pre \o e \o post, Len(pre) + 1) = [next |-> Len(pre) + Len(e) + 1, cp |-> s[k]]
  BY <1>1, CodecRoundTrip
<1> QED BY <1>3, <1>4, <1>5

\* What the loop over a string meets, from the character after the k-th on.
Met(s, f, k) == [j \in 1 .. Len(s) - k |-> [cp |-> s[k + j], end |-> f[k + j]]]
DecodedFrom(b, from) ==
  from = [i \in 1 .. Len(b) + 1 |->
            IF i > Len(b) THEN << >>
            ELSE <<[cp |-> utf8_decode(b, i).cp, end |-> utf8_decode(b, i).next - 1]>>
                   \o from[utf8_decode(b, i).next]]

\* The loop ends, whatever the bytes.
LEMMA DecodeAdvances ==
  ASSUME NEW b \in Seq(Byte), NEW i \in 1 .. Len(b)
  PROVE  utf8_decode(b, i).next \in i + 1 .. Len(b) + 1
<1> DEFINE x == Extra(b[i])
           n == Least(x, Len(b) - i)
<1>1. x \in 0 .. 3
  BY DEF Extra
<1>2. utf8_decode(b, i).next = i + n + 1
  BY Zenon DEF utf8_decode
<1>3. Len(b) \in Nat
  OBVIOUS
<1> HIDE DEF x
<1>4. n \in 0 .. Len(b) - i
  BY <1>1, <1>3 DEF Least
<1> HIDE DEF n
<1> QED BY <1>2, <1>3, <1>4

LEMMA DecodedExists ==
  ASSUME NEW b \in Seq(Byte)
  PROVE  \E from : DecodedFrom(b, from)
<1> DEFINE N == Len(b)
           nx(i) == utf8_decode(b, i).next
           it(i) == [cp |-> utf8_decode(b, i).cp, end |-> utf8_decode(b, i).next - 1]
           V == {it(i) : i \in 1 .. N}
           S == Seq(V)
           p == [n \in 1 .. N |-> N + 1 - nx(N + 1 - n)]
           d == [n \in 1 .. N |-> [r \in S |-> <<it(N + 1 - n)>> \o r]]
<1>1. N \in Nat
  OBVIOUS
<1>2. \A i \in 1 .. N : nx(i) \in i + 1 .. N + 1
  BY DecodeAdvances
<1>3. \A i \in 1 .. N : it(i) \in V
  OBVIOUS
<1> HIDE DEF N, nx, it
<1>4. \A n \in 1 .. N : p[n] \in 0 .. n - 1
  BY <1>1, <1>2
<1>5. << >> \in S
  OBVIOUS
<1>6. d \in [1 .. N -> [S -> S]]
  <2>1. ASSUME NEW n \in 1 .. N, NEW r \in S PROVE <<it(N + 1 - n)>> \o r \in S
    <3>1. N + 1 - n \in 1 .. N
      BY <1>1
    <3>2. it(N + 1 - n) \in V
      BY <1>3, <3>1
    <3> HIDE DEF V
    <3> QED BY <3>2
  <2> QED BY <2>1
<1> HIDE DEF p, d, S, V
<1>7. PICK h : Recurs(h, p, d, << >>, N, S)
  BY <1>1, <1>4, <1>5, <1>6, Recursion DEF IsStep
<1> DEFINE from == [i \in 1 .. N + 1 |-> h[N + 1 - i]]
<1>8. ASSUME NEW i \in 1 .. N PROVE from[i] = <<it(i)>> \o from[nx(i)]
  <2> DEFINE n == N + 1 - i
  <2>1. n \in 1 .. N /\ N + 1 - n = i
    BY <1>1
  <2>2. h[n] = d[n][h[p[n]]]
    BY <1>7, <2>1 DEF Recurs
  <2>3. p[n] = N + 1 - nx(i) /\ p[n] \in 0 .. N
    BY <1>1, <1>4, <2>1 DEF p
  <2>4. h[p[n]] \in S
    BY <1>7, <2>3 DEF Recurs
  <2>5. d[n][h[p[n]]] = <<it(i)>> \o h[p[n]]
    BY <2>1, <2>4 DEF d
  <2>6. from[i] = h[n] /\ from[nx(i)] = h[p[n]]
    BY SMTT(30), <1>1, <1>2, <2>3
  <2> QED BY <2>2, <2>5, <2>6
<1>9. from[N + 1] = << >>
  BY <1>1, <1>7 DEF Recurs
<1>10. from = [i \in 1 .. N + 1 |-> IF i > N THEN << >> ELSE <<it(i)>> \o from[nx(i)]]
  <2>1. \A i \in 1 .. N + 1 : from[i] = IF i > N THEN << >> ELSE <<it(i)>> \o from[nx(i)]
    <3> HIDE DEF from
    <3>1. ASSUME NEW i \in 1 .. N + 1
          PROVE  from[i] = IF i > N THEN << >> ELSE <<it(i)>> \o from[nx(i)]
      <4>1. CASE i > N
        <5>1. i = N + 1
          BY <1>1, <4>1
        <5> QED BY Zenon, <1>9, <4>1, <5>1
      <4>2. CASE ~(i > N)
        <5>1. i \in 1 .. N
          BY <1>1, <4>2
        <5> QED BY Zenon, <1>8, <4>2, <5>1
      <4> QED BY <4>1, <4>2
    <3> QED BY <3>1
  <2> QED BY Zenon, <2>1
<1>11. DecodedFrom(b, from)
  BY Zenon, <1>10 DEF DecodedFrom, N, it, nx
<1> QED BY Zenon, <1>11

LEMMA MetNext ==
  ASSUME NEW s, NEW f, Len(s) \in Nat, NEW m \in 1 .. Len(s)
  PROVE  Met(s, f, m - 1) = <<[cp |-> s[m], end |-> f[m]]>> \o Met(s, f, m)
<1> DEFINE n == Len(s)
           it(k) == [cp |-> s[k], end |-> f[k]]
           V == {it(k) : k \in 1 .. n}
           x == Met(s, f, m - 1)
           y == Met(s, f, m)
<1>1. x = [j \in 1 .. n - (m - 1) |-> it(m - 1 + j)] /\ y = [j \in 1 .. n - m |-> it(m + j)]
  BY Zenon DEF Met
<1>2. \A k \in 1 .. n : it(k) \in V
  OBVIOUS
<1>3. n \in Nat /\ m \in 1 .. n
  OBVIOUS
<1> HIDE DEF n, it, V, x, y
<1>4. x \in [1 .. n - (m - 1) -> V] /\ y \in [1 .. n - m -> V]
  BY <1>1, <1>2, <1>3
<1>5. x \in Seq(V) /\ y \in Seq(V) /\ Len(x) = n - m + 1 /\ Len(y) = n - m
  <2>1. n - (m - 1) \in Nat /\ n - m \in Nat /\ n - (m - 1) = n - m + 1
    BY <1>3
  <2> QED BY <1>4, <2>1
<1>6. it(m) \in V
  BY <1>2, <1>3
<1> DEFINE z == <<it(m)>> \o y
<1>7. z \in Seq(V) /\ Len(z) = n - m + 1 /\ z[1] = it(m)
      /\ \A j \in 2 .. n - m + 1 : z[j] = y[j - 1]
  BY <1>3, <1>5, <1>6
<1>8. ASSUME NEW j \in 1 .. n - m + 1 PROVE x[j] = z[j]
  <2>1. x[j] = it(m - 1 + j)
    BY <1>1, <1>3
  <2>2. CASE j = 1
    BY <1>3, <1>7, <2>1, <2>2
  <2>3. CASE j # 1
    <3>1. j \in 2 .. n - m + 1 /\ j - 1 \in 1 .. n - m /\ m + (j - 1) = m - 1 + j
      BY <1>3, <2>3
    <3> HIDE DEF z
    <3> QED BY <1>1, <1>7, <2>1, <3>1
  <2> QED BY <2>2, <2>3
<1> HIDE DEF z
<1>9. x = z
  BY <1>5, <1>7, <1>8
<1> QED BY <1>9 DEF x, y, z, it

LEMMA DecodedIs ==
  ASSUME NEW s, NEW b, NEW f, s \in Seq(Char), b \in Seq(Byte), Ends(s, b, f)
  PROVE  Decoded(b) = Met(s, f, 0)
<1> DEFINE F == CHOOSE from : DecodedFrom(b, from)
           N == Len(b)
           n == Len(s)
<1>1. DecodedFrom(b, F)
  BY Zenon, DecodedExists
<1>2. Decoded(b) = F[1]
  BY Zenon DEF Decoded, DecodedFrom
<1> HIDE DEF F
<1>0. n \in Nat /\ N \in Nat
  OBVIOUS
<1>3. f \in [0 .. n -> 0 .. N] /\ f[0] = 0 /\ f[n] = N
  BY DEF Ends
<1>4. \A i \in 1 .. N : F[i] = <<[cp |-> utf8_decode(b, i).cp, end |-> utf8_decode(b, i).next - 1]>>
                               \o F[utf8_decode(b, i).next]
  <2>1. \A i \in 1 .. N : i \in 1 .. N + 1 /\ ~(i > N)
    BY <1>0
  <2> QED BY Zenon, <1>1, <2>1 DEF DecodedFrom
<1>5. F[N + 1] = << >>
  <2>1. N + 1 \in 1 .. N + 1 /\ N + 1 > N
    BY <1>0
  <2> QED BY Zenon, <1>1, <2>1 DEF DecodedFrom
<1> DEFINE T == {k \in Nat : k <= n => F[f[n - k] + 1] = Met(s, f, n - k)}
<1> HIDE DEF N, n
<1>6. 0 \in T
  <2>1. n - 0 = n /\ F[f[n] + 1] = << >>
    BY <1>0, <1>3, <1>5
  <2>2. Met(s, f, n) = << >>
    <3>1. 1 .. n - n = 1 .. 0
      BY <1>0
    <3>2. Met(s, f, n) = [j \in 1 .. 0 |-> [cp |-> s[n + j], end |-> f[n + j]]]
      BY Zenon, <3>1 DEF Met, n
    <3> QED BY <3>2
  <2> QED BY <2>1, <2>2
<1>7. ASSUME NEW k \in Nat, k \in T PROVE k + 1 \in T
  <2> SUFFICES ASSUME k + 1 <= n PROVE F[f[n - (k + 1)] + 1] = Met(s, f, n - (k + 1))
    OBVIOUS
  <2> DEFINE m == n - k
  <2>1. m \in 1 .. n /\ n - (k + 1) = m - 1 /\ k <= n
    BY <1>0
  <2>2. F[f[m] + 1] = Met(s, f, m)
    BY <1>7, <2>1
  <2> HIDE DEF m, T
  <2>3. f[m - 1] \in 0 .. N /\ f[m] \in 0 .. N /\ f[m - 1] < f[m]
    BY <2>1, EndsGrow DEF n, N
  <2>4. utf8_decode(b, f[m - 1] + 1) = [next |-> f[m] + 1, cp |-> s[m]]
    BY <2>1, DecodesChar DEF n
  <2>5. f[m - 1] + 1 \in 1 .. N /\ f[m] + 1 - 1 = f[m]
    BY <1>0, <2>3
  <2>6. F[f[m - 1] + 1] = <<[cp |-> s[m], end |-> f[m]]>> \o F[f[m] + 1]
    <3> DEFINE i == f[m - 1] + 1
               G(c, e, x) == <<[cp |-> c, end |-> e]>> \o F[x]
    <3>1. F[i] = G(utf8_decode(b, i).cp, utf8_decode(b, i).next - 1, utf8_decode(b, i).next)
      BY <1>4, <2>5
    <3>2. utf8_decode(b, i).cp = s[m] /\ utf8_decode(b, i).next = f[m] + 1
      <4>1. utf8_decode(b, i) = [next |-> f[m] + 1, cp |-> s[m]]
        BY <2>4
      <4> HIDE DEF i
      <4> QED BY <4>1
    <3> HIDE DEF i, G
    <3>3. utf8_decode(b, i).next - 1 = f[m]
      BY <1>0, <2>3, <3>2
    <3>4. F[i] = G(s[m], f[m], f[m] + 1)
      BY Zenon, <3>1, <3>2, <3>3
    <3> QED BY Zenon, <3>4 DEF i, G
  <2>7. Met(s, f, m - 1) = <<[cp |-> s[m], end |-> f[m]]>> \o Met(s, f, m)
    BY <2>1, MetNext DEF n
  <2> QED BY <2>1, <2>2, <2>6, <2>7
<1> HIDE DEF T
<1>8. n \in T /\ n - n = 0
  BY <1>0, <1>6, <1>7, NaturalInduction
<1>9. F[f[0] + 1] = Met(s, f, 0) /\ f[0] + 1 = 1
  BY <1>0, <1>3, <1>8 DEF T
<1> QED BY <1>2, <1>9

\* A byte that continues a character.
Continuing == 128 .. 191
LEMMA LeadAndRest ==
  ASSUME NEW cp \in CodePoint
  PROVE  /\ utf8_encode(cp)[1] \notin Continuing
         /\ \A j \in 2 .. Len(utf8_encode(cp)) : utf8_encode(cp)[j] \in Continuing
<1> DEFINE e == utf8_encode(cp)
<1>1. One(e, cp) \/ Two(e, cp) \/ Three(e, cp) \/ Four(e, cp)
  BY Encoded
<1> HIDE DEF e
<1> USE DEF Continuing
<1>2. ASSUME One(e, cp) PROVE e[1] \notin Continuing /\ \A j \in 2 .. Len(e) : e[j] \in Continuing
  <2>1. Len(e) = 1 /\ e[1] < 128 /\ e[1] \in Nat
    BY <1>2 DEF One
  <2> QED BY <2>1
<1>3. ASSUME Two(e, cp) PROVE e[1] \notin Continuing /\ \A j \in 2 .. Len(e) : e[j] \in Continuing
  <2>1. /\ Len(e) = 2 /\ e[1] \in Nat /\ e[1] >= 194
        /\ e[2] \in Nat /\ e[2] >= 128 /\ e[2] < 192
    BY <1>3 DEF Two
  <2>2. \A j \in 2 .. 2 : j = 2
    OBVIOUS
  <2> QED BY <2>1, <2>2
<1>4. ASSUME Three(e, cp) PROVE e[1] \notin Continuing /\ \A j \in 2 .. Len(e) : e[j] \in Continuing
  <2>1. /\ Len(e) = 3 /\ e[1] \in Nat /\ e[1] >= 224
        /\ e[2] \in Nat /\ e[2] >= 128 /\ e[2] < 192
        /\ e[3] \in Nat /\ e[3] >= 128 /\ e[3] < 192
    BY <1>4 DEF Three
  <2>2. \A j \in 2 .. 3 : j = 2 \/ j = 3
    OBVIOUS
  <2> QED BY <2>1, <2>2
<1>5. ASSUME Four(e, cp) PROVE e[1] \notin Continuing /\ \A j \in 2 .. Len(e) : e[j] \in Continuing
  <2>1. /\ Len(e) = 4 /\ e[1] \in Nat /\ e[1] >= 240
        /\ e[2] \in Nat /\ e[2] >= 128 /\ e[2] < 192
        /\ e[3] \in Nat /\ e[3] >= 128 /\ e[3] < 192
        /\ e[4] \in Nat /\ e[4] >= 128 /\ e[4] < 192
    BY <1>5 DEF Four
  <2>2. \A j \in 2 .. 4 : j = 2 \/ j = 3 \/ j = 4
    OBVIOUS
  <2> QED BY <2>1, <2>2
<1>6. e[1] \notin Continuing /\ \A j \in 2 .. Len(e) : e[j] \in Continuing
  BY Zenon, <1>1, <1>2, <1>3, <1>4, <1>5
<1> QED BY <1>6 DEF e

\* The k-th character of a string lies in its bytes from f[k - 1] + 1 to f[k].
Holds(N, b, i, j, e) ==
  /\ e \in Seq(Byte) /\ Len(e) \in 1 .. 4
  /\ i \in 0 .. N /\ j \in 0 .. N /\ i < j /\ j = i + Len(e)
  /\ \A x \in 1 .. Len(e) : b[i + x] = e[x]
  /\ b[i + 1] \notin Continuing
  /\ \A x \in i + 2 .. j : b[x] \in Continuing
LEMMA CharAt ==
  ASSUME NEW s \in Seq(Char), NEW b \in Seq(Byte), NEW f, Ends(s, b, f), NEW k \in 1 .. Len(s)
  PROVE  Holds(Len(b), b, f[k - 1], f[k], utf8_encode(s[k]))
<1> DEFINE e == utf8_encode(s[k])
           i == f[k - 1]
<1>1. s[k] \in CodePoint /\ Scalar(s[k])
  BY CharType
<1>2. e \in Seq(Byte) /\ Len(e) \in 1 .. 4
  BY <1>1, EncodingType
<1>3. i \in 0 .. Len(b) /\ f[k] \in 0 .. Len(b) /\ i < f[k]
  BY EndsGrow
<1>4. f[k] = i + Len(e) /\ \A j \in 1 .. Len(e) : b[i + j] = e[j]
  BY DEF Ends
<1>5. e[1] \notin Continuing /\ \A j \in 2 .. Len(e) : e[j] \in Continuing
  BY <1>1, LeadAndRest
<1> HIDE DEF e, i
<1>6. b[i + 1] \notin Continuing
  <2>1. 1 \in 1 .. Len(e)
    <3>1. \A n \in 1 .. 4 : 1 \in 1 .. n
      OBVIOUS
    <3> QED BY Zenon, <1>2, <3>1
  <2> QED BY <1>4, <1>5, <2>1
<1>7. ASSUME NEW x \in i + 2 .. f[k] PROVE b[x] \in Continuing
  <2>1. x - i \in 2 .. Len(e) /\ x - i \in 1 .. Len(e) /\ i + (x - i) = x
    BY <1>2, <1>3, <1>4
  <2> QED BY <1>4, <1>5, <2>1
<1> QED BY Zenon, <1>2, <1>3, <1>4, <1>6, <1>7 DEF Holds, e, i

LEMMA CharsAre ==
  ASSUME NEW s \in Seq(Char), NEW b \in Seq(Byte), NEW f, Ends(s, b, f)
  PROVE  /\ cl_strings__chars(b) = s
         /\ DOMAIN Decoded(b) = 1 .. Len(s) /\ Len(Decoded(b)) = Len(s)
         /\ \A k \in 1 .. Len(s) : Decoded(b)[k] = [cp |-> s[k], end |-> f[k]]
<1> DEFINE d == Decoded(b)
           n == Len(s)
           it(k) == [cp |-> s[k], end |-> f[k]]
<1>0. n \in Nat /\ DOMAIN s = 1 .. n
  OBVIOUS
<1>1. d = [j \in 1 .. n - 0 |-> it(0 + j)]
  <2>1. d = Met(s, f, 0)
    BY Zenon, DecodedIs
  <2> QED BY Zenon, <2>1 DEF Met
<1> HIDE DEF d, n, it
<1>2. d = [j \in 1 .. n |-> it(j)]
  BY <1>0, <1>1
<1>3. DOMAIN d = 1 .. n /\ Len(d) = n
  BY <1>0, <1>2
<1>4. \A k \in 1 .. n : d[k] = it(k)
  BY <1>2
<1>5. \A k \in 1 .. n : d[k].cp = s[k]
  <2>1. \A k : it(k).cp = s[k]
    BY DEF it
  <2> QED BY Zenon, <1>4, <2>1
<1>6. [k \in DOMAIN d |-> d[k].cp] = [k \in 1 .. n |-> s[k]]
  BY <1>3, <1>5
<1>7. [k \in 1 .. n |-> s[k]] = s
  <2>1. s \in [1 .. n -> Char]
    BY <1>0 DEF n
  <2> QED BY <2>1
<1>8. cl_strings__chars(b) = s
  BY Zenon, <1>6, <1>7 DEF cl_strings__chars, d
<1> QED BY <1>3, <1>4, <1>8 DEF d, n, it

\* The runtime counts the bytes that continue nothing.
LEMMA LengthIs ==
  ASSUME NEW s \in Seq(Char), NEW b \in Seq(Byte), NEW f, Ends(s, b, f)
  PROVE  cl_str_len(b) = Len(s)
<1> DEFINE n == Len(s)
           N == Len(b)
           L == {i \in DOMAIN b : b[i] \notin 128 .. 191}
           F == [k \in 1 .. n |-> f[k - 1] + 1]
<1>0. n \in Nat /\ N \in Nat /\ DOMAIN b = 1 .. N
  OBVIOUS
<1>1. \A k \in 1 .. n : /\ f[k - 1] \in 0 .. N /\ f[k] \in 0 .. N /\ f[k - 1] < f[k]
                        /\ b[f[k - 1] + 1] \notin Continuing
                        /\ \A i \in f[k - 1] + 2 .. f[k] : b[i] \in Continuing
  BY CharAt DEF Holds
<1>2. \A i \in 1 .. N : \E k \in 1 .. n : f[k - 1] < i /\ i <= f[k]
  BY ByteOfChar
<1>3. \A j, k \in 0 .. n : j <= k => f[j] <= f[k]
  BY EndsGrow
<1> HIDE DEF n, N
<1>4. F \in [1 .. n -> L]
  <2>1. ASSUME NEW k \in 1 .. n PROVE f[k - 1] + 1 \in L
    <3>0. f[k - 1] \in 0 .. N /\ f[k] \in 0 .. N /\ f[k - 1] < f[k]
      BY <1>1
    <3>1. f[k - 1] + 1 \in 1 .. N
      BY <1>0, <3>0
    <3> QED BY <1>0, <1>1, <3>1 DEF Continuing
  <2> QED BY <2>1
<1>5. \A j, k \in 1 .. n : F[j] = F[k] => j = k
  <2>1. ASSUME NEW j \in 1 .. n, NEW k \in 1 .. n, j < k PROVE F[j] < F[k]
    <3>1. j \in 0 .. n /\ k - 1 \in 0 .. n /\ j <= k - 1
      BY <1>0, <2>1
    <3>2. f[j] <= f[k - 1]
      BY <1>3, <3>1
    <3>3. f[j - 1] < f[j] /\ f[j - 1] \in 0 .. N /\ f[j] \in 0 .. N /\ f[k - 1] \in 0 .. N
      BY <1>1
    <3> QED BY <1>0, <3>2, <3>3
  <2>2. \A k \in 1 .. n : F[k] \in Int
    BY <1>0, <1>1
  <2> HIDE DEF F
  <2>3. \A j, k \in 1 .. n : j < k \/ k < j \/ j = k
    BY <1>0
  <2> QED BY <2>1, <2>2, <2>3
<1>6. \A i \in L : \E k \in 1 .. n : F[k] = i
  <2> SUFFICES ASSUME NEW i \in L PROVE \E k \in 1 .. n : F[k] = i
    OBVIOUS
  <2>1. i \in 1 .. N /\ b[i] \notin Continuing
    BY <1>0 DEF Continuing
  <2>2. PICK k \in 1 .. n : f[k - 1] < i /\ i <= f[k]
    BY <1>2, <2>1
  <2>3. f[k - 1] \in 0 .. N /\ f[k] \in 0 .. N /\ i \notin f[k - 1] + 2 .. f[k]
    BY <1>1, <2>1, <2>2
  <2>4. i = f[k - 1] + 1
    <3> HIDE DEF L
    <3> QED BY <1>0, <2>1, <2>2, <2>3
  <2> QED BY <2>4
<1> HIDE DEF F, L
<1>7. F \in Bijection(1 .. n, L)
  BY <1>4, <1>5, <1>6 DEF Bijection, Injection, Surjection, IsInjective
<1>8. Cardinality(L) = n
  BY <1>0, <1>7, FS_CountingElements DEF ExistsBijection
<1> QED BY <1>8 DEF cl_str_len, L, n

\* What two strings begin with is encoded alike.
LEMMA CommonPrefix ==
  ASSUME NEW s \in Seq(Char), NEW b \in Seq(Byte), NEW f, Ends(s, b, f),
         NEW t \in Seq(Char), NEW c \in Seq(Byte), NEW g, Ends(t, c, g),
         NEW m \in Nat, m <= Len(s), m <= Len(t), \A k \in 1 .. m : s[k] = t[k]
  PROVE  /\ \A k \in 0 .. m : f[k] = g[k]
         /\ f[m] \in 0 .. Len(b) /\ f[m] \in 0 .. Len(c)
         /\ \A i \in 1 .. f[m] : b[i] = c[i]
<1> DEFINE T == {k \in Nat : k <= m => /\ f[k] = g[k] /\ f[k] \in 0 .. Len(b) /\ f[k] \in 0 .. Len(c)
                                       /\ \A i \in 1 .. f[k] : b[i] = c[i]}
<1>0. Len(s) \in Nat /\ Len(t) \in Nat /\ Len(b) \in Nat /\ Len(c) \in Nat
  OBVIOUS
<1>1. 0 \in T
  <2>1. f[0] = 0 /\ g[0] = 0
    BY DEF Ends
  <2> QED BY <1>0, <2>1
<1>2. ASSUME NEW k \in Nat, k \in T PROVE k + 1 \in T
  <2> SUFFICES ASSUME k + 1 <= m
               PROVE  /\ f[k + 1] = g[k + 1] /\ f[k + 1] \in 0 .. Len(b) /\ f[k + 1] \in 0 .. Len(c)
                      /\ \A i \in 1 .. f[k + 1] : b[i] = c[i]
    OBVIOUS
  <2> DEFINE e == utf8_encode(s[k + 1])
             j == k + 1
  <2>1. j \in 1 .. Len(s) /\ j \in 1 .. Len(t) /\ j - 1 = k /\ s[j] = t[j]
    BY <1>0
  <2>2. /\ Len(e) \in 1 .. 4 /\ f[j] \in 0 .. Len(b) /\ f[j] = f[j - 1] + Len(e)
        /\ \A x \in 1 .. Len(e) : b[f[j - 1] + x] = e[x]
    <3>1. Holds(Len(b), b, f[j - 1], f[j], e)
      BY Zenon, <2>1, CharAt
    <3> QED BY Zenon, <3>1 DEF Holds
  <2>3. /\ g[j] \in 0 .. Len(c) /\ g[j] = g[j - 1] + Len(e)
        /\ \A x \in 1 .. Len(e) : c[g[j - 1] + x] = e[x]
    <3>1. utf8_encode(t[j]) = e
      BY Zenon, <2>1
    <3>2. /\ g[j] \in 0 .. Len(c) /\ g[j] = g[j - 1] + Len(utf8_encode(t[j]))
          /\ \A x \in 1 .. Len(utf8_encode(t[j])) : c[g[j - 1] + x] = utf8_encode(t[j])[x]
      <4>1. Holds(Len(c), c, g[j - 1], g[j], utf8_encode(t[j]))
        BY Zenon, <2>1, CharAt
      <4> QED BY Zenon, <4>1 DEF Holds
    <3> QED BY Zenon, <3>1, <3>2
  <2>4. f[k] = g[k] /\ f[k] \in 0 .. Len(b) /\ \A i \in 1 .. f[k] : b[i] = c[i]
    BY <1>2
  <2> HIDE DEF T, e, j
  <2>5. f[j] = g[j]
    BY Zenon, <2>1, <2>2, <2>3, <2>4
  <2>6. ASSUME NEW i \in 1 .. f[j] PROVE b[i] = c[i]
    <3>1. CASE i <= f[k]
      <4>1. i \in 1 .. f[k]
        BY <1>0, <2>2, <2>4, <3>1
      <4> QED BY <2>4, <4>1
    <3>2. CASE ~(i <= f[k])
      <4>1. i - f[k] \in 1 .. Len(e) /\ f[k] + (i - f[k]) = i
        BY SMTT(30), <1>0, <2>1, <2>2, <2>4, <3>2
      <4> QED BY SMTT(30), <2>1, <2>2, <2>3, <2>4, <4>1
    <3> QED BY <3>1, <3>2
  <2> QED BY <2>2, <2>3, <2>5, <2>6 DEF j
<1> HIDE DEF T
<1>3. Nat \subseteq T
  BY <1>1, <1>2, NaturalInduction
<1> QED BY <1>3 DEF T

LEMMA SameBytes ==
  ASSUME NEW s \in Seq(Char), NEW b \in Seq(Byte), NEW f, Ends(s, b, f),
         NEW c \in Seq(Byte), NEW g, Ends(s, c, g)
  PROVE  b = c
<1>1. Len(s) \in Nat
  OBVIOUS
<1>2. f[Len(s)] = g[Len(s)] /\ \A i \in 1 .. f[Len(s)] : b[i] = c[i]
  BY <1>1, CommonPrefix
<1>3. f[Len(s)] = Len(b) /\ g[Len(s)] = Len(c)
  BY DEF Ends
<1>4. Len(b) = Len(c) /\ \A i \in 1 .. Len(b) : b[i] = c[i]
  BY Zenon, <1>2, <1>3
<1> QED BY <1>4

\* What is joined and what is cut is encoded.
LEMMA Joined ==
  ASSUME NEW S, NEW p \in Seq(S), NEW q \in Seq(S)
  PROVE  /\ p \o q \in Seq(S) /\ Len(p \o q) = Len(p) + Len(q)
         /\ \A i \in 1 .. Len(p) : (p \o q)[i] = p[i]
         /\ \A i \in 1 .. Len(q) : (p \o q)[Len(p) + i] = q[i]
BY SMT
LEMMA Part ==
  ASSUME NEW S, NEW q \in Seq(S), NEW i \in 0 .. Len(q), NEW j \in i .. Len(q)
  PROVE  /\ SubSeq(q, i + 1, j) \in Seq(S) /\ Len(SubSeq(q, i + 1, j)) = j - i
         /\ \A k \in 1 .. j - i : SubSeq(q, i + 1, j)[k] = q[i + k]
BY SMT

LEMMA JoinedEncodes ==
  ASSUME NEW s, NEW b, Encodes(s, b), NEW t, NEW c, Encodes(t, c)
  PROVE  Encodes(s \o t, b \o c)
<1> DEFINE n == Len(s)  m == Len(t)  N == Len(b)  M == Len(c)
           u == s \o t
           d == b \o c
           enc(x) == utf8_encode(x)
<1>1. s \in Seq(Char) /\ t \in Seq(Char) /\ b \in Seq(Byte) /\ c \in Seq(Byte)
  BY DEF Encodes
<1>2. n \in Nat /\ m \in Nat /\ N \in Nat /\ M \in Nat
  BY <1>1
<1>3. PICK f : Ends(s, b, f)
  BY DEF Encodes
<1>4. PICK g : Ends(t, c, g)
  BY DEF Encodes
<1>5. /\ f \in [0 .. n -> 0 .. N] /\ f[0] = 0 /\ f[n] = N
      /\ g \in [0 .. m -> 0 .. M] /\ g[0] = 0 /\ g[m] = M
  BY <1>3, <1>4 DEF Ends
<1>6. /\ u \in Seq(Char) /\ Len(u) = n + m
      /\ \A i \in 1 .. n : u[i] = s[i]
      /\ \A i \in 1 .. m : u[n + i] = t[i]
  BY <1>1, Joined
<1>7. /\ d \in Seq(Byte) /\ Len(d) = N + M
      /\ \A i \in 1 .. N : d[i] = b[i]
      /\ \A i \in 1 .. M : d[N + i] = c[i]
  BY <1>1, Joined
<1>8. \A k \in 1 .. n : Holds(N, b, f[k - 1], f[k], enc(s[k]))
  BY Zenon, <1>1, <1>3, CharAt
<1>9. \A k \in 1 .. m : Holds(M, c, g[k - 1], g[k], enc(t[k]))
  BY Zenon, <1>1, <1>4, CharAt
<1> DEFINE h == [k \in 0 .. n + m |-> IF k <= n THEN f[k] ELSE N + g[k - n]]
<1> HIDE DEF n, m, N, M, u, d, enc
<1>10. h \in [0 .. n + m -> 0 .. N + M]
  <2>1. ASSUME NEW k \in 0 .. n + m PROVE (IF k <= n THEN f[k] ELSE N + g[k - n]) \in 0 .. N + M
    <3>1. CASE k <= n
      <4>1. f[k] \in 0 .. N
        BY <1>2, <1>5, <3>1
      <4> QED BY <1>2, <3>1, <4>1
    <3>2. CASE ~(k <= n)
      <4>1. g[k - n] \in 0 .. M
        BY <1>2, <1>5, <3>2
      <4> QED BY <1>2, <3>2, <4>1
    <3> QED BY <3>1, <3>2
  <2> QED BY <2>1
<1>11. /\ \A k \in 0 .. n : h[k] = f[k]
       /\ \A k \in 0 .. m : h[n + k] = N + g[k]
  <2>1. \A k \in 0 .. n : h[k] = f[k]
    BY <1>2
  <2>2. ASSUME NEW k \in 0 .. m PROVE h[n + k] = N + g[k]
    <3>1. CASE k = 0
      BY <1>2, <1>5, <2>1, <3>1
    <3>2. CASE k # 0
      <4> DEFINE x == n + k
      <4>1. x \in 0 .. n + m /\ ~(x <= n) /\ x - n = k
        BY <1>2, <3>2
      <4> HIDE DEF x
      <4>2. h[x] = N + g[x - n]
        BY Zenon, <4>1
      <4> QED BY Zenon, <4>1, <4>2 DEF x
    <3> QED BY <3>1, <3>2
  <2> QED BY <2>1, <2>2
<1> HIDE DEF h
<1>12. h[0] = 0 /\ h[n + m] = N + M
  <2>1. 0 \in 0 .. n /\ m \in 0 .. m
    BY <1>2
  <2> QED BY <1>5, <1>11, <2>1
<1>13. ASSUME NEW k \in 1 .. n + m
       PROVE  /\ h[k] = h[k - 1] + Len(enc(u[k]))
              /\ \A j \in 1 .. Len(enc(u[k])) : d[h[k - 1] + j] = enc(u[k])[j]
  <2>1. CASE k <= n
    <3> DEFINE e == enc(s[k])
    <3>1. k \in 1 .. n /\ k \in 0 .. n /\ k - 1 \in 0 .. n
      BY <1>2, <2>1
    <3>2. /\ Len(e) \in 1 .. 4 /\ f[k - 1] \in 0 .. N /\ f[k] \in 0 .. N /\ f[k] = f[k - 1] + Len(e)
          /\ \A x \in 1 .. Len(e) : b[f[k - 1] + x] = e[x]
      BY Zenon, <1>8, <3>1 DEF Holds
    <3>3. h[k] = f[k] /\ h[k - 1] = f[k - 1] /\ enc(u[k]) = e
      BY Zenon, <1>6, <1>11, <3>1
    <3> HIDE DEF e
    <3>4. ASSUME NEW j \in 1 .. Len(e) PROVE d[f[k - 1] + j] = e[j]
      <4>1. f[k - 1] + j \in 1 .. N
        BY <1>2, <3>2
      <4> QED BY Zenon, <1>7, <3>2, <4>1
    <3> QED BY Zenon, <3>2, <3>3, <3>4
  <2>2. CASE ~(k <= n)
    <3> DEFINE i == k - n
               e == enc(t[i])
    <3>1. i \in 1 .. m /\ i \in 0 .. m /\ i - 1 \in 0 .. m /\ n + i = k /\ n + (i - 1) = k - 1
      BY <1>2, <2>2
    <3>2. /\ Len(e) \in 1 .. 4 /\ g[i - 1] \in 0 .. M /\ g[i] \in 0 .. M /\ g[i] = g[i - 1] + Len(e)
          /\ \A x \in 1 .. Len(e) : c[g[i - 1] + x] = e[x]
      BY Zenon, <1>9, <3>1 DEF Holds
    <3>3. h[k] = N + g[i] /\ h[k - 1] = N + g[i - 1] /\ enc(u[k]) = e
      BY Zenon, <1>6, <1>11, <3>1
    <3> HIDE DEF e, i
    <3>4. ASSUME NEW j \in 1 .. Len(e) PROVE d[h[k - 1] + j] = e[j]
      <4>0. /\ Len(e) \in 1 .. 4 /\ g[i - 1] \in 0 .. M /\ g[i] \in 0 .. M
            /\ g[i] = g[i - 1] + Len(e) /\ h[k - 1] = N + g[i - 1]
        BY Zenon, <3>2, <3>3
      <4>1. g[i - 1] + j \in 1 .. M /\ N + (g[i - 1] + j) = h[k - 1] + j
        BY <1>2, <4>0
      <4> QED BY Zenon, <1>7, <3>2, <4>1
    <3>5. h[k] = h[k - 1] + Len(e)
      BY <1>2, <3>2, <3>3
    <3> QED BY Zenon, <3>3, <3>4, <3>5
  <2> QED BY <2>1, <2>2
<1>14. Ends(u, d, h)
  BY Zenon, <1>6, <1>7, <1>10, <1>12, <1>13 DEF Ends, enc
<1> QED BY Zenon, <1>6, <1>7, <1>14 DEF Encodes, u, d

LEMMA Shifted ==
  ASSUME NEW N \in Nat, NEW i \in 0 .. N, NEW j \in i .. N, NEW y \in 0 .. N, NEW w \in 1 .. 4,
         NEW x \in 1 .. w, y + w <= j, i <= y
  PROVE  (y - i) + x \in 1 .. j - i /\ i + ((y - i) + x) = y + x
BY SMT
LEMMA PartEncodes ==
  ASSUME NEW s \in Seq(Char), NEW b \in Seq(Byte), NEW f, Ends(s, b, f),
         NEW i \in 0 .. Len(s), NEW j \in i .. Len(s)
  PROVE  /\ f[i] \in 0 .. Len(b) /\ f[j] \in f[i] .. Len(b)
         /\ Encodes(SubSeq(s, i + 1, j), SubSeq(b, f[i] + 1, f[j]))
<1> DEFINE n == Len(s)  N == Len(b)
           u == SubSeq(s, i + 1, j)
           d == SubSeq(b, f[i] + 1, f[j])
           enc(x) == utf8_encode(x)
           h == [k \in 0 .. j - i |-> f[i + k] - f[i]]
<1>1. n \in Nat /\ N \in Nat
  OBVIOUS
<1>2. f \in [0 .. n -> 0 .. N]
  BY DEF Ends
<1>3. \A x, y \in 0 .. n : x <= y => f[x] <= f[y]
  BY EndsGrow
<1>4. \A k \in 1 .. n : Holds(N, b, f[k - 1], f[k], enc(s[k]))
  BY Zenon, CharAt
<1>5. /\ u \in Seq(Char) /\ Len(u) = j - i /\ \A k \in 1 .. j - i : u[k] = s[i + k]
  BY Zenon, Part
<1>6. i \in 0 .. n /\ j \in 0 .. n /\ j \in i .. n
  OBVIOUS
<1>7. f[i] \in 0 .. N /\ f[j] \in f[i] .. N
  <2> HIDE DEF n, N
  <2>1. f[i] \in 0 .. N /\ f[j] \in 0 .. N /\ i <= j
    BY <1>1, <1>2, <1>6
  <2>2. f[i] <= f[j]
    BY <1>3, <1>6, <2>1
  <2> QED BY <1>1, <2>1, <2>2
<1>8. /\ d \in Seq(Byte) /\ Len(d) = f[j] - f[i]
      /\ \A k \in 1 .. f[j] - f[i] : d[k] = b[f[i] + k]
  BY Zenon, <1>7, Part
<1> HIDE DEF n, N, u, d, enc
<1>9. j - i \in Nat /\ f[j] - f[i] \in Nat
  BY <1>1, <1>6, <1>7
<1>10. h \in [0 .. j - i -> 0 .. f[j] - f[i]]
  <2>1. ASSUME NEW k \in 0 .. j - i PROVE f[i + k] - f[i] \in 0 .. f[j] - f[i]
    <3>1. i + k \in 0 .. n /\ i <= i + k /\ i + k <= j
      BY <1>1, <1>6
    <3>2. f[i] <= f[i + k] /\ f[i + k] <= f[j] /\ f[i + k] \in 0 .. N
      BY <1>2, <1>3, <1>6, <3>1
    <3> QED BY <1>1, <1>7, <3>2
  <2> QED BY <2>1
<1>11. h[0] = 0 /\ h[j - i] = f[j] - f[i]
  <2>1. 0 \in 0 .. j - i /\ j - i \in 0 .. j - i /\ i + 0 = i /\ i + (j - i) = j
    BY <1>1, <1>6
  <2>2. h[0] = f[i] - f[i] /\ h[j - i] = f[j] - f[i]
    BY <2>1
  <2> QED BY <1>1, <1>7, <2>2
<1>12. \A k \in 0 .. j - i : h[k] = f[i + k] - f[i]
  OBVIOUS
<1> HIDE DEF h
<1>13. ASSUME NEW k \in 1 .. j - i
       PROVE  /\ h[k] = h[k - 1] + Len(enc(u[k]))
              /\ \A x \in 1 .. Len(enc(u[k])) : d[h[k - 1] + x] = enc(u[k])[x]
  <2> DEFINE l == i + k
             e == enc(s[l])
  <2>1. l \in 1 .. n /\ k \in 0 .. j - i /\ k - 1 \in 0 .. j - i /\ i + (k - 1) = l - 1
    BY <1>1, <1>6
  <2>2. /\ Len(e) \in 1 .. 4 /\ f[l - 1] \in 0 .. N /\ f[l] \in 0 .. N /\ f[l] = f[l - 1] + Len(e)
        /\ \A x \in 1 .. Len(e) : b[f[l - 1] + x] = e[x]
    BY Zenon, <1>4, <2>1 DEF Holds
  <2>3. h[k] = f[l] - f[i] /\ h[k - 1] = f[l - 1] - f[i] /\ enc(u[k]) = e
    BY Zenon, <1>5, <1>12, <2>1
  <2>4. f[l] <= f[j] /\ f[i] <= f[l - 1]
    BY <1>1, <1>3, <1>6, <2>1
  <2> HIDE DEF e, l
  <2>5. h[k] = h[k - 1] + Len(e)
    BY <1>1, <1>7, <2>2, <2>3
  <2>6. ASSUME NEW x \in 1 .. Len(e) PROVE d[h[k - 1] + x] = e[x]
    <3>0. /\ Len(e) \in 1 .. 4 /\ f[l - 1] \in 0 .. N /\ f[l] \in 0 .. N
          /\ f[l] = f[l - 1] + Len(e) /\ h[k - 1] = f[l - 1] - f[i]
      BY Zenon, <2>2, <2>3
    <3>1. h[k - 1] + x \in 1 .. f[j] - f[i] /\ f[i] + (h[k - 1] + x) = f[l - 1] + x
      <4> DEFINE w == Len(e)  y == f[l - 1]  z == f[l]
      <4>1. /\ w \in 1 .. 4 /\ y \in 0 .. N /\ z = y + w /\ h[k - 1] = y - f[i] /\ x \in 1 .. w
            /\ f[i] \in 0 .. N /\ f[j] \in f[i] .. N /\ z <= f[j] /\ f[i] <= y
        BY Zenon, <1>7, <2>4, <3>0
      <4> HIDE DEF w, y, z
      <4>2. h[k - 1] + x \in 1 .. f[j] - f[i] /\ f[i] + (h[k - 1] + x) = y + x
        <5> DEFINE fi == f[i]  fj == f[j]
        <5>1. /\ fi \in 0 .. N /\ fj \in fi .. N /\ y \in 0 .. N /\ w \in 1 .. 4 /\ x \in 1 .. w
              /\ y + w <= fj /\ fi <= y
          BY Zenon, <4>1
        <5>2. h[k - 1] = y - fi
          BY <4>1
        <5> HIDE DEF fi, fj
        <5>3. (y - fi) + x \in 1 .. fj - fi /\ fi + ((y - fi) + x) = y + x
          BY <1>1, <5>1, Shifted
        <5> QED BY Zenon, <5>2, <5>3 DEF fi, fj
      <4> QED BY Zenon, <4>2 DEF y
    <3> QED BY Zenon, <1>8, <2>2, <3>1
  <2> QED BY Zenon, <2>3, <2>5, <2>6
<1>14. Ends(u, d, h)
  BY Zenon, <1>5, <1>8, <1>10, <1>11, <1>13 DEF Ends, enc
<1> QED BY Zenon, <1>5, <1>7, <1>8, <1>14 DEF Encodes, u, d, N

\* ----------------------------------------------------------- well-formed strings
\* How many bytes follow the first one of a character.
LEMMA FollowedBy ==
  ASSUME NEW s \in Seq(Char), NEW b \in Seq(Byte), NEW f, Ends(s, b, f), NEW k \in 1 .. Len(s)
  PROVE  LET e == utf8_encode(s[k])
         IN  /\ Trail(b, f[k - 1] + 1) = 1 .. Len(e) - 1
             /\ Trail(e, 1) = 1 .. Len(e) - 1
<1> DEFINE e == utf8_encode(s[k])
           n == Len(s)  N == Len(b)  l == Len(e)
           i == f[k - 1] + 1
<1>0. n \in Nat /\ N \in Nat /\ DOMAIN b = 1 .. N /\ k \in 1 .. n /\ f[n] = N
  BY DEF Ends
<1>1. /\ e \in Seq(Byte) /\ l \in 1 .. 4 /\ f[k - 1] \in 0 .. N /\ f[k] \in 0 .. N
      /\ f[k] = f[k - 1] + l
      /\ \A x \in f[k - 1] + 2 .. f[k] : b[x] \in Continuing
  <2>1. Holds(N, b, f[k - 1], f[k], e)
    BY Zenon, CharAt
  <2> QED BY Zenon, <2>1 DEF Holds
<1>2. \A x \in 2 .. l : e[x] \in Continuing
  BY Zenon, LeadAndRest, CharType
<1>3. DOMAIN e = 1 .. l
  BY <1>1
<1>4. k + 1 \in 1 .. n => b[f[k] + 1] \notin Continuing
  <2>1. k + 1 - 1 = k
    BY <1>0
  <2>2. k + 1 \in 1 .. n => b[f[k + 1 - 1] + 1] \notin Continuing
    <3> DEFINE j == k + 1
    <3>1. j \in 1 .. n => b[f[j - 1] + 1] \notin Continuing
      <4> HIDE DEF j
      <4> QED BY Zenon, CharAt DEF Holds
    <3> QED BY <3>1
  <2> QED BY Zenon, <2>1, <2>2
<1> HIDE DEF e, n, N, l, i
<1>5. Trail(e, 1) = 1 .. l - 1
  <2>1. \A x \in 1 .. l - 1 : Continues(e, 1 + x)
    <3>1. \A x \in 1 .. l - 1 : 1 + x \in 1 .. l /\ 1 + x \in 2 .. l
      BY <1>1
    <3> QED BY <1>2, <1>3, <3>1 DEF Continues, Continuing
  <2>2. 1 + (l - 1 + 1) \notin 1 .. l /\ l - 1 \in 0 .. 3
    BY <1>1
  <2>3. ~Continues(e, 1 + (l - 1 + 1))
    BY Zenon, <1>3, <2>2 DEF Continues
  <2> QED BY <2>1, <2>2, <2>3, TrailIs
<1>6. Trail(b, i) = 1 .. l - 1
  <2>1. ASSUME NEW x \in 1 .. l - 1 PROVE Continues(b, i + x)
    <3>1. i + x \in 1 .. N /\ i + x \in f[k - 1] + 2 .. f[k]
      BY SMTT(30), <1>0, <1>1 DEF i
    <3> QED BY Zenon, <1>0, <1>1, <3>1 DEF Continues, Continuing
  <2>2. i + (l - 1 + 1) = f[k] + 1 /\ l - 1 \in 0 .. 3 /\ i \in Nat
    BY <1>0, <1>1 DEF i
  <2>3. ~Continues(b, f[k] + 1)
    <3>1. CASE k = n
      <4>1. f[k] + 1 \notin 1 .. N
        BY <1>0, <1>1, <3>1
      <4> QED BY Zenon, <1>0, <4>1 DEF Continues
    <3>2. CASE k # n
      <4>1. k + 1 \in 1 .. n
        BY <1>0, <3>2
      <4> QED BY Zenon, <1>4, <4>1 DEF Continues, Continuing
    <3> QED BY <3>1, <3>2
  <2> QED BY <2>1, <2>2, <2>3, TrailIs
<1> QED BY Zenon, <1>5, <1>6 DEF e, i, l

LeadFormed(trail, c, d) ==
  \/ c \in 0 .. 127 /\ trail = {}
  \/ c \in 194 .. 223 /\ trail = {1}
  \/ /\ c \in 224 .. 239 /\ trail = {1, 2}
     /\ (c = 224 => d >= 160) /\ (c = 237 => d < 160)
  \/ /\ c \in 240 .. 244 /\ trail = {1, 2, 3}
     /\ (c = 240 => d >= 144) /\ (c = 244 => d < 144)
FormedAt(b, i) == (Continues(b, i) /\ i > 1) \/ LeadFormed(Trail(b, i), b[i], b[i + 1])
LEMMA Formed ==
  ASSUME NEW b
  PROVE  WellFormedBytes(b) <=> \A i \in DOMAIN b : FormedAt(b, i)
<1> DEFINE G(i) == \/ Continues(b, i) /\ i > 1
                   \/ b[i] \in 0 .. 127 /\ Trail(b, i) = {}
                   \/ b[i] \in 194 .. 223 /\ Trail(b, i) = {1}
                   \/ /\ b[i] \in 224 .. 239 /\ Trail(b, i) = {1, 2}
                      /\ (b[i] = 224 => b[i + 1] >= 160) /\ (b[i] = 237 => b[i + 1] < 160)
                   \/ /\ b[i] \in 240 .. 244 /\ Trail(b, i) = {1, 2, 3}
                      /\ (b[i] = 240 => b[i + 1] >= 144) /\ (b[i] = 244 => b[i + 1] < 144)
<1>1. WellFormedBytes(b) <=> \A i \in DOMAIN b : G(i)
  BY DEF WellFormedBytes
<1>2. \A i : G(i) <=> FormedAt(b, i)
  BY DEF FormedAt, LeadFormed
<1> HIDE DEF G
<1> QED BY Zenon, <1>1, <1>2

LEMMA TextWellFormed ==
  ASSUME NEW s, NEW b, Encodes(s, b)
  PROVE  WellFormedBytes(b)
<1> DEFINE n == Len(s)  N == Len(b)
<1>1. s \in Seq(Char) /\ b \in Seq(Byte)
  BY DEF Encodes
<1>2. PICK f : Ends(s, b, f)
  BY DEF Encodes
<1>3. n \in Nat /\ N \in Nat /\ DOMAIN b = 1 .. N
  BY <1>1
<1>4. ASSUME NEW i \in 1 .. N PROVE FormedAt(b, i)
  <2>1. PICK k \in 1 .. n : f[k - 1] < i /\ i <= f[k]
    BY <1>1, <1>2, ByteOfChar
  <2> DEFINE e == utf8_encode(s[k])
             p == f[k - 1]
  <2>2. /\ e \in Seq(Byte) /\ Len(e) \in 1 .. 4 /\ p \in 0 .. N /\ f[k] \in 0 .. N
        /\ \A x \in 1 .. Len(e) : b[p + x] = e[x]
        /\ \A x \in p + 2 .. f[k] : b[x] \in Continuing
    <3>1. Holds(N, b, p, f[k], e)
      BY Zenon, <1>1, <1>2, CharAt
    <3> QED BY Zenon, <3>1 DEF Holds
  <2>3. CASE i # p + 1
    <3>1. i \in p + 2 .. f[k] /\ i > 1
      BY <2>1, <2>2, <2>3
    <3> QED BY Zenon, <1>3, <2>2, <3>1 DEF FormedAt, Continues, Continuing
  <2>4. CASE i = p + 1
    <3>1. Trail(b, i) = 1 .. Len(e) - 1 /\ Trail(e, 1) = 1 .. Len(e) - 1
      <4>1. Trail(b, p + 1) = 1 .. Len(e) - 1 /\ Trail(e, 1) = 1 .. Len(e) - 1
        BY Zenon, <1>1, <1>2, FollowedBy
      <4> QED BY Zenon, <2>4, <4>1
    <3>2. FormedAt(e, 1)
      <4>1. WellFormedBytes(e)
        <5>1. s[k] \in CodePoint /\ Scalar(s[k])
          BY <1>1, CharType
        <5> QED BY <5>1, EncodingWellFormed
      <4>2. 1 \in DOMAIN e
        BY <2>2
      <4> QED BY Zenon, <4>1, <4>2, Formed
    <3>3. ~(1 > 1)
      OBVIOUS
    <3> DEFINE l == Len(e)
    <3>4. 1 \in 1 .. l /\ (2 \in 1 .. l \/ l = 1)
      <4> HIDE DEF l
      <4>1. l \in 1 .. 4
        BY <2>2 DEF l
      <4> QED BY <4>1
    <3>5. b[i] = e[1]
      BY Zenon, <2>2, <2>4, <3>4
    <3>6. l # 1 => b[i + 1] = e[2]
      <4>1. p + 2 = i + 1
        BY <2>2, <2>4
      <4> QED BY Zenon, <2>2, <3>4, <4>1
    <3>7. l = 1 => {} = 1 .. l - 1
      <4> HIDE DEF l
      <4> QED OBVIOUS
    <3>8. 1 + 1 = 2
      OBVIOUS
    <3> HIDE DEF l, e, p
    <3>9. Trail(b, i) = Trail(e, 1) /\ (l = 1 => Trail(e, 1) = {})
      BY Zenon, <3>1, <3>7 DEF l
    <3>10. LeadFormed(Trail(b, i), b[i], e[2])
      BY Zenon, <3>2, <3>3, <3>5, <3>8, <3>9 DEF FormedAt
    <3>11. CASE l # 1
      BY Zenon, <3>6, <3>10, <3>11 DEF FormedAt
    <3>12. CASE l = 1
      <4>1. \A c, d, d2 : LeadFormed({}, c, d) => LeadFormed({}, c, d2)
        BY DEF LeadFormed
      <4> QED BY Zenon, <3>9, <3>10, <3>12, <4>1 DEF FormedAt
    <3> QED BY <3>11, <3>12
  <2> QED BY <2>3, <2>4
<1> QED BY Zenon, <1>3, <1>4, Formed

\* -------------------------------------------------------------- order of strings
LEMMA StepBelow ==
  ASSUME NEW b \in Seq(Byte), NEW c \in Seq(Byte), NEW p \in Nat,
         NEW d \in Seq(Byte), NEW e \in Seq(Byte), p + Len(d) <= Len(b), p + Len(e) <= Len(c),
         \A i \in 1 .. p : b[i] = c[i],
         \A i \in 1 .. Len(d) : b[p + i] = d[i], \A i \in 1 .. Len(e) : c[p + i] = e[i],
         Below(d, e)
  PROVE  Before(b, c)
<1>1. PICK n \in Nat : /\ n < Len(d) /\ n < Len(e)
                       /\ \A i \in 1 .. n : d[i] = e[i]
                       /\ d[n + 1] < e[n + 1]
  BY DEF Below
<1> DEFINE B == Len(b)  C == Len(c)  D == Len(d)  E == Len(e)
<1>2. B \in Nat /\ C \in Nat /\ D \in Nat /\ E \in Nat
  OBVIOUS
<1>3. n < D /\ n < E /\ p + D <= B /\ p + E <= C
  BY <1>1
<1>4. /\ \A i \in 1 .. D : b[p + i] = d[i]
      /\ \A i \in 1 .. E : c[p + i] = e[i]
  OBVIOUS
<1> HIDE DEF B, C, D, E
<1>5. p + n < B /\ p + n < C /\ n + 1 \in 1 .. D /\ n + 1 \in 1 .. E /\ p + n + 1 = p + (n + 1)
  BY <1>2, <1>3
<1>6. b[p + n + 1] < c[p + n + 1]
  <2>1. b[p + (n + 1)] = d[n + 1] /\ c[p + (n + 1)] = e[n + 1]
    BY Zenon, <1>4, <1>5
  <2> DEFINE x == n + 1  y == p + n + 1
  <2>2. b[y] = d[x] /\ c[y] = e[x] /\ d[x] < e[x]
    BY <1>1, <1>5, <2>1
  <2> HIDE DEF x, y
  <2>3. b[y] < c[y]
    BY Zenon, <2>2
  <2> QED BY <2>3 DEF y
<1>7. ASSUME NEW i \in 1 .. p + n PROVE b[i] = c[i]
  <2>1. CASE i \in 1 .. p
    BY <2>1
  <2>2. CASE i \notin 1 .. p
    <3>1. i - p \in 1 .. D /\ i - p \in 1 .. E /\ i - p \in 1 .. n /\ p + (i - p) = i
      BY <1>2, <1>3, <2>2
    <3> QED BY <1>1, <1>4, <3>1
  <2> QED BY <2>1, <2>2
<1> QED BY <1>5, <1>6, <1>7, BeforeAt DEF B, C

LEMMA LessIsBefore ==
  ASSUME NEW s, NEW b, Encodes(s, b), NEW t, NEW c, Encodes(t, c), str_lt(s, t)
  PROVE  Before(b, c)
<1> DEFINE n == Len(s)  m == Len(t)  N == Len(b)  M == Len(c)
<1>1. s \in Seq(Char) /\ b \in Seq(Byte) /\ t \in Seq(Char) /\ c \in Seq(Byte)
  BY DEF Encodes
<1>2. PICK f : Ends(s, b, f)
  BY DEF Encodes
<1>3. PICK g : Ends(t, c, g)
  BY DEF Encodes
<1>4. n \in Nat /\ m \in Nat /\ N \in Nat /\ M \in Nat /\ DOMAIN s = 1 .. n
  BY <1>1
<1>5. ASSUME NEW i \in 1 .. Least(n, m), s[i] < t[i], \A j \in 1 .. i - 1 : s[j] = t[j]
      PROVE  Before(b, c)
  <2> DEFINE d == utf8_encode(s[i])  e == utf8_encode(t[i])  p == f[i - 1]
  <2>1. i \in 1 .. n /\ i \in 1 .. m /\ i - 1 \in Nat /\ i - 1 <= n /\ i - 1 <= m /\ i - 1 \in 0 .. i - 1
    BY <1>4 DEF Least
  <2>2. p = g[i - 1] /\ \A x \in 1 .. p : b[x] = c[x]
    BY SMTT(30), <1>1, <1>2, <1>3, <1>5, <2>1, CommonPrefix
  <2>3. Below(d, e)
    <3>1. s[i] \in CodePoint /\ t[i] \in CodePoint
      BY <1>1, <2>1, CharType
    <3> QED BY <1>5, <3>1, EncodingsDiffer
  <2>4. /\ d \in Seq(Byte) /\ p \in 0 .. N /\ f[i] \in 0 .. N /\ f[i] = p + Len(d)
        /\ \A x \in 1 .. Len(d) : b[p + x] = d[x]
    <3>1. Holds(N, b, p, f[i], d)
      BY Zenon, <1>1, <1>2, <2>1, CharAt
    <3> QED BY Zenon, <3>1 DEF Holds
  <2>5. /\ e \in Seq(Byte) /\ g[i - 1] \in 0 .. M /\ g[i] \in 0 .. M /\ g[i] = g[i - 1] + Len(e)
        /\ \A x \in 1 .. Len(e) : c[g[i - 1] + x] = e[x]
    <3>1. Holds(M, c, g[i - 1], g[i], e)
      BY Zenon, <1>1, <1>3, <2>1, CharAt
    <3> QED BY Zenon, <3>1 DEF Holds
  <2>6. \A x \in 1 .. Len(e) : c[p + x] = e[x]
    BY Zenon, <2>2, <2>5
  <2> HIDE DEF d, e, p, n, m
  <2>7. p \in Nat /\ p + Len(d) <= N /\ p + Len(e) <= M
    BY <1>4, <2>2, <2>4, <2>5
  <2> QED BY <1>1, <2>2, <2>3, <2>4, <2>5, <2>6, <2>7, StepBelow
<1>6. ASSUME n < m, \A j \in 1 .. n : s[j] = t[j]
      PROVE  Before(b, c)
  <2>1. n <= n /\ n <= m /\ n \in 0 .. n /\ n + 1 \in 1 .. m /\ n + 1 - 1 = n
    BY <1>4, <1>6
  <2>2. f[n] = g[n] /\ \A x \in 1 .. f[n] : b[x] = c[x]
    <3> DEFINE k == n
    <3>1. k \in Nat /\ k <= Len(s) /\ k <= Len(t) /\ \A j \in 1 .. k : s[j] = t[j]
      BY <1>4, <1>6, <2>1
    <3>2. k \in 0 .. k
      BY <2>1
    <3> HIDE DEF k
    <3>3. f[k] = g[k] /\ \A x \in 1 .. f[k] : b[x] = c[x]
      BY <1>1, <1>2, <1>3, <3>1, <3>2, CommonPrefix
    <3> QED BY Zenon, <3>3 DEF k
  <2>3. f[n] = N
    BY <1>2 DEF Ends
  <2>4. g[n + 1 - 1] \in 0 .. M /\ g[n + 1] \in 0 .. M /\ g[n + 1 - 1] < g[n + 1]
    BY <1>1, <1>3, <2>1, EndsGrow
  <2>5. N < M /\ N \in 0 .. Least(N, M)
    <3> HIDE DEF N, M, n, m
    <3>1. g[n] = N /\ g[n] < g[n + 1] /\ g[n + 1] \in 0 .. M
      BY Zenon, <2>1, <2>2, <2>3, <2>4
    <3>2. N < M
      BY <1>4, <3>1
    <3> QED BY <1>4, <3>2 DEF Least
  <2>6. \A x \in 1 .. N : b[x] = c[x]
    BY <2>2, <2>3
  <2> QED BY Zenon, <2>5, <2>6 DEF Before
<1> QED BY Zenon, <1>4, <1>5, <1>6 DEF str_lt

\* Of two strings, one is less or they are the same.
LEMMA Trichotomy ==
  ASSUME NEW s, NEW t, s \in Seq(Char), t \in Seq(Char), s # t
  PROVE  str_lt(s, t) \/ str_lt(t, s)
<1> DEFINE n == Len(s)  m == Len(t)
           l == Least(n, m)
           D == {i \in 1 .. l : s[i] # t[i]}
<1>1. n \in Nat /\ m \in Nat /\ DOMAIN s = 1 .. n /\ DOMAIN t = 1 .. m
  OBVIOUS
<1>2. /\ \A i \in 1 .. n : s[i] \in Int
      /\ \A i \in 1 .. m : t[i] \in Int
  BY CharType, CodePointType
<1>3. CASE D = {}
  <2>1. n # m
    <3>1. ASSUME n = m PROVE FALSE
      <4>1. \A i \in 1 .. n : s[i] = t[i]
        BY <1>1, <1>3, <3>1 DEF Least
      <4>2. s = t
        BY <3>1, <4>1
      <4> QED BY <4>2
    <3> QED BY <3>1
  <2> HIDE DEF n, m
  <2>2. CASE n < m
    <3>1. \A i \in 1 .. n : s[i] = t[i]
      BY <1>1, <1>3, <2>2 DEF Least
    <3> QED BY Zenon, <1>1, <2>2, <3>1 DEF str_lt, n, m
  <2>3. CASE m < n
    <3>1. \A i \in 1 .. m : t[i] = s[i]
      BY <1>1, <1>3, <2>3 DEF Least
    <3> QED BY Zenon, <1>1, <2>3, <3>1 DEF str_lt, n, m
  <2> QED BY <1>1, <2>1, <2>2, <2>3
<1>4. CASE D # {}
  <2> HIDE DEF n, m
  <2>1. D \in SUBSET Nat
    BY <1>1 DEF Least
  <2>2. PICK i \in D : \A j \in D : i <= j
    BY <1>4, <2>1, LeastNatural
  <2>3. i \in 1 .. l /\ i \in 1 .. n /\ i \in 1 .. m /\ l = Least(m, n) /\ s[i] # t[i]
    BY <1>1, <2>2 DEF Least
  <2>4. \A j \in 1 .. i - 1 : s[j] = t[j]
    <3>1. l \in Nat
      BY <1>1 DEF Least
    <3> HIDE DEF l
    <3> QED BY <2>2, <2>3, <3>1
  <2>5. s[i] < t[i] \/ t[i] < s[i]
    BY <1>2, <2>3
  <2> QED BY Zenon, <2>3, <2>4, <2>5 DEF str_lt, n, m, l
<1> QED BY <1>3, <1>4

LEMMA BeforeOneWay ==
  ASSUME NEW b \in Seq(Byte), NEW c \in Seq(Byte), Before(b, c), Before(c, b)
  PROVE  FALSE
<1> DEFINE N == Len(b)  M == Len(c)
<1>1. N \in Nat /\ M \in Nat
  OBVIOUS
<1>2. /\ \A i \in 1 .. N : b[i] \in Int
      /\ \A i \in 1 .. M : c[i] \in Int
  <2>1. \A x \in Byte : x \in Int
    BY DEF Byte
  <2>2. (\A i \in 1 .. N : b[i] \in Byte) /\ (\A i \in 1 .. M : c[i] \in Byte)
    OBVIOUS
  <2> QED BY Zenon, <2>1, <2>2
<1>3. PICK n \in 0 .. Least(N, M) :
        (\A i \in 1 .. n : b[i] = c[i]) /\ n < M /\ (n = N \/ b[n + 1] < c[n + 1])
  BY Zenon DEF Before
<1>4. PICK m \in 0 .. Least(M, N) :
        (\A i \in 1 .. m : c[i] = b[i]) /\ m < N /\ (m = M \/ c[m + 1] < b[m + 1])
  BY Zenon DEF Before
<1> HIDE DEF N, M
<1>5. n \in Nat /\ n <= N /\ n <= M /\ m \in Nat /\ m <= N /\ m <= M /\ n < M /\ m < N
  BY <1>1, <1>3, <1>4 DEF Least
<1>6. CASE n = m
  <2>1. n + 1 \in 1 .. N /\ n + 1 \in 1 .. M /\ n # N /\ n # M
    BY <1>1, <1>5, <1>6
  <2>2. b[n + 1] < c[n + 1] /\ c[n + 1] < b[n + 1]
    BY Zenon, <1>3, <1>4, <1>6, <2>1
  <2> QED BY <1>2, <2>1, <2>2
<1>7. CASE n < m
  <2>1. n + 1 \in 1 .. m /\ n + 1 \in 1 .. N /\ n # N
    BY <1>1, <1>5, <1>7
  <2>2. c[n + 1] = b[n + 1] /\ b[n + 1] < c[n + 1]
    BY Zenon, <1>3, <1>4, <2>1
  <2> QED BY <1>2, <2>1, <2>2
<1>8. CASE m < n
  <2>1. m + 1 \in 1 .. n /\ m + 1 \in 1 .. N /\ m # M
    BY <1>1, <1>5, <1>8
  <2>2. b[m + 1] = c[m + 1] /\ c[m + 1] < b[m + 1]
    BY Zenon, <1>3, <1>4, <2>1
  <2> QED BY <1>2, <2>1, <2>2
<1> QED BY <1>5, <1>6, <1>7, <1>8

LEMMA OrdersAgree ==
  ASSUME NEW s, NEW b, Encodes(s, b), NEW t, NEW c, Encodes(t, c)
  PROVE  str_lt(s, t) <=> Before(b, c)
<1>1. b \in Seq(Byte) /\ c \in Seq(Byte) /\ s \in Seq(Char) /\ t \in Seq(Char)
  BY DEF Encodes
<1>2. ASSUME Before(b, c), ~str_lt(s, t) PROVE FALSE
  <2>1. CASE s = t
    <3>1. b = c
      <4>1. PICK f : Ends(s, b, f)
        BY DEF Encodes
      <4>2. PICK g : Ends(t, c, g)
        BY DEF Encodes
      <4> QED BY <1>1, <2>1, <4>1, <4>2, SameBytes
    <3> QED BY <1>1, <1>2, <3>1, BeforeOneWay
  <2>2. CASE str_lt(t, s)
    <3>1. Before(c, b)
      BY <2>2, LessIsBefore
    <3> QED BY <1>1, <1>2, <3>1, BeforeOneWay
  <2> QED BY <1>1, <1>2, <2>1, <2>2, Trichotomy
<1> QED BY <1>2, LessIsBefore

\* ----------------------------------------------------------------------- ASCII
Ascii == 0 .. 127
LEMMA AsciiEncoding ==
  ASSUME NEW cp \in CodePoint
  PROVE  LET e == utf8_encode(cp)
         IN  \/ cp \in Ascii /\ Len(e) = 1 /\ e[1] = cp
             \/ cp \notin Ascii /\ \A x \in 1 .. Len(e) : e[x] \notin Ascii
<1> DEFINE e == utf8_encode(cp)
<1>1. cp \in Nat
  BY CodePointType
<1>2. CASE Length(cp) = 1
  <2>1. One(e, cp) /\ cp < 128
    BY <1>2, BytesOne, Lengths
  <2> HIDE DEF e
  <2>2. Len(e) = 1 /\ e[1] = cp
    BY Zenon, <2>1 DEF One
  <2>3. cp \in Ascii
    BY <1>1, <2>1 DEF Ascii
  <2> QED BY Zenon, <2>2, <2>3 DEF e
<1>3. CASE Length(cp) # 1
  <2>1. Length(cp) = 2 \/ Length(cp) = 3 \/ Length(cp) = 4
    BY <1>3, Lengths
  <2>2. cp >= 128
    BY <1>1, <2>1, Lengths
  <2>3. Two(e, cp) \/ Three(e, cp) \/ Four(e, cp)
    BY <2>1, BytesTwo, BytesThree, BytesFour
  <2>4. e[1] \in Nat /\ e[1] >= 194 /\ Len(e) \in 1 .. 4
    <3>1. Len(e) \in 1 .. 4
      BY EncodingType
    <3> HIDE DEF e
    <3>2. e[1] \in Nat /\ (e[1] >= 194 \/ e[1] >= 224 \/ e[1] >= 240)
      BY Zenon, <2>3 DEF Two, Three, Four
    <3> QED BY <3>1, <3>2
  <2>5. \A x \in 2 .. Len(e) : e[x] \in Continuing
    BY Zenon, LeadAndRest
  <2>6. \A x \in 1 .. Len(e) : x = 1 \/ x \in 2 .. Len(e)
    BY <2>4
  <2> HIDE DEF e
  <2>7. \A x \in 1 .. Len(e) : e[x] \notin Ascii
    <3>1. e[1] \notin Ascii
      BY <2>4 DEF Ascii
    <3>2. \A x \in Continuing : x \notin Ascii
      BY DEF Ascii, Continuing
    <3> QED BY Zenon, <2>5, <2>6, <3>1, <3>2
  <2>8. cp \notin Ascii
    BY <1>1, <2>2 DEF Ascii
  <2> QED BY Zenon, <2>7, <2>8 DEF e
<1> QED BY Zenon, <1>2, <1>3

\* Bytes of ASCII characters are the characters.
LEMMA AsciiEncodes ==
  ASSUME NEW s \in Seq(Char), \A k \in 1 .. Len(s) : s[k] \in Ascii
  PROVE  s \in Seq(Byte) /\ Encodes(s, s)
<1> DEFINE n == Len(s)
           f == [k \in 0 .. n |-> k]
<1>1. n \in Nat
  OBVIOUS
<1>2. s \in Seq(Byte)
  <2>1. \A k \in 1 .. n : s[k] \in Byte
    <3>1. Ascii \subseteq Byte
      BY DEF Ascii, Byte
    <3> QED BY Zenon, <3>1
  <2>2. s \in [1 .. n -> Byte]
    BY <2>1
  <2> QED BY <1>1, <2>2
<1>3. \A k \in 1 .. n : Len(utf8_encode(s[k])) = 1 /\ utf8_encode(s[k])[1] = s[k]
  BY Zenon, AsciiEncoding, CharType
<1> HIDE DEF n
<1>4. f \in [0 .. n -> 0 .. n] /\ f[0] = 0 /\ f[n] = n
  BY <1>1
<1>5. ASSUME NEW k \in 1 .. n
      PROVE  /\ f[k] = f[k - 1] + Len(utf8_encode(s[k]))
             /\ \A j \in 1 .. Len(utf8_encode(s[k])) : s[f[k - 1] + j] = utf8_encode(s[k])[j]
  <2>1. f[k] = k /\ f[k - 1] = k - 1 /\ k - 1 + 1 = k
    BY <1>1
  <2>2. \A j \in 1 .. 1 : j = 1
    OBVIOUS
  <2> HIDE DEF f
  <2>3. s[f[k - 1] + 1] = utf8_encode(s[k])[1]
    BY Zenon, <1>3, <2>1
  <2>4. f[k] = f[k - 1] + 1
    BY Zenon, <2>1
  <2> QED BY Zenon, <1>3, <2>2, <2>3, <2>4
<1>6. Ends(s, s, f)
  BY Zenon, <1>4, <1>5 DEF Ends, n
<1> QED BY Zenon, <1>2, <1>6 DEF Encodes

LEMMA AsciiSame ==
  ASSUME NEW s, NEW b, Encodes(s, b), \A k \in 1 .. Len(s) : s[k] \in Ascii
  PROVE  b = s
<1>1. s \in Seq(Char) /\ b \in Seq(Byte)
  BY DEF Encodes
<1>2. PICK f : Ends(s, b, f)
  BY DEF Encodes
<1>3. s \in Seq(Byte) /\ Encodes(s, s)
  BY <1>1, AsciiEncodes
<1>4. PICK g : Ends(s, s, g)
  BY <1>3 DEF Encodes
<1> QED BY <1>1, <1>2, <1>3, <1>4, SameBytes

\* What is ASCII in a string can be told from its bytes.
LEMMA AsciiAt ==
  ASSUME NEW s \in Seq(Char), NEW b \in Seq(Byte), NEW f, Ends(s, b, f), NEW k \in 1 .. Len(s),
         NEW A \in SUBSET Ascii, NEW i \in f[k - 1] + 1 .. f[k]
  PROVE  /\ b[i] \in A <=> s[k] \in A
         /\ s[k] \in A => i = f[k - 1] + 1 /\ f[k] = i
<1> DEFINE e == utf8_encode(s[k])
<1>1. /\ e \in Seq(Byte) /\ Len(e) \in 1 .. 4
      /\ f[k - 1] \in 0 .. Len(b) /\ f[k] \in 0 .. Len(b) /\ f[k] = f[k - 1] + Len(e)
      /\ \A x \in 1 .. Len(e) : b[f[k - 1] + x] = e[x]
  <2>1. Holds(Len(b), b, f[k - 1], f[k], e)
    BY Zenon, CharAt
  <2> QED BY Zenon, <2>1 DEF Holds
<1>2. \/ s[k] \in Ascii /\ Len(e) = 1 /\ e[1] = s[k]
      \/ s[k] \notin Ascii /\ \A x \in 1 .. Len(e) : e[x] \notin Ascii
  BY Zenon, CharType, AsciiEncoding
<1>3. Len(b) \in Nat
  OBVIOUS
<1> HIDE DEF e
<1>4. i - f[k - 1] \in 1 .. Len(e) /\ f[k - 1] + (i - f[k - 1]) = i
  <2> DEFINE l == Len(e)  p == f[k - 1]
  <2>1. l \in 1 .. 4 /\ p \in 0 .. Len(b) /\ f[k] = p + l
    BY Zenon, <1>1
  <2> HIDE DEF l
  <2>2. i - p \in 1 .. l /\ p + (i - p) = i
    BY <1>3, <2>1
  <2> QED BY Zenon, <2>2 DEF l
<1>5. b[i] = e[i - f[k - 1]]
  BY Zenon, <1>1, <1>4
<1>6. CASE s[k] \in Ascii /\ Len(e) = 1 /\ e[1] = s[k]
  <2>1. i - f[k - 1] = 1 /\ i = f[k - 1] + 1 /\ f[k] = f[k - 1] + 1
    BY <1>1, <1>3, <1>4, <1>6
  <2> QED BY Zenon, <1>5, <1>6, <2>1
<1>7. CASE s[k] \notin Ascii /\ \A x \in 1 .. Len(e) : e[x] \notin Ascii
  BY Zenon, <1>4, <1>5, <1>7
<1> QED BY <1>2, <1>6, <1>7

LEMMA LastByte ==
  ASSUME NEW s \in Seq(Char), NEW b \in Seq(Byte), NEW f, Ends(s, b, f), NEW k \in 1 .. Len(s)
  PROVE  /\ f[k - 1] + 1 \in f[k - 1] + 1 .. f[k] /\ f[k] \in f[k - 1] + 1 .. f[k]
         /\ f[k - 1] + 1 \in 1 .. Len(b) /\ f[k] \in 1 .. Len(b)
<1>1. f[k - 1] \in 0 .. Len(b) /\ f[k] \in 0 .. Len(b) /\ f[k - 1] < f[k]
  BY EndsGrow
<1>2. Len(b) \in Nat
  OBVIOUS
<1> QED BY <1>1, <1>2

LEMMA AsciiBytes ==
  ASSUME NEW s, NEW b, Encodes(s, b), \A i \in 1 .. Len(b) : b[i] \in Ascii
  PROVE  b = s
<1>1. s \in Seq(Char) /\ b \in Seq(Byte)
  BY DEF Encodes
<1>2. PICK f : Ends(s, b, f)
  BY DEF Encodes
<1>3. ASSUME NEW k \in 1 .. Len(s) PROVE s[k] \in Ascii
  <2>1. f[k] \in f[k - 1] + 1 .. f[k] /\ f[k] \in 1 .. Len(b)
    BY <1>1, <1>2, LastByte
  <2> QED BY <1>1, <1>2, <2>1, AsciiAt
<1> QED BY <1>3, AsciiSame

LEMMA EmptyTogether ==
  ASSUME NEW s, NEW b, Encodes(s, b)
  PROVE  s = << >> <=> b = << >>
<1>1. s \in Seq(Char) /\ b \in Seq(Byte)
  BY DEF Encodes
<1>2. PICK f : Ends(s, b, f)
  BY DEF Encodes
<1>3. f[0] = 0 /\ f[Len(s)] = Len(b)
  BY <1>2 DEF Ends
<1>4. ASSUME s = << >> PROVE b = << >>
  BY <1>1, <1>3, <1>4
<1>5. ASSUME s # << >> PROVE b # << >>
  <2>1. 1 \in 1 .. Len(s)
    BY <1>1, <1>5
  <2>2. f[1] \in 1 .. Len(b)
    BY <1>1, <1>2, <2>1, LastByte
  <2> QED BY <2>2
<1> QED BY <1>4, <1>5

\* --------------------------------------------------------------------- numbers
LEMMA TrimmedIs ==
  ASSUME NEW S, NEW s \in Seq(S), NEW lo \in 1 .. Len(s), NEW hi \in 1 .. Len(s),
         s[lo] \notin Blank, s[hi] \notin Blank,
         \A j \in 1 .. Len(s) : s[j] \notin Blank => lo <= j /\ j <= hi
  PROVE  Trimmed(s) = SubSeq(s, lo, hi)
<1> DEFINE K == {i \in DOMAIN s : s[i] \notin Blank}
<1>1. DOMAIN s = 1 .. Len(s) /\ Len(s) \in Nat
  OBVIOUS
<1>2. K \subseteq Nat /\ lo \in K /\ hi \in K /\ \A j \in K : lo <= j /\ j <= hi
  BY <1>1
<1>3. Trimmed(s) = IF K = {} THEN << >>
                   ELSE SubSeq(s, CHOOSE i \in K : \A j \in K : i <= j,
                               CHOOSE i \in K : \A j \in K : i >= j)
  BY Zenon DEF Trimmed
<1> HIDE DEF K
<1>4. (CHOOSE i \in K : \A j \in K : i <= j) = lo
  <2>1. \A i \in K : (\A j \in K : i <= j) => i = lo
    BY <1>2
  <2> QED BY <1>2, <2>1
<1>5. (CHOOSE i \in K : \A j \in K : i >= j) = hi
  <2>1. \A i \in K : (\A j \in K : i >= j) => i = hi
    BY <1>2
  <2>2. \A j \in K : hi >= j
    BY <1>2
  <2> QED BY <1>2, <2>1, <2>2
<1>6. K # {}
  BY <1>2
<1> QED BY Zenon, <1>3, <1>4, <1>5, <1>6
LEMMA TrimmedBlank ==
  ASSUME NEW S, NEW s \in Seq(S), \A j \in 1 .. Len(s) : s[j] \in Blank
  PROVE  Trimmed(s) = << >>
<1> DEFINE K == {i \in DOMAIN s : s[i] \notin Blank}
<1>1. K = {}
  OBVIOUS
<1> QED BY Zenon, <1>1 DEF Trimmed

LEMMA FirstAndLast ==
  ASSUME NEW K, K # {}, NEW n \in Nat, K \subseteq 1 .. n
  PROVE  \E lo, hi \in K : \A j \in K : lo <= j /\ j <= hi
<1>1. PICK lo \in K : \A j \in K : lo <= j
  BY LeastNatural
<1> DEFINE M == {n - j : j \in K}
<1>2. M \in SUBSET Nat /\ M # {}
  OBVIOUS
<1>3. PICK m \in M : \A x \in M : m <= x
  BY <1>2, LeastNatural
<1>4. PICK hi \in K : m = n - hi
  BY <1>3
<1>5. \A j \in K : j <= hi
  BY <1>3, <1>4
<1> QED BY <1>1, <1>5

LEMMA TrimmedEncodes ==
  ASSUME NEW s, NEW b, Encodes(s, b)
  PROVE  Encodes(Trimmed(s), Trimmed(b))
<1>1. s \in Seq(Char) /\ b \in Seq(Byte)
  BY DEF Encodes
<1>2. PICK f : Ends(s, b, f)
  BY DEF Encodes
<1> DEFINE n == Len(s)  N == Len(b)
           K == {i \in 1 .. n : s[i] \notin Blank}
<1>3. Blank \in SUBSET Ascii
  BY DEF Blank, Ascii
<1>4. n \in Nat /\ N \in Nat
  BY <1>1
<1>5. CASE K = {}
  <2>1. \A k \in 1 .. n : s[k] \in Blank /\ s[k] \in Ascii
    BY <1>3, <1>5
  <2>2. b = s
    BY <2>1, AsciiSame
  <2>3. Trimmed(s) = << >> /\ Trimmed(b) = << >>
    BY <1>1, <2>1, <2>2, TrimmedBlank
  <2>4. Encodes(<< >>, << >>)
    <3>1. << >> \in Seq(Char) /\ \A k \in 1 .. Len(<< >>) : << >>[k] \in Ascii
      OBVIOUS
    <3> QED BY <3>1, AsciiEncodes
  <2> QED BY <2>3, <2>4
<1>6. CASE K # {}
  <2>1. PICK lo, hi \in K : \A j \in K : lo <= j /\ j <= hi
    BY <1>4, <1>6, FirstAndLast
  <2> HIDE DEF n
  <2>2. /\ lo \in 1 .. n /\ hi \in 1 .. n /\ s[lo] \notin Blank /\ s[hi] \notin Blank
        /\ \A j \in 1 .. n : s[j] \notin Blank => lo <= j /\ j <= hi
    BY <2>1
  <2> HIDE DEF K
  <2>3. Trimmed(s) = SubSeq(s, lo, hi)
    BY <1>1, <2>2, TrimmedIs DEF n
  <2> DEFINE p == f[lo - 1] + 1  q == f[hi]
  <2>4. /\ p \in f[lo - 1] + 1 .. f[lo] /\ q \in f[hi - 1] + 1 .. f[hi]
        /\ p \in 1 .. N /\ q \in 1 .. N
    BY <1>1, <1>2, <2>2, LastByte DEF n
  <2>5. b[p] \notin Blank /\ b[q] \notin Blank
    <3>1. b[p] \in Blank <=> s[lo] \in Blank
      <4> HIDE DEF p
      <4> QED BY <1>1, <1>2, <1>3, <2>2, <2>4, AsciiAt DEF n
    <3>2. b[q] \in Blank <=> s[hi] \in Blank
      BY Zenon, <1>1, <1>2, <1>3, <2>2, <2>4, AsciiAt DEF n
    <3> QED BY Zenon, <2>2, <3>1, <3>2
  <2>6. ASSUME NEW j \in 1 .. N, b[j] \notin Blank PROVE p <= j /\ j <= q
    <3>1. PICK k \in 1 .. n : f[k - 1] < j /\ j <= f[k]
      BY <1>1, <1>2, ByteOfChar DEF n
    <3>2. /\ f[k - 1] \in 0 .. N /\ f[k] \in 0 .. N
          /\ f[lo - 1] \in 0 .. N /\ f[hi] \in 0 .. N
          /\ \A x, y \in 0 .. n : x <= y => f[x] <= f[y]
      BY <1>1, <1>2, <2>2, EndsGrow DEF n
    <3>3. j \in f[k - 1] + 1 .. f[k]
      BY <1>4, <3>1, <3>2
    <3>4. s[k] \notin Blank
      BY Zenon, <1>1, <1>2, <1>3, <2>6, <3>3, AsciiAt DEF n
    <3>5. lo <= k /\ k <= hi
      BY <2>2, <3>4
    <3>6. lo - 1 \in 0 .. n /\ k - 1 \in 0 .. n /\ lo - 1 <= k - 1 /\ k \in 0 .. n /\ hi \in 0 .. n
      BY <1>4, <2>2, <3>5
    <3>7. f[lo - 1] <= f[k - 1] /\ f[k] <= f[hi]
      BY Zenon, <3>2, <3>5, <3>6
    <3> QED BY <1>4, <3>1, <3>2, <3>7
  <2>7. Trimmed(b) = SubSeq(b, p, q)
    BY <1>1, <2>4, <2>5, <2>6, TrimmedIs
  <2>8. lo - 1 \in 0 .. n /\ hi \in lo - 1 .. n /\ lo - 1 + 1 = lo
    <3>1. lo <= hi
      BY <2>2
    <3> QED BY <1>4, <2>2, <3>1
  <2>9. Encodes(SubSeq(s, lo - 1 + 1, hi), SubSeq(b, f[lo - 1] + 1, f[hi]))
    <3> DEFINE i == lo - 1
    <3> HIDE DEF i
    <3>1. i \in 0 .. n /\ hi \in i .. n
      BY <2>8 DEF i
    <3>2. Encodes(SubSeq(s, i + 1, hi), SubSeq(b, f[i] + 1, f[hi]))
      BY <1>1, <1>2, <3>1, PartEncodes DEF n
    <3> QED BY <3>2 DEF i
  <2> QED BY Zenon, <2>3, <2>7, <2>8, <2>9
<1> QED BY <1>5, <1>6

LEMMA TailIsSubSeq ==
  ASSUME NEW S, NEW q \in Seq(S), q # << >>
  PROVE  Tail(q) = SubSeq(q, 2, Len(q))
BY SMT

LEMMA FirstAscii ==
  ASSUME NEW s, NEW b, Encodes(s, b), s # << >>, NEW A \in SUBSET Ascii
  PROVE  /\ b[1] \in A <=> s[1] \in A
         /\ s[1] \in A => Encodes(Tail(s), Tail(b))
<1>1. s \in Seq(Char) /\ b \in Seq(Byte)
  BY DEF Encodes
<1>2. PICK f : Ends(s, b, f)
  BY DEF Encodes
<1>3. Len(s) \in Nat /\ Len(b) \in Nat /\ 1 \in 1 .. Len(s) /\ 1 - 1 = 0 /\ 0 + 1 = 1
  BY <1>1
<1>4. f[0] = 0 /\ f[Len(s)] = Len(b)
  BY <1>2 DEF Ends
<1>5. 1 \in f[1 - 1] + 1 .. f[1] /\ 1 \in 1 .. Len(b)
  <2>1. /\ f[1 - 1] + 1 \in f[1 - 1] + 1 .. f[1]
        /\ f[1 - 1] + 1 \in 1 .. Len(b)
    BY Zenon, <1>1, <1>2, <1>3, LastByte
  <2> QED BY <1>3, <1>4, <2>1
<1>6. /\ b[1] \in A <=> s[1] \in A
      /\ s[1] \in A => f[1] = 1
  BY <1>1, <1>2, <1>3, <1>5, AsciiAt
<1>7. ASSUME s[1] \in A PROVE Encodes(Tail(s), Tail(b))
  <2>1. 1 \in 0 .. Len(s) /\ Len(s) \in 1 .. Len(s)
    BY <1>3
  <2>2. Encodes(SubSeq(s, 1 + 1, Len(s)), SubSeq(b, f[1] + 1, f[Len(s)]))
    BY <1>1, <1>2, <2>1, PartEncodes
  <2>3. f[1] + 1 = 2 /\ 1 + 1 = 2
    BY <1>6, <1>7
  <2>4. Encodes(SubSeq(s, 2, Len(s)), SubSeq(b, 2, Len(b)))
    BY Zenon, <1>4, <2>2, <2>3
  <2>5. Tail(s) = SubSeq(s, 2, Len(s)) /\ Tail(b) = SubSeq(b, 2, Len(b))
    <3>1. s # << >> /\ b # << >>
      BY <1>5
    <3>2. \A S : \A q \in Seq(S) : q # << >> => Tail(q) = SubSeq(q, 2, Len(q))
      BY TailIsSubSeq
    <3> QED BY <1>1, <3>1, <3>2
  <2> QED BY Zenon, <2>4, <2>5
<1> QED BY <1>6, <1>7

\* Both find the same number, or neither does.
LEMMA NumbersTogether ==
  ASSUME NEW s, NEW b, Encodes(s, b)
  PROVE  /\ IsNumber(s) <=> IsNumber(b)
         /\ Negative(s) <=> Negative(b)
         /\ IsNumber(s) => Unsigned(s) = Unsigned(b)
<1> DEFINE u == Trimmed(s)  d == Trimmed(b)
<1>1. Encodes(u, d)
  BY TrimmedEncodes
<1>2. u = << >> <=> d = << >>
  BY <1>1, EmptyTogether
<1> HIDE DEF u, d
<1>3. {43, 45} \in SUBSET Ascii /\ {45} \in SUBSET Ascii /\ 48 .. 57 \in SUBSET Ascii
  BY DEF Ascii
<1>4. Negative(s) <=> Negative(b)
  <2>1. u # << >> => (d[1] \in {45} <=> u[1] \in {45})
    <3> DEFINE A == {45}
    <3>1. A \in SUBSET Ascii
      BY <1>3
    <3> HIDE DEF A
    <3>2. u # << >> => (d[1] \in A <=> u[1] \in A)
      BY <1>1, <3>1, FirstAscii
    <3> QED BY Zenon, <3>2 DEF A
  <2> QED BY <1>2, <2>1 DEF Negative, u, d
<1>5. Encodes(Unsigned(s), Unsigned(b))
  <2>1. u # << >> => /\ d[1] \in {43, 45} <=> u[1] \in {43, 45}
                     /\ u[1] \in {43, 45} => Encodes(Tail(u), Tail(d))
    <3> DEFINE A == {43, 45}
    <3>1. A \in SUBSET Ascii
      BY <1>3
    <3> HIDE DEF A
    <3>2. u # << >> => /\ d[1] \in A <=> u[1] \in A
                       /\ u[1] \in A => Encodes(Tail(u), Tail(d))
      BY <1>1, <3>1, FirstAscii
    <3> QED BY Zenon, <3>2 DEF A
  <2>2. /\ Unsigned(s) = IF u # << >> /\ u[1] \in {43, 45} THEN Tail(u) ELSE u
        /\ Unsigned(b) = IF d # << >> /\ d[1] \in {43, 45} THEN Tail(d) ELSE d
    BY DEF Unsigned, u, d
  <2> QED BY Zenon, <1>1, <1>2, <2>1, <2>2
<1> DEFINE x == Unsigned(s)  y == Unsigned(b)
<1>6. x = << >> <=> y = << >>
  BY <1>5, EmptyTogether
<1>7. x \in Seq(Char) /\ y \in Seq(Byte)
  BY <1>5 DEF Encodes
<1> HIDE DEF x, y
<1>8. \A c \in 48 .. 57 : c \in Ascii
  BY <1>3
<1>9. DOMAIN x = 1 .. Len(x) /\ DOMAIN y = 1 .. Len(y)
  BY <1>7
<1>10. ASSUME \A i \in DOMAIN x : x[i] \in 48 .. 57 PROVE x = y
  BY <1>5, <1>8, <1>9, <1>10, AsciiSame DEF x, y
<1>11. ASSUME \A i \in DOMAIN y : y[i] \in 48 .. 57 PROVE x = y
  BY <1>5, <1>8, <1>9, <1>11, AsciiBytes DEF x, y
<1> QED BY <1>4, <1>6, <1>10, <1>11 DEF IsNumber, x, y

\* Wrapping takes a multiple of the modulus away.
LEMMA Multiples ==
  ASSUME NEW M \in Nat, NEW a \in Int, NEW b \in Int, a >= b + 1
  PROVE  M * a >= M * b + M
<1>1. PICK k \in Nat : a = b + 1 + k
  <2>1. a - b - 1 \in Nat /\ a = b + 1 + (a - b - 1)
    OBVIOUS
  <2> QED BY <2>1
<1>2. M * k \in Nat /\ M * b \in Int
  OBVIOUS
<1>3. M * (b + 1 + k) = M * b + M + M * k
  OBVIOUS
<1> QED BY <1>1, <1>2, <1>3

LEMMA Remainder ==
  ASSUME NEW M \in Nat, M > 0, NEW x \in Int, NEW q \in Int, NEW r \in 0 .. M - 1, x = M * q + r
  PROVE  x % M = r
<1> DEFINE d == x \div M  e == x % M
<1>1. d \in Int /\ e \in 0 .. M - 1 /\ x = M * d + e
  BY SMT
<1> HIDE DEF d, e
<1>2. M * d \in Int /\ M * q \in Int
  BY <1>1
<1>3. ~(d >= q + 1)
  <2>1. ASSUME d >= q + 1 PROVE FALSE
    <3>1. M * d >= M * q + M
      BY <1>1, <2>1, Multiples
    <3> QED BY <1>1, <1>2, <3>1
  <2> QED BY <2>1
<1>4. ~(q >= d + 1)
  <2>1. ASSUME q >= d + 1 PROVE FALSE
    <3>1. M * q >= M * d + M
      BY <1>1, <2>1, Multiples
    <3> QED BY <1>1, <1>2, <3>1
  <2> QED BY <2>1
<1>5. d = q
  BY <1>1, <1>3, <1>4
<1>6. e = r
  BY <1>1, <1>2, <1>5
<1> QED BY <1>6 DEF e

I64 == -HalfRange .. HalfRange - 1
LEMMA WrapType ==
  ASSUME NEW x \in Int
  PROVE  Wrap(x) \in I64 /\ \E q \in Int : Wrap(x) = x + (2 * HalfRange) * q
<1> DEFINE M == 2 * HalfRange  z == x + HalfRange
<1>1. M \in Nat /\ M > 0 /\ z \in Int /\ HalfRange \in Nat
  BY RangeAssumption
<1>2. M = 2 * HalfRange /\ z = x + HalfRange
  OBVIOUS
<1> HIDE DEF M, z
<1> DEFINE d == z \div M  e == z % M
<1>3. d \in Int /\ e \in 0 .. M - 1 /\ z = M * d + e
  BY SMT, <1>1
<1>4. Wrap(x) = e - HalfRange
  BY DEF Wrap, M, z
<1> HIDE DEF d, e
<1>5. Wrap(x) \in I64
  BY <1>1, <1>2, <1>3, <1>4 DEF I64
<1>6. M * d \in Int /\ M * (-d) = -(M * d) /\ -d \in Int
  BY <1>1, <1>3
<1>7. Wrap(x) = x + M * (-d)
  BY <1>1, <1>2, <1>3, <1>4, <1>6
<1> QED BY <1>2, <1>5, <1>6, <1>7

LEMMA WrapIs ==
  ASSUME NEW x \in Int, NEW y \in I64, NEW q \in Int, y = x + (2 * HalfRange) * q
  PROVE  Wrap(x) = y
<1> DEFINE M == 2 * HalfRange  z == x + HalfRange  r == y + HalfRange
<1>1. M \in Nat /\ M > 0 /\ z \in Int /\ HalfRange \in Nat /\ r \in 0 .. M - 1
  BY RangeAssumption DEF I64
<1>2. M = 2 * HalfRange /\ z = x + HalfRange /\ r = y + HalfRange /\ y = x + M * q
  OBVIOUS
<1> HIDE DEF M, z, r
<1>3. M * q \in Int /\ M * (-q) = -(M * q) /\ -q \in Int
  BY <1>1
<1>4. z = M * (-q) + r
  BY <1>1, <1>2, <1>3
<1>5. z % M = r
  BY <1>1, <1>3, <1>4, Remainder
<1>6. Wrap(x) = (z % M) - HalfRange
  BY DEF Wrap, M, z
<1>7. y \in Int
  BY <1>1 DEF I64
<1> QED BY <1>1, <1>2, <1>5, <1>6, <1>7

LEMMA WrapId ==
  ASSUME NEW x \in I64
  PROVE  x \in Int /\ Wrap(x) = x
<1>1. x \in Int /\ HalfRange \in Int
  BY RangeAssumption DEF I64
<1>2. x = x + (2 * HalfRange) * 0
  BY <1>1
<1> QED BY <1>1, <1>2, WrapIs

LEMMA WrapShift ==
  ASSUME NEW x \in Int, NEW y \in Int, NEW q \in Int, y = x + (2 * HalfRange) * q
  PROVE  Wrap(x) = Wrap(y)
<1> DEFINE M == 2 * HalfRange
<1>1. M \in Int
  BY RangeAssumption
<1>2. PICK p \in Int : Wrap(y) = y + M * p
  BY WrapType
<1>3. Wrap(y) \in I64
  BY WrapType
<1>4. y = x + M * q
  OBVIOUS
<1> HIDE DEF M
<1>5. M * p \in Int /\ M * q \in Int /\ M * (p + q) = M * p + M * q /\ p + q \in Int
  BY <1>1
<1>6. Wrap(y) = x + M * (p + q)
  BY <1>2, <1>4, <1>5
<1> QED BY <1>3, <1>5, <1>6, WrapIs DEF M

\* Wrapping early changes nothing in the end.
LEMMA WrapEarly ==
  ASSUME NEW x \in Int, NEW d \in Int
  PROVE  /\ Wrap(Wrap(x) * 10 + d) = Wrap(x * 10 + d)
         /\ Wrap(-Wrap(x)) = Wrap(-x)
         /\ Wrap(Wrap(x)) = Wrap(x)
<1> DEFINE M == 2 * HalfRange  w == Wrap(x)
<1>1. M \in Int
  BY RangeAssumption
<1>2. w \in I64 /\ w \in Int
  BY WrapType, WrapId
<1>3. PICK q \in Int : w = x + M * q
  BY WrapType
<1> HIDE DEF M, w
<1>4. M * q \in Int /\ M * (q * 10) = (M * q) * 10 /\ M * (-q) = -(M * q) /\ q * 10 \in Int /\ -q \in Int
  BY <1>1
<1>5. w * 10 + d = (x * 10 + d) + M * (q * 10)
  BY <1>3, <1>4
<1>6. -w = -x + M * (-q)
  BY <1>3, <1>4
<1>7. x * 10 + d \in Int /\ w * 10 + d \in Int /\ -x \in Int /\ -w \in Int
  BY <1>2
<1>8. Wrap(x * 10 + d) = Wrap(w * 10 + d)
  BY <1>4, <1>5, <1>7, WrapShift DEF M
<1>9. Wrap(-x) = Wrap(-w)
  BY <1>4, <1>6, <1>7, WrapShift DEF M
<1>10. Wrap(w) = w
  BY <1>2, WrapId
<1> QED BY <1>8, <1>9, <1>10 DEF w

\* What the loop over the digits has added up, exactly and wrapped each time.
ExactLoop(acc, q) == acc = [i \in 0 .. Len(q) |-> IF i = 0 THEN 0 ELSE acc[i - 1] * 10 + (q[i] - 48)]
WrapLoop(acc, q) ==
  acc = [i \in 0 .. Len(q) |-> IF i = 0 THEN 0 ELSE Wrap(acc[i - 1] * 10 + (q[i] - 48))]
Exact(q) == (CHOOSE acc : ExactLoop(acc, q))[Len(q)]
Wrapping(q) == (CHOOSE acc : WrapLoop(acc, q))[Len(q)]
Adds(acc, q) == acc[0] = 0 /\ \A i \in 1 .. Len(q) : acc[i] = acc[i - 1] * 10 + (q[i] - 48)

LEMMA Readings ==
  ASSUME NEW s
  PROVE  /\ _str_to_int(s) = Wrap(IF Negative(s) THEN -Exact(Unsigned(s)) ELSE Exact(Unsigned(s)))
         /\ cl_convert__str_to_int(s)
              = Wrap(IF Negative(s) THEN -Wrapping(Unsigned(s)) ELSE Wrapping(Unsigned(s)))
<1>1. _str_to_int(s) = Wrap(IF Negative(s) THEN -Exact(Unsigned(s)) ELSE Exact(Unsigned(s)))
  BY Zenon DEF _str_to_int, Exact, ExactLoop
<1>2. cl_convert__str_to_int(s)
        = Wrap(IF Negative(s) THEN -Wrapping(Unsigned(s)) ELSE Wrapping(Unsigned(s)))
  BY Zenon DEF cl_convert__str_to_int, Wrapping, WrapLoop
<1> QED BY <1>1, <1>2

LEMMA ExactExists ==
  ASSUME NEW q \in Seq(Int)
  PROVE  \E g \in [0 .. Len(q) -> Int] : ExactLoop(g, q)
<1> DEFINE N == Len(q)
           d == [n \in 1 .. N |-> [x \in Int |-> x * 10 + (q[n] - 48)]]
<1>1. N \in Nat /\ \A n \in 1 .. N : q[n] \in Int
  OBVIOUS
<1> HIDE DEF N
<1>2. d \in [1 .. N -> [Int -> Int]]
  BY <1>1
<1>3. PICK g : Iterates(g, d, 0, N, Int)
  <2> HIDE DEF d
  <2>1. 0 \in Int
    OBVIOUS
  <2> QED BY <1>1, <1>2, <2>1, Iteration DEF IsStep
<1>4. g \in [0 .. N -> Int] /\ g[0] = 0
  BY <1>3 DEF Iterates
<1>5. ASSUME NEW n \in 1 .. N PROVE g[n] = g[n - 1] * 10 + (q[n] - 48)
  <2>1. g[n - 1] \in Int
    BY <1>1, <1>4
  <2>2. g[n] = d[n][g[n - 1]]
    BY <1>3 DEF Iterates
  <2> QED BY <2>1, <2>2
<1>6. g = [i \in 0 .. N |-> IF i = 0 THEN 0 ELSE g[i - 1] * 10 + (q[i] - 48)]
  <2>1. \A i \in 0 .. N : g[i] = IF i = 0 THEN 0 ELSE g[i - 1] * 10 + (q[i] - 48)
    <3>1. \A i \in 0 .. N : i = 0 \/ i \in 1 .. N
      BY <1>1
    <3> QED BY Zenon, <1>4, <1>5, <3>1
  <2> QED BY Zenon, <1>4, <2>1
<1> QED BY Zenon, <1>4, <1>6 DEF ExactLoop, N

LEMMA WrapExists ==
  ASSUME NEW q \in Seq(Int)
  PROVE  \E g \in [0 .. Len(q) -> Int] : WrapLoop(g, q)
<1> DEFINE N == Len(q)
           d == [n \in 1 .. N |-> [x \in Int |-> Wrap(x * 10 + (q[n] - 48))]]
<1>1. N \in Nat /\ \A n \in 1 .. N : q[n] \in Int
  OBVIOUS
<1> HIDE DEF N
<1>2. d \in [1 .. N -> [Int -> Int]]
  <2>1. ASSUME NEW n \in 1 .. N, NEW x \in Int PROVE Wrap(x * 10 + (q[n] - 48)) \in Int
    <3>1. x * 10 + (q[n] - 48) \in Int
      BY <1>1
    <3> QED BY Zenon, <3>1, WrapType, WrapId
  <2> QED BY <2>1
<1>3. PICK g : Iterates(g, d, 0, N, Int)
  <2> HIDE DEF d
  <2>1. 0 \in Int
    OBVIOUS
  <2> QED BY <1>1, <1>2, <2>1, Iteration DEF IsStep
<1>4. g \in [0 .. N -> Int] /\ g[0] = 0
  BY <1>3 DEF Iterates
<1>5. ASSUME NEW n \in 1 .. N PROVE g[n] = Wrap(g[n - 1] * 10 + (q[n] - 48))
  <2>1. g[n - 1] \in Int
    BY <1>1, <1>4
  <2>2. g[n] = d[n][g[n - 1]]
    BY <1>3 DEF Iterates
  <2> QED BY <2>1, <2>2
<1>6. g = [i \in 0 .. N |-> IF i = 0 THEN 0 ELSE Wrap(g[i - 1] * 10 + (q[i] - 48))]
  <2>1. \A i \in 0 .. N : g[i] = IF i = 0 THEN 0 ELSE Wrap(g[i - 1] * 10 + (q[i] - 48))
    <3>1. \A i \in 0 .. N : i = 0 \/ i \in 1 .. N
      BY <1>1
    <3> QED BY Zenon, <1>4, <1>5, <3>1
  <2> QED BY Zenon, <1>4, <2>1
<1> QED BY Zenon, <1>4, <1>6 DEF WrapLoop, N

LEMMA AddsOnce ==
  ASSUME NEW q, Len(q) \in Nat, NEW g, NEW h, Adds(g, q), Adds(h, q)
  PROVE  \A i \in 0 .. Len(q) : g[i] = h[i]
<1> DEFINE N == Len(q)
           T == {i \in Nat : i <= N => g[i] = h[i]}
<1>1. 0 \in T
  BY DEF Adds
<1>2. ASSUME NEW i \in Nat, i \in T PROVE i + 1 \in T
  <2> SUFFICES ASSUME i + 1 <= N PROVE g[i + 1] = h[i + 1]
    OBVIOUS
  <2>1. i + 1 \in 1 .. N /\ i + 1 - 1 = i /\ g[i] = h[i]
    BY <1>2
  <2> DEFINE j == i + 1
  <2>2. g[j] = g[j - 1] * 10 + (q[j] - 48) /\ h[j] = h[j - 1] * 10 + (q[j] - 48)
    BY <2>1 DEF Adds
  <2>3. j - 1 = i
    BY <2>1
  <2> HIDE DEF j
  <2>4. g[j] = h[j]
    BY Zenon, <2>1, <2>2, <2>3
  <2> QED BY <2>4 DEF j
<1> HIDE DEF T
<1>3. Nat \subseteq T
  BY <1>1, <1>2, NaturalInduction
<1> QED BY <1>3 DEF T

LEMMA ExactAdds ==
  ASSUME NEW q \in Seq(Int)
  PROVE  Adds(CHOOSE acc : ExactLoop(acc, q), q) /\ Exact(q) \in Int
<1> DEFINE A == CHOOSE acc : ExactLoop(acc, q)
           N == Len(q)
<1>1. PICK g \in [0 .. N -> Int] : ExactLoop(g, q)
  BY ExactExists
<1>2. ExactLoop(A, q)
  BY Zenon, <1>1
<1> HIDE DEF A
<1>3. N \in Nat /\ \A i \in 1 .. N : i \in 0 .. N /\ i # 0
  OBVIOUS
<1>4. ASSUME NEW x, ExactLoop(x, q) PROVE Adds(x, q)
  <2>1. 0 \in 0 .. N
    BY <1>3
  <2>2. x[0] = 0
    BY Zenon, <1>4, <2>1 DEF ExactLoop
  <2>3. \A i \in 1 .. N : x[i] = x[i - 1] * 10 + (q[i] - 48)
    BY Zenon, <1>3, <1>4 DEF ExactLoop
  <2> QED BY Zenon, <2>2, <2>3 DEF Adds
<1>5. Adds(A, q) /\ Adds(g, q)
  BY <1>1, <1>2, <1>4
<1>6. A[N] = g[N]
  BY <1>3, <1>5, AddsOnce
<1>7. A[N] \in Int
  BY <1>1, <1>3, <1>6
<1> QED BY Zenon, <1>5, <1>7 DEF A, Exact

LEMMA WrappingIs ==
  ASSUME NEW q \in Seq(Int)
  PROVE  Wrapping(q) = Wrap(Exact(q))
<1> DEFINE A == CHOOSE acc : WrapLoop(acc, q)
           E == CHOOSE acc : ExactLoop(acc, q)
           N == Len(q)
<1>0. N \in Nat /\ \A i \in 1 .. N : q[i] \in Int
  OBVIOUS
<1>1. WrapLoop(A, q)
  BY Zenon, WrapExists
<1>2. PICK g \in [0 .. N -> Int] : ExactLoop(g, q)
  BY ExactExists
<1>3. ExactLoop(E, q) /\ Wrapping(q) = A[N] /\ Exact(q) = E[N]
  BY Zenon, <1>2 DEF Wrapping, Exact
<1> HIDE DEF A, E, N
<1>4. 0 \in 0 .. N /\ N \in 0 .. N /\ \A i \in 1 .. N : i \in 0 .. N /\ i # 0
  BY <1>0
<1>5. A[0] = 0 /\ \A i \in 1 .. N : A[i] = Wrap(A[i - 1] * 10 + (q[i] - 48))
  BY Zenon, <1>1, <1>4 DEF WrapLoop, N
<1>6. /\ g[0] = 0 /\ \A i \in 1 .. N : g[i] = g[i - 1] * 10 + (q[i] - 48)
      /\ E[0] = 0 /\ \A i \in 1 .. N : E[i] = E[i - 1] * 10 + (q[i] - 48)
  BY Zenon, <1>2, <1>3, <1>4 DEF ExactLoop, N
<1> DEFINE T == {i \in Nat : i <= N => A[i] = Wrap(g[i])}
<1>7. 0 \in T
  <2>1. 0 \in I64
    BY RangeAssumption DEF I64
  <2>2. Wrap(0) = 0
    BY <2>1, WrapId
  <2> QED BY <1>5, <1>6, <2>2
<1>8. ASSUME NEW i \in Nat, i \in T PROVE i + 1 \in T
  <2> SUFFICES ASSUME i + 1 <= N PROVE A[i + 1] = Wrap(g[i + 1])
    OBVIOUS
  <2> DEFINE j == i + 1
  <2>1. j \in 1 .. N /\ j - 1 = i /\ i \in 0 .. N /\ A[i] = Wrap(g[i])
    BY <1>0, <1>8
  <2> HIDE DEF j, T
  <2>2. g[i] \in Int /\ q[j] - 48 \in Int
    BY <1>0, <1>2, <2>1
  <2>3. Wrap(Wrap(g[i]) * 10 + (q[j] - 48)) = Wrap(g[i] * 10 + (q[j] - 48))
    BY Zenon, <2>2, WrapEarly
  <2>4. A[j] = Wrap(g[j])
    BY Zenon, <1>5, <1>6, <2>1, <2>3
  <2> QED BY <2>4 DEF j
<1> HIDE DEF T
<1>9. N \in T
  BY <1>0, <1>7, <1>8, NaturalInduction
<1>10. A[N] = Wrap(g[N])
  BY <1>0, <1>9 DEF T
<1>11. E[N] = g[N]
  <2>1. Adds(E, q) /\ Adds(g, q)
    BY Zenon, <1>6 DEF Adds, N
  <2> QED BY <1>0, <1>4, <2>1, AddsOnce DEF N
<1> QED BY Zenon, <1>3, <1>10, <1>11

LEMMA ReadingsAgree ==
  ASSUME NEW s, Unsigned(s) \in Seq(Int)
  PROVE  cl_convert__str_to_int(s) = _str_to_int(s) /\ _str_to_int(s) \in I64
<1> DEFINE q == Unsigned(s)
           x == Exact(q)
           w == Wrapping(q)
           i == _str_to_int(s)
           c == cl_convert__str_to_int(s)
           minus == Negative(s)
<1>1. x \in Int /\ w = Wrap(x)
  BY ExactAdds, WrappingIs
<1>2. i = Wrap(IF minus THEN -x ELSE x) /\ c = Wrap(IF minus THEN -w ELSE w)
  BY Zenon, Readings
<1> HIDE DEF x, w, i, c, minus
<1>3. Wrap(-w) = Wrap(-x) /\ Wrap(w) = Wrap(x)
  BY Zenon, <1>1, WrapEarly
<1>4. -x \in Int
  BY <1>1
<1>5. Wrap(-x) \in I64 /\ Wrap(x) \in I64
  BY Zenon, <1>1, <1>4, WrapType
<1>6. CASE minus
  <2>1. i = Wrap(-x) /\ c = Wrap(-w)
    BY Zenon, <1>2, <1>6
  <2> QED BY Zenon, <1>3, <1>5, <2>1 DEF i, c
<1>7. CASE ~minus
  <2>1. i = Wrap(x) /\ c = Wrap(w)
    BY Zenon, <1>2, <1>7
  <2> QED BY Zenon, <1>3, <1>5, <2>1 DEF i, c
<1> QED BY Zenon, <1>6, <1>7

\* How a number is spelled: the function that int_to_str looks its digits up in.
Digit == 48 .. 57
SpellLoop(h) ==
  h = [n \in 0 .. MaxU |-> IF n < 10 THEN <<48 + n>> ELSE h[n \div 10] \o <<48 + (n % 10)>>]
Spelled == CHOOSE h : SpellLoop(h)
Spells(q, n) == q \in Seq(Digit) /\ q # << >> /\ \A g : Adds(g, q) => g[Len(q)] = n

LEMMA SpellingIs ==
  ASSUME NEW v
  PROVE  int_to_str(v) = IF v < 0 THEN <<45>> \o Spelled[-v] ELSE Spelled[v]
BY Zenon DEF int_to_str, Spelled, SpellLoop

LEMMA TenDigits ==
  ASSUME NEW n \in Nat
  PROVE  /\ n % 10 \in 0 .. 9 /\ n \div 10 \in Nat /\ n = (n \div 10) * 10 + (n % 10)
         /\ n >= 1 => n \div 10 \in 0 .. n - 1
         /\ n >= 10 => n \div 10 \in 1 .. n - 1
OBVIOUS

LEMMA SpelledExists == \E h : SpellLoop(h)
<1> DEFINE N == MaxU
           S == Seq(Digit)
           c == <<48>>
           grown(n, r) == IF n < 10 THEN <<48 + n>> ELSE r \o <<48 + (n % 10)>>
           d == [n \in 1 .. N |-> [r \in S |-> grown(n, r)]]
           p == [n \in 1 .. N |-> n \div 10]
<1>1. N \in Nat
  BY RangeAssumption DEF MaxU
<1> HIDE DEF N
<1>2. c \in S
  BY DEF Digit
<1>3. ASSUME NEW n \in 1 .. N, NEW r \in S PROVE grown(n, r) \in S
  <2>1. n \in Nat /\ n % 10 \in 0 .. 9
    BY <1>1, TenDigits
  <2>2. CASE n < 10
    <3>1. 48 + n \in Digit
      BY <2>1, <2>2 DEF Digit
    <3>2. <<48 + n>> \in S
      BY <3>1
    <3> QED BY <2>2, <3>2
  <2>3. CASE ~(n < 10)
    <3>1. 48 + (n % 10) \in Digit
      BY <2>1 DEF Digit
    <3>2. <<48 + (n % 10)>> \in S
      BY <3>1
    <3>3. r \o <<48 + (n % 10)>> \in S
      BY <3>2
    <3> QED BY <2>3, <3>3
  <2> QED BY <2>2, <2>3
<1>4. \A n \in 1 .. N : p[n] \in 0 .. n - 1
  BY <1>1, TenDigits
<1>5. \A n \in 1 .. N : p[n] = n \div 10
  OBVIOUS
<1> HIDE DEF S, c, grown, p
<1>6. d \in [1 .. N -> [S -> S]]
  BY <1>3
<1>7. \A n \in 1 .. N : \A r \in S : d[n][r] = grown(n, r)
  OBVIOUS
<1> HIDE DEF d
<1>8. PICK h : Recurs(h, p, d, c, N, S)
  BY <1>1, <1>2, <1>4, <1>6, Recursion DEF IsStep
<1>9. h \in [0 .. N -> S] /\ h[0] = c /\ \A n \in 1 .. N : h[n] = d[n][h[p[n]]]
  BY <1>8 DEF Recurs
<1>10. ASSUME NEW n \in 1 .. N PROVE h[n] = grown(n, h[n \div 10])
  <2>1. p[n] \in 0 .. N
    BY <1>1, <1>4
  <2>2. h[p[n]] \in S
    BY <1>9, <2>1
  <2>3. h[n] = grown(n, h[p[n]])
    BY <1>7, <1>9, <2>2
  <2> QED BY Zenon, <1>5, <2>3
<1>11. \A n \in 0 .. N : h[n] = grown(n, h[n \div 10])
  <2> SUFFICES ASSUME NEW n \in 0 .. N PROVE h[n] = grown(n, h[n \div 10])
    OBVIOUS
  <2>1. CASE n = 0
    BY <1>9, <2>1 DEF grown, c
  <2>2. CASE n # 0
    <3>1. n \in 1 .. N
      BY <1>1, <2>2
    <3> QED BY <1>10, <3>1
  <2> QED BY <2>1, <2>2
<1>12. h = [n \in 0 .. N |-> grown(n, h[n \div 10])]
  BY Zenon, <1>9, <1>11
<1>13. SpellLoop(h)
  BY Zenon, <1>12 DEF SpellLoop, N, grown
<1> QED BY <1>13

LEMMA SpellOne ==
  ASSUME NEW n \in 0 .. 9
  PROVE  Spells(<<48 + n>>, n)
<1> DEFINE q == <<48 + n>>
<1>1. q \in Seq(Digit) /\ q # << >> /\ Len(q) = 1 /\ q[1] = 48 + n
  BY DEF Digit
<1> HIDE DEF q
<1>2. ASSUME NEW g, Adds(g, q) PROVE g[Len(q)] = n
  <2>1. g[0] = 0 /\ g[1] = g[1 - 1] * 10 + (q[1] - 48)
    <3>1. 1 \in 1 .. Len(q)
      BY <1>1
    <3> QED BY Zenon, <1>2, <3>1 DEF Adds
  <2> QED BY <1>1, <2>1
<1> QED BY Zenon, <1>1, <1>2 DEF Spells, q

LEMMA SpellNext ==
  ASSUME NEW q, NEW n \in Nat, Spells(q, n), NEW d \in 0 .. 9
  PROVE  Spells(q \o <<48 + d>>, n * 10 + d)
<1> DEFINE e == <<48 + d>>
           r == q \o e
           L == Len(q)
<1>1. q \in Seq(Digit) /\ q # << >> /\ \A g : Adds(g, q) => g[L] = n
  BY DEF Spells
<1>2. e \in Seq(Digit) /\ Len(e) = 1 /\ e[1] = 48 + d
  BY DEF Digit
<1> HIDE DEF e
<1>3. /\ r \in Seq(Digit) /\ Len(r) = L + Len(e)
      /\ \A i \in 1 .. L : r[i] = q[i]
      /\ \A i \in 1 .. Len(e) : r[L + i] = e[i]
  <2>1. q \in Seq(Digit) /\ e \in Seq(Digit)
    BY Zenon, <1>1, <1>2
  <2> QED BY <2>1, Joined
<1>4. L \in Nat /\ Len(r) = L + 1 /\ r[L + 1] = 48 + d
  BY <1>1, <1>2, <1>3
<1> HIDE DEF r, L
<1>5. r # << >>
  BY <1>4
<1>6. ASSUME NEW g, Adds(g, r) PROVE g[Len(r)] = n * 10 + d
  <2>1. \A i \in 1 .. L : i \in 1 .. Len(r)
    BY <1>4
  <2>2. g[0] = 0 /\ \A i \in 1 .. L : g[i] = g[i - 1] * 10 + (q[i] - 48)
    BY Zenon, <1>3, <1>6, <2>1 DEF Adds
  <2>3. g[L] = n
    BY Zenon, <1>1, <2>2 DEF Adds, L
  <2> DEFINE m == L + 1
  <2>4. m \in 1 .. Len(r) /\ m - 1 = L /\ Len(r) = m
    BY <1>4
  <2>5. r[m] - 48 = d
    BY <1>4
  <2> HIDE DEF m
  <2>6. g[m] = g[m - 1] * 10 + (r[m] - 48)
    BY Zenon, <1>6, <2>4 DEF Adds
  <2> QED BY Zenon, <2>3, <2>4, <2>5, <2>6
<1> QED BY Zenon, <1>3, <1>5, <1>6 DEF Spells, r, e

LEMMA SpelledSpells ==
  ASSUME NEW n \in 0 .. MaxU
  PROVE  Spells(Spelled[n], n)
<1> DEFINE N == MaxU
           T == {k \in Nat : \A i \in 0 .. N : i <= k => Spells(Spelled[i], i)}
<1>1. N \in Nat
  BY RangeAssumption DEF MaxU
<1>2. SpellLoop(Spelled)
  BY Zenon, SpelledExists DEF Spelled
<1>3. \A i \in 0 .. N : Spelled[i] = IF i < 10 THEN <<48 + i>> ELSE Spelled[i \div 10] \o <<48 + (i % 10)>>
  BY Zenon, <1>2 DEF SpellLoop
<1> HIDE DEF N
<1>4. ASSUME NEW i \in 0 .. N, i < 10 PROVE Spells(Spelled[i], i)
  <2>1. i \in 0 .. 9
    BY <1>1, <1>4
  <2>2. Spelled[i] = <<48 + i>>
    BY <1>3, <1>4
  <2> QED BY Zenon, <2>1, <2>2, SpellOne
<1>5. 0 \in T
  <2>1. \A i \in 0 .. N : i <= 0 => i < 10
    BY <1>1
  <2> QED BY <1>4, <2>1
<1>6. ASSUME NEW k \in Nat, k \in T PROVE k + 1 \in T
  <2> SUFFICES ASSUME NEW i \in 0 .. N, i <= k + 1 PROVE Spells(Spelled[i], i)
    OBVIOUS
  <2>1. CASE i < 10
    BY <1>4, <2>1
  <2>2. CASE ~(i < 10)
    <3> DEFINE j == i \div 10
               d == i % 10
    <3>0. i \in Nat /\ i >= 10
      BY <1>1, <2>2
    <3>1. j \in 1 .. i - 1 /\ d \in 0 .. 9 /\ i = j * 10 + d
      BY <3>0, TenDigits
    <3>2. Spelled[i] = Spelled[j] \o <<48 + d>>
      BY Zenon, <1>3, <2>2
    <3> HIDE DEF j, d
    <3>3. j \in 0 .. N /\ j <= k /\ j \in Nat
      BY <1>1, <3>0, <3>1
    <3>4. Spells(Spelled[j], j)
      BY <1>6, <3>3
    <3>5. Spells(Spelled[j] \o <<48 + d>>, j * 10 + d)
      BY Zenon, <3>1, <3>3, <3>4, SpellNext
    <3> QED BY Zenon, <3>1, <3>2, <3>5
  <2> QED BY <2>1, <2>2
<1> HIDE DEF T
<1>7. n \in Nat /\ n \in T
  <2>1. n \in Nat
    BY <1>1 DEF N
  <2> QED BY <1>5, <1>6, <2>1, NaturalInduction
<1> QED BY <1>7 DEF T, N

\* What a spelled number looks like, and that it is read back.
ReadsBack(s, v) ==
  /\ s \in Seq(Char) /\ \A k \in 1 .. Len(s) : s[k] \in Ascii
  /\ IsNumber(s)
  /\ _str_to_int(s) = v /\ cl_convert__str_to_int(s) = v

LEMMA NotTrimmed ==
  ASSUME NEW s \in Seq(Int), s # << >>, \A k \in 1 .. Len(s) : s[k] \notin Blank
  PROVE  Trimmed(s) = s
<1>1. Len(s) \in Nat /\ 1 \in 1 .. Len(s) /\ Len(s) \in 1 .. Len(s)
  OBVIOUS
<1>2. \A j \in 1 .. Len(s) : 1 <= j /\ j <= Len(s)
  OBVIOUS
<1>3. Trimmed(s) = SubSeq(s, 1, Len(s))
  BY Zenon, <1>1, <1>2, TrimmedIs
<1>4. SubSeq(s, 1, Len(s)) = s
  OBVIOUS
<1> QED BY <1>3, <1>4

LEMMA DigitsRead ==
  ASSUME NEW q, NEW n \in Nat, Spells(q, n)
  PROVE  /\ q \in Seq(Int) /\ q # << >> /\ \A i \in DOMAIN q : q[i] \in 48 .. 57
         /\ Exact(q) = n
<1>1. q \in Seq(Digit) /\ q # << >> /\ \A g : Adds(g, q) => g[Len(q)] = n
  BY DEF Spells
<1>2. q \in Seq(Int)
  BY <1>1 DEF Digit
<1>3. Adds(CHOOSE acc : ExactLoop(acc, q), q)
  BY Zenon, <1>2, ExactAdds
<1>4. Exact(q) = n
  BY Zenon, <1>1, <1>3 DEF Exact
<1> QED BY <1>1, <1>2, <1>4 DEF Digit

LEMMA AsciiChar ==
  ASSUME NEW x \in Ascii
  PROVE  x \in Char
<1>1. x \in Nat /\ x <= 127
  BY DEF Ascii
<1>2. x \in CodePoint
  BY SMT, <1>1 DEF CodePoint
<1>3. Scalar(x)
  BY SMT, <1>1 DEF Scalar
<1> QED BY Zenon, <1>2, <1>3 DEF Char

LEMMA SpelledAscii ==
  ASSUME NEW x \in {45} \cup 48 .. 57
  PROVE  x \notin Blank /\ x \in Ascii
BY DEF Blank, Ascii

LEMMA AsciiText ==
  ASSUME NEW s \in Seq(Int), \A k \in 1 .. Len(s) : s[k] \in Ascii
  PROVE  s \in Seq(Char)
<1>1. \A k \in 1 .. Len(s) : s[k] \in Char
  BY AsciiChar
<1> QED BY <1>1

\* A minus sign, when there is one, and digits.
Signed(minus, q) == IF minus THEN <<45>> \o q ELSE q

LEMMA SignedRead ==
  ASSUME NEW s, NEW q, NEW n \in Nat, Spells(q, n), NEW minus \in BOOLEAN,
         s = Signed(minus, q), NEW v \in I64, v = (IF minus THEN -n ELSE n)
  PROVE  ReadsBack(s, v)
<1>1. /\ q \in Seq(Int) /\ q # << >> /\ \A i \in DOMAIN q : q[i] \in 48 .. 57
      /\ Exact(q) = n
  BY Zenon, DigitsRead
<1>2. /\ s \in Seq(Int) /\ s # << >> /\ \A k \in 1 .. Len(s) : s[k] \in {45} \cup 48 .. 57
      /\ (s[1] = 45) <=> minus
      /\ minus => Tail(s) = q
  <2>1. CASE minus
    <3> DEFINE e == <<45>>
    <3>1. e \in Seq(Int) /\ Len(e) = 1 /\ e[1] = 45
      OBVIOUS
    <3>2. s = e \o q
      BY Zenon, <2>1 DEF Signed
    <3> HIDE DEF e
    <3>3. /\ e \o q \in Seq(Int) /\ Len(e \o q) = Len(e) + Len(q)
          /\ \A i \in 1 .. Len(e) : (e \o q)[i] = e[i]
          /\ \A i \in 1 .. Len(q) : (e \o q)[Len(e) + i] = q[i]
      <4>1. q \in Seq(Int) /\ e \in Seq(Int)
        BY Zenon, <1>1, <3>1
      <4> QED BY <4>1, Joined
    <3>4. Len(q) \in Nat /\ Len(s) = 1 + Len(q) /\ s[1] = 45 /\ s \in Seq(Int) /\ s # << >>
      BY <1>1, <3>1, <3>2, <3>3
    <3>5. \A i \in 1 .. Len(q) : s[1 + i] = q[i] /\ s[1 + i] \in 48 .. 57
      BY SMTT(30), <1>1, <3>1, <3>2, <3>3
    <3>6. ASSUME NEW k \in 1 .. Len(s) PROVE s[k] \in {45} \cup 48 .. 57
      <4>1. CASE k = 1
        BY <3>4, <4>1
      <4>2. CASE k # 1
        <5>1. k - 1 \in 1 .. Len(q) /\ 1 + (k - 1) = k
          BY <3>4, <4>2
        <5>2. s[1 + (k - 1)] \in 48 .. 57
          BY Zenon, <3>5, <5>1
        <5> QED BY <5>1, <5>2
      <4> QED BY <4>1, <4>2
    <3>7. Tail(s) = q
      <4>1. Tail(s) \in Seq(Int) /\ Len(Tail(s)) = Len(q)
        BY <3>4
      <4>2. \A i \in 1 .. Len(q) : Tail(s)[i] = q[i]
        BY <3>4, <3>5
      <4> QED BY SMTT(30), <1>1, <4>1, <4>2
    <3> QED BY <2>1, <3>4, <3>6, <3>7
  <2>2. CASE ~minus
    <3>1. s = q
      BY Zenon, <2>2 DEF Signed
    <3>2. \A k \in 1 .. Len(s) : s[k] \in 48 .. 57
      BY <1>1, <3>1
    <3>3. s[1] \in 48 .. 57
      BY <1>1, <3>1, <3>2
    <3>4. s[1] # 45 /\ s \in Seq(Int) /\ s # << >>
      BY <1>1, <3>1, <3>3
    <3>5. \A k \in 1 .. Len(s) : s[k] \in {45} \cup 48 .. 57
      BY <3>2
    <3> QED BY Zenon, <2>2, <3>4, <3>5
  <2> QED BY <2>1, <2>2
<1>3. \A k \in 1 .. Len(s) : s[k] \notin Blank /\ s[k] \in Ascii
  BY Zenon, <1>2, SpelledAscii
<1>4. Trimmed(s) = s
  BY <1>2, <1>3, NotTrimmed
<1>5. Negative(s) <=> minus
  BY Zenon, <1>2, <1>4 DEF Negative
<1>6. Unsigned(s) = q
  <2>1. s[1] \in {43, 45} <=> minus
    <3>1. s[1] \in {45} \cup 48 .. 57
      BY <1>2
    <3> QED BY <1>2, <3>1
  <2>2. CASE minus
    BY Zenon, <1>2, <1>4, <2>1, <2>2 DEF Unsigned
  <2>3. CASE ~minus
    <3>1. s = q
      BY Zenon, <2>3 DEF Signed
    <3> QED BY Zenon, <1>4, <2>1, <2>3, <3>1 DEF Unsigned
  <2> QED BY <2>2, <2>3
<1>7. IsNumber(s)
  BY Zenon, <1>1, <1>6 DEF IsNumber
<1>8. _str_to_int(s) = v
  <2>1. _str_to_int(s) = Wrap(IF minus THEN -n ELSE n)
    BY Zenon, <1>1, <1>5, <1>6, Readings
  <2>2. _str_to_int(s) = Wrap(v)
    BY Zenon, <2>1
  <2> QED BY Zenon, <2>2, WrapId
<1>9. cl_convert__str_to_int(s) = v
  BY Zenon, <1>1, <1>6, <1>8, ReadingsAgree
<1>10. s \in Seq(Char)
  BY Zenon, <1>2, <1>3, AsciiText
<1> QED BY Zenon, <1>3, <1>7, <1>8, <1>9, <1>10 DEF ReadsBack

\* The least number too, whose digits alone are out of range.
LEMMA NumberRead ==
  ASSUME NEW v \in I64
  PROVE  ReadsBack(int_to_str(v), v)
<1> DEFINE n == IF v < 0 THEN -v ELSE v
           minus == v < 0
<1>1. v \in Int /\ n \in 0 .. MaxU /\ n \in Nat /\ v = IF minus THEN -n ELSE n
  BY RangeAssumption DEF I64, MaxU
<1>2. int_to_str(v) = Signed(minus, Spelled[n])
  BY Zenon, SpellingIs DEF Signed
<1>3. minus \in BOOLEAN
  OBVIOUS
<1> HIDE DEF n, minus
<1>4. Spells(Spelled[n], n)
  BY Zenon, <1>1, SpelledSpells
<1> QED BY Zenon, <1>1, <1>2, <1>3, <1>4, SignedRead

\* The offset of the n-th character is where it ends, or the end.
LEMMA OffsetIs ==
  ASSUME NEW s \in Seq(Char), NEW b \in Seq(Byte), NEW f, Ends(s, b, f), NEW n \in Nat
  PROVE  Offset(b, n) = f[Least(n, Len(s))]
<1>1. f[0] = 0 /\ f[Len(s)] = Len(b)
  BY Zenon DEF Ends
<1>2. Len(Decoded(b)) = Len(s) /\ \A k \in 1 .. Len(s) : Decoded(b)[k] = [cp |-> s[k], end |-> f[k]]
  BY Zenon, CharsAre
<1> DEFINE N == Len(s)
           D == Decoded(b)
<1>3. N \in Nat
  OBVIOUS
<1> HIDE DEF N, D
<1>4. CASE n = 0
  <2>1. Least(n, N) = 0
    BY <1>3, <1>4 DEF Least
  <2> QED BY Zenon, <1>1, <1>4, <2>1 DEF Offset, N
<1>5. CASE n # 0 /\ n <= N
  <2>1. Least(n, N) = n /\ n \in 1 .. N
    BY <1>3, <1>5 DEF Least
  <2>2. D[n].end = f[n]
    <3>1. D[n] = [cp |-> s[n], end |-> f[n]]
      BY Zenon, <1>2, <2>1 DEF D, N
    <3> QED BY <3>1
  <2> QED BY Zenon, <1>2, <1>5, <2>1, <2>2 DEF Offset, N, D
<1>6. CASE n # 0 /\ ~(n <= N)
  <2>1. Least(n, N) = N
    BY <1>3, <1>6 DEF Least
  <2> QED BY Zenon, <1>1, <1>2, <1>6, <2>1 DEF Offset, N, D
<1> QED BY <1>4, <1>5, <1>6

\* Position and count are any u64: their sum may be out of range, and what is
\* asked for may lie beyond the end.
LEMMA SubstrEncodes ==
  ASSUME NEW s, NEW b, Encodes(s, b), Len(s) <= MaxU,
         NEW start \in 0 .. MaxU, NEW count \in 0 .. MaxU
  PROVE  Encodes(_substr(s, start, count), cl_strings__substr(b, start, count))
<1>1. s \in Seq(Char) /\ b \in Seq(Byte)
  BY Zenon DEF Encodes
<1>2. PICK f : Ends(s, b, f)
  BY Zenon DEF Encodes
<1> DEFINE N == Len(s)
           e == IF start + count > MaxU THEN MaxU ELSE start + count
           i == Least(start, N)
           j == Least(start + count, N)
<1>3. N \in Nat /\ N <= MaxU /\ start \in Nat /\ count \in Nat
  BY <1>1
<1>4. /\ e \in Nat /\ Least(e, N) = j /\ i \in 0 .. N /\ j \in i .. N
      /\ i = start \/ (i = N /\ j = N /\ start > N)
  <2>1. /\ e = IF start + count > MaxU THEN MaxU ELSE start + count
        /\ i = Least(start, N) /\ j = Least(start + count, N)
    BY Zenon
  <2>2. MaxU \in Nat
    BY RangeAssumption DEF MaxU
  <2> HIDE DEF N, e, i, j
  <2>3. e \in Nat /\ e <= MaxU /\ (e = start + count \/ (e = MaxU /\ start + count > MaxU))
    BY <1>3, <2>1, <2>2
  <2>4. i \in 0 .. N /\ (i = start \/ (i = N /\ start > N))
    BY <1>3, <2>1 DEF Least
  <2>5. j \in 0 .. N /\ (j = start + count \/ (j = N /\ start + count > N))
    BY <1>3, <2>1 DEF Least
  <2>6. Least(e, N) = j
    BY <1>3, <2>1, <2>2, <2>3 DEF Least
  <2>7. i <= j /\ (i = start \/ j = N)
    BY <1>3, <2>4, <2>5
  <2> QED BY <1>3, <2>3, <2>4, <2>5, <2>6, <2>7
<1>5. Offset(b, start) = f[i] /\ Offset(b, e) = f[j]
  <2> HIDE DEF e
  <2>1. Offset(b, start) = f[Least(start, Len(s))]
    BY ZenonT(30), <1>1, <1>2, <1>3, OffsetIs
  <2>2. Offset(b, e) = f[Least(e, Len(s))]
    BY ZenonT(30), <1>1, <1>2, <1>4, OffsetIs
  <2> QED BY Zenon, <1>4, <2>1, <2>2
<1>6. /\ f[i] \in 0 .. Len(b) /\ f[j] \in f[i] .. Len(b)
      /\ Encodes(SubSeq(s, i + 1, j), SubSeq(b, f[i] + 1, f[j]))
  BY Zenon, <1>1, <1>2, <1>4, PartEncodes
<1>7. cl_strings__substr(b, start, count) = SubSeq(b, f[i] + 1, IF f[j] < f[i] THEN f[i] ELSE f[j])
  BY Zenon, <1>5 DEF cl_strings__substr
<1>8. _substr(s, start, count) = SubSeq(s, start + 1, j)
  BY Zenon DEF _substr
<1> HIDE DEF N, e, i, j
<1>9. cl_strings__substr(b, start, count) = SubSeq(b, f[i] + 1, f[j])
  <2>1. ~(f[j] < f[i])
    <3>1. Len(b) \in Nat
      BY <1>1
    <3> QED BY <1>6, <3>1
  <2> QED BY Zenon, <1>7, <2>1
<1>10. SubSeq(s, start + 1, j) = SubSeq(s, i + 1, j)
  <2>1. CASE i = start
    BY <2>1
  <2>2. CASE i = N /\ j = N /\ start > N
    <3>1. SubSeq(s, start + 1, N) = << >> /\ SubSeq(s, N + 1, N) = << >>
      BY <1>1, <1>3, <2>2
    <3> QED BY Zenon, <2>2, <3>1
  <2> QED BY <1>4, <2>1, <2>2
<1> QED BY Zenon, <1>6, <1>8, <1>9, <1>10

\* ---------------------------------------------------------------- the invariant
\* The bytes of each string are those of its characters.
StrInv ==
  /\ text \in [Strings -> Seq(Char)] /\ bytes \in [Strings -> Seq(Byte)]
  /\ \A x \in Strings : Encodes(text[x], bytes[x]) /\ Len(text[x]) <= MaxLen
  /\ panicked \in {{}, {"text", "bytes"}}

LEMMA EmptyEncodes == Encodes(<< >>, << >>)
<1>1. << >> \in Seq(Char) /\ \A k \in 1 .. Len(<< >>) : << >>[k] \in Ascii
  OBVIOUS
<1> QED BY <1>1, AsciiEncodes

LEMMA StrInit == Init => StrInv
<1> SUFFICES ASSUME Init PROVE StrInv
  OBVIOUS
<1>1. \A x \in Strings : text[x] = << >> /\ bytes[x] = << >>
  BY DEF Init
<1>2. text \in [Strings -> Seq(Char)] /\ bytes \in [Strings -> Seq(Byte)]
  BY DEF Init
<1>3. Len(<< >>) <= MaxLen
  BY LengthAssumption
<1>4. panicked = {}
  BY DEF Init
<1> QED BY Zenon, <1>1, <1>2, <1>3, <1>4, EmptyEncodes DEF StrInv

LEMMA AssignKeeps ==
  ASSUME StrInv, NEW x \in Strings, NEW t, NEW b, Encodes(t, b), Assign(x, t, b)
  PROVE  StrInv'
<1>1. /\ text \in [Strings -> Seq(Char)] /\ bytes \in [Strings -> Seq(Byte)]
      /\ \A y \in Strings : Encodes(text[y], bytes[y]) /\ Len(text[y]) <= MaxLen
      /\ panicked \in {{}, {"text", "bytes"}}
  BY Zenon DEF StrInv
<1>2. t \in Seq(Char) /\ b \in Seq(Byte)
  BY Zenon DEF Encodes
<1>3. /\ Len(t) <= MaxLen /\ text' = [text EXCEPT ![x] = t] /\ bytes' = [bytes EXCEPT ![x] = b]
      /\ panicked' = panicked
  BY Zenon DEF Assign
<1>4. text' \in [Strings -> Seq(Char)] /\ bytes' \in [Strings -> Seq(Byte)]
  BY Zenon, <1>1, <1>2, <1>3
<1>5. \A y \in Strings : /\ text'[y] = IF y = x THEN t ELSE text[y]
                         /\ bytes'[y] = IF y = x THEN b ELSE bytes[y]
  BY Zenon, <1>1, <1>3
<1>6. \A y \in Strings : Encodes(text'[y], bytes'[y]) /\ Len(text'[y]) <= MaxLen
  <2> SUFFICES ASSUME NEW y \in Strings
               PROVE  Encodes(text'[y], bytes'[y]) /\ Len(text'[y]) <= MaxLen
    BY Zenon
  <2>1. CASE y = x
    BY Zenon, <1>3, <1>5, <2>1
  <2>2. CASE y # x
    BY Zenon, <1>1, <1>5, <2>2
  <2> QED BY Zenon, <2>1, <2>2
<1> QED BY Zenon, <1>1, <1>3, <1>4, <1>6 DEF StrInv

LEMMA PanicKeeps ==
  ASSUME StrInv, Panics({"text", "bytes"})
  PROVE  StrInv'
BY Zenon DEF StrInv, Panics

LEMMA ValueEncodes ==
  ASSUME NEW v \in Nat, Scalar(v)
  PROVE  Encodes(<<v>>, utf8_encode(v))
<1> DEFINE e == utf8_encode(v)
           s == <<v>>
           n == Len(e)
           f == [k \in 0 .. 1 |-> IF k = 0 THEN 0 ELSE n]
<1>1. v \in CodePoint /\ v \in Char
  <2>1. v \in CodePoint
    BY SMT DEF Scalar, CodePoint
  <2> QED BY Zenon, <2>1 DEF Char
<1>2. e \in Seq(Byte) /\ Len(e) \in 1 .. 4
  BY Zenon, <1>1, EncodingType
<1>3. s \in Seq(Char) /\ Len(s) = 1 /\ s[1] = v
  BY <1>1
<1>4. f \in [0 .. 1 -> 0 .. n] /\ f[0] = 0 /\ f[1] = n
  <2>1. n \in Nat
    BY <1>2
  <2> HIDE DEF n, e
  <2> QED BY <2>1
<1> HIDE DEF f
<1>5. \A k \in 1 .. Len(s) : k = 1 /\ k - 1 = 0
  BY <1>3
<1>6. n = 0 + n /\ \A j \in 1 .. n : 0 + j = j
  <2>1. n \in Nat
    BY <1>2
  <2> QED BY <2>1
<1> HIDE DEF s, e, n
<1>7. \A k \in 1 .. Len(s) : /\ f[k] = f[k - 1] + n
                             /\ \A j \in 1 .. n : e[f[k - 1] + j] = e[j]
  BY Zenon, <1>4, <1>5, <1>6
<1>8. Ends(s, e, f)
  BY ZenonT(30), <1>3, <1>4, <1>5, <1>7 DEF Ends, e, n
<1> QED BY Zenon, <1>2, <1>3, <1>8 DEF Encodes, s, e

LEMMA FromCharKeeps ==
  ASSUME StrInv, NEW v \in Values, FromChar(v)
  PROVE  StrInv'
<1>1. v \in Nat
  BY ArgumentsAssumption
<1>2. CASE Scalar(v)
  <2>1. Assign("t", <<v>>, utf8_encode(v))
    BY Zenon, <1>2 DEF FromChar
  <2> QED BY <1>1, <1>2, <2>1, ValueEncodes, AssignKeeps DEF Strings
<1>3. CASE ~Scalar(v)
  BY Zenon, <1>3, PanicKeeps DEF FromChar
<1> QED BY <1>2, <1>3

LEMMA ConcatKeeps ==
  ASSUME StrInv, Concat
  PROVE  StrInv'
<1>1. Encodes(text["s"], bytes["s"]) /\ Encodes(text["t"], bytes["t"])
  BY Zenon DEF StrInv, Strings
<1>2. Encodes(text["s"] \o text["t"], bytes["s"] \o bytes["t"])
  BY <1>1, JoinedEncodes
<1>3. Assign("s", text["s"] \o text["t"], bytes["s"] \o bytes["t"])
  BY Zenon DEF Concat
<1> QED BY <1>2, <1>3, AssignKeeps DEF Strings

LEMMA SubstrKeeps ==
  ASSUME StrInv, NEW x \in Strings, NEW start \in Counts, NEW count \in Counts,
         Substr(x, start, count)
  PROVE  StrInv'
<1>1. Encodes(text["s"], bytes["s"]) /\ Len(text["s"]) <= MaxLen /\ text["s"] \in Seq(Char)
  BY Zenon DEF StrInv, Strings, Encodes
<1>2. Len(text["s"]) <= MaxU
  <2>1. MaxLen \in Int /\ MaxU \in Int /\ MaxLen <= MaxU
    BY RangeAssumption, LengthAssumption DEF MaxU
  <2> QED BY <1>1, <2>1
<1>3. start \in 0 .. MaxU /\ count \in 0 .. MaxU
  BY ArgumentsAssumption
<1>4. Encodes(_substr(text["s"], start, count), cl_strings__substr(bytes["s"], start, count))
  BY <1>1, <1>2, <1>3, SubstrEncodes
<1>5. Assign(x, _substr(text["s"], start, count), cl_strings__substr(bytes["s"], start, count))
  BY Zenon DEF Substr
<1> QED BY <1>4, <1>5, AssignKeeps

LEMMA SpellingEncodes ==
  ASSUME NEW v \in I64
  PROVE  Encodes(int_to_str(v), int_to_str(v))
<1>1. ReadsBack(int_to_str(v), v)
  BY NumberRead
<1> QED BY <1>1, AsciiEncodes DEF ReadsBack

LEMMA IntToStrKeeps ==
  ASSUME StrInv, NEW v \in Numbers, IntToStr(v)
  PROVE  StrInv'
<1>1. v \in I64
  BY ArgumentsAssumption DEF I64
<1>2. Encodes(int_to_str(v), int_to_str(v))
  BY <1>1, SpellingEncodes
<1>3. Assign("t", int_to_str(v), int_to_str(v))
  BY Zenon DEF IntToStr
<1> QED BY <1>2, <1>3, AssignKeeps DEF Strings

\* What the digits of a number are to the one, they are to the other.
LEMMA ReadTogether ==
  ASSUME NEW s, NEW b, Encodes(s, b), IsNumber(s)
  PROVE  cl_convert__str_to_int(b) = _str_to_int(s) /\ _str_to_int(s) \in I64
<1>1. (Negative(s) <=> Negative(b)) /\ Unsigned(s) = Unsigned(b)
  BY Zenon, NumbersTogether
<1>2. Unsigned(s) \in Seq(Int)
  <2>1. Encodes(Trimmed(s), Trimmed(b))
    BY TrimmedEncodes
  <2>2. Trimmed(s) \in Seq(Char)
    BY Zenon, <2>1 DEF Encodes
  <2>3. \A x \in Char : x \in Int
    BY DEF Char, CodePoint
  <2>4. Trimmed(s) \in Seq(Int)
    BY <2>2, <2>3
  <2>5. Trimmed(s) # << >> => Tail(Trimmed(s)) \in Seq(Int)
    BY <2>4
  <2> QED BY Zenon, <2>4, <2>5 DEF Unsigned
<1>3. cl_convert__str_to_int(s) = _str_to_int(s) /\ _str_to_int(s) \in I64
  BY Zenon, <1>2, ReadingsAgree
<1>4. cl_convert__str_to_int(b) = cl_convert__str_to_int(s)
  BY Zenon, <1>1, Readings
<1> QED BY Zenon, <1>3, <1>4

LEMMA StrToIntKeeps ==
  ASSUME StrInv, StrToInt
  PROVE  StrInv'
<1> DEFINE s == text["s"]
           b == bytes["s"]
<1>1. Encodes(s, b)
  BY Zenon DEF StrInv, Strings
<1>2. IsNumber(s) <=> IsNumber(b)
  BY <1>1, NumbersTogether
<1> DEFINE who == {w \in {"text", "bytes"} : ~IsNumber(IF w = "text" THEN s ELSE b)}
<1>3. CASE IsNumber(s)
  <2>1. who = {}
    BY <1>2, <1>3
  <2>2. Assign("t", int_to_str(_str_to_int(s)), int_to_str(cl_convert__str_to_int(b)))
    BY Zenon, <2>1 DEF StrToInt
  <2>3. cl_convert__str_to_int(b) = _str_to_int(s) /\ _str_to_int(s) \in I64
    BY Zenon, <1>1, <1>3, ReadTogether
  <2> DEFINE t == int_to_str(_str_to_int(s))
  <2>4. Encodes(t, t)
    BY Zenon, <2>3, SpellingEncodes
  <2>5. Assign("t", t, t)
    BY Zenon, <2>2, <2>3
  <2> HIDE DEF t
  <2> QED BY <2>4, <2>5, AssignKeeps DEF Strings
<1>4. CASE ~IsNumber(s)
  <2>1. who = {"text", "bytes"}
    BY <1>2, <1>4
  <2>2. Panics(who)
    BY Zenon, <2>1 DEF StrToInt
  <2> QED BY Zenon, <2>1, <2>2, PanicKeeps
<1> QED BY <1>3, <1>4

LEMMA StrStep == StrInv /\ [Next]_vars => StrInv'
<1> SUFFICES ASSUME StrInv, [Next]_vars PROVE StrInv'
  OBVIOUS
<1>1. ASSUME NEW v \in Values, FromChar(v) PROVE StrInv'
  BY <1>1, FromCharKeeps
<1>2. CASE Concat
  BY <1>2, ConcatKeeps
<1>3. ASSUME NEW x \in Strings, NEW start \in Counts, NEW count \in Counts, Substr(x, start, count)
      PROVE  StrInv'
  BY <1>3, SubstrKeeps
<1>4. ASSUME NEW v \in Numbers, IntToStr(v) PROVE StrInv'
  BY <1>4, IntToStrKeeps
<1>5. CASE StrToInt
  BY <1>5, StrToIntKeeps
<1>6. CASE UNCHANGED vars
  BY Zenon, <1>6 DEF vars, StrInv
<1> QED BY Zenon, <1>1, <1>2, <1>3, <1>4, <1>5, <1>6 DEF Next

LEMMA StrAlways == Spec => []StrInv
<1> QED BY StrInit, StrStep, PTL DEF Spec

\* ------------------------------------------------------------------ the theorems
\* Whatever was cut, joined or converted, both have the same characters, as many
\* of them, call the same strings equal, and panic together.
THEOREM StringsAlwaysAgree == Spec => []StringsAgree
<1>1. StrInv => StringsAgree
  <2> SUFFICES ASSUME StrInv PROVE StringsAgree
    OBVIOUS
  <2>1. \A x \in Strings : Encodes(text[x], bytes[x])
    BY Zenon DEF StrInv
  <2>2. ASSUME NEW x \in Strings
        PROVE  cl_strings__chars(bytes[x]) = text[x] /\ cl_str_len(bytes[x]) = Len(text[x])
    <3>1. text[x] \in Seq(Char) /\ bytes[x] \in Seq(Byte)
      BY Zenon, <2>1 DEF Encodes
    <3>2. PICK f : Ends(text[x], bytes[x], f)
      BY Zenon, <2>1 DEF Encodes
    <3> QED BY Zenon, <3>1, <3>2, CharsAre, LengthIs
  <2> DEFINE s == text["s"]
             t == text["t"]
             b == bytes["s"]
             c == bytes["t"]
  <2>3. /\ s \in Seq(Char) /\ t \in Seq(Char) /\ b \in Seq(Byte) /\ c \in Seq(Byte)
        /\ \E f : Ends(s, b, f)
        /\ \E g : Ends(t, c, g)
    BY Zenon, <2>1 DEF Strings, Encodes
  <2>4. cl_strings__eq(b, c) <=> b = c
    <3>1. cl_strings__eq(b, c) <=> Len(b) = Len(c) /\ \A i \in DOMAIN b : b[i] = c[i]
      BY Zenon DEF cl_strings__eq
    <3> HIDE DEF b, c
    <3> QED BY <2>3, <3>1
  <2>5. s = t => b = c
    BY Zenon, <2>3, SameBytes
  <2>6. b = c => s = t
    <3>1. cl_strings__chars(b) = s /\ cl_strings__chars(c) = t
      BY Zenon, <2>2 DEF Strings
    <3> QED BY Zenon, <3>1
  <2>7. panicked \in {{}, {"text", "bytes"}}
    BY Zenon DEF StrInv
  <2> QED BY Zenon, <2>2, <2>4, <2>5, <2>6, <2>7 DEF StringsAgree
<1> QED BY <1>1, StrAlways, PTL

\* No operation cuts a code point or leaves bytes that are not UTF-8.
THEOREM AlwaysWellFormed == Spec => []WellFormed
<1>1. StrInv => WellFormed
  BY Zenon, TextWellFormed DEF StrInv, WellFormed
<1> QED BY <1>1, StrAlways, PTL

\* The order that strutil takes from characters is that of the bytes.
THEOREM OrdersAlwaysAgree == Spec => []OrderOfBytes
<1>1. StrInv => OrderOfBytes
  <2> SUFFICES ASSUME StrInv PROVE OrderOfBytes
    OBVIOUS
  <2>1. Encodes(text["s"], bytes["s"]) /\ Encodes(text["t"], bytes["t"])
    BY Zenon DEF StrInv, Strings
  <2> QED BY Zenon, <2>1, OrdersAgree DEF OrderOfBytes
<1> QED BY <1>1, StrAlways, PTL

\* Wherever the spelling of a number stands, both read the number back.
THEOREM NumbersAlwaysReadBack == Spec => []NumbersReadBack
<1>1. StrInv => NumbersReadBack
  <2> SUFFICES ASSUME StrInv, NEW x \in Strings, NEW v \in Numbers, text[x] = int_to_str(v)
               PROVE  cl_convert__str_to_int(bytes[x]) = v /\ _str_to_int(text[x]) = v
    BY Zenon DEF NumbersReadBack
  <2>1. v \in I64
    BY ArgumentsAssumption DEF I64
  <2>2. ReadsBack(text[x], v)
    BY Zenon, <2>1, NumberRead
  <2>3. Encodes(text[x], bytes[x])
    BY Zenon DEF StrInv
  <2>4. bytes[x] = text[x]
    BY Zenon, <2>2, <2>3, AsciiSame DEF ReadsBack
  <2> QED BY Zenon, <2>2, <2>4 DEF ReadsBack
<1> QED BY <1>1, StrAlways, PTL
=============================================================================
