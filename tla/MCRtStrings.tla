---------------------------- MODULE MCRtStrings ----------------------------
(* Six-bit numbers; the code points at which encodings get longer, those next *)
(* to the surrogates, and a blank; and what chr turns down. Signs and digits  *)
(* come from numbers.                                                         *)
EXTENDS RtStrings

MCValues ==
  {32, 127, 128, 2047, 2048, 55295, 57344, 65535, 65536, 1114111}
    \cup {55296, 57343, 1114112}
MCNumbers == {-32, -7, 0, 31}
MCCounts == {0, 1, 2, 63}
=============================================================================
