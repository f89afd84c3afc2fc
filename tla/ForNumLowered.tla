--------------------------- MODULE ForNumLowered ---------------------------
(***************************************************************************)
(* The numeric for loop as compiler/lower.cardinal compiles it: a hidden   *)
(* counter of the index type drives the loop and is copied into the user's *)
(* index at the top of each iteration; bound and step are copied into      *)
(* temporaries at entry. The counter's addition wraps at the type's width, *)
(* in a `checked' region too. Both back ends execute this code.            *)
(***************************************************************************)
EXTENDS Integers

CONSTANTS
  Starts, Bounds, Strides, Assigned, MaxTrips,  \* see ForNum
  MinInt, MaxInt                                \* range of the index type

ASSUME TypeAssumption ==
  /\ MinInt \in Int /\ MaxInt \in Int /\ MinInt <= 0 /\ 0 <= MaxInt
  /\ Starts \cup Bounds \cup Strides \cup Assigned \subseteq MinInt .. MaxInt
ASSUME MaxTripsAssumption == MaxTrips \in Nat

VARIABLES
  pc,       \* "test", "body", "post" or "done"
  cnt,      \* <var>__cnt, the hidden counter
  stopv,    \* the temporary that holds the bound
  stepv,    \* the temporary that holds the step
  v,        \* the index variable of the program
  bound, stride,  \* the program variables bound and step were read from
  range,    \* the range as evaluated at entry (not in the code)
  trips     \* iterations begun (not in the code)

vars == <<pc, cnt, stopv, stepv, v, bound, stride, range, trips>>

\* Two's-complement arithmetic of the index type.
Wrap(x) == MinInt + ((x - MinInt) % (MaxInt - MinInt + 1))

Init ==
  /\ pc = "test"
  /\ bound \in Bounds /\ stride \in Strides
  /\ \E s \in Starts : range = [start |-> s, stop |-> bound, step |-> stride]
  /\ cnt = range.start
  /\ stopv = bound
  /\ stepv = stride
  /\ v = 0 /\ trips = 0

\* mutant: the bound is read again each time
Continues_LiveBound == cnt < bound
Continues == cnt < stopv

Enter ==
  /\ pc = "test" /\ Continues
  /\ trips < MaxTrips
  /\ pc' = "body"
  /\ v' = cnt
  /\ trips' = trips + 1
  /\ UNCHANGED <<cnt, stopv, stepv, bound, stride, range>>

Assign(x) ==
  /\ pc = "body"
  /\ \/ v' = x /\ UNCHANGED <<bound, stride>>
     \/ bound' = x /\ UNCHANGED <<v, stride>>
     \/ stride' = x /\ UNCHANGED <<v, bound>>
  /\ UNCHANGED <<pc, cnt, stopv, stepv, range, trips>>

EndBody ==
  /\ pc = "body" /\ pc' = "post"
  /\ UNCHANGED <<cnt, stopv, stepv, v, bound, stride, range, trips>>

Break ==
  /\ pc = "body" /\ pc' = "done"
  /\ UNCHANGED <<cnt, stopv, stepv, v, bound, stride, range, trips>>

\* mutant: the index the body has changed is advanced, not the counter
NextCount_OfIndex == Wrap(v + stepv)
\* mutant: the changed index is advanced, outside the type
NextCount_Unwrapped == v + stepv
\* mutant: a continue goes back to the test
NextCount_Same == cnt
NextCount == Wrap(cnt + stepv)

Advance ==
  /\ pc = "post"
  /\ cnt' = NextCount
  /\ pc' = "test"
  /\ UNCHANGED <<stopv, stepv, v, bound, stride, range, trips>>

Exit ==
  /\ pc = "test" /\ ~Continues
  /\ pc' = "done"
  /\ UNCHANGED <<cnt, stopv, stepv, v, bound, stride, range, trips>>

Control == Enter \/ Advance \/ Exit
Next == Control \/ EndBody \/ Break \/ \E x \in Assigned : Assign(x)

\* The loop's own instructions are executed in sequence, and its body ends.
Spec == Init /\ [][Next]_vars /\ WF_vars(Control) /\ WF_vars(EndBody)

-----------------------------------------------------------------------------
(* Properties                                                              *)

\* The counters and the copies stay within the index type.
TypeOK ==
  /\ pc \in {"test", "body", "post", "done"}
  /\ {cnt, stopv, stepv, v, bound, stride} \subseteq MinInt .. MaxInt
  /\ range \in [start : Starts, stop : Bounds, step : Strides]
  /\ trips \in 0 .. MaxTrips

\* "i = 0,1,...,n-1 (HALF-OPEN)": whatever the body assigns, the k-th iteration
\* starts with the k-th number of the range evaluated at entry, and the loop is
\* left at the test exactly when the range is used up.
HalfOpenRange ==
  [][pc = "test" =>
       LET next == range.start + trips * range.step
       IN  IF next < range.stop THEN pc' = "body" /\ v' = next ELSE pc' = "done"]_vars

\* A loop whose body always ends, ends.
LoopEnds == <>(pc = "done")

\* The ranges from which no advance leaves the index type.
RangeFits == \A b \in Bounds, s \in Strides : s > 0 /\ b - 1 + s <= MaxInt

\* The compiled loop is the interpreter's loop, where the range fits the type.
Interpreter == INSTANCE ForNum WITH i <- cnt
ImplementsForNum == Interpreter!Spec
=============================================================================
