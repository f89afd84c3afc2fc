---------------------------- MODULE ForNumProofs ----------------------------
(***************************************************************************)
(* The compiled numeric for loop runs over exactly the range evaluated at  *)
(* entry, and implements the interpreter's loop, for every index type and  *)
(* every body, provided that advancing the counter past the last number of *)
(* the range does not leave the type (RangeFits).                          *)
(***************************************************************************)
EXTENDS ForNumLowered, TLAPS

\* Arithmetic of the type is the integers' arithmetic within the type's range.
LEMMA WrapIdentity ==
  ASSUME NEW x \in MinInt .. MaxInt
  PROVE  Wrap(x) = x
<1> DEFINE d == x - MinInt
           m == MaxInt - MinInt + 1
<1>1. d \in Nat /\ m \in Nat \ {0} /\ d < m
  BY TypeAssumption
<1>2. d % m = d
  <2> HIDE DEF d, m
  <2> QED BY <1>1
<1> QED BY <1>2, TypeAssumption DEF Wrap

\* What holds of the counter at each point of the loop: it is the number of the
\* range that the iterations begun so far lead to, and below the bound inside
\* the body.
CounterInv ==
  /\ stopv = range.stop /\ stepv = range.step
  /\ pc = "test" => cnt = range.start + trips * range.step
  /\ pc \in {"body", "post"} =>
       /\ cnt < range.stop
       /\ cnt + range.step = range.start + trips * range.step

LEMMA InitCounter == Init => TypeOK /\ CounterInv
<1> SUFFICES ASSUME Init PROVE TypeOK /\ CounterInv
  OBVIOUS
<1>1. PICK s \in Starts : range = [start |-> s, stop |-> bound, step |-> stride]
  BY DEF Init
<1>2. {s, bound, stride, 0} \subseteq MinInt .. MaxInt
  BY <1>1, TypeAssumption DEF Init
<1>3. TypeOK
  BY <1>1, <1>2, MaxTripsAssumption DEF Init, TypeOK
<1>4. range.start + 0 * range.step = range.start
  BY <1>1, <1>2, TypeAssumption
<1>5. CounterInv
  BY <1>1, <1>4 DEF Init, CounterInv
<1> QED BY <1>3, <1>5

LEMMA OneMore ==
  ASSUME NEW n \in Int, NEW s \in Int
  PROVE  (n + 1) * s = n * s + s
OBVIOUS

LEMMA RangeInts ==
  ASSUME TypeOK
  PROVE  /\ range.start \in MinInt .. MaxInt /\ range.stop \in MinInt .. MaxInt
         /\ range.step \in MinInt .. MaxInt
         /\ range.stop \in Bounds /\ range.step \in Strides
         /\ trips \in Nat /\ MinInt \in Int /\ MaxInt \in Int
BY TypeAssumption, MaxTripsAssumption DEF TypeOK

\* The advance never wraps.
LEMMA NoWrap ==
  ASSUME TypeOK, CounterInv, RangeFits, pc = "post"
  PROVE  /\ NextCount = cnt + range.step
         /\ cnt + range.step \in MinInt .. MaxInt
<1>1. range.step > 0 /\ range.stop - 1 + range.step <= MaxInt
  BY RangeInts DEF RangeFits
<1>2. cnt \in MinInt .. MaxInt /\ cnt < range.stop /\ stepv = range.step
  BY DEF TypeOK, CounterInv
<1>3. cnt + range.step \in MinInt .. MaxInt
  BY <1>1, <1>2, RangeInts
<1> QED BY <1>2, <1>3, WrapIdentity DEF NextCount

\* Arithmetic of the type stays in the type, whatever its arguments.
LEMMA WrapInType == ASSUME NEW x \in Int PROVE Wrap(x) \in MinInt .. MaxInt
<1> DEFINE d == x - MinInt
           m == MaxInt - MinInt + 1
<1>1. d \in Int /\ m \in Nat \ {0}
  BY TypeAssumption
<1>2. d % m \in 0 .. m - 1
  <2> HIDE DEF d, m
  <2> QED BY <1>1
<1> QED BY <1>2, TypeAssumption DEF Wrap

LEMMA StepType == TypeOK /\ [Next]_vars => TypeOK'
<1> SUFFICES ASSUME TypeOK, [Next]_vars PROVE TypeOK'
  OBVIOUS
<1>1. CASE Enter
  BY <1>1, MaxTripsAssumption DEF TypeOK, Enter
<1>2. CASE Advance
  <2>1. cnt + stepv \in Int
    BY TypeAssumption DEF TypeOK
  <2>2. NextCount \in MinInt .. MaxInt
    BY <2>1, WrapInType DEF NextCount
  <2> QED BY <1>2, <2>2 DEF TypeOK, Advance
<1>3. CASE Exit
  BY <1>3 DEF Exit, TypeOK
<1>4. CASE EndBody
  BY <1>4 DEF EndBody, TypeOK
<1>5. CASE Break
  BY <1>5 DEF Break, TypeOK
<1>6. ASSUME NEW x \in Assigned, Assign(x) PROVE TypeOK'
  BY <1>6, TypeAssumption DEF Assign, TypeOK
<1>7. CASE UNCHANGED vars
  BY <1>7 DEF vars, TypeOK
<1> QED BY <1>1, <1>2, <1>3, <1>4, <1>5, <1>6, <1>7 DEF Next, Control

\* Counter, copies and index never leave the index type, also in a loop whose
\* counter wraps: the type's range is the only assumption.
THEOREM TypeCorrect == Spec => []TypeOK
BY InitCounter, StepType, PTL DEF Spec

LEMMA StepCounter ==
  ASSUME RangeFits, TypeOK, CounterInv, [Next]_vars
  PROVE  CounterInv'
<1> USE RangeInts
<1>1. CASE Enter
  <2>1. (trips + 1) * range.step = trips * range.step + range.step
    BY RangeInts, OneMore
  <2>2. cnt \in Int /\ cnt < range.stop /\ cnt = range.start + trips * range.step
    BY <1>1 DEF TypeOK, Enter, Continues, CounterInv
  <2>3. trips * range.step \in Int
    BY RangeInts
  <2>4. cnt + range.step = range.start + (trips + 1) * range.step
    BY <2>1, <2>2, <2>3, RangeInts
  <2> QED BY <1>1, <2>2, <2>4 DEF Enter, CounterInv
<1>2. CASE Advance
  <2>1. cnt' = cnt + range.step
    BY <1>2, NoWrap DEF Advance
  <2> QED BY <1>2, <2>1 DEF CounterInv, Advance
<1>3. CASE Exit
  BY <1>3 DEF Exit, CounterInv
<1>4. CASE EndBody
  BY <1>4 DEF EndBody, CounterInv
<1>5. CASE Break
  BY <1>5 DEF Break, CounterInv
<1>6. ASSUME NEW x \in Assigned, Assign(x) PROVE CounterInv'
  BY <1>6 DEF Assign, CounterInv
<1>7. CASE UNCHANGED vars
  BY <1>7 DEF vars, CounterInv
<1> QED BY <1>1, <1>2, <1>3, <1>4, <1>5, <1>6, <1>7 DEF Next, Control

\* The counter follows the range evaluated at entry.
THEOREM CounterCorrect == ASSUME RangeFits PROVE Spec => [](TypeOK /\ CounterInv)
<1>1. TypeOK /\ CounterInv /\ [Next]_vars => (TypeOK /\ CounterInv)'
  BY StepCounter, StepType
<1> QED BY <1>1, InitCounter, PTL DEF Spec

\* Every iteration starts with the next number of the range evaluated at entry,
\* and the test ends the loop exactly when the range is used up.
THEOREM LoopRunsOverRange == ASSUME RangeFits PROVE Spec => HalfOpenRange
<1> DEFINE Step ==
      pc = "test" =>
        LET next == range.start + trips * range.step
        IN  IF next < range.stop THEN pc' = "body" /\ v' = next ELSE pc' = "done"
<1>1. ASSUME TypeOK, CounterInv, [Next]_vars PROVE [Step]_vars
  <2> SUFFICES ASSUME Next, pc = "test" PROVE Step
    BY <1>1
  <2>1. cnt = range.start + trips * range.step /\ stopv = range.stop
    BY <1>1 DEF CounterInv
  <2>2. CASE Enter
    BY <2>1, <2>2 DEF Enter, Continues
  <2>3. CASE Exit
    BY <2>1, <2>3 DEF Exit, Continues
  <2> QED BY <2>2, <2>3 DEF Next, Control, Advance, EndBody, Break, Assign
<1>2. TypeOK /\ CounterInv /\ [Next]_vars => [Step]_vars
  BY <1>1
<1> QED BY <1>2, CounterCorrect, PTL DEF Spec, HalfOpenRange

\* The loop that lower.cardinal emits implements the interpreter's exec_fornum.
THEOREM LoopImplementsInterpreter == ASSUME RangeFits PROVE Spec => ImplementsForNum
<1>1. Init => Interpreter!Init
  BY DEF Init, Interpreter!Init
<1>2. ASSUME TypeOK, CounterInv, [Next]_vars PROVE [Interpreter!Next]_(Interpreter!vars)
  <2> USE DEF Interpreter!Next
  <2>1. stopv = range.stop /\ stepv = range.step
    BY <1>2 DEF CounterInv
  <2>2. CASE Enter
    BY <2>1, <2>2 DEF Enter, Continues, Interpreter!Enter
  <2>3. CASE Advance
    BY <1>2, <2>3, NoWrap DEF Advance, Interpreter!Advance
  <2>4. CASE Exit
    BY <2>1, <2>4 DEF Exit, Continues, Interpreter!Exit
  <2>5. CASE EndBody
    BY <2>5 DEF EndBody, Interpreter!EndBody
  <2>6. CASE Break
    BY <2>6 DEF Break, Interpreter!Break
  <2>7. ASSUME NEW x \in Assigned, Assign(x) PROVE Interpreter!Assign(x)
    BY <2>7 DEF Assign, Interpreter!Assign
  <2>8. CASE UNCHANGED vars
    BY <2>8 DEF vars, Interpreter!vars
  <2> QED BY <1>2, <2>2, <2>3, <2>4, <2>5, <2>6, <2>7, <2>8 DEF Next, Control
<1>3. TypeOK /\ CounterInv /\ [Next]_vars => [Interpreter!Next]_(Interpreter!vars)
  BY <1>2
<1> QED BY <1>1, <1>3, CounterCorrect, PTL DEF Spec, ImplementsForNum, Interpreter!Spec
=============================================================================
