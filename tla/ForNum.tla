------------------------------- MODULE ForNum -------------------------------
(***************************************************************************)
(* The numeric for loop as bootstrap/interpreter.py runs it, which is the  *)
(* meaning of the loop: `for v = start to bound step stride'. Start, bound *)
(* and step are evaluated once; a counter of unbounded integers runs over  *)
(* [start, bound); each iteration binds a new, mutable variable v to it.   *)
(*                                                                         *)
(* The body is any sequence of assignments to v and to the variables that  *)
(* the bound and the step were read from; it ends normally, by continue or *)
(* by break (a return leaves the loop the way a break does).               *)
(***************************************************************************)
EXTENDS Integers

CONSTANTS
  Starts, Bounds, Strides,  \* values of the three expressions at loop entry
  Assigned,                 \* values the body assigns
  MaxTrips                  \* bound on the number of iterations looked at

VARIABLES
  pc,       \* "test", "body", "post" or "done"
  i,        \* the counter
  v,        \* the variable of the current iteration
  bound,    \* the program variable the bound was read from
  stride,   \* the program variable the step was read from
  range,    \* the range as evaluated at entry: [start, stop, step]
  trips     \* iterations begun (not in the code)

vars == <<pc, i, v, bound, stride, range, trips>>

Init ==
  /\ pc = "test"
  /\ bound \in Bounds /\ stride \in Strides
  /\ \E s \in Starts : range = [start |-> s, stop |-> bound, step |-> stride]
  /\ i = range.start
  /\ v = 0 /\ trips = 0

Enter ==
  /\ pc = "test" /\ i < range.stop
  /\ trips < MaxTrips
  /\ pc' = "body"
  /\ v' = i
  /\ trips' = trips + 1
  /\ UNCHANGED <<i, bound, stride, range>>

Assign(x) ==
  /\ pc = "body"
  /\ \/ v' = x /\ UNCHANGED <<bound, stride>>
     \/ bound' = x /\ UNCHANGED <<v, stride>>
     \/ stride' = x /\ UNCHANGED <<v, bound>>
  /\ UNCHANGED <<pc, i, range, trips>>

EndBody == pc = "body" /\ pc' = "post" /\ UNCHANGED <<i, v, bound, stride, range, trips>>
Break == pc = "body" /\ pc' = "done" /\ UNCHANGED <<i, v, bound, stride, range, trips>>

Advance ==
  /\ pc = "post"
  /\ i' = i + range.step
  /\ pc' = "test"
  /\ UNCHANGED <<v, bound, stride, range, trips>>

Exit ==
  /\ pc = "test" /\ ~(i < range.stop)
  /\ pc' = "done"
  /\ UNCHANGED <<i, v, bound, stride, range, trips>>

Next == Enter \/ EndBody \/ Break \/ Advance \/ Exit \/ \E x \in Assigned : Assign(x)

Spec == Init /\ [][Next]_vars
=============================================================================
