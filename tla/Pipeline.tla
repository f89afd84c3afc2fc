------------------------------ MODULE Pipeline ------------------------------
(***************************************************************************)
(* The two ways to run a program: the interpreter, and the compiler with  *)
(* its checker, its lowering, its C backend and the program they make.    *)
(* The interpreter is deterministic, so what it does with each program is *)
(* the constant Executions; the compiled program is the state machine of     *)
(* IrMachine. The driver takes a program through the stages of the        *)
(* compiler, each of which may turn it down.                              *)
(***************************************************************************)
EXTENDS IrMachine, Interp
LOCAL INSTANCE SequencesExt

CONSTANT Executions     \* the final state of the interpreter for each program

\* Evaluated once, like Compiled.
ASSUME ExecutionsAssumption == Executions = [p \in DOMAIN Programs |-> Run(Programs[p])]

\* ---------------------------------------------------------------- the driver
TypeCheck ==
  /\ phase = "source"
  /\ phase' = IF Compiled[prog].end = "rejected" THEN "rejected" ELSE "checked"
  /\ UNCHANGED <<prog, frames, heap, made, shadow, out>>
LowerIr ==
  /\ phase = "checked"
  /\ phase' = IF Compiled[prog].end \in {"refused", "crash"} THEN Compiled[prog].end ELSE "lowered"
  /\ UNCHANGED <<prog, frames, heap, made, shadow, out>>
\* The C compiler, then the start of main, whose roots are the first ones.
Build ==
  /\ phase = "lowered"
  /\ IF Compiled[prog].end = "badC" THEN Stops("badC")
     ELSE /\ phase' = "run"
          /\ frames' = <<Enter(<<"fn", "main">>, <<>>, None)>>
          /\ shadow' = RootsOf(<<"fn", "main">>, 1)
          /\ UNCHANGED <<prog, heap, made, out>>
\* The process has ended.
Stopped == phase \in Final /\ UNCHANGED vars

Init ==
  /\ prog \in DOMAIN Programs
  /\ phase = "source"
  /\ frames = <<>> /\ heap = <<>> /\ made = 0 /\ shadow = <<>> /\ out = <<>>
Next == TypeCheck \/ LowerIr \/ Build \/ Execute \/ Stopped
Spec == Init /\ [][Next]_vars
\* Nothing but the program itself runs in its process.
FairSpec == Spec /\ WF_vars(Next)

\* ------------------------------------- what the compiled path knows nothing of
\* These follow the checked tree, not the passes over it. A function, lambdas too:
\* its parameters, types and body, and the nodes of the body outside of lambdas.
Inner(x) == ExprKids(x) \o StmtExprs(x) \o FlattenSeq(StmtBodies(x))
RECURSIVE Within(_)
Within(xs) == FlattenSeq(Listed([i \in DOMAIN xs |-> <<xs[i]>> \o Within(Inner(xs[i]))]))
RECURSIVE WithLambdas(_, _, _)
WithLambdas(ps, t, body) ==
  LET nodes == Within(body)
      lambdas == SelectSeq(nodes, LAMBDA x : x.k = "FuncLit")
  IN  <<[params |-> Names(ps), ty |-> t, nodes |-> nodes]>>
        \o FlattenSeq(Listed([i \in DOMAIN lambdas |->
             WithLambdas(lambdas[i].params, lambdas[i].ctype, lambdas[i].body)]))
FuncDecls(checked) == SelectSeq(checked.decls, LAMBDA d : d.k = "FuncDecl")
FunctionsOf(checked) ==
  LET ds == FuncDecls(checked)
  IN  FlattenSeq(Listed([i \in DOMAIN ds |->
        WithLambdas(ds[i].params, checked.sig.funcs[ds[i].name], ds[i].body)]))

\* Structs, whose names the lowering loses, unit, and what only the interpreter has.
NotInC(t) == t.k \in {"StructT", "VecT", "MapT", "SumT"} \/ IsUnit(t)
Signature(t) == t.params \o IF IsUnit(t.ret) THEN <<>> ELSE <<t.ret>>
\* The types of the values that a node keeps in a variable or an array, takes from
\* there, or passes to a function that is a value.
TypesHeld(x) ==
  CASE x.k = "Let" -> <<x.expr.ctype>>
    [] x.k = "Set" -> <<x.expr.ctype>>
    [] x.k = "ForIn" -> <<x.iterable.ctype.elem>>
    [] x.k = "Index" -> <<TypeOf(x)>>
    [] x.k = "ArrayNew" -> IF IsUnit(x.ctype.elem) THEN <<>> ELSE <<x.ctype.elem>>
    [] x.k = "ArrayLit" -> IF x.elements = <<>> /\ IsUnit(x.ctype.elem) THEN <<>> ELSE <<x.ctype.elem>>
    [] x.k = "Call" -> IF TypeOf(x.callee).k = "FuncT" THEN Signature(x.callee.ctype) ELSE <<>>
    [] OTHER -> <<>>

\* panic is lowered as a call with one string, whose value is the number 0.
IsPanic(x) == x.k = "Call" /\ x.callee.k = "Name" /\ x.callee.ident = "panic"
BadPanic(x) == IsPanic(x) /\ (x.args = <<>> \/ Aggregate(x.args[1].ctype))
PanicAsAggregate(x, f) ==
  LET given == CASE x.k \in {"Let", "Set"} -> <<x.expr>> [] x.k = "Call" -> x.args
                 [] x.k = "ArrayLit" -> x.elements [] OTHER -> <<>>
  IN  \/ \E i \in DOMAIN given : IsPanic(given[i]) /\ Aggregate(given[i].ctype)
      \/ x.k = "Return" /\ IsPanic(x.expr) /\ Aggregate(f.ty.ret)

\* Jumps out of no loop: of no loop at all, or of one outside of their lambda only.
RECURSIVE LostJumps(_, _, _)
LostJumps(xs, loop, outside) ==
  UNION {LET x == xs[i]
             heads == LostJumps(ExprKids(x) \o StmtExprs(x), loop, outside)
         IN  CASE x.k \in {"Break", "Continue"} ->
                    IF loop THEN {} ELSE {IF outside THEN "leaves a lambda" ELSE "stray"}
               [] x.k = "FuncLit" -> LostJumps(x.body, FALSE, loop \/ outside)
               [] x.k \in {"While", "Loop", "ForNum", "ForIn"} -> heads \cup LostJumps(x.body, TRUE, outside)
               [] OTHER -> heads \cup LostJumps(FlattenSeq(StmtBodies(x)), loop, outside)
         : i \in DOMAIN xs}
LostJumpsOf(checked) ==
  LET ds == FuncDecls(checked) IN UNION {LostJumps(ds[i].body, FALSE, FALSE) : i \in DOMAIN ds}
LeavesLambda(checked) == "leaves a lambda" \in LostJumpsOf(checked)

Unsupported(checked) ==
  LET fs == FunctionsOf(checked)
      some(ts) == \E i \in DOMAIN ts : NotInC(ts[i])
  IN  \/ "stray" \in LostJumpsOf(checked)
      \/ some(FieldTypes(checked.sig))
      \/ \E i \in DOMAIN fs :
           \/ ~IsInjective(fs[i].params)
           \/ some(Signature(fs[i].ty))
           \/ \E j \in DOMAIN fs[i].nodes :
                LET x == fs[i].nodes[j] IN some(TypesHeld(x)) \/ BadPanic(x) \/ PanicAsAggregate(x, fs[i])

\* --------------------------------------------------------------- properties
\* What the process shows of an execution of the interpreter: the values it
\* prints and, when main returns, its result as the exit code (cardinal.py and
\* the C main that backend_c.py writes agree on it).
Expected ==
  LET m == Outcome(Executions[prog])
  IN  [i \in DOMAIN m.out |-> <<m.out[i].k, m.out[i].val>>]
        \o IF m.end = "done" THEN <<<<"exit", m.code>>>> ELSE <<>>
\* The compiled program prints what the interpreter prints, in the same order, and
\* ends as it does: it returns with the same code, or panics at the same point.
\* The interpreter walks the tree, the compiled code runs the lowered blocks, boxes
\* and closures; nothing but their meaning relates the two.
CompiledAgrees ==
  /\ phase \in {"run", "panic"} => IsPrefix(out, Expected)
  /\ phase \in {"done", "panic"} => out = Expected /\ Outcome(Executions[prog]).end = phase

\* A program that the checker accepts never runs into an error of the interpreter
\* (unknown names, operands of different types, stores of the wrong type, missing
\* fields, assignment to what is immutable): panics are the only failures left.
CheckedProgramsDoNotGoWrong ==
  phase \notin {"source", "rejected"} => Outcome(Executions[prog]).end \notin {"error", "crash"}

\* The generated C has no undefined behaviour: no variable is read before it is
\* written, no function falls off its end with a result that is used, no quotient
\* or shift is out of the range C defines.
NoUndefinedBehaviour == phase # "undefined"

\* With a collection at every allocation, whatever compiled code still uses is
\* kept: boxes, environments, arrays and what they hold are reachable from the
\* slots that the prologue registered (backend_c.py: precise rooting).
NoInvalidHandle == phase # "badhandle"

\* The shadow stack holds the roots of exactly the active frames, whichever way
\* each of them is left.
ShadowStackBalanced ==
  phase = "run" =>
    shadow = FlattenSeq([i \in DOMAIN frames |-> RootsOf(frames[i].fn, i)])

\* A program that the checker accepts and the lowering does not refuse is built,
\* unless it has one of the constructs that the compiled path knows nothing of: then
\* the lowering or the emitter crashes, or the host compiler turns its output down,
\* and it is never run. A jump out of a lambda may go either way.
UncleanIffUnsupported ==
  [][LET checked == Check("p", Programs[prog])
     IN  /\ phase' \in {"crash", "badC"} => Unsupported(checked) \/ LeavesLambda(checked)
         /\ phase = "lowered" /\ phase' = "run" => ~Unsupported(checked)]_vars

\* The places that hold a struct, <<mutable, object>>, of an execution that ended:
\* everything it ever stored is still there, the interpreter's heap only grows.
PlacesOf(o) ==
  CASE o.k = "cell" -> <<<<o.mutable, o.value>>>>
    [] o.k = "struct" -> SetToSeq({<<TRUE, o.fields[f]>> : f \in DOMAIN o.fields})
    [] o.k \in {"array", "vec"} -> [i \in DOMAIN o.items |-> <<TRUE, o.items[i]>>]
    [] o.k = "map" -> [i \in DOMAIN o.data |-> <<TRUE, o.data[i][2]>>]
    [] OTHER -> <<>>
\* Structs are values (DESIGN.md: copied on assign and pass): a struct that can be
\* changed through one place is not to be seen through another.
StructsNotShared ==
  phase = "checked" =>
    LET m == Executions[prog]
        places == FlattenSeq([a \in DOMAIN m.heap |-> PlacesOf(m.heap[a])])
        structs == {i \in DOMAIN places : IsA(m, places[i][2], {"struct"})}
    IN  \A i, j \in structs :
          i # j /\ places[i][2] = places[j][2] => ~places[i][1] /\ ~places[j][1]

\* A compiled program comes to an end: every loop and every call that the
\* interpreter finishes, the blocks and jumps of the lowering finish too.
CompiledEnds == <>(phase \in Final)
=============================================================================
