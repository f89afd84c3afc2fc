--------------------------------- MODULE Ir ---------------------------------
(***************************************************************************)
(* The intermediate representation: functions made of basic blocks, and   *)
(* the builder that the lowering appends instructions with. A label is    *)
(* <<hint, number>>, numbered anew in every function; a function is named *)
(* by <<"fn", f>>, the lambdas by <<"lam", n>>, the wrapper that makes a  *)
(* function callable as a closure by <<"thunk", f>>. A local is           *)
(* <<name, number>>: the number that uniq appends, 0 for a parameter.     *)
(***************************************************************************)
EXTENDS Checker
LOCAL INSTANCE SequencesExt

PtrT(t) == [k |-> "PtrT", elem |-> t]                 \* elem = None: void*
Bare(n) == StructT(<<"", n>>)                         \* a struct type without its module

Temp(i, t) == [k |-> "Temp", id |-> i, ty |-> t]
Local(n, t) == [k |-> "Local", name |-> n, ty |-> t]
Imm(v, t) == [k |-> "Imm", value |-> v, ty |-> t]
UnitImm == Imm("unit", UNITT)
NoEnv == Imm(0, PtrT(None))

PLocal(l) == [k |-> "PLocal", name |-> l.name, ty |-> l.ty]
PField(p, f, t) == [k |-> "PField", base |-> p, field |-> f, ty |-> t]
PDeref(p, t) == [k |-> "PDeref", ptr |-> p, ty |-> t]

Bin(d, op, a, b, t, c) ==
  [k |-> "Bin", dst |-> d, op |-> op, lhs |-> a, rhs |-> b, ty |-> t, checked |-> c]
Un(d, op, v, t, c) == [k |-> "Un", dst |-> d, op |-> op, val |-> v, ty |-> t, checked |-> c]
ICast(d, v, t) == [k |-> "Cast", dst |-> d, val |-> v, ty |-> t]
Assign(p, v) == [k |-> "Assign", place |-> p, src |-> v]
LoadField(d, b, f) == [k |-> "LoadField", dst |-> d, base |-> b, field |-> f]
ICall(d, f, as) == [k |-> "Call", dst |-> d, callee |-> f, args |-> as]
StructNew(d, fs) == [k |-> "StructNew", dst |-> d, fields |-> fs]
ArrNew(d, t, n) == [k |-> "ArrNew", dst |-> d, elem |-> t, count |-> n]
ArrLit(d, t, es) == [k |-> "ArrLit", dst |-> d, elem |-> t, elems |-> es]
ArrGet(d, a, i) == [k |-> "ArrGet", dst |-> d, arr |-> a, idx |-> i]
ArrSet(a, i, v, t) == [k |-> "ArrSet", arr |-> a, idx |-> i, val |-> v, elem |-> t]
ArrLen(d, a) == [k |-> "ArrLen", dst |-> d, arr |-> a]
EnumConst(d, i) == [k |-> "EnumConst", dst |-> d, val |-> i]
Alloc(d, t) == [k |-> "Alloc", dst |-> d, ty |-> t]
Load(d, p) == [k |-> "Load", dst |-> d, ptr |-> p]
EnvNew(d, n) == [k |-> "EnvNew", dst |-> d, n |-> n]
EnvStore(e, i, p) == [k |-> "EnvStore", env |-> e, idx |-> i, ptr |-> p]
EnvLoad(d, e, i) == [k |-> "EnvLoad", dst |-> d, env |-> e, idx |-> i]
MakeClosure(d, f, e) == [k |-> "MakeClosure", dst |-> d, fn |-> f, env |-> e]
CallClosure(d, c, as) == [k |-> "CallClosure", dst |-> d, clos |-> c, args |-> as]
Br(l) == [k |-> "Br", target |-> l]
CondBr(c, t, e) == [k |-> "CondBr", cond |-> c, then |-> t, els |-> e]
Ret(v) == [k |-> "Ret", val |-> v]                    \* None: no value
IPanic(m) == [k |-> "Panic", msg |-> m]
Terminators == {"Br", "CondBr", "Ret"}

\* ----------------------------------------------------------------- builder
FuncBuilder(n, ps, r) ==
  [name |-> n, params |-> ps, ret |-> r, blocks |-> <<[label |-> <<"entry", 0>>, instrs |-> <<>>]>>,
   temps |-> <<>>, locals |-> <<>>, labels |-> 0, uniq |-> 0]
Terminated(b) ==
  LET is == Last(b.blocks).instrs IN is # <<>> /\ Last(is).k \in Terminators
NewBlock(b, l) == [b EXCEPT !.blocks = Append(@, [label |-> l, instrs |-> <<>>])]
\* What follows a terminator goes to a block of its own, which nothing reaches.
EmitIn(b, i) ==
  LET at == IF Terminated(b) THEN NewBlock([b EXCEPT !.labels = @ + 1], <<"dead", b.labels + 1>>) ELSE b
  IN  [at EXCEPT !.blocks[Len(at.blocks)].instrs = Append(@, i)]
=============================================================================
