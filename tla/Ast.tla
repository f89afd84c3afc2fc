-------------------------------- MODULE Ast ---------------------------------
(***************************************************************************)
(* The syntax tree that the parser builds and that interpreter, checker   *)
(* and lowering walk: one constructor per dataclass, with its fields.     *)
(* None is the absent type, expression or block. The checker adds a field *)
(* ctype to expressions (module Checker).                                 *)
(***************************************************************************)
EXTENDS Integers, Sequences, FiniteSets, TLC

None == [k |-> "None"]

TyName(n) == [k |-> "TyName", name |-> n]
TyArray(t) == [k |-> "TyArray", elem |-> t]
TyVec(t) == [k |-> "TyVec", elem |-> t]
TyMap(kt, vt) == [k |-> "TyMap", key |-> kt, val |-> vt]
TyFunc(ps, r) == [k |-> "TyFunc", params |-> ps, ret |-> r]

\* Declarations. Parameters and fields are sequences of <<name, type>>.
FuncDecl(n, ps, r, b) ==
  [k |-> "FuncDecl", name |-> n, params |-> ps, ret |-> r, body |-> b]
StructDecl(n, fs) == [k |-> "StructDecl", name |-> n, fields |-> fs]
EnumDecl(n, vs) == [k |-> "EnumDecl", name |-> n, variants |-> vs]
SumDecl(n, vs) == [k |-> "SumDecl", name |-> n, variants |-> vs]
ConstDecl(n, t, e) == [k |-> "ConstDecl", name |-> n, ty |-> t, expr |-> e]

Let(n, t, e, mut) == [k |-> "Let", name |-> n, ty |-> t, expr |-> e, mutable |-> mut]
Set(t, e) == [k |-> "Set", target |-> t, expr |-> e]
Do(c) == [k |-> "Do", call |-> c]
If(bs, e) == [k |-> "If", branches |-> bs, orelse |-> e]
While(c, b) == [k |-> "While", cond |-> c, body |-> b]
ForNum(v, s, e, st, b) ==
  [k |-> "ForNum", var |-> v, start |-> s, end |-> e, step |-> st, body |-> b]
ForIn(v, i, b) == [k |-> "ForIn", var |-> v, iterable |-> i, body |-> b]
Loop(b) == [k |-> "Loop", body |-> b]
Break == [k |-> "Break"]
Continue == [k |-> "Continue"]
Pass == [k |-> "Pass"]
Return(e) == [k |-> "Return", expr |-> e]
Checked(b) == [k |-> "Checked", body |-> b]
Match(s, as, e) == [k |-> "Match", scrutinee |-> s, arms |-> as, orelse |-> e]

\* A block that is there, as opposed to the None of a missing else.
Block(ss) == [k |-> "Block", stmts |-> ss]

IntLit(v, t) == [k |-> "IntLit", value |-> v, ty |-> t]      \* t = "": no suffix
BoolLit(b) == [k |-> "BoolLit", value |-> b]
StrLit(s) == [k |-> "StrLit", value |-> s]
NullLit == [k |-> "NullLit"]
Name(n) == [k |-> "Name", ident |-> n]
Path(ps) == [k |-> "Path", parts |-> ps]
FieldAccess(o, f) == [k |-> "FieldAccess", obj |-> o, field |-> f]
Index(o, i) == [k |-> "Index", obj |-> o, index |-> i]
Call(c, as) == [k |-> "Call", callee |-> c, args |-> as]
OpCall(o, as) == [k |-> "OpCall", op |-> o, args |-> as]
StructLit(n, fs) == [k |-> "StructLit", typename |-> n, fields |-> fs]
ArrayLit(es) == [k |-> "ArrayLit", elements |-> es]
ArrayNew(t, n) == [k |-> "ArrayNew", elem |-> t, count |-> n]
VecLit(es) == [k |-> "VecLit", elements |-> es]
VecNew(t) == [k |-> "VecNew", elem |-> t]
MapNew(kt, vt) == [k |-> "MapNew", key |-> kt, val |-> vt]
Cast(e, t) == [k |-> "Cast", expr |-> e, ty |-> t]
Ref(p) == [k |-> "Ref", place |-> p]
FuncLit(ps, r, b) == [k |-> "FuncLit", params |-> ps, ret |-> r, body |-> b]

ArithOps == {"+", "-", "*", "/", "%"}
CompareOps == {"<", "<=", ">", ">=", "==", "!="}
BitOps == {"band", "bor", "bxor", "shl", "shr"}

\* The sequence s: in this form TLC evaluates its elements once, not at every use.
Listed(s) == SubSeq(s, 1, Len(s))

\* The declarations of one kind, and the value a name has in a list of pairs.
DeclsOf(decls, kind) == {d \in {decls[i] : i \in DOMAIN decls} : d.k = kind}
Names(pairs) == [i \in DOMAIN pairs |-> pairs[i][1]]
Keys(pairs) == {pairs[i][1] : i \in DOMAIN pairs}
ValueOf(pairs, n) == (CHOOSE p \in {pairs[i] : i \in DOMAIN pairs} : p[1] = n)[2]
=============================================================================
