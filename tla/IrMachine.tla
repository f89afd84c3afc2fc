------------------------------ MODULE IrMachine -----------------------------
(***************************************************************************)
(* What the C backend makes of the IR, and how the compiled program runs: *)
(* one action per kind of instruction. A frame has a value for every      *)
(* temporary and local; those that may hold a handle (Managed) start as   *)
(* zero and are pushed on the shadow stack by the prologue of the         *)
(* function. Boxes, environments and arrays are objects of the collected  *)
(* heap; every allocation collects, the worst that the runtime may do     *)
(* (GcHeap models when it does, and the handles themselves).              *)
(*                                                                         *)
(* What C leaves undefined ends the run in "undefined", a handle that has *)
(* no object in "badhandle", where cl_gc_deref panics.                    *)
(***************************************************************************)
EXTENDS Lower
LOCAL INSTANCE SequencesExt

CONSTANTS
  Programs,     \* sequence of programs: the declarations of a module
  Compiled      \* what the compiler makes of each of them

VARIABLES
  prog,     \* which program
  phase,    \* where it is: see Phases
  frames,   \* C stack: [fn, pc, slots, dst]
  heap,     \* handle -> values of the object, for the live objects
  made,     \* handles given out so far
  shadow,   \* shadow stack: <<depth of the frame, slot>>
  out       \* what was printed

vars == <<prog, phase, frames, heap, made, shadow, out>>

Running == {"source", "checked", "lowered", "run"}
Final == {"rejected", "refused", "crash", "badC", "done", "panic", "badhandle", "undefined"}

\* -------------------------------------------------------------- the C backend
\* mutant: closures are not rooted
Managed_NotClosures(t) == t.k \in {"PtrT", "ArrayT", "StructT"}
Managed(t) == t.k \in {"PtrT", "FuncT", "ArrayT", "StructT"}
\* The types that ctype spells; the emitter stops with an exception at any other.
HasSpelling(t) == t.k \in {"PtrT", "StructT", "IntT", "PrimT", "EnumT", "FuncT", "ArrayT"}
\* A spelling that C takes for a type: a struct is declared under its bare name.
Sized(t) == t.k = "StructT" => t.name[1] = ""
\* ... and for the type of a variable: unit is spelled void.
Valued(t) == Sized(t) /\ ~IsUnit(t)
\* C converts between numbers, handles and addresses, not to or from a struct.
Aggregate(t) == t.k \in {"ArrayT", "FuncT", "StructT"}
Assignable(from, to) == Aggregate(from) \/ Aggregate(to) => from.k = to.k

TempName(i) == <<"%t", i>>
\* Name and type of the C variables: temporaries, locals, parameters.
SlotsOf(f) ==
  [i \in DOMAIN f.temps |-> <<TempName(i - 1), f.temps[i]>>] \o f.locals
    \o [i \in DOMAIN f.params |-> <<<<f.params[i][1], 0>>, f.params[i][2]>>]
InstrsOf(f) == FlattenSeq([i \in DOMAIN f.blocks |-> f.blocks[i].instrs])
\* A label is the position of the instruction after it.
LabelsOf(f) ==
  [l \in {f.blocks[i].label : i \in DOMAIN f.blocks} |->
     LET b == CHOOSE i \in DOMAIN f.blocks : f.blocks[i].label = l
     IN  1 + FoldLeft(LAMBDA n, i : n + Len(f.blocks[i].instrs), 0, [i \in 1..(b - 1) |-> i])]
Function(f) ==
  [params |-> f.params, ret |-> f.ret, slots |-> ToSet(SlotsOf(f)), instrs |-> InstrsOf(f),
   labels |-> LabelsOf(f),
   roots |-> Names(SelectSeq(SlotsOf(f), LAMBDA s : Managed(s[2])))]
Targets(i) == CASE i.k = "Br" -> {i.target} [] i.k = "CondBr" -> {i.then, i.els} [] OTHER -> {}
\* What an instruction writes out: the types of which C needs the size only, those
\* that it reads or stores a value of, and the values that it stores, <<from, to>>.
SizedIn(i) ==
  CASE i.k \in {"ArrNew", "ArrLit"} -> <<i.elem>> [] i.k = "Alloc" -> <<i.ty>>
    [] i.k = "CallClosure" -> <<i.clos.ty.ret>> [] OTHER -> <<>>
ValuedIn(i) ==
  CASE i.k = "ArrLit" -> IF i.elems = <<>> THEN <<>> ELSE <<i.elem>>
    [] i.k = "ArrSet" -> <<i.elem>>
    [] i.k \in {"ArrGet", "Load", "Cast"} -> <<i.dst.ty>>
    [] i.k = "Assign" -> <<i.place.ty>>
    [] i.k = "CallClosure" -> i.clos.ty.params
    [] OTHER -> <<>>
StoredIn(i, f, code) ==
  LET passed(as, ts) == [n \in DOMAIN as |-> <<as[n].ty, ts[n]>>]
  IN  CASE i.k = "Assign" -> <<<<i.src.ty, i.place.ty>>>>
        [] i.k = "ArrLit" -> passed(i.elems, Same(i.elems, i.elem))
        [] i.k = "ArrSet" -> <<<<i.val.ty, i.elem>>>>
        [] i.k = "Call" /\ i.callee[1] = "fn" ->
             LET ps == code[i.callee].params IN passed(i.args, [n \in DOMAIN ps |-> ps[n][2]])
        [] i.k = "CallClosure" -> passed(i.args, i.clos.ty.params)
        [] i.k = "Ret" -> IF i.val = None \/ IsUnit(f.ret) THEN <<>> ELSE <<<<i.val.ty, f.ret>>>>
        [] i.k = "Panic" -> <<<<i.msg.ty, STR>>>>
        [] OTHER -> <<>>
\* Every type that is written out for a function.
TypesOf(f) ==
  LET slots == SlotsOf(f)
      is == InstrsOf(f)
  IN  [n \in DOMAIN slots |-> slots[n][2]] \o <<f.ret>>
        \o FlattenSeq([n \in DOMAIN is |-> SizedIn(is[n]) \o ValuedIn(is[n])])
FieldTypes(sig) ==
  LET structs == SetToSeq(DeclsOf(sig.decls, "StructDecl"))
  IN  FlattenSeq([i \in DOMAIN structs |-> Resolved(structs[i].fields, sig)])
\* The host compiler accepts the emitted function.
ValidC(f, code) ==
  /\ \A i, j \in DOMAIN f.params : f.params[i][1] = f.params[j][1] => i = j
  /\ \A n \in DOMAIN f.params : Valued(f.params[n][2])
  /\ \A n \in DOMAIN f.locals : Valued(f.locals[n][2])
  /\ \A n \in DOMAIN f.temps : Sized(f.temps[n])
  /\ Sized(f.ret)
  /\ LET is == InstrsOf(f)
         dests == {n \in DOMAIN is : "dst" \in DOMAIN is[n]}
     IN  /\ \A n \in dests : is[n].dst # None => ~IsUnit(is[n].dst.ty)
         /\ \A n \in DOMAIN is :
              LET sized == SizedIn(is[n])
                  valued == ValuedIn(is[n])
                  stored == StoredIn(is[n], f, code)
              IN  /\ \A j \in DOMAIN sized : Sized(sized[j])
                  /\ \A j \in DOMAIN valued : Valued(valued[j])
                  /\ \A j \in DOMAIN stored : Assignable(stored[j][1], stored[j][2])
                  /\ Targets(is[n]) \subseteq DOMAIN LabelsOf(f)

Compile(ds) ==
  LET c == Check("p", ds)
      l == LowerModule(c)
      fields == FieldTypes(c.sig)
      all(T(_), ts) == \A i \in DOMAIN ts : T(ts[i])
  IN  CASE c.errs # {} -> [end |-> "rejected", code |-> <<>>]
        [] l.err # "" -> [end |-> l.err, code |-> <<>>]
        [] ~(all(HasSpelling, fields) /\ \A n \in DOMAIN l.funcs : all(HasSpelling, TypesOf(l.funcs[n]))) ->
             [end |-> "crash", code |-> <<>>]
        [] ~(all(Valued, fields) /\ \A n \in DOMAIN l.funcs : ValidC(l.funcs[n], l.funcs)) ->
             [end |-> "badC", code |-> <<>>]
        [] OTHER -> [end |-> "run", code |-> [n \in DOMAIN l.funcs |-> Function(l.funcs[n])]]
\* A constant, so that a program is compiled once and not in every state.
ASSUME CompiledAssumption == Compiled = [p \in DOMAIN Programs |-> Compile(Programs[p])]

\* ---------------------------------------------------------------------- values
Num(n) == [k |-> "int", val |-> n]
Truth01(b) == [k |-> "bool", val |-> b]
StrBits == [k |-> "str"]          \* a pointer where a handle is expected
Arr(h, n) == [k |-> "array", h |-> h, len |-> n]
Clos(f, h) == [k |-> "closure", fn |-> f, h |-> h]
Ptr(h) == [k |-> "ptr", h |-> h]
Rec(fs) == [k |-> "struct", fields |-> fs]
Uninit == [k |-> "uninit"]
Shown(v) == <<v.k, v.val>>         \* what is printed for a scalar

ZeroOf(t) ==
  CASE t.k \in {"IntT", "EnumT"} -> Num(0)
    [] t = BOOL -> Truth01(FALSE)
    [] t.k = "ArrayT" -> Arr(0, 0)
    [] t.k = "FuncT" -> Clos(<<"", 0>>, 0)
    [] t.k = "PtrT" -> Ptr(0)
    [] t.k = "StructT" -> Rec(<<>>)
    [] OTHER -> StrBits
\* A number that is stored takes the width of the variable.
Fit(v, t) == IF v.k = "int" /\ t.k = "IntT" THEN Num(Wrapped(v.val, t.name)) ELSE v

RECURSIVE HandlesIn(_)
HandlesIn(v) ==
  CASE v.k \in {"array", "closure", "ptr"} -> {v.h}
    [] v.k = "struct" -> UNION {HandlesIn(v.fields[f]) : f \in DOMAIN v.fields}
    [] OTHER -> {}
Handles(vs) == UNION {HandlesIn(vs[i]) : i \in DOMAIN vs}

Top == Last(frames)
Fn == Compiled[prog].code[Top.fn]
Instr == Fn.instrs[Top.pc]
Running1(k) == phase = "run" /\ Instr.k = k

SlotName(x) == IF x.k = "Temp" THEN TempName(x.id) ELSE x.name
Val(x) ==
  CASE x.k # "Imm" -> Top.slots[SlotName(x)]
    [] x.ty.k \in {"IntT", "EnumT"} -> Num(x.value)
    [] x.ty = BOOL -> Truth01(x.value)
    [] x.ty.k = "PtrT" -> Ptr(0)
    [] OTHER -> StrBits

\* ------------------------------------------------------------------- the heap
Roots == {frames[r[1]].slots[r[2]] : r \in {x \in ToSet(shadow) : x[1] <= Len(frames)}}
RECURSIVE Reach(_)
Reach(hs) ==
  LET more == hs \cup (UNION {Handles(heap[h]) : h \in hs} \cap DOMAIN heap)
  IN  IF more = hs THEN hs ELSE Reach(more)
Marked == Reach(UNION {HandlesIn(v) : v \in Roots} \cap DOMAIN heap)

\* ------------------------------------------------------------ parts of actions
Stops(p) == phase' = p /\ UNCHANGED <<prog, frames, heap, made, shadow, out>>
Defined(xs, A) == IF \E x \in xs : x # None /\ Val(x) = Uninit THEN Stops("undefined") ELSE A
\* An access to what a handle stands for.
Access(h, A) == IF h \in DOMAIN heap THEN A ELSE Stops("badhandle")

Advance(slots) == frames' = [frames EXCEPT ![Len(frames)].pc = @ + 1, ![Len(frames)].slots = slots]
With(d, v) == IF d = None THEN Top.slots ELSE [Top.slots EXCEPT ![SlotName(d)] = Fit(v, d.ty)]
Gets(d, v) == Advance(With(d, v)) /\ UNCHANGED <<prog, phase, heap, made, shadow, out>>
\* cl_gc_alloc: what is not marked goes, and a new handle comes.
Allocates(d, v, items) ==
  /\ heap' = (made + 1 :> items) @@ [h \in Marked |-> heap[h]]
  /\ made' = made + 1
  /\ Advance(With(d, v))
  /\ UNCHANGED <<prog, phase, shadow, out>>
Stores(h, i, v) ==
  /\ heap' = [heap EXCEPT ![h][i] = v]
  /\ Advance(Top.slots)
  /\ UNCHANGED <<prog, phase, made, shadow, out>>

\* A frame for fn: parameters from args, managed slots zero, the rest undefined.
Enter(fn, args, dst) ==
  LET f == Compiled[prog].code[fn]
      ps == [i \in DOMAIN f.params |-> <<f.params[i][1], 0>>]
      init(s) == IF \E i \in DOMAIN ps : ps[i] = s[1]
                 THEN LET i == SelectLastInSeq(ps, LAMBDA p : p = s[1]) IN Fit(args[i], s[2])
                 ELSE IF Managed(s[2]) THEN ZeroOf(s[2]) ELSE Uninit
  IN  [fn |-> fn, pc |-> 1, dst |-> dst,
       slots |-> [n \in {s[1] : s \in f.slots} |-> init(CHOOSE s \in f.slots : s[1] = n)]]
RootsOf(fn, depth) ==
  LET rs == Compiled[prog].code[fn].roots IN [i \in DOMAIN rs |-> <<depth, rs[i]>>]
Calls(fn, args, dst) ==
  /\ frames' = Append([frames EXCEPT ![Len(frames)].pc = @ + 1], Enter(fn, args, dst))
  /\ shadow' = shadow \o RootsOf(fn, Len(frames) + 1)
  /\ UNCHANGED <<prog, phase, heap, made, out>>

\* ------------------------------------------------------------------- arithmetic
Exact(op, a, b, t) ==
  CASE op = "+" -> a + b [] op = "-" -> a - b [] op = "*" -> a * b
    [] op = "/" -> TruncDiv(a, b) [] op = "%" -> TruncMod(a, b)
    [] op = "band" -> Bits(a, t) & Bits(b, t)
    [] op = "bor" -> Bits(a, t) | Bits(b, t)
    [] op = "bxor" -> Bits(a, t) ^^ Bits(b, t)
    [] op = "shl" -> ShiftLeft(a, b)
    [] op = "shr" -> ShiftRight(a, b)
\* The width arithmetic happens at: no narrower than int.
Width(t) == IF IntTypes[t].bits < IntTypes["i32"].bits THEN IntTypes["i32"].bits ELSE IntTypes[t].bits
UndefinedInC(op, a, b, t) ==
  CASE op \in {"/", "%"} -> t \in {"i32", "i64"} /\ a = Least(t) /\ b = -1
    [] op \in {"shl", "shr"} -> b \notin 0..(Width(t) - 1)
    [] OTHER -> FALSE
\* Operands of two types are compared as unsigned when the wider one is.
Unsigned(t, u) == ~IntTypes[t].signed /\ Width(t) >= Width(u) /\ Width(t) = IntTypes[t].bits
Holds(op, x, y, tx, ty) ==
  LET ts == {t \in {tx, ty} : tx.k = "IntT" /\ ty.k = "IntT" /\ Unsigned(t.name, tx.name)
                                /\ Unsigned(t.name, ty.name)}
      as(v) == IF ts = {} THEN v ELSE Bits(v, (CHOOSE t \in ts : TRUE).name)
  IN  CASE op = "==" -> as(x) = as(y) [] op = "!=" -> as(x) # as(y) [] op = "<" -> as(x) < as(y)
        [] op = "<=" -> as(x) <= as(y) [] op = ">" -> as(x) > as(y) [] op = ">=" -> as(x) >= as(y)

\* ----------------------------------------------------------------- instructions
ExecBin ==
  /\ Running1("Bin")
  /\ LET i == Instr
         a == Val(i.lhs).val
         b == Val(i.rhs).val
         x == Exact(i.op, a, b, i.ty.name)
     IN  Defined({i.lhs, i.rhs},
           IF i.op \in CompareOps THEN Gets(i.dst, Truth01(Holds(i.op, a, b, i.lhs.ty, i.rhs.ty)))
           ELSE IF i.op \in {"/", "%"} /\ b = 0 THEN Stops("panic")
           ELSE IF UndefinedInC(i.op, a, b, i.ty.name) THEN Stops("undefined")
           ELSE IF i.checked /\ i.op \in {"+", "-", "*"} /\ ~Fits(x, i.ty.name) THEN Stops("panic")
           ELSE Gets(i.dst, Num(x)))
ExecUn ==
  /\ Running1("Un")
  /\ LET i == Instr
         v == Val(i.val).val
     IN  Defined({i.val},
           CASE i.op = "not" -> Gets(i.dst, Truth01(~v))
             [] i.op = "bnot" -> Gets(i.dst, Num(-v - 1))
             [] i.op = "-" -> IF i.checked /\ ~Fits(-v, i.ty.name) THEN Stops("panic")
                              ELSE Gets(i.dst, Num(-v)))
ExecCast == Running1("Cast") /\ Defined({Instr.val}, Gets(Instr.dst, Val(Instr.val)))
\* Fields of structs are never assigned: no place of a struct passes the lowering.
ExecAssign ==
  /\ Running1("Assign")
  /\ LET p == Instr.place
         v == Val(Instr.src)
     IN  Defined({Instr.src},
           IF p.k = "PLocal" THEN Gets(Local(p.name, p.ty), v)
           ELSE Access(Val(p.ptr).h, Stores(Val(p.ptr).h, 1, Fit(v, p.ty))))
ExecLoadField ==
  Running1("LoadField") /\ Defined({Instr.base}, Gets(Instr.dst, Val(Instr.base).fields[Instr.field]))
ExecStructNew ==
  /\ Running1("StructNew")
  /\ Defined({Instr.fields[f] : f \in DOMAIN Instr.fields},
             Gets(Instr.dst, Rec([f \in DOMAIN Instr.fields |-> Val(Instr.fields[f])])))
ExecEnumConst == Running1("EnumConst") /\ Gets(Instr.dst, Num(Instr.val))

ExecArrNew ==
  /\ Running1("ArrNew")
  /\ LET n == Val(Instr.count).val
     IN  Defined({Instr.count},
                 Allocates(Instr.dst, Arr(made + 1, n), [i \in 1..n |-> ZeroOf(Instr.elem)]))
ExecArrLit ==
  /\ Running1("ArrLit")
  /\ LET es == Instr.elems
     IN  Defined(ToSet(es), Allocates(Instr.dst, Arr(made + 1, Len(es)),
                                      [i \in DOMAIN es |-> Fit(Val(es[i]), Instr.elem)]))
\* cl_array_at: the index is converted to u64, then held against the length.
Indexed(a, i, A(_)) ==
  LET n == Bits(i.val, "u64")
  IN  IF n >= a.len THEN Stops("panic") ELSE Access(a.h, A(n + 1))
ExecArrGet ==
  /\ Running1("ArrGet")
  /\ LET a == Val(Instr.arr)
     IN  Defined({Instr.arr, Instr.idx},
                 Indexed(a, Val(Instr.idx), LAMBDA n : Gets(Instr.dst, heap[a.h][n])))
ExecArrSet ==
  /\ Running1("ArrSet")
  /\ LET a == Val(Instr.arr)
         v == Val(Instr.val)
     IN  Defined({Instr.arr, Instr.idx, Instr.val},
                 Indexed(a, Val(Instr.idx), LAMBDA n : Stores(a.h, n, Fit(v, Instr.elem))))
ExecArrLen == Running1("ArrLen") /\ Defined({Instr.arr}, Gets(Instr.dst, Num(Val(Instr.arr).len)))

ExecAlloc == Running1("Alloc") /\ Allocates(Instr.dst, Ptr(made + 1), <<ZeroOf(Instr.ty)>>)
ExecLoad ==
  /\ Running1("Load")
  /\ LET h == Val(Instr.ptr).h IN Access(h, Gets(Instr.dst, heap[h][1]))
ExecEnvNew ==
  Running1("EnvNew") /\ Allocates(Instr.dst, Ptr(made + 1), [i \in 1..Instr.n |-> Ptr(0)])
ExecEnvStore ==
  /\ Running1("EnvStore")
  /\ LET h == Val(Instr.env).h IN Access(h, Stores(h, Instr.idx, Val(Instr.ptr)))
ExecEnvLoad ==
  /\ Running1("EnvLoad")
  /\ LET h == Val(Instr.env).h IN Access(h, Gets(Instr.dst, heap[h][Instr.idx]))
ExecMakeClosure == Running1("MakeClosure") /\ Gets(Instr.dst, Clos(Instr.fn, Val(Instr.env).h))

\* A thunk drops the environment and calls its function.
ExecCallClosure ==
  /\ Running1("CallClosure")
  /\ LET c == Val(Instr.clos)
         args == [i \in DOMAIN Instr.args |-> Val(Instr.args[i])]
     IN  Defined({Instr.clos} \cup ToSet(Instr.args),
           CASE c.fn[1] = "lam" -> Calls(c.fn, <<Ptr(c.h)>> \o args, Instr.dst)
             [] c.fn[1] = "thunk" -> Calls(<<"fn", c.fn[2]>>, args, Instr.dst)
             [] OTHER -> Stops("undefined"))
ExecCall ==
  /\ Running1("Call") /\ Instr.callee[1] = "fn"
  /\ Defined(ToSet(Instr.args),
             Calls(Instr.callee, [i \in DOMAIN Instr.args |-> Val(Instr.args[i])], Instr.dst))
\* The runtime: printing, and the length of a string.
ExecRuntime ==
  /\ Running1("Call") /\ Instr.callee[1] = "rt"
  /\ Defined(ToSet(Instr.args),
       IF \E i \in DOMAIN Instr.args : Val(Instr.args[i]).k = "str" THEN Stops("badhandle")
       ELSE /\ out' = Append(out, IF Instr.args = <<>> THEN <<"str", "\n">> ELSE Shown(Val(Instr.args[1])))
            /\ Advance(Top.slots)
            /\ UNCHANGED <<prog, phase, heap, made, shadow>>)

Goto(l) ==
  /\ frames' = [frames EXCEPT ![Len(frames)].pc = Fn.labels[l]]
  /\ UNCHANGED <<prog, phase, heap, made, shadow, out>>
ExecBr == Running1("Br") /\ Goto(Instr.target)
ExecCondBr ==
  /\ Running1("CondBr")
  /\ Defined({Instr.cond}, Goto(IF Val(Instr.cond).val THEN Instr.then ELSE Instr.els))
ExecPanic == Running1("Panic") /\ Stops("panic")
\* mutant: the roots of the parameters stay
PoppedRoots_NotParams(i) ==
  Len(Fn.roots) - Cardinality({p \in DOMAIN Fn.params : Managed(Fn.params[p][2])})
\* The roots of the frame go before its value; the last frame ends the program.
PoppedRoots(i) == Len(Fn.roots)
ExecRet ==
  /\ Running1("Ret")
  /\ LET v == IF Instr.val = None THEN Uninit ELSE Val(Instr.val)
         caller == frames[Len(frames) - 1]
         slots == IF Top.dst = None THEN caller.slots
                  ELSE [caller.slots EXCEPT ![SlotName(Top.dst)] = Fit(v, Top.dst.ty)]
         used == IF Len(frames) = 1 THEN ~IsUnit(Fn.ret) ELSE Top.dst # None
     IN  IF v = Uninit /\ used THEN Stops("undefined")
         ELSE /\ shadow' = SubSeq(shadow, 1, Len(shadow) - PoppedRoots(Instr))
              /\ IF Len(frames) = 1
                 THEN /\ phase' = "done"
                      /\ frames' = <<>>
                      /\ out' = Append(out, <<"exit", IF IsUnit(Fn.ret) THEN 0 ELSE v.val>>)
                 ELSE /\ frames' = [Front(frames) EXCEPT ![Len(frames) - 1].slots = slots]
                      /\ UNCHANGED <<phase, out>>
              /\ UNCHANGED <<prog, heap, made>>

ExecScalar == ExecBin \/ ExecUn \/ ExecCast \/ ExecAssign \/ ExecLoadField \/ ExecStructNew \/ ExecEnumConst
ExecArray == ExecArrNew \/ ExecArrLit \/ ExecArrGet \/ ExecArrSet \/ ExecArrLen
ExecClosure == ExecAlloc \/ ExecLoad \/ ExecEnvNew \/ ExecEnvStore \/ ExecEnvLoad \/ ExecMakeClosure
ExecControl == ExecCall \/ ExecCallClosure \/ ExecRuntime \/ ExecBr \/ ExecCondBr \/ ExecPanic \/ ExecRet
Execute == ExecScalar \/ ExecArray \/ ExecClosure \/ ExecControl
=============================================================================
