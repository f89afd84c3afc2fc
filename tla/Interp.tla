------------------------------- MODULE Interp -------------------------------
(***************************************************************************)
(* The tree-walking interpreter: the reference for what a program means.  *)
(*                                                                         *)
(* A machine m is all the state an evaluation can read and change: the    *)
(* heap (environments, cells, and the objects that have an identity in    *)
(* the host language), the output, the flag `checked`, and the signal sig *)
(* that is pending: "ok", one of the exceptions BreakSignal ("break"),    *)
(* ContinueSignal, ReturnSignal, Panic and CardinalError ("error"), or    *)
(* "fuel" when the bound on iterations and calls is used up. val is the   *)
(* value of what was evaluated last, or what the signal carries.          *)
(*                                                                         *)
(* Programs are one module that may import io; ModuleLoading has the rest *)
(* of module resolution. Floats and characters are left out.             *)
(***************************************************************************)
EXTENDS Ast, Ints
LOCAL INSTANCE SequencesExt

CONSTANT Fuel      \* bound on iterations and calls of one execution

CInt(v, t) == [k |-> "int", val |-> v, ty |-> t]      \* t = "": untyped
BoolV(b) == [k |-> "bool", val |-> b]
StrV(s) == [k |-> "str", val |-> s]
EnumV(e, v, i) == [k |-> "enum", enum |-> e, variant |-> v, val |-> i]
Closure(ps, r, b, e) ==
  [k |-> "closure", params |-> ps, ret |-> r, body |-> b, env |-> e]
Builtin(n) == [k |-> "builtin", name |-> n]
NULL == [k |-> "null"]
UNIT == [k |-> "unit"]
Obj(a) == [k |-> "obj", at |-> a]                     \* identity of a heap object
CellRef(a) == [k |-> "ref", at |-> a]
Values(vs) == [k |-> "values", items |-> vs]          \* evaluated arguments

Builtins == {"panic", "len", "push", "pop", "map_has", "map_del", "map_keys"}

\* ------------------------------------------------------- steps of a machine
Gives(m, v) == [m EXCEPT !.val = v]
Raises(m, s, why) == [m EXCEPT !.sig = s, !.val = StrV(why)]
Panics(m, why) == Raises(m, "panic", why)
Errs(m, why) == Raises(m, "error", why)
\* Then: go on unless an exception is pending.
Then(m, F(_)) == IF m.sig = "ok" THEN F(m) ELSE m
Burn(m, F(_)) == IF m.fuel = 0 THEN Raises(m, "fuel", "bound") ELSE F([m EXCEPT !.fuel = @ - 1])

New(m, o) == [m EXCEPT !.heap = Append(@, o), !.val = Obj(Len(m.heap) + 1)]
Kind(m, v) == IF v.k = "obj" THEN m.heap[v.at].k ELSE v.k
IsA(m, v, kinds) == Kind(m, v) \in kinds
At(m, v) == m.heap[v.at]

\* ------------------------------------------------------------ environments
NewEnv(m, parent) == New(m, [k |-> "env", vars |-> <<>>, parent |-> parent])
Define(m, env, n, v, mut) ==
  LET c == Len(m.heap) + 1
  IN  [m EXCEPT !.heap = Append([@ EXCEPT ![env].vars = (n :> c) @@ @],
                                [k |-> "cell", value |-> v, mutable |-> mut])]
RECURSIVE CellOf(_, _, _)
CellOf(h, env, n) ==
  IF env = 0 THEN 0
  ELSE IF n \in DOMAIN h[env].vars THEN h[env].vars[n]
  ELSE CellOf(h, h[env].parent, n)

\* --------------------------------------------------------------- type names
FindStruct(m, n) == {d \in DeclsOf(m.ms.decls, "StructDecl") : d.name = n}
FindVariant(m, n) == {d \in DeclsOf(m.ms.decls, "SumDecl") : n \in Keys(d.variants)}
VariantFields(d, n) == ValueOf(d.variants, n)

\* ------------------------------------------------------- values and numbers
WrapInt(m, v, t) ==
  IF t = "" THEN Gives(m, CInt(v, ""))
  ELSE IF m.checked /\ ~Fits(v, t) THEN Panics(m, "integer overflow")
  ELSE Gives(m, CInt(Wrapped(v, t), t))

\* The one concrete type of integer operands, and whether their literals fit it.
ConcreteTypes(vs) == {vs[i].ty : i \in DOMAIN vs} \ {""}
UnifyInts(m, vs) ==
  LET ts == ConcreteTypes(vs)
      t == IF ts = {} THEN "" ELSE CHOOSE x \in ts : TRUE
  IN  IF \E i \in DOMAIN vs : vs[i].k # "int" THEN Panics(m, "expected integer")
      ELSE IF Cardinality(ts) > 1 THEN Errs(m, "mismatched integer types")
      ELSE IF t # "" /\ \E i \in DOMAIN vs : vs[i].ty = "" /\ ~Fits(vs[i].val, t)
           THEN Errs(m, "literal does not fit")
      ELSE Gives(m, StrV(t))

Arith(op, a, b) ==
  CASE op = "+" -> a + b [] op = "-" -> a - b [] op = "*" -> a * b
    [] op = "/" -> TruncDiv(a, b) [] op = "%" -> TruncMod(a, b)
    [] op = "band" -> a & b [] op = "bor" -> a | b [] op = "bxor" -> a ^^ b
\* Literals without a type are exact; they stay within the width of i32 here.
BitsAt(op, a, b, t) ==
  LET at == IF t = "" THEN "i32" ELSE t
  IN  Wrapped(Arith(op, Bits(a, at), Bits(b, at)), at)

\* n-ary arithmetic is exact, and wrapped or trapped once, at the end.
ArithOp(m, op, vs) ==
  IF Len(vs) = 1 /\ op = "-"
  THEN IF vs[1].k # "int" THEN Panics(m, "expected integer")
       ELSE WrapInt(m, -vs[1].val, vs[1].ty)
  ELSE Then(UnifyInts(m, vs), LAMBDA u :
         IF op \in {"/", "%"} /\ \E i \in 2..Len(vs) : vs[i].val = 0
         THEN Panics(u, "division by zero")
         ELSE WrapInt(u, FoldLeft(LAMBDA acc, v : Arith(op, acc, v.val), vs[1].val, Tail(vs)),
                      u.val.val))

Bitwise(m, op, vs) ==
  IF \E i \in DOMAIN vs : vs[i].k # "int" THEN Panics(m, "expected integer")
  ELSE IF op \in {"shl", "shr"} /\ vs[2].val < 0
  THEN Raises(m, "crash", "negative shift count")
  ELSE CASE op = "bnot" -> WrapInt(m, -vs[1].val - 1, vs[1].ty)
         [] op = "shl" -> WrapInt(m, ShiftLeft(vs[1].val, vs[2].val), vs[1].ty)
         [] op = "shr" -> WrapInt(m, ShiftRight(vs[1].val, vs[2].val), vs[1].ty)
         [] OTHER -> Then(UnifyInts(m, vs), LAMBDA u : WrapInt(u,
                       FoldLeft(LAMBDA acc, v : BitsAt(op, acc, v.val, u.val.val),
                                vs[1].val, Tail(vs)), u.val.val))

\* What is printed for a value, and what equality of aggregates looks at. A function
\* <T>_to_str of the program, which would print its type T instead, is left out.
RECURSIVE Display(_, _)
Display(m, v) ==
  IF v.k # "obj" THEN IF v.k \in {"closure", "builtin"} THEN [k |-> "closure"] ELSE v
  ELSE LET o == At(m, v)
       IN  CASE o.k \in {"struct", "sum"} ->
                  [o EXCEPT !.fields = [f \in DOMAIN @ |-> Display(m, @[f])]]
             [] o.k \in {"array", "vec"} ->
                  [o EXCEPT !.items = [i \in DOMAIN o.items |-> Display(m, o.items[i])]]
             [] OTHER -> [k |-> "map", data |-> [i \in DOMAIN o.data |->
                            <<o.data[i][1], Display(m, o.data[i][2])>>]]

Ordered(op, x, y) ==
  CASE op = "<" -> x < y [] op = "<=" -> x <= y [] op = ">" -> x > y
    [] op = ">=" -> x >= y [] op = "==" -> x = y [] op = "!=" -> x # y
Compare(m, op, a, b) ==
  IF a.k = "int" \/ b.k = "int"
  THEN Then(UnifyInts(m, <<a, b>>), LAMBDA u : Gives(u, BoolV(Ordered(op, a.val, b.val))))
  ELSE IF op \in {"==", "!="}
  THEN Gives(m, BoolV((Display(m, a) = Display(m, b)) <=> (op = "==")))
  ELSE Panics(m, "ordering comparison not supported")

\* -------------------------------------------------------- coercion and copy
Expects(m, ok, v, why) == IF ok THEN Gives(m, v) ELSE Errs(m, why)
Coerce(m, v, t) ==
  CASE t.k = "TyName" /\ t.name \in DOMAIN IntTypes ->
         IF v.k = "int" /\ v.ty = "" THEN WrapInt(m, v.val, t.name)
         ELSE Expects(m, v.k = "int" /\ v.ty = t.name, v, "expected another integer type")
    [] t.k = "TyName" /\ t.name \in {"bool", "str"} -> Expects(m, v.k = t.name, v, "expected")
    [] t.k = "TyName" /\ t.name = "unit" -> Gives(m, UNIT)
    [] t.k = "TyName" /\ t.name = "handle" -> Gives(m, v)
    [] t.k = "TyName" -> Expects(m, IsA(m, v, {"null", "struct", "enum", "sum"}), v, "expected type")
    [] t.k = "TyArray" -> Expects(m, IsA(m, v, {"null", "array"}), v, "expected array")
    [] t.k = "TyVec" -> Expects(m, IsA(m, v, {"null", "vec"}), v, "expected vector")
    [] t.k = "TyMap" -> Expects(m, IsA(m, v, {"null", "map"}), v, "expected map")
    [] t.k = "TyFunc" -> Expects(m, IsA(m, v, {"null", "closure", "builtin"}), v, "expected function")
    [] OTHER -> Gives(m, v)
CoerceLike(m, v, current) ==
  IF current.k = "int" /\ current.ty # "" THEN Coerce(m, v, TyName(current.ty)) ELSE Gives(m, v)

\* Structs are copied whenever they move, all the way down; the rest is shared.
RECURSIVE CopyValue(_, _), CopyFields(_, _, _, _)
\* mutant: structs are shared like the rest
CopyValue_Shares(m, v) == Gives(m, v)
CopyValue(m, v) ==
  IF IsA(m, v, {"struct"}) THEN CopyFields(m, At(m, v), At(m, v).fields, DOMAIN At(m, v).fields)
  ELSE Gives(m, v)
CopyFields(m, o, fs, todo) ==
  IF todo = {} THEN New(m, [o EXCEPT !.fields = fs])
  ELSE LET f == CHOOSE x \in todo : TRUE
           c == CopyValue(m, fs[f])
       IN  CopyFields(c, o, [fs EXCEPT ![f] = c.val], todo \ {f})

\* Coerce then copy: what happens to a value that is stored.
Stored(m, v, t) == Then(Coerce(m, v, t), LAMBDA c : CopyValue(c, c.val))

RECURSIVE ZeroValue(_, _), ZeroFields(_, _, _)
ZeroValue(m, t) ==
  CASE t.k = "TyName" /\ t.name \in DOMAIN IntTypes -> Gives(m, CInt(0, t.name))
    [] t.k = "TyName" /\ t.name = "bool" -> Gives(m, BoolV(FALSE))
    [] t.k = "TyName" /\ t.name = "str" -> Gives(m, StrV(""))
    [] t.k = "TyName" /\ FindStruct(m, t.name) # {} ->
         ZeroFields(m, CHOOSE d \in FindStruct(m, t.name) : TRUE, <<>>)
    [] OTHER -> Gives(m, NULL)
ZeroFields(m, d, fs) ==
  IF Keys(d.fields) \subseteq DOMAIN fs
  THEN New(m, [k |-> "struct", typename |-> d.name, fields |-> fs])
  ELSE LET f == CHOOSE x \in Keys(d.fields) \ DOMAIN fs : TRUE
           z == ZeroValue(m, ValueOf(d.fields, f))
       IN  ZeroFields(z, d, (f :> z.val) @@ fs)

\* --------------------------------------------- conditions, calls, literals
\* Truth: the value of a condition, for the two ways on.
Truth(m, F(_), G(_)) ==
  Then(m, LAMBDA c : IF c.val.k # "bool" THEN Panics(c, "condition must be bool")
                     ELSE IF c.val.val THEN F(c) ELSE G(c))
TypeName(m, v) ==
  CASE v.k = "int" -> v.ty
    [] v.k \in {"bool", "str"} -> v.k
    [] v.k = "enum" -> v.enum
    [] IsA(m, v, {"struct", "sum"}) -> At(m, v).typename
    [] OTHER -> ""
Deref(m, v) == IF v.k = "ref" THEN m.heap[v.at].value ELSE v

\* An element type must come with the literal or from its elements.
ElemType(m, e, want, vs) ==
  LET names == {TypeName(m, vs[i]) : i \in DOMAIN vs}
  IN  IF want.k = (IF e.k = "ArrayLit" THEN "TyArray" ELSE "TyVec") THEN want.elem
      ELSE IF Cardinality(names) = 1 /\ "" \notin names THEN TyName(CHOOSE n \in names : TRUE)
      ELSE None
ElemHint(e, want) ==
  IF want.k = (IF e.k = "ArrayLit" THEN "TyArray" ELSE "TyVec") THEN want.elem ELSE None

Lookup(m, n, env) ==
  LET c == CellOf(m.heap, env, n)
  IN  IF c # 0 THEN Gives(m, m.heap[c].value)
      ELSE IF n \in Builtins THEN Gives(m, Builtin(n))
      ELSE IF FindVariant(m, n) = {} THEN Errs(m, "undefined name")
      ELSE LET d == CHOOSE x \in FindVariant(m, n) : TRUE
           IN  IF VariantFields(d, n) # <<>> THEN Errs(m, "variant needs fields")
               ELSE New(m, [k |-> "sum", typename |-> d.name, variant |-> n, fields |-> <<>>])
LookupPath(m, parts) ==
  LET enums == {d \in DeclsOf(m.ms.decls, "EnumDecl") : d.name = parts[1]}
  IN  IF enums # {}
      THEN LET vs == (CHOOSE d \in enums : TRUE).variants
           IN  IF parts[2] \notin ToSet(vs) THEN Errs(m, "no such variant")
               ELSE Gives(m, EnumV(parts[1], parts[2], SelectInSeq(vs, LAMBDA v : v = parts[2]) - 1))
      ELSE IF parts[1] = "io" /\ parts[2] \in {"print", "println"} THEN Gives(m, Builtin(parts[2]))
      ELSE Errs(m, "cannot resolve path")

ItemAt(m, o, i, F(_, _)) ==
  IF Kind(m, o) \notin {"array", "vec"} THEN Panics(m, "indexing non-array")
  ELSE IF i.k # "int" THEN Panics(m, "array index must be an integer")
  ELSE IF i.val < 0 \/ i.val >= Len(At(m, o).items) THEN Panics(m, "index out of bounds")
  ELSE F(m, i.val + 1)

\* Maps keep their pairs in insertion order; only scalars can be keys.
KeyAt(m, o, key, F(_, _)) ==
  Then(Coerce(m, key, At(m, o).key), LAMBDA c :
    IF c.val.k \notin {"int", "bool", "str", "enum"} THEN Panics(c, "unhashable map key")
    ELSE F(c, SelectInSeq(At(c, o).data, LAMBDA p : p[1] = c.val)))
PutItem(m, o, key, v) ==
  Then(Coerce(m, key, At(m, o).key), LAMBDA k :
    Then(Stored(k, v, At(k, o).val), LAMBDA x :
      KeyAt(x, o, k.val, LAMBDA c, at :
        LET pair == <<c.val, x.val>>
        IN  [c EXCEPT !.heap[o.at].data =
               IF at = 0 THEN Append(@, pair) ELSE [@ EXCEPT ![at] = pair]])))

\* The functions that are part of the language. as: the evaluated arguments.
NeedsA(m, v, kinds, F(_)) == IF IsA(m, v, kinds) THEN F(m) ELSE Panics(m, "wrong collection")
CallBuiltin(m, n, as) ==
  CASE n \in {"print", "println"} ->
         Gives([m EXCEPT !.out = @ \o [i \in DOMAIN as |-> Display(m, as[i])]
                                   \o IF n = "println" THEN <<StrV("\n")>> ELSE <<>>], UNIT)
    [] n = "panic" -> Panics(m, "panic")
    [] n = "len" -> NeedsA(m, as[1], {"array", "vec", "map"}, LAMBDA c : Gives(c, CInt(
                      IF Kind(c, as[1]) = "map" THEN Len(At(c, as[1]).data)
                      ELSE Len(At(c, as[1]).items), "u64")))
    [] n = "push" -> NeedsA(m, as[1], {"vec"}, LAMBDA c :
                       Then(Stored(c, as[2], At(c, as[1]).elem), LAMBDA x :
                         Gives([x EXCEPT !.heap[as[1].at].items = Append(@, x.val)], UNIT)))
    [] n = "pop" -> NeedsA(m, as[1], {"vec"}, LAMBDA c :
                      IF At(c, as[1]).items = <<>> THEN Panics(c, "pop from empty vector")
                      ELSE Gives([c EXCEPT !.heap[as[1].at].items = Front(@)],
                                 Last(At(c, as[1]).items)))
    [] n = "map_has" -> NeedsA(m, as[1], {"map"}, LAMBDA c :
                          KeyAt(c, as[1], as[2], LAMBDA k, at : Gives(k, BoolV(at # 0))))
    [] n = "map_del" -> NeedsA(m, as[1], {"map"}, LAMBDA c :
                          KeyAt(c, as[1], as[2], LAMBDA k, at :
                            Gives(IF at = 0 THEN k ELSE [k EXCEPT !.heap[as[1].at].data =
                                                         RemoveAt(@, at)], UNIT)))
    [] n = "map_keys" -> NeedsA(m, as[1], {"map"}, LAMBDA c :
                           New(c, [k |-> "vec", elem |-> At(c, as[1]).key,
                                   items |-> Names(At(c, as[1]).data)]))

\* Parameters are coerced and copied one by one, left to right.
RECURSIVE BindArgs(_, _, _, _)
BindArgs(m, ps, as, env) ==
  IF ps = <<>> THEN m
  ELSE Then(Stored(m, Head(as), Head(ps)[2]), LAMBDA c :
         BindArgs(Define(c, env, Head(ps)[1], c.val, TRUE), Tail(ps), Tail(as), env))

\* What follows one run of a loop body: go on, leave the loop, or pass it on.
AfterBody(m, F(_)) ==
  CASE m.sig \in {"ok", "continue"} -> F([m EXCEPT !.sig = "ok"])
    [] m.sig = "break" -> [m EXCEPT !.sig = "ok"]
    [] OTHER -> m

\* -------------------------------------------------------------- evaluation
RECURSIVE Eval(_, _, _, _), EvalAll(_, _, _, _, _), EvalFields(_, _, _, _), Logic(_, _, _, _),
          ExecBlock(_, _, _), ExecIf(_, _, _, _), ExecWhile(_, _, _, _),
          ExecFor(_, _, _, _, _, _, _), ExecIn(_, _, _, _)

InScope(m, ss, env) == LET n == NewEnv(m, env) IN ExecBlock(n, ss, n.val.at)

\* Elements, operands and arguments, left to right; elements are coerced to hint.
EvalAll(m, es, env, hint, vs) ==
  IF es = <<>> THEN Gives(m, Values(vs))
  ELSE Then(Eval(m, Head(es), env, hint), LAMBDA v :
         Then(IF hint = None THEN v ELSE Coerce(v, v.val, hint), LAMBDA c :
           EvalAll(c, Tail(es), env, hint, Append(vs, c.val))))

CallValue(m, f, as) ==
  IF f.k = "builtin" THEN CallBuiltin(m, f.name, as)
  ELSE IF f.k # "closure" THEN Panics(m, "attempt to call non-function")
  ELSE IF Len(as) # Len(f.params) THEN Errs(m, "wrong number of arguments")
  ELSE Burn(NewEnv(m, f.env), LAMBDA n :
    LET env == n.val.at
        body == Then(BindArgs(n, f.params, as, env), LAMBDA b :
                  ExecBlock([b EXCEPT !.checked = FALSE], f.body, env))
        done == [body EXCEPT !.checked = m.checked,
                   !.sig = IF @ = "return" THEN "ok" ELSE @,
                   !.val = IF body.sig = "ok" THEN UNIT ELSE @]
    IN  Then(done, LAMBDA d :
          Then(IF f.ret = None THEN d ELSE Coerce(d, d.val, f.ret),
               LAMBDA r : CopyValue(r, r.val))))

\* Fields are evaluated in the order of the literal and must be all there.
EvalFields(m, spec, given, env) ==
  IF given = <<>> THEN Gives(m, <<>>)
  ELSE IF Head(given)[1] \notin Keys(spec) THEN Errs(m, "no such field")
  ELSE LET f == Head(given)[1]
           t == ValueOf(spec, f)
       IN  Then(Eval(m, Head(given)[2], env, t), LAMBDA v :
             Then(Stored(v, v.val, t), LAMBDA s :
               Then(EvalFields(s, spec, Tail(given), env), LAMBDA r :
                 Gives(r, r.val @@ (f :> s.val)))))
Construct(m, o, spec, given, env) ==
  Then(EvalFields(m, spec, given, env), LAMBDA r :
    IF DOMAIN r.val # Keys(spec) THEN Errs(r, "missing field")
    ELSE New(r, [o EXCEPT !.fields = r.val]))
EvalStructLit(m, e, env) ==
  LET n == IF e.typename.k = "Name" THEN e.typename.ident
           ELSE e.typename.parts[Len(e.typename.parts)]
      sums == FindVariant(m, n)
      structs == FindStruct(m, n)
  IN  IF sums # {}
      THEN LET d == CHOOSE x \in sums : TRUE
           IN  Construct(m, [k |-> "sum", typename |-> d.name, variant |-> n, fields |-> <<>>],
                         VariantFields(d, n), e.fields, env)
      ELSE IF structs = {} THEN Errs(m, "unknown struct")
      ELSE Construct(m, [k |-> "struct", typename |-> n, fields |-> <<>>],
                     (CHOOSE x \in structs : TRUE).fields, e.fields, env)

RECURSIVE CopyAll(_, _, _)
CopyAll(m, vs, i) ==
  IF i > Len(vs) THEN Gives(m, Values(vs))
  ELSE LET c == CopyValue(m, vs[i]) IN CopyAll(c, [vs EXCEPT ![i] = c.val], i + 1)
\* A vector literal copies each element as soon as it has its value.
RECURSIVE EvalItems(_, _, _, _, _)
EvalItems(m, es, env, hint, vs) ==
  IF es = <<>> THEN Gives(m, Values(vs))
  ELSE Then(EvalAll(m, <<Head(es)>>, env, hint, <<>>), LAMBDA v :
         LET c == CopyValue(v, v.val.items[1])
         IN  EvalItems(c, Tail(es), env, hint, Append(vs, c.val)))
\* An array literal holds the elements themselves.
EvalList(m, e, env, want) ==
  LET hint == ElemHint(e, want)
  IN  Then(IF e.k = "VecLit" THEN EvalItems(m, e.elements, env, hint, <<>>)
           ELSE EvalAll(m, e.elements, env, hint, <<>>), LAMBDA r :
        LET t == ElemType(r, e, want, r.val.items)
        IN  IF t = None THEN Errs(r, "cannot infer element type")
            ELSE New(r, [k |-> IF e.k = "ArrayLit" THEN "array" ELSE "vec",
                         elem |-> t, items |-> r.val.items]))
EvalArrayNew(m, e, env) ==
  Then(Eval(m, e.count, env, None), LAMBDA n :
    IF n.val.k # "int" THEN Panics(n, "array index must be an integer")
    ELSE IF n.val.val < 0 THEN Panics(n, "array length cannot be negative")
    ELSE LET z == ZeroValue(n, e.elem)
         IN  Then(CopyAll(z, [i \in 1..n.val.val |-> z.val], 1), LAMBDA c :
               New(c, [k |-> "array", elem |-> e.elem, items |-> c.val.items])))

\* and, or: stop at the first operand that decides. stop is that value.
Logic(m, es, env, stop) ==
  IF es = <<>> THEN Gives(m, BoolV(~stop))
  ELSE LET go(c) == Logic(c, Tail(es), env, stop)
           halt(c) == Gives(c, BoolV(stop))
       IN  IF stop THEN Truth(Eval(m, Head(es), env, None), halt, go)
           ELSE Truth(Eval(m, Head(es), env, None), go, halt)
EvalOp(m, e, env) ==
  CASE e.op = "and" -> Logic(m, e.args, env, FALSE)
    [] e.op = "or" -> Logic(m, e.args, env, TRUE)
    [] e.op = "not" -> Truth(Eval(m, e.args[1], env, None), LAMBDA c : Gives(c, BoolV(FALSE)),
                             LAMBDA c : Gives(c, BoolV(TRUE)))
    [] OTHER -> Then(EvalAll(m, e.args, env, None, <<>>), LAMBDA r :
         LET vs == r.val.items
         IN  CASE e.op \in ArithOps -> ArithOp(r, e.op, vs)
               [] e.op \in CompareOps -> Compare(r, e.op, vs[1], vs[2])
               [] OTHER -> Bitwise(r, e.op, vs))

EvalIndex(m, e, env) ==
  Then(Eval(m, e.obj, env, None), LAMBDA o :
    LET obj == Deref(o, o.val)
    IN  Then(IF Kind(o, obj) \notin {"map", "array", "vec"} THEN Panics(o, "indexing non-array")
             ELSE Eval(o, e.index, env, None), LAMBDA i :
          IF Kind(i, obj) = "map"
          THEN KeyAt(i, obj, i.val, LAMBDA c, at :
                 IF at = 0 THEN Panics(c, "map key not found") ELSE Gives(c, At(c, obj).data[at][2]))
          ELSE ItemAt(i, obj, i.val, LAMBDA c, at : Gives(c, At(c, obj).items[at]))))

Eval(m, e, env, want) ==
  CASE e.k = "IntLit" -> Gives(m, CInt(e.value, e.ty))
    [] e.k = "BoolLit" -> Gives(m, BoolV(e.value))
    [] e.k = "StrLit" -> Gives(m, StrV(e.value))
    [] e.k = "NullLit" -> Gives(m, NULL)
    [] e.k = "Name" -> Lookup(m, e.ident, env)
    [] e.k = "Path" -> LookupPath(m, e.parts)
    [] e.k = "FieldAccess" -> Then(Eval(m, e.obj, env, None), LAMBDA o :
         LET obj == Deref(o, o.val)
         IN  IF ~IsA(o, obj, {"struct"}) THEN Panics(o, "field access on non-struct")
             ELSE IF e.field \notin DOMAIN At(o, obj).fields THEN Panics(o, "no such field")
             ELSE Gives(o, At(o, obj).fields[e.field]))
    [] e.k = "Index" -> EvalIndex(m, e, env)
    [] e.k = "OpCall" -> EvalOp(m, e, env)
    [] e.k = "Cast" -> Then(Eval(m, e.expr, env, None), LAMBDA v :
         IF v.val.k = "int" THEN WrapInt(v, v.val.val, e.ty.name)
         ELSE Panics(v, "cannot cast non-numeric"))
    [] e.k = "Ref" -> LET c == CellOf(m.heap, env, e.place.ident)
                      IN  IF c = 0 THEN Errs(m, "cannot ref undefined") ELSE Gives(m, CellRef(c))
    [] e.k = "Call" -> Then(Eval(m, e.callee, env, None), LAMBDA f :
         Then(EvalAll(f, e.args, env, None, <<>>), LAMBDA r : CallValue(r, f.val, r.val.items)))
    [] e.k = "StructLit" -> EvalStructLit(m, e, env)
    [] e.k \in {"ArrayLit", "VecLit"} -> EvalList(m, e, env, want)
    [] e.k = "ArrayNew" -> EvalArrayNew(m, e, env)
    [] e.k = "VecNew" -> New(m, [k |-> "vec", elem |-> e.elem, items |-> <<>>])
    [] e.k = "MapNew" -> New(m, [k |-> "map", key |-> e.key, val |-> e.val, data |-> <<>>])
    [] e.k = "FuncLit" -> Gives(m, Closure(e.params, e.ret, e.body, env))

\* -------------------------------------------------------------- statements
\* The right-hand side is evaluated first, then the place that receives it.
ExecSet(m, s, env) ==
  Then(Eval(m, s.expr, env, None), LAMBDA r :
    LET t == s.target
        rhs == r.val
    IN  CASE t.k = "Name" ->
               LET c == CellOf(r.heap, env, t.ident)
               IN  IF c = 0 THEN Errs(r, "assignment to undefined")
                   ELSE IF ~r.heap[c].mutable THEN Errs(r, "cannot assign to immutable")
                   ELSE Then(CoerceLike(r, rhs, r.heap[c].value), LAMBDA v :
                          LET x == CopyValue(v, v.val) IN [x EXCEPT !.heap[c].value = x.val])
          [] t.k = "FieldAccess" -> Then(Eval(r, t.obj, env, None), LAMBDA o :
               LET obj == Deref(o, o.val)
               IN  IF ~IsA(o, obj, {"struct"}) THEN Panics(o, "field assignment on non-struct")
                   ELSE LET fs == At(o, obj).fields
                            cur == IF t.field \in DOMAIN fs THEN fs[t.field] ELSE NULL
                        IN  Then(CoerceLike(o, rhs, cur), LAMBDA v :
                              LET x == CopyValue(v, v.val)
                              IN  [x EXCEPT !.heap[obj.at].fields = (t.field :> x.val) @@ @]))
          [] t.k = "Index" -> Then(Eval(r, t.obj, env, None), LAMBDA o :
               LET obj == Deref(o, o.val)
               IN  Then(IF Kind(o, obj) \notin {"map", "array", "vec"}
                        THEN Panics(o, "index assignment on non-array")
                        ELSE Eval(o, t.index, env, None), LAMBDA i :
                     IF Kind(i, obj) = "map" THEN PutItem(i, obj, i.val, rhs)
                     ELSE ItemAt(i, obj, i.val, LAMBDA c, at :
                            Then(Stored(c, rhs, At(c, obj).elem), LAMBDA x :
                              [x EXCEPT !.heap[obj.at].items[at] = x.val])))))

ExecMatch(m, s, env) ==
  Then(Eval(m, s.scrutinee, env, None), LAMBDA v :
    IF ~IsA(v, v.val, {"sum"}) THEN Panics(v, "match on a non-sum value")
    ELSE LET o == At(v, v.val)
             arm == SelectInSeq(s.arms, LAMBDA a : a[1] = o.variant)
             spec == Names(VariantFields(CHOOSE d \in FindVariant(v, o.variant) : TRUE, o.variant))
             n == NewEnv(v, env)
             bind(acc, p) == Define(acc, n.val.at, p[1], o.fields[p[2]], FALSE)
         IN  IF arm # 0
             THEN ExecBlock(FoldLeft(bind, n, Zip(s.arms[arm][2], spec)), s.arms[arm][3], n.val.at)
             ELSE IF s.orelse # None THEN InScope(v, s.orelse.stmts, env)
             ELSE Panics(v, "no match arm"))

ExecIf(m, branches, orelse, env) ==
  IF branches = <<>> THEN IF orelse = None THEN m ELSE InScope(m, orelse.stmts, env)
  ELSE Truth(Eval(m, Head(branches)[1], env, None),
             LAMBDA c : InScope(c, Head(branches)[2], env),
             LAMBDA c : ExecIf(c, Tail(branches), orelse, env))
\* while, and loop with the condition true.
ExecWhile(m, cond, body, env) ==
  Truth(Eval(m, cond, env, None),
        LAMBDA c : Burn(c, LAMBDA b : AfterBody(InScope(b, body, env), LAMBDA a :
                     ExecWhile(a, cond, body, env))),
        LAMBDA c : c)
\* The counter of a numeric for is a number of the host language: it never wraps.
ExecFor(m, s, env, i, limit, step, t) ==
  IF i >= limit THEN m
  ELSE Burn(NewEnv(m, env), LAMBDA n :
         AfterBody(ExecBlock(Define(n, n.val.at, s.var, CInt(i, t), TRUE), s.body, n.val.at),
           LAMBDA a : ExecFor(a, s, env, i + step, limit, step, t)))
ExecForNum(m, s, env) ==
  Then(EvalAll(m, <<s.start, s.end>> \o IF s.step = None THEN <<>> ELSE <<s.step>>, env, None, <<>>),
       LAMBDA r : Then(UnifyInts(r, r.val.items), LAMBDA u :
         LET vs == r.val.items
         IN  ExecFor(u, s, env, vs[1].val, vs[2].val, IF s.step = None THEN 1 ELSE vs[3].val,
                     IF u.val.val = "" THEN "i32" ELSE u.val.val)))
\* for-in runs over the items the collection had when the loop began.
ExecIn(m, s, env, items) ==
  IF items = <<>> THEN m
  ELSE LET n == NewEnv(m, env)
           c == CopyValue(n, Head(items))
       IN  Burn(Define(c, n.val.at, s.var, c.val, TRUE), LAMBDA b :
             AfterBody(ExecBlock(b, s.body, n.val.at), LAMBDA a : ExecIn(a, s, env, Tail(items))))

ExecLet(m, s, env) ==
  Then(Eval(m, s.expr, env, s.ty), LAMBDA v :
    Then(IF s.ty # None THEN Coerce(v, v.val, s.ty)
         ELSE IF v.val.k = "int" /\ v.val.ty = "" THEN Errs(v, "cannot infer type") ELSE v,
         LAMBDA c : LET x == CopyValue(c, c.val) IN Define(x, env, s.name, x.val, s.mutable)))

ExecStmt(m, s, env) ==
  CASE s.k = "Let" -> ExecLet(m, s, env)
    [] s.k = "Set" -> ExecSet(m, s, env)
    [] s.k = "Do" -> Eval(m, s.call, env, None)
    [] s.k = "If" -> ExecIf(m, s.branches, s.orelse, env)
    [] s.k = "While" -> ExecWhile(m, s.cond, s.body, env)
    [] s.k = "Loop" -> ExecWhile(m, BoolLit(TRUE), s.body, env)
    [] s.k = "ForNum" -> ExecForNum(m, s, env)
    [] s.k = "ForIn" -> Then(Eval(m, s.iterable, env, None), LAMBDA c :
         IF IsA(c, c.val, {"array", "vec"}) THEN ExecIn(c, s, env, At(c, c.val).items)
         ELSE Panics(c, "for-in expects an array or vector"))
    [] s.k = "Break" -> Raises(m, "break", "")
    [] s.k = "Continue" -> Raises(m, "continue", "")
    [] s.k = "Return" -> Then(IF s.expr = None THEN Gives(m, UNIT) ELSE Eval(m, s.expr, env, None),
                              LAMBDA v : [v EXCEPT !.sig = "return"])
    [] s.k = "Checked" -> [InScope([m EXCEPT !.checked = TRUE], s.body, env)
                             EXCEPT !.checked = m.checked]
    [] s.k = "Match" -> ExecMatch(m, s, env)
    [] s.k = "Pass" -> m
ExecBlock(m, ss, env) ==
  IF ss = <<>> THEN m
  ELSE Then(ExecStmt(m, Head(ss), env), LAMBDA n : ExecBlock(n, Tail(ss), env))

\* ------------------------------------------------------------------ modules
\* Functions and constants are defined in the order they are written.
Populate(m, ds) ==
  LET one(acc, d) ==
        CASE d.k = "FuncDecl" -> Then(acc, LAMBDA a :
               Define(a, 1, d.name, Closure(d.params, d.ret, d.body, 1), FALSE))
          [] d.k = "ConstDecl" -> Then(acc, LAMBDA a : Then(Eval(a, d.expr, 1, None), LAMBDA v :
               Then(IF d.ty = None THEN v ELSE Coerce(v, v.val, d.ty), LAMBDA c :
                 Define(c, 1, d.name, c.val, FALSE))))
          [] OTHER -> acc
  IN  FoldLeft(one, m, ds)

Start(ds) ==
  [heap |-> <<[k |-> "env", vars |-> <<>>, parent |-> 0]>>, out |-> <<>>, checked |-> FALSE,
   sig |-> "ok", val |-> UNIT, fuel |-> Fuel, ms |-> [decls |-> ds]]
Run(ds) ==
  Then(Populate(Start(ds), ds), LAMBDA m :
    IF CellOf(m.heap, 1, "main") = 0 THEN Errs(m, "no 'main' function")
    ELSE CallValue(m, m.heap[CellOf(m.heap, 1, "main")].value, <<>>))

\* What the outside sees of an execution: what it printed and how it ended.
\* A break or continue that leaves main is an exception nobody handles.
Ending(m) ==
  CASE m.sig = "ok" -> "done" [] m.sig \in {"break", "continue"} -> "crash" [] OTHER -> m.sig
Outcome(m) ==
  [out |-> m.out, end |-> Ending(m), code |-> IF m.sig = "ok" /\ m.val.k = "int" THEN m.val.val ELSE 0]
=============================================================================
