------------------------------ MODULE Checker -------------------------------
(***************************************************************************)
(* The static type checker of the bootstrap. Checking an expression gives *)
(* its type, the expression with its type stamped on it (the field ctype, *)
(* which the lowering reads), and the errors that were reported; checking *)
(* a statement gives the scope that the next statement sees as well.      *)
(*                                                                         *)
(* Errors are kept as a set of kinds. Only whether it is empty decides if *)
(* the program is accepted, so what would be reported about an expression *)
(* that already has an error is left out. Floats, characters, inline asm, *)
(* the modules other than io, the builtin to_str and the signature that   *)
(* functions named <T>_to_str must have are left out too.                 *)
(***************************************************************************)
EXTENDS Ast, Ints
LOCAL INSTANCE SequencesExt

\* A type names its module: two modules may define one name.
IntT(n) == [k |-> "IntT", name |-> n]
PrimT(n) == [k |-> "PrimT", name |-> n]
StructT(q) == [k |-> "StructT", name |-> q]
EnumT(q) == [k |-> "EnumT", name |-> q]
SumT(q) == [k |-> "SumT", name |-> q]
ArrayT(t) == [k |-> "ArrayT", elem |-> t]
VecT(t) == [k |-> "VecT", elem |-> t]
MapT(kt, vt) == [k |-> "MapT", key |-> kt, val |-> vt]
FuncT(ps, r) == [k |-> "FuncT", params |-> ps, ret |-> r]
UINT_LIT == [k |-> "UntypedIntT"]
NULLT == [k |-> "NullT"]
NEVER == [k |-> "NeverT"]
BOOL == PrimT("bool")
STR == PrimT("str")
UNITT == PrimT("unit")
HANDLE == PrimT("handle")
U64 == IntT("u64")

IsIntLike(t) == t.k \in {"IntT", "UntypedIntT"}
IsHashable(t) == t.k \in {"IntT", "EnumT"} \/ t \in {STR, BOOL}
\* Types null can be assigned to.
TakesNull(t) == t.k \in {"StructT", "EnumT", "SumT", "ArrayT", "VecT", "MapT", "FuncT"}
                  \/ t \in {STR, HANDLE}

Result(t, e, errs) == [t |-> t, e |-> ("ctype" :> t) @@ e, errs |-> errs]
ErrorsOf(rs) == UNION {rs[i].errs : i \in DOMAIN rs}
Trees(rs) == Listed([i \in DOMAIN rs |-> rs[i].e])
Unless(ok, why) == IF ok THEN {} ELSE {why}

\* --------------------------------------------------------------- signatures
\* The declarations of one module, by name. consts: None until it is checked.
Declared(ds, kind) == {d.name : d \in DeclsOf(ds, kind)}
Decl(ds, kind, n) == CHOOSE d \in DeclsOf(ds, kind) : d.name = n
Qual(sig, n) == <<sig.name, n>>

RECURSIVE Resolve(_, _)
Resolve(node, sig) ==
  CASE node.k = "None" -> UNITT
    [] node.k = "TyName" ->
         (CASE node.name \in DOMAIN IntTypes -> IntT(node.name)
            [] node.name \in {"bool", "str", "unit", "handle"} -> PrimT(node.name)
            [] node.name \in Declared(sig.decls, "StructDecl") -> StructT(Qual(sig, node.name))
            [] node.name \in Declared(sig.decls, "EnumDecl") -> EnumT(Qual(sig, node.name))
            [] node.name \in Declared(sig.decls, "SumDecl") -> SumT(Qual(sig, node.name))
            [] OTHER -> UNITT)
    [] node.k = "TyArray" -> ArrayT(Resolve(node.elem, sig))
    [] node.k = "TyVec" -> VecT(Resolve(node.elem, sig))
    [] node.k = "TyMap" -> MapT(Resolve(node.key, sig), Resolve(node.val, sig))
    [] node.k = "TyFunc" -> FuncT([i \in DOMAIN node.params |-> Resolve(node.params[i], sig)],
                                  Resolve(node.ret, sig))
\* What resolve reports: unknown names, and unhashable keys of map types.
RECURSIVE TypeErrors(_, _)
TypeErrors(node, sig) ==
  CASE node.k = "TyName" ->
         Unless(node.name \in DOMAIN IntTypes \cup {"bool", "str", "unit", "handle"}
                  \cup UNION {Declared(sig.decls, d) : d \in {"StructDecl", "EnumDecl", "SumDecl"}},
                "unknown type")
    [] node.k \in {"TyArray", "TyVec"} -> TypeErrors(node.elem, sig)
    [] node.k = "TyMap" -> TypeErrors(node.key, sig) \cup TypeErrors(node.val, sig)
                             \cup Unless(IsHashable(Resolve(node.key, sig)), "key not hashable")
    [] node.k = "TyFunc" -> TypeErrors(node.ret, sig)
                              \cup UNION {TypeErrors(node.params[i], sig) : i \in DOMAIN node.params}
    [] OTHER -> {}

Resolved(pairs, sig) == [i \in DOMAIN pairs |-> Resolve(pairs[i][2], sig)]
PairErrors(pairs, sig) == UNION {TypeErrors(pairs[i][2], sig) : i \in DOMAIN pairs}
BuildSig(mod, ds) ==
  LET s == [name |-> mod, decls |-> ds]
      fs == DeclsOf(ds, "FuncDecl")
  IN  [name |-> mod, decls |-> ds,
       funcs |-> [n \in {d.name : d \in fs} |->
                    LET d == CHOOSE x \in fs : x.name = n
                    IN  FuncT(Resolved(d.params, s), Resolve(d.ret, s))],
       consts |-> [n \in Declared(ds, "ConstDecl") |->
                     LET t == Decl(ds, "ConstDecl", n).ty
                     IN  IF t = None THEN None ELSE Resolve(t, s)]]
\* The variants of all sums share one table.
Variants(ds) ==
  FlattenSeq([i \in DOMAIN ds |-> IF ds[i].k = "SumDecl" THEN Names(ds[i].variants) ELSE <<>>])
SigErrors(sig) ==
  Unless(IsInjective(Variants(sig.decls)), "duplicate variant name") \cup
  UNION {CASE d.k = "FuncDecl" -> PairErrors(d.params, sig) \cup TypeErrors(d.ret, sig)
           [] d.k = "StructDecl" -> PairErrors(d.fields, sig)
           [] d.k = "SumDecl" -> UNION {PairErrors(d.variants[i][2], sig) : i \in DOMAIN d.variants}
           [] d.k = "ConstDecl" -> TypeErrors(d.ty, sig)
           [] OTHER -> {} : d \in {sig.decls[i] : i \in DOMAIN sig.decls}}

LookupValue(sig, n) ==
  CASE n \in DOMAIN sig.funcs -> sig.funcs[n]
    [] n \in DOMAIN sig.consts -> sig.consts[n]
    [] OTHER -> None
StructFields(q, sig) == Decl(sig.decls, "StructDecl", q[2]).fields
SumOf(sig, variant) ==
  {d \in DeclsOf(sig.decls, "SumDecl") : variant \in Keys(d.variants)}

\* -------------------------------------------------------- relating two types
CoerceErrs(got, want) ==
  CASE want = None \/ got = NEVER \/ got = want -> {}
    [] want.k = "IntT" -> Unless(got = UINT_LIT, "expected another type")
    [] TakesNull(want) /\ got = NULLT -> {}
    [] OTHER -> Unless(want \in {UNITT, HANDLE}, "expected another type")
\* The expression is stamped with the type it is coerced to.
Coerced(r, want) ==
  IF want = None THEN r ELSE Result(want, r.e, r.errs \cup CoerceErrs(r.t, want))
Concrete(r) ==
  CASE r.t = UINT_LIT -> [r EXCEPT !.t = IntT("i32"), !.errs = @ \cup {"cannot infer type"}]
    [] r.t \in {NULLT, NEVER} -> [r EXCEPT !.t = UNITT, !.errs = @ \cup {"cannot infer type"}]
    [] OTHER -> r
BoolErrs(r) == r.errs \cup Unless(r.t = BOOL, "condition must be bool")

\* The one type of integer operands: [t, errs].
Unify(ts) ==
  LET all == {ts[i] : i \in DOMAIN ts}
      concrete == {t \in all : t.k = "IntT"}
  IN  IF \E t \in all : ~IsIntLike(t) THEN [t |-> UNITT, errs |-> {"not an integer"}]
      ELSE [t |-> IF concrete = {} THEN UINT_LIT ELSE CHOOSE t \in concrete : TRUE,
            errs |-> Unless(Cardinality(concrete) <= 1, "mismatched integer types")]
ComparableErrs(op, a, b) ==
  LET aggregate == {"StructT", "SumT", "ArrayT", "VecT", "MapT", "FuncT"}
      u == Unify(<<a, b>>)
  IN  IF IsIntLike(a) /\ IsIntLike(b)
      THEN u.errs \cup Unless(u.t # UINT_LIT, "comparison of untyped literals")
      ELSE Unless(op \in {"==", "!="} /\ {a.k, b.k} \cap aggregate = {}
                    /\ (a = b \/ NULLT \in {a, b}), "cannot compare")

LiteralErrs(v, t) == Unless(t.k # "IntT" \/ v \in 0..Greatest(t.name), "literal out of range")

\* -------------------------------------------------------------- expressions
RECURSIVE CheckExpr(_, _, _, _), CheckBlock(_, _, _, _), CheckPlace(_, _, _)

\* Expressions one by one, each with the type that is expected of it.
CheckAll(es, scope, sig, wants) ==
  Listed([i \in DOMAIN es |->
            CheckExpr(es[i], scope, sig, IF i \in DOMAIN wants THEN wants[i] ELSE None)])
CoerceAll(rs, wants) ==
  Listed([i \in DOMAIN rs |-> IF i \in DOMAIN wants THEN Coerced(rs[i], wants[i]) ELSE rs[i]])
Same(es, want) == [i \in DOMAIN es |-> want]

CheckName(e, scope, sig) ==
  LET v == LookupValue(sig, e.ident)
      sums == SumOf(sig, e.ident)
  IN  CASE e.ident \in DOMAIN scope -> Result(scope[e.ident][1], e, {})
        [] v # None -> Result(v, e, {})
        [] e.ident = "len" -> Result(FuncT(<<>>, U64), e, {})
        [] e.ident = "panic" -> Result(FuncT(<<>>, NEVER), e, {})
        [] sums # {} -> LET d == CHOOSE x \in sums : TRUE
                        IN  Result(SumT(Qual(sig, d.name)), e,
                                   Unless(ValueOf(d.variants, e.ident) = <<>>, "variant needs fields"))
        [] OTHER -> Result(UNITT, e, {"undefined name"})
CheckPath(e, sig) ==
  IF e.parts[1] \in Declared(sig.decls, "EnumDecl")
  THEN Result(EnumT(Qual(sig, e.parts[1])), e,
              Unless(e.parts[2] \in ToSet(Decl(sig.decls, "EnumDecl", e.parts[1]).variants), "no variant"))
  ELSE Result(FuncT(<<>>, UNITT), e,
              Unless(e.parts[1] = "io" /\ e.parts[2] \in {"print", "println"}, "cannot resolve path"))

\* When one operand has a concrete type, all are checked again against it: a
\* literal operand that is out of its range is an error.
CheckOp(e, scope, sig) ==
  LET logic == e.op \in {"and", "or", "not"}
      first == CheckAll(e.args, scope, sig, Same(e.args, IF logic THEN BOOL ELSE None))
      ts == [i \in DOMAIN first |-> first[i].t]
      pin == SelectInSeq(ts, LAMBDA t : t.k = "IntT")
      rs == IF logic \/ pin = 0 THEN first ELSE CheckAll(e.args, scope, sig, Same(e.args, ts[pin]))
      tree == [e EXCEPT !.args = Trees(rs)]
      errs == ErrorsOf(first) \cup ErrorsOf(rs)
  IN  CASE logic -> Result(BOOL, tree, errs \cup UNION {BoolErrs(rs[i]) : i \in DOMAIN rs})
        [] e.op \in CompareOps -> Result(BOOL, tree, errs \cup ComparableErrs(e.op, ts[1], ts[2]))
        [] OTHER -> Result(Unify(ts).t, tree, errs \cup Unify(ts).errs)

\* The functions that are part of the language: [t, errs] for argument types.
BuiltinType(n, ts) ==
  LET arity == IF n \in {"map_has", "map_del", "push"} THEN 2 ELSE 1
      a == IF ts = <<>> THEN UNITT ELSE ts[1]
      ok(kinds, want, t) ==
        [t |-> t, errs |-> IF Len(ts) # arity \/ a.k \notin kinds THEN {"wrong argument"}
                           ELSE IF arity = 1 THEN {} ELSE CoerceErrs(ts[2], want)]
  IN  CASE n = "panic" -> [t |-> NEVER, errs |-> {}]
        [] n = "len" -> ok({"ArrayT", "VecT", "MapT"} \cup IF a = STR THEN {"PrimT"} ELSE {}, None, U64)
        [] n \in {"map_has", "map_del"} ->
             ok({"MapT"}, IF a.k = "MapT" THEN a.key ELSE None, IF n = "map_has" THEN BOOL ELSE UNITT)
        [] n = "map_keys" -> ok({"MapT"}, None, IF a.k = "MapT" THEN VecT(a.key) ELSE UNITT)
        [] n = "push" -> ok({"VecT"}, IF a.k = "VecT" THEN a.elem ELSE None, UNITT)
        [] n = "pop" -> ok({"VecT"}, None, IF a.k = "VecT" THEN a.elem ELSE UNITT)
BuiltinNames == {"panic", "len", "push", "pop", "map_has", "map_del", "map_keys"}
CheckBuiltin(e, scope, sig) ==
  LET head == CheckAll(SubSeq(e.args, 1, Min({1, Len(e.args)})), scope, sig, <<>>)
      want == IF head = <<>> THEN None
              ELSE IF head[1].t.k = "MapT" THEN head[1].t.key
              ELSE IF head[1].t.k = "VecT" THEN head[1].t.elem ELSE None
      rs == CheckAll(e.args, scope, sig, <<None, want>>)
      b == BuiltinType(e.callee.ident, [i \in DOMAIN rs |-> rs[i].t])
      stamped == IF e.callee.ident = "panic" THEN rs ELSE CoerceAll(rs, <<None, want>>)
  IN  Result(b.t, [e EXCEPT !.args = Trees(stamped)], ErrorsOf(rs) \cup b.errs)

CheckCall(e, scope, sig) ==
  IF e.callee.k = "Name" /\ e.callee.ident \in BuiltinNames THEN CheckBuiltin(e, scope, sig)
  ELSE IF e.callee.k = "Path" /\ e.callee.parts[1] = "io"
  THEN LET rs == CheckAll(e.args, scope, sig, <<>>)
       IN  Result(UNITT, [e EXCEPT !.args = Trees(rs)], ErrorsOf(rs) \cup
             Unless(\A i \in DOMAIN rs : rs[i].t # UINT_LIT, "untyped literal"))
  ELSE LET f == CheckExpr(e.callee, scope, sig, None)
           wants == IF f.t.k = "FuncT" THEN f.t.params ELSE <<>>
           rs == CoerceAll(CheckAll(e.args, scope, sig, wants), wants)
       IN  Result(IF f.t.k = "FuncT" THEN f.t.ret ELSE UNITT,
                  [e EXCEPT !.callee = f.e, !.args = Trees(rs)],
                  f.errs \cup ErrorsOf(rs) \cup Unless(f.t.k = "FuncT", "not a function")
                    \cup Unless(Len(e.args) = Len(wants), "wrong number of arguments"))

CheckStructLit(e, scope, sig) ==
  LET n == IF e.typename.k = "Name" THEN e.typename.ident ELSE Last(e.typename.parts)
      sums == SumOf(sig, n)
      known == sums # {} \/ n \in Declared(sig.decls, "StructDecl")
      sum == CHOOSE x \in sums : TRUE
      fs == IF sums # {} THEN ValueOf(sum.variants, n)
            ELSE IF known THEN Decl(sig.decls, "StructDecl", n).fields ELSE <<>>
      wants == [i \in DOMAIN e.fields |->
                  IF e.fields[i][1] \in Keys(fs) THEN Resolve(ValueOf(fs, e.fields[i][1]), sig) ELSE None]
      rs == CoerceAll(CheckAll([i \in DOMAIN e.fields |-> e.fields[i][2]], scope, sig, wants), wants)
      tree == [e EXCEPT !.fields = [i \in DOMAIN @ |-> <<@[i][1], rs[i].e>>]]
  IN  Result(IF sums # {} THEN SumT(Qual(sig, sum.name)) ELSE IF known THEN StructT(Qual(sig, n)) ELSE UNITT,
             tree, ErrorsOf(rs) \cup Unless(known, "unknown struct or variant")
                     \cup Unless(Keys(e.fields) = Keys(fs), "fields do not match"))

\* Array and vector literals: the elements give the type when nothing else does.
CheckList(e, scope, sig, want) ==
  LET of(t) == IF e.k = "ArrayLit" THEN ArrayT(t) ELSE VecT(t)
      hint == IF want.k = of(UNITT).k THEN want.elem ELSE None
      rs == CoerceAll(CheckAll(e.elements, scope, sig, Same(e.elements, hint)), Same(e.elements, hint))
      concrete == {rs[i].t : i \in DOMAIN rs} \ {UINT_LIT}
      known == hint # None \/ Cardinality(concrete) = 1
  IN  Result(of(IF hint # None THEN hint ELSE IF known THEN CHOOSE t \in concrete : TRUE ELSE UNITT),
             [e EXCEPT !.elements = Trees(rs)],
             ErrorsOf(rs) \cup Unless(known, "cannot infer element type"))

CheckIndex(e, scope, sig) ==
  LET o == CheckExpr(e.obj, scope, sig, None)
      key == IF o.t.k = "MapT" THEN o.t.key ELSE U64
      i == CheckExpr(e.index, scope, sig, key)
      ix == IF o.t.k = "MapT" THEN Coerced(i, key)
            ELSE [i EXCEPT !.errs = @ \cup Unless(IsIntLike(i.t), "index must be an integer")]
  IN  Result(CASE o.t.k = "MapT" -> o.t.val [] o.t.k \in {"ArrayT", "VecT"} -> o.t.elem
               [] OTHER -> UNITT,
             [e EXCEPT !.obj = o.e, !.index = ix.e],
             o.errs \cup ix.errs \cup Unless(o.t.k \in {"MapT", "ArrayT", "VecT"}, "indexing a non-array"))

FieldType(t, f, sig) ==
  IF t.k = "StructT" /\ f \in Keys(StructFields(t.name, sig))
  THEN Resolve(ValueOf(StructFields(t.name, sig), f), sig) ELSE None

Bind(scope, pairs, ts) ==
  [n \in Keys(pairs) |-> <<ts[SelectLastInSeq(pairs, LAMBDA p : p[1] = n)], TRUE>>] @@ scope
CheckFuncLit(e, scope, sig) ==
  LET ps == Resolved(e.params, sig)
      r == Resolve(e.ret, sig)
      b == CheckBlock(e.body, Bind(scope, e.params, ps), sig, r)
  IN  Result(FuncT(ps, r), [e EXCEPT !.body = b.ss],
             b.errs \cup PairErrors(e.params, sig) \cup TypeErrors(e.ret, sig))

CheckExpr(e, scope, sig, want) ==
  CASE e.k = "IntLit" /\ e.ty # "" -> Result(IntT(e.ty), e, LiteralErrs(e.value, IntT(e.ty)))
    [] e.k = "IntLit" -> Result(UINT_LIT, e, IF want = None THEN {} ELSE LiteralErrs(e.value, want))
    [] e.k = "BoolLit" -> Result(BOOL, e, {})
    [] e.k = "StrLit" -> Result(STR, e, {})
    [] e.k = "NullLit" -> Result(NULLT, e, {})
    [] e.k = "Name" -> CheckName(e, scope, sig)
    [] e.k = "Path" -> CheckPath(e, sig)
    [] e.k = "FieldAccess" ->
         LET o == CheckExpr(e.obj, scope, sig, None)
             t == FieldType(o.t, e.field, sig)
         IN  Result(IF t = None THEN UNITT ELSE t, [e EXCEPT !.obj = o.e],
                    o.errs \cup Unless(t # None, "no such field"))
    [] e.k = "Index" -> CheckIndex(e, scope, sig)
    [] e.k = "OpCall" -> CheckOp(e, scope, sig)
    [] e.k = "Cast" ->
         LET v == CheckExpr(e.expr, scope, sig, None)
             t == Resolve(e.ty, sig)
         IN  Result(t, [e EXCEPT !.expr = v.e],
                    v.errs \cup Unless(t.k = "IntT" /\ IsIntLike(v.t), "cannot cast"))
    [] e.k = "Ref" -> LET p == CheckExpr(e.place, scope, sig, None)
                      IN  Result(HANDLE, [e EXCEPT !.place = p.e], p.errs)
    [] e.k = "Call" -> CheckCall(e, scope, sig)
    [] e.k = "StructLit" -> CheckStructLit(e, scope, sig)
    [] e.k \in {"ArrayLit", "VecLit"} -> CheckList(e, scope, sig, want)
    [] e.k = "ArrayNew" -> LET n == CheckExpr(e.count, scope, sig, U64)
                           IN  Result(ArrayT(Resolve(e.elem, sig)), [e EXCEPT !.count = n.e],
                                      n.errs \cup TypeErrors(e.elem, sig))
    [] e.k = "VecNew" -> Result(VecT(Resolve(e.elem, sig)), e, TypeErrors(e.elem, sig))
    [] e.k = "MapNew" -> Result(MapT(Resolve(e.key, sig), Resolve(e.val, sig)), e,
                                TypeErrors(e.key, sig) \cup TypeErrors(e.val, sig))
    [] e.k = "FuncLit" -> CheckFuncLit(e, scope, sig)

\* --------------------------------------------------------------- statements
\* A place: its type, whether it may be assigned, whether it is in a map's copy.
Place(t, mut, copy, e, errs) ==
  [t |-> t, mutable |-> mut, copy |-> copy, e |-> e, errs |-> errs]
CheckPlace(e, scope, sig) ==
  CASE e.k = "Name" /\ e.ident \in DOMAIN scope ->
         Place(scope[e.ident][1], scope[e.ident][2], FALSE, e, {})
    [] e.k = "Name" /\ LookupValue(sig, e.ident) # None ->
         Place(LookupValue(sig, e.ident), FALSE, FALSE, e, {})
    [] e.k = "FieldAccess" ->
         LET o == CheckPlace(e.obj, scope, sig)
             t == FieldType(o.t, e.field, sig)
         IN  Place(IF t = None THEN UNITT ELSE t, o.mutable, FALSE, [e EXCEPT !.obj = o.e],
                   o.errs \cup Unless(t # None, "no such field")
                     \cup Unless(~o.copy, "field of a map element"))
    [] e.k = "Index" ->
         LET o == CheckPlace(e.obj, scope, sig)
             map == o.t.k = "MapT"
             ix == CheckExpr(e.index, scope, sig, IF map THEN o.t.key ELSE U64)
             i == IF map THEN Coerced(ix, o.t.key) ELSE ix
         IN  Place(IF map THEN o.t.val ELSE IF o.t.k \in {"ArrayT", "VecT"} THEN o.t.elem ELSE UNITT,
                   o.mutable, map, [e EXCEPT !.obj = o.e, !.index = i.e],
                   o.errs \cup i.errs \cup Unless(map \/ IsIntLike(i.t), "index must be an integer")
                     \cup Unless(o.t.k \in {"MapT", "ArrayT", "VecT"}, "indexing a non-array"))
    [] OTHER -> Place(UNITT, FALSE, FALSE, e, {"invalid assignment target"})

Stmt(s, scope, errs) == [s |-> s, scope |-> scope, errs |-> errs]

CheckMatch(s, scope, sig, ret) ==
  LET v == CheckExpr(s.scrutinee, scope, sig, None)
      sum == v.t.k = "SumT"
      table == IF sum THEN Decl(sig.decls, "SumDecl", v.t.name[2]).variants ELSE <<>>
      fields(a) == IF a[1] \in Keys(table) THEN ValueOf(table, a[1]) ELSE <<>>
      bound(a) == [n \in ToSet(a[2]) |->
        LET i == SelectLastInSeq(a[2], LAMBDA x : x = n)
        IN  <<IF i <= Len(fields(a)) THEN Resolve(fields(a)[i][2], sig) ELSE UNITT, FALSE>>]
      arms == Listed([i \in DOMAIN s.arms |->
                 CheckBlock(s.arms[i][3], bound(s.arms[i]) @@ scope, sig, ret)])
      els == CheckBlock(IF s.orelse = None THEN <<>> ELSE s.orelse.stmts, scope, sig, ret)
      armErrs(a) == Unless(a[1] \in Keys(table), "not a variant")
                      \cup Unless(Len(a[2]) = Len(fields(a)), "wrong number of bindings")
  IN  Stmt([s EXCEPT !.scrutinee = v.e,
              !.arms = [i \in DOMAIN @ |-> <<@[i][1], @[i][2], arms[i].ss>>],
              !.orelse = IF @ = None THEN None ELSE Block(els.ss)], scope,
           v.errs \cup ErrorsOf(arms) \cup els.errs \cup Unless(sum, "match on a non-sum")
             \cup UNION {armErrs(s.arms[i]) : i \in DOMAIN s.arms}
             \cup Unless(s.orelse # None \/ Keys(s.arms) = Keys(table), "non-exhaustive match"))

CheckIf(s, scope, sig, ret) ==
  LET cs == Listed([i \in DOMAIN s.branches |-> CheckExpr(s.branches[i][1], scope, sig, BOOL)])
      bs == Listed([i \in DOMAIN s.branches |-> CheckBlock(s.branches[i][2], scope, sig, ret)])
      els == CheckBlock(IF s.orelse = None THEN <<>> ELSE s.orelse.stmts, scope, sig, ret)
  IN  Stmt([s EXCEPT !.branches = [i \in DOMAIN @ |-> <<cs[i].e, bs[i].ss>>],
                     !.orelse = IF @ = None THEN None ELSE Block(els.ss)], scope,
           UNION {BoolErrs(cs[i]) : i \in DOMAIN cs} \cup ErrorsOf(bs) \cup els.errs)

\* The counter has the one type of its bounds; i32 when they are all literals.
CheckForNum(s, scope, sig, ret) ==
  LET rs == CheckAll(<<s.start, s.end>> \o IF s.step = None THEN <<>> ELSE <<s.step>>, scope, sig, <<>>)
      u == Unify([i \in DOMAIN rs |-> rs[i].t])
      t == IF u.t = UINT_LIT THEN IntT("i32") ELSE u.t
      b == CheckBlock(s.body, (s.var :> <<t, TRUE>>) @@ scope, sig, ret)
  IN  Stmt([s EXCEPT !.start = rs[1].e, !.end = rs[2].e, !.body = b.ss,
                     !.step = IF @ = None THEN None ELSE rs[3].e],
           scope, ErrorsOf(rs) \cup u.errs \cup b.errs)

CheckLet(s, scope, sig) ==
  LET want == IF s.ty = None THEN None ELSE Resolve(s.ty, sig)
      v == CheckExpr(s.expr, scope, sig, want)
      r == IF want = None THEN Concrete(v) ELSE Coerced(v, want)
  IN  Stmt([s EXCEPT !.expr = r.e], (s.name :> <<r.t, s.mutable>>) @@ scope,
           r.errs \cup TypeErrors(s.ty, sig))
\* mutant: any place may be assigned
CheckSet_AnyPlace(s, scope, sig) ==
  LET p == CheckPlace(s.target, scope, sig)
      v == Coerced(CheckExpr(s.expr, scope, sig, p.t), p.t)
  IN  Stmt([s EXCEPT !.target = p.e, !.expr = v.e], scope, p.errs \cup v.errs)
CheckSet(s, scope, sig) ==
  LET p == CheckPlace(s.target, scope, sig)
      v == Coerced(CheckExpr(s.expr, scope, sig, p.t), p.t)
  IN  Stmt([s EXCEPT !.target = p.e, !.expr = v.e], scope,
           IF p.errs # {} THEN p.errs
           ELSE v.errs \cup Unless(p.mutable, "cannot assign to an immutable binding"))

CheckStmt(s, scope, sig, ret) ==
  LET body == CheckBlock(s.body, scope, sig, ret)
  IN  CASE s.k = "Let" -> CheckLet(s, scope, sig)
        [] s.k = "Set" -> CheckSet(s, scope, sig)
        [] s.k = "Do" -> LET c == CheckExpr(s.call, scope, sig, None)
                         IN  Stmt([s EXCEPT !.call = c.e], scope,
                                  c.errs \cup Unless(c.t # UINT_LIT, "untyped literal"))
        [] s.k = "If" -> CheckIf(s, scope, sig, ret)
        [] s.k = "While" -> LET c == CheckExpr(s.cond, scope, sig, BOOL)
                            IN  Stmt([s EXCEPT !.cond = c.e, !.body = body.ss], scope,
                                     BoolErrs(c) \cup body.errs)
        [] s.k = "ForNum" -> CheckForNum(s, scope, sig, ret)
        [] s.k = "ForIn" ->
             LET c == CheckExpr(s.iterable, scope, sig, None)
                 ok == c.t.k \in {"ArrayT", "VecT"}
                 b == CheckBlock(s.body, (s.var :> <<IF ok THEN c.t.elem ELSE UNITT, TRUE>>) @@ scope,
                                 sig, ret)
             IN  Stmt([s EXCEPT !.iterable = c.e, !.body = b.ss], scope,
                      c.errs \cup b.errs \cup Unless(ok, "for-in requires an array or vector"))
        [] s.k \in {"Loop", "Checked"} -> Stmt([s EXCEPT !.body = body.ss], scope, body.errs)
        [] s.k \in {"Break", "Continue", "Pass"} -> Stmt(s, scope, {})
        [] s.k = "Return" ->
             IF s.expr = None THEN Stmt(s, scope, CoerceErrs(UNITT, ret))
             ELSE LET v == CheckExpr(s.expr, scope, sig, ret)   \* the statement is stamped, not v
                  IN  Stmt([s EXCEPT !.expr = v.e], scope, v.errs \cup CoerceErrs(v.t, ret))
        [] s.k = "Match" -> CheckMatch(s, scope, sig, ret)

CheckBlock(ss, scope, sig, ret) ==
  IF ss = <<>> THEN [ss |-> <<>>, errs |-> {}]
  ELSE LET h == CheckStmt(Head(ss), scope, sig, ret)
           t == CheckBlock(Tail(ss), h.scope, sig, ret)
       IN  [ss |-> <<h.s>> \o t.ss, errs |-> h.errs \cup t.errs]

\* ------------------------------------------------------------------ modules
\* Bodies in the order of the declarations; a constant gets its type on the way.
CheckDecl(acc, d) ==
  CASE d.k = "ConstDecl" ->
         LET want == acc.sig.consts[d.name]
             v == CheckExpr(d.expr, <<>>, acc.sig, want)
             r == IF want = None THEN Concrete(v) ELSE Coerced(v, want)
         IN  [sig |-> [acc.sig EXCEPT !.consts[d.name] = r.t], errs |-> acc.errs \cup r.errs,
              decls |-> Append(acc.decls, [d EXCEPT !.expr = r.e])]
    [] d.k = "FuncDecl" ->
         LET f == acc.sig.funcs[d.name]
             b == CheckBlock(d.body, Bind(<<>>, d.params, f.params), acc.sig, f.ret)
         IN  [acc EXCEPT !.errs = @ \cup b.errs, !.decls = Append(@, [d EXCEPT !.body = b.ss])]
    [] OTHER -> [acc EXCEPT !.decls = Append(@, d)]
\* [sig, decls with types stamped on, errs]; accepted when errs is empty.
Check(mod, ds) ==
  LET sig == BuildSig(mod, ds)
  IN  FoldLeft(CheckDecl, [sig |-> sig, decls |-> <<>>, errs |-> SigErrors(sig)], ds)
=============================================================================
