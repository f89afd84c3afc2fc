------------------------------- MODULE Lower --------------------------------
(***************************************************************************)
(* The lowering pass: the checked tree of a module to IR functions. The   *)
(* state l of the pass is what the Lowerer object keeps: the builder b of *)
(* the current function, the finished functions, the counter of lambdas,  *)
(* the functions that need a thunk, the names captured in the current     *)
(* function, the stacks of break and continue targets, and the flag       *)
(* checked. v is the operand that the last expression produced. err is "" *)
(* until the pass stops: "refused" for its CardinalError, "crash" for an  *)
(* exception of the host language.                                        *)
(***************************************************************************)
EXTENDS Ir
LOCAL INSTANCE SequencesExt

Box(p, t) == [k |-> "Box", ptr |-> p, ty |-> t]

\* ------------------------------------------------------ free-variable analysis
ExprKids(e) ==
  CASE e.k = "OpCall" -> e.args
    [] e.k = "Call" -> <<e.callee>> \o e.args
    [] e.k = "FieldAccess" -> <<e.obj>>
    [] e.k = "Index" -> <<e.obj, e.index>>
    [] e.k = "StructLit" -> [i \in DOMAIN e.fields |-> e.fields[i][2]]
    [] e.k = "ArrayLit" -> e.elements
    [] e.k = "ArrayNew" -> <<e.count>>
    [] e.k = "Cast" -> <<e.expr>>
    [] e.k = "Ref" -> <<e.place>>
    [] OTHER -> <<>>
StmtExprs(s) ==
  CASE s.k = "Let" -> <<s.expr>>
    [] s.k = "Set" -> <<s.target, s.expr>>
    [] s.k = "Do" -> <<s.call>>
    [] s.k = "If" -> [i \in DOMAIN s.branches |-> s.branches[i][1]]
    [] s.k = "While" -> <<s.cond>>
    [] s.k = "ForNum" -> <<s.start, s.end, s.step>>
    [] s.k = "ForIn" -> <<s.iterable>>
    [] s.k = "Return" -> <<s.expr>>
    [] OTHER -> <<>>
StmtBodies(s) ==
  CASE s.k = "If" -> [i \in DOMAIN s.branches |-> s.branches[i][2]]
                       \o IF s.orelse = None THEN <<>> ELSE <<s.orelse.stmts>>
    [] s.k \in {"While", "ForNum", "ForIn", "Loop", "Checked"} -> <<s.body>>
    [] OTHER -> <<>>
UnionOver(f(_), seq) == UNION {f(seq[i]) : i \in DOMAIN seq}

\* Names used in an expression, or in statements, and bound outside of them.
RECURSIVE FreeExpr(_, _), FreeStmts(_, _)
LambdaFree(e) == FreeStmts(e.body, Keys(e.params))
FreeExpr(e, bound) ==
  CASE e.k = "Name" -> {e.ident} \ bound
    [] e.k = "FuncLit" -> LambdaFree(e) \ bound
    [] OTHER -> UnionOver(LAMBDA x : FreeExpr(x, bound), ExprKids(e))
FreeStmts(ss, bound) ==
  IF ss = <<>> THEN {}
  ELSE LET s == Head(ss)
           inner == IF s.k \in {"ForNum", "ForIn"} THEN bound \cup {s.var} ELSE bound
       IN  UnionOver(LAMBDA x : FreeExpr(x, bound), StmtExprs(s))
             \cup UnionOver(LAMBDA b : FreeStmts(b, inner), StmtBodies(s))
             \cup FreeStmts(Tail(ss), IF s.k = "Let" THEN bound \cup {s.name} ELSE bound)

\* Names that the lambdas directly inside an expression or statements capture.
RECURSIVE CapturedExpr(_), CapturedIn(_)
CapturedExpr(e) ==
  IF e.k = "FuncLit" THEN LambdaFree(e) ELSE UnionOver(CapturedExpr, ExprKids(e))
CapturedIn(ss) ==
  UnionOver(LAMBDA s : UnionOver(CapturedExpr, StmtExprs(s)) \cup UnionOver(CapturedIn, StmtBodies(s)), ss)

\* ------------------------------------------------------------ steps of the pass
LThen(l, F(_)) == IF l.err = "" THEN F(l) ELSE l
Refuses(l, why) == [l EXCEPT !.err = "refused", !.v = why]
Crashes(l, why) == [l EXCEPT !.err = "crash", !.v = why]
Yields(l, v) == [l EXCEPT !.v = v]
Emit(l, i) == [l EXCEPT !.b = EmitIn(@, i)]
\* Labels with these hints, numbered on from the ones there are: <<l, labels>>.
NewLabels(l, hints) ==
  <<[l EXCEPT !.b.labels = @ + Len(hints)], [i \in DOMAIN hints |-> <<hints[i], l.b.labels + i>>]>>
StartBlock(l, lab) == [l EXCEPT !.b = NewBlock(@, lab)]
Jump(l, lab) == IF Terminated(l.b) THEN l ELSE Emit(l, Br(lab))
\* A new temporary, and the instruction that computes it.
EmitTo(l, t, F(_)) ==
  LET d == Temp(Len(l.b.temps), t)
  IN  [Emit([l EXCEPT !.b.temps = Append(@, t)], F(d)) EXCEPT !.v = d]
\* A new local variable, under a name of its own.
NewLocal(l, n, t) ==
  LET d == Local(<<n, l.b.uniq + 1>>, t)
  IN  [l EXCEPT !.b.uniq = @ + 1, !.b.locals = Append(@, <<d.name, t>>), !.v = d]
MakeBox(l, t, init) ==
  LET a == EmitTo(l, PtrT(t), LAMBDA d : Alloc(d, t)) IN Emit(a, Assign(PDeref(a.v, t), init))

\* A parameter is a local, or a box that the parameter is copied into.
RECURSIVE LowerParams(_, _, _, _)
LowerParams(l, ps, ts, scope) ==
  IF ps = <<>> THEN Yields(l, scope)
  ELSE LET n == Head(ps)[1]
           loc == Local(<<n, 0>>, Head(ts))
           x == IF n \in l.captured THEN MakeBox(l, Head(ts), loc) ELSE l
       IN  LowerParams(x, Tail(ps), Tail(ts),
                       (n :> IF n \in l.captured THEN Box(x.v, Head(ts)) ELSE loc) @@ scope)

\* ------------------------------------------------------------------ operands
IntTy(e, want) ==
  CASE e.ty # "" -> IntT(e.ty)
    [] want.k = "IntT" -> want
    [] OTHER -> e.ctype
TypeOf(e) == IF "ctype" \in DOMAIN e THEN e.ctype ELSE None
OperandTy(es) ==
  LET i == SelectInSeq(es, LAMBDA e : TypeOf(e).k \in {"IntT", "PrimT", "EnumT", "StructT"})
  IN  TypeOf(es[IF i = 0 THEN 1 ELSE i])
IsUnit(t) == t = UNITT

\* Field types are looked up by the name without its module.
LowerFields(l, t) ==
  IF t.k = "StructT" /\ t.name[1] = "" /\ t.name[2] \in Declared(l.sig.decls, "StructDecl")
  THEN StructFields(t.name, l.sig) ELSE <<>>
FieldTy(l, t, f) == Resolve(ValueOf(LowerFields(l, t), f), l.sig)

RECURSIVE LowerExpr(_, _, _, _), LowerBlock(_, _, _)

RECURSIVE LowerAll(_, _, _, _, _)
LowerAll(l, es, scope, wants, vs) ==
  IF es = <<>> THEN Yields(l, vs)
  ELSE LThen(LowerExpr(l, Head(es), scope, IF wants = <<>> THEN None ELSE Head(wants)), LAMBDA x :
         LowerAll(x, Tail(es), scope, IF wants = <<>> THEN <<>> ELSE Tail(wants), Append(vs, x.v)))

LowerName(l, e, scope) ==
  IF e.ident \in DOMAIN scope
  THEN LET v == scope[e.ident]
       IN  IF v.k = "Box" THEN EmitTo(l, v.ty, LAMBDA d : Load(d, v.ptr)) ELSE Yields(l, v)
  ELSE IF e.ident \in DOMAIN l.sig.funcs
  THEN EmitTo([l EXCEPT !.thunks = @ \cup {e.ident}], l.sig.funcs[e.ident],
              LAMBDA d : MakeClosure(d, <<"thunk", e.ident>>, NoEnv))
  ELSE Refuses(l, "cannot use as a value")

\* and, or: the operands in turn, each leaving when it decides the result.
RECURSIVE LowerAndOr(_, _, _, _, _, _)
\* mutant: or leaves when an operand is false
LowerAndOr_Swapped(l, es, scope, isOr, res, end) ==
  IF es = <<>> THEN Yields(StartBlock(Emit(l, Br(end)), end), res)
  ELSE LThen(LowerExpr(l, Head(es), scope, BOOL), LAMBDA x :
         LET n == NewLabels(Emit(x, Assign(PLocal(res), x.v)), <<"sc_nx">>)
             nxt == n[2][1]
         IN  LowerAndOr(StartBlock(Emit(n[1], CondBr(x.v, nxt, end)), nxt), Tail(es), scope, isOr, res, end))
LowerAndOr(l, es, scope, isOr, res, end) ==
  IF es = <<>> THEN Yields(StartBlock(Emit(l, Br(end)), end), res)
  ELSE LThen(LowerExpr(l, Head(es), scope, BOOL), LAMBDA x :
         LET n == NewLabels(Emit(x, Assign(PLocal(res), x.v)), <<"sc_nx">>)
             nxt == n[2][1]
             br == IF isOr THEN CondBr(x.v, end, nxt) ELSE CondBr(x.v, nxt, end)
         IN  LowerAndOr(StartBlock(Emit(n[1], br), nxt), Tail(es), scope, isOr, res, end))

RECURSIVE FoldBin(_, _, _, _)
FoldBin(l, op, t, vs) ==
  IF Len(vs) = 1 THEN Yields(l, vs[1])
  ELSE LET x == EmitTo(l, t, LAMBDA d : Bin(d, op, vs[1], vs[2], t, l.checked))
       IN  FoldBin(x, op, t, <<x.v>> \o SubSeq(vs, 3, Len(vs)))
LowerOp(l, e, scope) ==
  LET unary == e.op \in {"not", "bnot"} \/ (e.op = "-" /\ Len(e.args) = 1)
      ty == CASE e.op \in {"and", "or", "not"} -> BOOL [] e.op \in CompareOps -> OperandTy(e.args)
              [] OTHER -> e.ctype
  IN  IF e.op \in {"and", "or"}
      THEN LET r == NewLabels(NewLocal(l, "sc", BOOL), <<"sc_end">>)
           IN  LowerAndOr(r[1], e.args, scope, e.op = "or", r[1].v, r[2][1])
      ELSE LThen(LowerAll(l, e.args, scope, Same(e.args, ty), <<>>), LAMBDA x :
             CASE unary -> EmitTo(x, ty, LAMBDA d : Un(d, e.op, x.v[1], ty, l.checked))
               [] e.op \in CompareOps ->
                    EmitTo(x, BOOL, LAMBDA d : Bin(d, e.op, x.v[1], x.v[2], ty, FALSE))
               [] OTHER -> FoldBin(x, e.op, ty, x.v))

\* A call whose result is used gets a temporary, one that returns unit none.
CallTo(l, ret, F(_)) ==
  IF IsUnit(ret) THEN Yields(Emit(l, F(None)), UnitImm) ELSE EmitTo(l, ret, F)
RECURSIVE LowerIo(_, _, _)
LowerIo(l, es, scope) ==
  IF es = <<>> THEN l
  ELSE LThen(LowerExpr(l, Head(es), scope, None), LAMBDA x :
         IF x.v.ty.k = "IntT" \/ x.v.ty \in {BOOL, STR}
         THEN LowerIo(Emit(x, ICall(None, <<"rt", "print">>, <<x.v>>)), Tail(es), scope)
         ELSE Refuses(x, "cannot print value of this type"))
LowerCall(l, e, scope) ==
  LET c == e.callee
      builtin(n) == c.k = "Name" /\ c.ident = n
      direct == c.k = "Name" /\ c.ident \notin DOMAIN scope /\ c.ident \in DOMAIN l.sig.funcs
  IN  CASE builtin("len") -> LThen(LowerExpr(l, e.args[1], scope, None), LAMBDA x :
             EmitTo(x, U64, LAMBDA d : IF x.v.ty.k = "ArrayT" THEN ArrLen(d, x.v)
                                       ELSE ICall(d, <<"rt", "str_len">>, <<x.v>>)))
        [] builtin("panic") -> IF e.args = <<>> THEN Crashes(l, "no argument")
             ELSE LThen(LowerExpr(l, e.args[1], scope, STR), LAMBDA x : Yields(Emit(x, IPanic(x.v)), UnitImm))
        [] c.k = "Path" /\ c.parts[1] = "io" -> LThen(LowerIo(l, e.args, scope), LAMBDA x :
             Yields(IF c.parts[2] = "println" THEN Emit(x, ICall(None, <<"rt", "nl">>, <<>>)) ELSE x, UnitImm))
        [] direct ->
             LET f == l.sig.funcs[c.ident]
             IN  LThen(LowerAll(l, e.args, scope, f.params, <<>>), LAMBDA x :
                   CallTo(x, f.ret, LAMBDA d : ICall(d, <<"fn", c.ident>>, x.v)))
        [] OTHER -> LThen(LowerExpr(l, c, scope, None), LAMBDA f :
             LThen(LowerAll(f, e.args, scope, TypeOf(c).params, <<>>), LAMBDA x :
               CallTo(x, TypeOf(c).ret, LAMBDA d : CallClosure(d, f.v, x.v))))

\* The environment of a closure: the boxes of what the lambda captures.
RECURSIVE StoreCaps(_, _, _, _, _), LoadCaps(_, _, _, _, _)
StoreCaps(l, env, caps, scope, i) ==
  IF i > Len(caps) THEN Yields(l, env)
  ELSE StoreCaps(Emit(l, EnvStore(env, i, scope[caps[i]].ptr)), env, caps, scope, i + 1)
LoadCaps(l, caps, outer, i, scope) ==
  IF i > Len(caps) THEN Yields(l, scope)
  ELSE LET t == outer[caps[i]].ty
           x == EmitTo(l, PtrT(t), LAMBDA d : EnvLoad(d, Local(<<"__env", 0>>, PtrT(None)), i))
       IN  LoadCaps(x, caps, outer, i + 1, (caps[i] :> Box(x.v, t)) @@ scope)

\* The end of a function: a return is added when control can reach it.
Finish(l) == LET r == IF Terminated(l.b) THEN l ELSE Emit(l, Ret(None))
             IN  [r EXCEPT !.funcs = (r.b.name :> r.b) @@ @]
LowerFuncLit(l, e, scope) ==
  LET caps == SetToSeq(LambdaFree(e) \cap DOMAIN scope)
      ts == Resolved(e.params, l.sig)
      ret == Resolve(e.ret, l.sig)
      name == <<"lam", l.lambdas + 1>>
      env == IF caps = <<>> THEN Yields(l, NoEnv)
             ELSE LET n == EmitTo(l, PtrT(None), LAMBDA d : EnvNew(d, Len(caps)))
                  IN  StoreCaps(n, n.v, caps, scope, 1)
      outer == EmitTo([env EXCEPT !.lambdas = @ + 1], FuncT(ts, ret),
                      LAMBDA d : MakeClosure(d, name, env.v))
      inside == [outer EXCEPT !.captured = CapturedIn(e.body), !.ret = ret,
                   !.b = FuncBuilder(name, <<<<"__env", PtrT(None)>>>>
                           \o [i \in DOMAIN ts |-> <<e.params[i][1], ts[i]>>], ret)]
      loaded == LoadCaps(inside, caps, scope, 1, <<>>)
      bound == LowerParams(loaded, e.params, ts, loaded.v)
      body == LowerBlock(bound, e.body, bound.v)
  IN  IF \E i \in DOMAIN caps : scope[caps[i]].k # "Box"
      THEN Refuses(l, "capturing loop variables is unsupported")
      ELSE LThen(body, LAMBDA x : [Finish(x) EXCEPT
             !.b = outer.b, !.ret = l.ret, !.captured = l.captured, !.v = outer.v])

LowerStructLit(l, e, scope) ==
  LET n == IF e.typename.k = "Name" THEN e.typename.ident ELSE Last(e.typename.parts)
      fs == LowerFields(l, Bare(n))
      wants == [i \in DOMAIN e.fields |-> FieldTy(l, Bare(n), e.fields[i][1])]
  IN  IF n \notin Declared(l.sig.decls, "StructDecl") THEN Refuses(l, "unknown struct")
      ELSE LThen(LowerAll(l, [i \in DOMAIN e.fields |-> e.fields[i][2]], scope, wants, <<>>),
             LAMBDA x : EmitTo(x, Bare(n), LAMBDA d : StructNew(d,
               [f \in Keys(fs) |-> x.v[SelectLastInSeq(e.fields, LAMBDA p : p[1] = f)]])))

LowerExpr(l, e, scope, want) ==
  CASE e.k = "IntLit" -> IF IntTy(e, want).k = "IntT" THEN Yields(l, Imm(e.value, IntTy(e, want)))
                         ELSE Refuses(l, "uninferable integer literal")
    [] e.k = "BoolLit" -> Yields(l, Imm(e.value, BOOL))
    [] e.k = "StrLit" -> Yields(l, Imm(e.value, STR))
    [] e.k = "Name" -> LowerName(l, e, scope)
    [] e.k = "Path" ->
         IF e.parts[1] \notin Declared(l.sig.decls, "EnumDecl") THEN Refuses(l, "cannot lower path")
         ELSE EmitTo(l, EnumT(<<"", e.parts[1]>>), LAMBDA d : EnumConst(d,
                SelectInSeq(Decl(l.sig.decls, "EnumDecl", e.parts[1]).variants,
                            LAMBDA v : v = e.parts[2]) - 1))
    [] e.k = "OpCall" -> LowerOp(l, e, scope)
    [] e.k = "FieldAccess" -> LThen(LowerExpr(l, e.obj, scope, None), LAMBDA o :
         IF e.field \notin Keys(LowerFields(o, o.v.ty)) THEN Refuses(o, "unknown struct")
         ELSE EmitTo(o, FieldTy(o, o.v.ty, e.field), LAMBDA d : LoadField(d, o.v, e.field)))
    [] e.k = "Index" -> LThen(LowerAll(l, <<e.obj, e.index>>, scope, <<None, U64>>, <<>>), LAMBDA x :
         IF x.v[1].ty.k = "MapT" THEN Crashes(x, "a map has no elem")
         ELSE EmitTo(x, x.v[1].ty.elem, LAMBDA d : ArrGet(d, x.v[1], x.v[2])))
    [] e.k = "Call" -> LowerCall(l, e, scope)
    [] e.k = "StructLit" -> LowerStructLit(l, e, scope)
    [] e.k = "ArrayLit" ->
         LET t == IF want.k = "ArrayT" THEN want.elem ELSE e.ctype.elem
         IN  LThen(LowerAll(l, e.elements, scope, Same(e.elements, t), <<>>), LAMBDA x :
               EmitTo(x, ArrayT(t), LAMBDA d : ArrLit(d, t, x.v)))
    [] e.k = "ArrayNew" -> LThen(LowerExpr(l, e.count, scope, U64), LAMBDA n :
         EmitTo(n, e.ctype, LAMBDA d : ArrNew(d, e.ctype.elem, n.v)))
    [] e.k = "Cast" -> LThen(LowerExpr(l, e.expr, scope, None), LAMBDA x :
         EmitTo(x, Resolve(e.ty, l.sig), LAMBDA d : ICast(d, x.v, Resolve(e.ty, l.sig))))
    [] e.k = "FuncLit" -> LowerFuncLit(l, e, scope)
    [] OTHER -> Refuses(l, "cannot lower this expression")

\* --------------------------------------------------------------- statements
RECURSIVE LowerPlace(_, _, _)
LowerPlace(l, e, scope) ==
  CASE e.k = "Name" ->
         LET v == scope[e.ident]
         IN  Yields(l, IF v.k = "Box" THEN PDeref(v.ptr, v.ty) ELSE PLocal(v))
    [] e.k = "FieldAccess" -> LThen(LowerPlace(l, e.obj, scope), LAMBDA o :
         IF e.field \notin Keys(LowerFields(o, o.v.ty)) THEN Refuses(o, "unknown struct")
         ELSE Yields(o, PField(o.v, e.field, FieldTy(o, o.v.ty, e.field))))
    [] OTHER -> Refuses(l, "unsupported assignment target")
LowerSet(l, s, scope) ==
  IF s.target.k = "Index"
  THEN LThen(LowerAll(l, <<s.target.obj, s.target.index>>, scope, <<None, U64>>, <<>>), LAMBDA a :
         IF a.v[1].ty.k = "MapT" THEN Crashes(a, "a map has no elem")
         ELSE LThen(LowerExpr(a, s.expr, scope, a.v[1].ty.elem), LAMBDA x :
                Emit(x, ArrSet(a.v[1], a.v[2], x.v, a.v[1].ty.elem))))
  ELSE LThen(LowerPlace(l, s.target, scope), LAMBDA p :
         LThen(LowerExpr(p, s.expr, scope, p.v.ty), LAMBDA x : Emit(x, Assign(p.v, x.v))))

RECURSIVE LowerBranches(_, _, _, _, _)
LowerBranches(l, bs, orelse, scope, end) ==
  IF bs = <<>>
  THEN LThen(IF orelse = None THEN l ELSE LowerBlock(l, orelse.stmts, scope),
             LAMBDA x : StartBlock(Jump(x, end), end))
  ELSE LThen(LowerExpr(l, Head(bs)[1], scope, BOOL), LAMBDA c :
         LET n == NewLabels(c, <<"then", "else">>)
             then == n[2][1]
             els == n[2][2]
         IN  LThen(LowerBlock(StartBlock(Emit(n[1], CondBr(c.v, then, els)), then), Head(bs)[2], scope),
                   LAMBDA x : LowerBranches(StartBlock(Jump(x, end), els), Tail(bs), orelse, scope, end)))

\* mutant: the targets are not popped after the loop
LowerBody_NotPopped(l, body, scope, brk, cont, next) ==
  LThen(LowerBlock([l EXCEPT !.brk = Append(@, brk), !.cont = Append(@, cont)], body, scope),
        LAMBDA x : Jump(x, next))
\* A loop body, with its targets of break and continue; then on to next.
LowerBody(l, body, scope, brk, cont, next) ==
  LThen(LowerBlock([l EXCEPT !.brk = Append(@, brk), !.cont = Append(@, cont)], body, scope),
        LAMBDA x : Jump([x EXCEPT !.brk = l.brk, !.cont = l.cont], next))
\* mutant: the condition is tested once, before the first round
LowerWhile_TestsOnce(l, s, scope) ==
  LET n == NewLabels(l, IF s.k = "Loop" THEN <<"loop_head", "loop_end">>
                        ELSE <<"while_head", "while_body", "while_end">>)
      head == n[2][1]
      body == n[2][2]
      end == Last(n[2])
      start == StartBlock(Emit(n[1], Br(head)), head)
      test == LThen(LowerExpr(start, s.cond, scope, BOOL), LAMBDA c :
                StartBlock(Emit(c, CondBr(c.v, body, end)), body))
      in == IF s.k = "Loop" THEN start ELSE test
  IN  LThen(in, LAMBDA x :
        LThen(LowerBody(x, s.body, scope, end, head, IF s.k = "Loop" THEN head ELSE body),
              LAMBDA y : StartBlock(y, end)))
\* while; loop has no condition and no block of its own for the body.
LowerWhile(l, s, scope) ==
  LET n == NewLabels(l, IF s.k = "Loop" THEN <<"loop_head", "loop_end">>
                        ELSE <<"while_head", "while_body", "while_end">>)
      head == n[2][1]
      body == n[2][2]
      end == Last(n[2])
      start == StartBlock(Emit(n[1], Br(head)), head)
      test == LThen(LowerExpr(start, s.cond, scope, BOOL), LAMBDA c :
                StartBlock(Emit(c, CondBr(c.v, body, end)), body))
      in == IF s.k = "Loop" THEN start ELSE test
  IN  LThen(in, LAMBDA x :
        LThen(LowerBody(x, s.body, scope, end, head, head), LAMBDA y : StartBlock(y, end)))

\* Both for loops: test the counter c[1] below c[2], run the body, add c[3].
LowerCounting(l, hints, c, t, F(_), body, var) ==
  LET a == NewLabels(l, hints)
      head == a[2][1]
      in == a[2][2]
      post == a[2][3]
      fin == a[2][4]
      test == EmitTo(StartBlock(Emit(a[1], Br(head)), head), BOOL,
                     LAMBDA d : Bin(d, "<", c[1], c[2], t, FALSE))
      item == F(StartBlock(Emit(test, CondBr(test.v, in, fin)), in))
  IN  LThen(LowerBody(item, body[1], (var :> item.v) @@ body[2], fin, post, post), LAMBDA x :
        LET p == EmitTo(StartBlock(x, post), t, LAMBDA d : Bin(d, "+", c[1], c[3], t, FALSE))
        IN  StartBlock(Emit(Emit(p, Assign(PLocal(c[1]), p.v)), Br(head)), fin))
ForLabels == <<"for_head", "for_body", "for_post", "for_end">>
\* mutant: the counter is not set to the start
LowerForNum_NoStart(l, s, scope) ==
  LET t == IF s.start.ctype = UINT_LIT THEN IntT("i32") ELSE s.start.ctype
      c == NewLocal(l, s.var, t)
      es == <<s.start, s.end>> \o IF s.step = None THEN <<>> ELSE <<s.step>>
  IN  LThen(LowerAll(c, es, scope, Same(es, t), <<>>), LAMBDA x :
        LowerCounting(x, ForLabels, <<c.v, x.v[2], IF s.step = None THEN Imm(1, t) ELSE x.v[3]>>, t,
                      LAMBDA b : Yields(b, c.v), <<s.body, scope>>, s.var))
\* The counter is the user's variable; bound and step are operands, not copies.
LowerForNum(l, s, scope) ==
  LET t == IF s.start.ctype = UINT_LIT THEN IntT("i32") ELSE s.start.ctype
      c == NewLocal(l, s.var, t)
      es == <<s.start, s.end>> \o IF s.step = None THEN <<>> ELSE <<s.step>>
  IN  IF s.var \in l.captured THEN Refuses(l, "capturing a for-loop variable")
      ELSE LThen(LowerAll(c, es, scope, Same(es, t), <<>>), LAMBDA x :
             LowerCounting(Emit(x, Assign(PLocal(c.v), x.v[1])), ForLabels,
                           <<c.v, x.v[2], IF s.step = None THEN Imm(1, t) ELSE x.v[3]>>, t,
                           LAMBDA b : Yields(b, c.v), <<s.body, scope>>, s.var))
\* The length is read once, the array operand at every access.
LowerForIn(l, s, scope) ==
  IF s.var \in l.captured THEN Refuses(l, "capturing a for-loop variable")
  ELSE LThen(LowerExpr(l, s.iterable, scope, None), LAMBDA a :
         LET elem == a.v.ty.elem
             i == NewLocal(a, "i", U64)
             n == EmitTo(Emit(i, Assign(PLocal(i.v), Imm(0, U64))), U64, LAMBDA d : ArrLen(d, a.v))
             item(b) == LET x == EmitTo(b, elem, LAMBDA d : ArrGet(d, a.v, i.v))
                            y == NewLocal(x, s.var, elem)
                        IN  Emit(y, Assign(PLocal(y.v), x.v))
         IN  LowerCounting(n, <<"fi_head", "fi_body", "fi_post", "fi_end">>, <<i.v, n.v, Imm(1, U64)>>, U64,
                           item, <<s.body, scope>>, s.var))

\* A captured variable lives in a box that is made where it is declared.
LowerLet(l, s, scope) ==
  LET t == IF s.ty = None THEN s.expr.ctype ELSE Resolve(s.ty, l.sig)
  IN  LThen(LowerExpr(l, s.expr, scope, t), LAMBDA x :
        IF s.name \in l.captured
        THEN LET b == MakeBox(x, t, x.v) IN Yields(b, (s.name :> Box(b.v, t)) @@ scope)
        ELSE LET n == NewLocal(x, s.name, t)
             IN  Yields(Emit(n, Assign(PLocal(n.v), x.v)), (s.name :> n.v) @@ scope))
\* The targets of the function around a lambda are still there inside of it: the
\* label may be none of the lambda's, or happen to be one of its own.
Leave(l, targets) ==
  IF targets = <<>> THEN Crashes(l, "no enclosing loop") ELSE Emit(l, Br(Last(targets)))
LowerStmt(l, s, scope) ==
  CASE s.k = "Set" -> LowerSet(l, s, scope)
    [] s.k = "Do" -> LowerExpr(l, s.call, scope, None)
    [] s.k = "If" -> LET n == NewLabels(l, <<"if_end">>)
                     IN  LowerBranches(n[1], s.branches, s.orelse, scope, n[2][1])
    [] s.k \in {"While", "Loop"} -> LowerWhile(l, s, scope)
    [] s.k = "ForNum" -> LowerForNum(l, s, scope)
    [] s.k = "ForIn" -> LowerForIn(l, s, scope)
    [] s.k = "Break" -> Leave(l, l.brk)
    [] s.k = "Continue" -> Leave(l, l.cont)
    [] s.k = "Return" -> IF s.expr = None THEN Emit(l, Ret(None))
                         ELSE LThen(LowerExpr(l, s.expr, scope, l.ret), LAMBDA x : Emit(x, Ret(x.v)))
    [] s.k = "Checked" -> LET x == LowerBlock([l EXCEPT !.checked = TRUE], s.body, scope)
                          IN  [x EXCEPT !.checked = l.checked]
    [] OTHER -> Refuses(l, "cannot lower this statement")
LowerBlock(l, ss, scope) ==
  IF ss = <<>> THEN l
  ELSE IF Head(ss).k = "Let"
  THEN LThen(LowerLet(l, Head(ss), scope), LAMBDA x : LowerBlock(x, Tail(ss), x.v))
  ELSE LThen(LowerStmt(l, Head(ss), scope), LAMBDA x : LowerBlock(x, Tail(ss), scope))

\* ------------------------------------------------------------------- modules
LowerFunc(l, d) ==
  LET f == l.sig.funcs[d.name]
      ps == [i \in DOMAIN d.params |-> <<d.params[i][1], f.params[i]>>]
      in == [l EXCEPT !.b = FuncBuilder(<<"fn", d.name>>, ps, f.ret), !.ret = f.ret,
                      !.captured = CapturedIn(d.body)]
      bound == LowerParams(in, d.params, f.params, <<>>)
  IN  LThen(LowerBlock(bound, d.body, bound.v), Finish)
LowerDecl(l, d) == IF d.k = "FuncDecl" THEN LThen(l, LAMBDA x : LowerFunc(x, d)) ELSE l
LowerModule(checked) ==
  FoldLeft(LowerDecl,
           [b |-> None, funcs |-> <<>>, lambdas |-> 0, thunks |-> {}, captured |-> {}, ret |-> UNITT,
            brk |-> <<>>, cont |-> <<>>, checked |-> FALSE, err |-> "", v |-> UnitImm,
            sig |-> checked.sig], checked.decls)
=============================================================================
