----------------------------- MODULE MCPipeline -----------------------------
EXTENDS Pipeline
LOCAL INSTANCE SequencesExt

MCIntTypes ==
  [i32 |-> [bits |-> 4, signed |-> TRUE], u8 |-> [bits |-> 3, signed |-> FALSE],
   u32 |-> [bits |-> 4, signed |-> FALSE], i64 |-> [bits |-> 5, signed |-> TRUE],
   u64 |-> [bits |-> 5, signed |-> FALSE]]

\* ------------------------------------------------------------ writing programs
N == Name("n")
I32 == TyName("i32")
BoolTy == TyName("bool")
Lit(v) == IntLit(v, "")
Op(o, a, b) == OpCall(o, <<a, b>>)
SetN(e) == Set(N, e)
Inc(x, by) == Set(x, Op("+", x, by))
LetV(x, t, e) == Let(x, t, e, TRUE)
When(c, ss) == If(<<<<c, ss>>>>, None)
CallN(f, as) == Call(Name(f), as)
Println(x) == Do(Call(Path(<<"io", "println">>), <<x>>))
ToI32 == TyFunc(<<I32>>, I32)
ArrOf(t) == TyArray(t)

\* What every program declares, and how its main begins and ends.
Decls ==
  <<EnumDecl("C", <<"A", "B">>), StructDecl("P", <<<<"x", I32>>>>),
    SumDecl("S", <<<<"Some", <<<<"p", TyName("P")>>>>>>, <<"Non", <<>>>>>>),
    FuncDecl("inc", <<<<"a", I32>>>>, I32, <<Return(Op("+", Name("a"), Lit(1)))>>),
    FuncDecl("apply", <<<<"f", ToI32>>, <<"v", I32>>>>, I32,
             <<Return(CallN("f", <<Name("v")>>))>>),
    \* a closure that counts in a parameter of the function that made it
    FuncDecl("counter", <<<<"c", I32>>>>, ToI32,
             <<Return(FuncLit(<<<<"d", I32>>>>, I32,
                              <<Inc(Name("c"), Name("d")), Return(Name("c"))>>))>>)>>
Main(start, ss) ==
  FuncDecl("main", <<>>, I32,
    <<LetV("n", I32, Lit(start)), Let("k", TyName("u8"), Lit(6), FALSE),
      LetV("a", ArrOf(I32), ArrayLit(<<Lit(1), Lit(2)>>)), LetV("b", BoolTy, BoolLit(TRUE))>>
    \o ss \o <<Println(N), Println(Index(Name("a"), Lit(0))), Println(Name("b")), Return(N)>>)
Program(start, ss) == Append(Decls, Main(start, ss))

\* Statements that compile, two of which follow each other in every program.
Good ==
  << \* wrapping, trapping and dividing
     <<Inc(N, Lit(6))>>,
     <<Checked(<<SetN(OpCall("*", <<N, N>>))>>)>>,
     <<SetN(Op("/", Lit(7), N))>>,
     <<Let("w", TyName("u8"), Cast(N, TyName("u8")), FALSE),
       SetN(Cast(Op("+", Name("w"), Name("k")), I32))>>,
     <<SetN(OpCall("-", <<Op("band", OpCall("bnot", <<N>>), Lit(3))>>)),
       SetN(Op("shl", N, Lit(1)))>>,
     \* conditions that must not be evaluated in full
     <<When(Op("and", Op("!=", N, Lit(0)), Op(">", Op("/", Lit(6), N), Lit(1))), <<SetN(Lit(1))>>),
       Set(Name("b"), Op("or", Op("==", N, Lit(0)), OpCall("not", <<Op("<", Op("%", Lit(6), N), Lit(2))>>)))>>,
     \* loops
     <<ForNum("i", Lit(0), Lit(3), None,
              <<When(Op("==", Name("i"), Lit(1)), <<Continue>>), Inc(N, Name("i"))>>)>>,
     <<While(Op(">", N, Lit(0)), <<SetN(Op("-", N, Lit(2)))>>)>>,
     <<Loop(<<When(Op(">=", N, Lit(2)), <<Break>>), Inc(N, Lit(3))>>)>>,
     <<ForIn("x", Name("a"), <<Inc(N, Name("x")), Set(Index(Name("a"), Lit(0)), N)>>)>>,
     \* arrays are shared, indices are held against the length
     <<LetV("z", None, Name("a")), Set(Index(Name("z"), Lit(0)), N), Set(Name("a"), ArrayNew(I32, Lit(2)))>>,
     <<Set(Index(Name("a"), N), Lit(4))>>,
     \* closures: a captured local, a captured parameter, a function as a value
     <<Let("f", None, FuncLit(<<<<"v", I32>>>>, I32, <<Inc(N, Name("v")), Return(N)>>), FALSE),
       Let("r", None, CallN("f", <<Lit(3)>>), FALSE), SetN(Op("-", CallN("apply", <<Name("f"), Lit(1)>>), Name("r")))>>,
     <<Let("g", None, CallN("counter", <<N>>), FALSE), Do(CallN("g", <<Lit(1)>>)),
       LetV("a2", None, ArrayNew(I32, Lit(1))), SetN(CallN("g", <<Lit(2)>>))>>,
     <<SetN(CallN("apply", <<Name("inc"), N>>))>>,
     \* enums, field of a literal, leaving early
     <<Let("c", None, Path(<<"C", "B">>), FALSE),
       If(<<<<Op("==", Name("c"), Path(<<"C", "A">>)), <<SetN(Lit(2))>>>>,
            <<Op("==", N, Lit(5)), <<Return(Lit(3))>>>>>>, Block(<<Inc(N, Lit(1))>>))>>,
     <<SetN(Op("+", FieldAccess(StructLit(Name("P"), <<<<"x", N>>>>), "x"), Cast(CallN("len", <<Name("a")>>), I32)))>>,
     <<SetN(FieldAccess(StructLit(Name("P"), <<<<"x", Op("+", N, Lit(2))>>>>), "x"))>>,
     <<When(Op("<", N, Lit(0)), <<Do(CallN("panic", <<StrLit("negative")>>))>>)>>
  >>
P(e) == StructLit(Name("P"), <<<<"x", e>>>>)
X(p) == FieldAccess(Name(p), "x")
\* Statements that only the interpreter knows how to run. None stores a struct
\* variable in an array literal, which does not copy it (README, section 5).
InterpOnly ==
  << <<LetV("p", None, P(N)), LetV("q", None, Name("p")), Set(X("q"), Lit(7)), SetN(X("p"))>>,
     <<LetV("v", TyVec(TyName("P")), VecNew(TyName("P"))), LetV("p", None, P(Lit(1))),
       Do(CallN("push", <<Name("v"), Name("p")>>)), Do(CallN("push", <<Name("v"), Name("p")>>)),
       Set(FieldAccess(Index(Name("v"), Lit(0)), "x"), Lit(3)), LetV("q", None, CallN("pop", <<Name("v")>>)),
       ForIn("e", Name("v"), <<Set(X("e"), Lit(5))>>),
       SetN(Op("+", FieldAccess(Index(Name("v"), Lit(0)), "x"), Op("+", X("q"), X("p"))))>>,
     <<LetV("m", None, MapNew(I32, TyName("P"))), LetV("p", None, P(N)),
       Set(Index(Name("m"), Lit(2)), Name("p")), Set(X("p"), Lit(1)),
       When(CallN("map_has", <<Name("m"), Lit(2)>>),
            <<SetN(FieldAccess(Index(Name("m"), Lit(2)), "x")), Do(CallN("map_del", <<Name("m"), Lit(2)>>))>>),
       Let("ks", None, CallN("map_keys", <<Name("m")>>), FALSE), Println(CallN("len", <<Name("ks")>>))>>,
     <<LetV("p", None, P(N)), LetV("s", None, StructLit(Name("Some"), <<<<"p", Name("p")>>>>)),
       Set(X("p"), Lit(7)),
       Match(Name("s"), <<<<"Some", <<"y">>, <<LetV("t", None, Name("y")), Set(X("t"), Lit(4)), SetN(X("y"))>>>>,
                          <<"Non", <<>>, <<Pass>>>>>>, None),
       Set(Name("s"), Name("Non"))>>,
     <<LetV("ps", None, ArrayNew(TyName("P"), Lit(2))),
       Set(FieldAccess(Index(Name("ps"), Lit(0)), "x"), N), SetN(FieldAccess(Index(Name("ps"), Lit(1)), "x"))>>,
     \* the second element of the vector is evaluated by changing the first
     <<LetV("p", None, P(N)),
       Let("f", None, FuncLit(<<>>, TyName("P"), <<Set(X("p"), Lit(7)), Return(Name("p"))>>), FALSE),
       LetV("v", None, VecLit(<<Name("p"), CallN("f", <<>>)>>)),
       SetN(Op("+", FieldAccess(Index(Name("v"), Lit(0)), "x"), FieldAccess(Index(Name("v"), Lit(1)), "x")))>>
  >>
\* Statements that must be turned down.
Bad ==
  << <<Set(Name("k"), Lit(1))>>,
     <<Set(Name("b"), N)>>,
     <<SetN(Op("+", N, Name("k")))>>,
     <<SetN(Name("zz"))>>,
     <<SetN(CallN("inc", <<>>))>>,
     <<Let("y", None, Lit(3), FALSE)>>,
     <<Let("y", None, P(BoolLit(TRUE)), FALSE)>>,
     <<LetV("s", None, StructLit(Name("Some"), <<<<"p", Lit(1)>>>>))>>,
     <<LetV("y", I32, BoolLit(TRUE))>>,
     <<Return(BoolLit(TRUE))>>,
     <<SetN(Op("+", N, Lit(9)))>>,
     <<Let("y", None, FieldAccess(P(N), "y"), FALSE)>>,
     <<Let("f", None, FuncLit(<<>>, I32, <<Return(BoolLit(TRUE))>>), FALSE), Do(CallN("f", <<>>))>>,
     <<ForNum("i", Name("k"), N, None, <<Pass>>)>>,
     <<LetV("m", None, MapNew(I32, BoolTy)), Set(Index(Name("m"), BoolLit(TRUE)), BoolLit(TRUE))>>,
     <<Let("c", None, Path(<<"C", "D">>), FALSE)>>
  >>

PTy == TyName("P")
UnitTy == TyName("unit")
Vec == TyVec(I32)
Panic(as) == CallN("panic", as)
Never(ss) == When(Op("<", N, Lit(0)), ss)       \* n is not negative where it is used
Fn1(t, ss) == FuncDecl("g", <<<<"p", t>>>>, I32, Append(ss, Return(Lit(1))))
Lam(ps, r, ss) == Let("f", None, FuncLit(ps, r, ss), FALSE)
\* Declarations that pass the checker and not the rest of the compiler, but for the
\* last six, which only come near to it.
Odd ==
  << Fn1(PTy, <<>>), Fn1(UnitTy, <<>>), Fn1(Vec, <<>>), Fn1(TyMap(I32, I32), <<>>),
     Fn1(TyName("S"), <<>>), Fn1(TyMap(I32, I32), <<LetV("e", None, Index(Name("p"), Lit(1)))>>),
     FuncDecl("g", <<>>, PTy, <<Return(P(Lit(1)))>>),
     FuncDecl("g", <<>>, Vec, <<Do(Panic(<<StrLit("x")>>))>>),
     FuncDecl("g", <<<<"p", I32>>, <<"p", I32>>>>, I32, <<Return(Name("p"))>>),
     FuncDecl("g", <<>>, ArrOf(I32), <<Return(Panic(<<StrLit("x")>>))>>),
     FuncDecl("g", <<>>, ToI32, <<Return(Panic(<<StrLit("x")>>))>>),
     StructDecl("Q", <<<<"p", PTy>>>>), StructDecl("Q", <<<<"p", Vec>>>>), StructDecl("Q", <<<<"p", UnitTy>>>>),
     Fn1(ArrOf(PTy), <<Set(Index(Name("p"), Lit(0)), P(Lit(1)))>>),
     Fn1(ArrOf(PTy), <<ForIn("q", Name("p"), <<Return(Lit(2))>>)>>),
     Fn1(ArrOf(Vec), <<Do(CallN("len", <<Index(Name("p"), Lit(0))>>))>>),
     Fn1(TyFunc(<<PTy>>, I32), <<Do(CallN("p", <<P(Lit(1))>>))>>),
     Fn1(TyFunc(<<I32>>, PTy), <<Do(CallN("p", <<Lit(1)>>))>>),
     Fn1(ArrOf(PTy), <<Do(CallN("len", <<Name("p")>>))>>),
     Fn1(ArrOf(Vec), <<LetV("e", None, Name("p"))>>),
     Fn1(TyFunc(<<PTy>>, Vec), <<LetV("e", None, Name("p"))>>),
     Fn1(TyFunc(<<I32>>, UnitTy), <<Do(CallN("p", <<Lit(1)>>))>>),
     FuncDecl("g", <<>>, I32, <<Return(Panic(<<StrLit("x")>>))>>),
     FuncDecl("g", <<>>, None, <<Return(CallN("hello", <<>>))>>)
  >>
\* The same of statements; near to it are the last ten.
OddStmts ==
  << <<LetV("p", None, P(N))>>,
     <<LetV("p", None, P(N)), Lam(<<>>, I32, <<LetV("q", None, Name("p")), Return(Lit(1))>>)>>,
     <<LetV("u", None, CallN("hello", <<>>))>>, <<LetV("u", UnitTy, N)>>,
     <<LetV("u", None, CallN("hello", <<>>)), Lam(<<>>, I32, <<LetV("q", None, Name("u")), Return(Lit(1))>>)>>,
     <<LetV("ps", None, ArrayNew(PTy, Lit(2)))>>, <<LetV("ps", None, ArrayLit(<<P(N)>>))>>,
     <<LetV("us", None, ArrayNew(UnitTy, Lit(2))), Set(Index(Name("us"), Lit(0)), CallN("hello", <<>>))>>,
     <<Do(Index(ArrayNew(UnitTy, Lit(2)), Lit(0)))>>,
     <<Lam(<<<<"p", PTy>>>>, I32, <<Return(Lit(1))>>)>>, <<Lam(<<>>, PTy, <<Return(P(N))>>)>>,
     <<Lam(<<>>, I32, <<Return(Lit(1))>>), Never(<<Do(Panic(<<Name("f")>>))>>)>>,
     <<Never(<<Do(Panic(<<>>))>>)>>, <<Never(<<Do(Panic(<<Name("a")>>))>>)>>,
     <<Never(<<Do(Panic(<<Name("inc")>>))>>)>>, <<Never(<<Do(Panic(<<P(N)>>))>>)>>,
     <<Never(<<Set(Name("a"), Panic(<<StrLit("x")>>))>>)>>,
     <<Never(<<LetV("c", ArrOf(I32), Panic(<<StrLit("x")>>))>>)>>,
     <<Never(<<LetV("c", ArrOf(ArrOf(I32)), ArrayLit(<<Panic(<<StrLit("x")>>)>>))>>)>>,
     <<Never(<<Do(CallN("apply", <<Panic(<<StrLit("x")>>), N>>))>>)>>,
     <<Lam(<<<<"c", ArrOf(I32)>>>>, I32, <<Return(Lit(1))>>), Never(<<Do(CallN("f", <<Panic(<<StrLit("x")>>)>>))>>)>>,
     <<Lam(<<>>, ArrOf(I32), <<Return(Panic(<<StrLit("x")>>))>>)>>,
     <<Never(<<Break>>)>>, <<Never(<<Continue>>)>>,
     <<Loop(<<Break>>), Never(<<Break>>)>>,
     <<ForNum("i", Lit(0), N, None, <<Continue>>), Never(<<Continue>>)>>,
     <<Lam(<<>>, I32, <<Never(<<Break>>), Return(Lit(1))>>)>>,
     <<While(Op(">", N, Lit(0)),
             <<Lam(<<>>, I32, <<Never(<<Break>>), Return(Lit(1))>>), Inc(N, Lit(5)), Do(CallN("f", <<>>))>>)>>,
     \* the label of the outer loop is also one of the lambda's
     <<While(Op(">", N, Lit(0)),
             <<Lam(<<>>, I32, <<While(Op(">", N, Lit(6)), <<Inc(N, Lit(1))>>), Never(<<Break>>), Return(Lit(1))>>),
               SetN(Op("-", N, Lit(1))), Do(CallN("f", <<>>))>>)>>,
     <<While(Op(">", N, Lit(0)),
             <<Lam(<<>>, I32, <<Loop(<<Break>>), Return(Lit(1))>>),
               SetN(Op("-", N, CallN("f", <<>>)))>>)>>,
     <<Do(P(N))>>, <<LetV("us", None, ArrayNew(UnitTy, Lit(2)))>>,
     <<Never(<<Do(Panic(<<N>>))>>)>>, <<Never(<<Do(Panic(<<Path(<<"C", "A">>)>>))>>)>>,
     <<Never(<<Do(Panic(<<CallN("hello", <<>>)>>))>>)>>, <<Never(<<SetN(Panic(<<StrLit("x")>>))>>)>>,
     <<Lam(<<>>, None, <<Inc(N, Lit(1))>>), Do(CallN("f", <<>>))>>
  >>
Hello == FuncDecl("hello", <<>>, None, <<Return(None)>>)
\* A second sum with a variant of S: the checker turns it down.
Twice == SumDecl("T", <<<<"Non", <<>>>>>>)
Others ==
  [i \in DOMAIN Odd |-> Decls \o <<Hello, Odd[i], Main(5, <<>>)>>]
    \o [i \in DOMAIN OddStmts |-> Decls \o <<Hello, Main(5, OddStmts[i] \o Good[1 + (i % Len(Good))])>>]
    \o <<Decls \o <<Twice, Main(5, <<>>)>>>>
    \o [i \in DOMAIN InterpOnly |-> Program(5, InterpOnly[i])]
    \o [i \in DOMAIN Bad |-> Program(5, Bad[i])]
    \o [i \in DOMAIN InterpOnly |-> Program(0, InterpOnly[i] \o Good[i])]
Family ==
  LET g == Len(Good)
      pairs == 2 * g * g
  IN  [i \in 1..pairs |->
         Program(IF i <= g * g THEN 0 ELSE 5, Good[1 + (i % g)] \o Good[1 + ((i \div g) % g)])]
      \o Others
\* TLC evaluates a definition once, what a constant stands for at every use; so
\* the constants stand for names of the tables.
Code == LET programs == Family IN [p \in DOMAIN programs |-> Compile(programs[p])]
Runs == LET programs == Family IN [p \in DOMAIN programs |-> Run(programs[p])]
MCPrograms == LET programs == Family IN programs
MCCompiled == LET compiled == Code IN compiled
MCExecutions == LET executions == Runs IN executions

\* A numeric for loop that counts its rounds in a[0] and whose body advances the
\* index, to a literal and to a variable bound.
ForFamily ==
  [i \in 1..2 |->
     Program(2, <<ForNum("i", Lit(0), IF i = 1 THEN Lit(3) ELSE N, None,
                         <<Inc(Index(Name("a"), Lit(0)), Lit(1)), Inc(Name("i"), Lit(1))>>)>>)]
ForCode == [p \in DOMAIN ForFamily |-> Compile(ForFamily[p])]
ForRuns == [p \in DOMAIN ForFamily |-> Run(ForFamily[p])]
MCForPrograms == LET programs == ForFamily IN programs
MCForCompiled == LET compiled == ForCode IN compiled
MCForExecutions == LET executions == ForRuns IN executions
=============================================================================
