-------------------------- MODULE MCModuleLoading --------------------------
(* Small projects: main and two modules that import main, themselves and one *)
(* another, as wholes or name by name. The constant c of a and its function f *)
(* may need each other, main, or the constant k of b, and k them.            *)
EXTENDS ModuleLoading

Whole(m) == [mod |-> m, names |-> <<>>]
Pick(m, xs) == [mod |-> m, names |-> xs]
D(kind, x, exported, reads) ==
  [kind |-> kind, name |-> x, exported |-> exported, typed |-> TRUE, reads |-> reads]
Untyped(d) == [d EXCEPT !.typed = FALSE]
Module(imports, decls) == [imports |-> imports, decls |-> decls]

Main(imports, exported, reads) ==
  Module(imports, <<D("func", "h", exported, <<>>), D("func", "main", FALSE, reads)>>)
Mains ==
  {Main(<<Whole("a")>>, TRUE, <<<<"a", "f">>>>),
   Main(<<Whole("b"), Pick("a", <<"f">>)>>, TRUE, <<<<"", "f">>, <<"b", "k">>>>),
   Main(<<Pick("a", <<"f", "c">>), Whole("b")>>, FALSE, <<<<"", "f">>, <<"", "c">>>>),
   Main(<<Pick("b", <<"k">>), Pick("a", <<"f">>)>>, TRUE, <<<<"", "k">>, <<"b", "k">>>>),
   Module(<<Pick("a", <<"f">>), Whole("b")>>,
          <<D("func", "f", TRUE, <<>>), D("func", "main", TRUE, <<<<"", "f">>>>)>>),
   Module(<<Whole("b"), Whole("a")>>, <<D("func", "h", TRUE, <<<<"a", "c">>>>)>>),
   Module(<<Pick("a", <<"f">>)>>, <<D("const", "main", FALSE, <<<<"", "f">>>>)>>)}
As ==
  {Module(imports, <<D("const", "c", e, reads[1]), D("func", "f", TRUE, reads[2])>>) :
     imports \in {<<>>, <<Whole("b")>>, <<Pick("b", <<"k">>)>>, <<Whole("main"), Whole("b")>>,
                  <<Pick("main", <<"h">>), Whole("a")>>},
     e \in BOOLEAN,
     reads \in {<< <<>>, <<<<"", "c">>>> >>, << <<<<"b", "k">>>>, <<<<"main", "h">>>> >>,
                << <<<<"", "f">>>>, <<<<"a", "f2">>>> >>, << <<<<"b", "k">>>>, <<<<"b", "k">>, <<"a", "c">>>> >>,
                << <<<<"", "f">>>>, <<>> >>}}
Bs ==
  {Module(imports, decls) :
     imports \in {<<>>, <<Whole("a")>>, <<Pick("a", <<"f">>)>>, <<Whole("b"), Whole("main")>>, <<Whole("z")>>},
     decls \in UNION {{<<k>>, <<Untyped(k)>>, <<D("type", "T", TRUE, <<>>), [k EXCEPT !.exported = FALSE]>>} :
                        k \in {D("const", "k", TRUE, reads) : reads \in {<<>>, <<<<"a", "c">>>>, <<<<"a", "f">>>>}}}}
\* Module a exports a type k beside the constant k that it picks out of b.
Overloading ==
  {[a |-> Module(<<Pick("b", <<"k">>)>>, <<D("type", "k", TRUE, <<>>), D("func", "f", e, <<<<"", "k">>>>)>>),
    b |-> Module(<<>>, <<D("const", "k", TRUE, <<>>)>>),
    main |-> m] :
     e \in BOOLEAN,
     m \in {Main(<<Pick("a", xs), Whole("b")>>, TRUE, reads) :
              xs \in {<<"k">>, <<"f">>}, reads \in {<<>>, <<<<"a", "k">>>>, <<<<"b", "k">>>>}}}
MCProjects == {[a |-> a, b |-> b, main |-> m] : a \in As, b \in Bs, m \in Mains} \cup Overloading
=============================================================================
