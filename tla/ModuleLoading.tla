--------------------------- MODULE ModuleLoading ---------------------------
(***************************************************************************)
(* How a program's modules are brought together, twice: the checker       *)
(* builds a signature of each (typecheck.py: load_sig, build_sig, then    *)
(* the bodies), and if it has no complaint the interpreter loads them     *)
(* (load_module, _populate, then main). Both go through the imports       *)
(* depth-first and register a module before they fill it, so that         *)
(* modules that import each other meet one another half empty.            *)
(*                                                                         *)
(* A project gives each module the sequence of its imports, [mod, names],  *)
(* without names for the import of a whole module, and of its             *)
(* declarations, [kind, name, exported, typed, reads], where reads are the *)
(* names that a body or an initialiser uses, in order: <<module, name>>,   *)
(* or <<"", name>> for a plain name. To read a function is to call it.     *)
(***************************************************************************)
EXTENDS Integers, Sequences, FiniteSets

CONSTANT Projects
Declarations ==
  [kind : {"func", "const", "type"}, name : STRING, exported : BOOLEAN, typed : BOOLEAN,
   reads : Seq(STRING \X STRING)]
Files ==
  [imports : Seq([mod : STRING, names : Seq(STRING)]), decls : Seq(Declarations)]
\* A module declares a name once: later declarations would replace earlier ones.
ASSUME ProjectsAssumption ==
  \A p \in Projects :
    /\ "main" \in DOMAIN p /\ DOMAIN p \subseteq STRING
    /\ \A m \in DOMAIN p :
         /\ p[m] \in Files
         /\ \A i, j \in DOMAIN p[m].decls : p[m].decls[i].name = p[m].decls[j].name => i = j

VARIABLES
  project,   \* the files on the search path
  phase,     \* "sigs", "bodies": the checker; "load", "run": the interpreter; Final
  stack,     \* the calls of load_sig or load_module, and of eval, in progress
  scopes,    \* of each registered module, in order: [mod, env, exports]
  typed,     \* checker: the declarations whose type is known
  errors,    \* checker: has it complained
  sigs       \* interpreter: the scopes that the checker had found
vars == <<project, phase, stack, scopes, typed, errors, sigs>>

Final == {"rejected", "failed", "done"}

Empty == [x \in {} |-> x]
Decl(d) == project[d[1]].decls[d[2]]
DeclsIn(m) == {<<m, i>> : i \in DOMAIN project[m].decls}
Publics(m, kinds) == {Decl(d).name : d \in {e \in DeclsIn(m) : Decl(e).exported /\ Decl(e).kind \in kinds}}
Values == {"func", "const"}

\* A module's scope: what its names stand for, and which it exports so far.
NewScope(m) == [mod |-> m, env |-> Empty, exports |-> {}]
Registered == {scopes[i].mod : i \in DOMAIN scopes}
At(m) == CHOOSE i \in DOMAIN scopes : scopes[i].mod = m
Scope(m) == scopes[At(m)]
With(env, old) == [x \in DOMAIN env \cup DOMAIN old |-> IF x \in DOMAIN env THEN env[x] ELSE old[x]]
Added(s, env, exports) ==
  [mod |-> s.mod, env |-> With(env, s.env), exports |-> s.exports \cup exports]
\* The names of declarations, standing for them.
EnvOf(ds) == [x \in {Decl(d).name : d \in ds} |-> CHOOSE d \in ds : Decl(d).name = x]
Bind(m, env, exports) == scopes' = [scopes EXCEPT ![At(m)] = Added(@, env, exports)]

Top == stack[Len(stack)]
Pop == SubSeq(stack, 1, Len(stack) - 1)
Loading(m) == [do |-> "load", mod |-> m, imp |-> 1, decl |-> 1]
Evaluating(d) == [do |-> "eval", of |-> d, read |-> 1]
Bodies(i, j) == [do |-> "bodies", pos |-> i, decl |-> j]
Importing == stack # <<>> /\ Top.do = "load" /\ Top.imp <= Len(project[Top.mod].imports)
Declaring == stack # <<>> /\ Top.do = "load" /\ Top.imp > Len(project[Top.mod].imports)
Import == project[Top.mod].imports[Top.imp]
\* mutant: the import is never left behind
NextImport_Stays == stack
NextImport == [stack EXCEPT ![Len(stack)].imp = @ + 1]
NextDecl == [stack EXCEPT ![Len(stack)].decl = @ + 1]
NextRead == [stack EXCEPT ![Len(stack)].read = @ + 1]

\* lookup_value of a signature, get of a module scope: a name of module m, for
\* another module. Without exports everything is visible.
\* mutant: whatever is known is visible
Visible_Known(m, x) == x \in DOMAIN Scope(m).env
Visible(m, x) == Scope(m).exports = {} \/ x \in Scope(m).exports
Known(m, x) == x \in DOMAIN Scope(m).env
\* What the checker knows by name it may not know the type of (yet).
HasType(m, x) == Known(m, x) /\ Scope(m).env[x] \in typed
\* A read in the code of module m: the module it goes to, by name even when m
\* does not import it, and whether the name is found there.
Target(m, r) == IF r[1] = "" THEN m ELSE r[1]
Found(m, r) ==
  /\ Target(m, r) \in Registered
  /\ Known(Target(m, r), r[2])
  /\ r[1] # "" => Visible(r[1], r[2])
Checks(m, r) == Found(m, r) /\ HasType(Target(m, r), r[2])

\* ------------------------------------------------------------------- imports
\* The import of a module that is not there yet: its file is parsed and it is
\* registered, still empty, before its own imports are looked at.
LoadImport ==
  /\ phase \in {"sigs", "load"} /\ Importing
  /\ Import.mod \notin Registered
  /\ IF Import.mod \in DOMAIN project
     THEN /\ scopes' = Append(scopes, NewScope(Import.mod))
          /\ stack' = Append(stack, Loading(Import.mod))
          /\ UNCHANGED phase
     ELSE /\ phase' = (IF phase = "sigs" THEN "rejected" ELSE "failed")    \* not found
          /\ UNCHANGED <<scopes, stack>>
  /\ UNCHANGED <<project, typed, errors, sigs>>

\* The import of a module that is registered, be it complete or not. Names that
\* are picked out of it are bound to what they stand for at this moment.
Wanted == {Import.names[i] : i \in DOMAIN Import.names}
Picked(xs) == [x \in xs |-> Scope(Import.mod).env[x]]
\* mutant: a name that cannot be picked is skipped in silence
SelectSigs_Silent ==
  /\ phase = "sigs" /\ Importing /\ Import.mod \in Registered
  /\ Bind(Top.mod, Picked({x \in Wanted : HasType(Import.mod, x) /\ Visible(Import.mod, x)}), {})
  /\ stack' = NextImport
  /\ UNCHANGED <<project, phase, typed, errors, sigs>>
SelectSigs ==
  /\ phase = "sigs" /\ Importing /\ Import.mod \in Registered
  /\ LET ok == {x \in Wanted : HasType(Import.mod, x) /\ Visible(Import.mod, x)}
     IN  Bind(Top.mod, Picked(ok), {}) /\ errors' = (errors \/ ok # Wanted)
  /\ stack' = NextImport
  /\ UNCHANGED <<project, phase, typed, sigs>>
SelectValues ==
  /\ phase = "load" /\ Importing /\ Import.mod \in Registered
  /\ IF \A x \in Wanted : Known(Import.mod, x) /\ Visible(Import.mod, x)
     THEN Bind(Top.mod, Picked(Wanted), {}) /\ stack' = NextImport /\ UNCHANGED phase
     ELSE phase' = "failed" /\ UNCHANGED <<scopes, stack>>
  /\ UNCHANGED <<project, typed, errors, sigs>>

\* --------------------------------------------------------------- the checker
\* The declarations enter the signature together; a constant without a type
\* annotation has its type only once its initialiser is checked.
DeclareSigs ==
  /\ phase = "sigs" /\ Declaring
  /\ LET m == Top.mod
         ds == {d \in DeclsIn(m) : Decl(d).kind \in Values}
     IN  /\ Bind(m, EnvOf(ds), Publics(m, Values \cup {"type"}))
         /\ typed' = typed \cup {d \in ds : Decl(d).kind = "func" \/ Decl(d).typed}
  /\ IF Len(stack) > 1 THEN stack' = Pop /\ UNCHANGED phase
     ELSE phase' = "bodies" /\ stack' = <<Bodies(1, 1)>>
  /\ UNCHANGED <<project, errors, sigs>>

\* The bodies, module by module in the order in which they were registered.
CheckBody ==
  /\ phase = "bodies" /\ Top.pos <= Len(scopes)
  /\ LET m == scopes[Top.pos].mod
         d == <<m, Top.decl>>
     IN  IF Top.decl <= Len(project[m].decls)
         THEN /\ errors' = (errors \/ \E i \in DOMAIN Decl(d).reads : ~Checks(m, Decl(d).reads[i]))
              /\ typed' = typed \cup {d}
              /\ stack' = <<Bodies(Top.pos, Top.decl + 1)>>
         ELSE /\ stack' = <<Bodies(Top.pos + 1, 1)>>
              /\ UNCHANGED <<errors, typed>>
  /\ UNCHANGED <<project, phase, scopes, sigs>>
\* cardinal.py interprets what the checker accepts; nothing of the checker is kept.
Verdict ==
  /\ phase = "bodies" /\ Top.pos > Len(scopes)
  /\ IF errors THEN phase' = "rejected" /\ UNCHANGED <<stack, scopes, sigs>>
     ELSE /\ phase' = "load"
          /\ stack' = <<Loading("main")>>
          /\ scopes' = <<NewScope("main")>>
          /\ sigs' = scopes
  /\ UNCHANGED <<project, typed, errors>>

\* ----------------------------------------------------------- the interpreter
\* The declarations are carried out one after the other.
Declared == <<Top.mod, Top.decl>>
\* mutant: a name that was picked out of another module is not declared again
DeclareFunc_Keeps ==
  /\ phase = "load" /\ Declaring /\ Top.decl <= Len(project[Top.mod].decls)
  /\ Decl(Declared).kind # "const"
  /\ IF Decl(Declared).kind = "func" /\ ~Known(Top.mod, Decl(Declared).name)
     THEN Bind(Top.mod, EnvOf({Declared}),
               IF Decl(Declared).exported THEN {Decl(Declared).name} ELSE {})
     ELSE UNCHANGED scopes
  /\ stack' = NextDecl
  /\ UNCHANGED <<project, phase, typed, errors, sigs>>
DeclareFunc ==
  /\ phase = "load" /\ Declaring /\ Top.decl <= Len(project[Top.mod].decls)
  /\ Decl(Declared).kind # "const"
  /\ IF Decl(Declared).kind = "func"
     THEN Bind(Top.mod, EnvOf({Declared}),
               IF Decl(Declared).exported THEN {Decl(Declared).name} ELSE {})
     ELSE UNCHANGED scopes
  /\ stack' = NextDecl
  /\ UNCHANGED <<project, phase, typed, errors, sigs>>
EvalConst ==
  /\ phase = "load" /\ Declaring /\ Top.decl <= Len(project[Top.mod].decls)
  /\ Decl(Declared).kind = "const"
  /\ stack' = Append(NextDecl, Evaluating(Declared))
  /\ UNCHANGED <<project, phase, scopes, typed, errors, sigs>>
\* The module is complete; after the first one, main is called.
HasMain == Known("main", "main") /\ Decl(Scope("main").env["main"]).kind = "func"
Populated ==
  /\ phase = "load" /\ Declaring /\ Top.decl > Len(project[Top.mod].decls)
  /\ IF Len(stack) > 1 THEN stack' = Pop /\ UNCHANGED phase
     ELSE IF HasMain
     THEN phase' = "run" /\ stack' = <<Evaluating(Scope("main").env["main"])>>
     ELSE phase' = "failed" /\ UNCHANGED stack     \* no 'main', or not a function
  /\ UNCHANGED <<project, scopes, typed, errors, sigs>>

\* Initialisers and bodies, read by read; a function runs in its own module.
Running == phase \in {"load", "run"} /\ stack # <<>> /\ Top.do = "eval"
Pending == Top.read <= Len(Decl(Top.of).reads)
Eval ==
  /\ Running /\ Pending
  /\ LET m == Top.of[1]
         r == Decl(Top.of).reads[Top.read]
     IN  IF ~Found(m, r) THEN phase' = "failed" /\ UNCHANGED stack
         ELSE LET d == Scope(Target(m, r)).env[r[2]]
              IN  /\ stack' = IF Decl(d).kind = "func" THEN Append(NextRead, Evaluating(d)) ELSE NextRead
                  /\ UNCHANGED phase
  /\ UNCHANGED <<project, scopes, typed, errors, sigs>>
\* mutant: every constant is exported
Evaluated_Exports ==
  /\ Running /\ ~Pending
  /\ LET d == Decl(Top.of)
     IN  IF d.kind = "const" THEN Bind(Top.of[1], EnvOf({Top.of}), {d.name}) ELSE UNCHANGED scopes
  /\ stack' = Pop
  /\ phase' = IF Len(stack) = 1 THEN "done" ELSE phase
  /\ UNCHANGED <<project, typed, errors, sigs>>
Evaluated ==
  /\ Running /\ ~Pending
  /\ LET d == Decl(Top.of)
     IN  IF d.kind = "const"
         THEN Bind(Top.of[1], EnvOf({Top.of}), IF d.exported THEN {d.name} ELSE {})
         ELSE UNCHANGED scopes
  /\ stack' = Pop
  /\ phase' = IF Len(stack) = 1 THEN "done" ELSE phase
  /\ UNCHANGED <<project, typed, errors, sigs>>

Stopped == phase \in Final /\ UNCHANGED vars

Init ==
  /\ project \in Projects
  /\ phase = "sigs" /\ stack = <<Loading("main")>> /\ scopes = <<NewScope("main")>>
  /\ typed = {} /\ errors = FALSE /\ sigs = <<>>
Next ==
  \/ LoadImport \/ SelectSigs \/ SelectValues
  \/ DeclareSigs \/ CheckBody \/ Verdict
  \/ DeclareFunc \/ EvalConst \/ Populated \/ Eval \/ Evaluated
  \/ Stopped
Spec == Init /\ [][Next]_vars
\* The driver does nothing else in its process.
FairSpec == Spec /\ WF_vars(Next)

--------------------------------------------------------------------------------
\* Scopes hold what their modules declare or picked out of another; every call in
\* progress is of a module or a declaration that exists.
TypeOK ==
  /\ phase \in {"sigs", "bodies", "load", "run"} \cup Final
  /\ Registered \subseteq DOMAIN project /\ Cardinality(Registered) = Len(scopes)
  /\ \A i \in DOMAIN scopes :
       /\ \A x \in DOMAIN scopes[i].env :
            LET d == scopes[i].env[x]
            IN  d[1] \in Registered /\ d \in DeclsIn(d[1]) /\ Decl(d).name = x
       /\ scopes[i].exports \subseteq Publics(scopes[i].mod, Values \cup {"type"})
  /\ \A i \in DOMAIN stack :
       \/ stack[i].do = "load" /\ stack[i].mod \in Registered
       \/ stack[i].do = "eval" /\ stack[i].of \in DeclsIn(stack[i].of[1])
       \/ stack[i].do = "bodies"

\* A module whose declarations only read what is there when they are run, whenever
\* the module is loaded: names of modules that it imports and that do not lead back
\* to it, and of its own what it declares before.
Imports(m) == {project[m].imports[i].mod : i \in DOMAIN project[m].imports} \cap DOMAIN project
LeadsBack(m) ==
  \A ms \in SUBSET DOMAIN project :
    Imports(m) \subseteq ms /\ (\A n \in ms : Imports(n) \subseteq ms) => m \in ms
InOrder(m) ==
  /\ ~LeadsBack(m)
  /\ \A d \in DeclsIn(m) : \A i \in DOMAIN Decl(d).reads :
       LET r == Decl(d).reads[i]
       IN  IF r[1] = ""
           THEN \A e \in DeclsIn(m) : Decl(e).name = r[2] => e[2] < d[2]
           ELSE r[1] \in Imports(m)
\* A module that exports a type under the name of a value that it picks. The
\* checker takes the value for exported, the interpreter exports no types.
Overloads(m) ==
  \E d \in DeclsIn(m) : \E i \in DOMAIN project[m].imports :
    /\ Decl(d).kind = "type" /\ Decl(d).exported
    /\ \E j \in DOMAIN project[m].imports[i].names : project[m].imports[i].names[j] = Decl(d).name
\* A project that the checker accepts is loaded and main, if there is one, runs to
\* its end: it finds every name it needs, directly or in what it calls. Apart from
\* names that a module overloads, only initialisers, which run while modules are
\* still being loaded, can miss one, and only if some module is not in order.
AcceptedRuns ==
  phase = "failed" =>
    \/ Declaring /\ ~HasMain
    \/ \E m \in Registered : Overloads(m)
    \/ Top.do = "eval" /\ stack[1].do = "load" /\ \E m \in Registered : ~InOrder(m)
\* Both see the same program: once loaded, a name of a module stands for the
\* declaration that the checker had found for it, although the checker fills a
\* scope at once and the interpreter declaration by declaration.
ScopesAgree ==
  phase \in {"run", "done"} =>
    /\ [i \in DOMAIN scopes |-> scopes[i].mod] = [i \in DOMAIN sigs |-> sigs[i].mod]
    /\ \A i \in DOMAIN scopes : scopes[i].env = sigs[i].env

\* Private by default (DESIGN.md): once a module exports a declaration, no other
\* module of an accepted program picks out or names one that it does not export,
\* in whatever state of the module it was looked up.
Accessible(d) == Decl(d).exported \/ Publics(d[1], Values \cup {"type"}) = {}
PrivateHidden ==
  phase \in {"load", "run", "done"} =>
    /\ \A i \in DOMAIN sigs : \A x \in DOMAIN sigs[i].env :
         sigs[i].env[x][1] = sigs[i].mod \/ Accessible(sigs[i].env[x])
    /\ \A m \in Registered : \A d \in DeclsIn(m) : \A i \in DOMAIN Decl(d).reads :
         LET r == Decl(d).reads[i]
         IN  r[1] \notin {"", m} =>
               \A e \in DeclsIn(r[1]) : Decl(e).name = r[2] => Accessible(e)

\* Loading ends, also of modules that import each other or themselves.
LoadingEnds == <>(phase \in Final)
=============================================================================
