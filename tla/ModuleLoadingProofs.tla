------------------------ MODULE ModuleLoadingProofs ------------------------
(***************************************************************************)
(* Proofs about the loading of modules, for every project whose modules   *)
(* declare a name once: the scopes that checker and interpreter build are *)
(* well formed, and what a module keeps private stays hidden from others. *)
(* Both loaders come to the same scopes. The lemmas speak of a project p   *)
(* and of scopes ss, whichever of the two walks they come from.           *)
(***************************************************************************)
EXTENDS ModuleLoading, FiniteSetTheorems, SequenceTheorems, TLAPS

DeclOf(p, d) == p[d[1]].decls[d[2]]
DeclsOf(p, m) == {<<m, i>> : i \in DOMAIN p[m].decls}
PublicsOf(p, m) == {DeclOf(p, d).name : d \in {e \in DeclsOf(p, m) : DeclOf(p, e).exported}}
AccessibleIn(p, d) == DeclOf(p, d).exported \/ PublicsOf(p, d[1]) = {}

Refs == STRING \X Nat
Envs == UNION {[xs -> Refs] : xs \in SUBSET STRING}
Scopes == [mod : STRING, env : Envs, exports : SUBSET STRING]
ModsOf(ss) == {ss[i].mod : i \in DOMAIN ss}

(* A name x of a scope may stand for d.                                    *)
StandsFor(p, ss, x, d) == d[1] \in ModsOf(ss) /\ d \in DeclsOf(p, d[1]) /\ DeclOf(p, d).name = x
GoodEnv(p, ss, env) == env \in Envs /\ \A x \in DOMAIN env : StandsFor(p, ss, x, env[x])

ScopesOK(p, ss) ==
  /\ ss \in Seq(Scopes)
  /\ \A i, j \in DOMAIN ss : ss[i].mod = ss[j].mod => i = j
  /\ IsFiniteSet(ModsOf(ss)) /\ Cardinality(ModsOf(ss)) = Len(ss)
  /\ \A i \in DOMAIN ss :
       /\ ss[i].mod \in DOMAIN p
       /\ GoodEnv(p, ss, ss[i].env)
       /\ ss[i].exports \subseteq PublicsOf(p, ss[i].mod)

(* A module exports nothing until it is declared, then all it has to; names  *)
(* come from declared modules only, and none from a module that hides it.   *)
Declares(p, s) == s.exports = PublicsOf(p, s.mod)
FromDeclared(p, ss, d) == \A j \in DOMAIN ss : ss[j].mod = d[1] => Declares(p, ss[j])
Signed(p, ss) ==
  \A i \in DOMAIN ss :
    /\ ss[i].exports = {} \/ Declares(p, ss[i])
    /\ \A x \in DOMAIN ss[i].env :
         /\ FromDeclared(p, ss, ss[i].env[x])
         /\ ss[i].env[x][1] = ss[i].mod \/ AccessibleIn(p, ss[i].env[x])

(* What Bind does to the scope at position k.                              *)
AddedAt(ss, k, env, exports) == [ss EXCEPT ![k] = Added(@, env, exports)]

--------------------------------------------------------------------------------
LEMMA FileType ==
  ASSUME NEW p \in Projects, NEW m \in DOMAIN p
  PROVE  /\ p[m] \in Files
         /\ p[m].decls \in Seq(Declarations)
         /\ p[m].imports \in Seq([mod : STRING, names : Seq(STRING)])
         /\ \A i, j \in DOMAIN p[m].decls : p[m].decls[i].name = p[m].decls[j].name => i = j
<1>1. p[m] \in Files
  BY ProjectsAssumption
<1> QED
  BY <1>1, ProjectsAssumption DEF Files

(* A declaration is a reference to a declaration of its module.            *)
LEMMA DeclType ==
  ASSUME NEW p \in Projects, NEW m \in DOMAIN p, m \in STRING, NEW d \in DeclsOf(p, m)
  PROVE  d[1] = m /\ d \in Refs /\ d[2] \in DOMAIN p[m].decls /\ DeclOf(p, d) \in Declarations
<1>1. p[m].decls \in Seq(Declarations)
  BY FileType
<1>2. PICK i \in DOMAIN p[m].decls : d = <<m, i>>
  BY DEF DeclsOf
<1>3. DOMAIN p[m].decls = 1..Len(p[m].decls) /\ Len(p[m].decls) \in Nat
  BY <1>1, LenProperties
<1>4. i \in Nat
  BY <1>2, <1>3
<1>5. p[m].decls[i] \in Declarations
  BY <1>1, <1>2, <1>3, ElementOfSeq
<1> QED
  BY <1>2, <1>4, <1>5 DEF DeclOf, Refs

(* A name that a module exports belongs to one declaration, which is       *)
(* exported.                                                               *)
LEMMA PublicName ==
  ASSUME NEW p \in Projects, NEW m \in DOMAIN p, m \in STRING,
         NEW d \in DeclsOf(p, m), DeclOf(p, d).name \in PublicsOf(p, m)
  PROVE  DeclOf(p, d).exported
<1>1. PICK e \in DeclsOf(p, m) : DeclOf(p, e).exported /\ DeclOf(p, e).name = DeclOf(p, d).name
  BY DEF PublicsOf
<1>2. PICK i \in DOMAIN p[m].decls : d = <<m, i>>
  BY DEF DeclsOf
<1>3. PICK j \in DOMAIN p[m].decls : e = <<m, j>>
  BY DEF DeclsOf
<1>4. p[m].decls[i].name = p[m].decls[j].name
  BY <1>1, <1>2, <1>3 DEF DeclOf
<1>5. i = j
  BY <1>4, FileType
<1> QED
  BY <1>1, <1>2, <1>3, <1>5

LEMMA WithType ==
  ASSUME NEW env \in Envs, NEW old \in Envs
  PROVE  /\ With(env, old) \in Envs
         /\ DOMAIN With(env, old) = DOMAIN env \cup DOMAIN old
         /\ \A x \in DOMAIN env : With(env, old)[x] = env[x]
         /\ \A x \in DOMAIN old : x \notin DOMAIN env => With(env, old)[x] = old[x]
<1>1. PICK xs \in SUBSET STRING : env \in [xs -> Refs]
  BY DEF Envs
<1>2. PICK ys \in SUBSET STRING : old \in [ys -> Refs]
  BY DEF Envs
<1>3. DOMAIN env = xs /\ DOMAIN old = ys
  BY <1>1, <1>2
<1>4. With(env, old) \in [xs \cup ys -> Refs]
  BY <1>1, <1>2, <1>3 DEF With
<1>5. xs \cup ys \in SUBSET STRING
  OBVIOUS
<1>6. With(env, old) \in Envs
  BY <1>4, <1>5 DEF Envs
<1>7. DOMAIN With(env, old) = DOMAIN env \cup DOMAIN old
  BY DEF With
<1>8. \A x \in DOMAIN env : With(env, old)[x] = env[x]
  BY DEF With
<1>9. \A x \in DOMAIN old : x \notin DOMAIN env => With(env, old)[x] = old[x]
  BY DEF With
<1> QED
  BY <1>6, <1>7, <1>8, <1>9

LEMMA GoodWith ==
  ASSUME NEW p, NEW ss, NEW env, NEW old, GoodEnv(p, ss, env), GoodEnv(p, ss, old)
  PROVE  GoodEnv(p, ss, With(env, old))
<1>1. With(env, old) \in Envs
  BY WithType DEF GoodEnv
<1>2. ASSUME NEW x \in DOMAIN With(env, old)
      PROVE  StandsFor(p, ss, x, With(env, old)[x])
  <2>1. env \in Envs /\ old \in Envs
    BY DEF GoodEnv
  <2>2. x \in DOMAIN env \cup DOMAIN old
    BY <1>2, <2>1, WithType
  <2>3. CASE x \in DOMAIN env
    <3>1. With(env, old)[x] = env[x]
      BY <2>1, <2>2, <2>3, WithType
    <3> QED
      BY <2>3, <3>1 DEF GoodEnv
  <2>4. CASE x \notin DOMAIN env
    <3>2. \A y \in DOMAIN old : y \notin DOMAIN env => With(env, old)[y] = old[y]
      BY ONLY <2>1, WithType
    <3>1. With(env, old)[x] = old[x]
      BY ONLY <2>2, <2>4, <3>2
    <3> QED
      BY <2>2, <2>4, <3>1 DEF GoodEnv
  <2> QED
    BY <2>3, <2>4
<1> QED
  BY <1>1, <1>2 DEF GoodEnv

(* What one module's scope gains, and that the others stay.                *)
LEMMA AddedScope ==
  ASSUME NEW ss \in Seq(Scopes), NEW k \in DOMAIN ss, NEW env \in Envs, NEW ex \in SUBSET STRING,
         NEW tt, tt = AddedAt(ss, k, env, ex)
  PROVE  /\ tt \in Seq(Scopes) /\ DOMAIN tt = DOMAIN ss /\ Len(tt) = Len(ss)
         /\ \A i \in DOMAIN ss : tt[i].mod = ss[i].mod
         /\ \A i \in DOMAIN ss : i # k => tt[i] = ss[i]
         /\ tt[k].env = With(env, ss[k].env)
         /\ tt[k].exports = ss[k].exports \cup ex
         /\ ModsOf(tt) = ModsOf(ss)
<1>1. ss[k] \in Scopes /\ DOMAIN ss = 1..Len(ss) /\ Len(ss) \in Nat
  BY ElementOfSeq, LenProperties
<1>2. With(env, ss[k].env) \in Envs
  BY <1>1, WithType DEF Scopes
<1>3. /\ Added(ss[k], env, ex) \in Scopes
      /\ Added(ss[k], env, ex).mod = ss[k].mod
      /\ Added(ss[k], env, ex).env = With(env, ss[k].env)
      /\ Added(ss[k], env, ex).exports = ss[k].exports \cup ex
  BY <1>1, <1>2 DEF Added, Scopes
<1>4. tt \in Seq(Scopes) /\ Len(tt) = Len(ss) /\ DOMAIN tt = DOMAIN ss
  BY <1>1, <1>3, ExceptSeq DEF AddedAt
<1>5. tt[k] = Added(ss[k], env, ex) /\ \A i \in DOMAIN ss : i # k => tt[i] = ss[i]
  BY <1>1 DEF AddedAt
<1>6. \A i \in DOMAIN ss : tt[i].mod = ss[i].mod
  BY <1>3, <1>5
<1>7. ModsOf(tt) = ModsOf(ss)
  BY <1>4, <1>6 DEF ModsOf
<1> QED
  BY <1>3, <1>4, <1>5, <1>6, <1>7

LEMMA ScopesAdd ==
  ASSUME NEW p, NEW ss, ScopesOK(p, ss), NEW k \in DOMAIN ss, NEW env, GoodEnv(p, ss, env),
         NEW ex \in SUBSET STRING, ex \subseteq PublicsOf(p, ss[k].mod),
         NEW tt, tt = AddedAt(ss, k, env, ex)
  PROVE  ScopesOK(p, tt)
<1>1. ss \in Seq(Scopes) /\ env \in Envs
  BY DEF ScopesOK, GoodEnv
<1>2. /\ tt \in Seq(Scopes) /\ DOMAIN tt = DOMAIN ss /\ Len(tt) = Len(ss)
      /\ \A i \in DOMAIN ss : tt[i].mod = ss[i].mod
      /\ \A i \in DOMAIN ss : i # k => tt[i] = ss[i]
      /\ tt[k].env = With(env, ss[k].env)
      /\ tt[k].exports = ss[k].exports \cup ex
      /\ ModsOf(tt) = ModsOf(ss)
  BY <1>1, AddedScope
<1>3. \A e : GoodEnv(p, ss, e) => GoodEnv(p, tt, e)
  BY <1>2 DEF GoodEnv, StandsFor
<1>4. ASSUME NEW i \in DOMAIN tt
      PROVE  /\ tt[i].mod \in DOMAIN p
             /\ GoodEnv(p, tt, tt[i].env)
             /\ tt[i].exports \subseteq PublicsOf(p, tt[i].mod)
  <2>1. CASE i # k
    BY <1>2, <1>3, <2>1 DEF ScopesOK
  <2>2. CASE i = k
    <3>1. GoodEnv(p, ss, With(env, ss[k].env))
      BY GoodWith DEF ScopesOK
    <3> QED
      BY <1>2, <1>3, <2>2, <3>1 DEF ScopesOK
  <2> QED
    BY <2>1, <2>2
<1>5. \A i, j \in DOMAIN tt : tt[i].mod = tt[j].mod => i = j
  BY <1>2 DEF ScopesOK
<1>6. IsFiniteSet(ModsOf(tt)) /\ Cardinality(ModsOf(tt)) = Len(tt)
  BY <1>2 DEF ScopesOK
<1> QED
  BY <1>2, <1>4, <1>5, <1>6 DEF ScopesOK

LEMMA NewScopeType ==
  ASSUME NEW m \in STRING
  PROVE  /\ NewScope(m) \in Scopes
         /\ NewScope(m).mod = m /\ NewScope(m).exports = {} /\ DOMAIN NewScope(m).env = {}
         /\ \A p, ss : GoodEnv(p, ss, NewScope(m).env)
<1>1. Empty \in [{} -> Refs] /\ DOMAIN Empty = {}
  BY DEF Empty
<1>2. Empty \in Envs
  BY <1>1 DEF Envs
<1> QED
  BY <1>1, <1>2 DEF NewScope, Scopes, GoodEnv

LEMMA ScopesAppend ==
  ASSUME NEW p, NEW ss, ScopesOK(p, ss), NEW m \in DOMAIN p, m \in STRING, m \notin ModsOf(ss),
         NEW tt, tt = Append(ss, NewScope(m))
  PROVE  /\ ScopesOK(p, tt)
         /\ ModsOf(ss) \subseteq ModsOf(tt) /\ m \in ModsOf(tt)
         /\ \A x \in ModsOf(tt) : x \in ModsOf(ss) \/ x = m
         /\ DOMAIN tt = DOMAIN ss \cup {Len(ss) + 1} /\ Len(ss) + 1 \notin DOMAIN ss
         /\ tt[Len(ss) + 1] = NewScope(m)
         /\ \A i \in DOMAIN ss : tt[i] = ss[i]
<1> DEFINE n == Len(ss) + 1
<1>1. ss \in Seq(Scopes) /\ NewScope(m) \in Scopes /\ NewScope(m).mod = m
  BY NewScopeType DEF ScopesOK
<1>2. /\ tt \in Seq(Scopes) /\ Len(tt) = n /\ Len(ss) \in Nat
      /\ DOMAIN ss = 1..Len(ss) /\ DOMAIN tt = 1..n
      /\ tt[n] = NewScope(m) /\ \A i \in 1..Len(ss) : tt[i] = ss[i]
  BY <1>1, AppendProperties, LenProperties
<1>3. DOMAIN tt = DOMAIN ss \cup {n} /\ n \notin DOMAIN ss
  BY <1>2
<1>4. ModsOf(tt) = ModsOf(ss) \cup {m}
  BY <1>1, <1>2, <1>3 DEF ModsOf
<1>5. IsFiniteSet(ModsOf(tt)) /\ Cardinality(ModsOf(tt)) = Len(tt)
  BY <1>2, <1>4, FS_AddElement DEF ScopesOK
<1>6. \A i, j \in DOMAIN tt : tt[i].mod = tt[j].mod => i = j
  <2>1. \A i \in DOMAIN ss : tt[i].mod # m
    BY <1>2 DEF ModsOf
  <2> QED
    BY <1>1, <1>2, <1>3, <2>1 DEF ScopesOK
<1>7. ASSUME NEW i \in DOMAIN tt
      PROVE  /\ tt[i].mod \in DOMAIN p
             /\ GoodEnv(p, tt, tt[i].env)
             /\ tt[i].exports \subseteq PublicsOf(p, tt[i].mod)
  <2>1. CASE i = n
    BY <1>1, <1>2, <2>1, NewScopeType
  <2>2. CASE i \in DOMAIN ss
    <3>1. tt[i] = ss[i]
      BY <1>2, <2>2
    <3>2. GoodEnv(p, ss, ss[i].env)
      BY <2>2 DEF ScopesOK
    <3>3. GoodEnv(p, tt, ss[i].env)
      BY <1>4, <3>2 DEF GoodEnv, StandsFor
    <3> QED
      BY <2>2, <3>1, <3>3 DEF ScopesOK
  <2> QED
    BY <1>3, <2>1, <2>2
<1> QED
  BY <1>2, <1>3, <1>4, <1>5, <1>6, <1>7 DEF ScopesOK

--------------------------------------------------------------------------------
(* Names that are picked out of a scope of the checker come from modules   *)
(* that are declared and do not hide them.                                 *)
LEMMA PickedNames ==
  ASSUME NEW p \in Projects, NEW ss, ScopesOK(p, ss), Signed(p, ss), NEW j \in DOMAIN ss,
         NEW x \in DOMAIN ss[j].env, ss[j].exports = {} \/ x \in ss[j].exports
  PROVE  FromDeclared(p, ss, ss[j].env[x]) /\ AccessibleIn(p, ss[j].env[x])
<1> DEFINE d == ss[j].env[x]
           m == ss[j].mod
<1>1. FromDeclared(p, ss, d) /\ (d[1] = m \/ AccessibleIn(p, d))
  BY DEF Signed
<1>2. SUFFICES ASSUME d[1] = m PROVE AccessibleIn(p, d)
  BY <1>1
<1>3. ss[j].exports = PublicsOf(p, m)
  BY <1>1, <1>2 DEF FromDeclared, Declares
<1>4. CASE ss[j].exports = {}
  BY <1>2, <1>3, <1>4 DEF AccessibleIn
<1>5. CASE x \in ss[j].exports
  <2>1. StandsFor(p, ss, x, d) /\ m \in DOMAIN p
    BY DEF ScopesOK, GoodEnv
  <2>2. m \in STRING
    <3>1. ss \in Seq(Scopes)
      BY DEF ScopesOK
    <3>2. ss[j] \in Scopes
      BY <3>1, ElementOfSeq, LenProperties
    <3> QED
      BY <3>2 DEF Scopes
  <2>3. d \in DeclsOf(p, m) /\ DeclOf(p, d).name \in PublicsOf(p, m)
    BY <1>2, <1>3, <1>5, <2>1 DEF StandsFor
  <2> QED
    BY <2>1, <2>2, <2>3, PublicName DEF AccessibleIn
<1> QED
  BY <1>4, <1>5

LEMMA SignedAppend ==
  ASSUME NEW p, NEW ss, ScopesOK(p, ss), Signed(p, ss), NEW m \in DOMAIN p, m \in STRING,
         m \notin ModsOf(ss), NEW tt, tt = Append(ss, NewScope(m))
  PROVE  Signed(p, tt)
<1> DEFINE n == Len(ss) + 1
<1>1. /\ DOMAIN tt = DOMAIN ss \cup {n} /\ tt[n] = NewScope(m)
      /\ \A i \in DOMAIN ss : tt[i] = ss[i]
  BY ScopesAppend
<1>2. NewScope(m).mod = m /\ NewScope(m).exports = {} /\ DOMAIN NewScope(m).env = {}
  BY NewScopeType
<1>3. ASSUME NEW i \in DOMAIN ss, NEW x \in DOMAIN ss[i].env
      PROVE  FromDeclared(p, tt, ss[i].env[x])
  <2>1. ss[i].env[x][1] \in ModsOf(ss)
    BY DEF ScopesOK, GoodEnv, StandsFor
  <2>2. ss[i].env[x][1] # m
    BY <2>1
  <2>3. FromDeclared(p, ss, ss[i].env[x])
    BY DEF Signed
  <2> QED
    BY <1>1, <1>2, <2>2, <2>3 DEF FromDeclared
<1>4. ASSUME NEW i \in DOMAIN tt
      PROVE  /\ tt[i].exports = {} \/ Declares(p, tt[i])
             /\ \A x \in DOMAIN tt[i].env :
                  /\ FromDeclared(p, tt, tt[i].env[x])
                  /\ tt[i].env[x][1] = tt[i].mod \/ AccessibleIn(p, tt[i].env[x])
  <2>1. CASE i = n
    BY <1>1, <1>2, <2>1
  <2>2. CASE i \in DOMAIN ss
    BY <1>1, <1>3, <2>2 DEF Signed
  <2> QED
    BY <1>1, <2>1, <2>2
<1> QED
  BY <1>4 DEF Signed

(* Declared modules stay so.                                               *)
LEMMA DeclaresKept ==
  ASSUME NEW p, NEW ss, ScopesOK(p, ss), NEW k \in DOMAIN ss, NEW env \in Envs,
         NEW ex \in SUBSET STRING, ex \subseteq PublicsOf(p, ss[k].mod),
         NEW tt, tt = AddedAt(ss, k, env, ex), NEW j \in DOMAIN ss, Declares(p, ss[j])
  PROVE  Declares(p, tt[j])
<1>1. ss \in Seq(Scopes)
  BY DEF ScopesOK
<1>2. /\ \A i \in DOMAIN ss : tt[i].mod = ss[i].mod
      /\ \A i \in DOMAIN ss : i # k => tt[i] = ss[i]
      /\ tt[k].exports = ss[k].exports \cup ex
  BY <1>1, AddedScope
<1>3. CASE j = k
  BY <1>2, <1>3 DEF Declares
<1>4. CASE j # k
  BY <1>2, <1>4 DEF Declares
<1> QED
  BY <1>3, <1>4

(* The scope at k gains names of others that are not hidden, or all of its *)
(* own together with its exports.                                          *)
LEMMA SignedAdd ==
  ASSUME NEW p, NEW ss, ScopesOK(p, ss), Signed(p, ss), NEW k \in DOMAIN ss,
         NEW env, GoodEnv(p, ss, env), NEW ex \in SUBSET STRING,
         NEW tt, tt = AddedAt(ss, k, env, ex),
         \/ /\ ex = {}
            /\ \A x \in DOMAIN env : FromDeclared(p, ss, env[x]) /\ AccessibleIn(p, env[x])
         \/ /\ ex = PublicsOf(p, ss[k].mod)
            /\ \A x \in DOMAIN env : env[x][1] = ss[k].mod
  PROVE  Signed(p, tt)
<1>1. ss \in Seq(Scopes) /\ env \in Envs /\ ss[k].env \in Envs
  BY DEF ScopesOK, GoodEnv
<1>2. /\ DOMAIN tt = DOMAIN ss
      /\ \A i \in DOMAIN ss : tt[i].mod = ss[i].mod
      /\ \A i \in DOMAIN ss : i # k => tt[i] = ss[i]
      /\ tt[k].env = With(env, ss[k].env)
      /\ tt[k].exports = ss[k].exports \cup ex
  BY <1>1, AddedScope
<1>3. ex \subseteq PublicsOf(p, ss[k].mod)
  OBVIOUS
<1>4. \A j \in DOMAIN ss : Declares(p, ss[j]) => Declares(p, tt[j])
  BY <1>1, <1>3, DeclaresKept
<1>5. \A d : FromDeclared(p, ss, d) => FromDeclared(p, tt, d)
  BY <1>2, <1>4 DEF FromDeclared
<1>6. tt[k].exports = {} \/ Declares(p, tt[k])
  BY <1>2 DEF Signed, Declares
<1>7. ASSUME NEW x \in DOMAIN env
      PROVE  FromDeclared(p, tt, env[x]) /\ (env[x][1] = tt[k].mod \/ AccessibleIn(p, env[x]))
  <2>1. CASE ex = {} /\ FromDeclared(p, ss, env[x]) /\ AccessibleIn(p, env[x])
    BY <1>5, <2>1
  <2>2. CASE ex = PublicsOf(p, ss[k].mod) /\ env[x][1] = ss[k].mod
    <3>1. Declares(p, tt[k])
      BY <1>2, <2>2 DEF Signed, Declares
    <3>2. FromDeclared(p, tt, env[x])
      BY <1>2, <2>2, <3>1 DEF FromDeclared, ScopesOK
    <3> QED
      BY <1>2, <2>2, <3>2
  <2> QED
    BY <2>1, <2>2
<1>8. ASSUME NEW x \in DOMAIN tt[k].env
      PROVE  /\ FromDeclared(p, tt, tt[k].env[x])
             /\ tt[k].env[x][1] = tt[k].mod \/ AccessibleIn(p, tt[k].env[x])
  <2> DEFINE old == ss[k].env
  <2>1. /\ DOMAIN With(env, old) = DOMAIN env \cup DOMAIN old
        /\ \A y \in DOMAIN env : With(env, old)[y] = env[y]
        /\ \A y \in DOMAIN old : y \notin DOMAIN env => With(env, old)[y] = old[y]
    BY <1>1, WithType
  <2>2. x \in DOMAIN env \cup DOMAIN old
    BY ONLY <1>2, <1>8, <2>1
  <2>3. /\ x \in DOMAIN env => tt[k].env[x] = env[x]
        /\ x \notin DOMAIN env => tt[k].env[x] = old[x]
    BY ONLY <1>2, <2>1, <2>2
  <2>4. CASE x \in DOMAIN env
    BY <1>7, <2>3, <2>4
  <2>5. CASE x \notin DOMAIN env
    BY <1>2, <1>5, <2>2, <2>3, <2>5 DEF Signed
  <2> QED
    BY <2>4, <2>5
<1>9. ASSUME NEW i \in DOMAIN tt
      PROVE  /\ tt[i].exports = {} \/ Declares(p, tt[i])
             /\ \A x \in DOMAIN tt[i].env :
                  /\ FromDeclared(p, tt, tt[i].env[x])
                  /\ tt[i].env[x][1] = tt[i].mod \/ AccessibleIn(p, tt[i].env[x])
  <2>1. CASE i = k
    BY <1>6, <1>8, <2>1
  <2>2. CASE i # k
    BY <1>2, <1>5, <2>2 DEF Signed
  <2> QED
    BY <2>1, <2>2
<1> QED
  BY <1>9 DEF Signed

--------------------------------------------------------------------------------
(* Calls in progress.                                                      *)
LoadFrames == [do : {"load"}, mod : STRING, imp : Nat \ {0}, decl : Nat \ {0}]
EvalFrames == [do : {"eval"}, of : Refs, read : Nat \ {0}]
BodyFrames == [do : {"bodies"}, pos : Nat \ {0}, decl : Nat \ {0}]
Frames == LoadFrames \cup EvalFrames \cup BodyFrames
FrameOK(p, ss, f) ==
  /\ f \in LoadFrames => f.mod \in ModsOf(ss)
  /\ f \in EvalFrames => f.of[1] \in ModsOf(ss) /\ f.of \in DeclsOf(p, f.of[1])
StackOK(p, ss, st) == st \in Seq(Frames) /\ \A i \in DOMAIN st : FrameOK(p, ss, st[i])

(* The imports of m before the n-th are registered.                        *)
ImportsBefore(p, ss, m, n) ==
  \A k \in DOMAIN p[m].imports : k < n => p[m].imports[k].mod \in ModsOf(ss)
AllImports(p, ss, m) == \A k \in DOMAIN p[m].imports : p[m].imports[k].mod \in ModsOf(ss)
Complete(p, ss, s) == Declares(p, s) /\ AllImports(p, ss, s.mod)

(* A read in module m finds its name in the scopes ss, and so do all that   *)
(* the declaration d needs.                                                *)
PosOf(ss, m) == CHOOSE i \in DOMAIN ss : ss[i].mod = m
Sees(ss, n, x) == ss[PosOf(ss, n)].exports = {} \/ x \in ss[PosOf(ss, n)].exports
FoundIn(ss, m, r) ==
  /\ Target(m, r) \in ModsOf(ss)
  /\ r[2] \in DOMAIN ss[PosOf(ss, Target(m, r))].env
  /\ r[1] # "" => Sees(ss, r[1], r[2])
ReadsFound(p, ss, d) ==
  \A i \in DOMAIN DeclOf(p, d).reads : FoundIn(ss, d[1], DeclOf(p, d).reads[i])
BodiesBefore(p, ss, f) ==
  \A i \in DOMAIN ss : \A d \in DeclsOf(p, ss[i].mod) :
    i < f.pos \/ (i = f.pos /\ d[2] < f.decl) => ReadsFound(p, ss, d)

(* The inductive invariant. Types: what TypeOK says, and a little more.     *)
Types ==
  /\ project \in Projects
  /\ phase \in {"sigs", "bodies", "load", "run"} \cup Final
  /\ ScopesOK(project, scopes) /\ "main" \in ModsOf(scopes)
  /\ StackOK(project, scopes, stack)

(* While signatures are built, a module that is not on the stack is        *)
(* complete; one that is on the stack has its imports up to the one that it *)
(* has come to.                                                            *)
Building(p, ss, st) ==
  /\ st # <<>>
  /\ \A j \in DOMAIN st : st[j] \in LoadFrames /\ ImportsBefore(p, ss, st[j].mod, st[j].imp)
  /\ \A i \in DOMAIN ss : Complete(p, ss, ss[i]) \/ \E j \in DOMAIN st : st[j].mod = ss[i].mod
(* While bodies are checked everything is complete.                        *)
Checking(p, ss, st, errs) ==
  /\ Len(st) = 1 /\ st[1] \in BodyFrames
  /\ \A i \in DOMAIN ss : Complete(p, ss, ss[i])
  /\ errs \/ BodiesBefore(p, ss, st[1])
(* What the interpreter starts from: it never loads a module that the      *)
(* checker has not seen.                                                   *)
Accepted(p, gs) ==
  /\ ScopesOK(p, gs) /\ Signed(p, gs)
  /\ \A i \in DOMAIN gs : Complete(p, gs, gs[i])
  /\ \A i \in DOMAIN gs : \A d \in DeclsOf(p, gs[i].mod) : ReadsFound(p, gs, d)
Walk ==
  /\ phase \in {"sigs", "bodies"} => Signed(project, scopes)
  /\ phase = "sigs" => Building(project, scopes, stack)
  /\ phase = "bodies" => Checking(project, scopes, stack, errors)
  /\ phase \in {"load", "run", "done"} =>
       Accepted(project, sigs) /\ ModsOf(scopes) \subseteq ModsOf(sigs)
IInv == Types /\ Walk

--------------------------------------------------------------------------------
LEMMA StackTop ==
  ASSUME NEW p, NEW ss, NEW st, StackOK(p, ss, st), st # <<>>
  PROVE  /\ Len(st) \in DOMAIN st /\ Len(st) \in Nat \ {0}
         /\ DOMAIN st = 1..Len(st)
         /\ st[Len(st)] \in Frames /\ FrameOK(p, ss, st[Len(st)])
<1>1. st \in Seq(Frames)
  BY DEF StackOK
<1>2. DOMAIN st = 1..Len(st) /\ Len(st) \in Nat /\ Len(st) # 0
  BY <1>1, LenProperties, EmptySeq
<1>3. Len(st) \in DOMAIN st
  BY <1>2
<1> QED
  BY <1>1, <1>2, <1>3, ElementOfSeq DEF StackOK

LEMMA StackPop ==
  ASSUME NEW p, NEW ss, NEW st, StackOK(p, ss, st), st # <<>>,
         NEW tt, tt = SubSeq(st, 1, Len(st) - 1)
  PROVE  /\ StackOK(p, ss, tt)
         /\ Len(tt) = Len(st) - 1 /\ DOMAIN tt = 1..(Len(st) - 1)
         /\ \A i \in DOMAIN tt : i \in DOMAIN st /\ tt[i] = st[i]
<1>1. st \in Seq(Frames) /\ Len(st) \in Nat \ {0} /\ DOMAIN st = 1..Len(st)
  BY StackTop DEF StackOK
<1>2. tt \in Seq(Frames) /\ Len(tt) = Len(st) - 1 /\ \A i \in 1..(Len(st) - 1) : tt[i] = st[i]
  BY <1>1, SubSeqProperties
<1>3. DOMAIN tt = 1..(Len(st) - 1)
  BY <1>1, <1>2, LenProperties
<1>4. \A i \in DOMAIN tt : i \in DOMAIN st /\ tt[i] = st[i]
  BY <1>1, <1>2, <1>3
<1> QED
  BY <1>2, <1>3, <1>4 DEF StackOK

LEMMA StackPush ==
  ASSUME NEW p, NEW ss, NEW st, StackOK(p, ss, st), NEW f \in Frames, FrameOK(p, ss, f),
         NEW tt, tt = Append(st, f)
  PROVE  /\ StackOK(p, ss, tt) /\ tt # <<>>
         /\ DOMAIN tt = DOMAIN st \cup {Len(st) + 1}
         /\ tt[Len(st) + 1] = f
         /\ \A i \in DOMAIN st : tt[i] = st[i]
<1>1. st \in Seq(Frames) /\ Len(st) \in Nat /\ DOMAIN st = 1..Len(st)
  BY LenProperties DEF StackOK
<1>2. /\ tt \in Seq(Frames) /\ Len(tt) = Len(st) + 1 /\ DOMAIN tt = 1..(Len(st) + 1)
      /\ tt[Len(st) + 1] = f /\ \A i \in 1..Len(st) : tt[i] = st[i]
  BY <1>1, AppendProperties, LenProperties
<1>3. DOMAIN tt = DOMAIN st \cup {Len(st) + 1}
  BY <1>1, <1>2
<1>4. \A i \in DOMAIN tt : FrameOK(p, ss, tt[i])
  BY <1>1, <1>2, <1>3 DEF StackOK
<1>5. tt # <<>>
  BY <1>1, <1>2
<1> QED
  BY <1>1, <1>2, <1>3, <1>4, <1>5 DEF StackOK

(* The call at the top becomes f.                                          *)
Replaced(st, f) == [st EXCEPT ![Len(st)] = f]

LEMMA StackReplace ==
  ASSUME NEW p, NEW ss, NEW st, StackOK(p, ss, st), st # <<>>,
         NEW f \in Frames, FrameOK(p, ss, f),
         NEW tt, tt = Replaced(st, f)
  PROVE  /\ StackOK(p, ss, tt) /\ tt # <<>> /\ Len(tt) = Len(st) /\ DOMAIN tt = DOMAIN st
         /\ tt[Len(st)] = f
         /\ \A i \in DOMAIN st : i # Len(st) => tt[i] = st[i]
<1>1. st \in Seq(Frames) /\ Len(st) \in Nat \ {0} /\ DOMAIN st = 1..Len(st) /\ Len(st) \in DOMAIN st
  BY StackTop DEF StackOK
<1>2. tt \in Seq(Frames) /\ Len(tt) = Len(st) /\ DOMAIN tt = DOMAIN st
  BY <1>1, ExceptSeq, LenProperties DEF Replaced
<1>3. tt[Len(st)] = f /\ \A i \in DOMAIN st : i # Len(st) => tt[i] = st[i]
  BY <1>1 DEF Replaced
<1>4. tt # <<>>
  BY <1>1, <1>2
<1>5. \A i \in DOMAIN tt : FrameOK(p, ss, tt[i])
  BY <1>2, <1>3 DEF StackOK
<1> QED
  BY <1>2, <1>3, <1>4, <1>5 DEF StackOK

LEMMA StackGrows ==
  ASSUME NEW p, NEW ss, NEW st, StackOK(p, ss, st), NEW tt, ModsOf(ss) \subseteq ModsOf(tt)
  PROVE  StackOK(p, tt, st)
  BY DEF StackOK, FrameOK

(* A load call moves on to its next import, or its next declaration.       *)
LEMMA NextFrame ==
  ASSUME NEW p, NEW ss, NEW f \in Frames, FrameOK(p, ss, f), f.do = "load"
  PROVE  /\ f \in LoadFrames /\ f.mod \in ModsOf(ss) /\ f.imp \in Nat \ {0} /\ f.decl \in Nat \ {0}
         /\ [f EXCEPT !.imp = @ + 1] \in LoadFrames /\ [f EXCEPT !.decl = @ + 1] \in LoadFrames
         /\ FrameOK(p, ss, [f EXCEPT !.imp = @ + 1])
         /\ FrameOK(p, ss, [f EXCEPT !.decl = @ + 1])
         /\ [f EXCEPT !.imp = @ + 1].mod = f.mod /\ [f EXCEPT !.imp = @ + 1].imp = f.imp + 1
         /\ [f EXCEPT !.decl = @ + 1].mod = f.mod
<1>1. f \in LoadFrames
  BY DEF Frames, LoadFrames, EvalFrames, BodyFrames
<1>2. f.mod \in ModsOf(ss)
  BY <1>1 DEF FrameOK
<1>3. /\ [f EXCEPT !.imp = @ + 1] \in LoadFrames /\ [f EXCEPT !.decl = @ + 1] \in LoadFrames
      /\ [f EXCEPT !.imp = @ + 1].mod = f.mod /\ [f EXCEPT !.imp = @ + 1].imp = f.imp + 1
      /\ [f EXCEPT !.decl = @ + 1].mod = f.mod
      /\ f.imp \in Nat \ {0} /\ f.decl \in Nat \ {0}
  BY <1>1 DEF LoadFrames
<1>4. \A g \in LoadFrames : g \notin EvalFrames
  BY DEF LoadFrames, EvalFrames
<1> QED
  BY <1>1, <1>2, <1>3, <1>4 DEF FrameOK

--------------------------------------------------------------------------------
(* The operators of the specification, in the state that they speak of.    *)
LEMMA ModName ==
  ASSUME NEW p, NEW ss, ScopesOK(p, ss), NEW m \in ModsOf(ss)
  PROVE  m \in STRING /\ m \in DOMAIN p
<1>1. PICK i \in DOMAIN ss : m = ss[i].mod
  BY DEF ModsOf
<1>2. ss \in Seq(Scopes) /\ ss[i].mod \in DOMAIN p
  BY DEF ScopesOK
<1>3. ss[i] \in Scopes
  BY <1>2, ElementOfSeq, LenProperties
<1> QED
  BY <1>1, <1>2, <1>3 DEF Scopes

LEMMA DeclsAre ==
  /\ \A d : Decl(d) = DeclOf(project, d)
  /\ \A m : DeclsIn(m) = DeclsOf(project, m)
  BY DEF Decl, DeclOf, DeclsIn, DeclsOf

LEMMA PublicsAre ==
  ASSUME project \in Projects, NEW m \in DOMAIN project, m \in STRING
  PROVE  Publics(m, Values \cup {"type"}) = PublicsOf(project, m)
<1>1. \A d \in DeclsOf(project, m) : DeclOf(project, d).kind \in Values \cup {"type"}
  BY DeclType DEF Declarations, Values
<1> QED
  BY <1>1, DeclsAre DEF Publics, PublicsOf

LEMMA ScopeAt ==
  ASSUME ScopesOK(project, scopes), NEW m \in ModsOf(scopes)
  PROVE  /\ At(m) \in DOMAIN scopes /\ scopes[At(m)].mod = m
         /\ \A i \in DOMAIN scopes : scopes[i].mod = m => i = At(m)
<1>1. \E i \in DOMAIN scopes : scopes[i].mod = m
  BY DEF ModsOf
<1>2. At(m) \in DOMAIN scopes /\ scopes[At(m)].mod = m
  BY <1>1 DEF At
<1> QED
  BY <1>2 DEF ScopesOK

LEMMA RegisteredAre == Registered = ModsOf(scopes)
  BY DEF Registered, ModsOf

LEMMA TopFrame ==
  ASSUME Types, stack # <<>>
  PROVE  Top \in Frames /\ FrameOK(project, scopes, Top)
  BY StackTop DEF Types, Top

LEMMA TopLoads ==
  ASSUME Types, stack # <<>>, Top.do = "load"
  PROVE  /\ Top \in LoadFrames /\ Top.mod \in ModsOf(scopes)
         /\ Top.mod \in STRING /\ Top.mod \in DOMAIN project
         /\ Top.imp \in Nat \ {0} /\ Top.decl \in Nat \ {0}
<1>1. Top \in Frames /\ FrameOK(project, scopes, Top)
  BY TopFrame
<1>2. /\ Top \in LoadFrames /\ Top.mod \in ModsOf(scopes)
      /\ Top.imp \in Nat \ {0} /\ Top.decl \in Nat \ {0}
  BY <1>1, NextFrame
<1> QED
  BY <1>2, ModName DEF Types

LEMMA TopEvals ==
  ASSUME Types, stack # <<>>, Top.do = "eval"
  PROVE  /\ Top \in EvalFrames /\ Top.of[1] \in ModsOf(scopes)
         /\ Top.of[1] \in STRING /\ Top.of[1] \in DOMAIN project
         /\ Top.of \in DeclsOf(project, Top.of[1])
         /\ Decl(Top.of) \in Declarations
<1>1. Top \in Frames /\ FrameOK(project, scopes, Top)
  BY TopFrame
<1>2. Top \in EvalFrames
  BY <1>1 DEF Frames, LoadFrames, EvalFrames, BodyFrames
<1>3. Top.of[1] \in ModsOf(scopes) /\ Top.of \in DeclsOf(project, Top.of[1])
  BY <1>1, <1>2 DEF FrameOK
<1>4. Top.of[1] \in STRING /\ Top.of[1] \in DOMAIN project
  BY <1>3, ModName DEF Types
<1>5. DeclOf(project, Top.of) \in Declarations
  BY <1>3, <1>4, DeclType DEF Types
<1> QED
  BY <1>2, <1>3, <1>4, <1>5, DeclsAre

LEMMA ImportType ==
  ASSUME Types, Importing
  PROVE  /\ Top.imp \in DOMAIN project[Top.mod].imports
         /\ Import.mod \in STRING /\ Wanted \in SUBSET STRING
<1>1. Top.mod \in DOMAIN project /\ Top.imp \in Nat \ {0}
  BY TopLoads DEF Importing
<1>2. project[Top.mod].imports \in Seq([mod : STRING, names : Seq(STRING)])
  BY <1>1, FileType DEF Types
<1>3. Top.imp \in DOMAIN project[Top.mod].imports
  BY <1>1, <1>2, LenProperties DEF Importing
<1>4. Import \in [mod : STRING, names : Seq(STRING)]
  BY <1>1, <1>2, <1>3, ElementOfSeq, LenProperties DEF Import, Importing
<1>5. Import.mod \in STRING /\ Import.names \in Seq(STRING)
  BY <1>4
<1>6. \A i \in DOMAIN Import.names : Import.names[i] \in STRING
  BY <1>5, ElementOfSeq, LenProperties
<1> QED
  BY <1>3, <1>5, <1>6 DEF Wanted

(* The names that an import picks, of a registered module.                 *)
LEMMA PickedType ==
  ASSUME Types, Importing, Import.mod \in ModsOf(scopes), NEW xs \in SUBSET STRING,
         \A x \in xs : Known(Import.mod, x)
  PROVE  /\ GoodEnv(project, scopes, Picked(xs))
         /\ DOMAIN Picked(xs) = xs
         /\ \A x \in xs : Picked(xs)[x] = scopes[At(Import.mod)].env[x]
<1> DEFINE j == At(Import.mod)
<1>1. j \in DOMAIN scopes
  BY ScopeAt DEF Types
<1>2. GoodEnv(project, scopes, scopes[j].env)
  BY <1>1 DEF Types, ScopesOK
<1>3. \A x \in xs : x \in DOMAIN scopes[j].env
  BY DEF Known, Scope
<1>4. PICK ys \in SUBSET STRING : scopes[j].env \in [ys -> Refs]
  BY <1>2 DEF GoodEnv, Envs
<1>5. /\ DOMAIN Picked(xs) = xs
      /\ \A x \in xs : Picked(xs)[x] = scopes[j].env[x]
  BY DEF Picked, Scope
<1>6. Picked(xs) \in [xs -> Refs]
  BY <1>3, <1>4 DEF Picked, Scope
<1>7. Picked(xs) \in Envs
  BY <1>6 DEF Envs
<1> QED
  BY <1>2, <1>3, <1>5, <1>7 DEF GoodEnv

LEMMA ImportMoves ==
  ASSUME Types, stack # <<>>, Top.do = "load", NEW tt, tt = NextImport
  PROVE  /\ StackOK(project, scopes, tt) /\ tt # <<>> /\ DOMAIN tt = DOMAIN stack
         /\ tt[Len(stack)] \in LoadFrames
         /\ tt[Len(stack)].mod = Top.mod /\ tt[Len(stack)].imp = Top.imp + 1
         /\ \A i \in DOMAIN stack : i # Len(stack) => tt[i] = stack[i]
<1> DEFINE f == [Top EXCEPT !.imp = @ + 1]
<1>1. tt = Replaced(stack, f)
  BY DEF NextImport, Top, Replaced
<1>2. Top \in Frames /\ FrameOK(project, scopes, Top)
  BY TopFrame
<1>3. f \in LoadFrames /\ FrameOK(project, scopes, f) /\ f.mod = Top.mod /\ f.imp = Top.imp + 1
  BY <1>2, NextFrame
<1>4. f \in Frames
  BY <1>3 DEF Frames
<1> HIDE DEF f
<1> QED
  BY <1>1, <1>3, <1>4, StackReplace DEF Types

LEMMA DeclMoves ==
  ASSUME Types, stack # <<>>, Top.do = "load",
         NEW tt, tt = NextDecl
  PROVE  StackOK(project, scopes, tt) /\ tt # <<>>
<1> DEFINE f == [Top EXCEPT !.decl = @ + 1]
<1>1. tt = Replaced(stack, f)
  BY DEF NextDecl, Top, Replaced
<1>2. Top \in Frames /\ FrameOK(project, scopes, Top)
  BY TopFrame
<1>3. f \in LoadFrames /\ FrameOK(project, scopes, f)
  BY <1>2, NextFrame
<1>4. f \in Frames
  BY <1>3 DEF Frames
<1> HIDE DEF f
<1> QED
  BY <1>1, <1>3, <1>4, StackReplace DEF Types

LEMMA LoadingFrame ==
  ASSUME NEW p, NEW ss, NEW m \in ModsOf(ss), m \in STRING
  PROVE  /\ Loading(m) \in LoadFrames /\ Loading(m) \in Frames /\ FrameOK(p, ss, Loading(m))
         /\ Loading(m).mod = m /\ Loading(m).imp = 1
<1>1. Loading(m) \in LoadFrames /\ Loading(m).mod = m /\ Loading(m).imp = 1
  BY DEF Loading, LoadFrames
<1>2. \A g \in LoadFrames : g \notin EvalFrames
  BY DEF LoadFrames, EvalFrames
<1> QED
  BY <1>1, <1>2 DEF Frames, FrameOK

LEMMA EvalFrame ==
  ASSUME NEW p, NEW ss, NEW d \in Refs, d[1] \in ModsOf(ss), d \in DeclsOf(p, d[1])
  PROVE  Evaluating(d) \in Frames /\ FrameOK(p, ss, Evaluating(d))
<1>1. Evaluating(d) \in EvalFrames /\ Evaluating(d).of = d
  BY DEF Evaluating, EvalFrames
<1>2. \A g \in EvalFrames : g \notin LoadFrames
  BY DEF LoadFrames, EvalFrames
<1> QED
  BY <1>1, <1>2 DEF Frames, FrameOK

LEMMA OneFrame ==
  ASSUME NEW p, NEW ss, NEW f \in Frames, FrameOK(p, ss, f)
  PROVE  StackOK(p, ss, <<f>>)
  BY DEF StackOK

--------------------------------------------------------------------------------
(* Building, when a module is registered, when names are bound in the one  *)
(* at the top, and when that one is complete.                              *)
LEMMA BuildingPush ==
  ASSUME NEW p \in Projects, NEW ss, NEW st, ScopesOK(p, ss), StackOK(p, ss, st), Building(p, ss, st),
         NEW m \in DOMAIN p, m \in STRING, m \notin ModsOf(ss),
         NEW tt, tt = Append(ss, NewScope(m)), NEW ut, ut = Append(st, Loading(m))
  PROVE  Building(p, tt, ut)
<1> DEFINE n == Len(st) + 1
<1>1. /\ ModsOf(ss) \subseteq ModsOf(tt) /\ m \in ModsOf(tt)
      /\ DOMAIN tt = DOMAIN ss \cup {Len(ss) + 1}
      /\ tt[Len(ss) + 1].mod = m
      /\ \A i \in DOMAIN ss : tt[i] = ss[i]
  <2>1. NewScope(m).mod = m
    BY NewScopeType
  <2>2. ModsOf(ss) \subseteq ModsOf(tt) /\ m \in ModsOf(tt)
    BY ScopesAppend
  <2>3. DOMAIN tt = DOMAIN ss \cup {Len(ss) + 1}
    BY ScopesAppend
  <2>4. tt[Len(ss) + 1] = NewScope(m) /\ \A i \in DOMAIN ss : tt[i] = ss[i]
    BY ScopesAppend
  <2> QED
    BY <2>1, <2>2, <2>3, <2>4
<1>2. Loading(m) \in LoadFrames /\ Loading(m).mod = m /\ Loading(m).imp = 1
  BY <1>1, LoadingFrame
<1>3. StackOK(p, tt, st)
  BY <1>1, StackGrows
<1>4. /\ ut # <<>> /\ DOMAIN ut = DOMAIN st \cup {n} /\ ut[n] = Loading(m)
      /\ \A i \in DOMAIN st : ut[i] = st[i]
  BY <1>1, <1>3, LoadingFrame, StackPush
<1>5. ASSUME NEW j \in DOMAIN ut
      PROVE  ut[j] \in LoadFrames /\ ImportsBefore(p, tt, ut[j].mod, ut[j].imp)
  <2>1. CASE j \in DOMAIN st
    BY <1>1, <1>4, <2>1 DEF Building, ImportsBefore
  <2>2. CASE j = n
    <3>1. p[m].imports \in Seq([mod : STRING, names : Seq(STRING)])
      BY FileType
    <3>2. \A k \in DOMAIN p[m].imports : ~(k < 1)
      BY <3>1, LenProperties
    <3> QED
      BY <1>2, <1>4, <2>2, <3>2 DEF ImportsBefore
  <2> QED
    BY <1>4, <2>1, <2>2
<1>6. ASSUME NEW i \in DOMAIN tt
      PROVE  Complete(p, tt, tt[i]) \/ \E j \in DOMAIN ut : ut[j].mod = tt[i].mod
  <2>1. CASE i \in DOMAIN ss
    <3>1. CASE Complete(p, ss, ss[i])
      BY <1>1, <2>1, <3>1 DEF Complete, AllImports
    <3>2. CASE \E j \in DOMAIN st : st[j].mod = ss[i].mod
      BY <1>1, <1>4, <2>1, <3>2
    <3> QED
      BY <2>1, <3>1, <3>2 DEF Building
  <2>2. CASE i = Len(ss) + 1
    BY <1>1, <1>2, <1>4, <2>2
  <2> QED
    BY <1>1, <2>1, <2>2
<1> QED
  BY <1>4, <1>5, <1>6 DEF Building

LEMMA CompleteKept ==
  ASSUME NEW p, NEW ss, ScopesOK(p, ss), NEW k \in DOMAIN ss, NEW env \in Envs,
         NEW ex \in SUBSET STRING, ex \subseteq PublicsOf(p, ss[k].mod),
         NEW tt, tt = AddedAt(ss, k, env, ex), NEW i \in DOMAIN ss, Complete(p, ss, ss[i])
  PROVE  Complete(p, tt, tt[i])
<1>1. ss \in Seq(Scopes)
  BY DEF ScopesOK
<1>2. ModsOf(tt) = ModsOf(ss) /\ tt[i].mod = ss[i].mod
  BY <1>1, AddedScope
<1>3. Declares(p, tt[i])
  BY DeclaresKept DEF Complete
<1> QED
  BY <1>2, <1>3 DEF Complete, AllImports

LEMMA BuildingBind ==
  ASSUME Types, Importing, Building(project, scopes, stack), Import.mod \in ModsOf(scopes),
         NEW k \in DOMAIN scopes, NEW env \in Envs,
         NEW tt, tt = AddedAt(scopes, k, env, {}), NEW ut, ut = NextImport
  PROVE  Building(project, tt, ut)
<1>1. scopes \in Seq(Scopes) /\ ScopesOK(project, scopes)
  BY DEF Types, ScopesOK
<1>2. /\ DOMAIN tt = DOMAIN scopes /\ ModsOf(tt) = ModsOf(scopes)
      /\ \A i \in DOMAIN scopes : tt[i].mod = scopes[i].mod
  BY <1>1, AddedScope
<1>3. /\ ut # <<>> /\ DOMAIN ut = DOMAIN stack
      /\ ut[Len(stack)] \in LoadFrames
      /\ ut[Len(stack)].mod = Top.mod /\ ut[Len(stack)].imp = Top.imp + 1
      /\ \A i \in DOMAIN stack : i # Len(stack) => ut[i] = stack[i]
  BY ImportMoves DEF Importing
<1>4. ASSUME NEW j \in DOMAIN stack
      PROVE  ut[j].mod = stack[j].mod
  BY <1>3 DEF Top
<1>5. ASSUME NEW j \in DOMAIN ut
      PROVE  ut[j] \in LoadFrames /\ ImportsBefore(project, tt, ut[j].mod, ut[j].imp)
  <2>1. CASE j # Len(stack)
    BY <1>2, <1>3, <2>1 DEF Building, ImportsBefore
  <2>2. CASE j = Len(stack)
    <3>1. ImportsBefore(project, scopes, Top.mod, Top.imp)
      BY <1>3, <2>2 DEF Building, Top
    <3>2. project[Top.mod].imports \in Seq([mod : STRING, names : Seq(STRING)]) /\ Top.imp \in Nat
      BY TopLoads, FileType DEF Importing, Types
    <3>3. \A n \in DOMAIN project[Top.mod].imports : n \in Nat /\ (n < Top.imp + 1 => n < Top.imp \/ n = Top.imp)
      BY <3>2, LenProperties
    <3>4. ImportsBefore(project, tt, Top.mod, Top.imp + 1)
      BY <1>2, <3>1, <3>3 DEF ImportsBefore, Import
    <3> QED
      BY <1>3, <2>2, <3>4
  <2> QED
    BY <2>1, <2>2
<1>6. ASSUME NEW i \in DOMAIN tt
      PROVE  Complete(project, tt, tt[i]) \/ \E j \in DOMAIN ut : ut[j].mod = tt[i].mod
  <2>1. CASE Complete(project, scopes, scopes[i])
    BY <1>1, <1>2, <2>1, CompleteKept
  <2>2. CASE \E j \in DOMAIN stack : stack[j].mod = scopes[i].mod
    BY <1>2, <1>3, <1>4, <2>2
  <2> QED
    BY <1>2, <2>1, <2>2 DEF Building
<1> QED
  BY <1>3, <1>5, <1>6 DEF Building

(* The module at the top, declared with all that it exports, is complete.  *)
LEMMA BuildingDeclares ==
  ASSUME Types, Declaring, Signed(project, scopes), Building(project, scopes, stack),
         NEW env \in Envs,
         NEW tt, tt = AddedAt(scopes, At(Top.mod), env, PublicsOf(project, Top.mod))
  PROVE  \A i \in DOMAIN tt :
           \/ Complete(project, tt, tt[i])
           \/ \E j \in DOMAIN stack : j # Len(stack) /\ stack[j].mod = tt[i].mod
<1> DEFINE k == At(Top.mod)
           ex == PublicsOf(project, Top.mod)
<1>1. scopes \in Seq(Scopes) /\ ScopesOK(project, scopes)
  BY DEF Types, ScopesOK
<1>2. /\ Top.mod \in ModsOf(scopes) /\ Top.mod \in STRING /\ Top.mod \in DOMAIN project
      /\ Top.imp \in Nat
  BY TopLoads DEF Declaring
<1>3. k \in DOMAIN scopes /\ scopes[k].mod = Top.mod /\ \A i \in DOMAIN scopes : scopes[i].mod = Top.mod => i = k
  BY <1>1, <1>2, ScopeAt
<1>4. ex \in SUBSET STRING
  BY <1>2, DeclType DEF Types, PublicsOf, Declarations
<1> HIDE DEF k, ex
<1>5. /\ DOMAIN tt = DOMAIN scopes /\ ModsOf(tt) = ModsOf(scopes)
      /\ \A i \in DOMAIN scopes : tt[i].mod = scopes[i].mod
      /\ tt[k].exports = scopes[k].exports \cup ex
  BY <1>1, <1>3, <1>4, AddedScope DEF k, ex
<1>6. Complete(project, tt, tt[k])
  <2>1. Declares(project, tt[k])
    BY <1>3, <1>5 DEF Signed, Declares, ex
  <2>2. project[Top.mod].imports \in Seq([mod : STRING, names : Seq(STRING)])
    BY <1>2, FileType DEF Types
  <2>3. \A n \in DOMAIN project[Top.mod].imports : n < Top.imp
    BY <1>2, <2>2, LenProperties DEF Declaring
  <2>4. ImportsBefore(project, scopes, Top.mod, Top.imp)
    BY StackTop DEF Building, Top, Types
  <2> QED
    BY <1>3, <1>5, <2>1, <2>3, <2>4 DEF Complete, AllImports, ImportsBefore
<1>7. ASSUME NEW i \in DOMAIN tt
      PROVE  \/ Complete(project, tt, tt[i])
             \/ \E j \in DOMAIN stack : j # Len(stack) /\ stack[j].mod = tt[i].mod
  <2>1. CASE i = k
    BY <1>6, <2>1
  <2>2. CASE i # k
    <3>1. CASE Complete(project, scopes, scopes[i])
      <4>1. ex \subseteq PublicsOf(project, scopes[k].mod)
        BY <1>3 DEF ex
      <4> QED
        BY <1>1, <1>3, <1>4, <1>5, <3>1, <4>1, CompleteKept DEF k, ex
    <3>2. CASE \E j \in DOMAIN stack : stack[j].mod = scopes[i].mod
      <4>1. PICK j \in DOMAIN stack : stack[j].mod = scopes[i].mod
        BY <3>2
      <4>2. scopes[i].mod # Top.mod
        BY <1>3, <1>5, <2>2
      <4>3. j # Len(stack)
        BY <4>1, <4>2 DEF Top
      <4> QED
        BY <1>5, <4>1, <4>3
    <3> QED
      BY <1>5, <3>1, <3>2 DEF Building
  <2> QED
    BY <2>1, <2>2
<1> QED
  BY <1>7

LEMMA BuildingPop ==
  ASSUME Types, Building(project, scopes, stack), Len(stack) > 1,
         NEW tt, ModsOf(tt) = ModsOf(scopes),
         \A i \in DOMAIN tt :
           \/ Complete(project, tt, tt[i])
           \/ \E j \in DOMAIN stack : j # Len(stack) /\ stack[j].mod = tt[i].mod,
         NEW ut, ut = Pop
  PROVE  Building(project, tt, ut)
<1>1. Len(stack) \in Nat /\ DOMAIN stack = 1..Len(stack)
  BY StackTop DEF Types, Building
<1>2. /\ Len(ut) = Len(stack) - 1 /\ DOMAIN ut = 1..(Len(stack) - 1)
      /\ \A i \in DOMAIN ut : i \in DOMAIN stack /\ ut[i] = stack[i]
  BY StackPop DEF Types, Building, Pop
<1>3. ut # <<>>
  BY <1>1, <1>2
<1>4. \A j \in DOMAIN ut : ut[j] \in LoadFrames /\ ImportsBefore(project, tt, ut[j].mod, ut[j].imp)
  BY <1>2 DEF Building, ImportsBefore
<1>5. \A j \in DOMAIN stack : j # Len(stack) => j \in DOMAIN ut /\ ut[j] = stack[j]
  BY <1>1, <1>2
<1>6. ASSUME NEW i \in DOMAIN tt
      PROVE  Complete(project, tt, tt[i]) \/ \E j \in DOMAIN ut : ut[j].mod = tt[i].mod
  BY <1>5
<1> QED
  BY <1>3, <1>4, <1>6 DEF Building

(* Bodies are checked from the first declaration of a module on.           *)
LEMMA BodiesFrame ==
  ASSUME NEW p, NEW tt, NEW i \in Nat \ {0}, NEW j \in Nat \ {0}
  PROVE  /\ Bodies(i, j) \in BodyFrames /\ Bodies(i, j).pos = i /\ Bodies(i, j).decl = j
         /\ StackOK(p, tt, <<Bodies(i, j)>>)
<1>1. Bodies(i, j) \in BodyFrames /\ Bodies(i, j).pos = i /\ Bodies(i, j).decl = j
  BY DEF Bodies, BodyFrames
<1>2. \A g \in BodyFrames : g \notin LoadFrames /\ g \notin EvalFrames
  BY DEF BodyFrames, LoadFrames, EvalFrames
<1>3. Bodies(i, j) \in Frames /\ FrameOK(p, tt, Bodies(i, j))
  BY <1>1, <1>2 DEF Frames, FrameOK
<1> QED
  BY <1>1, <1>3, OneFrame

LEMMA DeclIndex ==
  ASSUME NEW p \in Projects, NEW tt, ScopesOK(p, tt), NEW i \in DOMAIN tt, NEW d \in DeclsOf(p, tt[i].mod)
  PROVE  /\ i \in Nat \ {0} /\ d[2] \in Nat /\ ~(d[2] < 1) /\ d = <<tt[i].mod, d[2]>>
         /\ d[2] <= Len(p[tt[i].mod].decls) /\ Len(p[tt[i].mod].decls) \in Nat
<1>1. tt \in Seq(Scopes)
  BY DEF ScopesOK
<1>2. tt[i].mod \in ModsOf(tt)
  BY DEF ModsOf
<1>3. tt[i].mod \in STRING /\ tt[i].mod \in DOMAIN p
  BY <1>2, ModName
<1>4. d[2] \in DOMAIN p[tt[i].mod].decls /\ p[tt[i].mod].decls \in Seq(Declarations)
  BY <1>3, DeclType, FileType
<1>5. d = <<tt[i].mod, d[2]>>
  BY DEF DeclsOf
<1> QED
  BY <1>1, <1>4, <1>5, LenProperties

LEMMA CheckingStarts ==
  ASSUME NEW p \in Projects, NEW tt, ScopesOK(p, tt), \A i \in DOMAIN tt : Complete(p, tt, tt[i]),
         NEW ut, ut = <<Bodies(1, 1)>>, NEW errs
  PROVE  StackOK(p, tt, ut) /\ Checking(p, tt, ut, errs)
<1> DEFINE f == Bodies(1, 1)
<1>1. f \in BodyFrames /\ f.pos = 1 /\ f.decl = 1 /\ StackOK(p, tt, ut)
  BY BodiesFrame
<1> HIDE DEF f
<1>2. Len(ut) = 1 /\ ut[1] = f
  BY DEF f
<1>3. BodiesBefore(p, tt, f)
  BY <1>1, DeclIndex DEF BodiesBefore
<1> QED
  BY <1>1, <1>2, <1>3 DEF Checking

LEMMA DeclaredEnv ==
  ASSUME Types, NEW m \in ModsOf(scopes), NEW ds \in SUBSET DeclsIn(m),
         NEW env, env = EnvOf(ds)
  PROVE  GoodEnv(project, scopes, env) /\ \A x \in DOMAIN env : env[x][1] = m
<1>1. m \in STRING /\ m \in DOMAIN project
  BY ModName DEF Types
<1>2. \A d \in ds : /\ d[1] = m /\ d \in Refs /\ d \in DeclsOf(project, m)
                    /\ Decl(d) = DeclOf(project, d) /\ Decl(d).name \in STRING
  BY <1>1, DeclType, DeclsAre DEF Types, Declarations
<1> DEFINE xs == {Decl(d).name : d \in ds}
           g(x) == CHOOSE d \in ds : Decl(d).name = x
<1>3. \A x \in xs : g(x) \in ds /\ Decl(g(x)).name = x
  OBVIOUS
<1>4. xs \in SUBSET STRING
  BY <1>2
<1> HIDE DEF g
<1>5. env = [x \in xs |-> g(x)]
  BY DEF g, EnvOf
<1> HIDE DEF xs
<1>6. DOMAIN env = xs /\ \A x \in xs : env[x] = g(x)
  BY <1>5
<1>7. env \in [xs -> Refs]
  BY <1>2, <1>3, <1>5
<1>8. env \in Envs
  BY <1>4, <1>7 DEF Envs
<1>9. \A x \in xs : StandsFor(project, scopes, x, g(x)) /\ g(x)[1] = m
  BY <1>2, <1>3 DEF StandsFor
<1> QED
  BY ONLY <1>6, <1>8, <1>9 DEF GoodEnv

--------------------------------------------------------------------------------
(* Every step keeps the invariant.                                         *)
LEMMA FirstScope ==
  ASSUME NEW p, NEW m \in DOMAIN p, m \in STRING, NEW ss, ss = <<NewScope(m)>>
  PROVE  ScopesOK(p, ss) /\ ModsOf(ss) = {m} /\ Signed(p, ss)
<1> DEFINE s == NewScope(m)
<1>1. s \in Scopes /\ s.mod = m /\ s.exports = {} /\ DOMAIN s.env = {} /\ GoodEnv(p, ss, s.env)
  BY NewScopeType
<1>2. ss = <<s>>
  OBVIOUS
<1> HIDE DEF s
<1>3. ModsOf(ss) = {m} /\ DOMAIN ss = {1} /\ ss[1] = s /\ Len(ss) = 1
  BY <1>1, <1>2 DEF ModsOf
<1>4. IsFiniteSet({m}) /\ Cardinality({m}) = 1
  BY FS_Singleton
<1>5. ScopesOK(p, ss)
  BY <1>1, <1>2, <1>3, <1>4 DEF ScopesOK
<1> QED
  BY <1>1, <1>3, <1>5 DEF Signed

LEMMA InitKeeps == Init => IInv
<1> SUFFICES ASSUME Init PROVE IInv
  OBVIOUS
<1>1. PICK m \in STRING : m = "main" /\ m \in DOMAIN project
  BY ProjectsAssumption DEF Init
<1>2. /\ scopes = <<NewScope(m)>> /\ stack = <<Loading(m)>> /\ phase = "sigs"
      /\ project \in Projects
  BY <1>1 DEF Init
<1>3. ScopesOK(project, scopes) /\ ModsOf(scopes) = {m} /\ Signed(project, scopes)
  BY <1>1, <1>2, FirstScope
<1>4. scopes[1].mod = m /\ DOMAIN scopes = {1}
  BY <1>2, NewScopeType
<1>5. /\ Loading(m) \in LoadFrames /\ Loading(m) \in Frames
      /\ FrameOK(project, scopes, Loading(m))
      /\ Loading(m).mod = m /\ Loading(m).imp = 1
  BY <1>3, LoadingFrame
<1>6. StackOK(project, scopes, stack)
  BY <1>2, <1>5, OneFrame
<1>7. Types
  BY <1>1, <1>2, <1>3, <1>6 DEF Types
<1>8. Building(project, scopes, stack)
  <2>1. DOMAIN stack = {1} /\ stack[1] = Loading(m) /\ stack # <<>>
    BY <1>2
  <2>2. project[m].imports \in Seq([mod : STRING, names : Seq(STRING)])
    BY <1>1, <1>2, FileType
  <2>3. \A k \in DOMAIN project[m].imports : ~(k < 1)
    BY <2>2, LenProperties
  <2>4. ImportsBefore(project, scopes, m, 1)
    BY <2>3 DEF ImportsBefore
  <2> QED
    BY <1>4, <1>5, <2>1, <2>4 DEF Building
<1> QED
  BY <1>2, <1>3, <1>7, <1>8 DEF IInv, Walk

LEMMA LoadImportKeeps == IInv /\ LoadImport => IInv'
<1> SUFFICES ASSUME IInv, LoadImport PROVE IInv'
  OBVIOUS
<1> DEFINE m == Import.mod
<1>1. Types /\ Walk /\ Importing /\ phase \in {"sigs", "load"} /\ project' = project /\ sigs' = sigs
  BY DEF IInv, LoadImport
<1>2. m \in STRING /\ m \notin ModsOf(scopes) /\ Top.mod \in ModsOf(scopes)
  BY <1>1, ImportType, TopLoads, RegisteredAre DEF LoadImport, Importing
<1>3. CASE m \in DOMAIN project
  <2>1. /\ scopes' = Append(scopes, NewScope(m)) /\ stack' = Append(stack, Loading(m))
        /\ phase' = phase
    BY <1>3 DEF LoadImport
  <2> HIDE DEF m
  <2>2. /\ ScopesOK(project, scopes') /\ ModsOf(scopes) \subseteq ModsOf(scopes')
        /\ m \in ModsOf(scopes') /\ \A x \in ModsOf(scopes') : x \in ModsOf(scopes) \/ x = m
    BY <1>1, <1>2, <1>3, <2>1, ScopesAppend DEF Types
  <2>3. StackOK(project, scopes', stack)
    BY <1>1, <2>2, StackGrows DEF Types
  <2>4. StackOK(project, scopes', stack')
    BY <1>2, <2>1, <2>2, <2>3, LoadingFrame, StackPush
  <2>5. Types'
    BY <1>1, <2>1, <2>2, <2>4 DEF Types
  <2>6. CASE phase = "sigs"
    <3>1. Signed(project, scopes) /\ Building(project, scopes, stack)
      BY <1>1, <2>6 DEF Walk
    <3>2. Signed(project, scopes')
      BY <1>1, <1>2, <1>3, <2>1, <3>1, SignedAppend DEF Types
    <3>3. Building(project, scopes', stack')
      BY <1>1, <1>2, <1>3, <2>1, <3>1, BuildingPush DEF Types
    <3> QED
      BY <1>1, <2>1, <2>5, <2>6, <3>2, <3>3 DEF IInv, Walk
  <2>7. CASE phase = "load"
    <3>1. Accepted(project, sigs) /\ ModsOf(scopes) \subseteq ModsOf(sigs)
      BY <1>1, <2>7 DEF Walk
    <3>2. PICK i \in DOMAIN sigs : sigs[i].mod = Top.mod
      BY <1>2, <3>1 DEF ModsOf
    <3>3. m \in ModsOf(sigs)
      BY <1>1, <3>1, <3>2, ImportType DEF Accepted, Complete, AllImports, Import, m
    <3>4. ModsOf(scopes') \subseteq ModsOf(sigs)
      BY <2>2, <3>1, <3>3
    <3> QED
      BY <1>1, <2>1, <2>5, <2>7, <3>1, <3>4 DEF IInv, Walk
  <2> QED
    BY <1>1, <2>6, <2>7
<1>4. CASE m \notin DOMAIN project
  <2>1. /\ scopes' = scopes /\ stack' = stack
        /\ phase' \in {"rejected", "failed"}
    BY <1>4 DEF LoadImport
  <2>2. Types'
    BY <1>1, <2>1 DEF Types, Final
  <2> QED
    BY <2>1, <2>2 DEF IInv, Walk
<1> QED
  BY <1>3, <1>4

(* A step that binds names in a registered module.                         *)
LEMMA Binds ==
  ASSUME Types, NEW m \in ModsOf(scopes), NEW env, GoodEnv(project, scopes, env),
         NEW ex \in SUBSET STRING, ex \subseteq PublicsOf(project, m),
         NEW tt, tt = AddedAt(scopes, At(m), env, ex)
  PROVE  ScopesOK(project, tt) /\ ModsOf(tt) = ModsOf(scopes)
<1>1. scopes \in Seq(Scopes) /\ ScopesOK(project, scopes) /\ env \in Envs
  BY DEF Types, ScopesOK, GoodEnv
<1>2. At(m) \in DOMAIN scopes /\ scopes[At(m)].mod = m
  BY <1>1, ScopeAt
<1>3. ModsOf(tt) = ModsOf(scopes)
  BY <1>1, <1>2, AddedScope
<1>4. ScopesOK(project, tt)
  BY <1>1, <1>2, ScopesAdd
<1> QED
  BY <1>3, <1>4

LEMMA BindIs ==
  ASSUME NEW m, NEW env, NEW ex, Bind(m, env, ex)
  PROVE  scopes' = AddedAt(scopes, At(m), env, ex)
  BY DEF Bind, AddedAt

LEMMA SelectSigsKeeps == IInv /\ SelectSigs => IInv'
<1> SUFFICES ASSUME IInv, SelectSigs PROVE IInv'
  OBVIOUS
<1> DEFINE ok == {x \in Wanted : HasType(Import.mod, x) /\ Visible(Import.mod, x)}
           m == Top.mod
           env == Picked(ok)
           j == At(Import.mod)
<1>1. /\ Types /\ Walk /\ Importing /\ phase = "sigs" /\ Import.mod \in ModsOf(scopes)
      /\ project' = project /\ sigs' = sigs /\ phase' = phase
      /\ Bind(m, env, {}) /\ stack' = NextImport
  BY RegisteredAre DEF IInv, SelectSigs
<1>2. Signed(project, scopes) /\ Building(project, scopes, stack) /\ ScopesOK(project, scopes)
  BY <1>1 DEF Walk, Types
<1>3. m \in ModsOf(scopes)
  BY <1>1, TopLoads DEF Importing
<1>4. ok \in SUBSET STRING /\ \A x \in ok : Known(Import.mod, x) /\ Visible(Import.mod, x)
  BY <1>1, ImportType DEF HasType
<1>5. /\ GoodEnv(project, scopes, env) /\ DOMAIN env = ok
      /\ \A x \in ok : env[x] = scopes[j].env[x]
  BY <1>1, <1>4, PickedType
<1>6. j \in DOMAIN scopes
  BY <1>1, <1>2, ScopeAt
<1>7. \A x \in DOMAIN env : FromDeclared(project, scopes, env[x]) /\ AccessibleIn(project, env[x])
  <2>1. ASSUME NEW x \in ok
        PROVE  FromDeclared(project, scopes, scopes[j].env[x]) /\ AccessibleIn(project, scopes[j].env[x])
    <3>1. x \in DOMAIN scopes[j].env /\ (scopes[j].exports = {} \/ x \in scopes[j].exports)
      BY <1>4 DEF Known, Visible, Scope
    <3>2. project \in Projects
      BY <1>1 DEF Types
    <3> QED
      BY <1>2, <1>6, <3>1, <3>2, PickedNames
  <2> QED
    BY <1>5, <2>1
<1>8. scopes' = AddedAt(scopes, At(m), env, {})
  BY <1>1, BindIs
<1>9. At(m) \in DOMAIN scopes
  BY <1>2, <1>3, ScopeAt
<1> HIDE DEF env, m, ok, j
<1>10. ScopesOK(project, scopes') /\ ModsOf(scopes') = ModsOf(scopes)
  BY <1>1, <1>3, <1>5, <1>8, Binds
<1>11. Signed(project, scopes')
  BY <1>2, <1>5, <1>7, <1>8, <1>9, SignedAdd
<1>12. Building(project, scopes', stack')
  <2>1. env \in Envs
    BY <1>5 DEF GoodEnv
  <2> QED
    BY <1>1, <1>2, <1>8, <1>9, <2>1, BuildingBind
<1>13. StackOK(project, scopes', stack')
  BY <1>1, <1>10, ImportMoves, StackGrows DEF Importing
<1>14. Types'
  BY <1>1, <1>10, <1>13 DEF Types
<1> QED
  BY <1>1, <1>11, <1>12, <1>14 DEF IInv, Walk

(* While the interpreter loads, only its scopes and its calls change.      *)
LEMMA LoadKeeps ==
  ASSUME IInv, phase \in {"load", "run"}, phase' \in {"load", "run", "done", "failed"},
         project' = project, sigs' = sigs,
         ScopesOK(project, scopes'), ModsOf(scopes') = ModsOf(scopes),
         StackOK(project, scopes', stack')
  PROVE  IInv'
<1>1. Types'
  BY DEF IInv, Types, Final
<1> QED
  BY <1>1 DEF IInv, Walk

LEMMA SelectValuesKeeps == IInv /\ SelectValues => IInv'
<1> SUFFICES ASSUME IInv, SelectValues PROVE IInv'
  OBVIOUS
<1>1. /\ Types /\ Importing /\ phase = "load" /\ Import.mod \in ModsOf(scopes)
      /\ project' = project /\ sigs' = sigs
  BY RegisteredAre DEF IInv, SelectValues
<1>2. CASE \A x \in Wanted : Known(Import.mod, x) /\ Visible(Import.mod, x)
  <2> DEFINE m == Top.mod
             env == Picked(Wanted)
  <2>1. Bind(m, env, {}) /\ stack' = NextImport /\ phase' = phase
    BY <1>2 DEF SelectValues
  <2>2. m \in ModsOf(scopes)
    BY <1>1, TopLoads DEF Importing
  <2>3. GoodEnv(project, scopes, env)
    BY <1>1, <1>2, ImportType, PickedType
  <2>4. scopes' = AddedAt(scopes, At(m), env, {})
    BY <2>1, BindIs
  <2> HIDE DEF m, env
  <2>5. ScopesOK(project, scopes') /\ ModsOf(scopes') = ModsOf(scopes)
    BY <1>1, <2>2, <2>3, <2>4, Binds
  <2>6. StackOK(project, scopes', stack')
    BY <1>1, <2>1, <2>5, ImportMoves, StackGrows DEF Importing
  <2> QED
    BY <1>1, <2>1, <2>5, <2>6, LoadKeeps
<1>3. CASE ~(\A x \in Wanted : Known(Import.mod, x) /\ Visible(Import.mod, x))
  <2>1. scopes' = scopes /\ stack' = stack /\ phase' = "failed"
    BY <1>3 DEF SelectValues
  <2> QED
    BY <1>1, <2>1, LoadKeeps DEF Types
<1> QED
  BY <1>2, <1>3

LEMMA DeclareSigsKeeps == IInv /\ DeclareSigs => IInv'
<1> SUFFICES ASSUME IInv, DeclareSigs PROVE IInv'
  OBVIOUS
<1> DEFINE m == Top.mod
           ds == {d \in DeclsIn(m) : Decl(d).kind \in Values}
           env == EnvOf(ds)
           ex == PublicsOf(project, m)
<1>1. Types /\ Walk /\ Declaring /\ phase = "sigs" /\ project' = project /\ sigs' = sigs
  BY DEF IInv, DeclareSigs
<1>2. Signed(project, scopes) /\ Building(project, scopes, stack) /\ ScopesOK(project, scopes)
  BY <1>1 DEF Walk, Types
<1>3. m \in ModsOf(scopes) /\ m \in STRING /\ m \in DOMAIN project
  BY <1>1, TopLoads DEF Declaring
<1>4. Bind(m, env, ex)
  BY <1>1, <1>3, PublicsAre DEF DeclareSigs, Types
<1>5. GoodEnv(project, scopes, env) /\ \A x \in DOMAIN env : env[x][1] = m
  <2>1. ds \in SUBSET DeclsIn(m)
    OBVIOUS
  <2> HIDE DEF m, ds
  <2> QED
    BY <1>1, <1>3, <2>1, DeclaredEnv
<1>6. scopes' = AddedAt(scopes, At(m), env, ex)
  BY <1>4, BindIs
<1>7. At(m) \in DOMAIN scopes /\ scopes[At(m)].mod = m
  BY <1>2, <1>3, ScopeAt
<1>8. ex \in SUBSET STRING
  BY <1>1, <1>3, DeclType DEF Types, PublicsOf, Declarations
<1> HIDE DEF env
<1>9. ScopesOK(project, scopes') /\ ModsOf(scopes') = ModsOf(scopes)
  BY <1>1, <1>3, <1>5, <1>6, <1>8, Binds
<1>10. Signed(project, scopes')
  BY <1>2, <1>5, <1>6, <1>7, <1>8, SignedAdd
<1>11. env \in Envs
  BY <1>5 DEF GoodEnv
<1>12. \A i \in DOMAIN scopes' :
         \/ Complete(project, scopes', (scopes')[i])
         \/ \E j \in DOMAIN stack : j # Len(stack) /\ stack[j].mod = (scopes')[i].mod
  BY <1>1, <1>2, <1>6, <1>11, BuildingDeclares
<1>13. CASE Len(stack) > 1
  <2>1. stack' = Pop /\ phase' = phase
    BY <1>13 DEF DeclareSigs
  <2>2. Building(project, scopes', stack')
    BY <1>1, <1>2, <1>9, <1>12, <1>13, <2>1, BuildingPop
  <2>3. StackOK(project, scopes', stack')
    <3>1. StackOK(project, scopes, stack')
      BY <1>1, <1>2, <2>1, StackPop DEF Types, Building, Pop
    <3> QED
      BY <1>9, <3>1, StackGrows
  <2>4. Types'
    BY <1>1, <1>9, <2>1, <2>3 DEF Types
  <2> QED
    BY <1>1, <1>10, <2>1, <2>2, <2>4 DEF IInv, Walk
<1>14. CASE ~(Len(stack) > 1)
  <2>1. phase' = "bodies" /\ stack' = <<Bodies(1, 1)>>
    BY <1>14 DEF DeclareSigs
  <2>2. DOMAIN stack = 1..Len(stack) /\ Len(stack) \in Nat
    BY <1>1, <1>2, StackTop DEF Types, Building
  <2>3. \A j \in DOMAIN stack : j = Len(stack)
    BY <1>14, <2>2
  <2>4. \A i \in DOMAIN scopes' : Complete(project, scopes', (scopes')[i])
    BY <1>12, <2>3
  <2>5. StackOK(project, scopes', stack') /\ Checking(project, scopes', stack', errors')
    BY <1>1, <1>9, <2>1, <2>4, CheckingStarts DEF Types
  <2>6. Types'
    BY <1>1, <1>9, <2>1, <2>5 DEF Types
  <2> QED
    BY <1>1, <1>10, <2>1, <2>5, <2>6 DEF IInv, Walk
<1> QED
  BY <1>13, <1>14

(* What the checker finds, it finds in its scopes.                         *)
LEMMA FoundHere ==
  ASSUME NEW m, NEW r
  PROVE  Found(m, r) <=> FoundIn(scopes, m, r)
<1>1. \A n : At(n) = PosOf(scopes, n)
  BY DEF At, PosOf
<1> QED
  BY <1>1, RegisteredAre DEF Found, FoundIn, Known, Visible, Scope, Sees

LEMMA CheckBodyKeeps == IInv /\ CheckBody => IInv'
<1> SUFFICES ASSUME IInv, CheckBody PROVE IInv'
  OBVIOUS
<1> DEFINE f == stack[1]
           m == scopes[f.pos].mod
           d == <<m, f.decl>>
<1>1. /\ Types /\ Walk /\ phase = "bodies" /\ phase' = phase /\ f.pos <= Len(scopes)
      /\ project' = project /\ scopes' = scopes /\ sigs' = sigs
  BY DEF IInv, Walk, Checking, CheckBody, Top
<1>2. /\ Signed(project, scopes) /\ ScopesOK(project, scopes) /\ project \in Projects
      /\ \A i \in DOMAIN scopes : Complete(project, scopes, scopes[i])
      /\ f \in BodyFrames /\ Top = f /\ Len(stack) = 1
      /\ errors \/ BodiesBefore(project, scopes, f)
  BY <1>1 DEF Walk, Types, Checking, Top
<1>3. f.pos \in Nat \ {0} /\ f.decl \in Nat \ {0}
  BY <1>2 DEF BodyFrames
<1>4. f.pos \in DOMAIN scopes /\ m \in ModsOf(scopes)
  <2>1. scopes \in Seq(Scopes)
    BY <1>2 DEF ScopesOK
  <2>2. f.pos \in DOMAIN scopes
    BY <1>1, <1>3, <2>1, LenProperties
  <2> QED
    BY <2>2 DEF ModsOf
<1>5. ASSUME NEW i \in Nat \ {0}, NEW j \in Nat \ {0}, stack' = <<Bodies(i, j)>>,
             errors' \/ BodiesBefore(project, scopes, Bodies(i, j))
      PROVE  IInv'
  <2>1. /\ Bodies(i, j) \in BodyFrames /\ StackOK(project, scopes, stack')
        /\ Len(stack') = 1 /\ (stack')[1] = Bodies(i, j)
    BY <1>5, BodiesFrame
  <2>2. Checking(project, scopes, stack', errors')
    BY <1>2, <1>5, <2>1 DEF Checking
  <2>3. Types'
    BY <1>1, <2>1 DEF Types
  <2> QED
    BY <1>1, <1>2, <2>2, <2>3 DEF IInv, Walk
<1>6. CASE f.decl <= Len(project[m].decls)
  <2> DEFINE g == Bodies(f.pos, f.decl + 1)
  <2>1. /\ errors' = (errors \/ \E i \in DOMAIN Decl(d).reads : ~Checks(m, Decl(d).reads[i]))
        /\ stack' = <<g>>
    BY <1>2, <1>6 DEF CheckBody
  <2>2. f.decl + 1 \in Nat \ {0}
    BY <1>3
  <2>3. g.pos = f.pos /\ g.decl = f.decl + 1
    BY DEF Bodies
  <2>4. errors' \/ BodiesBefore(project, scopes, g)
    <3>1. SUFFICES ASSUME ~errors' PROVE BodiesBefore(project, scopes, g)
      OBVIOUS
    <3>2. /\ BodiesBefore(project, scopes, f)
          /\ \A i \in DOMAIN Decl(d).reads : Checks(m, Decl(d).reads[i])
      BY <1>2, <2>1, <3>1
    <3> HIDE DEF f, g
    <3>3. ASSUME NEW i \in DOMAIN scopes, NEW e \in DeclsOf(project, scopes[i].mod),
                 i < g.pos \/ (i = g.pos /\ e[2] < g.decl)
          PROVE  ReadsFound(project, scopes, e)
      <4>1. i \in Nat /\ e[2] \in Nat /\ e = <<scopes[i].mod, e[2]>>
        BY <1>2, DeclIndex
      <4>2. CASE i < f.pos \/ (i = f.pos /\ e[2] < f.decl)
        BY <3>2, <4>2 DEF BodiesBefore
      <4>3. CASE i = f.pos /\ e[2] = f.decl
        <5>1. e = d /\ e \in DeclsOf(project, m)
          BY <4>1, <4>3
        <5>2. e[1] = m /\ DeclOf(project, e) = Decl(d)
          BY <4>1, <4>3, <5>1, DeclsAre
        <5> QED
          BY <3>2, <5>2, FoundHere DEF Checks, ReadsFound
      <4> QED
        BY <1>3, <2>3, <3>3, <4>1, <4>2, <4>3
    <3> QED
      BY <3>3 DEF BodiesBefore
  <2> HIDE DEF f
  <2> QED
    BY <1>3, <1>5, <2>1, <2>2, <2>4
<1>7. CASE ~(f.decl <= Len(project[m].decls))
  <2> DEFINE g == Bodies(f.pos + 1, 1)
  <2>1. errors' = errors /\ stack' = <<g>>
    BY <1>2, <1>7 DEF CheckBody
  <2>2. f.pos + 1 \in Nat \ {0}
    BY <1>3
  <2>3. g.pos = f.pos + 1 /\ g.decl = 1
    BY DEF Bodies
  <2>4. BodiesBefore(project, scopes, f) => BodiesBefore(project, scopes, g)
    <3>1. SUFFICES ASSUME BodiesBefore(project, scopes, f) PROVE BodiesBefore(project, scopes, g)
      OBVIOUS
    <3> HIDE DEF f, g
    <3>2. ASSUME NEW i \in DOMAIN scopes, NEW e \in DeclsOf(project, scopes[i].mod),
                 i < g.pos \/ (i = g.pos /\ e[2] < g.decl)
          PROVE  ReadsFound(project, scopes, e)
      <4>1. /\ i \in Nat /\ e[2] \in Nat /\ ~(e[2] < 1)
            /\ e[2] <= Len(project[scopes[i].mod].decls) /\ Len(project[scopes[i].mod].decls) \in Nat
        BY <1>2, DeclIndex
      <4>2. i < f.pos \/ i = f.pos
        BY <1>3, <2>3, <3>2, <4>1
      <4>3. i = f.pos => e[2] < f.decl
        BY <1>3, <1>7, <4>1
      <4> QED
        BY <3>1, <4>2, <4>3 DEF BodiesBefore
    <3> QED
      BY <3>2 DEF BodiesBefore
  <2> HIDE DEF f
  <2> QED
    BY <1>2, <1>5, <2>1, <2>2, <2>4
<1> QED
  BY <1>6, <1>7

LEMMA VerdictKeeps == IInv /\ Verdict => IInv'
<1> SUFFICES ASSUME IInv, Verdict PROVE IInv'
  OBVIOUS
<1>1. Types /\ Walk /\ phase = "bodies" /\ project' = project
  BY DEF IInv, Verdict
<1>2. CASE errors
  <2>1. phase' = "rejected" /\ stack' = stack /\ scopes' = scopes
    BY <1>2 DEF Verdict
  <2>2. Types'
    BY <1>1, <2>1 DEF Types, Final
  <2> QED
    BY <2>1, <2>2 DEF IInv, Walk
<1>3. CASE ~errors
  <2>1. PICK m \in STRING : m = "main" /\ m \in DOMAIN project
    BY <1>1, ProjectsAssumption DEF Types
  <2>2. /\ phase' = "load" /\ stack' = <<Loading(m)>>
        /\ scopes' = <<NewScope(m)>> /\ sigs' = scopes
    BY <1>3, <2>1 DEF Verdict
  <2>3. ScopesOK(project, scopes') /\ ModsOf(scopes') = {m}
    BY <2>1, <2>2, FirstScope
  <2>4. StackOK(project, scopes', stack')
    BY <2>1, <2>2, <2>3, LoadingFrame, OneFrame
  <2>5. Types'
    BY <1>1, <2>1, <2>2, <2>3, <2>4 DEF Types
  <2>6. Accepted(project, scopes)
    <3>1. /\ Signed(project, scopes) /\ ScopesOK(project, scopes) /\ project \in Projects
          /\ \A i \in DOMAIN scopes : Complete(project, scopes, scopes[i])
          /\ stack[1] \in BodyFrames /\ Top = stack[1]
          /\ BodiesBefore(project, scopes, stack[1])
      BY <1>1, <1>3 DEF Walk, Types, Checking, Top
    <3>2. Top.pos > Len(scopes) /\ Top.pos \in Nat
      BY <3>1 DEF Verdict, BodyFrames
    <3>3. scopes \in Seq(Scopes)
      BY <3>1 DEF ScopesOK
    <3>4. \A i \in DOMAIN scopes : i < Top.pos
      BY <3>2, <3>3, LenProperties
    <3>5. \A i \in DOMAIN scopes : \A d \in DeclsOf(project, scopes[i].mod) :
            ReadsFound(project, scopes, d)
      BY <3>1, <3>4 DEF BodiesBefore
    <3> QED
      BY <3>1, <3>5 DEF Accepted
  <2>7. ModsOf(scopes') \subseteq ModsOf(scopes)
    BY <1>1, <2>1, <2>3 DEF Types
  <2> QED
    BY <1>1, <2>2, <2>5, <2>6, <2>7 DEF IInv, Walk
<1> QED
  BY <1>2, <1>3

(* The declaration that the interpreter has come to.                       *)
LEMMA DeclaredType ==
  ASSUME Types, Declaring, Top.decl <= Len(project[Top.mod].decls)
  PROVE  /\ Top.mod \in ModsOf(scopes) /\ Declared[1] = Top.mod
         /\ Declared \in DeclsOf(project, Top.mod) /\ Declared \in DeclsIn(Top.mod)
         /\ Declared \in Refs
<1>1. /\ Top.mod \in ModsOf(scopes) /\ Top.mod \in STRING /\ Top.mod \in DOMAIN project
      /\ Top.decl \in Nat \ {0}
  BY TopLoads DEF Declaring
<1>2. project[Top.mod].decls \in Seq(Declarations)
  BY <1>1, FileType DEF Types
<1>3. Top.decl \in DOMAIN project[Top.mod].decls
  BY <1>1, <1>2, LenProperties
<1>4. Declared \in DeclsOf(project, Top.mod) /\ Declared[1] = Top.mod
  BY <1>3 DEF Declared, DeclsOf
<1> QED
  BY <1>1, <1>4, DeclType, DeclsAre DEF Types

(* A declaration enters its module's scope, with its export.               *)
LEMMA DeclarationBinds ==
  ASSUME Types, NEW m \in ModsOf(scopes), NEW d \in DeclsIn(m),
         Bind(m, EnvOf({d}), IF Decl(d).exported THEN {Decl(d).name} ELSE {})
  PROVE  ScopesOK(project, scopes') /\ ModsOf(scopes') = ModsOf(scopes)
<1> DEFINE ex == IF Decl(d).exported THEN {Decl(d).name} ELSE {}
           env == EnvOf({d})
<1>1. m \in STRING /\ m \in DOMAIN project
  BY ModName DEF Types
<1>2. d \in DeclsOf(project, m) /\ Decl(d) = DeclOf(project, d) /\ Decl(d).name \in STRING
  BY <1>1, DeclsAre, DeclType DEF Types, Declarations
<1>3. ex \in SUBSET STRING /\ ex \subseteq PublicsOf(project, m)
  BY <1>2 DEF PublicsOf
<1>4. {d} \in SUBSET DeclsIn(m)
  OBVIOUS
<1>5. GoodEnv(project, scopes, env)
  BY <1>4, DeclaredEnv
<1>6. scopes' = AddedAt(scopes, At(m), env, ex)
  BY BindIs
<1> HIDE DEF ex, env
<1> QED
  BY <1>3, <1>5, <1>6, Binds

LEMMA DeclareFuncKeeps == IInv /\ DeclareFunc => IInv'
<1> SUFFICES ASSUME IInv, DeclareFunc PROVE IInv'
  OBVIOUS
<1>1. /\ Types /\ Declaring /\ Top.decl <= Len(project[Top.mod].decls) /\ phase = "load"
      /\ phase' = phase /\ project' = project /\ sigs' = sigs /\ stack' = NextDecl
  BY DEF IInv, DeclareFunc
<1>2. Top.mod \in ModsOf(scopes) /\ Declared \in DeclsIn(Top.mod)
  BY <1>1, DeclaredType
<1>3. ScopesOK(project, scopes') /\ ModsOf(scopes') = ModsOf(scopes)
  <2>1. CASE Decl(Declared).kind = "func"
    <3>1. Bind(Top.mod, EnvOf({Declared}), IF Decl(Declared).exported THEN {Decl(Declared).name} ELSE {})
      BY <2>1 DEF DeclareFunc
    <3> QED
      BY <1>1, <1>2, <3>1, DeclarationBinds
  <2>2. CASE Decl(Declared).kind # "func"
    BY <1>1, <2>2 DEF DeclareFunc, Types
  <2> QED
    BY <2>1, <2>2
<1>4. StackOK(project, scopes', stack')
  BY <1>1, <1>3, DeclMoves, StackGrows DEF Declaring
<1> QED
  BY <1>1, <1>3, <1>4, LoadKeeps

LEMMA EvalConstKeeps == IInv /\ EvalConst => IInv'
<1> SUFFICES ASSUME IInv, EvalConst PROVE IInv'
  OBVIOUS
<1>1. /\ Types /\ Declaring /\ Top.decl <= Len(project[Top.mod].decls) /\ phase = "load"
      /\ phase' = phase /\ project' = project /\ sigs' = sigs /\ scopes' = scopes
      /\ stack' = Append(NextDecl, Evaluating(Declared))
  BY DEF IInv, EvalConst
<1>2. StackOK(project, scopes, NextDecl)
  BY <1>1, DeclMoves DEF Declaring
<1>3. Evaluating(Declared) \in Frames /\ FrameOK(project, scopes, Evaluating(Declared))
  BY <1>1, DeclaredType, EvalFrame
<1>4. StackOK(project, scopes, stack')
  BY <1>1, <1>2, <1>3, StackPush
<1> QED
  BY <1>1, <1>4, LoadKeeps DEF Types

(* What a name of a registered module stands for can be evaluated.         *)
LEMMA KnownDecl ==
  ASSUME Types, NEW m \in ModsOf(scopes), NEW x, Known(m, x)
  PROVE  /\ Evaluating(Scope(m).env[x]) \in Frames
         /\ FrameOK(project, scopes, Evaluating(Scope(m).env[x]))
<1> DEFINE d == scopes[At(m)].env[x]
<1>1. At(m) \in DOMAIN scopes /\ ScopesOK(project, scopes)
  BY ScopeAt DEF Types
<1>2. StandsFor(project, scopes, x, d)
  BY <1>1 DEF ScopesOK, GoodEnv, Known, Scope
<1>3. d[1] \in ModsOf(scopes) /\ d \in DeclsOf(project, d[1])
  BY <1>2 DEF StandsFor
<1>4. d[1] \in STRING /\ d[1] \in DOMAIN project
  BY <1>1, <1>3, ModName
<1>5. d \in Refs
  BY <1>3, <1>4, DeclType DEF Types
<1> HIDE DEF d
<1>6. Evaluating(d) \in Frames /\ FrameOK(project, scopes, Evaluating(d))
  BY <1>3, <1>5, EvalFrame
<1> QED
  BY <1>6 DEF d, Scope

LEMMA PopKeeps ==
  ASSUME Types, stack # <<>>
  PROVE  StackOK(project, scopes, Pop)
  BY StackPop DEF Types, Pop

LEMMA PopulatedKeeps == IInv /\ Populated => IInv'
<1> SUFFICES ASSUME IInv, Populated PROVE IInv'
  OBVIOUS
<1>1. /\ Types /\ Declaring /\ phase = "load" /\ stack # <<>>
      /\ project' = project /\ sigs' = sigs /\ scopes' = scopes
      /\ ScopesOK(project, scopes) /\ StackOK(project, scopes, stack)
  BY DEF IInv, Types, Populated, Declaring
<1>2. CASE Len(stack) > 1
  <2>1. stack' = Pop /\ phase' = phase
    BY <1>2 DEF Populated
  <2> QED
    BY <1>1, <2>1, PopKeeps, LoadKeeps
<1>3. CASE ~(Len(stack) > 1) /\ HasMain
  <2>1. PICK m \in ModsOf(scopes) : m = "main"
    BY <1>1 DEF Types
  <2>2. phase' = "run" /\ stack' = <<Evaluating(Scope(m).env[m])>>
    BY <1>3, <2>1 DEF Populated
  <2>3. Known(m, m)
    BY <1>3, <2>1 DEF HasMain
  <2>4. StackOK(project, scopes, stack')
    BY <1>1, <2>2, <2>3, KnownDecl, OneFrame
  <2> QED
    BY <1>1, <2>2, <2>4, LoadKeeps
<1>4. CASE ~(Len(stack) > 1) /\ ~HasMain
  <2>1. phase' = "failed" /\ stack' = stack
    BY <1>4 DEF Populated
  <2> QED
    BY <1>1, <2>1, LoadKeeps
<1> QED
  BY <1>2, <1>3, <1>4

LEMMA ReadMoves ==
  ASSUME Types, stack # <<>>, Top.do = "eval", NEW tt, tt = NextRead
  PROVE  StackOK(project, scopes, tt)
<1> DEFINE f == [Top EXCEPT !.read = @ + 1]
<1>1. tt = Replaced(stack, f)
  BY DEF NextRead, Top, Replaced
<1>2. /\ Top \in EvalFrames /\ Top.of[1] \in ModsOf(scopes)
      /\ Top.of \in DeclsOf(project, Top.of[1])
  BY TopEvals
<1>3. f \in EvalFrames /\ f.of = Top.of
  BY <1>2 DEF EvalFrames
<1>4. \A g \in EvalFrames : g \notin LoadFrames
  BY DEF LoadFrames, EvalFrames
<1> HIDE DEF f
<1>5. f \in Frames /\ FrameOK(project, scopes, f)
  BY <1>2, <1>3, <1>4 DEF Frames, FrameOK
<1> QED
  BY <1>1, <1>5, StackReplace DEF Types

LEMMA EvalKeeps == IInv /\ Eval => IInv'
<1> SUFFICES ASSUME IInv, Eval PROVE IInv'
  OBVIOUS
<1> DEFINE m == Top.of[1]
           r == Decl(Top.of).reads[Top.read]
           n == Target(m, r)
           d == Scope(n).env[r[2]]
<1>1. /\ Types /\ phase \in {"load", "run"} /\ stack # <<>> /\ Top.do = "eval"
      /\ project' = project /\ sigs' = sigs /\ scopes' = scopes
      /\ ScopesOK(project, scopes) /\ StackOK(project, scopes, stack)
  BY DEF IInv, Types, Eval, Running
<1>2. CASE ~Found(m, r)
  <2>1. phase' = "failed" /\ stack' = stack
    BY <1>2 DEF Eval
  <2> QED
    BY <1>1, <2>1, LoadKeeps
<1>3. CASE Found(m, r)
  <2>1. phase' = phase /\ stack' = IF Decl(d).kind = "func" THEN Append(NextRead, Evaluating(d)) ELSE NextRead
    BY <1>3 DEF Eval
  <2>2. n \in ModsOf(scopes) /\ Known(n, r[2])
    BY <1>3, RegisteredAre DEF Found
  <2> HIDE DEF n, r
  <2>3. Evaluating(d) \in Frames /\ FrameOK(project, scopes, Evaluating(d))
    BY <1>1, <2>2, KnownDecl
  <2> HIDE DEF d
  <2>4. StackOK(project, scopes, NextRead)
    BY <1>1, ReadMoves
  <2>5. StackOK(project, scopes, stack')
    <3>1. CASE Decl(d).kind = "func"
      <4>1. stack' = Append(NextRead, Evaluating(d))
        BY <2>1, <3>1
      <4> QED
        BY <2>3, <2>4, <4>1, StackPush
    <3>2. CASE Decl(d).kind # "func"
      BY <2>1, <2>4, <3>2
    <3> QED
      BY <3>1, <3>2
  <2> QED
    BY <1>1, <2>1, <2>5, LoadKeeps
<1> QED
  BY <1>2, <1>3

LEMMA EvaluatedKeeps == IInv /\ Evaluated => IInv'
<1> SUFFICES ASSUME IInv, Evaluated PROVE IInv'
  OBVIOUS
<1> DEFINE d == Top.of
           m == d[1]
<1>1. /\ Types /\ phase \in {"load", "run"} /\ stack # <<>> /\ Top.do = "eval"
      /\ project' = project /\ sigs' = sigs /\ stack' = Pop /\ phase' \in {phase, "done"}
  BY DEF IInv, Evaluated, Running
<1>2. m \in ModsOf(scopes) /\ d \in DeclsIn(m)
  BY <1>1, TopEvals, DeclsAre
<1>3. ScopesOK(project, scopes') /\ ModsOf(scopes') = ModsOf(scopes)
  <2>1. CASE Decl(d).kind = "const"
    <3>1. Bind(m, EnvOf({d}), IF Decl(d).exported THEN {Decl(d).name} ELSE {})
      BY <2>1 DEF Evaluated
    <3> HIDE DEF d
    <3> QED
      BY <1>1, <1>2, <3>1, DeclarationBinds
  <2>2. CASE Decl(d).kind # "const"
    BY <1>1, <2>2 DEF Evaluated, Types
  <2> QED
    BY <2>1, <2>2
<1>4. StackOK(project, scopes', stack')
  BY <1>1, <1>3, PopKeeps, StackGrows
<1> QED
  BY <1>1, <1>3, <1>4, LoadKeeps

(* A step of the specification keeps the invariant.                        *)
LEMMA NextKeeps == IInv /\ [Next]_vars => IInv'
<1> SUFFICES ASSUME IInv, [Next]_vars PROVE IInv'
  OBVIOUS
<1>1. CASE UNCHANGED vars
  BY <1>1 DEF vars, IInv, Types, Walk
<1>2. CASE Stopped
  BY <1>2 DEF Stopped, vars, IInv, Types, Walk
<1> QED
  BY <1>1, <1>2, LoadImportKeeps, SelectSigsKeeps, SelectValuesKeeps, DeclareSigsKeeps,
     CheckBodyKeeps, VerdictKeeps, DeclareFuncKeeps, EvalConstKeeps, PopulatedKeeps,
     EvalKeeps, EvaluatedKeeps DEF Next

LEMMA AlwaysIInv == Spec => []IInv
<1>1. Init => IInv
  BY InitKeeps
<1>2. IInv /\ [Next]_vars => IInv'
  BY NextKeeps
<1> QED
  BY <1>1, <1>2, PTL DEF Spec

--------------------------------------------------------------------------------
(* Modules, scopes and calls in progress are well formed: checker and        *)
(* interpreter (load_sig, load_module, eval) register each module once, a    *)
(* scope only holds declarations of registered modules under their names,    *)
(* and a module exports none but its own public names.                       *)
THEOREM TypeCorrect == Spec => []TypeOK
<1>1. IInv => TypeOK
  <2> SUFFICES ASSUME IInv PROVE TypeOK
    OBVIOUS
  <2>1. /\ Types /\ ScopesOK(project, scopes) /\ StackOK(project, scopes, stack)
        /\ project \in Projects
    BY DEF IInv, Types
  <2>2. Registered = ModsOf(scopes) /\ \A m \in ModsOf(scopes) : m \in STRING /\ m \in DOMAIN project
    BY <2>1, RegisteredAre, ModName
  <2>3. Registered \subseteq DOMAIN project /\ Cardinality(Registered) = Len(scopes)
    BY <2>1, <2>2 DEF ScopesOK
  <2>4. ASSUME NEW i \in DOMAIN scopes
        PROVE  /\ \A x \in DOMAIN scopes[i].env :
                    LET d == scopes[i].env[x]
                    IN  d[1] \in Registered /\ d \in DeclsIn(d[1]) /\ Decl(d).name = x
               /\ scopes[i].exports \subseteq Publics(scopes[i].mod, Values \cup {"type"})
    <3>1. \A x \in DOMAIN scopes[i].env : StandsFor(project, scopes, x, scopes[i].env[x])
      BY <2>1 DEF ScopesOK, GoodEnv
    <3>2. scopes[i].exports \subseteq PublicsOf(project, scopes[i].mod) /\ scopes[i].mod \in ModsOf(scopes)
      BY <2>1 DEF ScopesOK, ModsOf
    <3> QED
      BY <2>1, <2>2, <3>1, <3>2, DeclsAre, PublicsAre DEF StandsFor
  <2>5. ASSUME NEW i \in DOMAIN stack
        PROVE  \/ stack[i].do = "load" /\ stack[i].mod \in Registered
               \/ stack[i].do = "eval" /\ stack[i].of \in DeclsIn(stack[i].of[1])
               \/ stack[i].do = "bodies"
    <3>1. stack[i] \in Frames /\ FrameOK(project, scopes, stack[i])
      BY <2>1, ElementOfSeq, LenProperties DEF StackOK
    <3> QED
      BY <2>2, <3>1, DeclsAre DEF Frames, FrameOK, LoadFrames, EvalFrames, BodyFrames
  <2> QED
    BY <2>1, <2>3, <2>4, <2>5 DEF TypeOK, Types
<1> QED
  BY <1>1, AlwaysIInv, PTL

(* What a module finds of another one that is complete is not hidden.      *)
LEMMA FoundAccessible ==
  ASSUME NEW p \in Projects, NEW ss, ScopesOK(p, ss), \A i \in DOMAIN ss : Complete(p, ss, ss[i]),
         NEW m, NEW r, FoundIn(ss, m, r), r[1] # ""
  PROVE  /\ r[1] \in DOMAIN p /\ r[1] \in STRING
         /\ \A e \in DeclsOf(p, r[1]) : DeclOf(p, e).name = r[2] => AccessibleIn(p, e)
<1>1. PICK n \in ModsOf(ss) : n = r[1] /\ Sees(ss, n, r[2])
  BY DEF FoundIn, Target
<1> DEFINE k == PosOf(ss, n)
<1>2. n \in STRING /\ n \in DOMAIN p
  BY ModName
<1>3. k \in DOMAIN ss /\ ss[k].mod = n
  BY DEF PosOf, ModsOf
<1>4. ss[k].exports = PublicsOf(p, n)
  BY <1>3 DEF Complete, Declares
<1>5. PublicsOf(p, n) = {} \/ r[2] \in PublicsOf(p, n)
  BY <1>1, <1>4 DEF Sees
<1>6. ASSUME NEW e \in DeclsOf(p, n), DeclOf(p, e).name = r[2]
      PROVE  AccessibleIn(p, e)
  <2>1. e[1] = n
    BY <1>2, DeclType
  <2>2. CASE PublicsOf(p, n) = {}
    BY <2>1, <2>2 DEF AccessibleIn
  <2>3. CASE r[2] \in PublicsOf(p, n)
    BY <1>2, <1>6, <2>3, PublicName DEF AccessibleIn
  <2> QED
    BY <1>5, <2>2, <2>3
<1> QED
  BY <1>1, <1>2, <1>6

(* Private by default: of a module that exports something, no other module *)
(* of a program that the checker (check_imports, lookup_value) accepted    *)
(* picks or names a declaration that it does not export, however modules   *)
(* import each other.                                                      *)
THEOREM PrivacyKept == Spec => []PrivateHidden
<1>1. IInv => PrivateHidden
  <2> SUFFICES ASSUME IInv, phase \in {"load", "run", "done"}
               PROVE  /\ \A i \in DOMAIN sigs : \A x \in DOMAIN sigs[i].env :
                           sigs[i].env[x][1] = sigs[i].mod \/ Accessible(sigs[i].env[x])
                      /\ \A m \in Registered : \A d \in DeclsIn(m) : \A i \in DOMAIN Decl(d).reads :
                           LET r == Decl(d).reads[i]
                           IN  r[1] \notin {"", m} =>
                                 \A e \in DeclsIn(r[1]) : Decl(e).name = r[2] => Accessible(e)
    BY DEF PrivateHidden
  <2>1. /\ Accepted(project, sigs) /\ ModsOf(scopes) \subseteq ModsOf(sigs)
        /\ project \in Projects
    BY DEF IInv, Walk, Types
  <2>2. ASSUME NEW m \in DOMAIN project, m \in STRING, NEW d \in DeclsOf(project, m), AccessibleIn(project, d)
        PROVE  Accessible(d)
    BY <2>1, <2>2, DeclType, DeclsAre, PublicsAre DEF AccessibleIn, Accessible
  <2>3. ASSUME NEW i \in DOMAIN sigs, NEW x \in DOMAIN sigs[i].env
        PROVE  sigs[i].env[x][1] = sigs[i].mod \/ Accessible(sigs[i].env[x])
    <3> DEFINE d == sigs[i].env[x]
    <3>1. d[1] = sigs[i].mod \/ AccessibleIn(project, d)
      BY <2>1 DEF Accepted, Signed
    <3>2. StandsFor(project, sigs, x, d) /\ ScopesOK(project, sigs)
      BY <2>1 DEF Accepted, ScopesOK, GoodEnv
    <3> HIDE DEF d
    <3>3. d[1] \in DOMAIN project /\ d[1] \in STRING /\ d \in DeclsOf(project, d[1])
      BY <3>2, ModName DEF StandsFor
    <3>4. d[1] = sigs[i].mod \/ Accessible(d)
      BY <2>2, <3>1, <3>3
    <3> QED
      BY <3>4 DEF d
  <2>4. ASSUME NEW m \in Registered, NEW d \in DeclsIn(m), NEW i \in DOMAIN Decl(d).reads,
               NEW r, r = Decl(d).reads[i], r[1] \notin {"", m},
               NEW e \in DeclsIn(r[1]), Decl(e).name = r[2]
        PROVE  Accessible(e)
    <3>1. PICK j \in DOMAIN sigs : sigs[j].mod = m
      BY <2>1, RegisteredAre DEF ModsOf
    <3>2. ReadsFound(project, sigs, d) /\ d \in DeclsOf(project, m)
      BY <2>1, <3>1, DeclsAre DEF Accepted
    <3>3. /\ r[1] \in DOMAIN project /\ r[1] \in STRING
          /\ e \in DeclsOf(project, r[1]) /\ AccessibleIn(project, e)
      <4>1. d[1] = m
        BY <3>2 DEF DeclsOf
      <4>2. FoundIn(sigs, m, r)
        BY <2>4, <3>2, <4>1, DeclsAre DEF ReadsFound
      <4> QED
        BY <2>1, <2>4, <4>2, DeclsAre, FoundAccessible DEF Accepted
    <3> QED
      BY <2>2, <3>3
  <2> QED
    BY <2>3, <2>4
<1> QED
  BY <1>1, AlwaysIInv, PTL

--------------------------------------------------------------------------------
(* One walk for both. A state of it is what load_sig has, scopes a and calls b;  *)
(* the next one is a function of it.                                       *)
TopOf(b) == b[Len(b)]
PastImports(p, f) == f.imp > Len(p[f.mod].imports)
AtImport(p, b) == ~PastImports(p, TopOf(b))
ImportOf(p, b) == p[TopOf(b).mod].imports[TopOf(b).imp]
WantedOf(p, b) == {ImportOf(p, b).names[i] : i \in DOMAIN ImportOf(p, b).names}
PickedOf(a, n, xs) == [x \in xs |-> a[PosOf(a, n)].env[x]]
ValuesOf(p, m) == {d \in DeclsOf(p, m) : DeclOf(p, d).kind \in Values}
EnvFor(p, ds) == [x \in {DeclOf(p, d).name : d \in ds} |-> CHOOSE d \in ds : DeclOf(p, d).name = x]

CanStep(p, a, b) ==
  /\ b # <<>>
  /\ AtImport(p, b) =>
       IF ImportOf(p, b).mod \in ModsOf(a)
       THEN \A x \in WantedOf(p, b) :
              /\ x \in DOMAIN a[PosOf(a, ImportOf(p, b).mod)].env
              /\ Sees(a, ImportOf(p, b).mod, x)
       ELSE ImportOf(p, b).mod \in DOMAIN p
Enter(p, a, b) == <<Append(a, NewScope(ImportOf(p, b).mod)), Append(b, Loading(ImportOf(p, b).mod))>>
Pick(p, a, b) ==
  <<AddedAt(a, PosOf(a, TopOf(b).mod), PickedOf(a, ImportOf(p, b).mod, WantedOf(p, b)), {}),
    [b EXCEPT ![Len(b)].imp = @ + 1]>>
Declare(p, a, b) ==
  <<AddedAt(a, PosOf(a, TopOf(b).mod), EnvFor(p, ValuesOf(p, TopOf(b).mod)), PublicsOf(p, TopOf(b).mod)),
    SubSeq(b, 1, Len(b) - 1)>>
StepOf(p, a, b) ==
  IF ~AtImport(p, b) THEN Declare(p, a, b)
  ELSE IF ImportOf(p, b).mod \in ModsOf(a) THEN Pick(p, a, b) ELSE Enter(p, a, b)

(* Whatever holds at s and is kept by steps holds at t.                     *)
Closed(p, S) == \A s \in S : CanStep(p, s[1], s[2]) => StepOf(p, s[1], s[2]) \in S
LeadsTo(p, s, t) == \A S : s \in S /\ Closed(p, S) => t \in S
Started == <<<<NewScope("main")>>, <<Loading("main")>>>>

(* The calls of the interpreter follow those of the walk: the last one may  *)
(* be past its imports and carry out declarations; if it evaluates a        *)
(* constant, the calls on top of it are the initialiser and functions.     *)
CallsFollow(p, st, b) ==
  /\ b \in Seq(LoadFrames) /\ b # <<>> /\ Len(b) <= Len(st)
  /\ \A j \in DOMAIN b :
       /\ st[j] \in LoadFrames /\ st[j].mod = b[j].mod /\ st[j].imp = b[j].imp
       /\ st[j].decl = 1 \/ PastImports(p, b[j])
       /\ j = Len(b) \/ ~PastImports(p, b[j])
  /\ \A j \in DOMAIN st : j > Len(b) => st[j] \in EvalFrames
  /\ \A j \in DOMAIN st : j > Len(b) + 1 => DeclOf(p, st[j].of).kind = "func"
  /\ Len(st) > Len(b) =>
       /\ ~AtImport(p, b)
       /\ st[Len(b) + 1].of = <<st[Len(b)].mod, st[Len(b)].decl - 1>>
       /\ DeclOf(p, st[Len(b) + 1].of).kind = "const"
(* The first declaration that is not carried out yet.                      *)
Through(st, b) == IF Len(st) > Len(b) THEN st[Len(b)].decl - 1 ELSE st[Len(b)].decl
Carried(p, m, k) == {d \in ValuesOf(p, m) : d[2] < k}
ScopesFollow(p, ss, st, a, b) ==
  /\ DOMAIN a = DOMAIN ss
  /\ \A i \in DOMAIN ss :
       /\ a[i].mod = ss[i].mod
       /\ ss[i].env =
            IF AtImport(p, b) \/ ss[i].mod # TopOf(b).mod THEN a[i].env
            ELSE With(EnvFor(p, Carried(p, ss[i].mod, Through(st, b))), a[i].env)
(* What is exported is what is carried out: nothing of a module that is at  *)
(* its imports, all of one that is off the stack.                          *)
ModsOn(b) == {b[j].mod : j \in DOMAIN b}
CarriedOut(p, m, st, b) ==
  IF m \notin ModsOn(b) THEN ValuesOf(p, m)
  ELSE IF AtImport(p, b) \/ m # TopOf(b).mod THEN {}
  ELSE Carried(p, m, Through(st, b))
ExportedOf(p, ds) == {DeclOf(p, d).name : d \in {e \in ds : DeclOf(p, e).exported}}
ExportsFollow(p, ss, st, b) ==
  \A i \in DOMAIN ss : ss[i].exports = ExportedOf(p, CarriedOut(p, ss[i].mod, st, b))
(* What is evaluated belongs to a module that is complete, or is not below  *)
(* the constant whose initialiser is running.                              *)
Reachable(p, st, b, d) ==
  d[1] \notin ModsOn(b) \/ (d[1] = TopOf(b).mod /\ d[2] <= Through(st, b))
EvalsFollow(p, st, b) == \A j \in DOMAIN st : j > Len(b) => Reachable(p, st, b, st[j].of)
Beside(p, ss, st, b) == CallsFollow(p, st, b) /\ ExportsFollow(p, ss, st, b) /\ EvalsFollow(p, st, b)
Between(p, a, b, gs) == LeadsTo(p, Started, <<a, b>>) /\ LeadsTo(p, <<a, b>>, <<gs, <<>>>>)
Follows(p, ss, st, gs) ==
  \E a, b :
    /\ ScopesOK(p, a) /\ Beside(p, ss, st, b) /\ ScopesFollow(p, ss, st, a, b)
    /\ Between(p, a, b, gs)
Same(ss, gs) ==
  /\ DOMAIN ss = DOMAIN gs
  /\ \A i \in DOMAIN ss : ss[i].mod = gs[i].mod /\ ss[i].env = gs[i].env
NoneOrAll(p, ss, b) ==
  \A i \in DOMAIN ss :
    ss[i].exports = IF ss[i].mod \in ModsOn(b) THEN {} ELSE ExportedOf(p, ValuesOf(p, ss[i].mod))
Ready(p, ss, gs) == NoneOrAll(p, ss, <<>>) /\ LeadsTo(p, Started, <<gs, <<>>>>)
OnlyFuncs(p, st) == \A j \in DOMAIN st : st[j] \in EvalFrames /\ DeclOf(p, st[j].of).kind = "func"
WalkInv ==
  /\ phase = "sigs" => errors \/ LeadsTo(project, Started, <<scopes, stack>>)
  /\ phase = "bodies" => errors \/ LeadsTo(project, Started, <<scopes, <<>>>>)
  /\ phase = "load" => Follows(project, scopes, stack, sigs)
  /\ phase \in {"run", "done"} => Same(scopes, sigs)
  /\ phase = "run" => OnlyFuncs(project, stack) /\ Ready(project, scopes, sigs)

--------------------------------------------------------------------------------
LEMMA LeadsSelf == \A p, s : LeadsTo(p, s, s)
  BY DEF LeadsTo

LEMMA LeadsStep ==
  ASSUME NEW p, NEW s, NEW a, NEW b, LeadsTo(p, s, <<a, b>>), CanStep(p, a, b)
  PROVE  LeadsTo(p, s, StepOf(p, a, b))
<1> SUFFICES ASSUME NEW S, s \in S, Closed(p, S) PROVE StepOf(p, a, b) \in S
  BY DEF LeadsTo
<1>1. <<a, b>> \in S
  BY DEF LeadsTo
<1> DEFINE t == <<a, b>>
<1>2. t[1] = a /\ t[2] = b
  OBVIOUS
<1>3. CanStep(p, t[1], t[2]) => StepOf(p, t[1], t[2]) \in S
  BY <1>1, Zenon DEF Closed
<1> QED
  BY <1>2, <1>3, Zenon

(* A walk that ends goes on until its calls have returned.                 *)
LEMMA LeadsOn ==
  ASSUME NEW p, NEW a, NEW b, NEW gs, LeadsTo(p, <<a, b>>, <<gs, <<>>>>), b # <<>>
  PROVE  CanStep(p, a, b) /\ LeadsTo(p, StepOf(p, a, b), <<gs, <<>>>>)
<1> DEFINE t == <<a, b>>
           e == <<gs, <<>>>>
<1>1. t[1] = a /\ t[2] = b /\ t # e
  OBVIOUS
<1>2. LeadsTo(p, t, e)
  OBVIOUS
<1> HIDE DEF t, e
<1>3. CanStep(p, a, b)
  <2> SUFFICES ASSUME ~CanStep(p, a, b) PROVE FALSE
    OBVIOUS
  <2>1. Closed(p, {t})
    BY <1>1, Zenon DEF Closed
  <2>2. e \in {t}
    BY <1>2, <2>1, Zenon DEF LeadsTo
  <2> QED
    BY <1>1, <2>2
<1>4. ASSUME NEW S, StepOf(p, a, b) \in S, Closed(p, S) PROVE e \in S
  <2>1. ASSUME NEW s \in S \cup {t}, CanStep(p, s[1], s[2]) PROVE StepOf(p, s[1], s[2]) \in S \cup {t}
    <3>1. CASE s = t
      <4>1. StepOf(p, s[1], s[2]) = StepOf(p, a, b)
        BY <1>1, <3>1, Zenon
      <4> QED
        BY <1>4, <4>1, Zenon
    <3>2. CASE s \in S
      BY <1>4, <2>1, <3>2, Zenon DEF Closed
    <3> QED
      BY <3>1, <3>2
  <2>2. Closed(p, S \cup {t})
    BY <2>1, Zenon DEF Closed
  <2>3. e \in S \cup {t}
    BY <1>2, <2>2, Zenon DEF LeadsTo
  <2> QED
    BY <1>1, <2>3
<1>5. LeadsTo(p, StepOf(p, a, b), e)
  BY <1>4, Zenon DEF LeadsTo
<1> QED
  BY <1>3, <1>5 DEF e

LEMMA BetweenStep ==
  ASSUME NEW p, NEW a, NEW b, NEW gs, Between(p, a, b, gs), b # <<>>,
         NEW c, NEW e, StepOf(p, a, b) = <<c, e>>
  PROVE  Between(p, c, e, gs)
<1>1. LeadsTo(p, Started, <<a, b>>) /\ LeadsTo(p, <<a, b>>, <<gs, <<>>>>)
  BY Zenon DEF Between
<1>2. CanStep(p, a, b) /\ LeadsTo(p, StepOf(p, a, b), <<gs, <<>>>>)
  BY <1>1, LeadsOn
<1>3. LeadsTo(p, Started, StepOf(p, a, b))
  BY <1>1, <1>2, LeadsStep
<1> QED
  BY <1>2, <1>3, Zenon DEF Between

LEMMA LeadsEnd ==
  ASSUME NEW p, NEW a, NEW gs, LeadsTo(p, <<a, <<>>>>, <<gs, <<>>>>)
  PROVE  a = gs
<1> DEFINE t == <<a, <<>>>>
           e == <<gs, <<>>>>
<1>1. t[2] = <<>>
  OBVIOUS
<1>2. LeadsTo(p, t, e)
  OBVIOUS
<1> HIDE DEF t, e
<1>3. Closed(p, {t})
  BY <1>1, Zenon DEF Closed, CanStep
<1>4. e \in {t}
  BY <1>2, <1>3, Zenon DEF LeadsTo
<1> QED
  BY <1>4 DEF t, e

--------------------------------------------------------------------------------
LEMMA EnvIs ==
  ASSUME NEW ds
  PROVE  EnvOf(ds) = EnvFor(project, ds)
  BY DEF EnvOf, EnvFor, Decl, DeclOf

LEMMA ValuesAre ==
  ASSUME NEW m
  PROVE  {d \in DeclsIn(m) : Decl(d).kind \in Values} = ValuesOf(project, m)
  BY DeclsAre DEF ValuesOf

LEMMA PosIs == /\ \A m : At(m) = PosOf(scopes, m)
  BY DEF At, PosOf

LEMMA PosType ==
  ASSUME NEW p, NEW ss, ScopesOK(p, ss), NEW m \in ModsOf(ss)
  PROVE  /\ PosOf(ss, m) \in DOMAIN ss /\ ss[PosOf(ss, m)].mod = m
         /\ \A i \in DOMAIN ss : ss[i].mod = m => i = PosOf(ss, m)
<1>1. \E i \in DOMAIN ss : ss[i].mod = m
  BY DEF ModsOf
<1>2. PosOf(ss, m) \in DOMAIN ss /\ ss[PosOf(ss, m)].mod = m
  BY <1>1 DEF PosOf
<1> QED
  BY <1>2 DEF ScopesOK

(* The names of some declarations of a module.                             *)
LEMMA EnvForType ==
  ASSUME NEW p \in Projects, NEW ss, NEW m \in ModsOf(ss), m \in STRING, m \in DOMAIN p,
         NEW ds \in SUBSET DeclsOf(p, m)
  PROVE  /\ GoodEnv(p, ss, EnvFor(p, ds))
         /\ DOMAIN EnvFor(p, ds) = {DeclOf(p, d).name : d \in ds}
         /\ \A x \in DOMAIN EnvFor(p, ds) : EnvFor(p, ds)[x][1] = m
         /\ \A d \in ds : EnvFor(p, ds)[DeclOf(p, d).name] = d
<1> DEFINE xs == {DeclOf(p, d).name : d \in ds}
           g(x) == CHOOSE d \in ds : DeclOf(p, d).name = x
           env == EnvFor(p, ds)
<1>1. \A d \in ds : /\ d[1] = m /\ d \in Refs /\ d \in DeclsOf(p, m) /\ DeclOf(p, d).name \in STRING
  BY DeclType DEF Declarations
<1>2. \A x \in xs : g(x) \in ds /\ DeclOf(p, g(x)).name = x
  OBVIOUS
<1>3. ASSUME NEW d \in ds, NEW e \in ds, DeclOf(p, d).name = DeclOf(p, e).name
      PROVE  d = e
  <2>1. PICK i \in DOMAIN p[m].decls : d = <<m, i>>
    BY DEF DeclsOf
  <2>2. PICK j \in DOMAIN p[m].decls : e = <<m, j>>
    BY DEF DeclsOf
  <2>3. p[m].decls[i].name = p[m].decls[j].name
    BY <1>3, <2>1, <2>2 DEF DeclOf
  <2> QED
    BY <2>1, <2>2, <2>3, FileType
<1>4. xs \in SUBSET STRING
  BY <1>1
<1>5. \A d \in ds : DeclOf(p, d).name \in xs /\ g(DeclOf(p, d).name) = d
  BY <1>2, <1>3
<1> HIDE DEF g
<1>6. env = [x \in xs |-> g(x)]
  BY DEF g, EnvFor
<1> HIDE DEF xs, env
<1>7. DOMAIN env = xs /\ \A x \in xs : env[x] = g(x)
  BY <1>6
<1>8. env \in [xs -> Refs]
  BY <1>1, <1>2, <1>6
<1>9. env \in Envs
  BY <1>4, <1>8 DEF Envs
<1>10. \A x \in xs : StandsFor(p, ss, x, g(x)) /\ g(x)[1] = m
  BY <1>1, <1>2 DEF StandsFor
<1>11. GoodEnv(p, ss, env) /\ \A x \in DOMAIN env : env[x][1] = m
  BY ONLY <1>7, <1>9, <1>10 DEF GoodEnv
<1>12. \A d \in ds : env[DeclOf(p, d).name] = d
  BY <1>5, <1>7
<1> QED
  BY <1>7, <1>11, <1>12 DEF xs, env

(* Envs with the same names standing for the same are equal.               *)
LEMMA SameEnv ==
  ASSUME NEW e \in Envs, NEW f \in Envs, DOMAIN e = DOMAIN f, \A x \in DOMAIN e : e[x] = f[x]
  PROVE  e = f
<1>1. PICK xs \in SUBSET STRING : e \in [xs -> Refs]
  BY DEF Envs
<1>2. PICK ys \in SUBSET STRING : f \in [ys -> Refs]
  BY DEF Envs
<1>3. xs = DOMAIN e /\ ys = DOMAIN f
  BY <1>1, <1>2
<1>4. e = [x \in xs |-> e[x]] /\ f = [x \in xs |-> f[x]]
  BY <1>1, <1>2, <1>3
<1> QED
  BY <1>3, <1>4, Zenon

LEMMA WithNothing ==
  ASSUME NEW p, NEW old \in Envs
  PROVE  With(EnvFor(p, {}), old) = old
<1>1. DOMAIN EnvFor(p, {}) = {}
  BY DEF EnvFor
<1>2. EnvFor(p, {}) \in [{} -> Refs]
  BY <1>1 DEF EnvFor
<1>3. EnvFor(p, {}) \in Envs
  BY <1>2 DEF Envs
<1> DEFINE e == EnvFor(p, {})
<1> HIDE DEF e
<1>4. /\ With(e, old) \in Envs /\ DOMAIN With(e, old) = DOMAIN e \cup DOMAIN old
      /\ \A x \in DOMAIN old : x \notin DOMAIN e => With(e, old)[x] = old[x]
  BY <1>3, WithType DEF e
<1>5. DOMAIN With(e, old) = DOMAIN old /\ \A x \in DOMAIN old : With(e, old)[x] = old[x]
  BY <1>1, <1>4 DEF e
<1>6. With(e, old) = old
  BY <1>4, <1>5, SameEnv
<1> QED
  BY <1>6 DEF e

(* Declarations carried out one after the other.                           *)
LEMMA WithOneMore ==
  ASSUME NEW p \in Projects, NEW m \in STRING, m \in DOMAIN p,
         NEW ds \in SUBSET DeclsOf(p, m), NEW d \in DeclsOf(p, m), NEW old \in Envs
  PROVE  With(EnvFor(p, {d}), With(EnvFor(p, ds), old)) = With(EnvFor(p, ds \cup {d}), old)
<1>1. PICK ss : ss = <<NewScope(m)>>
  OBVIOUS
<1> DEFINE e == EnvFor(p, {d})
           f == EnvFor(p, ds)
           g == EnvFor(p, ds \cup {d})
           name(c) == DeclOf(p, c).name
<1>15. m \in ModsOf(ss)
  <2>1. ModsOf(ss) = {m}
    BY <1>1, FirstScope, Zenon
  <2> QED
    BY <2>1
<1>2. {d} \in SUBSET DeclsOf(p, m) /\ ds \cup {d} \in SUBSET DeclsOf(p, m)
  OBVIOUS
<1>3. /\ e \in Envs /\ DOMAIN e = {name(c) : c \in {d}} /\ \A c \in {d} : e[name(c)] = c
  BY <1>2, <1>15, EnvForType DEF GoodEnv
<1>4. /\ f \in Envs /\ DOMAIN f = {name(c) : c \in ds} /\ \A c \in ds : f[name(c)] = c
  BY <1>2, <1>15, EnvForType DEF GoodEnv
<1>5. /\ g \in Envs /\ DOMAIN g = {name(c) : c \in ds \cup {d}} /\ \A c \in ds \cup {d} : g[name(c)] = c
  BY <1>2, <1>15, EnvForType DEF GoodEnv
<1> HIDE DEF e, f, g, name
<1>6. /\ With(f, old) \in Envs /\ DOMAIN With(f, old) = DOMAIN f \cup DOMAIN old
      /\ \A x \in DOMAIN f : With(f, old)[x] = f[x]
      /\ \A x \in DOMAIN old : x \notin DOMAIN f => With(f, old)[x] = old[x]
  BY <1>4, WithType
<1> DEFINE h == With(f, old)
<1> HIDE DEF h
<1>7. /\ With(e, h) \in Envs /\ DOMAIN With(e, h) = DOMAIN e \cup DOMAIN h
      /\ \A x \in DOMAIN e : With(e, h)[x] = e[x]
      /\ \A x \in DOMAIN h : x \notin DOMAIN e => With(e, h)[x] = h[x]
  BY <1>3, <1>6, WithType DEF h
<1>8. /\ With(g, old) \in Envs /\ DOMAIN With(g, old) = DOMAIN g \cup DOMAIN old
      /\ \A x \in DOMAIN g : With(g, old)[x] = g[x]
      /\ \A x \in DOMAIN old : x \notin DOMAIN g => With(g, old)[x] = old[x]
  BY <1>5, WithType
<1>9. DOMAIN g = DOMAIN e \cup DOMAIN f
  BY <1>3, <1>4, <1>5
<1>10. \A x \in DOMAIN e : g[x] = e[x]
  BY <1>3, <1>5
<1>11. \A x \in DOMAIN f : g[x] = f[x]
  BY <1>4, <1>5
<1>12. DOMAIN With(e, h) = DOMAIN With(g, old)
  BY <1>6, <1>7, <1>8, <1>9 DEF h
<1>13. ASSUME NEW x \in DOMAIN With(e, h) PROVE With(e, h)[x] = With(g, old)[x]
  <2>1. CASE x \in DOMAIN e
    BY <1>7, <1>8, <1>9, <1>10, <2>1
  <2>2. CASE x \notin DOMAIN e /\ x \in DOMAIN f
    BY <1>6, <1>7, <1>8, <1>9, <1>11, <2>2 DEF h
  <2>3. CASE x \notin DOMAIN e /\ x \notin DOMAIN f
    BY <1>6, <1>7, <1>8, <1>9, <1>13, <2>3 DEF h
  <2> QED
    BY <2>1, <2>2, <2>3
<1>14. With(e, h) = With(g, old)
  BY <1>7, <1>8, <1>12, <1>13, SameEnv
<1> QED
  BY <1>14 DEF e, f, g, h

--------------------------------------------------------------------------------
(* The walk of the checker, and what it has come to.                        *)
LEMMA TopIs ==
  ASSUME Types, stack # <<>>, Top.do = "load"
  PROVE  /\ TopOf(stack) = Top
         /\ AtImport(project, stack) <=> Importing
         /\ ~AtImport(project, stack) <=> Declaring
         /\ ImportOf(project, stack) = Import
         /\ WantedOf(project, stack) = Wanted
<1>1. TopOf(stack) = Top /\ ImportOf(project, stack) = Import /\ WantedOf(project, stack) = Wanted
  BY DEF TopOf, Top, ImportOf, Import, WantedOf, Wanted
<1>2. Top.imp \in Nat /\ Len(project[Top.mod].imports) \in Nat
  BY TopLoads, FileType, LenProperties DEF Types
<1> QED
  BY <1>1, <1>2 DEF AtImport, PastImports, Importing, Declaring

LEMMA SeenIs ==
  \A m, x : /\ Known(m, x) <=> x \in DOMAIN scopes[PosOf(scopes, m)].env
            /\ Visible(m, x) <=> Sees(scopes, m, x)
  BY PosIs DEF Known, Visible, Scope, Sees

LEMMA PickedIs ==
  \A xs : Picked(xs) = PickedOf(scopes, Import.mod, xs)
  BY PosIs DEF Picked, PickedOf, Scope

LEMMA FirstStep ==
  Init => WalkInv
<1> SUFFICES ASSUME Init PROVE WalkInv
  OBVIOUS
<1>1. <<scopes, stack>> = Started /\ phase = "sigs"
  BY DEF Init, Started
<1> QED
  BY <1>1, LeadsSelf DEF WalkInv

LEMMA SigsImport ==
  ASSUME Types, phase = "sigs", LoadImport, phase' = "sigs"
  PROVE  CanStep(project, scopes, stack) /\ <<scopes', stack'>> = StepOf(project, scopes, stack)
<1>1. stack # <<>> /\ Top.do = "load" /\ Importing /\ Import.mod \notin ModsOf(scopes)
  BY RegisteredAre DEF LoadImport, Importing
<1>2. Import.mod \in DOMAIN project
  BY DEF LoadImport
<1>3. scopes' = Append(scopes, NewScope(Import.mod)) /\ stack' = Append(stack, Loading(Import.mod))
  BY <1>2 DEF LoadImport
<1>4. AtImport(project, stack) /\ ImportOf(project, stack) = Import
  BY <1>1, TopIs
<1>5. CanStep(project, scopes, stack)
  BY <1>1, <1>2, <1>4 DEF CanStep
<1>6. StepOf(project, scopes, stack) = Enter(project, scopes, stack)
  BY <1>1, <1>4, Zenon DEF StepOf
<1> QED
  BY <1>3, <1>4, <1>5, <1>6, Zenon DEF Enter

LEMMA SigsSelect ==
  ASSUME Types, SelectSigs, ~errors'
  PROVE  /\ ~errors
         /\ CanStep(project, scopes, stack) /\ <<scopes', stack'>> = StepOf(project, scopes, stack)
<1> DEFINE ok == {x \in Wanted : HasType(Import.mod, x) /\ Visible(Import.mod, x)}
<1>1. /\ stack # <<>> /\ Top.do = "load" /\ Importing /\ Import.mod \in ModsOf(scopes)
      /\ stack' = NextImport /\ Bind(Top.mod, Picked(ok), {}) /\ errors' = (errors \/ ok # Wanted)
  BY RegisteredAre DEF SelectSigs, Importing
<1>2. ok = Wanted /\ ~errors
  BY <1>1
<1>3. \A x \in Wanted : Known(Import.mod, x) /\ Visible(Import.mod, x)
  BY <1>2 DEF HasType
<1>4. /\ AtImport(project, stack) /\ ImportOf(project, stack) = Import /\ TopOf(stack) = Top
      /\ WantedOf(project, stack) = Wanted
  BY <1>1, TopIs
<1>5. CanStep(project, scopes, stack)
  BY <1>1, <1>3, <1>4, SeenIs DEF CanStep
<1>6. StepOf(project, scopes, stack) = Pick(project, scopes, stack)
  BY <1>1, <1>4, Zenon DEF StepOf
<1>7. Bind(Top.mod, Picked(Wanted), {})
  BY <1>1, <1>2
<1>8. scopes' = AddedAt(scopes, PosOf(scopes, Top.mod), PickedOf(scopes, Import.mod, Wanted), {})
  BY <1>7, BindIs, PosIs, PickedIs
<1>9. stack' = [stack EXCEPT ![Len(stack)].imp = @ + 1]
  BY <1>1 DEF NextImport
<1> QED
  BY <1>2, <1>4, <1>5, <1>6, <1>8, <1>9, Zenon DEF Pick

LEMMA SigsDeclare ==
  ASSUME Types, DeclareSigs
  PROVE  /\ CanStep(project, scopes, stack) /\ StepOf(project, scopes, stack) = <<scopes', Pop>>
         /\ ~(Len(stack) > 1) => Pop = <<>>
<1> DEFINE m == Top.mod
<1>1. /\ stack # <<>> /\ Top.do = "load" /\ Declaring
      /\ Bind(m, EnvOf({d \in DeclsIn(m) : Decl(d).kind \in Values}), Publics(m, Values \cup {"type"}))
  BY DEF DeclareSigs, Declaring
<1>2. m \in DOMAIN project /\ m \in STRING /\ project \in Projects
  BY <1>1, TopLoads DEF Types
<1>3. Bind(m, EnvFor(project, ValuesOf(project, m)), PublicsOf(project, m))
  BY <1>1, <1>2, ValuesAre, EnvIs, PublicsAre
<1>4. ~AtImport(project, stack) /\ TopOf(stack) = Top
  BY <1>1, TopIs
<1>5. CanStep(project, scopes, stack)
  BY <1>1, <1>4 DEF CanStep
<1>6. StepOf(project, scopes, stack) = Declare(project, scopes, stack)
  BY <1>4, Zenon DEF StepOf
<1>7. scopes' = AddedAt(scopes, PosOf(scopes, m), EnvFor(project, ValuesOf(project, m)), PublicsOf(project, m))
  BY <1>3, BindIs, PosIs
<1>8. ~(Len(stack) > 1) => Pop = <<>>
  <2> SUFFICES ASSUME ~(Len(stack) > 1) PROVE Pop = <<>>
    OBVIOUS
  <2>1. Len(stack) \in Nat \ {0} /\ StackOK(project, scopes, stack)
    BY <1>1, StackTop DEF Types
  <2>2. Len(Pop) = 0 /\ Pop \in Seq(Frames)
    BY <1>1, <2>1, StackPop DEF Pop, StackOK
  <2> QED
    BY <2>2, EmptySeq
<1> QED
  BY <1>4, <1>5, <1>6, <1>7, <1>8, Zenon DEF Declare, Pop

--------------------------------------------------------------------------------
(* Scopes that have the same modules.                                      *)
LEMMA SamePos ==
  ASSUME NEW p, NEW ss, ScopesOK(p, ss), NEW a, ScopesOK(p, a),
         DOMAIN a = DOMAIN ss, \A i \in DOMAIN ss : a[i].mod = ss[i].mod
  PROVE  /\ ModsOf(a) = ModsOf(ss) /\ Len(a) = Len(ss)
         /\ \A m \in ModsOf(ss) : PosOf(a, m) = PosOf(ss, m) /\ PosOf(ss, m) \in DOMAIN ss
<1>1. ModsOf(a) = ModsOf(ss)
  BY DEF ModsOf
<1>2. Len(a) = Len(ss)
  BY <1>1 DEF ScopesOK
<1>3. ASSUME NEW m \in ModsOf(ss)
      PROVE  PosOf(a, m) = PosOf(ss, m) /\ PosOf(ss, m) \in DOMAIN ss
  <2>1. PosOf(ss, m) \in DOMAIN ss /\ ss[PosOf(ss, m)].mod = m
    BY PosType
  <2>2. \A i \in DOMAIN a : a[i].mod = m => i = PosOf(a, m)
    BY <1>1, PosType
  <2> QED
    BY <2>1, <2>2
<1> QED
  BY <1>1, <1>2, <1>3

LEMMA CarriedNone ==
  ASSUME NEW p \in Projects, NEW ss, ScopesOK(p, ss), NEW m \in ModsOf(ss)
  PROVE  Carried(p, m, 1) = {}
<1>1. PICK i \in DOMAIN ss : ss[i].mod = m
  BY DEF ModsOf
<1> QED
  BY <1>1, DeclIndex DEF Carried, ValuesOf

(* While no declaration is carried out, the scopes are those of the walk.   *)
LEMMA FollowEqual ==
  ASSUME NEW p \in Projects, NEW ss, ScopesOK(p, ss), NEW st, NEW a, NEW b, ScopesOK(p, a),
         DOMAIN a = DOMAIN ss,
         \A i \in DOMAIN ss : a[i].mod = ss[i].mod /\ ss[i].env = a[i].env,
         AtImport(p, b) \/ Through(st, b) = 1
  PROVE  ScopesFollow(p, ss, st, a, b)
<1>1. ASSUME NEW i \in DOMAIN ss, Through(st, b) = 1
      PROVE  ss[i].env = With(EnvFor(p, Carried(p, ss[i].mod, Through(st, b))), a[i].env)
  <2>1. ss[i].mod \in ModsOf(ss) /\ a[i].env \in Envs
    BY DEF ModsOf, ScopesOK, GoodEnv
  <2>2. Carried(p, ss[i].mod, Through(st, b)) = {}
    BY <1>1, <2>1, CarriedNone
  <2>3. With(EnvFor(p, {}), a[i].env) = a[i].env
    BY <2>1, WithNothing
  <2> QED
    BY <2>2, <2>3
<1> QED
  BY <1>1 DEF ScopesFollow

LEMMA FollowImport ==
  ASSUME NEW p, NEW ss, NEW st, NEW a, NEW b, ScopesFollow(p, ss, st, a, b), AtImport(p, b)
  PROVE  /\ DOMAIN a = DOMAIN ss
         /\ \A i \in DOMAIN ss : a[i].mod = ss[i].mod /\ ss[i].env = a[i].env
  BY DEF ScopesFollow

--------------------------------------------------------------------------------
(* The calls that follow those of the walk.                                *)
LEMMA CallsTop ==
  ASSUME NEW p, NEW ss, NEW st, StackOK(p, ss, st), NEW b, CallsFollow(p, st, b)
  PROVE  /\ st # <<>> /\ Len(st) \in Nat /\ Len(b) \in Nat \ {0} /\ Len(b) <= Len(st)
         /\ DOMAIN st = 1..Len(st) /\ DOMAIN b = 1..Len(b) /\ Len(b) \in DOMAIN b /\ Len(b) \in DOMAIN st
         /\ TopOf(b) \in LoadFrames /\ st[Len(b)] \in LoadFrames
         /\ st[Len(b)].mod = TopOf(b).mod /\ st[Len(b)].imp = TopOf(b).imp
         /\ Through(st, b) \in Int
<1>1. st \in Seq(Frames) /\ b \in Seq(LoadFrames) /\ b # <<>> /\ Len(b) <= Len(st)
  BY DEF StackOK, CallsFollow
<1>2. /\ Len(st) \in Nat /\ Len(b) \in Nat \ {0} /\ DOMAIN st = 1..Len(st) /\ DOMAIN b = 1..Len(b)
  BY <1>1, LenProperties, EmptySeq
<1>3. st # <<>> /\ Len(b) \in DOMAIN b /\ Len(b) \in DOMAIN st
  BY <1>1, <1>2
<1>4. st[Len(b)] \in LoadFrames /\ st[Len(b)].mod = TopOf(b).mod /\ st[Len(b)].imp = TopOf(b).imp
  BY <1>3 DEF CallsFollow, TopOf
<1>5. TopOf(b) \in LoadFrames
  BY <1>1, <1>3, ElementOfSeq, <1>2 DEF TopOf
<1>6. Through(st, b) \in Int
  BY <1>4 DEF Through, LoadFrames
<1> QED
  BY <1>1, <1>2, <1>3, <1>4, <1>5, <1>6

LEMMA FramesApart ==
  \A f : /\ f \in LoadFrames => f.do = "load"
         /\ f \in EvalFrames => f.do = "eval"
  BY DEF LoadFrames, EvalFrames

(* The last call loads or evaluates.                                       *)
LEMMA LoadsTop ==
  ASSUME NEW p, NEW ss, NEW st, StackOK(p, ss, st), NEW b, CallsFollow(p, st, b)
  PROVE  /\ TopOf(st).do = "load" <=> Len(st) = Len(b)
         /\ TopOf(st).do = "eval" <=> Len(st) > Len(b)
         /\ Len(st) = Len(b) => TopOf(st) \in LoadFrames /\ TopOf(st).mod = TopOf(b).mod /\ TopOf(st).imp = TopOf(b).imp
<1>1. /\ Len(st) \in Nat /\ Len(b) \in Nat \ {0} /\ Len(b) <= Len(st) /\ Len(st) \in DOMAIN st
      /\ st[Len(b)] \in LoadFrames /\ st[Len(b)].mod = TopOf(b).mod /\ st[Len(b)].imp = TopOf(b).imp
  BY CallsTop
<1>2. CASE Len(st) = Len(b)
  <2>1. TopOf(st).do = "load"
    BY <1>1, <1>2, FramesApart DEF TopOf
  <2> QED
    BY <1>1, <1>2, <2>1 DEF TopOf
<1>3. CASE Len(st) > Len(b)
  <2>1. st[Len(st)] \in EvalFrames
    BY <1>1, <1>3 DEF CallsFollow
  <2>2. TopOf(st).do = "eval"
    BY <2>1, FramesApart DEF TopOf
  <2> QED
    BY <1>1, <1>3, <2>2
<1> QED
  BY <1>1, <1>2, <1>3

LEMMA EvalsNone ==
  ASSUME NEW p, NEW st, NEW b, NEW n \in Nat, Len(b) = n, DOMAIN st = 1..n
  PROVE  EvalsFollow(p, st, b)
  BY DEF EvalsFollow

(* Nothing is carried out yet by the last load call.                       *)
Starting(p, st, b) == CallsFollow(p, st, b) /\ Through(st, b) = 1 /\ EvalsFollow(p, st, b)

LEMMA CallsPush ==
  ASSUME NEW p \in Projects, NEW ss, NEW st, StackOK(p, ss, st), NEW b, CallsFollow(p, st, b),
         Len(st) = Len(b), AtImport(p, b), NEW m \in ModsOf(ss), m \in STRING,
         NEW tt, tt = Append(st, Loading(m)), NEW c, c = Append(b, Loading(m))
  PROVE  Starting(p, tt, c)
<1> DEFINE f == Loading(m)
           n == Len(b) + 1
<1>1. f \in LoadFrames /\ f \in Frames /\ FrameOK(p, ss, f) /\ f.decl = 1
  BY LoadingFrame DEF Loading
<1> HIDE DEF f
<1>2. st \in Seq(Frames) /\ b \in Seq(LoadFrames) /\ Len(b) \in Nat /\ DOMAIN b = 1..Len(b) /\ DOMAIN st = 1..Len(st)
  BY CallsTop DEF StackOK, CallsFollow
<1>3. /\ tt \in Seq(Frames) /\ Len(tt) = n /\ DOMAIN tt = 1..n
      /\ tt[n] = f /\ \A i \in 1..Len(b) : tt[i] = st[i]
  BY <1>1, <1>2, AppendProperties, LenProperties DEF f
<1>4. /\ c \in Seq(LoadFrames) /\ Len(c) = n /\ DOMAIN c = 1..n
      /\ c[n] = f /\ \A i \in 1..Len(b) : c[i] = b[i]
  BY <1>1, <1>2, AppendProperties, LenProperties DEF f
<1>5. c # <<>>
  <2>1. c \in Seq(LoadFrames) /\ Len(c) # 0
    BY ONLY <1>2, <1>4
  <2> QED
    BY ONLY <2>1, EmptySeq
<1>6. ASSUME NEW j \in DOMAIN c
      PROVE  /\ tt[j] \in LoadFrames /\ tt[j].mod = c[j].mod /\ tt[j].imp = c[j].imp
             /\ tt[j].decl = 1 \/ PastImports(p, c[j])
             /\ j = Len(c) \/ ~PastImports(p, c[j])
  <2>1. CASE j = n
    BY <1>1, <1>3, <1>4, <2>1
  <2>2. CASE j \in 1..Len(b)
    <3>1. j = Len(b) => ~PastImports(p, b[j])
      BY DEF AtImport, TopOf
    <3> QED
      BY <1>2, <1>3, <1>4, <2>2, <3>1 DEF CallsFollow
  <2> QED
    BY <1>2, <1>4, <2>1, <2>2
<1>7. CallsFollow(p, tt, c)
  BY <1>2, <1>3, <1>4, <1>5, <1>6 DEF CallsFollow
<1>8. Through(tt, c) = 1
  BY <1>1, <1>2, <1>3, <1>4 DEF Through
<1>9. EvalsFollow(p, tt, c)
  <2>1. n \in Nat
    BY ONLY <1>2
  <2> HIDE DEF n
  <2>2. Len(c) = n /\ DOMAIN tt = 1..n
    BY <1>3, <1>4
  <2> QED
    BY ONLY <2>1, <2>2, EvalsNone
<1> QED
  BY <1>7, <1>8, <1>9 DEF Starting

(* A change of the last load call, together with the walk or not.           *)
LEMMA CallsReplace ==
  ASSUME NEW p, NEW ss, NEW st, StackOK(p, ss, st), NEW b, CallsFollow(p, st, b),
         Len(st) = Len(b), NEW f \in LoadFrames, FrameOK(p, ss, f), NEW g \in LoadFrames,
         f.mod = g.mod, f.imp = g.imp, f.decl = 1 \/ PastImports(p, g),
         NEW tt, tt = Replaced(st, f), NEW c, c = Replaced(b, g)
  PROVE  /\ CallsFollow(p, tt, c) /\ TopOf(c) = g /\ Through(tt, c) = f.decl
         /\ Len(tt) = Len(c) /\ TopOf(tt) = f
<1>1. /\ Len(b) \in Nat \ {0} /\ Len(b) \in DOMAIN b /\ Len(st) \in DOMAIN st
      /\ DOMAIN st = 1..Len(st) /\ DOMAIN b = 1..Len(b) /\ st # <<>>
      /\ b \in Seq(LoadFrames) /\ b # <<>>
  BY CallsTop DEF CallsFollow
<1>2. f \in Frames
  BY DEF Frames
<1>3. /\ Len(tt) = Len(st) /\ DOMAIN tt = DOMAIN st /\ tt[Len(st)] = f
      /\ \A i \in DOMAIN st : i # Len(st) => tt[i] = st[i]
  BY <1>1, <1>2, StackReplace
<1>4. c \in Seq(LoadFrames) /\ Len(c) = Len(b) /\ DOMAIN c = DOMAIN b
  BY <1>1, ExceptSeq, LenProperties DEF Replaced
<1>5. c[Len(b)] = g /\ \A i \in DOMAIN b : i # Len(b) => c[i] = b[i]
  BY <1>1 DEF Replaced
<1>6. ASSUME NEW j \in DOMAIN c
      PROVE  /\ tt[j] \in LoadFrames /\ tt[j].mod = c[j].mod /\ tt[j].imp = c[j].imp
             /\ tt[j].decl = 1 \/ PastImports(p, c[j])
             /\ j = Len(c) \/ ~PastImports(p, c[j])
  <2>1. CASE j = Len(b)
    BY <1>3, <1>4, <1>5, <2>1
  <2>2. CASE j # Len(b)
    <3>1. tt[j] = st[j] /\ c[j] = b[j] /\ j \in DOMAIN b /\ j # Len(c)
      BY <1>1, <1>3, <1>4, <1>5, <2>2
    <3> QED
      BY <1>4, <2>2, <3>1 DEF CallsFollow
  <2> QED
    BY <2>1, <2>2
<1>7. c # <<>>
  BY <1>1, <1>4
<1>8. CallsFollow(p, tt, c)
  BY <1>1, <1>3, <1>4, <1>6, <1>7 DEF CallsFollow
<1> QED
  BY <1>1, <1>3, <1>4, <1>5, <1>8 DEF TopOf, Through

(* The last load call returns.                                             *)
Resumed(p, st, b) == CallsFollow(p, st, b) /\ AtImport(p, b) /\ EvalsFollow(p, st, b)

LEMMA CallsReturn ==
  ASSUME NEW p, NEW ss, NEW st, StackOK(p, ss, st), NEW b, CallsFollow(p, st, b),
         Len(st) = Len(b), Len(st) > 1,
         NEW tt, tt = SubSeq(st, 1, Len(st) - 1), NEW c, c = SubSeq(b, 1, Len(b) - 1)
  PROVE  Resumed(p, tt, c)
<1>1. /\ Len(b) \in Nat \ {0} /\ DOMAIN st = 1..Len(st) /\ DOMAIN b = 1..Len(b) /\ st # <<>>
      /\ b \in Seq(LoadFrames)
  BY CallsTop DEF CallsFollow
<1>2. /\ Len(tt) = Len(b) - 1 /\ DOMAIN tt = 1..(Len(b) - 1)
      /\ \A i \in DOMAIN tt : i \in DOMAIN st /\ tt[i] = st[i]
  BY <1>1, StackPop
<1>3. c \in Seq(LoadFrames) /\ Len(c) = Len(b) - 1 /\ \A i \in 1..(Len(b) - 1) : c[i] = b[i]
  BY <1>1, SubSeqProperties
<1>4. DOMAIN c = 1..(Len(b) - 1)
  BY <1>1, <1>3, LenProperties
<1>5. c # <<>>
  <2>1. c \in Seq(LoadFrames) /\ Len(c) # 0
    BY <1>1, <1>3
  <2> QED
    BY ONLY <2>1, EmptySeq
<1>6. ASSUME NEW j \in DOMAIN c
      PROVE  /\ tt[j] \in LoadFrames /\ tt[j].mod = c[j].mod /\ tt[j].imp = c[j].imp
             /\ tt[j].decl = 1 \/ PastImports(p, c[j])
             /\ ~PastImports(p, c[j])
  <2>1. tt[j] = st[j] /\ c[j] = b[j] /\ j \in DOMAIN b /\ j # Len(b)
    BY <1>1, <1>2, <1>3, <1>4
  <2> QED
    BY <2>1 DEF CallsFollow
<1>7. CallsFollow(p, tt, c)
  BY <1>1, <1>2, <1>3, <1>4, <1>5, <1>6 DEF CallsFollow
<1>8. Len(c) \in DOMAIN c
  BY <1>1, <1>3, <1>4
<1>9. AtImport(p, c)
  BY <1>6, <1>8 DEF AtImport, TopOf
<1>10. EvalsFollow(p, tt, c)
  <2>3. Len(b) - 1 \in Nat
    BY <1>1
  <2>1. PICK n \in Nat : n = Len(b) - 1
    BY ONLY <2>3
  <2>2. Len(c) = n /\ DOMAIN tt = 1..n
    BY <1>2, <1>3, <2>1
  <2> QED
    BY ONLY <2>2, EvalsNone
<1> QED
  BY <1>7, <1>9, <1>10 DEF Resumed

(* A call that evaluates moves on, calls a function or returns: only the   *)
(* return of the initialiser carries its constant out.                     *)
Onward(p, st, tt, b) == CallsFollow(p, tt, b) /\ Through(tt, b) = Through(st, b)
Returned(p, st, tt, b) ==
  /\ CallsFollow(p, tt, b)
  /\ Len(st) > Len(b) + 1 => Through(tt, b) = Through(st, b)
  /\ Len(st) = Len(b) + 1 => Through(tt, b) = Through(st, b) + 1

LEMMA CallsMove ==
  ASSUME NEW p, NEW ss, NEW st, StackOK(p, ss, st), NEW b, CallsFollow(p, st, b),
         Len(st) > Len(b), NEW g \in EvalFrames, FrameOK(p, ss, g), g.of = TopOf(st).of,
         NEW tt, tt = Replaced(st, g)
  PROVE  Onward(p, st, tt, b) /\ Len(tt) = Len(st)
<1>1. /\ Len(b) \in Nat \ {0} /\ DOMAIN st = 1..Len(st) /\ DOMAIN b = 1..Len(b) /\ st # <<>>
      /\ b \in Seq(LoadFrames) /\ Len(st) \in Nat
  BY CallsTop DEF CallsFollow
<1>2. g \in Frames
  BY DEF Frames
<1>3. /\ Len(tt) = Len(st) /\ DOMAIN tt = DOMAIN st /\ tt[Len(st)] = g
      /\ \A i \in DOMAIN st : i # Len(st) => tt[i] = st[i]
  BY <1>1, <1>2, StackReplace
<1>4. \A j \in DOMAIN b : tt[j] = st[j]
  BY <1>1, <1>3
<1>5. \A j \in DOMAIN st : j > Len(b) => tt[j].of = st[j].of /\ tt[j] \in EvalFrames
  BY <1>3 DEF CallsFollow, TopOf
<1>6. Len(b) + 1 \in DOMAIN st
  BY <1>1
<1>7. CallsFollow(p, tt, b)
  <2>1. \A j \in DOMAIN tt : j > Len(b) + 1 => DeclOf(p, tt[j].of).kind = "func"
    BY <1>1, <1>3, <1>5 DEF CallsFollow
  <2>2. tt[Len(b) + 1].of = st[Len(b) + 1].of /\ tt[Len(b)] = st[Len(b)]
    BY <1>1, <1>4, <1>5, <1>6
  <2>3. \A j \in DOMAIN tt : j > Len(b) => tt[j] \in EvalFrames
    BY <1>3, <1>5
  <2>4. \A j \in DOMAIN b :
       /\ tt[j] \in LoadFrames /\ tt[j].mod = b[j].mod /\ tt[j].imp = b[j].imp
       /\ tt[j].decl = 1 \/ PastImports(p, b[j])
       /\ j = Len(b) \/ ~PastImports(p, b[j])
    BY <1>4 DEF CallsFollow
  <2> QED
    BY <1>3, <2>1, <2>2, <2>3, <2>4 DEF CallsFollow
<1>8. Len(b) \in DOMAIN b
  BY <1>1
<1> QED
  BY <1>3, <1>4, <1>7, <1>8 DEF Through, Onward

LEMMA CallsCall ==
  ASSUME NEW p, NEW ss, NEW st, StackOK(p, ss, st), NEW b, CallsFollow(p, st, b),
         Len(st) > Len(b), NEW g \in EvalFrames, FrameOK(p, ss, g), DeclOf(p, g.of).kind = "func",
         NEW tt, tt = Append(st, g)
  PROVE  Onward(p, st, tt, b)
<1>1. /\ Len(b) \in Nat \ {0} /\ DOMAIN st = 1..Len(st) /\ DOMAIN b = 1..Len(b) /\ st # <<>>
      /\ b \in Seq(LoadFrames) /\ Len(st) \in Nat /\ st \in Seq(Frames)
  BY CallsTop DEF CallsFollow, StackOK
<1>2. g \in Frames
  BY DEF Frames
<1>3. Len(tt) = Len(st) + 1 /\ tt \in Seq(Frames)
  BY <1>1, <1>2, AppendProperties
<1>4. DOMAIN tt = DOMAIN st \cup {Len(st) + 1} /\ tt[Len(st) + 1] = g /\ \A i \in DOMAIN st : tt[i] = st[i]
  BY <1>2, StackPush
<1>5. \A j \in DOMAIN b : tt[j] = st[j]
  BY <1>1, <1>4
<1>6. Len(b) + 1 \in DOMAIN st /\ Len(b) \in DOMAIN b
  BY <1>1
<1>7. CallsFollow(p, tt, b)
  <2>1. \A j \in DOMAIN tt : j > Len(b) + 1 => DeclOf(p, tt[j].of).kind = "func"
    BY <1>1, <1>4 DEF CallsFollow
  <2>2. tt[Len(b) + 1] = st[Len(b) + 1] /\ tt[Len(b)] = st[Len(b)]
    BY <1>4, <1>5, <1>6
  <2>3. \A j \in DOMAIN tt : j > Len(b) => tt[j] \in EvalFrames
    BY <1>1, <1>4 DEF CallsFollow
  <2>4. \A j \in DOMAIN b :
       /\ tt[j] \in LoadFrames /\ tt[j].mod = b[j].mod /\ tt[j].imp = b[j].imp
       /\ tt[j].decl = 1 \/ PastImports(p, b[j])
       /\ j = Len(b) \/ ~PastImports(p, b[j])
    BY <1>5 DEF CallsFollow
  <2>5. Len(b) <= Len(tt) /\ b # <<>>
    BY <1>1, <1>3 DEF CallsFollow
  <2> QED
    BY <1>1, <2>1, <2>2, <2>3, <2>4, <2>5 DEF CallsFollow
<1>8. Len(tt) > Len(b)
  BY <1>1, <1>3
<1> QED
  BY <1>5, <1>6, <1>7, <1>8 DEF Through, Onward

LEMMA CallsBack ==
  ASSUME NEW p, NEW ss, NEW st, StackOK(p, ss, st), NEW b, CallsFollow(p, st, b),
         Len(st) > Len(b), NEW tt, tt = SubSeq(st, 1, Len(st) - 1)
  PROVE  Returned(p, st, tt, b)
<1>1. /\ Len(b) \in Nat \ {0} /\ DOMAIN st = 1..Len(st) /\ DOMAIN b = 1..Len(b) /\ st # <<>>
      /\ b \in Seq(LoadFrames) /\ Len(st) \in Nat
  BY CallsTop DEF CallsFollow
<1>2. /\ Len(tt) = Len(st) - 1 /\ DOMAIN tt = 1..(Len(st) - 1)
      /\ \A i \in DOMAIN tt : i \in DOMAIN st /\ tt[i] = st[i]
  BY <1>1, StackPop
<1>3. \A j \in DOMAIN b : tt[j] = st[j]
  BY <1>1, <1>2
<1>4. CallsFollow(p, tt, b)
  <2>1. \A j \in DOMAIN tt : j > Len(b) + 1 => DeclOf(p, tt[j].of).kind = "func"
    BY <1>2 DEF CallsFollow
  <2>2. Len(tt) > Len(b) => tt[Len(b) + 1] = st[Len(b) + 1] /\ tt[Len(b)] = st[Len(b)]
    BY <1>1, <1>2
  <2>3. \A j \in DOMAIN tt : j > Len(b) => tt[j] \in EvalFrames
    BY <1>2 DEF CallsFollow
  <2>4. \A j \in DOMAIN b :
       /\ tt[j] \in LoadFrames /\ tt[j].mod = b[j].mod /\ tt[j].imp = b[j].imp
       /\ tt[j].decl = 1 \/ PastImports(p, b[j])
       /\ j = Len(b) \/ ~PastImports(p, b[j])
    BY <1>3 DEF CallsFollow
  <2>5. Len(b) <= Len(tt) /\ b # <<>>
    BY <1>1, <1>2 DEF CallsFollow
  <2> QED
    BY <1>1, <2>1, <2>2, <2>3, <2>4, <2>5 DEF CallsFollow
<1>5. tt[Len(b)] = st[Len(b)] /\ st[Len(b)] \in LoadFrames
  BY <1>1, <1>3, CallsTop
<1>6. st[Len(b)].decl \in Nat
  BY <1>5 DEF LoadFrames
<1>7. Through(st, b) = st[Len(b)].decl - 1
  BY DEF Through
<1>8. ASSUME Len(st) > Len(b) + 1 PROVE Through(tt, b) = st[Len(b)].decl - 1
  <2>1. Len(tt) > Len(b)
    BY <1>1, <1>2, <1>8
  <2> QED
    BY <1>5, <2>1 DEF Through
<1>9. ASSUME Len(st) = Len(b) + 1 PROVE Through(tt, b) = st[Len(b)].decl
  <2>1. ~(Len(tt) > Len(b))
    BY <1>1, <1>2, <1>9
  <2> QED
    BY <1>5, <2>1 DEF Through
<1> QED
  BY ONLY <1>4, <1>6, <1>7, <1>8, <1>9 DEF Returned

--------------------------------------------------------------------------------
(* What is so at every state of the walk. Modules are on the stack in the   *)
(* order of their registration, each leads by imports to all that were      *)
(* registered after it, and the imports that a module is done with are      *)
(* registered, before it if they are still on the stack. A scope holds      *)
(* values of modules that are off the stack, its own or picked by name; it  *)
(* has its exports once its module is off the stack.                       *)
ImportsIn(p, m) == {p[m].imports[i].mod : i \in DOMAIN p[m].imports} \cap DOMAIN p
Reaching(p, m, ms) ==
  ms \in SUBSET DOMAIN p /\ ImportsIn(p, m) \subseteq ms /\ \A n \in ms : ImportsIn(p, n) \subseteq ms
Ordered(a, b) == \A j, k \in DOMAIN b : j < k => PosOf(a, b[j].mod) < PosOf(a, b[k].mod)
Reaches(p, a, b) ==
  \A j \in DOMAIN b : \A i \in DOMAIN a : \A ms :
    PosOf(a, b[j].mod) < i /\ Reaching(p, b[j].mod, ms) => a[i].mod \in ms
LookedAt(b, m, k) == \A j \in DOMAIN b : b[j].mod = m => k < b[j].imp
Seen(p, a, b) ==
  \A i \in DOMAIN a : \A k \in DOMAIN p[a[i].mod].imports :
    LookedAt(b, a[i].mod, k) =>
      LET n == p[a[i].mod].imports[k].mod
      IN  n \in ModsOf(a) /\ (n \in ModsOn(b) => PosOf(a, n) <= i)
PicksName(p, m, x) ==
  \E i \in DOMAIN p[m].imports : \E j \in DOMAIN p[m].imports[i].names : p[m].imports[i].names[j] = x
Settled(p, b, m, x, d) ==
  /\ d[1] \notin ModsOn(b) /\ DeclOf(p, d).kind \in Values
  /\ d[1] = m \/ PicksName(p, m, x)
AllSettled(p, a, b) ==
  \A i \in DOMAIN a : \A x \in DOMAIN a[i].env : Settled(p, b, a[i].mod, x, a[i].env[x])
DeclaredOff(p, a, b) == \A i \in DOMAIN a : a[i].mod \notin ModsOn(b) => Declares(p, a[i])
Walked(p, a, b) ==
  /\ ScopesOK(p, a) /\ b \in Seq(LoadFrames) /\ ModsOn(b) \subseteq ModsOf(a)
  /\ Ordered(a, b) /\ Reaches(p, a, b) /\ Seen(p, a, b)
  /\ AllSettled(p, a, b) /\ DeclaredOff(p, a, b)

(* Nothing changes in a module that has left the stack.                     *)
Moved(a, b, c, e) ==
  \A i \in DOMAIN a :
    /\ i \in DOMAIN c /\ c[i].mod = a[i].mod
    /\ a[i].mod \notin ModsOn(b) => c[i] = a[i] /\ a[i].mod \notin ModsOn(e)

LEMMA OnStack ==
  ASSUME NEW p, NEW a, NEW b, Walked(p, a, b), b # <<>>, NEW m, m = TopOf(b).mod
  PROVE  /\ Len(b) \in Nat \ {0} /\ DOMAIN b = 1..Len(b) /\ Len(b) \in DOMAIN b
         /\ m \in ModsOf(a) /\ m \in ModsOn(b) /\ m \in STRING /\ m \in DOMAIN p
         /\ TopOf(b) \in LoadFrames /\ TopOf(b).imp \in Nat
         /\ \A j \in DOMAIN b : /\ b[j].mod \in ModsOf(a) /\ PosOf(a, b[j].mod) \in Nat
                                /\ PosOf(a, b[j].mod) <= PosOf(a, m)
                                /\ b[j].mod = m => j = Len(b)
<1>1. /\ ScopesOK(p, a) /\ b \in Seq(LoadFrames) /\ ModsOn(b) \subseteq ModsOf(a) /\ Ordered(a, b)
  BY DEF Walked
<1>2. /\ Len(b) \in Nat \ {0} /\ DOMAIN b = 1..Len(b) /\ Len(b) \in DOMAIN b
  BY <1>1, LenProperties, EmptySeq
<1>3. TopOf(b) \in LoadFrames /\ m \in ModsOn(b)
  BY <1>1, <1>2, ElementOfSeq DEF TopOf, ModsOn
<1>4. m \in ModsOf(a) /\ m \in STRING /\ m \in DOMAIN p
  BY <1>1, <1>3, ModName
<1>5. a \in Seq(Scopes)
  BY <1>1 DEF ScopesOK
<1>6. \A i \in DOMAIN a : i \in Nat
  BY <1>5, LenProperties
<1>7. ASSUME NEW j \in DOMAIN b
      PROVE  b[j].mod \in ModsOf(a) /\ PosOf(a, b[j].mod) \in Nat
  <2>1. b[j].mod \in ModsOf(a)
    BY <1>1 DEF ModsOn
  <2> QED
    BY <1>1, <1>6, <2>1, PosType
<1>8. ASSUME NEW j \in DOMAIN b, j # Len(b)
      PROVE  PosOf(a, b[j].mod) < PosOf(a, m)
  <2>1. j < Len(b)
    BY <1>2, <1>8
  <2> QED
    BY <1>1, <1>2, <2>1 DEF Ordered, TopOf
<1>9. ASSUME NEW j \in DOMAIN b
      PROVE  PosOf(a, b[j].mod) <= PosOf(a, m) /\ (b[j].mod = m => j = Len(b))
  <2>1. PosOf(a, b[j].mod) \in Nat /\ PosOf(a, m) \in Nat
    BY <1>2, <1>7 DEF TopOf
  <2>2. CASE j = Len(b)
    BY <2>1, <2>2 DEF TopOf
  <2>3. CASE j # Len(b)
    <3>1. PosOf(a, b[j].mod) < PosOf(a, m)
      BY <1>8, <2>3
    <3>2. b[j].mod # m
      BY <2>1, <3>1
    <3> QED
      BY <2>1, <3>1, <3>2
  <2> QED
    BY <2>2, <2>3
<1>10. TopOf(b).imp \in Nat
  BY <1>3 DEF LoadFrames
<1> QED
  BY <1>2, <1>3, <1>4, <1>7, <1>9, <1>10

LEMMA WalkedFirst ==
  ASSUME NEW p \in Projects, NEW m \in DOMAIN p, m \in STRING,
         NEW a, a = <<NewScope(m)>>, NEW b, b = <<Loading(m)>>
  PROVE  Walked(p, a, b)
<1>1. ScopesOK(p, a) /\ ModsOf(a) = {m}
  BY FirstScope
<1>2. NewScope(m).mod = m /\ DOMAIN NewScope(m).env = {}
  BY NewScopeType
<1>3. PICK s : s = NewScope(m)
  OBVIOUS
<1>4. DOMAIN a = {1} /\ a[1].mod = m /\ DOMAIN a[1].env = {}
  <2>1. a = <<s>>
    BY <1>3
  <2> QED
    BY ONLY <1>2, <1>3, <2>1
<1>5. PICK f : f = Loading(m)
  OBVIOUS
<1>6. f \in LoadFrames /\ f.mod = m /\ f.imp = 1
  BY <1>5 DEF Loading, LoadFrames
<1>7. b \in Seq(LoadFrames) /\ DOMAIN b = {1} /\ b[1].mod = m /\ b[1].imp = 1
  <2>1. b = <<f>>
    BY <1>5
  <2> QED
    BY ONLY <1>6, <2>1
<1>8. ModsOn(b) = {m}
  BY <1>7 DEF ModsOn
<1>9. Ordered(a, b)
  BY <1>7 DEF Ordered
<1>10. Reaches(p, a, b)
  <2>1. PosOf(a, m) = 1
    BY <1>1, <1>4, PosType
  <2> QED
    BY <1>4, <1>7, <2>1 DEF Reaches
<1>11. Seen(p, a, b)
  <2>1. ASSUME NEW k \in DOMAIN p[m].imports PROVE ~LookedAt(b, m, k)
    <3>1. k \in Nat \ {0}
      BY FileType, LenProperties
    <3> QED
      BY <1>7, <3>1 DEF LookedAt
  <2> QED
    BY <1>4, <2>1 DEF Seen
<1>12. AllSettled(p, a, b) /\ DeclaredOff(p, a, b)
  BY <1>4, <1>8 DEF AllSettled, DeclaredOff
<1> QED
  BY <1>1, <1>7, <1>8, <1>9, <1>10, <1>11, <1>12 DEF Walked

(* A scope more, and where its modules are found.                          *)
Grown(p, a, c, n, N) ==
  /\ ScopesOK(p, c) /\ ModsOf(a) \subseteq ModsOf(c) /\ n \in ModsOf(c)
  /\ DOMAIN c = DOMAIN a \cup {N} /\ c[N].mod = n /\ DOMAIN c[N].env = {} /\ N \in Nat
  /\ \A i \in DOMAIN a : c[i] = a[i] /\ i < N /\ i \in Nat
  /\ \A m \in ModsOf(a) : PosOf(c, m) = PosOf(a, m) /\ PosOf(a, m) < N
  /\ PosOf(c, n) = N
LEMMA ScopesGrow ==
  ASSUME NEW p, NEW a, ScopesOK(p, a), NEW n \in DOMAIN p, n \in STRING, n \notin ModsOf(a),
         NEW c, c = Append(a, NewScope(n)), NEW N, N = Len(a) + 1
  PROVE  Grown(p, a, c, n, N)
<1>1. ScopesOK(p, c)
  BY ScopesAppend
<1>2. ModsOf(a) \subseteq ModsOf(c) /\ n \in ModsOf(c)
  BY ScopesAppend
<1>3. DOMAIN c = DOMAIN a \cup {N}
  BY ScopesAppend
<1>4. c[N] = NewScope(n)
  BY ScopesAppend
<1>5. \A i \in DOMAIN a : c[i] = a[i]
  BY ScopesAppend
<1>6. DOMAIN a = 1..Len(a) /\ Len(a) \in Nat
  BY LenProperties DEF ScopesOK
<1>7. c[N].mod = n /\ DOMAIN c[N].env = {}
  BY <1>4, NewScopeType
<1>8. N \in Nat /\ \A i \in DOMAIN a : i < N /\ i \in Nat
  BY <1>6
<1>9. PosOf(c, n) = N
  BY <1>1, <1>2, <1>3, <1>7, PosType
<1>10. ASSUME NEW m \in ModsOf(a) PROVE PosOf(c, m) = PosOf(a, m) /\ PosOf(a, m) < N
  <2>1. PosOf(a, m) \in DOMAIN a /\ a[PosOf(a, m)].mod = m
    BY PosType
  <2>2. PosOf(a, m) \in DOMAIN c /\ c[PosOf(a, m)].mod = m
    BY <1>3, <1>5, <2>1
  <2>3. m \in ModsOf(c)
    BY <1>2
  <2> QED
    BY <1>1, <1>8, <2>1, <2>2, <2>3, PosType
<1> QED
  BY <1>1, <1>2, <1>3, <1>5, <1>7, <1>8, <1>9, <1>10 DEF Grown

LEMMA WalkedEnter ==
  ASSUME NEW p \in Projects, NEW a, NEW b, Walked(p, a, b), b # <<>>, AtImport(p, b),
         NEW n, n = ImportOf(p, b).mod, n \notin ModsOf(a), n \in DOMAIN p, n \in STRING,
         NEW c, c = Append(a, NewScope(n)), NEW e, e = Append(b, Loading(n))
  PROVE  Walked(p, c, e) /\ Moved(a, b, c, e)
<1>1. /\ ScopesOK(p, a) /\ b \in Seq(LoadFrames) /\ ModsOn(b) \subseteq ModsOf(a) /\ Ordered(a, b)
      /\ Reaches(p, a, b) /\ Seen(p, a, b) /\ AllSettled(p, a, b) /\ DeclaredOff(p, a, b)
  BY DEF Walked
<1>2. PICK m : m = TopOf(b).mod
  OBVIOUS
<1>3. /\ Len(b) \in Nat \ {0} /\ DOMAIN b = 1..Len(b) /\ Len(b) \in DOMAIN b
      /\ m \in ModsOf(a) /\ m \in STRING /\ m \in DOMAIN p /\ TopOf(b).imp \in Nat
      /\ \A j \in DOMAIN b : /\ b[j].mod \in ModsOf(a) /\ PosOf(a, b[j].mod) \in Nat
                             /\ PosOf(a, b[j].mod) <= PosOf(a, m)
  BY <1>2, OnStack
<1>5. PICK N : N = Len(a) + 1
  OBVIOUS
<1>4. Grown(p, a, c, n, N)
  BY <1>1, <1>5, ScopesGrow
<1>6. /\ \A k \in ModsOf(a) : PosOf(c, k) = PosOf(a, k) /\ PosOf(a, k) < N
      /\ PosOf(c, n) = N /\ N \in Nat
  BY <1>4 DEF Grown
<1>7. /\ DOMAIN c = DOMAIN a \cup {N} /\ c[N].mod = n /\ DOMAIN c[N].env = {}
      /\ ScopesOK(p, c) /\ ModsOf(a) \subseteq ModsOf(c) /\ n \in ModsOf(c)
  BY <1>4 DEF Grown
<1>8. \A i \in DOMAIN a : c[i] = a[i] /\ i \in Nat /\ i < N
  BY <1>4 DEF Grown
<1>21. \A q \in ModsOf(a) : PosOf(a, q) \in DOMAIN a /\ a[PosOf(a, q)].mod = q
  BY <1>1, PosType
<1>9. PICK f : f = Loading(n)
  OBVIOUS
<1>10. f \in LoadFrames /\ f.mod = n /\ f.imp = 1
  BY <1>9 DEF Loading, LoadFrames
<1>11. PICK L : L = Len(b) + 1
  OBVIOUS
<1>12. /\ e \in Seq(LoadFrames) /\ DOMAIN e = DOMAIN b \cup {L} /\ e[L] = f
       /\ \A j \in DOMAIN b : e[j] = b[j]
       /\ L \in Nat /\ \A j \in DOMAIN b : j < L /\ j # L /\ j \in Nat
  <2>1. /\ e \in Seq(LoadFrames) /\ Len(e) = L /\ e[L] = f
        /\ \A j \in 1..Len(b) : e[j] = b[j]
    BY <1>1, <1>3, <1>9, <1>10, <1>11, AppendProperties
  <2>2. DOMAIN e = 1..L
    BY <2>1, LenProperties
  <2> QED
    BY <1>3, <1>11, <2>1, <2>2
<1>13. ModsOn(e) = ModsOn(b) \cup {n}
  BY <1>10, <1>12 DEF ModsOn
<1>14. ModsOn(e) \subseteq ModsOf(c)
  BY <1>1, <1>7, <1>13
<1>15. \A j \in DOMAIN b : e[j].mod = b[j].mod /\ PosOf(c, b[j].mod) = PosOf(a, b[j].mod) /\ PosOf(a, b[j].mod) < N
  BY ONLY <1>3, <1>6, <1>12
<1>16. Ordered(c, e)
  <2> SUFFICES ASSUME NEW j \in DOMAIN e, NEW k \in DOMAIN e, j < k
               PROVE  PosOf(c, e[j].mod) < PosOf(c, e[k].mod)
    BY DEF Ordered
  <2>1. j \in DOMAIN b
    BY <1>12
  <2>2. CASE k = L
    BY <1>6, <1>10, <1>12, <1>15, <2>1, <2>2
  <2>3. CASE k \in DOMAIN b
    BY <1>1, <1>15, <2>1, <2>3 DEF Ordered
  <2> QED
    BY <1>12, <2>2, <2>3
<1>17. Reaches(p, c, e)
  <2> SUFFICES ASSUME NEW j \in DOMAIN e, NEW i \in DOMAIN c, NEW ms,
                      PosOf(c, e[j].mod) < i, Reaching(p, e[j].mod, ms)
               PROVE  c[i].mod \in ms
    BY DEF Reaches
  <2>1. j \in DOMAIN b
    <3> SUFFICES ASSUME j = L PROVE FALSE
      BY <1>12
    <3>1. N < i /\ N \in Nat
      BY <1>6, <1>10, <1>12
    <3> QED
      BY <1>7, <1>8, <3>1
  <2>2. PosOf(a, b[j].mod) < i /\ Reaching(p, b[j].mod, ms)
    BY <1>12, <1>15, <2>1
  <2>3. CASE i \in DOMAIN a
    BY <1>1, <1>8, <2>1, <2>2, <2>3 DEF Reaches
  <2>4. CASE i = N
    <3>1. n \in ImportsIn(p, m)
      <4>1. TopOf(b).imp \in DOMAIN p[m].imports
        <5>1. TopOf(b).imp <= Len(p[m].imports)
          <6>1. Len(p[m].imports) \in Nat
            BY <1>3, FileType, LenProperties
          <6> QED
            BY <1>2, <1>3, <6>1 DEF AtImport, PastImports
        <5>2. TopOf(b).imp \in Nat \ {0}
          BY <1>2, OnStack DEF LoadFrames
        <5> QED
          BY <1>3, <5>1, <5>2, FileType, LenProperties
      <4> QED
        BY <1>2, <4>1 DEF ImportsIn, ImportOf
    <3>2. CASE b[j].mod = m
      BY <1>7, <2>2, <2>4, <3>1, <3>2 DEF Reaching
    <3>3. CASE b[j].mod # m
      <4>1. PosOf(a, m) \in DOMAIN a /\ a[PosOf(a, m)].mod = m
        BY <1>3, <1>21
      <4>2. PosOf(a, b[j].mod) \in DOMAIN a /\ a[PosOf(a, b[j].mod)].mod = b[j].mod
        BY <1>3, <1>21, <2>1
      <4>3. PosOf(a, b[j].mod) # PosOf(a, m)
        BY <3>3, <4>1, <4>2
      <4>4. PosOf(a, b[j].mod) < PosOf(a, m)
        <5>1. PosOf(a, m) \in Nat
          BY <1>2, <1>3 DEF TopOf
        <5>2. PosOf(a, b[j].mod) \in Nat /\ PosOf(a, b[j].mod) <= PosOf(a, m)
          BY <1>3, <2>1
        <5> QED
          BY ONLY <4>3, <5>1, <5>2
      <4>5. m \in ms
        BY <1>1, <2>1, <2>2, <4>1, <4>4 DEF Reaches
      <4> QED
        BY <1>7, <2>2, <2>4, <3>1, <4>5 DEF Reaching
    <3> QED
      BY <3>2, <3>3
  <2> QED
    BY <1>7, <2>3, <2>4
<1>18. Seen(p, c, e)
  <2> SUFFICES ASSUME NEW i \in DOMAIN c, NEW k \in DOMAIN p[c[i].mod].imports, LookedAt(e, c[i].mod, k),
                      NEW q, q = p[c[i].mod].imports[k].mod
               PROVE  q \in ModsOf(c) /\ (q \in ModsOn(e) => PosOf(c, q) <= i)
    BY DEF Seen
  <2>1. i \in DOMAIN a
    <3> SUFFICES ASSUME i = N PROVE FALSE
      BY <1>7
    <3>1. k < 1
      BY <1>7, <1>10, <1>12 DEF LookedAt
    <3>2. k \in DOMAIN p[n].imports
      BY <1>7
    <3> QED
      BY <3>1, <3>2, FileType, LenProperties
  <2>2. LookedAt(b, a[i].mod, k)
    BY <1>8, <1>12, <2>1 DEF LookedAt
  <2>3. q \in ModsOf(a) /\ (q \in ModsOn(b) => PosOf(a, q) <= i)
    BY <1>1, <1>8, <2>1, <2>2 DEF Seen
  <2>4. q # n
    BY <2>3
  <2> QED
    BY <1>6, <1>7, <1>13, <2>3, <2>4
<1>19. AllSettled(p, c, e)
  <2> SUFFICES ASSUME NEW i \in DOMAIN c, NEW x \in DOMAIN c[i].env
               PROVE  Settled(p, e, c[i].mod, x, c[i].env[x])
    BY DEF AllSettled
  <2>1. i \in DOMAIN a
    BY <1>7
  <2>2. Settled(p, b, a[i].mod, x, a[i].env[x])
    BY <1>1, <1>8, <2>1 DEF AllSettled
  <2>3. a[i].env[x][1] \in ModsOf(a)
    BY <1>1, <1>8, <2>1 DEF ScopesOK, GoodEnv, StandsFor
  <2> QED
    BY <1>8, <1>13, <2>1, <2>2, <2>3 DEF Settled
<1>20. DeclaredOff(p, c, e)
  BY <1>1, <1>7, <1>8, <1>13 DEF DeclaredOff
<1>22. Walked(p, c, e)
  BY <1>7, <1>12, <1>14, <1>16, <1>17, <1>18, <1>19, <1>20 DEF Walked
<1>23. Moved(a, b, c, e)
  <2>1. \A i \in DOMAIN a : a[i].mod # n
    BY DEF ModsOf
  <2> QED
    BY <1>7, <1>8, <1>13, <2>1 DEF Moved
<1> QED
  BY <1>22, <1>23

LEMMA WalkedPick ==
  ASSUME NEW p \in Projects, NEW a, NEW b, Walked(p, a, b), b # <<>>, AtImport(p, b),
         NEW n, n = ImportOf(p, b).mod, n \in ModsOf(a),
         NEW xs, xs = WantedOf(p, b), \A x \in xs : x \in DOMAIN a[PosOf(a, n)].env,
         NEW m, m = TopOf(b).mod,
         NEW env, env = PickedOf(a, n, xs),
         NEW c, c = AddedAt(a, PosOf(a, m), env, {}),
         NEW g, g = [TopOf(b) EXCEPT !.imp = @ + 1], NEW e, e = Replaced(b, g)
  PROVE  Walked(p, c, e) /\ Moved(a, b, c, e)
<1>1. /\ ScopesOK(p, a) /\ b \in Seq(LoadFrames) /\ ModsOn(b) \subseteq ModsOf(a) /\ Ordered(a, b)
      /\ Reaches(p, a, b) /\ Seen(p, a, b) /\ AllSettled(p, a, b) /\ DeclaredOff(p, a, b)
  BY DEF Walked
<1>2. /\ Len(b) \in Nat \ {0} /\ DOMAIN b = 1..Len(b) /\ Len(b) \in DOMAIN b
      /\ m \in ModsOf(a) /\ m \in ModsOn(b) /\ m \in STRING /\ m \in DOMAIN p
      /\ TopOf(b) \in LoadFrames /\ TopOf(b).imp \in Nat
      /\ \A j \in DOMAIN b : /\ b[j].mod \in ModsOf(a) /\ PosOf(a, b[j].mod) \in Nat
                             /\ PosOf(a, b[j].mod) <= PosOf(a, m)
                             /\ b[j].mod = m => j = Len(b)
  BY OnStack
<1>3. PICK k : k = PosOf(a, m)
  OBVIOUS
<1>4. PICK h : h = PosOf(a, n)
  OBVIOUS
<1>5. /\ k \in DOMAIN a /\ a[k].mod = m /\ h \in DOMAIN a /\ a[h].mod = n
      /\ \A i \in DOMAIN a : (a[i].mod = m => i = k) /\ (a[i].mod = n => i = h)
  BY <1>1, <1>2, <1>3, <1>4, PosType
<1>6. TopOf(b).imp \in DOMAIN p[m].imports
  <2>1. Len(p[m].imports) \in Nat /\ DOMAIN p[m].imports = 1..Len(p[m].imports)
    BY <1>2, FileType, LenProperties
  <2>2. TopOf(b).imp <= Len(p[m].imports)
    BY <1>2, <2>1 DEF AtImport, PastImports
  <2>3. TopOf(b).imp \in Nat \ {0}
    BY <1>2 DEF LoadFrames
  <2> QED
    BY <2>1, <2>2, <2>3
<1>7. \A x \in xs : PicksName(p, m, x)
  BY <1>6 DEF WantedOf, ImportOf, PicksName
<1>8. GoodEnv(p, a, env) /\ DOMAIN env = xs /\ \A x \in xs : env[x] = a[h].env[x]
  <2>1. GoodEnv(p, a, a[h].env)
    BY <1>1, <1>5 DEF ScopesOK
  <2>2. PICK ys \in SUBSET STRING : a[h].env \in [ys -> Refs]
    BY <2>1 DEF GoodEnv, Envs
  <2>3. xs \subseteq ys
    BY <1>4, <2>2
  <2>4. env = [x \in xs |-> a[h].env[x]]
    BY <1>4 DEF PickedOf
  <2>5. env \in [xs -> Refs] /\ xs \in SUBSET STRING
    BY <2>2, <2>3, <2>4
  <2>6. env \in Envs
    BY <2>5 DEF Envs
  <2>7. \A x \in xs : StandsFor(p, a, x, a[h].env[x])
    BY <1>4, <2>1 DEF GoodEnv
  <2> QED
    BY <2>4, <2>6, <2>7 DEF GoodEnv
<1>9. c = AddedAt(a, k, env, {})
  BY <1>3
<1>10. ScopesOK(p, c)
  BY <1>1, <1>5, <1>8, <1>9, ScopesAdd
<1>11. /\ DOMAIN c = DOMAIN a /\ \A i \in DOMAIN a : c[i].mod = a[i].mod
       /\ \A i \in DOMAIN a : i # k => c[i] = a[i]
       /\ c[k].env = With(env, a[k].env)
       /\ ModsOf(c) = ModsOf(a)
  <2>1. a \in Seq(Scopes) /\ env \in Envs
    BY <1>1, <1>8 DEF ScopesOK, GoodEnv
  <2> QED
    BY ONLY <1>5, <1>9, <2>1, AddedScope
<1>12. \A q \in ModsOf(a) : PosOf(c, q) = PosOf(a, q)
  BY <1>1, <1>10, <1>11, SamePos
<1>13. g \in LoadFrames /\ g.mod = m /\ g.imp = TopOf(b).imp + 1
  BY <1>2 DEF LoadFrames
<1>14. e \in Seq(LoadFrames) /\ DOMAIN e = DOMAIN b
  BY <1>1, <1>2, <1>13, ExceptSeq, LenProperties DEF Replaced
<1>15. e[Len(b)] = g /\ \A j \in DOMAIN b : j # Len(b) => e[j] = b[j]
  BY <1>2 DEF Replaced
<1>16. \A j \in DOMAIN b : e[j].mod = b[j].mod
  BY <1>13, <1>15 DEF TopOf
<1>17. ModsOn(e) = ModsOn(b)
  BY <1>14, <1>16 DEF ModsOn
<1>23. \A j \in DOMAIN b : e[j].mod = b[j].mod /\ PosOf(c, e[j].mod) = PosOf(a, b[j].mod)
  BY ONLY <1>2, <1>12, <1>16
<1>18. Ordered(c, e)
  BY ONLY <1>1, <1>14, <1>23 DEF Ordered
<1>19. Reaches(p, c, e)
  BY ONLY <1>1, <1>11, <1>14, <1>23 DEF Reaches
<1>20. Seen(p, c, e)
  <2> SUFFICES ASSUME NEW i \in DOMAIN a, NEW l \in DOMAIN p[a[i].mod].imports, LookedAt(e, a[i].mod, l),
                      NEW q, q = p[a[i].mod].imports[l].mod
               PROVE  q \in ModsOf(a) /\ (q \in ModsOn(b) => PosOf(a, q) <= i)
    BY <1>11, <1>12, <1>17 DEF Seen
  <2>1. CASE LookedAt(b, a[i].mod, l)
    BY <1>1, <2>1 DEF Seen
  <2>2. CASE ~LookedAt(b, a[i].mod, l)
    <3>1. a[i].mod = m /\ i = k
      BY <1>5, <1>13, <1>14, <1>15, <1>16, <2>2 DEF LookedAt, TopOf
    <3>2. l = TopOf(b).imp
      <4>1. l < TopOf(b).imp + 1
        <5>1. e[Len(b)].mod = a[i].mod /\ Len(b) \in DOMAIN e /\ e[Len(b)].imp = TopOf(b).imp + 1
          BY <1>2, <1>13, <1>14, <1>15, <3>1
        <5>2. l < e[Len(b)].imp
          BY <5>1, Zenon DEF LookedAt
        <5> QED
          BY <5>1, <5>2
      <4>2. ~(l < TopOf(b).imp)
        BY <1>2, <2>2, <3>1 DEF LookedAt, TopOf
      <4>3. l \in Nat
        BY <1>2, <3>1, FileType, LenProperties
      <4> QED
        BY <1>2, <4>1, <4>2, <4>3
    <3>3. q = n
      BY <3>1, <3>2 DEF ImportOf
    <3>4. n \in ModsOn(b) => PosOf(a, n) <= PosOf(a, m)
      BY <1>2 DEF ModsOn
    <3> QED
      BY <1>3, <3>1, <3>3, <3>4
  <2> QED
    BY <2>1, <2>2
<1>21. AllSettled(p, c, e)
  <2> SUFFICES ASSUME NEW i \in DOMAIN a, NEW x \in DOMAIN c[i].env
               PROVE  Settled(p, b, a[i].mod, x, c[i].env[x])
    BY <1>11, <1>17 DEF AllSettled, Settled
  <2>1. CASE i # k
    BY <1>1, <1>11, <2>1 DEF AllSettled
  <2>2. CASE i = k
    <3>1. env \in Envs /\ a[k].env \in Envs
      BY <1>1, <1>5, <1>8 DEF ScopesOK, GoodEnv
    <3>5. PICK old : old = a[k].env
      OBVIOUS
    <3>6. /\ DOMAIN With(env, old) = DOMAIN env \cup DOMAIN old
          /\ \A y \in DOMAIN env : With(env, old)[y] = env[y]
          /\ \A y \in DOMAIN old : y \notin DOMAIN env => With(env, old)[y] = old[y]
      <4>1. old \in Envs
        BY <3>1, <3>5
      <4> QED
        BY ONLY <3>1, <4>1, WithType
    <3>7. c[k].env = With(env, old)
      BY <1>11, <3>5
    <3>2. x \in DOMAIN env \cup DOMAIN old
      BY <2>2, <3>6, <3>7
    <3>3. CASE x \in DOMAIN env
      <4>1. c[k].env[x] = a[h].env[x] /\ x \in DOMAIN a[h].env
        BY <1>4, <1>8, <3>3, <3>6, <3>7
      <4>2. Settled(p, b, n, x, a[h].env[x])
        BY <1>1, <1>5, <4>1 DEF AllSettled
      <4>3. PicksName(p, m, x)
        BY <1>7, <1>8, <3>3
      <4> QED
        BY <1>5, <2>2, <4>1, <4>2, <4>3 DEF Settled
    <3>4. CASE x \notin DOMAIN env
      <4>1. c[k].env[x] = a[k].env[x] /\ x \in DOMAIN a[k].env
        BY <3>2, <3>4, <3>5, <3>6, <3>7
      <4> QED
        BY <1>1, <1>5, <2>2, <4>1 DEF AllSettled
    <3> QED
      BY <3>3, <3>4
  <2> QED
    BY <2>1, <2>2
<1>22. DeclaredOff(p, c, e)
  <2> SUFFICES ASSUME NEW i \in DOMAIN a, a[i].mod \notin ModsOn(b) PROVE Declares(p, c[i])
    BY <1>11, <1>17 DEF DeclaredOff
  <2>1. i # k
    BY <1>2, <1>5
  <2> QED
    BY <1>1, <1>11, <2>1 DEF DeclaredOff
<1>24. Walked(p, c, e)
  BY <1>1, <1>10, <1>11, <1>14, <1>17, <1>18, <1>19, <1>20, <1>21, <1>22 DEF Walked
<1>25. Moved(a, b, c, e)
  BY <1>2, <1>5, <1>11, <1>17 DEF Moved
<1> QED
  BY <1>24, <1>25

--------------------------------------------------------------------------------
(* The scope of m has all that m declares, and m leaves the stack.         *)
Left(a, b, c, e, m) ==
  /\ DOMAIN c = DOMAIN a /\ \A i \in DOMAIN a : c[i].mod = a[i].mod
  /\ \A i \in DOMAIN a : a[i].mod # m => c[i] = a[i]
  /\ ModsOn(b) = ModsOn(e) \cup {m} /\ m \notin ModsOn(e)
LEMMA WalkedDeclare ==
  ASSUME NEW p \in Projects, NEW a, NEW b, Walked(p, a, b), b # <<>>, ~AtImport(p, b),
         NEW m, m = TopOf(b).mod,
         NEW env, env = EnvFor(p, ValuesOf(p, m)), NEW ex, ex = PublicsOf(p, m),
         NEW c, c = AddedAt(a, PosOf(a, m), env, ex),
         NEW e, e = SubSeq(b, 1, Len(b) - 1)
  PROVE  Walked(p, c, e) /\ Left(a, b, c, e, m)
<1>1. /\ ScopesOK(p, a) /\ b \in Seq(LoadFrames) /\ ModsOn(b) \subseteq ModsOf(a) /\ Ordered(a, b)
      /\ Reaches(p, a, b) /\ Seen(p, a, b) /\ AllSettled(p, a, b) /\ DeclaredOff(p, a, b)
  BY DEF Walked
<1>2. /\ Len(b) \in Nat \ {0} /\ DOMAIN b = 1..Len(b) /\ Len(b) \in DOMAIN b
      /\ m \in ModsOf(a) /\ m \in ModsOn(b) /\ m \in STRING /\ m \in DOMAIN p
      /\ TopOf(b) \in LoadFrames /\ TopOf(b).imp \in Nat
      /\ \A j \in DOMAIN b : /\ b[j].mod \in ModsOf(a) /\ b[j].mod = m => j = Len(b)
  BY OnStack
<1>3. PICK k : k = PosOf(a, m)
  OBVIOUS
<1>4. /\ k \in DOMAIN a /\ a[k].mod = m
      /\ \A i \in DOMAIN a : a[i].mod = m => i = k
  BY <1>1, <1>2, <1>3, PosType
<1>5. ValuesOf(p, m) \subseteq DeclsOf(p, m)
  BY DEF ValuesOf
<1>6. /\ GoodEnv(p, a, env)
      /\ \A x \in DOMAIN env : env[x] \in ValuesOf(p, m) /\ env[x][1] = m
  <2>1. ValuesOf(p, m) \in SUBSET DeclsOf(p, m)
    BY <1>5
  <2>2. GoodEnv(p, a, env)
    BY <1>1, <1>2, <2>1, EnvForType
  <2>3. ASSUME NEW x \in DOMAIN env PROVE env[x] \in ValuesOf(p, m)
    <3>1. \E d \in ValuesOf(p, m) : DeclOf(p, d).name = x
      BY DEF EnvFor
    <3>2. env[x] = CHOOSE d \in ValuesOf(p, m) : DeclOf(p, d).name = x
      BY DEF EnvFor
    <3> QED
      BY <3>1, <3>2
  <2>4. \A d \in DeclsOf(p, m) : d[1] = m
    BY DEF DeclsOf
  <2> QED
    BY <2>1, <2>2, <2>3, <2>4
<1>7. ex \in SUBSET STRING /\ ex \subseteq PublicsOf(p, a[k].mod)
  <2>1. \A d \in DeclsOf(p, m) : DeclOf(p, d).name \in STRING
    BY <1>2, DeclType DEF Declarations
  <2> QED
    BY <1>4, <2>1 DEF PublicsOf
<1>8. c = AddedAt(a, k, env, ex)
  BY <1>3
<1>9. ScopesOK(p, c)
  BY <1>1, <1>4, <1>6, <1>7, <1>8, ScopesAdd
<1>10. /\ DOMAIN c = DOMAIN a /\ \A i \in DOMAIN a : c[i].mod = a[i].mod
       /\ \A i \in DOMAIN a : i # k => c[i] = a[i]
       /\ c[k].env = With(env, a[k].env) /\ c[k].exports = a[k].exports \cup ex
       /\ ModsOf(c) = ModsOf(a)
  <2>1. a \in Seq(Scopes) /\ env \in Envs
    BY <1>1, <1>6 DEF ScopesOK, GoodEnv
  <2> QED
    BY ONLY <1>4, <1>7, <1>8, <2>1, AddedScope
<1>11. \A q \in ModsOf(a) : PosOf(c, q) = PosOf(a, q)
  BY <1>1, <1>9, <1>10, SamePos
<1>12. /\ e \in Seq(LoadFrames) /\ DOMAIN e = 1..(Len(b) - 1)
       /\ \A j \in DOMAIN e : j \in DOMAIN b /\ j # Len(b) /\ e[j] = b[j]
  <2>1. /\ e \in Seq(LoadFrames) /\ Len(e) = Len(b) - 1
        /\ \A j \in 1..(Len(b) - 1) : e[j] = b[j]
    BY <1>1, <1>2, SubSeqProperties
  <2>2. DOMAIN e = 1..(Len(b) - 1)
    BY <2>1, LenProperties
  <2> QED
    BY <1>2, <2>1, <2>2
<1>13. DOMAIN b = DOMAIN e \cup {Len(b)}
  BY <1>2, <1>12
<1>14. ModsOn(b) = ModsOn(e) \cup {m} /\ m \notin ModsOn(e)
  BY <1>2, <1>12, <1>13 DEF ModsOn, TopOf
<1>15. \A j \in DOMAIN e : j \in DOMAIN b /\ e[j] = b[j] /\ PosOf(c, e[j].mod) = PosOf(a, b[j].mod)
  <2> SUFFICES ASSUME NEW j \in DOMAIN e
               PROVE  j \in DOMAIN b /\ e[j] = b[j] /\ PosOf(c, e[j].mod) = PosOf(a, b[j].mod)
    OBVIOUS
  <2>1. j \in DOMAIN b /\ e[j] = b[j]
    BY <1>12
  <2>2. b[j].mod \in ModsOf(a)
    BY <1>1, <2>1 DEF ModsOn
  <2> QED
    BY <1>11, <2>1, <2>2
<1>16. Ordered(c, e)
  BY ONLY <1>1, <1>15 DEF Ordered
<1>17. Reaches(p, c, e)
  BY ONLY <1>1, <1>10, <1>15 DEF Reaches
<1>18. Seen(p, c, e)
  <2> SUFFICES ASSUME NEW i \in DOMAIN a, NEW l \in DOMAIN p[a[i].mod].imports, LookedAt(e, a[i].mod, l),
                      NEW q, q = p[a[i].mod].imports[l].mod
               PROVE  q \in ModsOf(a) /\ (q \in ModsOn(e) => PosOf(a, q) <= i)
    <3> SUFFICES ASSUME NEW i \in DOMAIN c, NEW l \in DOMAIN p[c[i].mod].imports, LookedAt(e, c[i].mod, l),
                        NEW q, q = p[c[i].mod].imports[l].mod
                 PROVE  q \in ModsOf(c) /\ (q \in ModsOn(e) => PosOf(c, q) <= i)
      BY DEF Seen
    <3>1. i \in DOMAIN a /\ c[i].mod = a[i].mod
      BY <1>10
    <3>2. q \in ModsOf(a) /\ (q \in ModsOn(e) => PosOf(a, q) <= i)
      BY <3>1
    <3> QED
      BY <1>10, <1>11, <3>2
  <2>1. LookedAt(b, a[i].mod, l)
    <3> SUFFICES ASSUME NEW j \in DOMAIN b, b[j].mod = a[i].mod PROVE l < b[j].imp
      BY DEF LookedAt
    <3>1. CASE j \in DOMAIN e
      BY <1>15, <3>1 DEF LookedAt
    <3>2. CASE j = Len(b)
      <4>1. b[j] = TopOf(b) /\ a[i].mod = m
        BY <3>2 DEF TopOf
      <4>2. /\ DOMAIN p[m].imports = 1..Len(p[m].imports) /\ Len(p[m].imports) \in Nat
            /\ l \in DOMAIN p[m].imports
        BY <1>2, <4>1, FileType, LenProperties
      <4>3. TopOf(b).imp > Len(p[m].imports)
        BY DEF AtImport, PastImports
      <4> QED
        BY <1>2, <4>1, <4>2, <4>3
    <3> QED
      BY <1>13, <3>1, <3>2
  <2> QED
    BY <1>1, <1>14, <2>1 DEF Seen
<1>19. AllSettled(p, c, e)
  <2> SUFFICES ASSUME NEW i \in DOMAIN a, NEW x \in DOMAIN c[i].env
               PROVE  Settled(p, e, a[i].mod, x, c[i].env[x])
    BY <1>10 DEF AllSettled
  <2>1. \A d : Settled(p, b, a[i].mod, x, d) => Settled(p, e, a[i].mod, x, d)
    BY <1>14 DEF Settled
  <2>2. CASE i # k
    BY <1>1, <1>10, <2>1, <2>2 DEF AllSettled
  <2>3. CASE i = k
    <3>1. PICK old : old = a[k].env
      OBVIOUS
    <3>2. env \in Envs /\ old \in Envs
      BY <1>1, <1>4, <1>6, <3>1 DEF ScopesOK, GoodEnv
    <3>3. /\ DOMAIN With(env, old) = DOMAIN env \cup DOMAIN old
          /\ \A y \in DOMAIN env : With(env, old)[y] = env[y]
          /\ \A y \in DOMAIN old : y \notin DOMAIN env => With(env, old)[y] = old[y]
      BY ONLY <3>2, WithType
    <3>4. c[k].env = With(env, old)
      BY <1>10, <3>1
    <3>5. x \in DOMAIN env \cup DOMAIN old
      BY <2>3, <3>3, <3>4
    <3>6. CASE x \in DOMAIN env
      <4>1. c[k].env[x] = env[x] /\ env[x] \in ValuesOf(p, m) /\ env[x][1] = m
        BY <1>6, <3>3, <3>4, <3>6
      <4> QED
        BY <1>4, <1>14, <2>3, <4>1 DEF Settled, ValuesOf
    <3>7. CASE x \notin DOMAIN env
      <4>1. c[k].env[x] = a[k].env[x] /\ x \in DOMAIN a[k].env
        BY <3>1, <3>3, <3>4, <3>5, <3>7
      <4> QED
        BY <1>1, <1>4, <2>1, <2>3, <4>1 DEF AllSettled
    <3> QED
      BY <3>6, <3>7
  <2> QED
    BY <2>2, <2>3
<1>20. DeclaredOff(p, c, e)
  <2> SUFFICES ASSUME NEW i \in DOMAIN a, a[i].mod \notin ModsOn(e) PROVE Declares(p, c[i])
    BY <1>10 DEF DeclaredOff
  <2>1. CASE i = k
    <3>1. a[k].exports \subseteq PublicsOf(p, m)
      BY <1>1, <1>4 DEF ScopesOK
    <3>2. c[k].exports = PublicsOf(p, m) /\ c[k].mod = m
      BY <1>4, <1>10, <3>1
    <3> QED
      BY <2>1, <3>2 DEF Declares
  <2>2. CASE i # k
    <3>1. a[i].mod \notin ModsOn(b)
      BY <1>4, <1>14, <2>2
    <3> QED
      BY <1>1, <1>10, <2>2, <3>1 DEF DeclaredOff
  <2> QED
    BY <2>1, <2>2
<1>21. ModsOn(e) \subseteq ModsOf(c)
  BY <1>1, <1>10, <1>14
<1>22. Walked(p, c, e)
  BY <1>9, <1>12, <1>16, <1>17, <1>18, <1>19, <1>20, <1>21 DEF Walked
<1>23. Left(a, b, c, e, m)
  BY <1>4, <1>10, <1>14 DEF Left
<1> QED
  BY <1>22, <1>23

--------------------------------------------------------------------------------
LEMMA WalkedStep ==
  ASSUME NEW p \in Projects, NEW a, NEW b, Walked(p, a, b), CanStep(p, a, b)
  PROVE  \E c, e : StepOf(p, a, b) = <<c, e>> /\ Walked(p, c, e) /\ Moved(a, b, c, e)
<1>1. b # <<>>
  BY DEF CanStep
<1>2. PICK m : m = TopOf(b).mod
  OBVIOUS
<1>3. /\ Len(b) \in Nat \ {0} /\ Len(b) \in DOMAIN b /\ TopOf(b) \in LoadFrames
      /\ m \in ModsOf(a) /\ m \in DOMAIN p
  BY <1>1, <1>2, OnStack
<1>4. CASE ~AtImport(p, b)
  <2>1. PICK env : env = EnvFor(p, ValuesOf(p, m))
    OBVIOUS
  <2>2. PICK ex : ex = PublicsOf(p, m)
    OBVIOUS
  <2>3. PICK c : c = AddedAt(a, PosOf(a, m), env, ex)
    OBVIOUS
  <2>4. PICK e : e = SubSeq(b, 1, Len(b) - 1)
    OBVIOUS
  <2>5. Walked(p, c, e) /\ Left(a, b, c, e, m)
    BY <1>1, <1>2, <1>4, <2>1, <2>2, <2>3, <2>4, WalkedDeclare
  <2>6. Moved(a, b, c, e)
    BY <2>5 DEF Left, Moved
  <2>7. StepOf(p, a, b) = <<c, e>>
    <3>1. StepOf(p, a, b) = Declare(p, a, b)
      BY <1>4, Zenon DEF StepOf
    <3> QED
      BY <1>2, <2>1, <2>2, <2>3, <2>4, <3>1, Zenon DEF Declare
  <2> QED
    BY <2>5, <2>6, <2>7
<1>5. CASE AtImport(p, b)
  <2>1. PICK n : n = ImportOf(p, b).mod
    OBVIOUS
  <2>2. CASE n \in ModsOf(a)
    <3>1. PICK xs : xs = WantedOf(p, b)
      OBVIOUS
    <3>2. \A x \in xs : x \in DOMAIN a[PosOf(a, n)].env
      BY <1>5, <2>1, <2>2, <3>1 DEF CanStep
    <3>3. PICK env : env = PickedOf(a, n, xs)
      OBVIOUS
    <3>4. PICK c : c = AddedAt(a, PosOf(a, m), env, {})
      OBVIOUS
    <3>5. PICK g : g = [TopOf(b) EXCEPT !.imp = @ + 1]
      OBVIOUS
    <3>6. PICK e : e = Replaced(b, g)
      OBVIOUS
    <3>7. Walked(p, c, e) /\ Moved(a, b, c, e)
      BY <1>1, <1>2, <1>5, <2>1, <2>2, <3>1, <3>2, <3>3, <3>4, <3>5, <3>6, WalkedPick
    <3>8. StepOf(p, a, b) = <<c, e>>
      <4>1. StepOf(p, a, b) = Pick(p, a, b)
        BY <1>5, <2>1, <2>2, Zenon DEF StepOf
      <4>2. e = [b EXCEPT ![Len(b)].imp = @ + 1]
        BY <3>5, <3>6 DEF Replaced, TopOf
      <4> QED
        BY <1>2, <2>1, <3>1, <3>3, <3>4, <4>1, <4>2, Zenon DEF Pick
    <3> QED
      BY <3>7, <3>8
  <2>3. CASE n \notin ModsOf(a)
    <3>1. n \in DOMAIN p
      BY <1>5, <2>1, <2>3 DEF CanStep
    <3>2. n \in STRING
      BY <3>1, ProjectsAssumption
    <3>3. PICK c : c = Append(a, NewScope(n))
      OBVIOUS
    <3>4. PICK e : e = Append(b, Loading(n))
      OBVIOUS
    <3>5. Walked(p, c, e) /\ Moved(a, b, c, e)
      BY <1>1, <1>5, <2>1, <2>3, <3>1, <3>2, <3>3, <3>4, WalkedEnter
    <3>6. StepOf(p, a, b) = <<c, e>>
      <4>1. StepOf(p, a, b) = Enter(p, a, b)
        BY <1>5, <2>1, <2>3, Zenon DEF StepOf
      <4> QED
        BY <2>1, <3>3, <3>4, <4>1, Zenon DEF Enter
    <3> QED
      BY <3>5, <3>6
  <2> QED
    BY <2>2, <2>3
<1> QED
  BY <1>4, <1>5

(* However far the walk goes, a scope that is complete stays as it is.      *)
LEMMA WalkedOn ==
  ASSUME NEW p \in Projects, NEW a, NEW b, Walked(p, a, b), NEW c, NEW e, LeadsTo(p, <<a, b>>, <<c, e>>)
  PROVE  Walked(p, c, e) /\ Moved(a, b, c, e)
<1> DEFINE Good(s) == Walked(p, s[1], s[2]) /\ Moved(a, b, s[1], s[2])
           s0 == <<a, b>>
           s1 == <<c, e>>
<1>1. s0[1] = a /\ s0[2] = b /\ s1[1] = c /\ s1[2] = e
  OBVIOUS
<1>2. Moved(a, b, a, b)
  BY DEF Moved
<1>3. ASSUME NEW s, Good(s), CanStep(p, s[1], s[2]) PROVE Good(StepOf(p, s[1], s[2]))
  <2>1. PICK u : u = s[1]
    OBVIOUS
  <2>2. PICK v : v = s[2]
    OBVIOUS
  <2>3. Walked(p, u, v) /\ Moved(a, b, u, v) /\ CanStep(p, u, v)
    BY <1>3, <2>1, <2>2, Zenon
  <2>4. PICK x, y : StepOf(p, u, v) = <<x, y>> /\ Walked(p, x, y) /\ Moved(u, v, x, y)
    BY <2>3, WalkedStep
  <2>5. Moved(a, b, x, y)
    <3> SUFFICES ASSUME NEW i \in DOMAIN a
                 PROVE  /\ i \in DOMAIN x /\ x[i].mod = a[i].mod
                        /\ a[i].mod \notin ModsOn(b) => x[i] = a[i] /\ a[i].mod \notin ModsOn(y)
      BY DEF Moved
    <3>1. /\ i \in DOMAIN u /\ u[i].mod = a[i].mod
          /\ a[i].mod \notin ModsOn(b) => u[i] = a[i] /\ a[i].mod \notin ModsOn(v)
      BY <2>3 DEF Moved
    <3>2. /\ i \in DOMAIN x /\ x[i].mod = u[i].mod
          /\ u[i].mod \notin ModsOn(v) => x[i] = u[i] /\ u[i].mod \notin ModsOn(y)
      BY <2>4, <3>1 DEF Moved
    <3> QED
      BY <3>1, <3>2
  <2>6. PICK t : t = <<x, y>>
    OBVIOUS
  <2>7. t[1] = x /\ t[2] = y
    BY <2>6
  <2>8. StepOf(p, s[1], s[2]) = t
    BY <2>1, <2>2, <2>4, <2>6, Zenon
  <2> QED
    BY <2>4, <2>5, <2>7, <2>8, Zenon
<1>4. Good(s0)
  BY <1>1, <1>2, Zenon
<1> HIDE DEF s0, s1
<1>5. Good(s1)
  <2> DEFINE S == {s \in Seq(Scopes) \X Seq(LoadFrames) : Good(s)}
  <2>1. \A s : Good(s) /\ s = <<s[1], s[2]>> => s \in S
    <3> SUFFICES ASSUME NEW s, Good(s), s = <<s[1], s[2]>> PROVE s \in S
      OBVIOUS
    <3>1. s[1] \in Seq(Scopes) /\ s[2] \in Seq(LoadFrames)
      BY DEF Walked, ScopesOK
    <3>2. s \in Seq(Scopes) \X Seq(LoadFrames)
      BY <3>1
    <3> QED
      BY <3>2
  <2>2. s0 \in S
    BY <1>1, <1>4, <2>1 DEF s0
  <2>3. ASSUME NEW s \in S, CanStep(p, s[1], s[2]) PROVE StepOf(p, s[1], s[2]) \in S
    <3>1. PICK t : t = StepOf(p, s[1], s[2])
      OBVIOUS
    <3>2. Good(t)
      BY <1>3, <2>3, <3>1, Zenon
    <3>3. t = <<t[1], t[2]>>
      BY <3>1 DEF StepOf, Declare, Enter, Pick
    <3> QED
      BY <2>1, <3>1, <3>2, <3>3, Zenon
  <2>4. Closed(p, S)
    BY <2>3, Zenon DEF Closed
  <2>5. LeadsTo(p, s0, s1)
    BY DEF s0, s1
  <2>6. s1 \in S
    BY <2>2, <2>4, <2>5, Zenon DEF LeadsTo
  <2> QED
    BY <2>6
<1> QED
  BY <1>1, <1>5, Zenon

--------------------------------------------------------------------------------
LEMMA WalkedFrom ==
  ASSUME NEW p \in Projects, NEW a, NEW b, LeadsTo(p, Started, <<a, b>>)
  PROVE  Walked(p, a, b)
<1>1. PICK m \in STRING : m = "main" /\ m \in DOMAIN p
  <2>1. "main" \in DOMAIN p /\ "main" \in STRING
    BY ProjectsAssumption
  <2> QED
    BY <2>1, Zenon
<1>2. PICK a0 : a0 = <<NewScope(m)>>
  OBVIOUS
<1>3. PICK b0 : b0 = <<Loading(m)>>
  OBVIOUS
<1>4. Walked(p, a0, b0)
  BY <1>1, <1>2, <1>3, WalkedFirst
<1>5. LeadsTo(p, <<a0, b0>>, <<a, b>>)
  <2>1. Started = <<a0, b0>>
    BY <1>1, <1>2, <1>3, Zenon DEF Started
  <2> QED
    BY <2>1
<1> QED
  BY <1>4, <1>5, WalkedOn

--------------------------------------------------------------------------------
(* What is exported while nothing of the last module is carried out.        *)
LEMMA ExportsNone ==
  ASSUME NEW p, NEW ss, NEW st, NEW b, ExportsFollow(p, ss, st, b), AtImport(p, b)
  PROVE  NoneOrAll(p, ss, b)
  BY DEF ExportsFollow, CarriedOut, NoneOrAll, ExportedOf

LEMMA ExportsStart ==
  ASSUME NEW p \in Projects, NEW ss, ScopesOK(p, ss), NEW st, NEW b, NoneOrAll(p, ss, b),
         AtImport(p, b) \/ Through(st, b) = 1
  PROVE  ExportsFollow(p, ss, st, b)
<1>1. \A i \in DOMAIN ss : ss[i].mod \in ModsOf(ss)
  BY DEF ModsOf
<1>2. \A i \in DOMAIN ss : Carried(p, ss[i].mod, 1) = {}
  BY <1>1, CarriedNone
<1>3. \A i \in DOMAIN ss : ss[i].mod \in ModsOn(b) => CarriedOut(p, ss[i].mod, st, b) = {}
  BY <1>2 DEF CarriedOut
<1>4. \A i \in DOMAIN ss : ss[i].mod \notin ModsOn(b) => CarriedOut(p, ss[i].mod, st, b) = ValuesOf(p, ss[i].mod)
  BY DEF CarriedOut
<1>5. ExportedOf(p, {}) = {}
  BY DEF ExportedOf
<1> QED
  BY <1>3, <1>4, <1>5 DEF ExportsFollow, NoneOrAll

LEMMA ExportsSame ==
  ASSUME NEW p, NEW ss, NEW st, NEW b, ExportsFollow(p, ss, st, b),
         NEW tt, \A m : Carried(p, m, Through(tt, b)) = Carried(p, m, Through(st, b)) \/ m # TopOf(b).mod
  PROVE  ExportsFollow(p, ss, tt, b)
  BY DEF ExportsFollow, CarriedOut

(* A module that registers, and one that picks names.                      *)
LEMMA NoneEnter ==
  ASSUME NEW p, NEW ss, ScopesOK(p, ss), NEW b, NoneOrAll(p, ss, b),
         NEW n \in DOMAIN p, n \in STRING, n \notin ModsOf(ss), NEW uu, uu = Append(ss, NewScope(n)),
         NEW c, ModsOn(c) = ModsOn(b) \cup {n}
  PROVE  NoneOrAll(p, uu, c)
<1>1. PICK N : N = Len(ss) + 1
  OBVIOUS
<1>2. DOMAIN uu = DOMAIN ss \cup {N}
  BY <1>1, ScopesAppend
<1>3. uu[N] = NewScope(n)
  BY <1>1, ScopesAppend
<1>4. \A i \in DOMAIN ss : uu[i] = ss[i]
  BY ScopesAppend
<1>5. uu[N].exports = {} /\ uu[N].mod = n
  BY <1>3, NewScopeType
<1>6. \A i \in DOMAIN ss : ss[i].mod # n
  BY DEF ModsOf
<1> QED
  BY <1>2, <1>4, <1>5, <1>6 DEF NoneOrAll

LEMMA NonePick ==
  ASSUME NEW p, NEW ss, NEW b, NoneOrAll(p, ss, b), NEW uu, DOMAIN uu = DOMAIN ss,
         \A i \in DOMAIN ss : uu[i].mod = ss[i].mod /\ uu[i].exports = ss[i].exports,
         NEW c, ModsOn(c) = ModsOn(b)
  PROVE  NoneOrAll(p, uu, c)
  BY DEF NoneOrAll

(* All of the last module is carried out and it leaves.                     *)
LEMMA NoneLeave ==
  ASSUME NEW p, NEW ss, NEW st, NEW b, ExportsFollow(p, ss, st, b), ~AtImport(p, b),
         NEW m, m = TopOf(b).mod, Carried(p, m, Through(st, b)) = ValuesOf(p, m),
         NEW c, ModsOn(b) = ModsOn(c) \cup {m}, m \notin ModsOn(c)
  PROVE  NoneOrAll(p, ss, c)
<1>1. ExportedOf(p, {}) = {}
  BY DEF ExportedOf
<1> SUFFICES ASSUME NEW i \in DOMAIN ss
             PROVE  ss[i].exports = IF ss[i].mod \in ModsOn(c) THEN {} ELSE ExportedOf(p, ValuesOf(p, ss[i].mod))
  BY DEF NoneOrAll
<1>2. ss[i].exports = ExportedOf(p, CarriedOut(p, ss[i].mod, st, b))
  BY DEF ExportsFollow
<1>3. CASE ss[i].mod = m
  BY <1>2, <1>3 DEF CarriedOut
<1>4. CASE ss[i].mod # m
  BY <1>1, <1>2, <1>4 DEF CarriedOut
<1> QED
  BY <1>3, <1>4

LEMMA TopIsOn ==
  ASSUME NEW b \in Seq(LoadFrames), b # <<>>
  PROVE  TopOf(b).mod \in ModsOn(b)
<1>1. Len(b) \in DOMAIN b
  BY LenProperties, EmptySeq
<1> QED
  BY <1>1 DEF TopOf, ModsOn

(* The modules on the stack when one enters, moves on or leaves.            *)
LEMMA ModsEnter ==
  ASSUME NEW b \in Seq(LoadFrames), NEW n \in STRING, NEW c, c = Append(b, Loading(n))
  PROVE  ModsOn(c) = ModsOn(b) \cup {n}
<1>1. PICK f : f = Loading(n)
  OBVIOUS
<1>2. f \in LoadFrames /\ f.mod = n
  BY <1>1 DEF Loading, LoadFrames
<1>3. PICK N : N = Len(b) + 1
  OBVIOUS
<1>4. /\ c \in Seq(LoadFrames) /\ Len(c) = N /\ c[N] = f /\ \A j \in 1..Len(b) : c[j] = b[j]
      /\ DOMAIN b = 1..Len(b) /\ Len(b) \in Nat
  BY <1>1, <1>2, <1>3, AppendProperties, LenProperties
<1>5. DOMAIN c = DOMAIN b \cup {N}
  <2>1. DOMAIN c = 1..N
    BY <1>4, LenProperties
  <2> QED
    BY <1>3, <1>4, <2>1
<1> QED
  BY <1>2, <1>4, <1>5 DEF ModsOn

LEMMA ModsReplace ==
  ASSUME NEW b \in Seq(LoadFrames), b # <<>>, NEW g \in LoadFrames, g.mod = TopOf(b).mod,
         NEW c, c = Replaced(b, g)
  PROVE  ModsOn(c) = ModsOn(b)
<1>1. Len(b) \in DOMAIN b
  BY LenProperties, EmptySeq
<1>2. DOMAIN c = DOMAIN b /\ \A j \in DOMAIN b : c[j] = IF j = Len(b) THEN g ELSE b[j]
  BY DEF Replaced
<1>3. \A j \in DOMAIN b : c[j].mod = b[j].mod
  BY <1>2 DEF TopOf
<1> QED
  BY <1>2, <1>3 DEF ModsOn

--------------------------------------------------------------------------------
(* The interpreter's last call and that of the walk that it follows.        *)
LEMMA LoadTop ==
  ASSUME Types, stack # <<>>, Top.do = "load", NEW b, CallsFollow(project, stack, b)
  PROVE  /\ b # <<>> /\ Len(stack) = Len(b) /\ TopOf(b) \in LoadFrames /\ Top \in LoadFrames
         /\ TopOf(b).mod = Top.mod /\ TopOf(b).imp = Top.imp
         /\ AtImport(project, b) <=> Importing
         /\ ~AtImport(project, b) <=> Declaring
         /\ ImportOf(project, b) = Import /\ WantedOf(project, b) = Wanted
         /\ Through(stack, b) = Top.decl
<1>1. StackOK(project, scopes, stack)
  BY DEF Types
<1>2. TopOf(stack) = Top
  BY DEF TopOf, Top
<1>3. /\ Len(stack) = Len(b) /\ b # <<>> /\ TopOf(b).mod = Top.mod /\ TopOf(b).imp = Top.imp
      /\ TopOf(b) \in LoadFrames /\ Top \in LoadFrames /\ Len(b) \in Nat
  BY <1>1, <1>2, LoadsTop, CallsTop DEF CallsFollow
<1>4. ImportOf(project, b) = Import
  BY <1>3, Zenon DEF ImportOf, Import
<1>5. WantedOf(project, b) = Wanted
  BY <1>4, Zenon DEF WantedOf, Wanted
<1>6. AtImport(project, b) <=> AtImport(project, stack)
  BY <1>2, <1>3, Zenon DEF AtImport, PastImports
<1>7. (AtImport(project, stack) <=> Importing) /\ (~AtImport(project, stack) <=> Declaring)
  BY TopIs
<1>8. Through(stack, b) = Top.decl
  BY <1>3 DEF Through, Top
<1> QED
  BY <1>3, <1>4, <1>5, <1>6, <1>7, <1>8

LEMMA ImportWalks ==
  ASSUME IInv, LoadImport, phase = "load", phase' = "load", Follows(project, scopes, stack, sigs)
  PROVE  Follows(project, scopes', stack', sigs)
<1>0. PICK n : n = Import.mod
  OBVIOUS
<1>19. PICK p : p = project
  OBVIOUS
<1>1. /\ Types /\ stack # <<>> /\ Top.do = "load" /\ Importing /\ n \notin ModsOf(scopes)
      /\ n \in DOMAIN p /\ n \in STRING
      /\ ScopesOK(p, scopes) /\ StackOK(p, scopes, stack) /\ p \in Projects
  BY <1>0, <1>19, RegisteredAre, ImportType DEF LoadImport, Importing, IInv, Types
<1>2. scopes' = Append(scopes, NewScope(n)) /\ stack' = Append(stack, Loading(n))
  BY <1>0, <1>1, <1>19 DEF LoadImport
<1>30. PICK a, b : /\ ScopesOK(p, a) /\ Beside(p, scopes, stack, b) /\ ScopesFollow(p, scopes, stack, a, b)
                   /\ Between(p, a, b, sigs)
  BY <1>19, Zenon DEF Follows
<1>3. /\ CallsFollow(p, stack, b) /\ ScopesFollow(p, scopes, stack, a, b)
      /\ ExportsFollow(p, scopes, stack, b) /\ ScopesOK(p, a)
  BY <1>30, Zenon DEF Beside
<1>4. b # <<>> /\ Len(stack) = Len(b) /\ AtImport(p, b) /\ ImportOf(p, b).mod = n
  BY <1>0, <1>19, <1>1, <1>3, LoadTop
<1>6. /\ DOMAIN a = DOMAIN scopes
      /\ \A i \in DOMAIN scopes : a[i].mod = scopes[i].mod /\ scopes[i].env = a[i].env
  BY <1>3, <1>4, FollowImport
<1>7. ModsOf(a) = ModsOf(scopes) /\ Len(a) = Len(scopes)
  BY <1>1, <1>3, <1>6, SamePos
<1>8. PICK a2 : a2 = Append(a, NewScope(n))
  OBVIOUS
<1>9. PICK b2 : b2 = Append(b, Loading(n))
  OBVIOUS
<1>10. StepOf(p, a, b) = <<a2, b2>>
  BY <1>1, <1>4, <1>7, <1>8, <1>9, Zenon DEF StepOf, Enter
<1>5. Between(p, a2, b2, sigs)
  BY <1>4, <1>10, <1>30, BetweenStep
<1>11. /\ ScopesOK(p, a2) /\ DOMAIN a2 = DOMAIN a \cup {Len(a) + 1} /\ a2[Len(a) + 1] = NewScope(n)
       /\ \A i \in DOMAIN a : a2[i] = a[i]
  <2>1. n \notin ModsOf(a)
    BY <1>1, <1>7
  <2>2. ScopesOK(p, a2)
    BY <1>1, <1>3, <1>8, <2>1, ScopesAppend
  <2>3. DOMAIN a2 = DOMAIN a \cup {Len(a) + 1}
    BY <1>1, <1>3, <1>8, <2>1, ScopesAppend
  <2>4. a2[Len(a) + 1] = NewScope(n)
    BY <1>1, <1>3, <1>8, <2>1, ScopesAppend
  <2>5. \A i \in DOMAIN a : a2[i] = a[i]
    BY <1>1, <1>3, <1>8, <2>1, ScopesAppend
  <2> QED
    BY <2>2, <2>3, <2>4, <2>5
<1>12. /\ ScopesOK(p, scopes') /\ DOMAIN scopes' = DOMAIN scopes \cup {Len(scopes) + 1}
       /\ scopes'[Len(scopes) + 1] = NewScope(n)
       /\ \A i \in DOMAIN scopes : scopes'[i] = scopes[i]
       /\ ModsOf(scopes) \subseteq ModsOf(scopes') /\ n \in ModsOf(scopes')
  <2>2. ScopesOK(p, scopes')
    BY <1>1, <1>2, ScopesAppend
  <2>3. DOMAIN scopes' = DOMAIN scopes \cup {Len(scopes) + 1}
    BY <1>1, <1>2, ScopesAppend
  <2>4. scopes'[Len(scopes) + 1] = NewScope(n)
    BY <1>1, <1>2, ScopesAppend
  <2>5. \A i \in DOMAIN scopes : scopes'[i] = scopes[i]
    BY <1>1, <1>2, ScopesAppend
  <2>6. ModsOf(scopes) \subseteq ModsOf(scopes') /\ n \in ModsOf(scopes')
    BY <1>1, <1>2, ScopesAppend
  <2> QED
    BY <2>2, <2>3, <2>4, <2>5, <2>6
<1>13. StackOK(p, scopes', stack)
  BY <1>1, <1>12, StackGrows
<1>14. CallsFollow(p, stack', b2) /\ Through(stack', b2) = 1 /\ EvalsFollow(p, stack', b2)
  <2>1. PICK tt : tt = stack'
    OBVIOUS
  <2>2. tt = Append(stack, Loading(n))
    BY <1>2, <2>1
  <2>6. PICK ss : ss = scopes'
    OBVIOUS
  <2>3. n \in ModsOf(ss) /\ n \in STRING /\ p \in Projects /\ StackOK(p, ss, stack)
    BY <1>1, <1>12, <1>13, <2>6
  <2>7. CallsFollow(p, stack, b) /\ Len(stack) = Len(b) /\ AtImport(p, b)
    BY <1>3, <1>4
  <2>4. Starting(p, tt, b2)
    BY <1>9, <2>2, <2>3, <2>7, CallsPush
  <2> QED
    BY <2>1, <2>4 DEF Starting
<1>15. /\ DOMAIN a2 = DOMAIN scopes'
       /\ \A i \in DOMAIN scopes' : a2[i].mod = scopes'[i].mod /\ scopes'[i].env = a2[i].env
  BY ONLY <1>6, <1>7, <1>11, <1>12
<1>16. ScopesFollow(p, scopes', stack', a2, b2)
  BY <1>1, <1>11, <1>12, <1>14, <1>15, FollowEqual
<1>18. ModsOn(b2) = ModsOn(b) \cup {n}
  <2>1. b \in Seq(LoadFrames)
    BY <1>3 DEF CallsFollow
  <2> QED
    BY <1>1, <1>9, <2>1, ModsEnter
<1>20. ExportsFollow(p, scopes', stack', b2)
  <2>1. NoneOrAll(p, scopes, b)
    BY <1>3, <1>4, ExportsNone
  <2>2. PICK uu : uu = scopes'
    OBVIOUS
  <2>3. NoneOrAll(p, uu, b2)
    BY <1>1, <1>2, <1>18, <2>1, <2>2, NoneEnter
  <2> QED
    BY <1>1, <1>12, <1>14, <2>2, <2>3, ExportsStart
<1>17. Follows(p, scopes', stack', sigs)
  BY <1>5, <1>11, <1>14, <1>16, <1>20, Zenon DEF Follows, Beside
<1> QED
  BY <1>17, <1>19

(* Nothing was carried out yet of a module that is at an import.            *)
LEMMA PickWalks ==
  ASSUME IInv, SelectValues, phase' = "load", Follows(project, scopes, stack, sigs)
  PROVE  Follows(project, scopes', stack', sigs)
<1> DEFINE n == Import.mod
           m == Top.mod
           p == project
           env == Picked(Wanted)
           f == [Top EXCEPT !.imp = @ + 1]
<1>1. /\ Types /\ stack # <<>> /\ Top.do = "load" /\ Importing /\ n \in ModsOf(scopes)
      /\ ScopesOK(p, scopes) /\ StackOK(p, scopes, stack) /\ p \in Projects
      /\ m \in ModsOf(scopes) /\ Top \in LoadFrames /\ Top.imp \in Nat \ {0}
      /\ FrameOK(p, scopes, Top) /\ Wanted \in SUBSET STRING
  BY RegisteredAre, TopLoads, TopFrame, ImportType DEF SelectValues, Importing, IInv, Types
<1>2. /\ \A x \in Wanted : Known(n, x) /\ Visible(n, x)
      /\ Bind(m, env, {}) /\ stack' = NextImport
  BY DEF SelectValues
<1>3. scopes' = AddedAt(scopes, PosOf(scopes, m), env, {})
  BY <1>2, BindIs, PosIs
<1>4. stack' = Replaced(stack, f)
  BY <1>2 DEF NextImport, Replaced, Top
<1>30. PICK a, b : /\ ScopesOK(p, a) /\ Beside(p, scopes, stack, b) /\ ScopesFollow(p, scopes, stack, a, b)
                   /\ Between(p, a, b, sigs)
  BY Zenon DEF Follows
<1>5. /\ CallsFollow(p, stack, b) /\ ScopesFollow(p, scopes, stack, a, b)
      /\ ExportsFollow(p, scopes, stack, b) /\ ScopesOK(p, a)
  BY <1>30, Zenon DEF Beside
<1>6. /\ b # <<>> /\ Len(stack) = Len(b) /\ AtImport(p, b) /\ ImportOf(p, b) = Import
      /\ WantedOf(p, b) = Wanted /\ TopOf(b) \in LoadFrames
      /\ TopOf(b).mod = m /\ TopOf(b).imp = Top.imp
  BY <1>1, <1>5, LoadTop
<1>8. /\ DOMAIN a = DOMAIN scopes
      /\ \A i \in DOMAIN scopes : a[i].mod = scopes[i].mod /\ scopes[i].env = a[i].env
  BY <1>5, <1>6, FollowImport
<1>9. /\ ModsOf(a) = ModsOf(scopes)
      /\ PosOf(a, m) = PosOf(scopes, m) /\ PosOf(scopes, m) \in DOMAIN scopes
      /\ PosOf(a, n) = PosOf(scopes, n) /\ PosOf(scopes, n) \in DOMAIN scopes
  BY <1>1, <1>5, <1>8, SamePos
<1>10. env = PickedOf(a, n, Wanted)
  <2>1. env = PickedOf(scopes, n, Wanted)
    BY PickedIs
  <2>2. a[PosOf(a, n)].env = scopes[PosOf(scopes, n)].env
    BY <1>8, <1>9
  <2> HIDE DEF env, n
  <2> QED
    BY <2>1, <2>2, Zenon DEF PickedOf
<1> DEFINE g == [TopOf(b) EXCEPT !.imp = @ + 1]
<1>11. PICK a2 : a2 = AddedAt(a, PosOf(a, m), env, {})
  OBVIOUS
<1>12. PICK b2 : b2 = Replaced(b, g)
  OBVIOUS
<1>13. StepOf(p, a, b) = <<a2, b2>>
  <2>1. b2 = [b EXCEPT ![Len(b)].imp = @ + 1]
    BY <1>12 DEF Replaced, TopOf
  <2>2. StepOf(p, a, b) = Pick(p, a, b)
    BY <1>1, <1>6, <1>9, Zenon DEF StepOf
  <2>3. a2 = AddedAt(a, PosOf(a, TopOf(b).mod), PickedOf(a, ImportOf(p, b).mod, WantedOf(p, b)), {})
    BY <1>6, <1>10, <1>11, Zenon
  <2> QED
    BY <2>1, <2>2, <2>3, Zenon DEF Pick
<1>7. Between(p, a2, b2, sigs)
  BY <1>6, <1>13, <1>30, BetweenStep
<1>14. GoodEnv(p, scopes, env)
  BY <1>1, <1>2, PickedType
<1>15. f \in LoadFrames /\ FrameOK(p, scopes, f) /\ f.mod = m /\ f.imp = Top.imp + 1 /\ f.decl = Top.decl
  <2>1. Top \in Frames /\ Top.do = "load"
    BY <1>1 DEF Frames
  <2>2. f \in LoadFrames /\ FrameOK(p, scopes, f) /\ f.mod = m /\ f.imp = Top.imp + 1
    BY <1>1, <2>1, NextFrame
  <2> QED
    BY <1>1, <2>2 DEF LoadFrames
<1>16. g \in LoadFrames /\ g.mod = m /\ g.imp = Top.imp + 1
  BY <1>1, <1>6 DEF LoadFrames
<1>17. Top.decl = 1
  <2>1. Len(b) \in DOMAIN b /\ Len(stack) \in DOMAIN stack
    BY <1>1, <1>5, CallsTop, <1>6
  <2> QED
    BY <1>5, <1>6, <2>1 DEF CallsFollow, AtImport, TopOf, Top
<1> HIDE DEF n, m, p, env, f, g
<1>18. CallsFollow(p, stack', b2) /\ Through(stack', b2) = 1
  BY <1>1, <1>4, <1>5, <1>6, <1>12, <1>15, <1>16, <1>17, CallsReplace
<1>19. GoodEnv(p, a, env)
  BY <1>9, <1>14 DEF GoodEnv, StandsFor
<1>20. /\ ScopesOK(p, scopes') /\ ScopesOK(p, a2)
  <2>1. ScopesOK(p, scopes')
    BY <1>1, <1>3, <1>9, <1>14, ScopesAdd
  <2>2. ScopesOK(p, a2)
    BY <1>5, <1>8, <1>9, <1>11, <1>19, ScopesAdd
  <2> QED
    BY <2>1, <2>2
<1>21. /\ DOMAIN a2 = DOMAIN scopes'
       /\ \A i \in DOMAIN scopes' : a2[i].mod = scopes'[i].mod /\ scopes'[i].env = a2[i].env
  <2> DEFINE k == PosOf(scopes, m)
  <2>1. env \in Envs /\ scopes \in Seq(Scopes) /\ a \in Seq(Scopes)
    BY <1>1, <1>5, <1>14 DEF GoodEnv, ScopesOK
  <2>2. /\ DOMAIN scopes' = DOMAIN scopes /\ \A i \in DOMAIN scopes : scopes'[i].mod = scopes[i].mod
        /\ \A i \in DOMAIN scopes : i # k => scopes'[i] = scopes[i]
        /\ scopes'[k].env = With(env, scopes[k].env)
    BY <1>3, <1>9, <2>1, AddedScope
  <2>3. /\ DOMAIN a2 = DOMAIN a /\ \A i \in DOMAIN a : a2[i].mod = a[i].mod
        /\ \A i \in DOMAIN a : i # k => a2[i] = a[i]
        /\ a2[k].env = With(env, a[k].env)
    BY <1>8, <1>9, <1>11, <2>1, AddedScope
  <2> HIDE DEF k
  <2>4. k \in DOMAIN scopes
    BY <1>9 DEF k
  <2> QED
    BY ONLY <1>8, <2>2, <2>3, <2>4
<1>22. ScopesFollow(p, scopes', stack', a2, b2)
  BY <1>1, <1>18, <1>20, <1>21, FollowEqual
<1>24. ModsOn(b2) = ModsOn(b)
  <2>1. b \in Seq(LoadFrames)
    BY <1>5 DEF CallsFollow
  <2> QED
    BY <1>6, <1>12, <1>16, <2>1, ModsReplace
<1>25. ExportsFollow(p, scopes', stack', b2)
  <2>1. NoneOrAll(p, scopes, b)
    BY <1>5, <1>6, ExportsNone
  <2>2. PICK uu : uu = scopes'
    OBVIOUS
  <2>3. /\ DOMAIN uu = DOMAIN scopes
        /\ \A i \in DOMAIN scopes : uu[i].mod = scopes[i].mod /\ uu[i].exports = scopes[i].exports
    <3>1. env \in Envs /\ scopes \in Seq(Scopes)
      BY <1>1, <1>14 DEF GoodEnv, ScopesOK
    <3>2. PICK k \in DOMAIN scopes : k = PosOf(scopes, m)
      BY <1>9
    <3>5. PICK ex \in SUBSET STRING : ex = {}
      OBVIOUS
    <3>3. uu = AddedAt(scopes, k, env, ex)
      BY <1>3, <2>2, <3>2, <3>5
    <3>4. /\ DOMAIN uu = DOMAIN scopes /\ \A i \in DOMAIN scopes : uu[i].mod = scopes[i].mod
          /\ \A i \in DOMAIN scopes : i # k => uu[i] = scopes[i]
          /\ uu[k].exports = scopes[k].exports \cup ex
      BY ONLY <3>1, <3>2, <3>3, AddedScope
    <3> QED
      BY ONLY <3>4, <3>5
  <2>4. NoneOrAll(p, uu, b2)
    BY <1>24, <2>1, <2>3, NonePick
  <2> QED
    BY <1>1, <1>18, <1>20, <2>2, <2>4, ExportsStart
<1>26. EvalsFollow(p, stack', b2)
  <2>1. StackOK(p, scopes, stack) /\ f \in Frames
    BY <1>1, <1>15 DEF Frames
  <2>2. /\ DOMAIN stack' = DOMAIN stack /\ DOMAIN stack = 1..Len(stack) /\ Len(stack) \in Nat
    BY <1>1, <1>4, <1>15, <2>1, StackReplace, StackTop
  <2>3. Len(b2) = Len(b)
    <3>1. b \in Seq(LoadFrames) /\ Len(b) \in DOMAIN b
      BY <1>1, <1>5, CallsTop DEF CallsFollow
    <3> QED
      BY <1>12, <1>16, <3>1, ExceptSeq DEF Replaced
  <2>4. PICK k \in Nat : k = Len(b)
    BY <1>6, <2>2
  <2>5. PICK tt : tt = stack'
    OBVIOUS
  <2>6. DOMAIN tt = 1..k /\ Len(b2) = k
    BY <1>6, <2>2, <2>3, <2>4, <2>5
  <2>7. EvalsFollow(p, tt, b2)
    BY ONLY <2>6, EvalsNone
  <2> QED
    BY <2>5, <2>7
<1>27. Beside(p, scopes', stack', b2)
  BY <1>18, <1>25, <1>26, Zenon DEF Beside
<1>23. Follows(p, scopes', stack', sigs)
  BY <1>7, <1>20, <1>22, <1>27, Zenon DEF Follows
<1> QED
  BY <1>23 DEF p

--------------------------------------------------------------------------------
(* The declarations that are carried out, one by one and in the end.        *)
LEMMA CarriedNext ==
  ASSUME NEW p \in Projects, NEW m \in DOMAIN p, m \in STRING, NEW d \in DeclsOf(p, m), NEW k, k = d[2]
  PROVE  /\ Carried(p, m, k) \in SUBSET DeclsOf(p, m)
         /\ DeclOf(p, d).kind \in Values => Carried(p, m, k + 1) = Carried(p, m, k) \cup {d}
         /\ DeclOf(p, d).kind \notin Values => Carried(p, m, k + 1) = Carried(p, m, k)
<1>1. \A e \in DeclsOf(p, m) : e = <<m, e[2]>> /\ e[2] \in Int
  <2> SUFFICES ASSUME NEW e \in DeclsOf(p, m) PROVE e = <<m, e[2]>> /\ e[2] \in Int
    OBVIOUS
  <2>1. PICK i \in DOMAIN p[m].decls : e = <<m, i>>
    BY DEF DeclsOf
  <2>2. i \in Nat
    BY FileType, LenProperties
  <2> QED
    BY <2>1, <2>2
<1>2. \A e \in DeclsOf(p, m) : e[2] < k + 1 <=> (e[2] < k \/ e = d)
  <2> SUFFICES ASSUME NEW e \in DeclsOf(p, m) PROVE e[2] < k + 1 <=> (e[2] < k \/ e = d)
    OBVIOUS
  <2>1. e[2] \in Int /\ k \in Int /\ (e[2] = k <=> e = d)
    BY <1>1, Zenon
  <2> QED
    BY <2>1
<1>3. Carried(p, m, k) \in SUBSET DeclsOf(p, m)
  BY DEF Carried, ValuesOf
<1>4. ASSUME DeclOf(p, d).kind \in Values PROVE Carried(p, m, k + 1) = Carried(p, m, k) \cup {d}
  <2>1. d \in ValuesOf(p, m)
    BY <1>4 DEF ValuesOf
  <2>2. \A e : e \in Carried(p, m, k + 1) <=> e \in Carried(p, m, k) \cup {d}
    BY <1>2, <2>1, Zenon DEF Carried, ValuesOf
  <2> QED
    BY <2>2
<1>5. ASSUME DeclOf(p, d).kind \notin Values PROVE Carried(p, m, k + 1) = Carried(p, m, k)
  <2>1. d \notin ValuesOf(p, m)
    BY <1>5 DEF ValuesOf
  <2>2. \A e : e \in Carried(p, m, k + 1) <=> e \in Carried(p, m, k)
    BY <1>2, <2>1, Zenon DEF Carried, ValuesOf
  <2> QED
    BY <2>2
<1> QED
  BY <1>3, <1>4, <1>5

LEMMA CarriedAll ==
  ASSUME NEW p \in Projects, NEW m \in DOMAIN p, m \in STRING, NEW k \in Int, k > Len(p[m].decls)
  PROVE  Carried(p, m, k) = ValuesOf(p, m)
<1>1. ASSUME NEW d \in ValuesOf(p, m) PROVE d[2] < k
  <2>1. PICK i \in DOMAIN p[m].decls : d = <<m, i>>
    BY DEF ValuesOf, DeclsOf
  <2>2. i \in Nat /\ i <= Len(p[m].decls) /\ Len(p[m].decls) \in Nat
    BY FileType, LenProperties
  <2>3. d[2] = i
    BY <2>1
  <2> HIDE <2>1
  <2> QED
    BY ONLY <2>2, <2>3, k \in Int, k > Len(p[m].decls)
<1> QED
  BY <1>1 DEF Carried

(* A declaration of the module at the top of the walk is carried out.       *)
LEMMA FollowCarry ==
  ASSUME NEW p \in Projects, NEW ss, ScopesOK(p, ss), NEW st, NEW a, NEW b, ScopesOK(p, a),
         ScopesFollow(p, ss, st, a, b), ~AtImport(p, b), NEW m, m = TopOf(b).mod, m \in ModsOf(ss),
         NEW d \in DeclsOf(p, m), DeclOf(p, d).kind \in Values, Through(st, b) = d[2],
         NEW ex \in SUBSET STRING,
         NEW uu, uu = AddedAt(ss, PosOf(ss, m), EnvFor(p, {d}), ex),
         NEW tt, Through(tt, b) = d[2] + 1
  PROVE  ScopesFollow(p, uu, tt, a, b)
<1> DEFINE k == PosOf(ss, m)
           env == EnvFor(p, {d})
<1>1. m \in STRING /\ m \in DOMAIN p /\ k \in DOMAIN ss /\ ss[k].mod = m
      /\ \A i \in DOMAIN ss : ss[i].mod = m => i = k
  BY ModName, PosType
<1>2. env \in Envs
  <2>1. {d} \in SUBSET DeclsOf(p, m) /\ m \in ModsOf(ss)
    OBVIOUS
  <2> QED
    BY <1>1, <2>1, EnvForType DEF GoodEnv
<1>3. ss \in Seq(Scopes)
  BY DEF ScopesOK
<1>10. uu = AddedAt(ss, k, env, ex)
  OBVIOUS
<1> HIDE DEF env, k
<1>4. /\ DOMAIN uu = DOMAIN ss /\ \A i \in DOMAIN ss : uu[i].mod = ss[i].mod
      /\ \A i \in DOMAIN ss : i # k => uu[i] = ss[i]
      /\ uu[k].env = With(env, ss[k].env)
  BY ONLY <1>1, <1>2, <1>3, <1>10, AddedScope, ex \in SUBSET STRING
<1>5. ss[k].env = With(EnvFor(p, Carried(p, m, d[2])), a[k].env) /\ a[k].env \in Envs
  <2>1. k \in DOMAIN a /\ a[k].env \in Envs
    BY <1>1 DEF ScopesFollow, ScopesOK, GoodEnv
  <2> QED
    BY <1>1, <2>1 DEF ScopesFollow
<1>6. Carried(p, m, d[2]) \in SUBSET DeclsOf(p, m) /\ Carried(p, m, d[2] + 1) = Carried(p, m, d[2]) \cup {d}
  BY <1>1, CarriedNext
<1>7. uu[k].env = With(EnvFor(p, Carried(p, m, d[2] + 1)), a[k].env)
  <2>1. With(EnvFor(p, {d}), With(EnvFor(p, Carried(p, m, d[2])), a[k].env))
          = With(EnvFor(p, Carried(p, m, d[2]) \cup {d}), a[k].env)
    BY <1>1, <1>5, <1>6, WithOneMore
  <2> QED
    BY <1>4, <1>5, <1>6, <2>1, Zenon DEF env
<1>8. ASSUME NEW i \in DOMAIN uu
      PROVE  /\ a[i].mod = uu[i].mod
             /\ uu[i].env = IF AtImport(p, b) \/ uu[i].mod # TopOf(b).mod THEN a[i].env
                            ELSE With(EnvFor(p, Carried(p, uu[i].mod, Through(tt, b))), a[i].env)
  <2>1. CASE i = k
    BY <1>1, <1>4, <1>7, <2>1 DEF ScopesFollow
  <2>2. CASE i # k
    BY <1>1, <1>4, <2>2 DEF ScopesFollow
  <2> QED
    BY <2>1, <2>2
<1>9. DOMAIN a = DOMAIN uu
  BY <1>4 DEF ScopesFollow
<1> QED
  BY <1>8, <1>9 DEF ScopesFollow

(* ... and exported with it.                                               *)
LEMMA ExportsCarry ==
  ASSUME NEW p \in Projects, NEW ss, ScopesOK(p, ss), NEW st, NEW b,
         ExportsFollow(p, ss, st, b), b \in Seq(LoadFrames), b # <<>>,
         ~AtImport(p, b), NEW m, m = TopOf(b).mod, m \in ModsOf(ss),
         NEW d \in DeclsOf(p, m), DeclOf(p, d).kind \in Values, Through(st, b) = d[2],
         NEW ex \in SUBSET STRING, ex = IF DeclOf(p, d).exported THEN {DeclOf(p, d).name} ELSE {},
         NEW uu, uu = AddedAt(ss, PosOf(ss, m), EnvFor(p, {d}), ex),
         NEW tt, Through(tt, b) = d[2] + 1
  PROVE  ExportsFollow(p, uu, tt, b)
<1>1. PICK k : k = PosOf(ss, m)
  OBVIOUS
<1>2. PICK env : env = EnvFor(p, {d})
  OBVIOUS
<1>3. /\ m \in STRING /\ m \in DOMAIN p /\ k \in DOMAIN ss /\ ss[k].mod = m
      /\ \A i \in DOMAIN ss : ss[i].mod = m => i = k
  BY <1>1, ModName, PosType
<1>4. env \in Envs /\ ss \in Seq(Scopes)
  <2>1. {d} \in SUBSET DeclsOf(p, m) /\ m \in ModsOf(ss)
    OBVIOUS
  <2> QED
    BY <1>2, <1>3, <2>1, EnvForType DEF GoodEnv, ScopesOK
<1>5. uu = AddedAt(ss, k, env, ex)
  BY <1>1, <1>2
<1>6. /\ DOMAIN uu = DOMAIN ss /\ \A i \in DOMAIN ss : uu[i].mod = ss[i].mod
      /\ \A i \in DOMAIN ss : i # k => uu[i] = ss[i]
      /\ uu[k].exports = ss[k].exports \cup ex
  BY ONLY <1>3, <1>4, <1>5, AddedScope, ex \in SUBSET STRING
<1>7. m \in ModsOn(b)
  BY TopIsOn
<1>8. Carried(p, m, d[2] + 1) = Carried(p, m, d[2]) \cup {d}
  BY <1>3, CarriedNext
<1>9. ExportedOf(p, Carried(p, m, d[2] + 1)) = ExportedOf(p, Carried(p, m, d[2])) \cup ex
  BY <1>8 DEF ExportedOf
<1>10. ss[k].exports = ExportedOf(p, Carried(p, m, d[2]))
  BY <1>3, <1>7 DEF ExportsFollow, CarriedOut
<1>11. CarriedOut(p, m, tt, b) = Carried(p, m, d[2] + 1)
  BY <1>7 DEF CarriedOut
<1>12. \A n : n # m => CarriedOut(p, n, tt, b) = CarriedOut(p, n, st, b)
  BY DEF CarriedOut
<1> SUFFICES ASSUME NEW i \in DOMAIN ss
             PROVE  uu[i].exports = ExportedOf(p, CarriedOut(p, ss[i].mod, tt, b))
  BY <1>6 DEF ExportsFollow
<1>13. CASE i = k
  BY <1>3, <1>6, <1>9, <1>10, <1>11, <1>13
<1>14. CASE i # k
  BY <1>3, <1>6, <1>12, <1>14 DEF ExportsFollow
<1> QED
  BY <1>13, <1>14

(* What a scope has a name for is complete or was carried out before.       *)
Names(ss, d) == \E i \in DOMAIN ss : \E x \in DOMAIN ss[i].env : d = ss[i].env[x]
LEMMA NamesReachable ==
  ASSUME NEW p \in Projects, NEW ss, ScopesOK(p, ss), NEW st, NEW a, NEW b, Walked(p, a, b),
         ScopesFollow(p, ss, st, a, b), Through(st, b) \in Int, NEW d, Names(ss, d)
  PROVE  Reachable(p, st, b, d)
<1>1. PICK i, x : i \in DOMAIN ss /\ x \in DOMAIN ss[i].env /\ d = ss[i].env[x]
  BY Zenon DEF Names
<1>2. i \in DOMAIN a /\ a[i].mod = ss[i].mod
  BY <1>1 DEF ScopesFollow
<1>3. ASSUME x \in DOMAIN a[i].env, d = a[i].env[x] PROVE d[1] \notin ModsOn(b)
  BY <1>2, <1>3 DEF Walked, AllSettled, Settled
<1>4. CASE AtImport(p, b) \/ ss[i].mod # TopOf(b).mod
  <2>1. ss[i].env = a[i].env
    BY <1>1, <1>4 DEF ScopesFollow
  <2> QED
    BY <1>1, <1>3, <2>1 DEF Reachable
<1>5. CASE ~(AtImport(p, b) \/ ss[i].mod # TopOf(b).mod)
  <2>1. PICK m : m = ss[i].mod
    OBVIOUS
  <2>2. PICK k : k = Through(st, b)
    OBVIOUS
  <2>3. PICK ds : ds = Carried(p, m, k)
    OBVIOUS
  <2>4. PICK env : env = EnvFor(p, ds)
    OBVIOUS
  <2>5. PICK old : old = a[i].env
    OBVIOUS
  <2>6. ss[i].env = With(env, old)
    BY <1>1, <1>5, <2>1, <2>2, <2>3, <2>4, <2>5 DEF ScopesFollow
  <2>7. DOMAIN env = {DeclOf(p, e).name : e \in ds} /\ \A y \in DOMAIN env : env[y] \in ds
    <3>1. DOMAIN env = {DeclOf(p, e).name : e \in ds}
      BY <2>4 DEF EnvFor
    <3>2. ASSUME NEW y \in DOMAIN env PROVE env[y] \in ds
      <4>1. \E e \in ds : DeclOf(p, e).name = y
        BY <3>1
      <4>2. env[y] = CHOOSE e \in ds : DeclOf(p, e).name = y
        BY <2>4 DEF EnvFor
      <4> QED
        BY <4>1, <4>2
    <3> QED
      BY <3>1, <3>2
  <2>8. x \in DOMAIN env \cup DOMAIN old /\ d = IF x \in DOMAIN env THEN env[x] ELSE old[x]
    BY <1>1, <2>6 DEF With
  <2>9. CASE x \in DOMAIN env
    <3>1. d \in Carried(p, m, k)
      BY <2>3, <2>7, <2>8, <2>9
    <3>2. d \in DeclsOf(p, m) /\ d[2] < k
      BY <3>1 DEF Carried, ValuesOf
    <3>3. m \in ModsOf(ss)
      BY <1>1, <2>1 DEF ModsOf
    <3>4. d[1] = m /\ d[2] \in Nat
      BY <1>1, <2>1, <3>2, DeclIndex DEF DeclsOf
    <3>5. d[2] <= k
      BY <2>2, <3>2, <3>4
    <3> QED
      BY <1>5, <2>1, <2>2, <3>4, <3>5 DEF Reachable
  <2>10. CASE x \notin DOMAIN env
    BY <1>3, <2>5, <2>8, <2>10 DEF Reachable
  <2> QED
    BY <2>9, <2>10
<1> QED
  BY <1>4, <1>5

(* As long as the same declarations are carried out.                        *)
LEMMA FollowSame ==
  ASSUME NEW p, NEW ss, NEW st, NEW a, NEW b, ScopesFollow(p, ss, st, a, b),
         NEW tt, \A m : Carried(p, m, Through(tt, b)) = Carried(p, m, Through(st, b)) \/ m # TopOf(b).mod
  PROVE  ScopesFollow(p, ss, tt, a, b)
  BY DEF ScopesFollow

LEMMA ReplacedSame ==
  ASSUME NEW S, NEW b \in Seq(S)
  PROVE  Replaced(b, TopOf(b)) = b
<1>1. DOMAIN b = 1..Len(b) /\ b = [i \in 1..Len(b) |-> b[i]]
  BY LenProperties
<1> QED
  BY <1>1 DEF Replaced, TopOf

(* The initialiser of a constant is called.                                *)
Initialises(p, ss, st, b, g, tt) ==
  /\ StackOK(p, ss, st) /\ CallsFollow(p, st, b) /\ Len(st) = Len(b) /\ ~AtImport(p, b)
  /\ g \in EvalFrames /\ FrameOK(p, ss, g)
  /\ g.of = <<TopOf(st).mod, TopOf(st).decl - 1>> /\ DeclOf(p, g.of).kind = "const"
  /\ tt = Append(st, g)
LEMMA CallsEval ==
  ASSUME NEW p, NEW ss, NEW st, NEW b, NEW g, NEW tt, Initialises(p, ss, st, b, g, tt)
  PROVE  CallsFollow(p, tt, b) /\ Through(tt, b) = TopOf(st).decl - 1
<1>0. /\ StackOK(p, ss, st) /\ CallsFollow(p, st, b) /\ Len(st) = Len(b) /\ ~AtImport(p, b)
      /\ g \in EvalFrames /\ FrameOK(p, ss, g)
      /\ g.of = <<TopOf(st).mod, TopOf(st).decl - 1>> /\ DeclOf(p, g.of).kind = "const"
      /\ tt = Append(st, g)
  BY DEF Initialises
<1> USE <1>0
<1>1. /\ Len(b) \in Nat \ {0} /\ DOMAIN st = 1..Len(st) /\ DOMAIN b = 1..Len(b) /\ st # <<>>
      /\ b \in Seq(LoadFrames) /\ Len(st) \in Nat /\ st \in Seq(Frames)
  BY CallsTop DEF CallsFollow, StackOK
<1>2. g \in Frames
  BY DEF Frames
<1>3. Len(tt) = Len(st) + 1
  BY <1>1, <1>2, AppendProperties
<1>4. DOMAIN tt = DOMAIN st \cup {Len(st) + 1} /\ tt[Len(st) + 1] = g /\ \A i \in DOMAIN st : tt[i] = st[i]
  BY <1>2, StackPush
<1>5. \A j \in DOMAIN b : tt[j] = st[j]
  BY <1>1, <1>4
<1>6. Len(b) \in DOMAIN b /\ tt[Len(b)] = TopOf(st) /\ tt[Len(b) + 1] = g
  <2>1. Len(b) \in DOMAIN b /\ Len(b) \in DOMAIN st
    BY <1>1
  <2>2. tt[Len(b)] = st[Len(st)] /\ tt[Len(b) + 1] = g
    BY <1>4, <2>1, Zenon
  <2> QED
    BY <2>1, <2>2, Zenon DEF TopOf
<1>7. CallsFollow(p, tt, b)
  <2>1. \A j \in DOMAIN tt : ~(j > Len(b) + 1)
    BY <1>1, <1>4
  <2>2. \A j \in DOMAIN tt : j > Len(b) => tt[j] \in EvalFrames
    BY <1>1, <1>4
  <2>3. \A j \in DOMAIN b :
       /\ tt[j] \in LoadFrames /\ tt[j].mod = b[j].mod /\ tt[j].imp = b[j].imp
       /\ tt[j].decl = 1 \/ PastImports(p, b[j])
       /\ j = Len(b) \/ ~PastImports(p, b[j])
    BY <1>5 DEF CallsFollow
  <2>4. Len(b) <= Len(tt) /\ b # <<>>
    BY <1>1, <1>3 DEF CallsFollow
  <2> QED
    BY <1>1, <1>6, <2>1, <2>2, <2>3, <2>4 DEF CallsFollow
<1>8. Len(tt) > Len(b)
  BY <1>1, <1>3
<1> QED
  BY <1>6, <1>7, <1>8 DEF Through

--------------------------------------------------------------------------------
(* The interpreter's last call carries out a declaration, or has done so.    *)
LEMMA DeclNext ==
  ASSUME Types, Declaring, Top.decl <= Len(project[Top.mod].decls), NEW b, CallsFollow(project, stack, b),
         NEW tt, tt = NextDecl
  PROVE  /\ StackOK(project, scopes, tt) /\ CallsFollow(project, tt, b) /\ Len(tt) = Len(b)
         /\ Through(tt, b) = Top.decl + 1
         /\ TopOf(tt).mod = Top.mod /\ TopOf(tt).decl = Top.decl + 1
<1> DEFINE f == [Top EXCEPT !.decl = @ + 1]
<1>1. /\ stack # <<>> /\ Top.do = "load" /\ StackOK(project, scopes, stack)
      /\ Top \in Frames /\ FrameOK(project, scopes, Top)
  BY TopFrame DEF Declaring, Types
<1>2. tt = Replaced(stack, f)
  BY DEF NextDecl, Top, Replaced
<1>3. /\ f \in LoadFrames /\ FrameOK(project, scopes, f) /\ f.mod = Top.mod
      /\ Top \in LoadFrames
  BY <1>1, NextFrame
<1>4. f.imp = Top.imp /\ f.decl = Top.decl + 1
  BY <1>3 DEF LoadFrames
<1>5. /\ Len(stack) = Len(b) /\ TopOf(b) \in LoadFrames /\ TopOf(b).mod = Top.mod /\ TopOf(b).imp = Top.imp
      /\ ~AtImport(project, b)
  BY <1>1, LoadTop
<1>6. PastImports(project, TopOf(b)) /\ b \in Seq(LoadFrames)
  BY <1>5 DEF AtImport, CallsFollow
<1>7. Replaced(b, TopOf(b)) = b
  BY <1>6, ReplacedSame
<1> HIDE DEF f
<1>8. PICK g : g = TopOf(b)
  OBVIOUS
<1>9. PICK c : c = Replaced(b, g)
  OBVIOUS
<1>10. c = b
  BY <1>7, <1>8, <1>9, Zenon
<1>11. /\ g \in LoadFrames /\ f.mod = g.mod /\ f.imp = g.imp /\ PastImports(project, g)
  BY <1>3, <1>4, <1>5, <1>6, <1>8
<1>12. /\ CallsFollow(project, tt, c) /\ Through(tt, c) = f.decl /\ Len(tt) = Len(c) /\ TopOf(tt) = f
  BY <1>1, <1>2, <1>3, <1>5, <1>9, <1>11, CallsReplace
<1>13. StackOK(project, scopes, tt)
  BY <1>1, DeclMoves
<1> QED
  BY <1>3, <1>4, <1>10, <1>12, <1>13

(* What the calls evaluate.                                                *)
LEMMA EvalsAll ==
  ASSUME NEW p, NEW ss, NEW st, StackOK(p, ss, st), NEW b, CallsFollow(p, st, b), Len(st) = Len(b)
  PROVE  EvalsFollow(p, st, b)
<1>1. Len(b) \in Nat /\ DOMAIN st = 1..Len(b)
  BY CallsTop
<1> QED
  BY ONLY <1>1, EvalsNone

LEMMA EvalsKept ==
  ASSUME NEW p, NEW st, NEW b, EvalsFollow(p, st, b), NEW tt, Through(tt, b) = Through(st, b),
         \A j \in DOMAIN tt : j > Len(b) =>
           \/ \E i \in DOMAIN st : i > Len(b) /\ tt[j].of = st[i].of
           \/ Reachable(p, st, b, tt[j].of)
  PROVE  EvalsFollow(p, tt, b)
<1> SUFFICES ASSUME NEW j \in DOMAIN tt, j > Len(b) PROVE Reachable(p, tt, b, tt[j].of)
  BY Zenon DEF EvalsFollow
<1>1. Reachable(p, st, b, tt[j].of)
  <2>1. ASSUME NEW i \in DOMAIN st, i > Len(b), tt[j].of = st[i].of PROVE Reachable(p, st, b, tt[j].of)
    <3>1. Reachable(p, st, b, st[i].of)
      BY <2>1, Zenon DEF EvalsFollow
    <3> QED
      BY <2>1, <3>1
  <2> QED
    BY <2>1
<1> QED
  BY <1>1 DEF Reachable

LEMMA FuncWalks ==
  ASSUME IInv, DeclareFunc, Follows(project, scopes, stack, sigs)
  PROVE  Follows(project, scopes', stack', sigs)
<1>1. /\ Types /\ Declaring /\ Top.decl <= Len(project[Top.mod].decls) /\ stack' = NextDecl
      /\ stack # <<>> /\ Top.do = "load" /\ Decl(Declared).kind # "const"
      /\ project \in Projects /\ ScopesOK(project, scopes)
  BY DEF DeclareFunc, Declaring, IInv, Types
<1>30. PICK a, b : /\ ScopesOK(project, a) /\ Beside(project, scopes, stack, b)
                   /\ ScopesFollow(project, scopes, stack, a, b) /\ Between(project, a, b, sigs)
  BY Zenon DEF Follows
<1>2. /\ CallsFollow(project, stack, b) /\ ScopesFollow(project, scopes, stack, a, b)
      /\ ExportsFollow(project, scopes, stack, b) /\ EvalsFollow(project, stack, b) /\ ScopesOK(project, a)
  BY <1>30, Zenon DEF Beside
<1>3. TopOf(b).mod = Top.mod /\ ~AtImport(project, b) /\ Through(stack, b) = Top.decl
  BY <1>1, <1>2, LoadTop
<1>4. CallsFollow(project, stack', b) /\ Through(stack', b) = Top.decl + 1
  BY <1>1, <1>2, DeclNext
<1>5. PICK m : m = Top.mod
  OBVIOUS
<1>6. PICK d : d = Declared
  OBVIOUS
<1>7. /\ m \in ModsOf(scopes) /\ m \in STRING /\ m \in DOMAIN project
      /\ d \in DeclsOf(project, m) /\ d[2] = Top.decl
      /\ Decl(Declared) = DeclOf(project, d)
  BY <1>1, <1>5, <1>6, TopLoads, DeclaredType, DeclsAre DEF Declared
<1>8. ScopesFollow(project, scopes', stack', a, b) /\ ExportsFollow(project, scopes', stack', b)
  <2>1. CASE DeclOf(project, d).kind = "func"
    <3>1. PICK ex : ex = IF Decl(Declared).exported THEN {Decl(Declared).name} ELSE {}
      OBVIOUS
    <3>2. Bind(m, EnvOf({d}), ex)
      BY <1>5, <1>6, <1>7, <2>1, <3>1 DEF DeclareFunc
    <3>3. scopes' = AddedAt(scopes, PosOf(scopes, m), EnvFor(project, {d}), ex)
      BY <3>2, BindIs, PosIs, EnvIs
    <3>4. ex \in SUBSET STRING
      <4>1. DeclOf(project, d) \in Declarations
        BY <1>1, <1>7, DeclType
      <4>2. Decl(Declared).name \in STRING
        BY <1>7, <4>1 DEF Declarations
      <4> QED
        BY <3>1, <4>2
    <3>5. DeclOf(project, d).kind \in Values
      BY <2>1 DEF Values
    <3>6. ScopesFollow(project, scopes', stack', a, b)
      BY <1>1, <1>2, <1>3, <1>4, <1>5, <1>7, <3>3, <3>4, <3>5, FollowCarry
    <3>7. ex = IF DeclOf(project, d).exported THEN {DeclOf(project, d).name} ELSE {}
      BY <1>7, <3>1
    <3>8. b \in Seq(LoadFrames) /\ b # <<>>
      BY <1>2 DEF CallsFollow
    <3>9. ExportsFollow(project, scopes', stack', b)
      BY <1>1, <1>2, <1>3, <1>4, <1>5, <1>7, <3>3, <3>4, <3>5, <3>7, <3>8, ExportsCarry
    <3> QED
      BY <3>6, <3>9
  <2>2. CASE DeclOf(project, d).kind # "func"
    <3>1. scopes' = scopes
      BY <1>7, <2>2 DEF DeclareFunc
    <3>2. DeclOf(project, d).kind \notin Values
      BY <1>1, <1>7, <2>2 DEF Values
    <3>3. Carried(project, m, d[2] + 1) = Carried(project, m, d[2])
      BY <1>1, <1>7, <3>2, CarriedNext
    <3>4. \A n : Carried(project, n, Through(stack', b)) = Carried(project, n, Through(stack, b)) \/ n # TopOf(b).mod
      BY <1>3, <1>4, <1>5, <1>7, <3>3
    <3>5. ScopesFollow(project, scopes', stack', a, b)
      BY <1>2, <3>1, <3>4, FollowSame
    <3>6. ExportsFollow(project, scopes', stack', b)
      BY <1>2, <3>1, <3>4, ExportsSame
    <3> QED
      BY <3>5, <3>6
  <2> QED
    BY <2>1, <2>2
<1>9. EvalsFollow(project, stack', b)
  <2>1. StackOK(project, scopes, stack') /\ Len(stack') = Len(b)
    BY <1>1, <1>2, DeclNext
  <2> QED
    BY <1>4, <2>1, EvalsAll
<1>10. Beside(project, scopes', stack', b)
  BY <1>4, <1>8, <1>9, Zenon DEF Beside
<1>11. project' = project
  BY DEF DeclareFunc
<1> QED
  BY <1>2, <1>8, <1>10, <1>30, Zenon DEF Follows

LEMMA ConstWalks ==
  ASSUME IInv, EvalConst, Follows(project, scopes, stack, sigs)
  PROVE  Follows(project, scopes', stack', sigs)
<1>1. /\ Types /\ Declaring /\ Top.decl <= Len(project[Top.mod].decls)
      /\ stack # <<>> /\ Top.do = "load" /\ Decl(Declared).kind = "const"
      /\ project \in Projects /\ ScopesOK(project, scopes) /\ scopes' = scopes
      /\ stack' = Append(NextDecl, Evaluating(Declared))
  BY DEF EvalConst, Declaring, IInv, Types
<1>30. PICK a, b : /\ ScopesOK(project, a) /\ Beside(project, scopes, stack, b)
                   /\ ScopesFollow(project, scopes, stack, a, b) /\ Between(project, a, b, sigs)
  BY Zenon DEF Follows
<1>2. /\ CallsFollow(project, stack, b) /\ ScopesFollow(project, scopes, stack, a, b)
      /\ ExportsFollow(project, scopes, stack, b) /\ EvalsFollow(project, stack, b) /\ ScopesOK(project, a)
  BY <1>30, Zenon DEF Beside
<1>3. TopOf(b).mod = Top.mod /\ ~AtImport(project, b) /\ Through(stack, b) = Top.decl /\ Top.decl \in Nat
  BY <1>1, <1>2, LoadTop, TopLoads
<1>4. PICK tt : tt = NextDecl
  OBVIOUS
<1>5. /\ StackOK(project, scopes, tt) /\ CallsFollow(project, tt, b) /\ Len(tt) = Len(b)
      /\ TopOf(tt).mod = Top.mod /\ TopOf(tt).decl = Top.decl + 1
  BY <1>1, <1>2, <1>4, DeclNext
<1>6. PICK d : d = Declared
  OBVIOUS
<1>7. PICK g : g = Evaluating(d)
  OBVIOUS
<1>8. g \in Frames /\ FrameOK(project, scopes, g) /\ d \in Refs
  BY <1>1, <1>6, <1>7, DeclaredType, EvalFrame
<1>9. g \in EvalFrames /\ g.of = d
  BY <1>7, <1>8 DEF Evaluating, EvalFrames
<1>10. g.of = <<TopOf(tt).mod, TopOf(tt).decl - 1>>
  <2>1. TopOf(tt).decl - 1 = Top.decl
    BY <1>3, <1>5
  <2> QED
    BY <1>5, <1>6, <1>9, <2>1 DEF Declared
<1>11. DeclOf(project, g.of).kind = "const"
  BY <1>1, <1>6, <1>9, DeclsAre
<1>12. stack' = Append(tt, g)
  BY <1>1, <1>4, <1>6, <1>7
<1>13. CallsFollow(project, stack', b) /\ Through(stack', b) = TopOf(tt).decl - 1
  <2>1. PICK uu : uu = stack'
    OBVIOUS
  <2>2. uu = Append(tt, g)
    BY <1>12, <2>1
  <2>3. Initialises(project, scopes, tt, b, g, uu)
    BY <1>3, <1>5, <1>8, <1>9, <1>10, <1>11, <2>2, Zenon DEF Initialises
  <2> QED
    BY ONLY <2>1, <2>3, CallsEval
<1>14. Through(stack', b) = Through(stack, b)
  BY <1>3, <1>5, <1>13
<1>15. ScopesFollow(project, scopes', stack', a, b) /\ ExportsFollow(project, scopes', stack', b)
  BY <1>1, <1>2, <1>14, FollowSame, ExportsSame
<1>16. EvalsFollow(project, stack', b)
  <2>1. PICK uu : uu = stack'
    OBVIOUS
  <2>2. /\ DOMAIN uu = DOMAIN tt \cup {Len(tt) + 1} /\ uu[Len(tt) + 1] = g
        /\ DOMAIN tt = 1..Len(tt) /\ Len(tt) \in Nat
    BY <1>5, <1>8, <1>12, <2>1, StackPush, CallsTop
  <2>3. Reachable(project, stack, b, g.of)
    <3>1. d[1] = Top.mod /\ d[2] = Top.decl
      BY <1>6 DEF Declared
    <3> QED
      BY <1>3, <1>9, <3>1 DEF Reachable
  <2>4. \A j \in DOMAIN uu : j > Len(b) => uu[j] = g
    BY <1>5, <2>2
  <2>5. EvalsFollow(project, uu, b)
    BY <1>2, <1>14, <2>1, <2>3, <2>4, EvalsKept
  <2> QED
    BY <2>1, <2>5
<1>17. Beside(project, scopes', stack', b)
  BY <1>13, <1>15, <1>16, Zenon DEF Beside
<1> QED
  BY <1>2, <1>15, <1>17, <1>30, Zenon DEF Follows


(* A call that evaluates reads its next name.                              *)
LEMMA ReadNext ==
  ASSUME Types, stack # <<>>, Top.do = "eval", NEW tt, tt = NextRead
  PROVE  \E g \in EvalFrames : tt = Replaced(stack, g) /\ FrameOK(project, scopes, g) /\ g.of = Top.of
<1> DEFINE f == [Top EXCEPT !.read = @ + 1]
<1>1. tt = Replaced(stack, f)
  BY DEF NextRead, Top, Replaced
<1>2. /\ Top \in EvalFrames /\ Top.of[1] \in ModsOf(scopes)
      /\ Top.of \in DeclsOf(project, Top.of[1])
  BY TopEvals
<1>3. f \in EvalFrames /\ f.of = Top.of
  BY <1>2 DEF EvalFrames
<1>4. \A g \in EvalFrames : g \notin LoadFrames
  BY DEF LoadFrames, EvalFrames
<1> HIDE DEF f
<1>5. FrameOK(project, scopes, f)
  BY <1>2, <1>3, <1>4 DEF FrameOK
<1> QED
  BY <1>1, <1>3, <1>5

(* What a read that finds its name does to the calls.                      *)
Reads(p, ss, st, tt) ==
  \E f \in EvalFrames : \E ut :
    /\ ut = Replaced(st, f) /\ FrameOK(p, ss, f) /\ f.of = TopOf(st).of
    /\ \/ tt = ut
       \/ \E g \in EvalFrames : /\ FrameOK(p, ss, g) /\ DeclOf(p, g.of).kind = "func"
                                /\ Names(ss, g.of) /\ tt = Append(ut, g)
LEMMA EvalReads ==
  ASSUME IInv, Eval, phase' # "failed"
  PROVE  /\ Types /\ stack # <<>> /\ Top.do = "eval" /\ phase' = phase /\ scopes' = scopes
         /\ Reads(project, scopes, stack, stack')
<1> DEFINE r == Decl(Top.of).reads[Top.read]
           n == Target(Top.of[1], r)
           d == Scope(n).env[r[2]]
<1>1. /\ Types /\ stack # <<>> /\ Top.do = "eval" /\ scopes' = scopes
  BY DEF IInv, Eval, Running
<1>2. Found(Top.of[1], r) /\ phase' = phase
  BY DEF Eval
<1>3. stack' = IF Decl(d).kind = "func" THEN Append(NextRead, Evaluating(d)) ELSE NextRead
  BY <1>2 DEF Eval
<1>4. n \in ModsOf(scopes) /\ Known(n, r[2])
  BY <1>2, RegisteredAre DEF Found
<1>13. Names(scopes, d)
  <2>1. PICK k : k = At(n)
    OBVIOUS
  <2>2. k \in DOMAIN scopes /\ r[2] \in DOMAIN scopes[k].env /\ d = scopes[k].env[r[2]]
    BY <1>1, <1>4, <2>1, ScopeAt DEF Types, Known, Scope
  <2> HIDE DEF d, r
  <2> QED
    BY <2>2, Zenon DEF Names
<1> HIDE DEF n, r
<1>5. Evaluating(d) \in Frames /\ FrameOK(project, scopes, Evaluating(d))
  BY <1>1, <1>4, KnownDecl
<1> HIDE DEF d
<1>6. PICK g : g = Evaluating(d)
  OBVIOUS
<1>7. g \in EvalFrames /\ FrameOK(project, scopes, g) /\ g.of = d
  <2>1. g.do = "eval" /\ g.of = d
    BY <1>6 DEF Evaluating
  <2> QED
    BY <1>5, <1>6, <2>1 DEF Frames, LoadFrames, BodyFrames
<1>8. PICK ut : ut = NextRead
  OBVIOUS
<1>9. PICK f \in EvalFrames : ut = Replaced(stack, f) /\ FrameOK(project, scopes, f) /\ f.of = Top.of
  BY <1>1, <1>8, ReadNext
<1>10. TopOf(stack) = Top
  BY DEF TopOf, Top
<1>11. stack' = ut \/ (DeclOf(project, g.of).kind = "func" /\ stack' = Append(ut, g))
  BY <1>3, <1>6, <1>7, <1>8, DeclsAre
<1>14. Names(scopes, g.of)
  BY <1>7, <1>13
<1>12. Reads(project, scopes, stack, stack')
  BY <1>14, <1>7, <1>9, <1>10, <1>11, Zenon DEF Reads
<1> QED
  BY <1>1, <1>2, <1>12

LEMMA EvalWalks ==
  ASSUME IInv, Eval, phase' # "failed", Follows(project, scopes, stack, sigs)
  PROVE  Follows(project, scopes', stack', sigs)
<1>1. /\ Types /\ stack # <<>> /\ Top.do = "eval" /\ scopes' = scopes
      /\ Reads(project, scopes, stack, stack')
  BY EvalReads
<1>30. PICK a, b : /\ ScopesOK(project, a) /\ Beside(project, scopes, stack, b)
                   /\ ScopesFollow(project, scopes, stack, a, b) /\ Between(project, a, b, sigs)
  BY Zenon DEF Follows
<1>2. /\ CallsFollow(project, stack, b) /\ ScopesFollow(project, scopes, stack, a, b)
      /\ ExportsFollow(project, scopes, stack, b) /\ EvalsFollow(project, stack, b) /\ ScopesOK(project, a)
  BY <1>30, Zenon DEF Beside
<1>3. StackOK(project, scopes, stack) /\ TopOf(stack) = Top
  BY <1>1 DEF Types, TopOf, Top
<1>4. Len(stack) > Len(b)
  BY <1>1, <1>2, <1>3, LoadsTop
<1>5. PICK f, ut :
        /\ f \in EvalFrames
        /\ ut = Replaced(stack, f) /\ FrameOK(project, scopes, f) /\ f.of = TopOf(stack).of
        /\ \/ stack' = ut
           \/ \E g \in EvalFrames : /\ FrameOK(project, scopes, g) /\ DeclOf(project, g.of).kind = "func"
                                    /\ Names(scopes, g.of) /\ stack' = Append(ut, g)
  BY <1>1 DEF Reads
<1>6. CallsFollow(project, ut, b) /\ Through(ut, b) = Through(stack, b) /\ Len(ut) = Len(stack)
  <2>1. Onward(project, stack, ut, b) /\ Len(ut) = Len(stack)
    BY <1>2, <1>3, <1>4, <1>5, CallsMove
  <2> QED
    BY <2>1 DEF Onward
<1>7. StackOK(project, scopes, ut)
  BY <1>1, <1>3, <1>5, StackReplace DEF Frames
<1>10. EvalsFollow(project, ut, b)
  <2>1. /\ DOMAIN ut = DOMAIN stack /\ ut[Len(stack)] = f
        /\ \A i \in DOMAIN stack : i # Len(stack) => ut[i] = stack[i]
    BY <1>1, <1>3, <1>5, StackReplace DEF Frames
  <2>2. \A i \in DOMAIN stack : ut[i].of = stack[i].of
    BY <1>5, <2>1 DEF TopOf
  <2> QED
    BY <1>2, <1>6, <2>1, <2>2, EvalsKept
<1>8. /\ CallsFollow(project, stack', b) /\ Through(stack', b) = Through(stack, b)
      /\ EvalsFollow(project, stack', b)
  <2>1. CASE stack' = ut
    BY <1>6, <1>10, <2>1
  <2>2. ASSUME NEW g \in EvalFrames, FrameOK(project, scopes, g), DeclOf(project, g.of).kind = "func",
               Names(scopes, g.of), stack' = Append(ut, g)
        PROVE  /\ CallsFollow(project, stack', b) /\ Through(stack', b) = Through(stack, b)
               /\ EvalsFollow(project, stack', b)
    <3>1. Len(ut) > Len(b)
      BY <1>4, <1>6
    <3>2. PICK tt : tt = stack'
      OBVIOUS
    <3>3. tt = Append(ut, g)
      BY <2>2, <3>2
    <3>4. Onward(project, ut, tt, b)
      BY <1>6, <1>7, <2>2, <3>1, <3>3, CallsCall
    <3>5. CallsFollow(project, tt, b) /\ Through(tt, b) = Through(ut, b)
      BY <3>4 DEF Onward
    <3>6. Reachable(project, ut, b, g.of)
      <4>1. Walked(project, a, b) /\ project \in Projects /\ ScopesOK(project, scopes)
        BY <1>1, <1>30, WalkedFrom DEF Between, Types
      <4>2. Through(stack, b) \in Int
        BY <1>2, <1>3, CallsTop
      <4>3. Reachable(project, stack, b, g.of)
        BY <1>2, <2>2, <4>1, <4>2, NamesReachable
      <4> QED
        BY <1>6, <4>3 DEF Reachable
    <3>7. EvalsFollow(project, tt, b)
      <4>1. g \in Frames
        BY DEF Frames
      <4>2. DOMAIN tt = DOMAIN ut \cup {Len(ut) + 1} /\ tt[Len(ut) + 1] = g /\ \A i \in DOMAIN ut : tt[i] = ut[i]
        BY <1>7, <2>2, <3>3, <4>1, StackPush
      <4> QED
        BY <1>10, <3>5, <3>6, <4>2, EvalsKept
    <3> QED
      BY <1>6, <3>2, <3>5, <3>7
  <2> QED
    BY <1>5, <2>1, <2>2
<1>9. ScopesFollow(project, scopes', stack', a, b) /\ ExportsFollow(project, scopes', stack', b)
  BY <1>1, <1>2, <1>8, FollowSame, ExportsSame
<1>11. Beside(project, scopes', stack', b)
  BY <1>8, <1>9, Zenon DEF Beside
<1> QED
  BY <1>2, <1>9, <1>11, <1>30, Zenon DEF Follows

LEMMA EvaluatedWalks ==
  ASSUME IInv, Evaluated, phase = "load", Follows(project, scopes, stack, sigs)
  PROVE  phase' = "load" /\ Follows(project, scopes', stack', sigs)
<1>1. /\ Types /\ stack # <<>> /\ Top.do = "eval" /\ stack' = Pop
      /\ project \in Projects /\ ScopesOK(project, scopes)
  BY DEF Evaluated, Running, IInv, Types
<1>30. PICK a, b : /\ ScopesOK(project, a) /\ Beside(project, scopes, stack, b)
                   /\ ScopesFollow(project, scopes, stack, a, b) /\ Between(project, a, b, sigs)
  BY Zenon DEF Follows
<1>2. /\ CallsFollow(project, stack, b) /\ ScopesFollow(project, scopes, stack, a, b)
      /\ ExportsFollow(project, scopes, stack, b) /\ EvalsFollow(project, stack, b) /\ ScopesOK(project, a)
  BY <1>30, Zenon DEF Beside
<1>3. StackOK(project, scopes, stack) /\ TopOf(stack) = Top
  BY <1>1 DEF Types, TopOf, Top
<1>4. Len(stack) > Len(b) /\ Len(b) \in Nat \ {0} /\ Len(stack) \in Nat
  BY <1>1, <1>2, <1>3, LoadsTop, CallsTop
<1>5. phase' = "load"
  <2>1. Len(stack) # 1
    <3>1. \A n, k : n > k /\ k \in Nat \ {0} /\ n \in Nat => n # 1
      OBVIOUS
    <3> QED
      BY ONLY <1>4, <3>1, Zenon
  <2> QED
    BY <2>1 DEF Evaluated
<1>6. stack' = SubSeq(stack, 1, Len(stack) - 1)
  BY <1>1 DEF Pop
<1>10. PICK tt : tt = stack'
  OBVIOUS
<1>11. /\ CallsFollow(project, tt, b)
       /\ Len(stack) > Len(b) + 1 => Through(tt, b) = Through(stack, b)
       /\ Len(stack) = Len(b) + 1 => Through(tt, b) = Through(stack, b) + 1
  <2>1. tt = SubSeq(stack, 1, Len(stack) - 1)
    BY <1>6, <1>10
  <2>2. Returned(project, stack, tt, b)
    BY <1>2, <1>3, <1>4, <2>1, CallsBack
  <2> QED
    BY <2>2 DEF Returned
<1>7. CallsFollow(project, stack', b)
  BY <1>10, <1>11
<1>12. /\ StackOK(project, scopes, tt) /\ Len(tt) = Len(stack) - 1
       /\ \A i \in DOMAIN tt : i \in DOMAIN stack /\ tt[i] = stack[i]
  BY <1>1, <1>3, <1>6, <1>10, StackPop
<1>8. CASE Len(stack) > Len(b) + 1
  <2>1. Through(stack', b) = Through(stack, b)
    BY <1>8, <1>10, <1>11
  <2>2. Len(stack) \in DOMAIN stack
    BY <1>1, <1>3, StackTop
  <2>3. DeclOf(project, Top.of).kind = "func"
    BY <1>2, <1>8, <2>2 DEF CallsFollow, Top
  <2>4. scopes' = scopes
    BY <2>3, DeclsAre DEF Evaluated
  <2>5. ScopesFollow(project, scopes', stack', a, b) /\ ExportsFollow(project, scopes', stack', b)
    BY <1>2, <2>1, <2>4, FollowSame, ExportsSame
  <2>6. EvalsFollow(project, tt, b)
    BY <1>2, <1>10, <1>12, <2>1, EvalsKept
  <2>7. Beside(project, scopes', stack', b)
    BY <1>7, <1>10, <2>5, <2>6, Zenon DEF Beside
  <2> QED
    BY <1>2, <1>5, <2>5, <2>7, <1>30, Zenon DEF Follows
<1>9. CASE Len(stack) = Len(b) + 1
  <2>1. Through(stack', b) = Through(stack, b) + 1
    BY <1>9, <1>10, <1>11
  <2>2. PICK d : d = Top.of
    OBVIOUS
  <2>3. /\ ~AtImport(project, b) /\ d = <<stack[Len(b)].mod, stack[Len(b)].decl - 1>>
        /\ DeclOf(project, d).kind = "const"
    BY <1>2, <1>4, <1>9, <2>2 DEF CallsFollow, Top
  <2>4. PICK m : m = TopOf(b).mod
    OBVIOUS
  <2>5. d[1] = m /\ Through(stack, b) = d[2]
    <3>1. stack[Len(b)].mod = TopOf(b).mod
      BY <1>2, <1>3, CallsTop
    <3> QED
      BY <1>4, <2>3, <2>4, <3>1 DEF Through
  <2>6. m \in ModsOf(scopes) /\ d \in DeclsOf(project, m) /\ Decl(d) = DeclOf(project, d) /\ Decl(d) \in Declarations
    BY <1>1, <2>2, <2>5, TopEvals, DeclsAre
  <2>7. PICK ex : ex = IF Decl(d).exported THEN {Decl(d).name} ELSE {}
    OBVIOUS
  <2>8. Bind(m, EnvOf({d}), ex)
    BY <2>2, <2>3, <2>5, <2>6, <2>7 DEF Evaluated
  <2>9. scopes' = AddedAt(scopes, PosOf(scopes, m), EnvFor(project, {d}), ex)
    BY <2>8, BindIs, PosIs, EnvIs
  <2>10. ex \in SUBSET STRING
    <3>1. Decl(d).name \in STRING
      BY <2>6 DEF Declarations
    <3> QED
      BY <2>7, <3>1
  <2>11. DeclOf(project, d).kind \in Values
    BY <2>3 DEF Values
  <2>12. ~AtImport(project, b) /\ Through(stack', b) = d[2] + 1
    BY <2>1, <2>3, <2>5
  <2>13. ScopesFollow(project, scopes', stack', a, b)
    BY <1>1, <1>2, <2>4, <2>5, <2>6, <2>9, <2>10, <2>11, <2>12, FollowCarry
  <2>14. ex = IF DeclOf(project, d).exported THEN {DeclOf(project, d).name} ELSE {}
    BY <2>6, <2>7
  <2>15. b \in Seq(LoadFrames) /\ b # <<>>
    BY <1>2 DEF CallsFollow
  <2>16. ExportsFollow(project, scopes', stack', b)
    BY <1>1, <1>2, <2>4, <2>5, <2>6, <2>9, <2>10, <2>11, <2>12, <2>14, <2>15, ExportsCarry
  <2>17. EvalsFollow(project, tt, b)
    <3>1. Len(tt) = Len(b)
      BY <1>4, <1>9, <1>12
    <3> QED
      BY <1>11, <1>12, <3>1, EvalsAll
  <2>18. Beside(project, scopes', stack', b)
    BY <1>7, <1>10, <2>16, <2>17, Zenon DEF Beside
  <2> QED
    BY <1>2, <1>5, <2>13, <2>18, <1>30, Zenon DEF Follows
<1> QED
  BY <1>4, <1>8, <1>9

--------------------------------------------------------------------------------
(* The interpreter starts where the walk does.                              *)
LEMMA FirstFollows ==
  ASSUME Types, NEW gs, LeadsTo(project, Started, <<gs, <<>>>>),
         NEW ss, ss = <<NewScope("main")>>, NEW st, st = <<Loading("main")>>
  PROVE  Follows(project, ss, st, gs)
<1>1. project \in Projects /\ "main" \in DOMAIN project
  BY ProjectsAssumption DEF Types
<1>2. PICK m \in STRING : m = "main"
  <2>1. "main" \in STRING
    BY <1>1, ProjectsAssumption DEF Types
  <2> QED
    BY <2>1, Zenon
<1>3. ss = <<NewScope(m)>> /\ st = <<Loading(m)>> /\ m \in DOMAIN project
  BY <1>1, <1>2
<1>4. ScopesOK(project, ss) /\ ModsOf(ss) = {m}
  BY <1>3, FirstScope
<1>5. PICK f : f = Loading(m)
  OBVIOUS
<1>6. f \in LoadFrames /\ f.decl = 1
  BY <1>5 DEF Loading, LoadFrames
<1>7. st = <<f>> /\ st \in Seq(LoadFrames) /\ st # <<>> /\ Len(st) = 1 /\ DOMAIN st = {1} /\ st[1] = f
  BY <1>3, <1>5, <1>6
<1>8. CallsFollow(project, st, st)
  <2>1. \A j \in DOMAIN st : ~(j > 1) /\ st[j] = f /\ j = Len(st)
    BY <1>7
  <2> QED
    BY <1>6, <1>7, <2>1 DEF CallsFollow
<1>9. Through(st, st) = 1
  BY <1>6, <1>7 DEF Through
<1>10. ScopesFollow(project, ss, st, ss, st)
  BY <1>1, <1>4, <1>9, FollowEqual
<1>11. Between(project, ss, st, gs)
  <2>1. Started = <<ss, st>>
    BY Zenon DEF Started
  <2> QED
    BY <2>1, LeadsSelf, Zenon DEF Between
<1>12. ExportsFollow(project, ss, st, st)
  <2>1. NewScope(m).exports = {} /\ NewScope(m).mod = m
    BY NewScopeType
  <2>2. PICK s : s = NewScope(m)
    OBVIOUS
  <2>3. DOMAIN ss = {1} /\ ss[1] = s
    <3>1. ss = <<s>>
      BY <1>3, <2>2
    <3> QED
      BY ONLY <3>1
  <2>4. f.mod = m
    BY <1>5 DEF Loading
  <2>5. m \in ModsOn(st)
    BY <1>7, <2>4 DEF ModsOn
  <2>6. NoneOrAll(project, ss, st)
    BY <2>1, <2>2, <2>3, <2>5 DEF NoneOrAll
  <2> QED
    BY <1>1, <1>4, <1>9, <2>6, ExportsStart
<1>13. EvalsFollow(project, st, st)
  <2>1. 1 \in Nat /\ Len(st) = 1 /\ DOMAIN st = 1..1
    BY <1>7
  <2> QED
    BY ONLY <2>1, EvalsNone
<1>14. Beside(project, ss, st, st)
  BY <1>8, <1>12, <1>13, Zenon DEF Beside
<1> QED
  BY <1>4, <1>10, <1>11, <1>14, Zenon DEF Follows

(* A module is complete: the walk declares it, and has the same names.      *)
Ended(p, ss, b, gs) ==
  \E c : /\ ScopesOK(p, c) /\ DOMAIN c = DOMAIN ss
         /\ \A i \in DOMAIN ss : c[i].mod = ss[i].mod /\ ss[i].env = c[i].env
         /\ Between(p, c, SubSeq(b, 1, Len(b) - 1), gs) /\ NoneOrAll(p, ss, SubSeq(b, 1, Len(b) - 1))
LEMMA CompleteWalks ==
  ASSUME IInv, Populated, Follows(project, scopes, stack, sigs)
  PROVE  /\ Types /\ StackOK(project, scopes, stack)
         /\ \E b : CallsFollow(project, stack, b) /\ Len(stack) = Len(b) /\ Ended(project, scopes, b, sigs)
<1>1. /\ Types /\ Declaring /\ stack # <<>> /\ Top.do = "load"
      /\ project \in Projects /\ ScopesOK(project, scopes) /\ StackOK(project, scopes, stack)
      /\ Top.decl > Len(project[Top.mod].decls)
  BY DEF Populated, Declaring, IInv, Types
<1>30. PICK a, b : /\ ScopesOK(project, a) /\ Beside(project, scopes, stack, b)
                   /\ ScopesFollow(project, scopes, stack, a, b) /\ Between(project, a, b, sigs)
  BY Zenon DEF Follows
<1>2. /\ CallsFollow(project, stack, b) /\ ScopesFollow(project, scopes, stack, a, b)
      /\ ExportsFollow(project, scopes, stack, b) /\ ScopesOK(project, a)
  BY <1>30, Zenon DEF Beside
<1>3. PICK m : m = Top.mod
  OBVIOUS
<1>4. /\ b # <<>> /\ Len(stack) = Len(b) /\ TopOf(b).mod = m /\ ~AtImport(project, b)
      /\ Through(stack, b) = Top.decl
  BY <1>1, <1>2, <1>3, LoadTop
<1>5. /\ m \in ModsOf(scopes) /\ m \in STRING /\ m \in DOMAIN project /\ Top.decl \in Int
  BY <1>1, <1>3, TopLoads
<1>7. PICK env : env = EnvFor(project, ValuesOf(project, m))
  OBVIOUS
<1>8. PICK k : k = PosOf(a, m)
  OBVIOUS
<1>9. PICK ex : ex = PublicsOf(project, m)
  OBVIOUS
<1>10. PICK c : c = AddedAt(a, k, env, ex)
  OBVIOUS
<1>11. StepOf(project, a, b) = <<c, SubSeq(b, 1, Len(b) - 1)>>
  BY <1>4, <1>7, <1>8, <1>9, <1>10, Zenon DEF StepOf, Declare
<1>12. DOMAIN a = DOMAIN scopes /\ \A i \in DOMAIN scopes : a[i].mod = scopes[i].mod
  BY <1>2 DEF ScopesFollow
<1>13. ModsOf(a) = ModsOf(scopes)
  BY <1>1, <1>2, <1>12, SamePos
<1>14. /\ k \in DOMAIN a /\ a[k].mod = m /\ \A i \in DOMAIN a : a[i].mod = m => i = k
  BY <1>2, <1>5, <1>8, <1>13, PosType
<1>15. GoodEnv(project, a, env)
  <2>1. ValuesOf(project, m) \in SUBSET DeclsOf(project, m)
    BY DEF ValuesOf
  <2>2. m \in ModsOf(a)
    BY <1>5, <1>13
  <2> QED
    BY <1>1, <1>5, <1>7, <2>1, <2>2, EnvForType
<1>16. ex \in SUBSET STRING /\ ex \subseteq PublicsOf(project, a[k].mod)
  <2>1. \A d \in DeclsOf(project, m) : DeclOf(project, d).name \in STRING
    BY <1>1, <1>5, DeclType DEF Declarations
  <2> QED
    BY <1>9, <1>14, <2>1 DEF PublicsOf
<1>17. ScopesOK(project, c)
  BY <1>2, <1>10, <1>14, <1>15, <1>16, ScopesAdd
<1>18. /\ DOMAIN c = DOMAIN a /\ \A i \in DOMAIN a : c[i].mod = a[i].mod
       /\ \A i \in DOMAIN a : i # k => c[i] = a[i]
       /\ c[k].env = With(env, a[k].env)
  <2>1. a \in Seq(Scopes) /\ env \in Envs
    BY <1>2, <1>15 DEF ScopesOK, GoodEnv
  <2> QED
    BY ONLY <1>10, <1>14, <1>16, <2>1, AddedScope
<1>19. Carried(project, m, Through(stack, b)) = ValuesOf(project, m)
  BY <1>1, <1>3, <1>4, <1>5, CarriedAll
<1>20. ASSUME NEW i \in DOMAIN scopes PROVE scopes[i].env = c[i].env
  <2>1. CASE i = k
    <3>1. scopes[k].mod = m
      BY <1>12, <1>14
    <3>2. scopes[k].env = With(EnvFor(project, Carried(project, m, Through(stack, b))), a[k].env)
      BY <1>2, <1>4, <1>12, <1>14, <3>1 DEF ScopesFollow
    <3> QED
      BY <1>7, <1>18, <1>19, <2>1, <3>2, Zenon
  <2>2. CASE i # k
    <3>1. scopes[i].mod # m
      BY <1>12, <1>14, <2>2
    <3>2. scopes[i].env = a[i].env
      BY <1>2, <1>4, <3>1 DEF ScopesFollow
    <3> QED
      BY <1>12, <1>18, <2>2, <3>2
  <2> QED
    BY <2>1, <2>2
<1>21. DOMAIN c = DOMAIN scopes /\ \A i \in DOMAIN scopes : c[i].mod = scopes[i].mod
  BY <1>12, <1>18
<1>6. PICK e : e = SubSeq(b, 1, Len(b) - 1)
  OBVIOUS
<1>23. Between(project, c, e, sigs)
  <2>1. StepOf(project, a, b) = <<c, e>>
    BY <1>6, <1>11
  <2> QED
    BY <1>4, <1>30, <2>1, BetweenStep
<1>24. NoneOrAll(project, scopes, e)
  <2>1. Walked(project, a, b)
    BY <1>1, <1>30, WalkedFrom DEF Between
  <2>2. Left(a, b, c, e, m)
    BY <1>1, <1>4, <1>6, <1>7, <1>8, <1>9, <1>10, <2>1, WalkedDeclare
  <2>3. ModsOn(b) = ModsOn(e) \cup {m} /\ m \notin ModsOn(e)
    BY <2>2 DEF Left
  <2> QED
    BY <1>2, <1>4, <1>19, <2>3, NoneLeave
<1>22. Ended(project, scopes, b, sigs)
  BY <1>6, <1>17, <1>20, <1>21, <1>23, <1>24, Zenon DEF Ended
<1> QED
  BY <1>1, <1>2, <1>4, <1>22, Zenon

LEMMA ReturnWalks ==
  ASSUME IInv, Populated, Follows(project, scopes, stack, sigs), Len(stack) > 1
  PROVE  Follows(project, scopes', stack', sigs)
<1>1. PICK b : /\ CallsFollow(project, stack, b) /\ Len(stack) = Len(b) /\ Ended(project, scopes, b, sigs)
  BY CompleteWalks
<1>2. /\ Types /\ StackOK(project, scopes, stack) /\ project \in Projects /\ ScopesOK(project, scopes)
  BY CompleteWalks DEF Types
<1>3. PICK tt : tt = SubSeq(stack, 1, Len(stack) - 1)
  OBVIOUS
<1>4. PICK c : c = SubSeq(b, 1, Len(b) - 1)
  OBVIOUS
<1>5. stack' = tt /\ scopes' = scopes
  BY <1>3 DEF Populated, Pop
<1>6. CallsFollow(project, tt, c) /\ AtImport(project, c) /\ EvalsFollow(project, tt, c)
  <2>1. Len(stack) > 1
    OBVIOUS
  <2>2. Resumed(project, tt, c)
    BY <1>1, <1>2, <1>3, <1>4, <2>1, CallsReturn
  <2> QED
    BY <2>2 DEF Resumed
<1>7. PICK a : /\ ScopesOK(project, a) /\ DOMAIN a = DOMAIN scopes
               /\ \A i \in DOMAIN scopes : a[i].mod = scopes[i].mod /\ scopes[i].env = a[i].env
               /\ Between(project, a, c, sigs) /\ NoneOrAll(project, scopes, c)
  BY <1>1, <1>4, Zenon DEF Ended
<1>8. ScopesFollow(project, scopes, tt, a, c) /\ ExportsFollow(project, scopes, tt, c)
  BY <1>2, <1>6, <1>7, FollowEqual, ExportsStart
<1>9. Beside(project, scopes, tt, c)
  BY <1>6, <1>8, Zenon DEF Beside
<1>10. project' = project
  BY DEF Populated
<1> QED
  BY <1>5, <1>7, <1>8, <1>9, Zenon DEF Follows

(* When the first module is complete the walk is over.                      *)
LEMMA LoadedSame ==
  ASSUME IInv, Populated, Follows(project, scopes, stack, sigs), ~(Len(stack) > 1)
  PROVE  Same(scopes, sigs) /\ Ready(project, scopes, sigs)
<1>1. PICK b : /\ CallsFollow(project, stack, b) /\ Len(stack) = Len(b) /\ Ended(project, scopes, b, sigs)
  BY CompleteWalks
<1>2. StackOK(project, scopes, stack)
  BY CompleteWalks
<1>3. Len(b) = 1 /\ b \in Seq(LoadFrames)
  <2>1. Len(b) \in Nat \ {0}
    BY <1>1, <1>2, CallsTop
  <2>2. b \in Seq(LoadFrames)
    BY <1>1 DEF CallsFollow
  <2> QED
    BY <1>1, <2>1, <2>2
<1>4. PICK c : c = SubSeq(b, 1, Len(b) - 1)
  OBVIOUS
<1>5. c = <<>>
  <2>1. c \in Seq(LoadFrames) /\ Len(c) = 0
    BY <1>3, <1>4, SubSeqProperties
  <2> QED
    BY ONLY <2>1, EmptySeq
<1>6. PICK a : /\ DOMAIN a = DOMAIN scopes
               /\ \A i \in DOMAIN scopes : a[i].mod = scopes[i].mod /\ scopes[i].env = a[i].env
               /\ Between(project, a, c, sigs) /\ NoneOrAll(project, scopes, c)
  BY <1>1, <1>4, Zenon DEF Ended
<1>7. a = sigs
  BY <1>5, <1>6, LeadsEnd DEF Between
<1>8. Ready(project, scopes, sigs)
  BY <1>5, <1>6, <1>7, Zenon DEF Ready, Between
<1> QED
  BY <1>6, <1>7, <1>8 DEF Same

(* main is called, and whatever it calls is a function too.                  *)
LEMMA MainRuns ==
  ASSUME IInv, Populated, phase' = "run"
  PROVE  OnlyFuncs(project, stack') /\ ~(Len(stack) > 1) /\ scopes' = scopes
<1>1. phase = "load" /\ Types /\ "main" \in ModsOf(scopes)
  BY DEF Populated, IInv, Types
<1>2. ~(Len(stack) > 1) /\ HasMain /\ scopes' = scopes /\ stack' = <<Evaluating(Scope("main").env["main"])>>
  BY <1>1 DEF Populated
<1>3. PICK d : d = Scope("main").env["main"]
  OBVIOUS
<1>4. DeclOf(project, d).kind = "func" /\ Known("main", "main")
  BY <1>2, <1>3, DeclsAre DEF HasMain
<1>5. PICK g : g = Evaluating(d)
  OBVIOUS
<1>6. g \in EvalFrames /\ g.of = d
  <2>1. PICK m \in ModsOf(scopes) : m = "main"
    BY <1>1
  <2>2. Evaluating(Scope(m).env[m]) \in Frames
    BY <1>1, <1>4, <2>1, KnownDecl
  <2>3. g \in Frames
    BY <1>3, <1>5, <2>1, <2>2
  <2>4. g.do = "eval" /\ g.of = d
    BY <1>5 DEF Evaluating
  <2> QED
    BY <2>3, <2>4 DEF Frames, LoadFrames, BodyFrames
<1>7. stack' = <<g>>
  BY <1>2, <1>3, <1>5
<1>8. OnlyFuncs(project, stack')
  BY <1>4, <1>6, <1>7 DEF OnlyFuncs
<1> QED
  BY <1>2, <1>8

LEMMA RunReads ==
  ASSUME IInv, Eval, phase' # "failed", OnlyFuncs(project, stack)
  PROVE  OnlyFuncs(project, stack') /\ scopes' = scopes
<1>1. /\ Types /\ stack # <<>> /\ scopes' = scopes /\ Reads(project, scopes, stack, stack')
  BY EvalReads
<1>2. StackOK(project, scopes, stack)
  BY <1>1 DEF Types
<1>3. PICK f, ut :
        /\ f \in EvalFrames
        /\ ut = Replaced(stack, f) /\ FrameOK(project, scopes, f) /\ f.of = TopOf(stack).of
        /\ \/ stack' = ut
           \/ \E g \in EvalFrames : /\ FrameOK(project, scopes, g) /\ DeclOf(project, g.of).kind = "func"
                                    /\ Names(scopes, g.of) /\ stack' = Append(ut, g)
  BY <1>1 DEF Reads
<1>4. /\ StackOK(project, scopes, ut) /\ DOMAIN ut = DOMAIN stack /\ ut[Len(stack)] = f
      /\ \A i \in DOMAIN stack : i # Len(stack) => ut[i] = stack[i]
  BY <1>1, <1>2, <1>3, StackReplace DEF Frames
<1>5. Len(stack) \in DOMAIN stack
  BY <1>1, <1>2, StackTop
<1>6. OnlyFuncs(project, ut)
  BY <1>3, <1>4, <1>5 DEF OnlyFuncs, TopOf
<1>7. ASSUME NEW g \in EvalFrames, FrameOK(project, scopes, g), DeclOf(project, g.of).kind = "func",
             stack' = Append(ut, g)
      PROVE  OnlyFuncs(project, stack')
  <2>1. PICK tt : tt = stack'
    OBVIOUS
  <2>2. g \in Frames /\ tt = Append(ut, g)
    BY <1>7, <2>1 DEF Frames
  <2>3. DOMAIN tt = DOMAIN ut \cup {Len(ut) + 1} /\ tt[Len(ut) + 1] = g /\ \A i \in DOMAIN ut : tt[i] = ut[i]
    BY <1>4, <1>7, <2>2, StackPush
  <2>4. OnlyFuncs(project, tt)
    BY <1>6, <1>7, <2>3 DEF OnlyFuncs
  <2> QED
    BY <2>1, <2>4
<1> QED
  BY <1>1, <1>3, <1>6, <1>7

LEMMA RunReturns ==
  ASSUME IInv, Evaluated, OnlyFuncs(project, stack)
  PROVE  OnlyFuncs(project, stack') /\ scopes' = scopes
<1>1. /\ Types /\ stack # <<>> /\ stack' = Pop /\ StackOK(project, scopes, stack)
  BY DEF Evaluated, Running, IInv, Types
<1>2. Len(stack) \in DOMAIN stack
  BY <1>1, StackTop
<1>3. scopes' = scopes
  BY <1>2, DeclsAre DEF OnlyFuncs, Evaluated, Top
<1>4. PICK tt : tt = Pop
  OBVIOUS
<1>5. \A i \in DOMAIN tt : i \in DOMAIN stack /\ tt[i] = stack[i]
  BY <1>1, <1>4, StackPop DEF Pop
<1> QED
  BY <1>1, <1>3, <1>4, <1>5 DEF OnlyFuncs

--------------------------------------------------------------------------------
LEMMA WalkKeeps == IInv /\ WalkInv /\ [Next]_vars => WalkInv'
<1> SUFFICES ASSUME IInv, WalkInv, [Next]_vars PROVE WalkInv'
  OBVIOUS
<1>0. Types
  BY DEF IInv
<1>1. CASE UNCHANGED vars
  BY <1>1 DEF vars, WalkInv
<1>2. CASE Stopped
  BY <1>2 DEF Stopped, vars, WalkInv
<1>3. CASE LoadImport
  <2>1. project' = project /\ sigs' = sigs /\ errors' = errors
    BY <1>3 DEF LoadImport
  <2>2. CASE phase = "sigs" /\ phase' = "sigs"
    <3>1. CASE errors
      BY <2>1, <2>2, <3>1 DEF WalkInv
    <3>2. CASE ~errors
      <4>1. LeadsTo(project, Started, <<scopes, stack>>)
        BY <2>2, <3>2 DEF WalkInv
      <4>2. CanStep(project, scopes, stack) /\ <<scopes', stack'>> = StepOf(project, scopes, stack)
        BY <1>0, <1>3, <2>2, SigsImport
      <4>3. LeadsTo(project, Started, <<scopes', stack'>>)
        BY <4>1, <4>2, LeadsStep
      <4> QED
        BY <2>1, <2>2, <4>3 DEF WalkInv
    <3> QED
      BY <3>1, <3>2
  <2>3. CASE phase = "load" /\ phase' = "load"
    <3>1. Follows(project, scopes', stack', sigs)
      BY <1>3, <2>3, ImportWalks DEF WalkInv
    <3> QED
      BY <2>1, <2>3, <3>1 DEF WalkInv
  <2>4. CASE phase' \in {"rejected", "failed"}
    BY <2>4 DEF WalkInv
  <2> QED
    BY <1>3, <2>2, <2>3, <2>4 DEF LoadImport
<1>4. CASE SelectSigs
  <2>1. project' = project /\ phase' = "sigs" /\ phase = "sigs"
    BY <1>4 DEF SelectSigs
  <2>2. CASE errors'
    BY <2>1, <2>2 DEF WalkInv
  <2>3. CASE ~errors'
    <3>1. ~errors /\ CanStep(project, scopes, stack) /\ <<scopes', stack'>> = StepOf(project, scopes, stack)
      BY <1>0, <1>4, <2>3, SigsSelect
    <3>2. LeadsTo(project, Started, <<scopes, stack>>)
      BY <2>1, <3>1 DEF WalkInv
    <3>3. LeadsTo(project, Started, <<scopes', stack'>>)
      BY <3>1, <3>2, LeadsStep
    <3> QED
      BY <2>1, <3>3 DEF WalkInv
  <2> QED
    BY <2>2, <2>3
<1>5. CASE DeclareSigs
  <2>1. project' = project /\ errors' = errors /\ phase = "sigs" /\ phase' \in {"sigs", "bodies"}
    BY <1>5 DEF DeclareSigs
  <2>2. CASE errors
    BY <2>1, <2>2 DEF WalkInv
  <2>3. CASE ~errors
    <3>1. CanStep(project, scopes, stack) /\ StepOf(project, scopes, stack) = <<scopes', Pop>>
      BY <1>0, <1>5, SigsDeclare
    <3>2. LeadsTo(project, Started, <<scopes, stack>>)
      BY <2>1, <2>3 DEF WalkInv
    <3>3. LeadsTo(project, Started, <<scopes', Pop>>)
      BY <3>1, <3>2, LeadsStep
    <3>4. CASE Len(stack) > 1
      <4>1. phase' = "sigs" /\ stack' = Pop
        BY <1>5, <2>1, <3>4 DEF DeclareSigs
      <4> QED
        BY <2>1, <3>3, <4>1 DEF WalkInv
    <3>5. CASE ~(Len(stack) > 1)
      <4>1. phase' = "bodies"
        BY <1>5, <3>5 DEF DeclareSigs
      <4>2. Pop = <<>>
        BY <1>0, <1>5, <3>5, SigsDeclare
      <4>3. LeadsTo(project, Started, <<scopes', <<>>>>)
        BY <3>3, <4>2
      <4> QED
        BY <2>1, <4>1, <4>3 DEF WalkInv
    <3> QED
      BY <3>4, <3>5
  <2> QED
    BY <2>2, <2>3
<1>6. CASE CheckBody
  <2>1. project' = project /\ phase = "bodies" /\ phase' = "bodies" /\ scopes' = scopes
    BY <1>6 DEF CheckBody
  <2>2. errors => errors'
    BY <1>6 DEF CheckBody
  <2>3. errors \/ LeadsTo(project, Started, <<scopes, <<>>>>)
    BY <2>1 DEF WalkInv
  <2> QED
    BY <2>1, <2>2, <2>3 DEF WalkInv
<1>7. CASE Verdict
  <2>1. CASE errors
    BY <1>7, <2>1 DEF Verdict, WalkInv
  <2>2. CASE ~errors
    <3>1. /\ phase = "bodies" /\ phase' = "load" /\ project' = project /\ sigs' = scopes
          /\ stack' = <<Loading("main")>> /\ scopes' = <<NewScope("main")>>
      BY <1>7, <2>2 DEF Verdict
    <3>2. LeadsTo(project, Started, <<scopes, <<>>>>)
      BY <2>2, <3>1 DEF WalkInv
    <3>3. Follows(project, scopes', stack', sigs')
      BY <1>0, <3>1, <3>2, FirstFollows
    <3> QED
      BY <3>1, <3>3 DEF WalkInv
  <2> QED
    BY <2>1, <2>2
<1>8. CASE SelectValues
  <2>1. project' = project /\ sigs' = sigs /\ phase = "load" /\ phase' \in {"load", "failed"}
    BY <1>8 DEF SelectValues
  <2>2. phase' = "load" => Follows(project, scopes', stack', sigs)
    BY <1>8, <2>1, PickWalks DEF WalkInv
  <2> QED
    BY <2>1, <2>2 DEF WalkInv
<1>9. CASE DeclareFunc
  <2>1. project' = project /\ sigs' = sigs /\ phase = "load" /\ phase' = "load"
    BY <1>9 DEF DeclareFunc
  <2>2. Follows(project, scopes', stack', sigs)
    BY <1>9, <2>1, FuncWalks DEF WalkInv
  <2> QED
    BY <2>1, <2>2 DEF WalkInv
<1>10. CASE EvalConst
  <2>1. project' = project /\ sigs' = sigs /\ phase = "load" /\ phase' = "load"
    BY <1>10 DEF EvalConst
  <2>2. Follows(project, scopes', stack', sigs)
    BY <1>10, <2>1, ConstWalks DEF WalkInv
  <2> QED
    BY <2>1, <2>2 DEF WalkInv
<1>11. CASE Populated
  <2>1. project' = project /\ sigs' = sigs /\ phase = "load" /\ Follows(project, scopes, stack, sigs)
    BY <1>11 DEF Populated, WalkInv
  <2>2. CASE Len(stack) > 1
    <3>1. phase' = "load"
      BY <1>11, <2>1, <2>2 DEF Populated
    <3>2. Follows(project, scopes', stack', sigs)
      BY <1>11, <2>1, <2>2, ReturnWalks
    <3> QED
      BY <2>1, <3>1, <3>2 DEF WalkInv
  <2>3. CASE ~(Len(stack) > 1)
    <3>1. phase' \in {"run", "failed"}
      BY <1>11, <2>3 DEF Populated
    <3>2. Same(scopes, sigs) /\ Ready(project, scopes, sigs)
      BY <1>11, <2>1, <2>3, LoadedSame
    <3>3. phase' = "run" => OnlyFuncs(project, stack') /\ scopes' = scopes
      BY <1>11, MainRuns
    <3> QED
      BY <2>1, <3>1, <3>2, <3>3 DEF WalkInv
  <2> QED
    BY <2>2, <2>3
<1>12. CASE Eval
  <2>1. project' = project /\ sigs' = sigs /\ phase \in {"load", "run"} /\ phase' \in {phase, "failed"}
    BY <1>12 DEF Eval, Running
  <2>2. CASE phase' = "failed"
    BY <2>2 DEF WalkInv
  <2>3. CASE phase' # "failed" /\ phase = "load"
    <3>1. Follows(project, scopes', stack', sigs)
      BY <1>12, <2>3, EvalWalks DEF WalkInv
    <3> QED
      BY <2>1, <2>3, <3>1 DEF WalkInv
  <2>4. CASE phase' # "failed" /\ phase = "run"
    <3>1. OnlyFuncs(project, stack) /\ Same(scopes, sigs) /\ Ready(project, scopes, sigs)
      BY <2>4 DEF WalkInv
    <3>2. OnlyFuncs(project, stack') /\ scopes' = scopes
      BY <1>12, <2>4, <3>1, RunReads
    <3> QED
      BY <2>1, <2>4, <3>1, <3>2 DEF WalkInv
  <2> QED
    BY <2>1, <2>2, <2>3, <2>4
<1>13. CASE Evaluated
  <2>1. project' = project /\ sigs' = sigs /\ phase \in {"load", "run"} /\ phase' \in {phase, "done"}
    BY <1>13 DEF Evaluated, Running
  <2>2. CASE phase = "load"
    <3>1. phase' = "load" /\ Follows(project, scopes', stack', sigs)
      BY <1>13, <2>2, EvaluatedWalks DEF WalkInv
    <3> QED
      BY <2>1, <3>1 DEF WalkInv
  <2>3. CASE phase = "run"
    <3>1. OnlyFuncs(project, stack) /\ Same(scopes, sigs) /\ Ready(project, scopes, sigs)
      BY <2>3 DEF WalkInv
    <3>2. OnlyFuncs(project, stack') /\ scopes' = scopes
      BY <1>13, <3>1, RunReturns
    <3> QED
      BY <2>1, <2>3, <3>1, <3>2 DEF WalkInv
  <2> QED
    BY <2>1, <2>2, <2>3
<1> QED
  BY <1>1, <1>2, <1>3, <1>4, <1>5, <1>6, <1>7, <1>8, <1>9, <1>10, <1>11, <1>12, <1>13 DEF Next

(* Checker and interpreter see the same program: once a program that the   *)
(* checker (load_sig, build_sig) accepted is loaded (load_module,          *)
(* _populate), its modules are registered in the same order and each of    *)
(* their names stands for the declaration that the checker had found.      *)
THEOREM BothAgree == Spec => []ScopesAgree
<1>1. Init => WalkInv
  BY FirstStep
<1>2. IInv /\ WalkInv /\ [Next]_vars => WalkInv'
  BY WalkKeeps
<1>3. WalkInv => ScopesAgree
  <2> SUFFICES ASSUME WalkInv, phase \in {"run", "done"} PROVE ScopesAgree
    BY DEF ScopesAgree
  <2>1. Same(scopes, sigs)
    BY DEF WalkInv
  <2> QED
    BY <2>1 DEF Same, ScopesAgree
<1>4. Spec => []IInv
  BY AlwaysIInv
<1> QED
  BY <1>1, <1>2, <1>3, <1>4, PTL DEF Spec

--------------------------------------------------------------------------------
(* What the checker sees of a module's values the interpreter sees too, once *)
(* they are all carried out, unless a type has the name of one.            *)
LEMMA VisibleAgain ==
  ASSUME project \in Projects, NEW n \in DOMAIN project, n \in STRING, NEW b, NEW x, NEW d0,
         d0 \in DeclsOf(project, d0[1]), DeclOf(project, d0).name = x, Settled(project, b, n, x, d0),
         PublicsOf(project, n) = {} \/ x \in PublicsOf(project, n), ~Overloads(n),
         NEW ex, ex = ExportedOf(project, ValuesOf(project, n))
  PROVE  ex = {} \/ x \in ex
<1>1. CASE PublicsOf(project, n) = {}
  BY <1>1 DEF PublicsOf, ExportedOf, ValuesOf
<1>2. CASE x \in PublicsOf(project, n)
  <2>1. PICK d \in DeclsOf(project, n) : DeclOf(project, d).exported /\ DeclOf(project, d).name = x
    BY <1>2 DEF PublicsOf
  <2>2. CASE DeclOf(project, d).kind \in Values
    BY <2>1, <2>2 DEF ExportedOf, ValuesOf
  <2>3. CASE DeclOf(project, d).kind \notin Values
    <3>1. DeclOf(project, d).kind = "type"
      BY <2>1, <2>3, DeclType DEF Declarations, Values
    <3>2. d0[1] # n
      <4> SUFFICES ASSUME d0[1] = n PROVE FALSE
        OBVIOUS
      <4>1. PICK i \in DOMAIN project[n].decls : d0 = <<n, i>>
        BY DEF DeclsOf
      <4>2. PICK j \in DOMAIN project[n].decls : d = <<n, j>>
        BY DEF DeclsOf
      <4>3. project[n].decls[i].name = project[n].decls[j].name
        BY <2>1, <4>1, <4>2 DEF DeclOf
      <4>4. d0 = d
        BY <4>1, <4>2, <4>3, FileType
      <4> QED
        BY <2>3, <4>4 DEF Settled
    <3>3. PicksName(project, n, x)
      BY <3>2 DEF Settled
    <3>4. Overloads(n)
      BY <2>1, <3>1, <3>3, DeclsAre, Zenon DEF Overloads, PicksName
    <3> QED
      BY <3>4
  <2> QED
    BY <2>2, <2>3
<1> QED
  BY <1>1, <1>2

LEMMA SeenAgain ==
  ASSUME Types, NEW a, NEW b, Walked(project, a, b), DOMAIN a = DOMAIN scopes,
         \A i \in DOMAIN scopes : a[i].mod = scopes[i].mod,
         NEW n \in ModsOf(a), n \notin ModsOn(b), NEW k, k = PosOf(a, n), scopes[k].env = a[k].env,
         scopes[k].exports = ExportedOf(project, ValuesOf(project, n)),
         NEW x, x \in DOMAIN a[k].env, Sees(a, n, x), ~Overloads(n)
  PROVE  Known(n, x) /\ Visible(n, x)
<1>1. /\ project \in Projects /\ ScopesOK(project, scopes) /\ ScopesOK(project, a)
      /\ AllSettled(project, a, b) /\ DeclaredOff(project, a, b)
  BY DEF Types, Walked
<1>2. k \in DOMAIN a /\ a[k].mod = n /\ n \in STRING /\ n \in DOMAIN project
  BY <1>1, PosType, ModName
<1>3. At(n) = k
  BY <1>1, SamePos, PosIs
<1>4. PICK d0 : d0 = a[k].env[x]
  OBVIOUS
<1>5. d0 \in DeclsOf(project, d0[1]) /\ DeclOf(project, d0).name = x
  BY <1>1, <1>2, <1>4 DEF ScopesOK, GoodEnv, StandsFor
<1>6. Settled(project, b, n, x, d0)
  BY <1>1, <1>2, <1>4 DEF AllSettled
<1>7. PublicsOf(project, n) = {} \/ x \in PublicsOf(project, n)
  <2>1. a[k].exports = PublicsOf(project, n)
    BY <1>1, <1>2 DEF DeclaredOff, Declares
  <2> QED
    BY <2>1 DEF Sees
<1>8. PICK ex : ex = scopes[k].exports
  OBVIOUS
<1>9. ex = {} \/ x \in ex
  BY <1>1, <1>2, <1>5, <1>6, <1>7, <1>8, VisibleAgain
<1> QED
  BY <1>3, <1>8, <1>9 DEF Known, Visible, Scope

(* How the interpreter can fail: an import is always found.                 *)
LEMMA ImportFound ==
  ASSUME IInv, LoadImport, phase = "load", Follows(project, scopes, stack, sigs)
  PROVE  phase' # "failed"
<1>1. /\ Types /\ stack # <<>> /\ Top.do = "load" /\ Importing /\ Import.mod \notin ModsOf(scopes)
      /\ ScopesOK(project, scopes)
  BY RegisteredAre DEF LoadImport, Importing, IInv, Types
<1>30. PICK a, b : /\ ScopesOK(project, a) /\ Beside(project, scopes, stack, b)
                   /\ ScopesFollow(project, scopes, stack, a, b) /\ Between(project, a, b, sigs)
  BY Zenon DEF Follows
<1>2. CallsFollow(project, stack, b) /\ ScopesFollow(project, scopes, stack, a, b)
  BY <1>30, Zenon DEF Beside
<1>3. b # <<>> /\ AtImport(project, b) /\ ImportOf(project, b) = Import
  BY <1>1, <1>2, LoadTop
<1>4. CanStep(project, a, b)
  BY <1>3, <1>30, LeadsOn DEF Between
<1>5. ModsOf(a) = ModsOf(scopes)
  BY <1>1, <1>2, <1>3, <1>30, FollowImport, SamePos
<1>6. Import.mod \in DOMAIN project
  BY <1>1, <1>3, <1>4, <1>5 DEF CanStep
<1> QED
  BY <1>6 DEF LoadImport

LEMMA SelectFails ==
  ASSUME IInv, SelectValues, phase' = "failed", Follows(project, scopes, stack, sigs)
  PROVE  \E m \in Registered : Overloads(m)
<1> SUFFICES ASSUME \A m \in Registered : ~Overloads(m) PROVE FALSE
  OBVIOUS
<1>1. /\ Types /\ stack # <<>> /\ Top.do = "load" /\ Importing /\ Import.mod \in ModsOf(scopes)
      /\ ScopesOK(project, scopes) /\ project \in Projects /\ phase = "load"
  BY RegisteredAre DEF SelectValues, Importing, IInv, Types
<1>2. PICK x \in Wanted : ~(Known(Import.mod, x) /\ Visible(Import.mod, x))
  BY <1>1 DEF SelectValues
<1>30. PICK a, b : /\ ScopesOK(project, a) /\ Beside(project, scopes, stack, b)
                   /\ ScopesFollow(project, scopes, stack, a, b) /\ Between(project, a, b, sigs)
  BY Zenon DEF Follows
<1>3. /\ CallsFollow(project, stack, b) /\ ScopesFollow(project, scopes, stack, a, b)
      /\ ExportsFollow(project, scopes, stack, b)
  BY <1>30, Zenon DEF Beside
<1>4. PICK n : n = Import.mod
  OBVIOUS
<1>5. /\ b # <<>> /\ AtImport(project, b) /\ ImportOf(project, b).mod = n /\ WantedOf(project, b) = Wanted
  BY <1>1, <1>3, <1>4, LoadTop
<1>6. CanStep(project, a, b)
  BY <1>5, <1>30, LeadsOn DEF Between
<1>7. DOMAIN a = DOMAIN scopes /\ \A i \in DOMAIN scopes : a[i].mod = scopes[i].mod /\ scopes[i].env = a[i].env
  BY <1>3, <1>5, FollowImport
<1>8. PICK k : k = PosOf(a, n)
  OBVIOUS
<1>9. n \in ModsOf(a) /\ k \in DOMAIN scopes /\ k = PosOf(scopes, n) /\ scopes[k].mod = n
  BY <1>1, <1>4, <1>7, <1>8, <1>30, SamePos, PosType
<1>10. x \in DOMAIN a[k].env /\ Sees(a, n, x)
  BY <1>2, <1>5, <1>6, <1>8, <1>9 DEF CanStep
<1>11. NoneOrAll(project, scopes, b)
  BY <1>3, <1>5, ExportsNone
<1>12. ~Overloads(n)
  BY <1>1, <1>4, RegisteredAre
<1>13. CASE n \in ModsOn(b)
  <2>1. scopes[k].exports = {}
    BY <1>9, <1>11, <1>13 DEF NoneOrAll
  <2>2. Known(n, x) /\ Visible(n, x)
    BY <1>7, <1>9, <1>10, <2>1, PosIs DEF Known, Visible, Scope
  <2> QED
    BY <1>2, <1>4, <2>2
<1>14. CASE n \notin ModsOn(b)
  <2>1. scopes[k].exports = ExportedOf(project, ValuesOf(project, n))
    BY <1>9, <1>11, <1>14 DEF NoneOrAll
  <2>2. Walked(project, a, b)
    BY <1>1, <1>30, WalkedFrom DEF Between
  <2>3. scopes[k].env = a[k].env
    BY <1>7, <1>9
  <2>4. Known(n, x) /\ Visible(n, x)
    BY <1>1, <1>7, <1>8, <1>9, <1>10, <1>12, <1>14, <2>1, <2>2, <2>3, SeenAgain
  <2> QED
    BY <1>2, <1>4, <2>4
<1> QED
  BY <1>13, <1>14

(* A read of an accepted program finds its name in the signatures.          *)
LEMMA ReadAccepted ==
  ASSUME IInv, Running, Pending, NEW m, m = Top.of[1], NEW r, r = Decl(Top.of).reads[Top.read]
  PROVE  /\ Types /\ Accepted(project, sigs) /\ Top.of \in DeclsOf(project, m) /\ m \in ModsOf(scopes)
         /\ Top.read \in DOMAIN DeclOf(project, Top.of).reads
         /\ FoundIn(sigs, m, r)
<1>1. /\ Types /\ phase \in {"load", "run"} /\ stack # <<>> /\ Top.do = "eval"
      /\ Accepted(project, sigs) /\ ModsOf(scopes) \subseteq ModsOf(sigs)
  BY DEF IInv, Running, Walk
<1>2. /\ Top \in EvalFrames /\ m \in ModsOf(scopes) /\ Top.of \in DeclsOf(project, m)
      /\ Decl(Top.of) \in Declarations
  BY <1>1, TopEvals
<1>3. Top.read \in Nat \ {0} /\ Top.read <= Len(DeclOf(project, Top.of).reads)
      /\ DeclOf(project, Top.of).reads \in Seq(STRING \X STRING)
  BY <1>2, DeclsAre DEF EvalFrames, Declarations, Pending
<1>4. Top.read \in DOMAIN DeclOf(project, Top.of).reads
  BY <1>3, LenProperties
<1>5. PICK i \in DOMAIN sigs : sigs[i].mod = m
  BY <1>1, <1>2 DEF ModsOf
<1>6. ReadsFound(project, sigs, Top.of)
  BY <1>1, <1>2, <1>5 DEF Accepted
<1>7. FoundIn(sigs, Top.of[1], DeclOf(project, Top.of).reads[Top.read])
  BY <1>4, <1>6 DEF ReadsFound
<1> QED
  BY <1>1, <1>2, <1>4, <1>7, DeclsAre

(* main and what it calls find everything.                                  *)
LEMMA RunFails ==
  ASSUME IInv, Eval, phase' = "failed", Same(scopes, sigs), Ready(project, scopes, sigs)
  PROVE  \E m \in Registered : Overloads(m)
<1> SUFFICES ASSUME \A m \in Registered : ~Overloads(m) PROVE FALSE
  OBVIOUS
<1>1. PICK m : m = Top.of[1]
  OBVIOUS
<1>2. PICK r : r = Decl(Top.of).reads[Top.read]
  OBVIOUS
<1>3. Running /\ Pending /\ ~Found(m, r)
  BY <1>1, <1>2 DEF Eval, Running
<1>4. Types /\ FoundIn(sigs, m, r) /\ Accepted(project, sigs)
  BY <1>1, <1>2, <1>3, ReadAccepted
<1>5. PICK n : n = Target(m, r)
  OBVIOUS
<1>6. /\ project \in Projects /\ ScopesOK(project, scopes) /\ ScopesOK(project, sigs)
  BY <1>4 DEF Types, Accepted
<1>7. DOMAIN sigs = DOMAIN scopes /\ \A i \in DOMAIN scopes : sigs[i].mod = scopes[i].mod /\ scopes[i].env = sigs[i].env
  BY DEF Same
<1>8. PICK k : k = PosOf(sigs, n)
  OBVIOUS
<1>9. n \in ModsOf(sigs) /\ r[2] \in DOMAIN sigs[k].env
  BY <1>4, <1>5, <1>8 DEF FoundIn
<1>10. n \in ModsOf(scopes) /\ k \in DOMAIN scopes /\ k = PosOf(scopes, n) /\ scopes[k].mod = n
  BY <1>6, <1>7, <1>8, <1>9, SamePos, PosType
<1>11. Known(n, r[2])
  BY <1>7, <1>9, <1>10, PosIs DEF Known, Scope
<1>12. r[1] # "" => n = r[1] /\ Sees(sigs, n, r[2])
  BY <1>4, <1>5 DEF FoundIn, Target
<1>13. ASSUME r[1] # "" PROVE Visible(n, r[2])
  <2>1. NoneOrAll(project, scopes, <<>>) /\ Walked(project, sigs, <<>>)
    BY <1>6, WalkedFrom DEF Ready
  <2>2. PICK c : c = <<>>
    OBVIOUS
  <2>3. n \notin ModsOn(c)
    <3>1. DOMAIN c = {}
      BY ONLY <2>2
    <3> QED
      BY <3>1 DEF ModsOn
  <2>4. scopes[k].exports = ExportedOf(project, ValuesOf(project, n))
    BY <1>10, <2>1, <2>2, <2>3 DEF NoneOrAll
  <2>5. Walked(project, sigs, c)
    BY <2>1, <2>2
  <2>6. scopes[k].env = sigs[k].env /\ ~Overloads(n)
    BY <1>7, <1>10, RegisteredAre
  <2> QED
    BY <1>4, <1>7, <1>8, <1>9, <1>12, <1>13, <2>3, <2>4, <2>5, <2>6, SeenAgain
<1>14. Found(m, r)
  BY <1>5, <1>10, <1>11, <1>12, <1>13, RegisteredAre DEF Found
<1> QED
  BY <1>3, <1>14

--------------------------------------------------------------------------------
(* Imports that are done with and do not lead back are off the stack.       *)
LEMMA ImportOff ==
  ASSUME project \in Projects, NEW a, NEW b, Walked(project, a, b), b # <<>>,
         NEW m \in ModsOf(a), m \notin ModsOn(b) \/ (m = TopOf(b).mod /\ ~AtImport(project, b)),
         ~LeadsBack(m), NEW n \in Imports(m)
  PROVE  n \in ModsOf(a) /\ n \notin ModsOn(b)
<1>1. /\ ScopesOK(project, a) /\ b \in Seq(LoadFrames) /\ ModsOn(b) \subseteq ModsOf(a)
      /\ Reaches(project, a, b) /\ Seen(project, a, b)
  BY DEF Walked
<1>2. PICK i : i = PosOf(a, m)
  OBVIOUS
<1>3. i \in DOMAIN a /\ a[i].mod = m /\ m \in STRING /\ m \in DOMAIN project /\ i \in Nat
  <2>1. i \in DOMAIN a /\ a[i].mod = m /\ m \in STRING /\ m \in DOMAIN project
    BY <1>1, <1>2, PosType, ModName
  <2>2. a \in Seq(Scopes)
    BY <1>1 DEF ScopesOK
  <2> QED
    BY <2>1, <2>2, LenProperties
<1>4. PICK k \in DOMAIN project[m].imports : n = project[m].imports[k].mod
  BY DEF Imports
<1>5. k \in Nat /\ k <= Len(project[m].imports) /\ Len(project[m].imports) \in Nat
  BY <1>3, FileType, LenProperties
<1>6. LookedAt(b, m, k)
  <2>1. CASE m \notin ModsOn(b)
    BY <2>1 DEF LookedAt, ModsOn
  <2>2. CASE m = TopOf(b).mod /\ ~AtImport(project, b)
    <3>1. \A j \in DOMAIN b : b[j].mod = m => j = Len(b)
      BY <2>2, OnStack
    <3>2. TopOf(b).imp \in Nat
      BY OnStack
    <3>3. TopOf(b).imp > Len(project[m].imports)
      BY <2>2 DEF AtImport, PastImports
    <3>4. k < TopOf(b).imp
      BY <1>5, <3>2, <3>3
    <3> QED
      BY <3>1, <3>4 DEF LookedAt, TopOf
  <2> QED
    BY <2>1, <2>2
<1>7. n \in ModsOf(a) /\ (n \in ModsOn(b) => PosOf(a, n) <= i)
  BY <1>1, <1>3, <1>4, <1>6 DEF Seen
<1>8. ASSUME n \in ModsOn(b) PROVE FALSE
  <2>1. PICK j \in DOMAIN b : b[j].mod = n
    BY <1>8 DEF ModsOn
  <2>2. PosOf(a, n) \in DOMAIN a /\ a[PosOf(a, n)].mod = n
    BY <1>1, <1>7, PosType
  <2>3. PosOf(a, n) \in Nat
    BY <2>1, OnStack
  <2>4. n # m
    BY DEF LeadsBack
  <2>5. PosOf(a, n) < i
    <3>1. PosOf(a, n) # i
      BY <1>3, <2>2, <2>4
    <3> QED
      BY <1>3, <1>7, <1>8, <2>3, <3>1
  <2>6. ASSUME NEW ms \in SUBSET DOMAIN project, Imports(m) \subseteq ms, \A q \in ms : Imports(q) \subseteq ms
        PROVE  m \in ms
    <3>1. n \in ms
      BY <2>6
    <3>2. \A q : ImportsIn(project, q) = Imports(q)
      BY DEF ImportsIn, Imports
    <3>3. Reaching(project, n, ms)
      BY <2>6, <3>1, <3>2 DEF Reaching
    <3> QED
      BY <1>1, <1>3, <2>1, <2>5, <3>3 DEF Reaches
  <2>7. LeadsBack(m)
    BY <2>6, Zenon DEF LeadsBack
  <2> QED
    BY <2>7
<1> QED
  BY <1>7, <1>8

(* A module that is off the stack is as the checker had found it.           *)
Finished(p, ss, a, gs, n, i) ==
  /\ i \in DOMAIN a /\ a[i].mod = n /\ gs[i] = a[i] /\ ss[i].env = a[i].env
  /\ i = PosOf(a, n) /\ i = PosOf(gs, n) /\ i = PosOf(ss, n) /\ n \in ModsOf(ss)
  /\ ss[i].exports = ExportedOf(p, ValuesOf(p, n))
LEMMA OffStack ==
  ASSUME NEW p \in Projects, NEW ss, ScopesOK(p, ss), NEW st, NEW a, NEW b, NEW gs, Between(p, a, b, gs),
         ScopesFollow(p, ss, st, a, b), ExportsFollow(p, ss, st, b), b # <<>>,
         NEW n \in ModsOf(a), n \notin ModsOn(b), NEW i, i = PosOf(a, n)
  PROVE  Finished(p, ss, a, gs, n, i)
<1>1. Walked(p, a, b) /\ LeadsTo(p, <<a, b>>, <<gs, <<>>>>)
  BY WalkedFrom DEF Between
<1>2. ScopesOK(p, a) /\ b \in Seq(LoadFrames)
  BY <1>1 DEF Walked
<1>3. i \in DOMAIN a /\ a[i].mod = n
  BY <1>2, PosType
<1>4. Moved(a, b, gs, <<>>) /\ Walked(p, gs, <<>>)
  BY <1>1, WalkedOn
<1>5. gs[i] = a[i] /\ i \in DOMAIN gs
  BY <1>3, <1>4 DEF Moved
<1>6. i = PosOf(gs, n)
  <2>1. n \in ModsOf(gs) /\ ScopesOK(p, gs)
    BY <1>3, <1>4, <1>5 DEF ModsOf, Walked
  <2> QED
    BY <1>3, <1>5, <2>1, PosType
<1>7. DOMAIN a = DOMAIN ss /\ \A j \in DOMAIN ss : a[j].mod = ss[j].mod
  BY DEF ScopesFollow
<1>8. n \in ModsOf(ss) /\ i = PosOf(ss, n) /\ ss[i].mod = n
  BY <1>2, <1>3, <1>7, SamePos
<1>9. n # TopOf(b).mod
  BY <1>2, TopIsOn
<1>10. ss[i].env = a[i].env
  BY <1>3, <1>7, <1>8, <1>9 DEF ScopesFollow
<1>11. ss[i].exports = ExportedOf(p, ValuesOf(p, n))
  BY <1>3, <1>7, <1>8 DEF ExportsFollow, CarriedOut
<1> QED
  BY <1>3, <1>5, <1>6, <1>8, <1>10, <1>11 DEF Finished

(* A module that carries its declarations out knows the names that it       *)
(* picked and those that it has declared.                                  *)
LEMMA OwnName ==
  ASSUME NEW p \in Projects, NEW ss, ScopesOK(p, ss), NEW st, NEW a, NEW b, NEW gs, Between(p, a, b, gs),
         ScopesFollow(p, ss, st, a, b), b # <<>>, ~AtImport(p, b), NEW m, m = TopOf(b).mod,
         NEW x, x \in DOMAIN gs[PosOf(gs, m)].env,
         \A e \in DeclsOf(p, m) : DeclOf(p, e).name = x => e[2] < Through(st, b)
  PROVE  m \in ModsOf(ss) /\ x \in DOMAIN ss[PosOf(ss, m)].env
<1>1. Walked(p, a, b) /\ LeadsTo(p, <<a, b>>, <<gs, <<>>>>)
  BY WalkedFrom DEF Between
<1>2. /\ ScopesOK(p, a) /\ b \in Seq(LoadFrames) /\ m \in ModsOf(a) /\ m \in STRING /\ m \in DOMAIN p
  BY <1>1, OnStack DEF Walked
<1>3. PICK env : env = EnvFor(p, ValuesOf(p, m))
  OBVIOUS
<1>4. PICK i : i = PosOf(a, m)
  OBVIOUS
<1>5. PICK ex : ex = PublicsOf(p, m)
  OBVIOUS
<1>6. PICK c : c = AddedAt(a, i, env, ex)
  OBVIOUS
<1>7. PICK e : e = SubSeq(b, 1, Len(b) - 1)
  OBVIOUS
<1>8. StepOf(p, a, b) = <<c, e>>
  BY <1>3, <1>4, <1>5, <1>6, <1>7, Zenon DEF StepOf, Declare
<1>9. Walked(p, c, e) /\ Left(a, b, c, e, m)
  BY <1>1, <1>3, <1>4, <1>5, <1>6, <1>7, WalkedDeclare
<1>10. LeadsTo(p, <<c, e>>, <<gs, <<>>>>)
  BY <1>1, <1>8, LeadsOn
<1>11. Moved(c, e, gs, <<>>) /\ Walked(p, gs, <<>>)
  BY <1>9, <1>10, WalkedOn
<1>12. i \in DOMAIN a /\ a[i].mod = m
  BY <1>2, <1>4, PosType
<1>13. i \in DOMAIN c /\ c[i].mod = m /\ m \notin ModsOn(e)
  BY <1>9, <1>12 DEF Left
<1>14. gs[i] = c[i] /\ i \in DOMAIN gs
  BY <1>11, <1>13 DEF Moved
<1>15. i = PosOf(gs, m)
  <2>1. m \in ModsOf(gs) /\ ScopesOK(p, gs)
    BY <1>11, <1>13, <1>14 DEF ModsOf, Walked
  <2> QED
    BY <1>13, <1>14, <2>1, PosType
<1>16. c[i].env = With(env, a[i].env)
  BY <1>6, <1>12 DEF AddedAt, Added
<1>17. x \in DOMAIN env \cup DOMAIN a[i].env
  BY <1>14, <1>15, <1>16 DEF With
<1>18. m \in ModsOf(ss) /\ i = PosOf(ss, m) /\ ss[i].mod = m /\ i \in DOMAIN ss
  BY <1>2, <1>4, <1>12, SamePos DEF ScopesFollow
<1>19. ss[i].env = With(EnvFor(p, Carried(p, m, Through(st, b))), a[i].env)
  BY <1>18 DEF ScopesFollow
<1>20. DOMAIN ss[i].env = {DeclOf(p, d).name : d \in Carried(p, m, Through(st, b))} \cup DOMAIN a[i].env
  BY <1>19 DEF With, EnvFor
<1>21. CASE x \in DOMAIN env
  <2>1. PICK d \in ValuesOf(p, m) : DeclOf(p, d).name = x
    BY <1>3, <1>21 DEF EnvFor
  <2>2. d \in Carried(p, m, Through(st, b))
    BY <2>1 DEF Carried, ValuesOf
  <2> QED
    BY <1>18, <1>20, <2>1, <2>2
<1> QED
  BY <1>17, <1>18, <1>20, <1>21
(* An initialiser that runs while modules are loaded, or what it calls,     *)
(* finds its names if all modules are in order.                            *)
LEMMA EvalFails ==
  ASSUME IInv, Eval, phase = "load", phase' = "failed", Follows(project, scopes, stack, sigs)
  PROVE  /\ Top.do = "eval" /\ stack # <<>> /\ stack[1].do = "load"
         /\ (\E m \in Registered : Overloads(m)) \/ (\E m \in Registered : ~InOrder(m))
<1>1. PICK m : m = Top.of[1]
  OBVIOUS
<1>2. PICK r : r = Decl(Top.of).reads[Top.read]
  OBVIOUS
<1>3. Running /\ Pending /\ ~Found(m, r) /\ stack # <<>> /\ Top.do = "eval"
  BY <1>1, <1>2 DEF Eval, Running
<1>4. /\ Types /\ FoundIn(sigs, m, r) /\ Accepted(project, sigs) /\ Top.of \in DeclsOf(project, m)
      /\ m \in ModsOf(scopes) /\ Top.read \in DOMAIN DeclOf(project, Top.of).reads
  BY <1>1, <1>2, <1>3, ReadAccepted
<1>5. project \in Projects /\ ScopesOK(project, scopes) /\ StackOK(project, scopes, stack)
  BY <1>4 DEF Types
<1>30. PICK a, b : /\ ScopesOK(project, a) /\ Beside(project, scopes, stack, b)
                   /\ ScopesFollow(project, scopes, stack, a, b) /\ Between(project, a, b, sigs)
  BY Zenon DEF Follows
<1>6. /\ CallsFollow(project, stack, b) /\ ScopesFollow(project, scopes, stack, a, b)
      /\ ExportsFollow(project, scopes, stack, b) /\ EvalsFollow(project, stack, b) /\ ScopesOK(project, a)
  BY <1>30, Zenon DEF Beside
<1>7. Walked(project, a, b)
  BY <1>5, <1>30, WalkedFrom DEF Between
<1>8. /\ Len(b) \in Nat \ {0} /\ DOMAIN b = 1..Len(b) /\ DOMAIN stack = 1..Len(stack) /\ Len(stack) \in Nat
      /\ Len(stack) > Len(b) /\ b # <<>> /\ ~AtImport(project, b) /\ Through(stack, b) \in Int
  <2>1. TopOf(stack) = Top
    BY DEF TopOf, Top
  <2> QED
    BY <1>3, <1>5, <1>6, <2>1, CallsTop, LoadsTop DEF CallsFollow
<1>9. stack[1].do = "load"
  <2>1. 1 \in DOMAIN b
    BY <1>8
  <2> QED
    BY <1>6, <2>1, FramesApart DEF CallsFollow
<1>10. Reachable(project, stack, b, Top.of)
  <2>1. Len(stack) \in DOMAIN stack
    BY <1>8
  <2> QED
    BY <1>6, <1>8, <2>1 DEF EvalsFollow, Top
<1>11. m \notin ModsOn(b) \/ (m = TopOf(b).mod /\ Top.of[2] <= Through(stack, b))
  BY <1>1, <1>10 DEF Reachable
<1>12. ModsOf(a) = ModsOf(scopes) /\ m \in ModsOf(a)
  BY <1>4, <1>5, <1>6, SamePos DEF ScopesFollow
<1>13. SUFFICES ASSUME \A q \in ModsOf(scopes) : InOrder(q) /\ ~Overloads(q)
                PROVE  Found(m, r)
  BY <1>3, <1>9, RegisteredAre
<1>14. /\ ~LeadsBack(m)
       /\ r[1] = "" => \A e \in DeclsOf(project, m) : DeclOf(project, e).name = r[2] => e[2] < Top.of[2]
       /\ r[1] # "" => r[1] \in Imports(m)
  <2>1. InOrder(m)
    BY <1>4, <1>13
  <2>2. /\ ~LeadsBack(m)
        /\ \A d \in DeclsOf(project, m) : \A i \in DOMAIN DeclOf(project, d).reads :
             /\ DeclOf(project, d).reads[i][1] = "" =>
                  \A e \in DeclsOf(project, m) : DeclOf(project, e).name = DeclOf(project, d).reads[i][2] => e[2] < d[2]
             /\ DeclOf(project, d).reads[i][1] # "" => DeclOf(project, d).reads[i][1] \in Imports(m)
    BY <2>1, DeclsAre, Zenon DEF InOrder
  <2>3. r = DeclOf(project, Top.of).reads[Top.read]
    BY <1>2, DeclsAre
  <2> QED
    BY <1>4, <2>2, <2>3
<1>15. CASE r[1] = ""
  <2>1. r[2] \in DOMAIN sigs[PosOf(sigs, m)].env
    BY <1>4, <1>15 DEF FoundIn, Target
  <2>2. r[2] \in DOMAIN scopes[PosOf(scopes, m)].env
    <3>1. CASE m \notin ModsOn(b)
      <4>1. PICK i : i = PosOf(a, m)
        OBVIOUS
      <4>2. Finished(project, scopes, a, sigs, m, i)
        BY <1>5, <1>6, <1>8, <1>12, <1>30, <3>1, <4>1, OffStack
      <4> QED
        BY <2>1, <4>2 DEF Finished
    <3>2. CASE m = TopOf(b).mod /\ Top.of[2] <= Through(stack, b)
      <4>1. ASSUME NEW e \in DeclsOf(project, m), DeclOf(project, e).name = r[2] PROVE e[2] < Through(stack, b)
        <5>1. e[2] < Top.of[2]
          BY <1>14, <1>15, <4>1
        <5>2. m \in STRING /\ m \in DOMAIN project
          BY <1>4, <1>5, ModName
        <5>3. \A d \in DeclsOf(project, m) : d[2] \in Nat
          BY <1>5, <5>2, DeclType DEF Refs
        <5>4. e[2] \in Nat /\ Top.of[2] \in Nat
          BY <1>4, <5>3
        <5> QED
          BY <1>8, <3>2, <5>1, <5>4
      <4>2. PICK x : x = r[2]
        OBVIOUS
      <4>3. x \in DOMAIN scopes[PosOf(scopes, m)].env
        BY <1>5, <1>6, <1>8, <1>30, <2>1, <3>2, <4>1, <4>2, OwnName
      <4> QED
        BY <4>2, <4>3
    <3> QED
      BY <1>11, <3>1, <3>2
  <2> QED
    BY <1>4, <1>15, <2>2, FoundHere DEF FoundIn, Target
<1>16. CASE r[1] # ""
  <2>1. PICK n : n = r[1]
    OBVIOUS
  <2>2. n \in ModsOf(a) /\ n \notin ModsOn(b)
    <3>1. n \in Imports(m)
      BY <1>14, <1>16, <2>1
    <3>2. m \notin ModsOn(b) \/ (m = TopOf(b).mod /\ ~AtImport(project, b))
      BY <1>8, <1>11
    <3> QED
      BY <1>5, <1>7, <1>8, <1>12, <1>14, <3>1, <3>2, ImportOff
  <2>3. PICK k : k = PosOf(a, n)
    OBVIOUS
  <2>4. Finished(project, scopes, a, sigs, n, k)
    BY <1>5, <1>6, <1>8, <1>30, <2>2, <2>3, OffStack
  <2>5. /\ k = PosOf(sigs, n) /\ k = PosOf(scopes, n) /\ sigs[k] = a[k] /\ scopes[k].env = a[k].env
        /\ n \in ModsOf(scopes) /\ scopes[k].exports = ExportedOf(project, ValuesOf(project, n))
    BY <2>4 DEF Finished
  <2>6. PICK x : x = r[2]
    OBVIOUS
  <2>7. x \in DOMAIN a[k].env /\ Sees(a, n, x)
    <3>1. x \in DOMAIN sigs[PosOf(sigs, n)].env /\ Sees(sigs, n, x)
      BY <1>4, <1>16, <2>1, <2>6 DEF FoundIn, Target
    <3> QED
      BY <2>3, <2>5, <3>1 DEF Sees
  <2>8. DOMAIN a = DOMAIN scopes /\ \A i \in DOMAIN scopes : a[i].mod = scopes[i].mod
    BY <1>6 DEF ScopesFollow
  <2>9. ~Overloads(n)
    BY <1>13, <2>5
  <2>10. Known(n, x) /\ Visible(n, x)
    BY <1>4, <1>7, <2>2, <2>3, <2>5, <2>7, <2>8, <2>9, SeenAgain
  <2> QED
    BY <1>16, <2>1, <2>5, <2>6, <2>10, RegisteredAre DEF Found, Target
<1> QED
  BY <1>15, <1>16

--------------------------------------------------------------------------------
LEMMA AcceptedKept == IInv /\ WalkInv /\ AcceptedRuns /\ [Next]_vars => AcceptedRuns'
<1> SUFFICES ASSUME IInv, WalkInv, AcceptedRuns, [Next]_vars, phase' = "failed" PROVE AcceptedRuns'
  BY DEF AcceptedRuns
<1>1. CASE UNCHANGED vars
  <2>1. UNCHANGED <<project, phase, scopes, stack>>
    BY <1>1 DEF vars
  <2>2. \A m : (Overloads(m)' <=> Overloads(m)) /\ (InOrder(m)' <=> InOrder(m))
    BY <2>1 DEF Overloads, InOrder, LeadsBack, Imports, DeclsIn, Decl
  <2>3. Registered' = Registered /\ Top' = Top /\ (Declaring' <=> Declaring)
    BY <2>1 DEF Registered, Top, Declaring
  <2>4. HasMain' <=> HasMain
    BY <2>1 DEF HasMain, Known, Scope, At, Decl
  <2> QED
    BY <2>1, <2>2, <2>3, <2>4 DEF AcceptedRuns
<1>2. CASE Stopped
  BY <1>1, <1>2 DEF Stopped
<1>3. CASE LoadImport
  <2>1. phase = "load"
    BY <1>3 DEF LoadImport
  <2> QED
    BY <1>3, <2>1, ImportFound DEF WalkInv
<1>4. CASE SelectValues
  <2>1. phase = "load" /\ scopes' = scopes /\ project' = project
    BY <1>4 DEF SelectValues
  <2>2. \E m \in Registered : Overloads(m)
    BY <1>4, <2>1, SelectFails DEF WalkInv
  <2>3. \E m \in Registered' : Overloads(m)'
    BY <2>1, <2>2 DEF Registered, Overloads, DeclsIn, Decl
  <2> QED
    BY <2>3 DEF AcceptedRuns
<1>5. CASE Populated
  <2>1. /\ Declaring /\ ~HasMain
        /\ UNCHANGED <<project, scopes, stack>>
    BY <1>5 DEF Populated
  <2>2. ~HasMain'
    BY <2>1 DEF HasMain, Known, Scope, At, Decl
  <2>3. Declaring'
    BY <2>1 DEF Declaring, Top
  <2> QED
    BY <2>2, <2>3 DEF AcceptedRuns
<1>6. CASE Eval
  <2>1. phase \in {"load", "run"} /\ UNCHANGED <<project, scopes, stack>>
    BY <1>6 DEF Eval, Running
  <2>2. \A m : /\ Overloads(m)' <=> Overloads(m)
               /\ InOrder(m)' <=> InOrder(m)
    BY <2>1 DEF Overloads, InOrder, LeadsBack, Imports, DeclsIn, Decl
  <2>3. Registered' = Registered /\ Top' = Top
    BY <2>1 DEF Registered, Top
  <2>4. CASE phase = "run"
    <3>1. \E m \in Registered : Overloads(m)
      BY <1>6, <2>4, RunFails DEF WalkInv
    <3> QED
      BY <2>2, <2>3, <3>1 DEF AcceptedRuns
  <2>5. CASE phase = "load"
    <3>1. /\ Top.do = "eval" /\ stack[1].do = "load"
          /\ (\E m \in Registered : Overloads(m)) \/ (\E m \in Registered : ~InOrder(m))
      BY <1>6, <2>5, EvalFails DEF WalkInv
    <3>2. (\E m \in Registered' : Overloads(m)') \/ (\E m \in Registered' : ~InOrder(m)')
      BY <2>2, <2>3, <3>1
    <3> QED
      BY <2>1, <2>3, <3>1, <3>2 DEF AcceptedRuns
  <2> QED
    BY <2>1, <2>4, <2>5
<1>7. CASE SelectSigs \/ DeclareSigs \/ CheckBody \/ Verdict \/ DeclareFunc \/ EvalConst \/ Evaluated
  BY <1>7 DEF SelectSigs, DeclareSigs, CheckBody, Verdict, DeclareFunc, EvalConst, Evaluated, Running, IInv, Types, Final
<1> QED
  BY <1>1, <1>2, <1>3, <1>4, <1>5, <1>6, <1>7 DEF Next

(* A program that the checker (check_imports, check_expr) accepts finds every *)
(* name when it is loaded and run (load_module, _populate, eval_expr): short *)
(* of a missing main, it only fails in a module that exports a type under  *)
(* the name of a value that it picks, or in an initialiser that runs while *)
(* modules are loaded, if imports lead back or a name is used too early.   *)
THEOREM AcceptedProjectsRun == Spec => []AcceptedRuns
<1>1. Init => WalkInv /\ AcceptedRuns
  BY FirstStep DEF Init, AcceptedRuns
<1>2. IInv /\ WalkInv /\ [Next]_vars => WalkInv'
  BY WalkKeeps
<1>3. IInv /\ WalkInv /\ AcceptedRuns /\ [Next]_vars => AcceptedRuns'
  BY AcceptedKept
<1>4. Spec => []IInv
  BY AlwaysIInv
<1> QED
  BY <1>1, <1>2, <1>3, <1>4, PTL DEF Spec
=============================================================================
