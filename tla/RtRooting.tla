----------------------------- MODULE RtRooting -----------------------------
(***************************************************************************)
(* How the C functions of bootstrap/runtime/cardinal_rt.c keep objects     *)
(* alive. The collector sees the shadow stack, the pinned variables and    *)
(* the words of live objects, not the C stack, and any allocation may      *)
(* collect. A function that holds a fresh handle in a C variable therefore *)
(* must root it, or store it in something rooted, before it allocates      *)
(* again. Each call is run here one allocation at a time.                  *)
(*                                                                         *)
(* The caller is one emitted frame, which roots its temporaries on entry   *)
(* (compiler/backend_c.cardinal). The collector is reduced to what GcHeap  *)
(* establishes: it keeps exactly what the roots reach. Lengths and         *)
(* capacities are left open: a container may be full at any insertion.     *)
(***************************************************************************)
EXTENDS Integers, Sequences, FiniteSets, FiniteSetsExt, Functions, Tombstones

CONSTANTS
  MaxObjs,      \* kind |-> bound on its objects that are mentioned at a time
  Null,         \* the null handle
  Lits,         \* string literals of the program: their C-string addresses
  NTemps,       \* number of temporaries of the emitted frame
  MaxElems,     \* bound on the elements of a vector and the entries of a map
  Kinds,        \* kinds of objects the program makes
  Storable,     \* kinds of objects it stores in containers
  Calls,        \* runtime functions the program calls
  MaxArgs,      \* command-line arguments at most
  Collects      \* whether an allocation collects first: {TRUE}, {FALSE} or either

ASSUME MaxObjsAssumption ==
  MaxObjs \in [{"str", "vec", "map", "buf", "entries", "index"} -> Nat]
ASSUME NullAssumption == Null \notin Lits
ASSUME BoundsAssumption == NTemps \in Nat /\ MaxElems \in Nat /\ MaxArgs \in Nat
ASSUME KindsAssumption == Kinds \subseteq {"str", "vec", "map"}
ASSUME CollectsAssumption == Collects \subseteq BOOLEAN

VARIABLES
  heap,     \* live object |-> [buf, entries, index, len, words]
  temps,    \* Temps -> handle
  intern,   \* g_strlit_intern
  pinned,   \* cl_gc_pin(&g_strlit_intern) was called
  roots,    \* the shadow stack: addresses <<depth, var>> of C variables
  stack     \* active runtime calls, innermost last; depth 0 is the emitted frame

vars == <<heap, temps, intern, pinned, roots, stack>>

Temps == 1 .. NTemps

\* An object's identity is its kind and a number.
Ids == UNION {{kind} \X (1 .. MaxObjs[kind]) : kind \in DOMAIN MaxObjs}
ASSUME HandlesAssumption == Ids \cap (Lits \cup {Null}) = {}
Kind(o) == o[1]
Ref == Ids \cup {Null}
Live == DOMAIN heap
Refs(S) == S \cap Ids

\* A vector's header has a buffer and a length, a map's header a buffer of
\* entries [key, val, live] and an index; a buffer has words.
Object ==
  [buf |-> Null, entries |-> Null, index |-> Null, len |-> 0, words |-> << >>]
WordsOf(b) == IF b = Null THEN << >> ELSE heap[b].words
Entries(h) == WordsOf(heap[h].entries)
Handles(b) ==
  IF Kind(b) = "entries"
  THEN UNION {{e.key, e.val} : e \in Range(heap[b].words)}
  ELSE Range(heap[b].words)
Fields(o) == Refs({heap[o].buf, heap[o].entries, heap[o].index} \cup Handles(o))

\* An activation: the function, the point it has reached, its C variables, its
\* loop counter, and the temporary its result goes to.
Call(fn, h, k, v, dst) ==
  [fn |-> fn, at |-> "entry", h |-> h, k |-> k, v |-> v, x |-> Null, i |-> 1,
   dst |-> dst]

depth == Len(stack)
top == stack[depth]
At(fn, at) == depth > 0 /\ top.fn = fn /\ top.at = at
Value(a) == IF a[1] = 0 THEN temps[a[2]] ELSE stack[a[1]][a[2]]
Address(var) == <<depth, var>>

RootSet == Refs({Value(a) : a \in Range(roots)} \cup (IF pinned THEN {intern} ELSE {}))

\* What cl_gc_collect keeps: what the roots reach in at most so many steps.
Reached ==
  LET within[n \in 0 .. Cardinality(Live)] ==
        IF n = 0 THEN RootSet \cap Live
        ELSE LET nearer == within[n - 1]
             IN  nearer \cup ((UNION {Fields(o) : o \in nearer}) \cap Live)
  IN  within[Cardinality(Live)]

Mentioned(objs) ==
  Range(temps) \cup {intern}
  \cup (UNION {{f.h, f.k, f.v, f.x} : f \in Range(stack)})
  \cup (UNION {Fields(o) : o \in objs})

-----------------------------------------------------------------------------
\* cl_gc_alloc: a collection may come first. Identities stand for nothing but
\* themselves, so the new object takes the least number that nothing mentions.
Survivors == {IF c THEN Reached ELSE Live : c \in Collects}
Fresh(kind, kept) ==
  LET unused == {n \in 1 .. MaxObjs[kind] : <<kind, n>> \notin kept \cup Mentioned(kept)}
  IN  IF unused = {} THEN {} ELSE {<<kind, Min(unused)>>}
Alloc(o, kept) ==
  heap' = [p \in kept \cup {o} |-> IF p = o THEN Object ELSE heap[p]]

\* The current function goes on at another point, its variable x being o.
Goto(at) == stack' = [stack EXCEPT ![depth].at = at]
Got(o, at) == stack' = [stack EXCEPT ![depth].at = at, ![depth].x = o]

\* The current function goes on at `at' after a call to another one.
Enter(at, call) == stack' = Append([stack EXCEPT ![depth].at = at], call)

Outer == SubSeq(stack, 1, depth - 1)
Return(val) ==
  /\ stack' = Outer
  /\ temps' = IF top.dst = Null THEN temps ELSE [temps EXCEPT ![top.dst] = val]

Push(var) == roots' = Append(roots, Address(var))
Pop(n) == roots' = SubSeq(roots, 1, Len(roots) - n)

\* An allocation of the current function, whose handle it keeps in x.
AllocStep(fn, from, kind, to) ==
  /\ At(fn, from)
  /\ \E kept \in Survivors : \E o \in Fresh(kind, kept) :
       Alloc(o, kept) /\ Got(o, to)
  /\ UNCHANGED <<temps, intern, pinned, roots>>

-----------------------------------------------------------------------------
(* cl_vec_push with vec_grow_if_needed. The words past len are what earlier *)
(* pops left in the buffer.                                                *)
VecGrow == AllocStep("vec_push", "entry", "buf", "grown")

Elems(h) == SubSeq(WordsOf(heap[h].buf), 1, heap[h].len)

\* mutant: the new buffer is published before the old one is copied
VecGrown_LinksFirst ==
  /\ At("vec_push", "grown")
  /\ heap' = [heap EXCEPT ![top.x].words = <<top.v>>,
                          ![top.h].buf = top.x, ![top.h].len = 1]
  /\ Return(Null)
  /\ UNCHANGED <<intern, pinned, roots>>

VecGrown ==
  /\ At("vec_push", "grown")
  /\ heap' = [heap EXCEPT ![top.x].words = Append(Elems(top.h), top.v),
                          ![top.h].buf = top.x, ![top.h].len = @ + 1]
  /\ Return(Null)
  /\ UNCHANGED <<intern, pinned, roots>>

VecAppend ==
  /\ At("vec_push", "entry")
  /\ heap[top.h].buf # Null
  /\ LET n == heap[top.h].len + 1
     IN  heap' = [heap EXCEPT ![top.h].len = n,
                              ![heap[top.h].buf].words =
                                 IF n \in DOMAIN @ THEN [@ EXCEPT ![n] = top.v]
                                 ELSE Append(@, top.v)]
  /\ Return(Null)
  /\ UNCHANGED <<intern, pinned, roots>>

-----------------------------------------------------------------------------
(* cl_map_set with map_rehash. The contents of strings are left open: two   *)
(* different string keys may be equal. A literal's address is a scalar key. *)
MayEqual(k, l) == k = l \/ {k, l} \subseteq Ids
Entry(k, v) == [key |-> k, val |-> v, live |-> TRUE]
Mapped(h, k) == \E i \in DOMAIN Entries(h) : Entries(h)[i].live /\ Entries(h)[i].key = k

\* The key is there: its value is overwritten.
MapUpdate(i) ==
  /\ At("map_set", "entry")
  /\ i \in DOMAIN Entries(top.h)
  /\ Entries(top.h)[i].live /\ MayEqual(Entries(top.h)[i].key, top.k)
  /\ heap' = [heap EXCEPT ![heap[top.h].entries].words[i].val = top.v]
  /\ Return(Null)
  /\ UNCHANGED <<intern, pinned, roots>>

MapRehash ==
  /\ AllocStep("map_set", "entry", "entries", "compact")
  /\ ~Mapped(top.h, top.k)

\* mutant: the compacted entries are kept in a C variable over allocation #2
MapCompact_Unlinked ==
  /\ At("map_set", "compact")
  /\ heap' = [heap EXCEPT ![top.x].words = Kept(Entries(top.h))]
  /\ stack' = [stack EXCEPT ![depth].at = "reindex", ![depth].v = top.x]
  /\ UNCHANGED <<temps, intern, pinned, roots>>

MapCompact ==
  /\ At("map_set", "compact")
  /\ heap' = [heap EXCEPT ![top.x].words = Kept(Entries(top.h)),
                          ![top.h].entries = top.x]
  /\ Goto("reindex")
  /\ UNCHANGED <<temps, intern, pinned, roots>>

MapReindex == AllocStep("map_set", "reindex", "index", "indexed")

MapIndexed ==
  /\ At("map_set", "indexed")
  /\ heap' = [heap EXCEPT ![top.h].index = top.x]
  /\ Goto("room")
  /\ UNCHANGED <<temps, intern, pinned, roots>>

MapNoRehash ==
  /\ At("map_set", "entry")
  /\ ~Mapped(top.h, top.k)
  /\ heap[top.h].index # Null
  /\ Goto("room")
  /\ UNCHANGED <<heap, temps, intern, pinned, roots>>

MapRegrow == AllocStep("map_set", "room", "entries", "regrown")

MapRegrown ==
  /\ At("map_set", "regrown")
  /\ heap' = [heap EXCEPT ![top.x].words = Entries(top.h), ![top.h].entries = top.x]
  /\ Goto("append")
  /\ UNCHANGED <<temps, intern, pinned, roots>>

MapAppend ==
  /\ At("map_set", "room") \/ At("map_set", "append")
  /\ heap' = [heap EXCEPT ![heap[top.h].entries].words = Append(@, Entry(top.k, top.v))]
  /\ Return(Null)
  /\ UNCHANGED <<intern, pinned, roots>>

-----------------------------------------------------------------------------
(* cl_map_keys.                                                            *)
KeysNew == AllocStep("map_keys", "entry", "vec", "root")

KeysRoot ==
  /\ At("map_keys", "root")
  /\ Push("x")
  /\ Goto("loop")
  /\ UNCHANGED <<heap, temps, intern, pinned>>

KeysPush ==
  /\ At("map_keys", "loop")
  /\ top.i \in DOMAIN Entries(top.h)
  /\ LET e == Entries(top.h)[top.i]
         next == [stack EXCEPT ![depth].i = @ + 1]
     IN  stack' = IF e.live THEN Append(next, Call("vec_push", top.x, Null, e.key, Null))
                  ELSE next
  /\ UNCHANGED <<heap, temps, intern, pinned, roots>>

\* mutant: the root of the result is left on the shadow stack
KeysDone_NoPop ==
  /\ At("map_keys", "loop")
  /\ top.i > Len(Entries(top.h))
  /\ Return(top.x)
  /\ UNCHANGED <<heap, intern, pinned, roots>>

KeysDone ==
  /\ At("map_keys", "loop")
  /\ top.i > Len(Entries(top.h))
  /\ Pop(1)
  /\ Return(top.x)
  /\ UNCHANGED <<heap, intern, pinned>>

-----------------------------------------------------------------------------
(* cl_strlit_n: literals live in a pinned map created by the first one.    *)
InternNew == intern = Null /\ AllocStep("strlit", "entry", "map", "pin")

\* mutant: the intern table is not rooted
InternPin_Unpinned ==
  /\ At("strlit", "pin")
  /\ intern' = top.x
  /\ Goto("entry")
  /\ UNCHANGED <<heap, temps, pinned, roots>>

InternPin ==
  /\ At("strlit", "pin")
  /\ intern' = top.x
  /\ pinned' = TRUE
  /\ Goto("entry")
  /\ UNCHANGED <<heap, temps, roots>>

LiteralHit(i) ==
  /\ At("strlit", "entry")
  /\ intern # Null
  /\ i \in DOMAIN Entries(intern)
  /\ Entries(intern)[i].key = top.k
  /\ Return(Entries(intern)[i].val)
  /\ UNCHANGED <<heap, intern, pinned, roots>>

LiteralMiss ==
  /\ AllocStep("strlit", "entry", "str", "set")
  /\ intern # Null
  /\ ~Mapped(intern, top.k)

LiteralSet ==
  /\ At("strlit", "set")
  /\ Push("x")
  /\ Enter("done", Call("map_set", intern, top.k, top.x, Null))
  /\ UNCHANGED <<heap, temps, intern, pinned>>

\* mutant: the literal's root is left on the shadow stack
LiteralDone_NoPop ==
  /\ At("strlit", "done")
  /\ Return(top.x)
  /\ UNCHANGED <<heap, intern, pinned, roots>>

LiteralDone ==
  /\ At("strlit", "done")
  /\ Pop(1)
  /\ Return(top.x)
  /\ UNCHANGED <<heap, intern, pinned>>

-----------------------------------------------------------------------------
(* cl_sys__args: a vector of fresh strings.                                *)
ArgsNew == AllocStep("args", "entry", "vec", "root")

ArgsRoot ==
  /\ At("args", "root")
  /\ Push("h")
  /\ stack' = [stack EXCEPT ![depth].at = "loop", ![depth].h = top.x]
  /\ UNCHANGED <<heap, temps, intern, pinned>>

ArgsNext ==
  /\ At("args", "loop")
  /\ heap[top.h].len < MaxArgs
  /\ AllocStep("args", "loop", "str", "arg")

ArgsPush ==
  /\ At("args", "arg")
  /\ Push("x")
  /\ Enter("pushed", Call("vec_push", top.h, Null, top.x, Null))
  /\ UNCHANGED <<heap, temps, intern, pinned>>

ArgsPushed ==
  /\ At("args", "pushed")
  /\ Pop(1)
  /\ Goto("loop")
  /\ UNCHANGED <<heap, temps, intern, pinned>>

ArgsDone ==
  /\ At("args", "loop")
  /\ Pop(1)
  /\ Return(top.h)
  /\ UNCHANGED <<heap, intern, pinned>>

-----------------------------------------------------------------------------
(* cl_strings__concat, substr, chars and the other functions that make one *)
(* object from string arguments, which they read again after allocating.   *)
StrNew == AllocStep("concat", "entry", "str", "copy")

StrCopy ==
  /\ At("concat", "copy")
  /\ Return(top.x)
  /\ UNCHANGED <<heap, intern, pinned, roots>>

(* cl_fs__read_file_cb. The callback is an emitted function: it is passed   *)
(* its closure's environment and what was read, roots both and its own     *)
(* temporary on entry, and may allocate. The environment, cb.env, is in    *)
(* the runtime function's variable k over the allocation of read_file; the *)
(* closure is a temporary of the emitted frame, and what keeps it.         *)
ReadFile == AllocStep("read_file_cb", "entry", "str", "call")

ReadFileCall ==
  /\ At("read_file_cb", "call")
  /\ Push("x")
  /\ Enter("done", Call("callback", top.k, Null, top.x, Null))
  /\ UNCHANGED <<heap, temps, intern, pinned>>

ReadFileDone ==
  /\ At("read_file_cb", "done")
  /\ Pop(1)
  /\ Return(Null)
  /\ UNCHANGED <<heap, intern, pinned>>

(* cl_fs__write_file_cb calls back without having allocated, and passes     *)
(* beside the environment no handle.                                       *)
WriteFile ==
  /\ At("write_file_cb", "entry")
  /\ Enter("done", Call("callback", top.k, Null, Null, Null))
  /\ UNCHANGED <<heap, temps, intern, pinned, roots>>

WriteFileDone ==
  /\ At("write_file_cb", "done")
  /\ Return(Null)
  /\ UNCHANGED <<heap, intern, pinned, roots>>

CallbackEnter ==
  /\ At("callback", "entry")
  /\ roots' = roots \o <<Address("x"), Address("h"), Address("v")>>
  /\ Goto("body")
  /\ UNCHANGED <<heap, temps, intern, pinned>>

CallbackBody == AllocStep("callback", "body", "str", "exit")

CallbackExit ==
  /\ At("callback", "exit")
  /\ Pop(3)
  /\ Return(Null)
  /\ UNCHANGED <<heap, intern, pinned>>

-----------------------------------------------------------------------------
(* The emitted frame. Its temporaries are zeroed and rooted on entry.      *)
FrameRoots == [t \in Temps |-> <<0, t>>]

Init ==
  /\ heap = [o \in {} |-> Object]
  /\ temps = [t \in Temps |-> Null]
  /\ intern = Null /\ pinned = FALSE
  /\ roots = FrameRoots
  /\ stack = << >>

Idle == stack = << >>
IsA(h, kind) == h \in Ids /\ Kind(h) = kind
CanStore(h) == h \in Ids /\ Kind(h) \in Storable

\* cl_vec_new, cl_map_new, cl_str_from_utf8: one allocation, assigned at once.
New(t, kind) ==
  /\ Idle
  /\ \E kept \in Survivors : \E o \in Fresh(kind, kept) :
       Alloc(o, kept) /\ temps' = [temps EXCEPT ![t] = o]
  /\ UNCHANGED <<intern, pinned, roots, stack>>

Start(call) ==
  /\ Idle
  /\ call.fn \in Calls
  /\ stack' = <<call>>
  /\ UNCHANGED <<heap, temps, intern, pinned, roots>>

StartVecPush(t, u) ==
  /\ IsA(temps[t], "vec") /\ CanStore(temps[u])
  /\ heap[temps[t]].len < MaxElems
  /\ Start(Call("vec_push", temps[t], Null, temps[u], Null))

StartMapSet(t, u, w) ==
  /\ IsA(temps[t], "map") /\ IsA(temps[u], "str") /\ CanStore(temps[w])
  /\ Len(Entries(temps[t])) < MaxElems
  /\ Start(Call("map_set", temps[t], temps[u], temps[w], Null))

StartMapKeys(t, d) ==
  IsA(temps[t], "map") /\ Start(Call("map_keys", temps[t], Null, Null, d))

StartConcat(t, u, d) ==
  /\ IsA(temps[t], "str") /\ IsA(temps[u], "str")
  /\ Start(Call("concat", temps[t], temps[u], Null, d))

StartStrlit(lit, d) == Start(Call("strlit", Null, lit, Null, d))
StartArgs(d) == Start(Call("args", Null, Null, Null, d))

\* What is passed is the callback's closure: its environment, or Null. The path,
\* and the contents to write, are read before anything is allocated and not
\* again, so that their handles are left out.
StartReadFile(e) == Start(Call("read_file_cb", Null, temps[e], Null, Null))
StartWriteFile(e) == Start(Call("write_file_cb", Null, temps[e], Null, Null))

\* The operations that allocate nothing.
cl_vec_pop(t, d) ==
  /\ Idle
  /\ IsA(temps[t], "vec") /\ heap[temps[t]].len > 0
  /\ heap' = [heap EXCEPT ![temps[t]].len = @ - 1]
  /\ temps' = [temps EXCEPT ![d] = Elems(temps[t])[heap[temps[t]].len]]
  /\ UNCHANGED <<intern, pinned, roots, stack>>

cl_map_del(t, i) ==
  /\ Idle
  /\ IsA(temps[t], "map") /\ i \in DOMAIN Entries(temps[t])
  /\ Entries(temps[t])[i].live
  /\ heap' = [heap EXCEPT ![heap[temps[t]].entries].words[i].live = FALSE]
  /\ UNCHANGED <<temps, intern, pinned, roots, stack>>

cl_map_get(t, i, d) ==
  /\ Idle
  /\ IsA(temps[t], "map") /\ i \in DOMAIN Entries(temps[t])
  /\ Entries(temps[t])[i].live
  /\ temps' = [temps EXCEPT ![d] = Entries(temps[t])[i].val]
  /\ UNCHANGED <<heap, intern, pinned, roots, stack>>

Program ==
  \/ \E t \in Temps : \E kind \in Kinds : New(t, kind)
  \/ \E t, u \in Temps : StartVecPush(t, u)
  \/ \E t, u, w \in Temps : StartMapSet(t, u, w)
  \/ \E t, d \in Temps : StartMapKeys(t, d)
  \/ \E t, u, d \in Temps : StartConcat(t, u, d)
  \/ \E lit \in Lits : \E d \in Temps : StartStrlit(lit, d)
  \/ \E d \in Temps : StartArgs(d)
  \/ \E e \in Temps : StartReadFile(e) \/ StartWriteFile(e)
  \/ \E t, d \in Temps : cl_vec_pop(t, d)
  \/ \E t \in Temps : \E i \in 1 .. MaxElems : cl_map_del(t, i)
  \/ \E t, d \in Temps : \E i \in 1 .. MaxElems : cl_map_get(t, i, d)

Vectors == VecGrow \/ VecGrown \/ VecAppend
Maps ==
  \/ \E i \in 1 .. MaxElems : MapUpdate(i)
  \/ MapRehash \/ MapCompact \/ MapReindex \/ MapIndexed
  \/ MapNoRehash \/ MapRegrow \/ MapRegrown \/ MapAppend
MapKeys == KeysNew \/ KeysRoot \/ KeysDone \/ KeysPush
Literals ==
  \/ InternNew \/ InternPin \/ LiteralMiss \/ LiteralSet \/ LiteralDone
  \/ \E i \in 1 .. Cardinality(Lits) : LiteralHit(i)
Arguments == ArgsNew \/ ArgsRoot \/ ArgsNext \/ ArgsPush \/ ArgsPushed \/ ArgsDone
Strings == StrNew \/ StrCopy
Files ==
  \/ ReadFile \/ ReadFileCall \/ ReadFileDone \/ WriteFile \/ WriteFileDone
  \/ CallbackEnter \/ CallbackBody \/ CallbackExit

Next ==
  \/ Program
  \/ Vectors \/ Maps \/ MapKeys \/ Literals \/ Arguments \/ Strings \/ Files

Spec == Init /\ [][Next]_vars

-----------------------------------------------------------------------------
(* Properties                                                              *)

\* Whatever collections its allocations cause, a running C function holds no
\* handle to a freed object, so none of its cl_gc_deref calls panics; and no
\* buffer, header, temporary or interned literal refers to one: growing,
\* rehashing and interning publish only what stays alive.
NoDangling ==
  /\ \A f \in Range(stack) : Refs({f.h, f.k, f.v, f.x}) \subseteq Live
  /\ \A o \in Live : Fields(o) \subseteq Live
  /\ Refs(Range(temps) \cup {intern}) \subseteq Live

\* Each cl_gc_push_root is matched by a pop in the same call: the shadow stack
\* never holds the address of a variable of a call that has returned, and is
\* the caller's own when the runtime is not running.
ShadowStackBalanced ==
  /\ \A i \in DOMAIN roots : roots[i][1] <= depth
  /\ \A i \in DOMAIN roots : i > 1 => roots[i - 1][1] <= roots[i][1]
  /\ Idle => roots = FrameRoots

Contents(h) == IF Kind(h) = "vec" THEN Elems(h) ELSE Kept(Entries(h))

SameButOne(s, t) ==
  \/ s = t
  \/ Len(t) = Len(s) + 1 /\ s = SubSeq(t, 1, Len(s))
  \/ \E i \in DOMAIN s : t = SubSeq(s, 1, i - 1) \o SubSeq(s, i + 1, Len(s))

OneRevalued(s, t) ==
  Len(s) = Len(t) /\ \E i \in DOMAIN s : t = [s EXCEPT ![i].val = t[i].val]

\* Growing a vector and rehashing a map lose, invent and reorder nothing, even
\* when the allocation of the new buffer collects while the old one is only in
\* the header: between two steps one element is pushed or popped, or one entry
\* added, deleted or given a new value.
ElementsKept ==
  [][\A h \in {o \in Reached : Kind(o) \in {"vec", "map"}} :
       \/ SameButOne(Contents(h), Contents(h)')
       \/ Kind(h) = "map" /\ OneRevalued(Contents(h), Contents(h)')]_vars
=============================================================================
