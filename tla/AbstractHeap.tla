---------------------------- MODULE AbstractHeap ----------------------------
(***************************************************************************)
(* What the managed heap of the Cardinal runtime promises the code that    *)
(* uses it (bootstrap/runtime/cardinal_gc.h): an allocation returns a      *)
(* reference no one has held before, an object disappears only once no     *)
(* root reaches it, its fields change only by a store through a reference  *)
(* to it, and a reference to an object that is gone stops the program.     *)
(* Handles, generations, free lists, marks and thresholds are not visible. *)
(***************************************************************************)
EXTENDS Naturals, Sequences, Functions

CONSTANTS Null      \* the null reference

VARIABLES
  objs,     \* the objects that exist: reference |-> sequence of fields
  born,     \* every reference ever returned by an allocation
  roots,    \* the rooted variables of the running frames
  pins,     \* the permanently rooted variables
  reg,      \* a reference the program holds without rooting it
  halted    \* the program has panicked

avars == <<objs, born, roots, pins, reg, halted>>

Live == DOMAIN objs
Rooted == Range(roots) \cup Range(pins)
Held == {reg} \cup Rooted
FieldsOf(o) == Range(objs[o])

\* The live objects a chain of references connects to a root: the smallest
\* set that holds the rooted ones and is closed under reading a field.
Reachable ==
  LET refers == [o \in Live |-> FieldsOf(o) \cap Live]
  IN  {o \in Live : \A S \in SUBSET Live :
         /\ Rooted \cap Live \subseteq S
         /\ \A p \in S : refers[p] \subseteq S
         => o \in S}

Init ==
  /\ objs = << >> /\ born = {}
  /\ roots = << >> /\ pins = << >>
  /\ reg = Null /\ halted = FALSE

Allocate(o) ==
  /\ ~halted
  /\ o \notin born \cup {Null}
  /\ DOMAIN objs' = Live \cup {o}
  /\ \A p \in Live : objs'[p] = objs[p]
  /\ Range(objs'[o]) \subseteq {Null}
  /\ born' = born \cup {o}
  /\ reg' = o
  /\ UNCHANGED <<roots, pins, halted>>

Reclaim(o) ==
  /\ ~halted
  /\ objs' = [p \in Live \ {o} |-> objs[p]]
  /\ o \notin Reachable
  /\ UNCHANGED <<born, roots, pins, reg, halted>>

Read(o, f) ==
  /\ ~halted
  /\ o \in Held \cap Live /\ f \in DOMAIN objs[o]
  /\ reg' = objs[o][f]
  /\ UNCHANGED <<objs, born, roots, pins, halted>>

Write(o, f, w) ==
  /\ ~halted
  /\ o \in Held \cap Live /\ f \in DOMAIN objs[o]
  /\ w \in Held
  /\ objs' = [objs EXCEPT ![o][f] = w]
  /\ UNCHANGED <<born, roots, pins, reg, halted>>

\* The program changes what it has rooted, and what it holds unrooted, in any
\* way that invents no reference.
Reroot ==
  /\ ~halted
  /\ reg' \in Held \cup {Null}
  /\ Range(roots') \subseteq Held \cup {Null}
  /\ Range(pins') \subseteq Held \cup {Null}
  /\ UNCHANGED <<objs, born, halted>>

\* The program stops: it used a reference to nothing, or memory ran out.
Halt ==
  /\ ~halted
  /\ halted' = TRUE
  /\ UNCHANGED <<objs, born, roots, pins, reg>>

Next ==
  \/ \E o \in born' \ born : Allocate(o)
  \/ \E o \in Live \ Live' : Reclaim(o)
  \/ \E o \in Live : \E f \in DOMAIN objs[o] :
        Read(o, f) \/ \E w \in Held : Write(o, f, w)
  \/ Reroot
  \/ Halt

Spec == Init /\ [][Next]_avars
=============================================================================
