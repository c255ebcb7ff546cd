----------------------------- MODULE GraphProofs -----------------------------
(* Theorems about the algorithms of ObjectGraphs, for every finite heap,   *)
(* with cycles or without: recursive equality, and the marks of stringify. *)
EXTENDS MCLibrary, SelectionProofs, FiniteSetTheorems

-----------------------------------------------------------------------------
(* What is true of an element if it is true of a successor                 *)

Solves(G, D, B, next) ==
    G \subseteq D /\ \A x \in D : x \in G <=> (x \in B \/ \E y \in next[x] : y \in G)

LEMMA SolutionExists ==
    ASSUME NEW D, NEW B, NEW next, \A x \in D : next[x] \subseteq D
    PROVE  \E G : Solves(G, D, B, next)
<1> DEFINE Meets(x, S) == \E y \in next[x] : y \in S
           Closed(S) == \A x \in D : (x \in B \/ Meets(x, S)) => x \in S
           G == {x \in D : \A S \in SUBSET D : Closed(S) => x \in S}
<1>1. ASSUME NEW x \in D, x \in B \/ Meets(x, G) PROVE x \in G
  <2>1. ASSUME NEW S \in SUBSET D, Closed(S) PROVE x \in S
    <3>1. CASE x \in B
      BY <2>1, <3>1
    <3>2. CASE Meets(x, G)
      <4>1. PICK y \in next[x] : y \in G
        BY <3>2
      <4>2. y \in S
        BY <2>1, <4>1
      <4> QED
        BY <2>1, <4>2
    <3> QED
      BY <1>1, <3>1, <3>2
  <2> QED
    BY <2>1
<1>2. ASSUME NEW x \in D, x \in G, ~(x \in B \/ Meets(x, G)) PROVE FALSE
  <2>1. PICK S \in SUBSET D : S = G \ {x}
    <3>1. G \ {x} \in SUBSET D
      OBVIOUS
    <3> QED
      BY <3>1, Zenon
  <2>2. ASSUME NEW z \in D, z \in B \/ Meets(z, S) PROVE z \in S
    <3>1. z \in G
      <4>1. CASE z \in B
        BY <1>1, <4>1
      <4>2. CASE Meets(z, S)
        <5>1. Meets(z, G)
          BY <2>1, <4>2
        <5> QED
          BY <1>1, <5>1
      <4> QED
        BY <2>2, <4>1, <4>2
    <3>2. z # x
      <4> SUFFICES ASSUME z = x PROVE FALSE
        OBVIOUS
      <4>1. Meets(x, S)
        BY <1>2, <2>2
      <4>2. Meets(x, G)
        BY <2>1, <4>1
      <4> QED
        BY <1>2, <4>2
    <3> QED
      BY <2>1, <3>1, <3>2
  <2>3. x \in S
    BY <1>2, <2>2
  <2> QED
    BY <2>1, <2>3
<1>3. G \subseteq D
  OBVIOUS
<1> HIDE DEF G
<1>4. Solves(G, D, B, next)
  BY <1>1, <1>2, <1>3 DEF Solves
<1> QED
  BY <1>4

-----------------------------------------------------------------------------
(* What can be reached                                                     *)

LeadsTo(o, c) == c \in Objects /\ IsPlain(c) /\ \E k \in Keys : heap[o][k] = c

LEMMA SuccessorsAre ==
    ASSUME NEW S, NEW c
    PROVE  c \in Successors(S) <=> \E o \in S : LeadsTo(o, c)
BY Zenon DEF Successors, LeadsTo, PlainObjects

LEMMA ReachClosed ==
    ASSUME NEW o, NEW p, p = o \/ p \in Reachable(o), NEW c, LeadsTo(p, c)
    PROVE  c \in Reachable(o)
<1>1. c \in PlainObjects
  BY Zenon DEF LeadsTo, PlainObjects
<1>2. ASSUME NEW S \in SUBSET PlainObjects, Successors(S \cup {o}) \subseteq S PROVE c \in S
  <2>1. p \in S \cup {o}
    <3>1. CASE p \in Reachable(o)
      BY <1>2, <3>1, Zenon DEF Reachable
    <3>2. CASE p = o
      BY <3>2
    <3> QED
      BY <3>1, <3>2
  <2>2. c \in Successors(S \cup {o})
    BY <2>1, SuccessorsAre
  <2> QED
    BY <1>2, <2>2
<1> QED
  BY <1>1, <1>2, Zenon DEF Reachable

LEMMA ReachLeast ==
    ASSUME NEW o, NEW S \in SUBSET Objects,
           \A p, c : (p = o \/ p \in S) /\ LeadsTo(p, c) => c \in S
    PROVE  Reachable(o) \subseteq S
<1>1. PICK P : P = S \cap PlainObjects
  OBVIOUS
<1>2. Successors(P \cup {o}) \subseteq P
  <2>1. ASSUME NEW c \in Successors(P \cup {o}) PROVE c \in P
    <3>1. PICK p \in P \cup {o} : LeadsTo(p, c)
      BY SuccessorsAre
    <3>2. p = o \/ p \in S
      BY <1>1
    <3>3. c \in S
      BY <3>1, <3>2, Zenon
    <3>4. c \in PlainObjects
      BY <3>1, Zenon DEF LeadsTo, PlainObjects
    <3> QED
      BY <1>1, <3>3, <3>4
  <2> QED
    BY <2>1
<1>3. P \in SUBSET PlainObjects
  BY <1>1
<1>4. Reachable(o) \subseteq P
  BY <1>2, <1>3, Zenon DEF Reachable
<1> QED
  BY <1>1, <1>4

LEMMA ReachObjects == ASSUME NEW o PROVE Reachable(o) \in SUBSET Objects
BY DEF Reachable, PlainObjects

LEMMA ReachOnwards ==
    ASSUME NEW o, NEW p \in Reachable(o)
    PROVE  Reachable(p) \subseteq Reachable(o)
<1>1. PICK S \in SUBSET Objects : S = Reachable(o)
  BY ReachObjects
<1>2. \A q, c : (q = p \/ q \in S) /\ LeadsTo(q, c) => c \in S
  BY <1>1, ReachClosed, Zenon
<1> QED
  BY <1>1, <1>2, ReachLeast, Zenon

LEMMA ReachFirst ==
    ASSUME NEW o, NEW x \in Reachable(o)
    PROVE  \E c : LeadsTo(o, c) /\ (x = c \/ x \in Reachable(c))
<1>1. PICK S \in SUBSET Objects :
         S = {y \in Objects : \E c : LeadsTo(o, c) /\ (y = c \/ y \in Reachable(c))}
  <2>1. {y \in Objects : \E c : LeadsTo(o, c) /\ (y = c \/ y \in Reachable(c))} \in SUBSET Objects
    OBVIOUS
  <2> QED
    BY <2>1, Zenon
<1>2. ASSUME NEW p, NEW c, p = o \/ p \in S, LeadsTo(p, c) PROVE c \in S
  <2>0. c \in Objects
    BY <1>2, Zenon DEF LeadsTo
  <2>1. CASE p = o
    BY <1>1, <1>2, <2>0, <2>1, Zenon
  <2>2. CASE p \in S
    <3>1. PICK d : LeadsTo(o, d) /\ (p = d \/ p \in Reachable(d))
      BY <1>1, <2>2, Zenon
    <3>2. c \in Reachable(d)
      BY <1>2, <3>1, ReachClosed
    <3> QED
      BY <1>1, <2>0, <3>1, <3>2, Zenon
  <2> QED
    BY <1>2, <2>1, <2>2
<1>3. x \in S
  BY <1>2, ReachLeast
<1> QED
  BY <1>1, <1>3, Zenon

-----------------------------------------------------------------------------
(* Cycles                                                                  *)

FoundStep(F, M) ==
    {node \in Objects : \E key \in Keys :
        IsPlain(heap[node][key])
        /\ (heap[node][key] \in M \/ heap[node][key] \in F[M \cup {heap[node][key]}])}
Finds(F) == F = [M \in SUBSET Objects |-> FoundStep(F, M)]
MetAgain(F, n, M) == \E c : LeadsTo(n, c) /\ (c \in M \/ c \in F[M \cup {c}])

LEMMA FoundStepIs ==
    ASSUME NEW F, NEW M \in SUBSET Objects, NEW n \in Objects
    PROVE  n \in FoundStep(F, M) <=> MetAgain(F, n, M)
<1>1. ASSUME n \in FoundStep(F, M) PROVE MetAgain(F, n, M)
  <2>1. PICK key \in Keys : IsPlain(heap[n][key])
            /\ (heap[n][key] \in M \/ heap[n][key] \in F[M \cup {heap[n][key]}])
    BY <1>1, Zenon DEF FoundStep
  <2>2. PICK c : c = heap[n][key]
    OBVIOUS
  <2>3. LeadsTo(n, c)
    BY <2>1, <2>2, Zenon DEF LeadsTo, IsPlain
  <2> QED
    BY <2>1, <2>2, <2>3, Zenon DEF MetAgain
<1>2. ASSUME MetAgain(F, n, M) PROVE n \in FoundStep(F, M)
  <2>1. PICK c : LeadsTo(n, c) /\ (c \in M \/ c \in F[M \cup {c}])
    BY <1>2, Zenon DEF MetAgain
  <2>2. PICK key \in Keys : heap[n][key] = c /\ IsPlain(c)
    BY <2>1, Zenon DEF LeadsTo
  <2> QED
    BY <2>1, <2>2, Zenon DEF FoundStep
<1> QED
  BY <1>1, <1>2

LEMMA FoundExists == \E F : Finds(F)
<1>1. PICK D : D = Objects \X SUBSET Objects
  OBVIOUS
<1>2. PICK B : B = {x \in D : \E c : LeadsTo(x[1], c) /\ c \in x[2]}
  OBVIOUS
<1>3. PICK next : next = [x \in D |-> {y \in D : LeadsTo(x[1], y[1]) /\ y[2] = x[2] \cup {y[1]}}]
  OBVIOUS
<1>4. \A x \in D : next[x] \subseteq D
  BY <1>3
<1>5. PICK G : Solves(G, D, B, next)
  BY <1>4, SolutionExists
<1>6. PICK F : F = [M \in SUBSET Objects |-> {n \in Objects : << n, M >> \in G}]
  OBVIOUS
<1>7. ASSUME NEW M \in SUBSET Objects PROVE F[M] = FoundStep(F, M)
  <2>1. ASSUME NEW n \in Objects PROVE n \in F[M] <=> MetAgain(F, n, M)
    <3>1. PICK x : x = << n, M >>
      OBVIOUS
    <3>2. x \in D /\ x[1] = n /\ x[2] = M
      BY <1>1, <3>1
    <3>3. x \in G <=> (x \in B \/ \E y \in next[x] : y \in G)
      BY <1>5, <3>2, Zenon DEF Solves
    <3>4. x \in B <=> \E c : LeadsTo(n, c) /\ c \in M
      BY <1>2, <3>2, Zenon
    <3>5. ASSUME NEW c, LeadsTo(n, c) PROVE c \in F[M \cup {c}] <=> << c, M \cup {c} >> \in G
      <4>1. c \in Objects
        BY <3>5, Zenon DEF LeadsTo
      <4>2. M \cup {c} \in SUBSET Objects
        BY <4>1
      <4> QED
        BY <1>6, <4>1, <4>2
    <3>6. (\E y \in next[x] : y \in G) <=> \E c : LeadsTo(n, c) /\ c \in F[M \cup {c}]
      <4>1. ASSUME NEW y \in next[x], y \in G PROVE \E c : LeadsTo(n, c) /\ c \in F[M \cup {c}]
        <5>1. y \in D /\ LeadsTo(n, y[1]) /\ y[2] = M \cup {y[1]}
          BY <1>3, <3>2
        <5>2. y = << y[1], M \cup {y[1]} >>
          BY <1>1, <5>1
        <5>3. << y[1], M \cup {y[1]} >> \in G
          BY <4>1, <5>2, Zenon
        <5>4. y[1] \in F[M \cup {y[1]}]
          BY <3>5, <5>1, <5>3
        <5> QED
          BY <5>1, <5>4, Zenon
      <4>2. ASSUME NEW c, LeadsTo(n, c), c \in F[M \cup {c}] PROVE \E y \in next[x] : y \in G
        <5>1. c \in Objects
          BY <4>2, Zenon DEF LeadsTo
        <5>2. PICK y : y = << c, M \cup {c} >>
          OBVIOUS
        <5>3. y \in D /\ y[1] = c /\ y[2] = M \cup {c}
          BY <1>1, <5>1, <5>2
        <5>4. y \in next[x]
          BY <1>3, <3>2, <4>2, <5>3
        <5>5. y \in G
          BY <3>5, <4>2, <5>2, Zenon
        <5> QED
          BY <5>4, <5>5
      <4> QED
        BY <4>1, <4>2
    <3>7. n \in F[M] <=> x \in G
      BY <1>6, <3>1
    <3> QED
      BY <3>3, <3>4, <3>6, <3>7, Zenon DEF MetAgain
  <2>2. \A n \in Objects : n \in F[M] <=> n \in FoundStep(F, M)
    BY <2>1, FoundStepIs, Zenon
  <2>3. F[M] \subseteq Objects /\ FoundStep(F, M) \subseteq Objects
    BY <1>6 DEF FoundStep
  <2> QED
    BY <2>2, <2>3
<1>8. F = [M \in SUBSET Objects |-> FoundStep(F, M)]
  BY <1>6, <1>7
<1> QED
  BY <1>8, Zenon DEF Finds


LEMMA ContainsCycleIs ==
    ASSUME NEW root
    PROVE  \E F : /\ ContainsCycle(heap, root) <=> root \in F[{}]
                  /\ \A M \in SUBSET Objects, n \in Objects : n \in F[M] <=> MetAgain(F, n, M)
<1>1. PICK F : F = CHOOSE f : Finds(f)
  OBVIOUS
<1>2. Finds(F)
  BY <1>1, FoundExists, Zenon
<1>3. ContainsCycle(heap, root) <=> root \in F[{}]
  BY <1>1, Zenon DEF ContainsCycle, Finds, FoundStep
<1>4. ASSUME NEW M \in SUBSET Objects, NEW n \in Objects PROVE n \in F[M] <=> MetAgain(F, n, M)
  <2>1. F = [L \in SUBSET Objects |-> FoundStep(F, L)]
    BY <1>2, Zenon DEF Finds
  <2>2. F[M] = FoundStep(F, M)
    BY <2>1
  <2> QED
    BY <2>2, FoundStepIs, Zenon
<1> QED
  BY <1>3, <1>4

(* What is unmarked and lies ahead of the marked. *)
LEMMA MarkedMore ==
    ASSUME IsFiniteSet(Objects), NEW M \in SUBSET Objects, NEW c \in Objects, c \notin M
    PROVE  /\ Cardinality(Objects \ (M \cup {c})) \in Nat /\ Cardinality(Objects \ M) \in Nat
           /\ Cardinality(Objects \ (M \cup {c})) < Cardinality(Objects \ M)
<1>1. IsFiniteSet(Objects \ M)
  BY FS_Difference
<1>2. c \in Objects \ M /\ (Objects \ M) \ {c} = Objects \ (M \cup {c})
  OBVIOUS
<1>3. /\ IsFiniteSet((Objects \ M) \ {c})
      /\ Cardinality((Objects \ M) \ {c}) = Cardinality(Objects \ M) - 1
  BY <1>1, <1>2, FS_RemoveElement
<1>4. Cardinality(Objects \ M) \in Nat /\ Cardinality((Objects \ M) \ {c}) \in Nat
  BY <1>1, <1>3, FS_CardinalityType
<1> QED
  BY <1>2, <1>3, <1>4

Unfound(F, M) ==
    \A n \in Objects :
        /\ n \notin F[M] => /\ \A x \in Reachable(n) : x \notin M /\ x \notin Reachable(x)
        /\ (\A x \in Reachable(n) : x \notin M /\ x \notin Reachable(x)) => n \notin F[M]

LEMMA UnfoundIs ==
    ASSUME IsFiniteSet(Objects), NEW F,
           \A M \in SUBSET Objects, n \in Objects : n \in F[M] <=> MetAgain(F, n, M)
    PROVE  \A M \in SUBSET Objects : Unfound(F, M)
<1>1. PICK S : S = {k \in Nat : \A M \in SUBSET Objects : Cardinality(Objects \ M) = k => Unfound(F, M)}
  OBVIOUS
<1>2. ASSUME NEW k \in Nat, \A m \in Nat : m < k => m \in S PROVE k \in S
  <2>1. ASSUME NEW M \in SUBSET Objects, Cardinality(Objects \ M) = k, NEW n \in Objects
        PROVE  n \notin F[M] <=> \A x \in Reachable(n) : x \notin M /\ x \notin Reachable(x)
    <3>1. ASSUME NEW c \in Objects, c \notin M PROVE Unfound(F, M \cup {c})
      <4>1. PICK L \in SUBSET Objects : L = M \cup {c}
        <5>1. M \cup {c} \in SUBSET Objects
          OBVIOUS
        <5> QED
          BY <5>1, Zenon
      <4>2. PICK m \in Nat : m = Cardinality(Objects \ L) /\ m < k
        BY <2>1, <3>1, <4>1, MarkedMore
      <4>3. m \in S
        BY <1>2, <4>2
      <4>4. Unfound(F, L)
        BY <1>1, <4>2, <4>3
      <4> QED
        BY <4>1, <4>4, Zenon
    <3>2. n \notin F[M] <=> \A c : LeadsTo(n, c) => (c \notin M /\ c \notin F[M \cup {c}])
      BY Zenon DEF MetAgain
    <3>3. ASSUME n \notin F[M], NEW x \in Reachable(n) PROVE x \notin M /\ x \notin Reachable(x)
      <4>1. PICK c : LeadsTo(n, c) /\ (x = c \/ x \in Reachable(c))
        BY ReachFirst
      <4>2. c \in Objects /\ c \notin M /\ c \notin F[M \cup {c}]
        BY <3>2, <3>3, <4>1, Zenon DEF LeadsTo
      <4>3. \A y \in Reachable(c) : y \notin M \cup {c} /\ y \notin Reachable(y)
        BY <3>1, <4>2, Zenon DEF Unfound
      <4>4. CASE x = c
        BY <4>2, <4>3, <4>4
      <4>5. CASE x \in Reachable(c)
        BY <4>3, <4>5
      <4> QED
        BY <4>1, <4>4, <4>5
    <3>4. ASSUME \A x \in Reachable(n) : x \notin M /\ x \notin Reachable(x),
                 NEW c, LeadsTo(n, c)
          PROVE  c \notin M /\ c \notin F[M \cup {c}]
      <4>1. c \in Objects /\ c \in Reachable(n)
        BY <3>4, ReachClosed, Zenon DEF LeadsTo
      <4>2. c \notin M /\ c \notin Reachable(c)
        BY <3>4, <4>1
      <4>3. Reachable(c) \subseteq Reachable(n)
        BY <4>1, ReachOnwards
      <4>4. \A y \in Reachable(c) : y \notin M \cup {c} /\ y \notin Reachable(y)
        BY <3>4, <4>2, <4>3
      <4>5. c \notin F[M \cup {c}]
        BY <3>1, <4>1, <4>2, <4>4, Zenon DEF Unfound
      <4> QED
        BY <4>2, <4>5
    <3> QED
      BY <3>2, <3>3, <3>4, Zenon
  <2>2. \A M \in SUBSET Objects : Cardinality(Objects \ M) = k => Unfound(F, M)
    BY <2>1, Zenon DEF Unfound
  <2> QED
    BY <1>1, <2>2
<1>3. Nat \subseteq S
  BY <1>2, StrongInduction
<1>4. ASSUME NEW M \in SUBSET Objects PROVE Unfound(F, M)
  <2>1. IsFiniteSet(Objects \ M)
    BY FS_Difference
  <2>2. Cardinality(Objects \ M) \in S
    BY <1>3, <2>1, FS_CardinalityType
  <2> QED
    BY <1>1, <2>2
<1> QED
  BY <1>4

(* A cycle is found exactly if there is one ahead, of the root or of what  *)
(* can be reached from it.                                                 *)
LEMMA CycleFound ==
    ASSUME IsFiniteSet(Objects), NEW root \in Objects
    PROVE  ContainsCycle(heap, root) <=> Cyclic(root)
<1>1. PICK F : /\ ContainsCycle(heap, root) <=> root \in F[{}]
               /\ \A M \in SUBSET Objects, n \in Objects : n \in F[M] <=> MetAgain(F, n, M)
  BY ContainsCycleIs
<1>2. Unfound(F, {})
  <2>1. {} \in SUBSET Objects
    OBVIOUS
  <2> QED
    BY <1>1, <2>1, UnfoundIs
<1>3. root \notin F[{}] <=> \A x \in Reachable(root) : x \notin Reachable(x)
  BY <1>2 DEF Unfound
<1>4. Cyclic(root) <=> \E x \in Reachable(root) : x \in Reachable(x)
  BY DEF Cyclic
<1> QED
  BY <1>1, <1>3, <1>4, Zenon

-----------------------------------------------------------------------------
(* Every heap that is built is one                                         *)

HeapInvariant == heap \in Heaps

LEMMA HeapTyped == Spec => []HeapInvariant
<1>1. Init => HeapInvariant
  BY DEF Init, HeapInvariant, NoReferences, Heaps
<1>2. HeapInvariant /\ [Next]_vars => HeapInvariant'
  <2> SUFFICES ASSUME HeapInvariant, [Next]_vars PROVE HeapInvariant'
    OBVIOUS
  <2>1. CASE Type
    BY <2>1 DEF Type, HeapInvariant
  <2>2. CASE Count
    BY <2>2 DEF Count, HeapInvariant
  <2>3. CASE Build
    <3>1. PICK o \in Objects : \E properties \in [Keys -> References[o] \cup {Absent}] :
             heap' = [heap EXCEPT ![o] = properties]
      BY <2>3 DEF Build
    <3>2. PICK properties \in [Keys -> References[o] \cup {Absent}] :
             heap' = [heap EXCEPT ![o] = properties]
      BY <3>1
    <3>3. References[o] \subseteq Objects
      BY ReferencesAssumption
    <3>4. properties \in [Keys -> Objects \cup {Absent}]
      BY <3>3
    <3> QED
      BY <3>2, <3>4 DEF Heaps, HeapInvariant
  <2>4. CASE UNCHANGED vars
    BY <2>4 DEF vars, HeapInvariant
  <2> QED
    BY <2>1, <2>2, <2>3, <2>4 DEF Next
<1> QED
  BY <1>1, <1>2, PTL DEF Spec

-----------------------------------------------------------------------------
(* Recursive equality                                                      *)

LEMMA HeapValue ==
    ASSUME heap \in Heaps, NEW o \in Objects, NEW k \in Keys
    PROVE  heap[o][k] \in Objects \cup {Absent}
BY DEF Heaps

(* What the code makes of two values that are not walked into. *)
LEMMA LeafIs ==
    ASSUME NEW x \in Objects, NEW y \in Objects \cup {Absent}
    PROVE  Matches(x, y) <=> ~IsPlain(x) /\ y # Absent /\ LeafEquals(x, y)
<1>1. /\ KindOf[x] \in {"Object", "Array", "matcher", "other"} /\ Takes[x] \subseteq Objects
      /\ Absent \notin Objects
  BY KindAssumption, TakesAssumption, AbsentAssumption
<1>2. CASE KindOf[x] = "matcher"
  BY <1>1, <1>2 DEF Matches, LeafEquals, IsPlain
<1>3. CASE KindOf[x] # "matcher"
  BY <1>1, <1>3 DEF Matches, LeafEquals, IsPlain
<1> QED
  BY <1>2, <1>3

(* What is said of two objects in one turn, but for their parts. *)
AgreesSoFar(l, r) ==
    /\ \A key \in KeysIn(heap, l) :
           /\ heap[r][key] # Absent
           /\ IF IsPlain(heap[l][key])
              THEN KindOf[heap[l][key]] = KindOf[heap[r][key]] /\ heap[r][key] \in Objects
              ELSE LeafEquals(heap[l][key], heap[r][key])
    /\ NoFurtherKeys(heap, l, r)
PartsIn(E, l, r) ==
    \A key \in KeysIn(heap, l) : IsPlain(heap[l][key]) => heap[r][key] \in E[heap[l][key]]
EqualStep(E, l) ==
    {r \in Objects :
        /\ \A key \in KeysIn(heap, l) :
               /\ heap[r][key] # Absent
               /\ IF IsPlain(heap[l][key])
                  THEN KindOf[heap[l][key]] = KindOf[heap[r][key]] /\ heap[r][key] \in E[heap[l][key]]
                  ELSE LeafEquals(heap[l][key], heap[r][key])
        /\ NoFurtherKeys(heap, l, r)}
Compares(E) == E = [l \in Objects |-> EqualStep(E, l)]

LEMMA EqualStepIs ==
    ASSUME NEW E, \A o \in Objects : E[o] \subseteq Objects, NEW l \in Objects, NEW r \in Objects
    PROVE  r \in EqualStep(E, l) <=> AgreesSoFar(l, r) /\ PartsIn(E, l, r)
<1>1. ASSUME r \in EqualStep(E, l) PROVE AgreesSoFar(l, r) /\ PartsIn(E, l, r)
  <2>1. /\ \A key \in KeysIn(heap, l) :
               /\ heap[r][key] # Absent
               /\ IF IsPlain(heap[l][key])
                  THEN KindOf[heap[l][key]] = KindOf[heap[r][key]] /\ heap[r][key] \in E[heap[l][key]]
                  ELSE LeafEquals(heap[l][key], heap[r][key])
        /\ NoFurtherKeys(heap, l, r)
    BY <1>1, Zenon DEF EqualStep
  <2>2. ASSUME NEW key \in KeysIn(heap, l), IsPlain(heap[l][key]) PROVE heap[r][key] \in Objects
    <3>1. heap[l][key] \in Objects /\ heap[r][key] \in E[heap[l][key]]
      BY <2>1, <2>2, Zenon DEF IsPlain
    <3> QED
      BY <3>1, Zenon
  <2> QED
    BY <2>1, <2>2, Zenon DEF AgreesSoFar, PartsIn
<1>2. ASSUME AgreesSoFar(l, r), PartsIn(E, l, r) PROVE r \in EqualStep(E, l)
  BY <1>2, Zenon DEF AgreesSoFar, PartsIn, EqualStep
<1> QED
  BY <1>1, <1>2

LEMMA EqualExists == \E E : Compares(E)
<1>1. PICK D : D = Objects \X Objects
  OBVIOUS
<1>2. PICK B : B = {x \in D : ~AgreesSoFar(x[1], x[2])}
  OBVIOUS
<1>3. PICK next : next = [x \in D |-> {y \in D : \E key \in KeysIn(heap, x[1]) :
                              /\ IsPlain(heap[x[1]][key])
                              /\ y[1] = heap[x[1]][key] /\ y[2] = heap[x[2]][key]}]
  OBVIOUS
<1>4. \A x \in D : next[x] \subseteq D
  BY <1>3
<1>5. PICK G : Solves(G, D, B, next)
  BY <1>4, SolutionExists
<1>6. PICK E : E = [l \in Objects |-> {r \in Objects : << l, r >> \notin G}]
  OBVIOUS
<1>7. \A o \in Objects : E[o] \subseteq Objects
  BY <1>6
<1>8. ASSUME NEW l \in Objects PROVE E[l] = EqualStep(E, l)
  <2>1. ASSUME NEW r \in Objects PROVE r \in E[l] <=> r \in EqualStep(E, l)
    <3>1. PICK x : x = << l, r >>
      OBVIOUS
    <3>2. x \in D /\ x[1] = l /\ x[2] = r
      BY <1>1, <3>1
    <3>3. x \in G <=> (x \in B \/ \E y \in next[x] : y \in G)
      BY <1>5, <3>2, Zenon DEF Solves
    <3>4. x \in B <=> ~AgreesSoFar(l, r)
      BY <1>2, <3>2, Zenon
    <3>5. ASSUME AgreesSoFar(l, r) PROVE (\E y \in next[x] : y \in G) <=> ~PartsIn(E, l, r)
      <4>1. ASSUME NEW key \in KeysIn(heap, l), IsPlain(heap[l][key])
            PROVE  /\ << heap[l][key], heap[r][key] >> \in D
                   /\ heap[r][key] \in E[heap[l][key]] <=> << heap[l][key], heap[r][key] >> \notin G
        <5>1. heap[l][key] \in Objects /\ heap[r][key] \in Objects
          BY <3>5, <4>1, Zenon DEF AgreesSoFar, IsPlain
        <5> QED
          BY <1>1, <1>6, <5>1
      <4>2. ASSUME NEW y \in next[x], y \in G PROVE ~PartsIn(E, l, r)
        <5>1. y \in D /\ \E key \in KeysIn(heap, l) :
                  IsPlain(heap[l][key]) /\ y[1] = heap[l][key] /\ y[2] = heap[r][key]
          BY <1>3, <3>2
        <5>2. PICK key \in KeysIn(heap, l) :
                  IsPlain(heap[l][key]) /\ y[1] = heap[l][key] /\ y[2] = heap[r][key]
          BY <5>1
        <5>3. y = << heap[l][key], heap[r][key] >>
          BY <1>1, <5>1, <5>2
        <5>4. heap[r][key] \notin E[heap[l][key]]
          BY <4>1, <4>2, <5>2, <5>3, Zenon
        <5> QED
          BY <5>2, <5>4, Zenon DEF PartsIn
      <4>3. ASSUME ~PartsIn(E, l, r) PROVE \E y \in next[x] : y \in G
        <5>1. PICK key \in KeysIn(heap, l) : IsPlain(heap[l][key]) /\ heap[r][key] \notin E[heap[l][key]]
          BY <4>3, Zenon DEF PartsIn
        <5>2. PICK y : y = << heap[l][key], heap[r][key] >>
          OBVIOUS
        <5>3. y \in D /\ y \in G
          BY <4>1, <5>1, <5>2, Zenon
        <5>4. y[1] = heap[l][key] /\ y[2] = heap[r][key]
          BY <5>2
        <5>5. y \in next[x]
          BY <1>3, <3>2, <5>1, <5>3, <5>4
        <5> QED
          BY <5>3, <5>5
      <4> QED
        BY <4>2, <4>3
    <3>6. r \in E[l] <=> x \notin G
      BY <1>6, <3>1
    <3>7. r \in EqualStep(E, l) <=> AgreesSoFar(l, r) /\ PartsIn(E, l, r)
      BY <1>7, EqualStepIs
    <3> QED
      BY <3>3, <3>4, <3>5, <3>6, <3>7, Zenon
  <2>2. E[l] \subseteq Objects /\ EqualStep(E, l) \subseteq Objects
    BY <1>6 DEF EqualStep
  <2> QED
    BY <2>1, <2>2
<1>9. E = [l \in Objects |-> EqualStep(E, l)]
  BY <1>6, <1>8
<1> QED
  BY <1>9, Zenon DEF Compares

PartsEqual(E) ==
    \A l \in Objects : /\ E[l] \subseteq Objects
                       /\ \A r \in Objects : r \in E[l] <=> AgreesSoFar(l, r) /\ PartsIn(E, l, r)

LEMMA CompareIs ==
    ASSUME NEW expected, NEW actual
    PROVE  \E E : /\ CompareRecursively(heap, expected, actual) <=> actual \in E[expected]
                  /\ PartsEqual(E)
<1>1. PICK E : E = CHOOSE f : Compares(f)
  OBVIOUS
<1>2. Compares(E)
  BY <1>1, EqualExists, Zenon
<1>3. CompareRecursively(heap, expected, actual) <=> actual \in E[expected]
  BY <1>1, Zenon DEF CompareRecursively, Compares, EqualStep
<1>4. \A l \in Objects : E[l] = EqualStep(E, l)
  <2>1. E = [l \in Objects |-> EqualStep(E, l)]
    BY <1>2, Zenon DEF Compares
  <2> QED
    BY <2>1
<1>5. \A l \in Objects : E[l] \subseteq Objects
  BY <1>4 DEF EqualStep
<1>6. ASSUME NEW l \in Objects, NEW r \in Objects
      PROVE  r \in E[l] <=> AgreesSoFar(l, r) /\ PartsIn(E, l, r)
  <2>1. r \in EqualStep(E, l) <=> AgreesSoFar(l, r) /\ PartsIn(E, l, r)
    BY <1>5, EqualStepIs
  <2> QED
    BY <1>4, <2>1
<1>7. PartsEqual(E)
  BY <1>5, <1>6, Zenon DEF PartsEqual
<1> QED
  BY <1>3, <1>7

LEMMA EqualIsSame ==
    ASSUME heap \in Heaps, NEW E, PartsEqual(E), NEW a \in PlainObjects, NEW b \in PlainObjects,
           KindOf[a] = KindOf[b], b \in E[a]
    PROVE  SameTree(a, b)
<1>1. PICK R : R = {p \in PlainObjects \X PlainObjects : KindOf[p[1]] = KindOf[p[2]] /\ p[2] \in E[p[1]]}
  OBVIOUS
<1>2. R \in SUBSET (PlainObjects \X PlainObjects) /\ << a, b >> \in R
  BY <1>1
<1>3. ASSUME NEW p \in R PROVE SameUnder(p[1], p[2], R)
  <2>1. PICK l, r : l = p[1] /\ r = p[2]
    OBVIOUS
  <2>2. l \in PlainObjects /\ r \in PlainObjects /\ KindOf[l] = KindOf[r] /\ r \in E[l]
    BY <1>1, <2>1
  <2>3. l \in Objects /\ r \in Objects
    BY <2>2 DEF PlainObjects
  <2>4. AgreesSoFar(l, r) /\ PartsIn(E, l, r)
    BY <2>2, <2>3, Zenon DEF PartsEqual
  <2>5. ASSUME NEW k \in Keys
        PROVE  Matches(heap[l][k], heap[r][k]) \/ << heap[l][k], heap[r][k] >> \in R
    <3>1. CASE k \notin KeysIn(heap, l)
      <4>1. k \notin KeysIn(heap, r)
        BY <2>4, <3>1, Zenon DEF AgreesSoFar, NoFurtherKeys
      <4>2. heap[l][k] = Absent /\ heap[r][k] = Absent
        BY <3>1, <4>1, Zenon DEF KeysIn
      <4>3. Matches(Absent, Absent)
        BY DEF Matches
      <4> QED
        BY <4>2, <4>3, Zenon
    <3>2. CASE k \in KeysIn(heap, l) /\ IsPlain(heap[l][k])
      <4>1. PICK c, d : c = heap[l][k] /\ d = heap[r][k]
        OBVIOUS
      <4>2. KindOf[c] = KindOf[d] /\ d \in Objects /\ d \in E[c] /\ IsPlain(c)
        BY <2>4, <3>2, <4>1, Zenon DEF AgreesSoFar, PartsIn
      <4>3. c \in PlainObjects /\ d \in PlainObjects
        BY <4>2, Zenon DEF PlainObjects, IsPlain
      <4>4. << c, d >> \in R
        BY <1>1, <4>2, <4>3
      <4> QED
        BY <4>1, <4>4, Zenon
    <3>3. CASE k \in KeysIn(heap, l) /\ ~IsPlain(heap[l][k])
      <4>1. PICK x, y : x = heap[l][k] /\ y = heap[r][k]
        OBVIOUS
      <4>2. y # Absent /\ LeafEquals(x, y)
        BY <2>4, <3>3, <4>1, Zenon DEF AgreesSoFar
      <4>3. x \in Objects /\ y \in Objects \cup {Absent}
        BY <2>3, <3>3, <4>1, HeapValue DEF KeysIn
      <4> QED
        BY <3>3, <4>1, <4>2, <4>3, LeafIs
    <3> QED
      BY <3>1, <3>2, <3>3
  <2>6. SameUnder(l, r, R)
    BY <2>2, <2>5, Zenon DEF SameUnder
  <2> QED
    BY <2>1, <2>6
<1> QED
  BY <1>2, <1>3, Zenon DEF SameTree

LEMMA ReachesLess ==
    ASSUME IsFiniteSet(Objects), NEW a, NEW c \in Reachable(a), c \notin Reachable(c)
    PROVE  /\ Cardinality(Reachable(c)) \in Nat /\ Cardinality(Reachable(a)) \in Nat
           /\ Cardinality(Reachable(c)) < Cardinality(Reachable(a))
<1>1. /\ Reachable(c) \subseteq Reachable(a)
      /\ Reachable(a) \subseteq Objects /\ Reachable(c) \subseteq Objects
  BY ReachOnwards, ReachObjects
<1>2. IsFiniteSet(Reachable(a)) /\ IsFiniteSet(Reachable(c))
  BY <1>1, FS_Subset
<1>3. Cardinality(Reachable(a)) \in Nat /\ Cardinality(Reachable(c)) \in Nat
  BY <1>2, FS_CardinalityType
<1>4. Reachable(c) # Reachable(a)
  OBVIOUS
<1>5. Cardinality(Reachable(c)) <= Cardinality(Reachable(a))
      /\ (Cardinality(Reachable(c)) = Cardinality(Reachable(a)) => Reachable(c) = Reachable(a))
  BY <1>1, <1>2, FS_Subset
<1> QED
  BY <1>3, <1>4, <1>5

LEMMA SameIsEqual ==
    ASSUME heap \in Heaps, IsFiniteSet(Objects), NEW E, PartsEqual(E), NEW root \in Objects,
           ~Cyclic(root),
           NEW R \in SUBSET (PlainObjects \X PlainObjects), \A p \in R : SameUnder(p[1], p[2], R)
    PROVE  \A b : << root, b >> \in R => b \in E[root]
<1>1. PICK T : T = Reachable(root) \cup {root}
  OBVIOUS
<1>2. \A x \in T : x \in Objects /\ x \notin Reachable(x)
  BY <1>1, ReachObjects DEF Cyclic
<1>3. PICK S : S = {k \in Nat : \A a \in T : Cardinality(Reachable(a)) = k
                                 => \A b : << a, b >> \in R => b \in E[a]}
  OBVIOUS
<1>4. ASSUME NEW k \in Nat, \A m \in Nat : m < k => m \in S PROVE k \in S
  <2>1. ASSUME NEW a \in T, Cardinality(Reachable(a)) = k, NEW b, << a, b >> \in R PROVE b \in E[a]
    <3>1. SameUnder(a, b, R) /\ b \in Objects /\ a \in Objects
      BY <2>1 DEF PlainObjects
    <3>2. ASSUME NEW key \in KeysIn(heap, a)
          PROVE  /\ heap[b][key] # Absent
                 /\ IF IsPlain(heap[a][key])
                    THEN KindOf[heap[a][key]] = KindOf[heap[b][key]] /\ heap[b][key] \in Objects
                    ELSE LeafEquals(heap[a][key], heap[b][key])
                 /\ IsPlain(heap[a][key]) => heap[b][key] \in E[heap[a][key]]
      <4>1. PICK c, d : c = heap[a][key] /\ d = heap[b][key]
        OBVIOUS
      <4>2. key \in Keys /\ c # Absent
        BY <4>1, Zenon DEF KeysIn
      <4>3. Matches(c, d) \/ << c, d >> \in R
        BY <3>1, <4>1, <4>2, Zenon DEF SameUnder
      <4>4. CASE Matches(c, d)
        <5>1. c \in Objects /\ d \in Objects \cup {Absent}
          BY <3>1, <4>1, <4>2, HeapValue
        <5>2. ~IsPlain(c) /\ d # Absent /\ LeafEquals(c, d)
          BY <4>4, <5>1, LeafIs
        <5> QED
          BY <4>1, <5>2, Zenon
      <4>5. CASE << c, d >> \in R
        <5>1. c \in PlainObjects /\ d \in PlainObjects /\ SameUnder(c, d, R)
          BY <4>5
        <5>2. c \in Objects /\ IsPlain(c) /\ d \in Objects /\ KindOf[c] = KindOf[d]
          BY <5>1, Zenon DEF PlainObjects, SameUnder
        <5>3. LeadsTo(a, c)
          BY <4>1, <4>2, <5>2, Zenon DEF LeadsTo
        <5>4. c \in Reachable(a)
          BY <5>3, ReachClosed
        <5>5. c \in T
          <6>1. a = root \/ a \in Reachable(root)
            BY <1>1, <2>1
          <6> QED
            BY <1>1, <5>3, <6>1, ReachClosed
        <5>6. PICK m \in Nat : m = Cardinality(Reachable(c)) /\ m < k
          BY <1>2, <2>1, <5>4, <5>5, ReachesLess
        <5>7. m \in S
          BY <1>4, <5>6
        <5>8. d \in E[c]
          BY <1>3, <4>5, <5>5, <5>6, <5>7
        <5>9. d # Absent
          BY <5>2, AbsentAssumption, Zenon
        <5> QED
          BY <4>1, <5>2, <5>8, <5>9, Zenon
      <4> QED
        BY <4>3, <4>4, <4>5
    <3>3. NoFurtherKeys(heap, a, b)
      <4>1. ASSUME NEW key \in KeysIn(heap, b), key \notin KeysIn(heap, a) PROVE FALSE
        <5>1. key \in Keys /\ heap[b][key] # Absent /\ heap[a][key] = Absent
          BY <4>1, Zenon DEF KeysIn
        <5>4. ~Matches(Absent, heap[b][key])
          BY <5>1, AbsentAssumption DEF Matches
        <5>2. << Absent, heap[b][key] >> \in R
          BY <3>1, <5>1, <5>4, Zenon DEF SameUnder
        <5>3. Absent \in Objects
          BY <5>2 DEF PlainObjects
        <5> QED
          BY <5>3, AbsentAssumption
      <4> QED
        BY <4>1, Zenon DEF NoFurtherKeys
    <3>4. AgreesSoFar(a, b) /\ PartsIn(E, a, b)
      BY <3>2, <3>3, Zenon DEF AgreesSoFar, PartsIn
    <3> QED
      BY <3>1, <3>4, Zenon DEF PartsEqual
  <2> QED
    BY <1>3, <2>1
<1>5. Nat \subseteq S
  BY <1>4, StrongInduction
<1>6. Cardinality(Reachable(root)) \in S
  <2>1. IsFiniteSet(Reachable(root))
    BY ReachObjects, FS_Subset
  <2> QED
    BY <1>5, <2>1, FS_CardinalityType
<1>7. root \in T
  BY <1>1
<1> QED
  BY <1>3, <1>6, <1>7

(* In a heap of any finite number of objects that refer to each other in    *)
(* any way, recursivelyEquals refuses exactly the expected objects from     *)
(* which a cycle can be reached, and of the others tells whether the two    *)
(* unfold to the same tree (containsCycle_ and compareRecursively_ of       *)
(* equality_matchers.js).                                                   *)
THEOREM EqualIfSameTreeCorrect == Spec => []EqualIfSameTree
<1>1. HeapInvariant => EqualIfSameTree
  <2> SUFFICES ASSUME HeapInvariant PROVE EqualIfSameTree
    OBVIOUS
  <2>0. heap \in Heaps
    BY DEF HeapInvariant
  <2>1. IsFiniteSet(Objects) /\ Root \in Objects /\ Root \in PlainObjects
    BY ObjectsAssumption DEF IsPlain, PlainObjects
  <2>2. ASSUME NEW actual \in PlainObjects
        PROVE  RecursivelyEquals(heap, Root, actual) =
                   IF Cyclic(Root) THEN "given a non-tree"
                   ELSE IF SameTree(Root, actual) THEN "equal" ELSE "different"
    <3>1. ContainsCycle(heap, Root) <=> Cyclic(Root)
      BY <2>1, CycleFound
    <3>2. PICK E : /\ CompareRecursively(heap, Root, actual) <=> actual \in E[Root]
                   /\ PartsEqual(E)
      BY CompareIs
    <3>3. ASSUME KindOf[actual] = KindOf[Root], actual \in E[Root] PROVE SameTree(Root, actual)
      BY <2>0, <2>1, <3>2, <3>3, EqualIsSame
    <3>4. ASSUME ~Cyclic(Root), SameTree(Root, actual)
          PROVE  KindOf[actual] = KindOf[Root] /\ actual \in E[Root]
      <4>1. PICK R \in SUBSET (PlainObjects \X PlainObjects) :
               << Root, actual >> \in R /\ \A p \in R : SameUnder(p[1], p[2], R)
        BY <3>4, Zenon DEF SameTree
      <4>2. KindOf[Root] = KindOf[actual]
        <5>1. SameUnder(Root, actual, R)
          BY <4>1
        <5> QED
          BY <5>1, Zenon DEF SameUnder
      <4>3. actual \in E[Root]
        BY <2>0, <2>1, <3>2, <3>4, <4>1, SameIsEqual
      <4> QED
        BY <4>2, <4>3
    <3>5. ~Cyclic(Root) => (SameTree(Root, actual)
                            <=> KindOf[actual] = KindOf[Root] /\ CompareRecursively(heap, Root, actual))
      BY <3>2, <3>3, <3>4, Zenon
    <3> QED
      BY <3>1, <3>5, Zenon DEF RecursivelyEquals
  <2> QED
    BY <2>2, Zenon DEF EqualIfSameTree
<1> QED
  BY <1>1, HeapTyped, PTL

-----------------------------------------------------------------------------
(* The list that the marks are                                             *)

Bearing(m) == {o \in Objects : m[o] # Unmarked}
ClosedUnder(m, S) == \A o \in S : m[o] \in Objects => m[o] \in S
ClosedAgainst(m, S) == \A o \in Objects : (m[o] \in Objects => m[o] \in S) => o \in S
(* A list of all that bear a mark, from the root on, which ends. *)
ListFrom(m, root) ==
    /\ m \in Marks /\ root \in Bearing(m)
    /\ \A o \in Objects : m[o] \in Objects => m[o] \in Bearing(m)
    /\ \A S \in SUBSET Objects : ClosedAgainst(m, S) => Objects \subseteq S
    /\ \A S \in SUBSET Objects : root \in S /\ ClosedUnder(m, S) => Bearing(m) \subseteq S

LEMMA MarksDiffer == Unmarked # EndOfList /\ Unmarked \notin Objects /\ EndOfList \notin Objects
<1>1. Unmarked # EndOfList
  BY DEF Unmarked, EndOfList
<1> QED
  BY <1>1, MarkAssumption

LEMMA ListStarts ==
    ASSUME NEW root \in Objects, NEW m \in Marks, Bearing(m) = {},
           NEW n, n = [m EXCEPT ![root] = EndOfList]
    PROVE  ListFrom(n, root) /\ Bearing(n) = {root}
<1>1. \A o \in Objects : m[o] = Unmarked
  BY DEF Bearing
<1>2. n \in Marks /\ n[root] = EndOfList /\ \A o \in Objects : o # root => n[o] = Unmarked
  BY <1>1 DEF Marks
<1>3. Bearing(n) = {root}
  BY <1>2, MarksDiffer DEF Bearing
<1>4. \A o \in Objects : n[o] \notin Objects
  BY <1>2, MarksDiffer
<1>5. ASSUME NEW S \in SUBSET Objects, ClosedAgainst(n, S) PROVE Objects \subseteq S
  BY <1>4, <1>5 DEF ClosedAgainst
<1>6. \A S \in SUBSET Objects : root \in S => Bearing(n) \subseteq S
  BY <1>3
<1> QED
  BY <1>2, <1>3, <1>4, <1>5, <1>6 DEF ListFrom

LEMMA ListGrows ==
    ASSUME NEW root, NEW m, ListFrom(m, root), NEW p \in Bearing(m), NEW c \in Objects \ Bearing(m),
           NEW n, n = Insert(m, p, c)
    PROVE  ListFrom(n, root) /\ Bearing(n) = Bearing(m) \cup {c}
<1>1. /\ m \in Marks /\ root \in Bearing(m) /\ p \in Objects /\ p # c /\ m[c] = Unmarked
      /\ m[p] # Unmarked /\ \A o \in Objects : m[o] \in Objects => m[o] \in Bearing(m)
  BY DEF ListFrom, Bearing
<1>2. /\ n \in Marks /\ n[c] = m[p] /\ n[p] = c
      /\ \A o \in Objects : (o # c /\ o # p) => n[o] = m[o]
  BY <1>1 DEF Insert, Marks
<1>3. Bearing(n) = Bearing(m) \cup {c}
  <2>1. ASSUME NEW o \in Objects PROVE n[o] # Unmarked <=> (m[o] # Unmarked \/ o = c)
    BY <1>1, <1>2, MarksDiffer
  <2> QED
    BY <2>1 DEF Bearing
<1>4. \A o \in Objects : n[o] \in Objects => n[o] \in Bearing(n)
  BY <1>1, <1>2, <1>3
<1>5. ASSUME NEW S \in SUBSET Objects, ClosedAgainst(n, S) PROVE Objects \subseteq S
  <2>1. PICK T \in SUBSET Objects : T = S \cup {c}
    <3>1. S \cup {c} \in SUBSET Objects
      OBVIOUS
    <3> QED
      BY <3>1, Zenon
  <2>2. ASSUME NEW o \in Objects, m[o] \in Objects => m[o] \in T PROVE o \in T
    <3>1. m[o] \in Objects => (m[o] \in S /\ m[o] # c)
      <4>1. m[o] \in Objects => m[o] # c
        BY <1>1 DEF Bearing
      <4> QED
        BY <2>1, <2>2, <4>1
    <3>2. CASE o = c
      BY <2>1, <3>2
    <3>3. CASE o # c /\ o # p
      <4>1. n[o] \in Objects => n[o] \in S
        BY <1>2, <3>1, <3>3
      <4> QED
        BY <1>5, <2>1, <4>1 DEF ClosedAgainst
    <3>4. CASE o = p
      <4>1. n[c] \in Objects => n[c] \in S
        BY <1>2, <3>1, <3>4
      <4>2. c \in S
        BY <1>5, <4>1 DEF ClosedAgainst
      <4>3. n[p] \in Objects => n[p] \in S
        BY <1>2, <4>2
      <4>4. p \in S
        BY <1>1, <1>5, <4>3 DEF ClosedAgainst
      <4> QED
        BY <2>1, <3>4, <4>4
    <3> QED
      BY <3>2, <3>3, <3>4
  <2>3. Objects \subseteq T
    BY <2>2, Zenon DEF ListFrom, ClosedAgainst
  <2>4. n[c] \in Objects => n[c] \in S
    <3>1. m[p] \in Objects => m[p] # c
      BY <1>1 DEF Bearing
    <3> QED
      BY <1>2, <2>1, <2>3, <3>1
  <2>5. c \in S
    BY <1>5, <2>4 DEF ClosedAgainst
  <2> QED
    BY <2>1, <2>3, <2>5
<1>6. ASSUME NEW S \in SUBSET Objects, root \in S, ClosedUnder(n, S) PROVE Bearing(n) \subseteq S
  <2>1. ASSUME NEW o \in S, m[o] \in Objects PROVE m[o] \in S
    <3>1. CASE o = c
      BY <1>1, <2>1, <3>1, MarksDiffer
    <3>2. CASE o # c /\ o # p
      BY <1>2, <1>6, <2>1, <3>2 DEF ClosedUnder
    <3>3. CASE o = p
      <4>1. c \in S
        BY <1>2, <1>6, <2>1, <3>3 DEF ClosedUnder
      <4> QED
        BY <1>2, <1>6, <2>1, <3>3, <4>1 DEF ClosedUnder
    <3> QED
      BY <3>1, <3>2, <3>3
  <2>2. Bearing(m) \subseteq S
    BY <1>6, <2>1, Zenon DEF ListFrom, ClosedUnder
  <2>3. c \in S
    BY <1>2, <1>6, <2>2 DEF ClosedUnder
  <2> QED
    BY <1>3, <2>2, <2>3
<1>7. root \in Bearing(n)
  BY <1>1, <1>3
<1> QED
  BY <1>2, <1>3, <1>4, <1>5, <1>6, <1>7 DEF ListFrom

FollowStep(L, m, o) == {o} \cup (IF m[o] \in Objects THEN L[m[o]] ELSE {})
FollowsList(L, m) == L = [o \in Objects |-> FollowStep(L, m, o)]

LEMMA FollowsExists ==
    ASSUME NEW m
    PROVE  \E L : FollowsList(L, m)
<1>1. PICK D : D = Objects \X Objects
  OBVIOUS
<1>2. PICK B : B = {x \in D : x[2] = x[1]}
  OBVIOUS
<1>3. PICK next : next = [x \in D |-> {y \in D : y[1] = m[x[1]] /\ y[2] = x[2]}]
  OBVIOUS
<1>4. \A x \in D : next[x] \subseteq D
  BY <1>3
<1>5. PICK G : Solves(G, D, B, next)
  BY <1>4, SolutionExists
<1>6. PICK L : L = [o \in Objects |-> {q \in Objects : << o, q >> \in G}]
  OBVIOUS
<1>7. ASSUME NEW o \in Objects PROVE L[o] = FollowStep(L, m, o)
  <2>1. ASSUME NEW q \in Objects PROVE q \in L[o] <=> (q = o \/ (m[o] \in Objects /\ q \in L[m[o]]))
    <3>1. PICK x : x = << o, q >>
      OBVIOUS
    <3>2. x \in D /\ x[1] = o /\ x[2] = q
      BY <1>1, <3>1
    <3>3. x \in G <=> (x \in B \/ \E y \in next[x] : y \in G)
      BY <1>5, <3>2, Zenon DEF Solves
    <3>4. x \in B <=> q = o
      BY <1>2, <3>2, Zenon
    <3>5. ASSUME NEW y \in next[x], y \in G PROVE m[o] \in Objects /\ q \in L[m[o]]
      <4>1. y \in D /\ y[1] = m[o] /\ y[2] = q
        BY <1>3, <3>2, <3>5
      <4>2. m[o] \in Objects /\ y = << m[o], q >>
        BY <1>1, <4>1
      <4> QED
        BY <1>6, <3>5, <4>2
    <3>6. ASSUME m[o] \in Objects, q \in L[m[o]] PROVE \E y \in next[x] : y \in G
      <4>1. PICK y : y = << m[o], q >>
        OBVIOUS
      <4>2. y \in D /\ y[1] = m[o] /\ y[2] = q
        BY <1>1, <3>6, <4>1
      <4>3. y \in next[x]
        BY <1>3, <3>2, <4>2
      <4>4. y \in G
        BY <1>6, <3>6, <4>1
      <4> QED
        BY <4>3, <4>4
    <3>7. q \in L[o] <=> x \in G
      BY <1>6, <3>1
    <3> QED
      BY <3>3, <3>4, <3>5, <3>6, <3>7, Zenon
  <2>2. L[o] \subseteq Objects /\ (m[o] \in Objects => L[m[o]] \subseteq Objects)
    BY <1>6
  <2>3. \A q : q \in FollowStep(L, m, o) <=> (q = o \/ (m[o] \in Objects /\ q \in L[m[o]]))
    BY DEF FollowStep
  <2> QED
    BY <2>1, <2>2, <2>3
<1>8. L = [o \in Objects |-> FollowStep(L, m, o)]
  BY <1>6, <1>7
<1> QED
  BY <1>8, Zenon DEF FollowsList

LEMMA ListedIs ==
    ASSUME NEW m, NEW root
    PROVE  \E L : /\ Listed(m, root) = L[root]
                  /\ \A o \in Objects : L[o] = FollowStep(L, m, o)
<1>1. PICK L : L = CHOOSE f : FollowsList(f, m)
  OBVIOUS
<1>2. FollowsList(L, m)
  BY <1>1, FollowsExists, Zenon
<1>3. Listed(m, root) = L[root]
  BY <1>1, Zenon DEF Listed, FollowsList, FollowStep
<1>4. \A o \in Objects : L[o] = FollowStep(L, m, o)
  <2>1. L = [o \in Objects |-> FollowStep(L, m, o)]
    BY <1>2, Zenon DEF FollowsList
  <2> QED
    BY <2>1
<1> QED
  BY <1>3, <1>4

(* Following the list from the root comes by all that bear a mark. *)
LEMMA ListedAll ==
    ASSUME NEW root, NEW m, ListFrom(m, root)
    PROVE  Bearing(m) \subseteq Listed(m, root)
<1>1. PICK L : /\ Listed(m, root) = L[root]
               /\ \A o \in Objects : L[o] = FollowStep(L, m, o)
  BY ListedIs
<1>2. root \in Objects
  BY DEF ListFrom, Bearing
<1>3. \A o \in Objects : \A q : q \in L[o] <=> (q = o \/ (m[o] \in Objects /\ q \in L[m[o]]))
  BY <1>1 DEF FollowStep
<1>4. PICK T \in SUBSET Objects :
         T = {x \in Objects : L[x] \subseteq Objects /\ ClosedUnder(m, L[x])}
  <2>1. {x \in Objects : L[x] \subseteq Objects /\ ClosedUnder(m, L[x])} \in SUBSET Objects
    OBVIOUS
  <2> QED
    BY <2>1, Zenon
<1>5. ASSUME NEW x \in Objects, m[x] \in Objects => m[x] \in T PROVE x \in T
  <2>1. L[x] \subseteq Objects
    BY <1>3, <1>4, <1>5
  <2>2. ASSUME NEW o \in L[x], m[o] \in Objects PROVE m[o] \in L[x]
    <3>1. CASE o = x
      <4>1. m[x] \in L[m[x]]
        BY <1>3, <2>2, <3>1
      <4> QED
        BY <1>3, <2>2, <3>1, <4>1
    <3>2. CASE m[x] \in Objects /\ o \in L[m[x]]
      <4>1. ClosedUnder(m, L[m[x]])
        BY <1>4, <1>5, <3>2
      <4>2. m[o] \in L[m[x]]
        BY <2>2, <3>2, <4>1 DEF ClosedUnder
      <4> QED
        BY <1>3, <3>2, <4>2
    <3> QED
      BY <1>3, <3>1, <3>2
  <2> QED
    BY <1>4, <2>1, <2>2 DEF ClosedUnder
<1>6. Objects \subseteq T
  BY <1>5, Zenon DEF ListFrom, ClosedAgainst
<1>7. L[root] \in SUBSET Objects /\ ClosedUnder(m, L[root]) /\ root \in L[root]
  BY <1>2, <1>3, <1>4, <1>6
<1> QED
  BY <1>1, <1>7, Zenon DEF ListFrom

LEMMA FinishIs ==
    ASSUME NEW root, NEW m \in Marks
    PROVE  /\ Finish(m, root) \in Marks
           /\ ListFrom(m, root) => \A o \in Objects : Finish(m, root)[o] = Unmarked
<1>1. PICK n : n = Finish(m, root)
  OBVIOUS
<1>2. n = [o \in Objects |-> IF o \in Listed(m, root) THEN Unmarked ELSE m[o]]
  BY <1>1, Zenon DEF Finish
<1>3. n \in Marks
  BY <1>2 DEF Marks
<1>4. ASSUME ListFrom(m, root), NEW o \in Objects PROVE n[o] = Unmarked
  <2>1. Bearing(m) \subseteq Listed(m, root)
    BY <1>4, ListedAll
  <2>2. o \notin Listed(m, root) => m[o] = Unmarked
    BY <2>1 DEF Bearing
  <2> QED
    BY <1>2, <2>2
<1> QED
  BY <1>1, <1>3, <1>4

-----------------------------------------------------------------------------
(* What stringifyToDepth computes                                          *)

CallsTo(d) == [object : Objects, depth : 0..d, marks : Marks]
Answers == [marks : Marks, expanded : Seq(Objects)]
Progress == [marks : Marks, parts : Nat, expanded : Seq(Objects)]

Seen(before, child) == before.marks[child] # Unmarked
ChildCall(call, before, child) ==
    [object |-> child,
     depth |-> IF Seen(before, child) THEN 0 ELSE call.depth - 1,
     marks |-> IF Seen(before, child) THEN before.marks
               ELSE Insert(before.marks, call.object, child)]
WithChild(before, answer) ==
    [marks |-> answer.marks, parts |-> before.parts + 1,
     expanded |-> before.expanded \o answer.expanded]
KeyAdded(D, call, before, child, most, gap) ==
    IF child = Absent \/ call.depth = 0 THEN [before EXCEPT !.parts = @ + gap]
    ELSE IF before.parts >= most THEN before
    ELSE WithChild(before, D[ChildCall(call, before, child)])
AtFirst(call) ==
    [marks |-> IF call.marks[call.object] = Unmarked
               THEN [call.marks EXCEPT ![call.object] = EndOfList] ELSE call.marks,
     parts |-> 0,
     expanded |-> IF call.depth > 0 THEN << call.object >> ELSE << >>]
ChildAt(call, i) == heap[call.object][KeyOrder[i]]
GapAt(call, i) == Gap(heap, call.object, i)
KeyStep(A, D, call, most, i) ==
    IF i = 0 THEN AtFirst(call) ELSE KeyAdded(D, call, A[i - 1], ChildAt(call, i), most, GapAt(call, i))
Keyed(A, D, call, most) == A = [i \in 0..Len(KeyOrder) |-> KeyStep(A, D, call, most, i)]
AllKeys(D, call, most) == CHOOSE A : Keyed(A, D, call, most)
Done(D, call, most) == AllKeys(D, call, most)[Len(KeyOrder)]
Answer(D, call, most) ==
    IF ~IsPlain(call.object) THEN [marks |-> call.marks, expanded |-> << >>]
    ELSE [marks |-> IF call.marks[call.object] = Unmarked
                    THEN Finish(Done(D, call, most).marks, call.object)
                    ELSE Done(D, call, most).marks,
          expanded |-> Done(D, call, most).expanded]
Describes(D, d, most) == D = [call \in CallsTo(d) |-> Answer(D, call, most)]
RootCall(root, d) ==
    [object |-> root, depth |-> d, marks |-> [o \in Objects |-> Unmarked]]

LEMMA StringifyIs ==
    ASSUME NEW root, NEW d, NEW most
    PROVE  StringifyToDepth(heap, root, d, most) = (CHOOSE D : Describes(D, d, most))[RootCall(root, d)]
BY Zenon DEF StringifyToDepth, Describes, RootCall, Answer, Done, AllKeys, Keyed, KeyStep,
             ChildAt, GapAt, AtFirst, KeyAdded, WithChild, ChildCall, Seen, CallsTo

-----------------------------------------------------------------------------
(* The loop over the keys                                                  *)

LEMMA KeysExist ==
    ASSUME NEW D, NEW call, NEW most
    PROVE  Keyed(AllKeys(D, call, most), D, call, most)
<1> DEFINE KeyedUpto(A, n) == A = [i \in 0..n |-> KeyStep(A, D, call, most, i)]
           S == {n \in Nat : \E A : KeyedUpto(A, n)}
<1>1. ASSUME NEW n \in Nat, \A m \in Nat : m < n => m \in S PROVE n \in S
  <2>1. CASE n = 0
    <3>1. PICK A : A = [i \in 0..0 |-> AtFirst(call)]
      OBVIOUS
    <3>2. \A i \in 0..0 : KeyStep(A, D, call, most, i) = AtFirst(call)
      BY DEF KeyStep
    <3>3. KeyedUpto(A, 0)
      BY <3>1, <3>2
    <3> QED
      BY <2>1, <3>3
  <2>2. CASE n > 0
    <3>1. n - 1 \in Nat
      BY <2>2
    <3>2. PICK m \in Nat : m = n - 1
      BY <3>1, Zenon
    <3>3. m < n /\ m + 1 = n
      BY <3>2
    <3>4. PICK A : KeyedUpto(A, m)
      BY <1>1, <3>3
    <3>5. PICK B : B = [i \in 0..n |-> IF i = n THEN KeyStep(A, D, call, most, n) ELSE A[i]]
      OBVIOUS
    <3>6. ASSUME NEW i \in 0..n PROVE KeyStep(B, D, call, most, i) = B[i]
      <4>1. \A j \in 0..m : B[j] = A[j] /\ A[j] = KeyStep(A, D, call, most, j)
        BY <3>3, <3>4, <3>5
      <4>2. i # 0 => i - 1 \in 0..m
        BY <3>3
      <4>3. KeyStep(B, D, call, most, i) = KeyStep(A, D, call, most, i)
        BY <4>1, <4>2 DEF KeyStep
      <4>4. i = n \/ i \in 0..m
        BY <3>3
      <4> QED
        BY <3>5, <4>1, <4>3, <4>4
    <3>7. KeyedUpto(B, n)
      BY <3>5, <3>6
    <3> QED
      BY <3>7
  <2> QED
    BY <2>1, <2>2
<1> HIDE DEF S
<1>2. Nat \subseteq S
  BY <1>1, StrongInduction
<1>3. Len(KeyOrder) \in S
  <2>1. Len(KeyOrder) \in Nat
    BY KeysAssumption
  <2> QED
    BY <1>2, <2>1
<1>4. \E A : Keyed(A, D, call, most)
  BY <1>3, Zenon DEF S, Keyed
<1> QED
  BY <1>4, Zenon DEF AllKeys

Steps(Good, D, call, most) ==
    \A i \in 0..Len(KeyOrder) : \A b : i < Len(KeyOrder) /\ << i, b >> \in Good
        => << i + 1, KeyAdded(D, call, b, ChildAt(call, i + 1), most, GapAt(call, i + 1)) >> \in Good

(* What holds at first and is kept by each key holds in the end. *)
LEMMA KeysKeep ==
    ASSUME NEW D, NEW call, NEW most, NEW A, Keyed(A, D, call, most),
           NEW Good, << 0, AtFirst(call) >> \in Good, Steps(Good, D, call, most)
    PROVE  \A i \in 0..Len(KeyOrder) : << i, A[i] >> \in Good
<1>1. PICK K \in Nat : K = Len(KeyOrder)
  BY KeysAssumption
<1>2. \A i \in 0..K : A[i] = KeyStep(A, D, call, most, i)
  BY <1>1 DEF Keyed
<1>3. PICK S : S = {n \in Nat : n \in 0..K => << n, A[n] >> \in Good}
  OBVIOUS
<1>4. ASSUME NEW n \in Nat, \A m \in Nat : m < n => m \in S PROVE n \in S
  <2>1. CASE n = 0
    <3>1. A[0] = AtFirst(call)
      BY <1>2 DEF KeyStep
    <3> QED
      BY <1>3, <2>1, <3>1
  <2>2. CASE n > 0 /\ n \in 0..K
    <3>1. n - 1 \in 0..K /\ n - 1 < K /\ n - 1 \in Nat /\ n - 1 < n
      BY <2>2
    <3>2. PICK m \in 0..K : m = n - 1 /\ m < K
      BY <3>1, Zenon
    <3>3. m \in Nat /\ m < n /\ m + 1 = n
      BY <3>2
    <3>4. << m, A[m] >> \in Good
      BY <1>3, <1>4, <3>3
    <3>5. << m + 1, KeyAdded(D, call, A[m], ChildAt(call, m + 1), most, GapAt(call, m + 1)) >> \in Good
      BY <1>1, <3>2, <3>4 DEF Steps
    <3>6. A[n] = KeyAdded(D, call, A[m], ChildAt(call, n), most, GapAt(call, n))
      BY <1>2, <2>2, <3>2 DEF KeyStep
    <3> QED
      BY <1>3, <3>3, <3>5, <3>6
  <2> QED
    BY <1>3, <2>1, <2>2
<1>5. Nat \subseteq S
  BY <1>4, StrongInduction
<1> QED
  BY <1>1, <1>3, <1>5

(* What the answers to deeper calls make good is good for all. *)
Rests(Good, D, d, most) ==
    \A call \in CallsTo(d) :
        (\A sub \in CallsTo(d) : sub.depth < call.depth => << sub, D[sub] >> \in Good)
        => << call, Answer(D, call, most) >> \in Good

LEMMA AnswersKeep ==
    ASSUME NEW d \in Nat, NEW most, NEW D, Describes(D, d, most),
           NEW Good, Rests(Good, D, d, most)
    PROVE  \A call \in CallsTo(d) : << call, D[call] >> \in Good
<1>1. PICK S : S = {n \in Nat : \A call \in CallsTo(d) : call.depth = n => << call, D[call] >> \in Good}
  OBVIOUS
<1>2. ASSUME NEW n \in Nat, \A m \in Nat : m < n => m \in S PROVE n \in S
  <2>1. ASSUME NEW call \in CallsTo(d), call.depth = n PROVE << call, D[call] >> \in Good
    <3>1. ASSUME NEW sub \in CallsTo(d), sub.depth < call.depth PROVE << sub, D[sub] >> \in Good
      <4>1. sub.depth \in Nat
        BY DEF CallsTo
      <4>2. sub.depth \in S
        BY <1>2, <2>1, <3>1, <4>1
      <4> QED
        BY <1>1, <4>2
    <3>2. << call, Answer(D, call, most) >> \in Good
      BY <3>1, Zenon DEF Rests
    <3>3. D[call] = Answer(D, call, most)
      BY DEF Describes
    <3> QED
      BY <3>2, <3>3
  <2> QED
    BY <1>1, <2>1
<1>3. Nat \subseteq S
  BY <1>2, StrongInduction
<1>4. \A call \in CallsTo(d) : call.depth \in S
  BY <1>3 DEF CallsTo
<1> QED
  BY <1>1, <1>4

-----------------------------------------------------------------------------
(* It is defined for every heap                                            *)

AnswersBelow(D, d, call) ==
    \A sub \in CallsTo(d) : sub.depth < call.depth => D[sub] \in Answers

LEMMA InsertTyped ==
    ASSUME NEW m \in Marks, NEW p \in Objects, NEW c \in Objects
    PROVE  Insert(m, p, c) \in Marks
BY DEF Insert, Marks

LEMMA ChildTyped ==
    ASSUME heap \in Heaps, NEW d \in Nat, NEW call \in CallsTo(d), NEW i \in 1..Len(KeyOrder)
    PROVE  ChildAt(call, i) \in Objects \cup {Absent}
<1>1. call.object \in Objects
  BY DEF CallsTo
<1>2. KeyOrder[i] \in Keys
  BY KeysAssumption
<1> QED
  BY <1>1, <1>2 DEF ChildAt, Heaps

LEMMA ChildCallTyped ==
    ASSUME NEW d \in Nat, NEW call \in CallsTo(d), NEW before \in Progress,
           NEW child \in Objects, call.depth # 0
    PROVE  /\ ChildCall(call, before, child) \in CallsTo(d)
           /\ ChildCall(call, before, child).depth < call.depth
<1>1. call.object \in Objects /\ call.depth \in 0..d /\ call.depth - 1 \in 0..d
  BY DEF CallsTo
<1>2. before.marks \in Marks
  BY DEF Progress
<1>3. Insert(before.marks, call.object, child) \in Marks
  BY <1>1, <1>2, InsertTyped
<1>4. PICK sub : sub = ChildCall(call, before, child)
  OBVIOUS
<1>5. /\ sub = [object |-> child, depth |-> sub.depth, marks |-> sub.marks]
      /\ sub.depth \in 0..d /\ sub.depth < call.depth /\ sub.marks \in Marks
  BY <1>1, <1>2, <1>3, <1>4 DEF ChildCall
<1>6. sub \in CallsTo(d)
  BY <1>5 DEF CallsTo
<1> QED
  BY <1>4, <1>5, <1>6

LEMMA KeyAddedTyped ==
    ASSUME NEW d \in Nat, NEW most \in Nat, NEW call \in CallsTo(d), NEW before \in Progress,
           NEW child \in Objects \cup {Absent}, NEW gap \in {0, 1}, NEW D, AnswersBelow(D, d, call)
    PROVE  KeyAdded(D, call, before, child, most, gap) \in Progress
<1>1. CASE child = Absent \/ call.depth = 0
  <2>1. [before EXCEPT !.parts = @ + gap] \in Progress
    BY DEF Progress
  <2> QED
    BY <1>1, <2>1 DEF KeyAdded
<1>2. CASE ~(child = Absent \/ call.depth = 0) /\ before.parts >= most
  BY <1>2 DEF KeyAdded
<1>3. CASE ~(child = Absent \/ call.depth = 0) /\ ~(before.parts >= most)
  <2>1. PICK answer \in Answers : answer = D[ChildCall(call, before, child)]
    BY <1>3, ChildCallTyped, Zenon DEF AnswersBelow
  <2>2. before.expanded \o answer.expanded \in Seq(Objects)
    BY ConcatProperties DEF Progress, Answers
  <2>3. WithChild(before, answer) \in Progress
    BY <2>2 DEF WithChild, Progress, Answers
  <2> QED
    BY <1>3, <2>1, <2>3 DEF KeyAdded
<1> QED
  BY <1>1, <1>2, <1>3

LEMMA GapTyped == ASSUME NEW call, NEW i PROVE GapAt(call, i) \in {0, 1}
BY DEF GapAt, Gap

LEMMA FirstTyped ==
    ASSUME NEW d \in Nat, NEW call \in CallsTo(d)
    PROVE  AtFirst(call) \in Progress
<1>1. call.object \in Objects /\ call.marks \in Marks
  BY DEF CallsTo
<1>2. [call.marks EXCEPT ![call.object] = EndOfList] \in Marks
  BY <1>1 DEF Marks
<1>3. << call.object >> \in Seq(Objects) /\ << >> \in Seq(Objects)
  BY <1>1
<1> QED
  BY <1>1, <1>2, <1>3 DEF AtFirst, Progress

LEMMA KeyedTyped ==
    ASSUME heap \in Heaps, NEW d \in Nat, NEW most \in Nat, NEW call \in CallsTo(d), NEW D,
           AnswersBelow(D, d, call), NEW A, Keyed(A, D, call, most)
    PROVE  \A i \in 0..Len(KeyOrder) : A[i] \in Progress
<1>1. PICK Good : Good = (0..Len(KeyOrder)) \X Progress
  OBVIOUS
<1>2. Len(KeyOrder) \in Nat
  BY KeysAssumption
<1>3. << 0, AtFirst(call) >> \in Good
  BY <1>1, <1>2, FirstTyped
<1>4. ASSUME NEW i \in 0..Len(KeyOrder), NEW b, i < Len(KeyOrder), << i, b >> \in Good
      PROVE  << i + 1, KeyAdded(D, call, b, ChildAt(call, i + 1), most, GapAt(call, i + 1)) >> \in Good
  <2>1. i + 1 \in 1..Len(KeyOrder) /\ i + 1 \in 0..Len(KeyOrder) /\ b \in Progress
    BY <1>1, <1>2, <1>4
  <2>2. ChildAt(call, i + 1) \in Objects \cup {Absent}
    BY <2>1, ChildTyped
  <2>3. KeyAdded(D, call, b, ChildAt(call, i + 1), most, GapAt(call, i + 1)) \in Progress
    BY <2>1, <2>2, GapTyped, KeyAddedTyped
  <2> QED
    BY <1>1, <2>1, <2>3
<1>5. Steps(Good, D, call, most)
  BY <1>4, Zenon DEF Steps
<1>6. \A i \in 0..Len(KeyOrder) : << i, A[i] >> \in Good
  BY <1>3, <1>5, KeysKeep
<1> QED
  BY <1>1, <1>6

LEMMA DoneTyped ==
    ASSUME heap \in Heaps, NEW d \in Nat, NEW most \in Nat, NEW call \in CallsTo(d), NEW D,
           AnswersBelow(D, d, call)
    PROVE  Done(D, call, most) \in Progress
<1>1. PICK A : A = AllKeys(D, call, most)
  OBVIOUS
<1>2. Keyed(A, D, call, most)
  BY <1>1, KeysExist
<1>3. Len(KeyOrder) \in 0..Len(KeyOrder)
  BY KeysAssumption
<1>4. A[Len(KeyOrder)] \in Progress
  BY <1>2, <1>3, KeyedTyped
<1> QED
  BY <1>1, <1>4 DEF Done

LEMMA AnswerTyped ==
    ASSUME heap \in Heaps, NEW d \in Nat, NEW most \in Nat, NEW call \in CallsTo(d), NEW D,
           AnswersBelow(D, d, call)
    PROVE  Answer(D, call, most) \in Answers
<1>1. call.marks \in Marks
  BY DEF CallsTo
<1>2. PICK b \in Progress : b = Done(D, call, most)
  BY DoneTyped
<1>3. b.marks \in Marks /\ b.expanded \in Seq(Objects)
  BY DEF Progress
<1>4. Finish(b.marks, call.object) \in Marks
  BY <1>3, FinishIs
<1>5. << >> \in Seq(Objects)
  OBVIOUS
<1> QED
  BY <1>1, <1>2, <1>3, <1>4, <1>5 DEF Answer, Answers

LEMMA DescribesTyped ==
    ASSUME heap \in Heaps, NEW d \in Nat, NEW most \in Nat, NEW D, Describes(D, d, most)
    PROVE  \A call \in CallsTo(d) : D[call] \in Answers
<1>1. PICK Good : Good = CallsTo(d) \X Answers
  OBVIOUS
<1>2. ASSUME NEW call \in CallsTo(d),
             \A sub \in CallsTo(d) : sub.depth < call.depth => << sub, D[sub] >> \in Good
      PROVE  << call, Answer(D, call, most) >> \in Good
  <2>1. AnswersBelow(D, d, call)
    BY <1>1, <1>2 DEF AnswersBelow
  <2>2. Answer(D, call, most) \in Answers
    BY <2>1, AnswerTyped
  <2> QED
    BY <1>1, <2>2
<1>3. Rests(Good, D, d, most)
  BY <1>2, Zenon DEF Rests
<1>4. \A call \in CallsTo(d) : << call, D[call] >> \in Good
  BY <1>3, AnswersKeep
<1> QED
  BY <1>1, <1>4

-----------------------------------------------------------------------------
AlikeBelow(D, E, d, call) ==
    \A sub \in CallsTo(d) : sub.depth < call.depth => E[sub] = D[sub]

LEMMA KeyedAlike ==
    ASSUME heap \in Heaps, NEW d \in Nat, NEW most \in Nat, NEW call \in CallsTo(d), NEW D, NEW E,
           AnswersBelow(D, d, call), AlikeBelow(D, E, d, call), NEW A, Keyed(A, D, call, most)
    PROVE  Keyed(A, E, call, most)
<1>1. \A i \in 0..Len(KeyOrder) : A[i] \in Progress
  BY KeyedTyped
<1>2. Len(KeyOrder) \in Nat
  BY KeysAssumption
<1>3. ASSUME NEW i \in 0..Len(KeyOrder)
      PROVE  KeyStep(A, E, call, most, i) = KeyStep(A, D, call, most, i)
  <2>1. CASE i = 0
    BY <2>1 DEF KeyStep
  <2>2. CASE i # 0
    <3>1. i - 1 \in 0..Len(KeyOrder) /\ i \in 1..Len(KeyOrder)
      BY <1>2, <2>2
    <3>2. PICK b \in Progress : b = A[i - 1]
      BY <1>1, <3>1
    <3>3. PICK c \in Objects \cup {Absent} : c = ChildAt(call, i)
      BY <3>1, ChildTyped
    <3>5. PICK g : g = GapAt(call, i)
      OBVIOUS
    <3>4. KeyAdded(E, call, b, c, most, g) = KeyAdded(D, call, b, c, most, g)
      <4>1. CASE c = Absent \/ call.depth = 0
        BY <4>1 DEF KeyAdded
      <4>2. CASE ~(c = Absent \/ call.depth = 0)
        <5>1. E[ChildCall(call, b, c)] = D[ChildCall(call, b, c)]
          BY <4>2, ChildCallTyped, Zenon DEF AlikeBelow
        <5> QED
          BY <5>1 DEF KeyAdded
      <4> QED
        BY <4>1, <4>2
    <3> QED
      BY <2>2, <3>2, <3>3, <3>4, <3>5 DEF KeyStep
  <2> QED
    BY <2>1, <2>2
<1>4. A = [i \in 0..Len(KeyOrder) |-> KeyStep(A, D, call, most, i)]
  BY Zenon DEF Keyed
<1>5. A = [i \in 0..Len(KeyOrder) |-> KeyStep(A, E, call, most, i)]
  BY <1>3, <1>4
<1> QED
  BY <1>5, Zenon DEF Keyed

LEMMA KeyedOnce ==
    ASSUME NEW D, NEW call, NEW most, NEW A, Keyed(A, D, call, most), NEW B, Keyed(B, D, call, most)
    PROVE  A[Len(KeyOrder)] = B[Len(KeyOrder)]
<1>1. PICK Good : Good = {<< i, A[i] >> : i \in 0..Len(KeyOrder)}
  OBVIOUS
<1>2. Len(KeyOrder) \in Nat
  BY KeysAssumption
<1>3. \A i \in 0..Len(KeyOrder) : A[i] = KeyStep(A, D, call, most, i)
  BY DEF Keyed
<1>4. << 0, AtFirst(call) >> \in Good
  BY <1>1, <1>2, <1>3 DEF KeyStep
<1>5. ASSUME NEW i \in 0..Len(KeyOrder), NEW b, i < Len(KeyOrder), << i, b >> \in Good
      PROVE  << i + 1, KeyAdded(D, call, b, ChildAt(call, i + 1), most, GapAt(call, i + 1)) >> \in Good
  <2>1. b = A[i]
    BY <1>1, <1>5
  <2>2. PICK j \in 0..Len(KeyOrder) : j = i + 1 /\ j # 0 /\ j - 1 = i
    BY <1>2, <1>5
  <2>3. A[j] = KeyAdded(D, call, b, ChildAt(call, j), most, GapAt(call, j))
    BY <1>3, <2>1, <2>2 DEF KeyStep
  <2> QED
    BY <1>1, <2>2, <2>3
<1>6. Steps(Good, D, call, most)
  BY <1>5, Zenon DEF Steps
<1>7. \A i \in 0..Len(KeyOrder) : << i, B[i] >> \in Good
  BY <1>4, <1>6, KeysKeep
<1>8. Len(KeyOrder) \in 0..Len(KeyOrder)
  BY <1>2
<1>9. << Len(KeyOrder), B[Len(KeyOrder)] >> \in Good
  BY <1>7, <1>8
<1> QED
  BY <1>1, <1>9

LEMMA AnswerAlike ==
    ASSUME heap \in Heaps, NEW d \in Nat, NEW most \in Nat, NEW call \in CallsTo(d), NEW D, NEW E,
           AnswersBelow(D, d, call), AlikeBelow(D, E, d, call)
    PROVE  Answer(E, call, most) = Answer(D, call, most)
<1>1. Keyed(AllKeys(D, call, most), D, call, most)
  BY KeysExist
<1>2. Keyed(AllKeys(D, call, most), E, call, most)
  BY <1>1, KeyedAlike
<1>3. Keyed(AllKeys(E, call, most), E, call, most)
  BY KeysExist
<1>4. Done(E, call, most) = Done(D, call, most)
  BY <1>2, <1>3, KeyedOnce DEF Done
<1> QED
  BY <1>4, Zenon DEF Answer

LEMMA DescribesExists ==
    ASSUME heap \in Heaps, NEW d \in Nat, NEW most \in Nat
    PROVE  \E D : Describes(D, d, most)
<1>1. PICK S : S = {n \in Nat : \E D : Describes(D, n, most)}
  OBVIOUS
<1>2. ASSUME NEW n \in Nat, \A m \in Nat : m < n => m \in S PROVE n \in S
  <2>1. CASE n = 0
    <3>1. PICK D : D = [call \in CallsTo(0) |-> Answer(S, call, most)]
      OBVIOUS
    <3>2. ASSUME NEW call \in CallsTo(0) PROVE Answer(D, call, most) = Answer(S, call, most)
      <4>1. \A sub \in CallsTo(0) : ~(sub.depth < call.depth)
        BY DEF CallsTo
      <4>2. AnswersBelow(S, 0, call) /\ AlikeBelow(S, D, 0, call)
        BY <4>1 DEF AnswersBelow, AlikeBelow
      <4>3. 0 \in Nat
        OBVIOUS
      <4> QED
        BY <4>2, <4>3, AnswerAlike
    <3>3. Describes(D, 0, most)
      BY <3>1, <3>2 DEF Describes
    <3> QED
      BY <1>1, <2>1, <3>3
  <2>2. CASE n # 0
    <3>1. n - 1 \in Nat /\ n - 1 < n
      BY <2>2
    <3>2. PICK m \in Nat : m = n - 1 /\ m < n
      BY <3>1, Zenon
    <3>3. PICK C : Describes(C, m, most)
      BY <1>1, <1>2, <3>2
    <3>4. PICK D : D = [call \in CallsTo(n) |-> Answer(C, call, most)]
      OBVIOUS
    <3>5. \A call \in CallsTo(n) : call.depth < n => call \in CallsTo(m)
      BY <3>2 DEF CallsTo
    <3>6. \A call \in CallsTo(n) : \A sub \in CallsTo(n) : sub.depth < call.depth => sub.depth < n
      BY DEF CallsTo
    <3>7. \A call \in CallsTo(m) : C[call] \in Answers /\ C[call] = Answer(C, call, most)
      BY <3>3, DescribesTyped DEF Describes
    <3>8. ASSUME NEW call \in CallsTo(n) PROVE Answer(D, call, most) = Answer(C, call, most)
      <4>1. AnswersBelow(C, n, call)
        BY <3>5, <3>6, <3>7 DEF AnswersBelow
      <4>2. ASSUME NEW sub \in CallsTo(n), sub.depth < call.depth PROVE D[sub] = C[sub]
        BY <3>4, <3>5, <3>6, <3>7, <4>2
      <4>3. AlikeBelow(C, D, n, call)
        BY <4>2 DEF AlikeBelow
      <4> QED
        BY <4>1, <4>3, AnswerAlike
    <3>9. Describes(D, n, most)
      BY <3>4, <3>8 DEF Describes
    <3> QED
      BY <1>1, <3>9
  <2> QED
    BY <2>1, <2>2
<1>3. Nat \subseteq S
  BY <1>2, StrongInduction
<1> QED
  BY <1>1, <1>3

-----------------------------------------------------------------------------
(* What is visited                                                         *)

Fresh(m, n) == Bearing(n) \ Bearing(m)
Own(call) == IF call.depth > 0 /\ IsPlain(call.object) THEN {call.object} ELSE {}
VisitKept(root, call, m, b) ==
    /\ ListFrom(b.marks, root)
    /\ Bearing(m) \subseteq Bearing(b.marks)
    /\ IsInjective(b.expanded)
    /\ ToSet(b.expanded) \subseteq Own(call) \cup Fresh(m, b.marks)
    /\ \A o \in ToSet(b.expanded) :
           IsPlain(call.object) /\ (o = call.object \/ o \in Reachable(call.object))
Complete(call, m, b) ==
    /\ Own(call) \subseteq ToSet(b.expanded)
    /\ \A o \in Fresh(m, b.marks) : IsPlain(o) => o \in ToSet(b.expanded)
Onwards(b, S) == \A o \in S : \A c : LeadsTo(o, c) => c \in Bearing(b.marks)
Unvisited(m) == Cardinality(PlainObjects \ Bearing(m))

LEMMA SeqsJoined ==
    ASSUME NEW S, NEW s \in Seq(S), NEW t \in Seq(S)
    PROVE  /\ ToSet(s \o t) = ToSet(s) \cup ToSet(t)
           /\ (IsInjective(s) /\ IsInjective(t) /\ ToSet(s) \cap ToSet(t) = {})
                 => IsInjective(s \o t)
<1>1. PICK w : w = s \o t
  OBVIOUS
<1>2. /\ w \in Seq(S) /\ Len(w) = Len(s) + Len(t) /\ Len(s) \in Nat /\ Len(t) \in Nat
      /\ \A i \in 1..(Len(s) + Len(t)) : w[i] = IF i <= Len(s) THEN s[i] ELSE t[i - Len(s)]
  BY <1>1, ConcatProperties
<1>3. /\ ToSet(s) = {s[i] : i \in 1..Len(s)} /\ ToSet(t) = {t[i] : i \in 1..Len(t)}
      /\ ToSet(w) = {w[i] : i \in 1..Len(w)}
  BY <1>2 DEF ToSet
<1>4. ASSUME NEW i \in 1..Len(w)
      PROVE  \/ i \in 1..Len(s) /\ w[i] = s[i] /\ w[i] \in ToSet(s)
             \/ i - Len(s) \in 1..Len(t) /\ w[i] = t[i - Len(s)] /\ w[i] \in ToSet(t)
  BY <1>2, <1>3
<1>5. ToSet(w) \subseteq ToSet(s) \cup ToSet(t)
  BY <1>3, <1>4
<1>6. ASSUME NEW i \in 1..Len(s) PROVE s[i] \in ToSet(w)
  <2>1. i \in 1..Len(w) /\ w[i] = s[i]
    BY <1>2
  <2> QED
    BY <1>3, <2>1
<1>7. ASSUME NEW i \in 1..Len(t) PROVE t[i] \in ToSet(w)
  <2>1. i + Len(s) \in 1..Len(w) /\ ~(i + Len(s) <= Len(s)) /\ i + Len(s) - Len(s) = i
    BY <1>2
  <2>2. w[i + Len(s)] = t[i]
    BY <1>2, <2>1
  <2> QED
    BY <1>3, <2>1, <2>2
<1>8. ToSet(w) = ToSet(s) \cup ToSet(t)
  BY <1>3, <1>5, <1>6, <1>7
<1>9. ASSUME IsInjective(s), IsInjective(t), ToSet(s) \cap ToSet(t) = {},
             NEW i \in 1..Len(w), NEW j \in 1..Len(w), w[i] = w[j]
      PROVE  i = j
  <2>1. DOMAIN s = 1..Len(s) /\ DOMAIN t = 1..Len(t)
    BY <1>2
  <2>2. CASE i \in 1..Len(s) /\ w[i] = s[i] /\ w[i] \in ToSet(s)
    <3>1. w[j] \notin ToSet(t)
      BY <1>9, <2>2
    <3>2. j \in 1..Len(s) /\ w[j] = s[j]
      BY <1>4, <3>1
    <3> QED
      BY <1>9, <2>1, <2>2, <3>2 DEF IsInjective
  <2>3. CASE i - Len(s) \in 1..Len(t) /\ w[i] = t[i - Len(s)] /\ w[i] \in ToSet(t)
    <3>1. w[j] \notin ToSet(s)
      BY <1>9, <2>3
    <3>2. j - Len(s) \in 1..Len(t) /\ w[j] = t[j - Len(s)]
      BY <1>4, <3>1
    <3>3. i - Len(s) = j - Len(s)
      BY <1>9, <2>1, <2>3, <3>2 DEF IsInjective
    <3> QED
      BY <1>2, <3>3
  <2> QED
    BY <1>4, <2>2, <2>3
<1>10. DOMAIN w = 1..Len(w)
  BY <1>2
<1>11. (IsInjective(s) /\ IsInjective(t) /\ ToSet(s) \cap ToSet(t) = {}) => IsInjective(w)
  BY <1>9, <1>10 DEF IsInjective
<1> QED
  BY <1>1, <1>8, <1>11

Entered(root, call, m) ==
    ListFrom(m, root) /\ call.object \in Bearing(m) /\ IsPlain(call.object)

CalledWith(root, call, before, child, sub) ==
    /\ ListFrom(sub.marks, root) /\ sub.object = child /\ child \in Bearing(sub.marks)
    /\ Bearing(sub.marks) = Bearing(before.marks) \cup {child}
    /\ Own(sub) \subseteq {child} \ Bearing(before.marks)
    /\ child \in Bearing(before.marks) => sub.depth = 0
    /\ child \notin Bearing(before.marks) => sub.depth = call.depth - 1

(* The marks a child is called with, and what it may write itself. *)
LEMMA SubCall ==
    ASSUME NEW d \in Nat, NEW call \in CallsTo(d), NEW before \in Progress, NEW child \in Objects,
           call.depth # 0, NEW root, ListFrom(before.marks, root),
           call.object \in Bearing(before.marks),
           NEW sub, sub = ChildCall(call, before, child)
    PROVE  CalledWith(root, call, before, child, sub)
<1>1. Seen(before, child) <=> child \in Bearing(before.marks)
  BY DEF Seen, Bearing
<1>2. CASE Seen(before, child)
  <2>1. sub = [object |-> child, depth |-> 0, marks |-> before.marks]
    BY <1>2 DEF ChildCall
  <2>2. Own(sub) = {}
    BY <2>1 DEF Own
  <2> QED
    BY <1>1, <1>2, <2>1, <2>2 DEF CalledWith
<1>3. CASE ~Seen(before, child)
  <2>1. PICK n : n = Insert(before.marks, call.object, child)
    OBVIOUS
  <2>2. sub = [object |-> child, depth |-> call.depth - 1, marks |-> n]
    BY <1>3, <2>1 DEF ChildCall
  <2>3. PICK m : m = before.marks
    OBVIOUS
  <2>4. child \in Objects \ Bearing(m) /\ ListFrom(m, root) /\ call.object \in Bearing(m)
        /\ n = Insert(m, call.object, child)
    BY <1>1, <1>3, <2>1, <2>3
  <2>5. ListFrom(n, root) /\ Bearing(n) = Bearing(m) \cup {child}
    BY <2>4, ListGrows
  <2>6. Own(sub) \subseteq {child}
    BY <2>2 DEF Own
  <2> QED
    BY <2>2, <2>3, <2>4, <2>5, <2>6 DEF CalledWith
<1> QED
  BY <1>2, <1>3

LEMMA ChildKept ==
    ASSUME NEW d \in Nat, NEW call \in CallsTo(d), NEW before \in Progress, NEW child \in Objects,
           call.depth # 0, NEW root, NEW m, call.object \in Bearing(m), IsPlain(call.object),
           IsPlain(child) => LeadsTo(call.object, child),
           NEW sub, sub = ChildCall(call, before, child), NEW answer \in Answers,
           VisitKept(root, call, m, before), VisitKept(root, sub, sub.marks, answer)
    PROVE  VisitKept(root, call, m, WithChild(before, answer))
<1>1. PICK b : b = WithChild(before, answer)
  OBVIOUS
<1>2. PICK s \in Seq(Objects) : s = before.expanded
  BY DEF Progress
<1>3. PICK t \in Seq(Objects) : t = answer.expanded
  BY DEF Answers
<1>4. b.marks = answer.marks /\ b.expanded = s \o t
  BY <1>1, <1>2, <1>3 DEF WithChild
<1>5. /\ ListFrom(before.marks, root) /\ Bearing(m) \subseteq Bearing(before.marks)
      /\ IsInjective(s) /\ ToSet(s) \subseteq Own(call) \cup Fresh(m, before.marks)
      /\ \A o \in ToSet(s) : o = call.object \/ o \in Reachable(call.object)
  BY <1>2 DEF VisitKept
<1>6. /\ ListFrom(answer.marks, root) /\ Bearing(sub.marks) \subseteq Bearing(answer.marks)
      /\ IsInjective(t) /\ ToSet(t) \subseteq Own(sub) \cup Fresh(sub.marks, answer.marks)
      /\ \A o \in ToSet(t) : IsPlain(sub.object) /\ (o = sub.object \/ o \in Reachable(sub.object))
  BY <1>3 DEF VisitKept
<1>7. /\ sub.object = child /\ child \in Bearing(sub.marks)
      /\ Bearing(sub.marks) = Bearing(before.marks) \cup {child}
      /\ Own(sub) \subseteq {child} \ Bearing(before.marks)
  <2>1. ListFrom(before.marks, root) /\ call.object \in Bearing(before.marks)
    BY <1>5
  <2>2. CalledWith(root, call, before, child, sub)
    BY <2>1, SubCall, Zenon
  <2> QED
    BY <2>2, Zenon DEF CalledWith
<1>8. ToSet(t) \subseteq Bearing(answer.marks) \ Bearing(before.marks)
  BY <1>6, <1>7 DEF Fresh
<1>9. ToSet(s) \subseteq Bearing(before.marks)
  BY <1>5 DEF Fresh, Own
<1>10. ToSet(s \o t) = ToSet(s) \cup ToSet(t) /\ IsInjective(s \o t)
  <2>1. ToSet(s) \cap ToSet(t) = {}
    BY <1>8, <1>9
  <2> QED
    BY <1>5, <1>6, <2>1, SeqsJoined
<1>11. Bearing(m) \subseteq Bearing(b.marks)
  BY <1>4, <1>5, <1>6, <1>7
<1>12. ToSet(b.expanded) \subseteq Own(call) \cup Fresh(m, b.marks)
  BY <1>4, <1>5, <1>6, <1>7, <1>8, <1>10 DEF Fresh
<1>13. ASSUME NEW o \in ToSet(b.expanded) PROVE o = call.object \/ o \in Reachable(call.object)
  <2>1. CASE o \in ToSet(s)
    BY <1>5, <2>1
  <2>2. CASE o \in ToSet(t)
    <3>1. IsPlain(child) /\ (o = child \/ o \in Reachable(child))
      BY <1>6, <1>7, <2>2
    <3>2. child \in Reachable(call.object)
      BY <3>1, ReachClosed, Zenon
    <3>3. Reachable(child) \subseteq Reachable(call.object)
      BY <3>2, ReachOnwards
    <3> QED
      BY <3>1, <3>2, <3>3
  <2> QED
    BY <1>4, <1>10, <2>1, <2>2
<1>14. ListFrom(b.marks, root) /\ IsInjective(b.expanded)
  BY <1>4, <1>6, <1>10
<1> QED
  BY <1>1, <1>11, <1>12, <1>13, <1>14, Zenon DEF VisitKept

StillComplete(call, m, before, child, b) ==
    /\ Complete(call, m, b) /\ child \in Bearing(b.marks)
    /\ Onwards(b, ToSet(b.expanded) \ {call.object})
    /\ Bearing(before.marks) \subseteq Bearing(b.marks)

LEMMA ChildComplete ==
    ASSUME NEW d \in Nat, NEW call \in CallsTo(d), NEW before \in Progress, NEW child \in Objects,
           call.depth # 0, NEW root, NEW m, call.object \in Bearing(m),
           NEW sub, sub = ChildCall(call, before, child), NEW answer \in Answers,
           VisitKept(root, call, m, before), VisitKept(root, sub, sub.marks, answer),
           Complete(call, m, before), Complete(sub, sub.marks, answer),
           Onwards(before, ToSet(before.expanded) \ {call.object}),
           Onwards(answer, ToSet(answer.expanded)),
           (IsPlain(child) /\ child \notin Bearing(before.marks)) => sub.depth > 0,
           NEW b, b = WithChild(before, answer)
    PROVE  StillComplete(call, m, before, child, b)
<1>2. PICK s \in Seq(Objects) : s = before.expanded
  BY DEF Progress
<1>3. PICK t \in Seq(Objects) : t = answer.expanded
  BY DEF Answers
<1>4. b.marks = answer.marks /\ b.expanded = s \o t
  BY <1>2, <1>3 DEF WithChild
<1>5. ToSet(b.expanded) = ToSet(s) \cup ToSet(t)
  BY <1>4, SeqsJoined
<1>6. ListFrom(before.marks, root) /\ Bearing(m) \subseteq Bearing(before.marks)
      /\ Bearing(sub.marks) \subseteq Bearing(answer.marks)
  BY DEF VisitKept
<1>7. /\ sub.object = child /\ child \in Bearing(sub.marks)
      /\ Bearing(sub.marks) = Bearing(before.marks) \cup {child}
  <2>1. ListFrom(before.marks, root) /\ call.object \in Bearing(before.marks)
    BY <1>6
  <2>2. CalledWith(root, call, before, child, sub)
    BY <2>1, SubCall, Zenon
  <2> QED
    BY <2>2, Zenon DEF CalledWith
<1>8. Bearing(before.marks) \subseteq Bearing(b.marks) /\ child \in Bearing(b.marks)
  BY <1>4, <1>6, <1>7
<1>9. Own(call) \subseteq ToSet(b.expanded)
  BY <1>2, <1>5 DEF Complete
<1>10. ASSUME NEW o \in Fresh(m, b.marks), IsPlain(o) PROVE o \in ToSet(b.expanded)
  <2>1. o \in Bearing(answer.marks) /\ o \notin Bearing(m)
    BY <1>4, <1>10 DEF Fresh
  <2>2. CASE o \in Bearing(before.marks)
    <3>1. o \in Fresh(m, before.marks)
      BY <2>1, <2>2 DEF Fresh
    <3> QED
      BY <1>2, <1>5, <1>10, <3>1 DEF Complete
  <2>3. CASE o = child /\ child \notin Bearing(before.marks)
    <3>1. o \in Own(sub)
      BY <1>7, <1>10, <2>3 DEF Own
    <3> QED
      BY <1>3, <1>5, <3>1 DEF Complete
  <2>4. CASE o \notin Bearing(sub.marks)
    <3>1. o \in Fresh(sub.marks, answer.marks)
      BY <2>1, <2>4 DEF Fresh
    <3> QED
      BY <1>3, <1>5, <1>10, <3>1 DEF Complete
  <2> QED
    BY <1>7, <2>2, <2>3, <2>4
<1>11. ASSUME NEW o \in ToSet(b.expanded) \ {call.object}, NEW c, LeadsTo(o, c)
       PROVE  c \in Bearing(b.marks)
  <2>1. CASE o \in ToSet(s)
    <3>1. c \in Bearing(before.marks)
      BY <1>2, <1>11, <2>1, Zenon DEF Onwards
    <3> QED
      BY <1>8, <3>1
  <2>2. CASE o \in ToSet(t)
    <3>1. c \in Bearing(answer.marks)
      BY <1>3, <1>11, <2>2, Zenon DEF Onwards
    <3> QED
      BY <1>4, <3>1
  <2> QED
    BY <1>5, <1>11, <2>1, <2>2
<1>12. Complete(call, m, b)
  BY <1>9, <1>10, Zenon DEF Complete
<1>13. Onwards(b, ToSet(b.expanded) \ {call.object})
  BY <1>11, Zenon DEF Onwards
<1> QED
  BY <1>8, <1>12, <1>13, Zenon DEF StillComplete

LEMMA DeepStill ==
    ASSUME IsFiniteSet(Objects), NEW m, NEW n, NEW child \in Objects, IsPlain(child),
           child \notin Bearing(m), child \in Bearing(n), Bearing(m) \subseteq Bearing(n)
    PROVE  Unvisited(m) \in Nat /\ Unvisited(n) \in Nat /\ Unvisited(n) < Unvisited(m)
<1>1. PICK A : A = PlainObjects \ Bearing(m)
  OBVIOUS
<1>2. PICK B : B = PlainObjects \ Bearing(n)
  OBVIOUS
<1>3. B \subseteq A \ {child} /\ child \in A /\ A \subseteq Objects
  BY <1>1, <1>2 DEF PlainObjects
<1>4. IsFiniteSet(A)
  BY <1>3, FS_Subset
<1>5. IsFiniteSet(A \ {child}) /\ Cardinality(A \ {child}) = Cardinality(A) - 1
  BY <1>3, <1>4, FS_RemoveElement
<1>6. IsFiniteSet(B) /\ Cardinality(B) <= Cardinality(A \ {child})
  BY <1>3, <1>5, FS_Subset
<1>7. Cardinality(A) \in Nat /\ Cardinality(B) \in Nat
  BY <1>4, <1>6, FS_CardinalityType
<1> QED
  BY <1>1, <1>2, <1>5, <1>6, <1>7 DEF Unvisited

-----------------------------------------------------------------------------
(* Each call visits what is left                                           *)

DeepFor(call, m, most) ==
    most >= Len(KeyOrder) /\ (call.depth = 0 \/ call.depth > Unvisited(m))
DeepEnough(call, most) ==
    most >= Len(KeyOrder) /\ (IsPlain(call.object) => DeepFor(call, call.marks, most))
Visited(root, call, most, answer) ==
    ListFrom(call.marks, root) /\ call.object \in Bearing(call.marks) =>
        /\ VisitKept(root, call, call.marks, answer)
        /\ DeepEnough(call, most) =>
               Complete(call, call.marks, answer) /\ Onwards(answer, ToSet(answer.expanded))
VisitedBelow(root, D, d, call, most) ==
    \A sub \in CallsTo(d) : sub.depth < call.depth => Visited(root, sub, most, D[sub])
FirstOnes(call, i, b) ==
    \A j \in 1..i : IsPlain(ChildAt(call, j)) => ChildAt(call, j) \in Bearing(b.marks)
SoFar(call, m, i, b) ==
    /\ Complete(call, m, b) /\ b.parts <= i
    /\ Onwards(b, ToSet(b.expanded) \ {call.object})
    /\ call.depth # 0 => FirstOnes(call, i, b)
InProgress(root, call, m, most, i, b) ==
    VisitKept(root, call, m, b) /\ (DeepFor(call, m, most) => SoFar(call, m, i, b))

LEMMA FirstInProgress ==
    ASSUME NEW d \in Nat, NEW call \in CallsTo(d), NEW most, NEW root,
           NEW m, m = AtFirst(call).marks, Entered(root, call, m)
    PROVE  InProgress(root, call, m, most, 0, AtFirst(call))
<1>1. PICK b : b = AtFirst(call)
  OBVIOUS
<1>2. PICK o : o = call.object
  OBVIOUS
<1>3. /\ b.marks = m /\ b.parts = 0
      /\ b.expanded = IF call.depth > 0 THEN << o >> ELSE << >>
  BY <1>1, <1>2 DEF AtFirst
<1>4. IsPlain(o) /\ ListFrom(m, root) /\ o \in Objects
  BY <1>2 DEF Entered, CallsTo
<1>5. ToSet(b.expanded) = Own(call) /\ IsInjective(b.expanded)
  <2>1. CASE call.depth > 0
    <3>1. b.expanded = << o >> /\ Own(call) = {o}
      BY <1>2, <1>3, <1>4, <2>1 DEF Own
    <3> QED
      BY <3>1 DEF ToSet, IsInjective
  <2>2. CASE ~(call.depth > 0)
    <3>1. b.expanded = << >> /\ Own(call) = {}
      BY <1>3, <2>2 DEF Own
    <3> QED
      BY <3>1 DEF ToSet, IsInjective
  <2> QED
    BY <2>1, <2>2
<1>6. Own(call) \subseteq {o} /\ Fresh(m, b.marks) = {}
  BY <1>2, <1>3 DEF Own, Fresh
<1>7. VisitKept(root, call, m, b)
  BY <1>2, <1>3, <1>4, <1>5, <1>6 DEF VisitKept
<1>8. Complete(call, m, b)
  BY <1>5, <1>6 DEF Complete
<1>9. Onwards(b, ToSet(b.expanded) \ {call.object})
  BY <1>2, <1>5, <1>6 DEF Onwards
<1>10. b.parts <= 0 /\ FirstOnes(call, 0, b)
  BY <1>3 DEF FirstOnes
<1> QED
  BY <1>1, <1>7, <1>8, <1>9, <1>10 DEF InProgress, SoFar

LEMMA ChildInProgress ==
    ASSUME heap \in Heaps, IsFiniteSet(Objects), NEW d \in Nat, NEW most \in Nat,
           NEW call \in CallsTo(d), NEW root, NEW D, AnswersBelow(D, d, call),
           VisitedBelow(root, D, d, call, most), NEW m, Entered(root, call, m),
           NEW i \in 0..Len(KeyOrder), i < Len(KeyOrder), NEW before \in Progress,
           InProgress(root, call, m, most, i, before),
           NEW child \in Objects, child = ChildAt(call, i + 1), call.depth # 0,
           ~(before.parts >= most), NEW gap
    PROVE  InProgress(root, call, m, most, i + 1, KeyAdded(D, call, before, child, most, gap))
<1>0. Len(KeyOrder) \in Nat /\ i + 1 \in 1..Len(KeyOrder) /\ call.depth \in Nat
  BY KeysAssumption DEF CallsTo
<1>1. PICK sub \in CallsTo(d) : sub = ChildCall(call, before, child) /\ sub.depth < call.depth
  BY ChildCallTyped
<1>2. PICK answer \in Answers : answer = D[sub] /\ Visited(root, sub, most, answer)
  BY <1>1 DEF AnswersBelow, VisitedBelow
<1>3. PICK b : b = WithChild(before, answer)
  OBVIOUS
<1>4. b = KeyAdded(D, call, before, child, most, gap)
  <2>1. child # Absent
    BY AbsentAssumption
  <2> QED
    BY <1>1, <1>2, <1>3, <2>1 DEF KeyAdded
<1>5. VisitKept(root, call, m, before)
  BY Zenon DEF InProgress
<1>6. ListFrom(before.marks, root) /\ Bearing(m) \subseteq Bearing(before.marks)
  BY <1>5, Zenon DEF VisitKept
<1>7. call.object \in Bearing(m) /\ IsPlain(call.object) /\ call.object \in Bearing(before.marks)
  BY <1>6 DEF Entered
<1>8. CalledWith(root, call, before, child, sub)
  BY <1>1, <1>6, <1>7, SubCall
<1>9. /\ ListFrom(sub.marks, root) /\ sub.object = child /\ child \in Bearing(sub.marks)
      /\ Bearing(sub.marks) = Bearing(before.marks) \cup {child}
      /\ child \in Bearing(before.marks) => sub.depth = 0
      /\ child \notin Bearing(before.marks) => sub.depth = call.depth - 1
  BY <1>8, Zenon DEF CalledWith
<1>10. /\ VisitKept(root, sub, sub.marks, answer)
       /\ DeepEnough(sub, most) =>
              Complete(sub, sub.marks, answer) /\ Onwards(answer, ToSet(answer.expanded))
  BY <1>2, <1>9, Zenon DEF Visited
<1>11. IsPlain(child) => LeadsTo(call.object, child)
  <2>1. KeyOrder[i + 1] \in Keys
    BY <1>0, KeysAssumption
  <2>2. child = heap[call.object][KeyOrder[i + 1]]
    BY DEF ChildAt
  <2> QED
    BY <2>1, <2>2, Zenon DEF LeadsTo
<1>12. VisitKept(root, call, m, b)
  BY <1>1, <1>3, <1>5, <1>7, <1>10, <1>11, ChildKept
<1>13. ASSUME DeepFor(call, m, most) PROVE SoFar(call, m, i + 1, b)
  <2>1. SoFar(call, m, i, before)
    BY <1>13, Zenon DEF InProgress
  <2>2. Complete(call, m, before) /\ Onwards(before, ToSet(before.expanded) \ {call.object})
        /\ FirstOnes(call, i, before) /\ before.parts <= i
    BY <2>1 DEF SoFar
  <2>3. ASSUME IsPlain(child), child \notin Bearing(before.marks)
        PROVE  sub.depth > 0 /\ sub.depth > Unvisited(sub.marks)
    <3>1. /\ Unvisited(m) \in Nat /\ Unvisited(sub.marks) \in Nat
          /\ Unvisited(sub.marks) < Unvisited(m)
      <4>1. child \notin Bearing(m) /\ child \in Bearing(sub.marks)
            /\ Bearing(m) \subseteq Bearing(sub.marks)
        BY <1>6, <1>9, <2>3
      <4> QED
        BY <2>3, <4>1, DeepStill
    <3>2. call.depth > Unvisited(m)
      BY <1>13 DEF DeepFor
    <3>3. sub.depth = call.depth - 1
      BY <1>9, <2>3, Zenon
    <3>4. PICK u \in Nat : u = Unvisited(sub.marks)
      BY <3>1
    <3>5. PICK v \in Nat : v = Unvisited(m)
      BY <3>1
    <3>6. u < v /\ call.depth > v
      BY <3>1, <3>2, <3>4, <3>5
    <3>7. PICK e \in Nat : e = call.depth
      BY <1>0
    <3>8. PICK s \in Int : s = sub.depth /\ s = e - 1
      BY <3>3, <3>7
    <3>10. e > v
      BY <3>2, <3>5, <3>7, Zenon
    <3>11. s = e - 1
      BY <3>8, Zenon
    <3>12. u < v
      BY <3>6, Zenon
    <3>9. s > 0 /\ s > u
      BY <3>10, <3>11, <3>12
    <3> QED
      BY <3>4, <3>8, <3>9
  <2>4. DeepEnough(sub, most)
    <3>1. most >= Len(KeyOrder)
      BY <1>13 DEF DeepFor
    <3>2. IsPlain(child) => sub.depth = 0 \/ sub.depth > Unvisited(sub.marks)
      BY <1>9, <2>3
    <3> QED
      BY <1>9, <3>1, <3>2 DEF DeepEnough, DeepFor
  <2>5. /\ Complete(call, m, b) /\ child \in Bearing(b.marks)
        /\ Onwards(b, ToSet(b.expanded) \ {call.object})
        /\ Bearing(before.marks) \subseteq Bearing(b.marks)
    <3>1. /\ Complete(sub, sub.marks, answer) /\ Onwards(answer, ToSet(answer.expanded))
          /\ (IsPlain(child) /\ child \notin Bearing(before.marks)) => sub.depth > 0
      BY <1>10, <2>3, <2>4, Zenon
    <3>2. StillComplete(call, m, before, child, b)
      BY <1>1, <1>3, <1>5, <1>7, <1>10, <2>2, <3>1, ChildComplete, Zenon
    <3> QED
      BY <3>2, Zenon DEF StillComplete
  <2>6. b.parts <= i + 1
    <3>1. b.parts = before.parts + 1 /\ before.parts \in Nat
      BY <1>3 DEF WithChild, Progress
    <3> QED
      BY <1>0, <2>2, <3>1
  <2>7. FirstOnes(call, i + 1, b)
    <3>1. ASSUME NEW j \in 1..(i + 1), IsPlain(ChildAt(call, j))
          PROVE  ChildAt(call, j) \in Bearing(b.marks)
      <4>1. CASE j \in 1..i
        BY <2>2, <2>5, <3>1, <4>1 DEF FirstOnes
      <4>2. CASE j = i + 1
        BY <2>5, <4>2
      <4> QED
        BY <4>1, <4>2
    <3> QED
      BY <3>1, Zenon DEF FirstOnes
  <2> QED
    BY <2>5, <2>6, <2>7, Zenon DEF SoFar
<1> QED
  BY <1>4, <1>12, <1>13, Zenon DEF InProgress

LEMMA NextInProgress ==
    ASSUME heap \in Heaps, IsFiniteSet(Objects), NEW d \in Nat, NEW most \in Nat,
           NEW call \in CallsTo(d), NEW root, NEW D, AnswersBelow(D, d, call),
           VisitedBelow(root, D, d, call, most), NEW m, Entered(root, call, m),
           NEW i \in 0..Len(KeyOrder), i < Len(KeyOrder), NEW before \in Progress,
           InProgress(root, call, m, most, i, before)
    PROVE  InProgress(root, call, m, most, i + 1,
                      KeyAdded(D, call, before, ChildAt(call, i + 1), most, GapAt(call, i + 1)))
<1>0. Len(KeyOrder) \in Nat /\ i + 1 \in 1..Len(KeyOrder) /\ before.parts \in Nat
  BY KeysAssumption DEF Progress
<1>1. PICK child \in Objects \cup {Absent} : child = ChildAt(call, i + 1)
  BY <1>0, ChildTyped
<1>7. PICK gap \in {0, 1} : gap = GapAt(call, i + 1)
  BY GapTyped
<1>2. PICK b : b = KeyAdded(D, call, before, child, most, gap)
  OBVIOUS
<1>3. CASE child \in Objects /\ call.depth # 0 /\ ~(before.parts >= most)
  BY <1>1, <1>3, <1>7, ChildInProgress
<1>4. CASE child = Absent \/ call.depth = 0
  <2>1. b.marks = before.marks /\ b.expanded = before.expanded /\ b.parts = before.parts + gap
    BY <1>2, <1>4 DEF KeyAdded, Progress
  <2>2. ASSUME SoFar(call, m, i, before) PROVE SoFar(call, m, i + 1, b)
    <3>1. ASSUME call.depth # 0 PROVE FirstOnes(call, i + 1, b)
      <4>1. ~IsPlain(ChildAt(call, i + 1))
        BY <1>1, <1>4, <3>1, AbsentAssumption DEF IsPlain
      <4>2. FirstOnes(call, i, before)
        BY <2>2, <3>1, Zenon DEF SoFar
      <4>3. \A j \in 1..(i + 1) : j \in 1..i \/ j = i + 1
        OBVIOUS
      <4> QED
        BY <2>1, <4>1, <4>2, <4>3, Zenon DEF FirstOnes
    <3>2. b.parts <= i + 1
      BY <1>0, <2>1, <2>2 DEF SoFar
    <3>3. Complete(call, m, b) /\ Onwards(b, ToSet(b.expanded) \ {call.object})
      BY <2>1, <2>2, Zenon DEF SoFar, Complete, Onwards
    <3> QED
      BY <3>1, <3>2, <3>3, Zenon DEF SoFar
  <2>3. VisitKept(root, call, m, b)
    BY <2>1, Zenon DEF InProgress, VisitKept
  <2> QED
    BY <1>1, <1>2, <1>7, <2>2, <2>3, Zenon DEF InProgress
<1>5. CASE ~(child = Absent \/ call.depth = 0) /\ before.parts >= most
  <2>1. b = before
    BY <1>2, <1>5 DEF KeyAdded
  <2>2. ~DeepFor(call, m, most)
    <3> SUFFICES ASSUME DeepFor(call, m, most) PROVE FALSE
      OBVIOUS
    <3>1. before.parts <= i
      BY DEF InProgress, SoFar
    <3>2. most >= Len(KeyOrder)
      BY DEF DeepFor
    <3> QED
      BY <1>0, <1>5, <3>1, <3>2
  <2> QED
    BY <1>1, <1>2, <1>7, <2>1, <2>2, Zenon DEF InProgress
<1> QED
  BY <1>1, <1>3, <1>4, <1>5

LEMMA DoneInProgress ==
    ASSUME heap \in Heaps, IsFiniteSet(Objects), NEW d \in Nat, NEW most \in Nat,
           NEW call \in CallsTo(d), NEW root, NEW D, AnswersBelow(D, d, call),
           VisitedBelow(root, D, d, call, most),
           NEW m, m = AtFirst(call).marks, Entered(root, call, m)
    PROVE  InProgress(root, call, m, most, Len(KeyOrder), Done(D, call, most))
<1>1. Len(KeyOrder) \in Nat
  BY KeysAssumption
<1>2. PICK Good : Good = {x \in (0..Len(KeyOrder)) \X Progress :
                              InProgress(root, call, m, most, x[1], x[2])}
  OBVIOUS
<1>3. << 0, AtFirst(call) >> \in Good
  BY <1>1, <1>2, FirstTyped, FirstInProgress
<1>4. ASSUME NEW i \in 0..Len(KeyOrder), NEW b, i < Len(KeyOrder), << i, b >> \in Good
      PROVE  << i + 1, KeyAdded(D, call, b, ChildAt(call, i + 1), most, GapAt(call, i + 1)) >> \in Good
  <2>1. b \in Progress /\ InProgress(root, call, m, most, i, b)
    BY <1>2, <1>4
  <2>2. PICK c : c = KeyAdded(D, call, b, ChildAt(call, i + 1), most, GapAt(call, i + 1))
    OBVIOUS
  <2>3. c \in Progress
    <3>1. i + 1 \in 1..Len(KeyOrder)
      BY <1>1, <1>4
    <3>2. ChildAt(call, i + 1) \in Objects \cup {Absent}
      BY <3>1, ChildTyped
    <3> QED
      BY <2>1, <2>2, <3>2, GapTyped, KeyAddedTyped
  <2>4. InProgress(root, call, m, most, i + 1, c)
    BY <1>4, <2>1, <2>2, NextInProgress
  <2>5. i + 1 \in 0..Len(KeyOrder)
    BY <1>1, <1>4
  <2> QED
    BY <1>2, <2>2, <2>3, <2>4, <2>5
<1>5. Steps(Good, D, call, most)
  BY <1>4, Zenon DEF Steps
<1>6. PICK A : A = AllKeys(D, call, most)
  OBVIOUS
<1>7. Keyed(A, D, call, most)
  BY <1>6, KeysExist
<1>8. \A i \in 0..Len(KeyOrder) : << i, A[i] >> \in Good
  BY <1>3, <1>5, <1>7, KeysKeep
<1>9. << Len(KeyOrder), A[Len(KeyOrder)] >> \in Good
  BY <1>1, <1>8
<1> QED
  BY <1>2, <1>6, <1>9 DEF Done

LEMMA DoneVisited ==
    ASSUME NEW d \in Nat, NEW call \in CallsTo(d), NEW root, NEW m, Entered(root, call, m),
           NEW b, VisitKept(root, call, m, b), SoFar(call, m, Len(KeyOrder), b)
    PROVE  Onwards(b, ToSet(b.expanded))
<1>1. Onwards(b, ToSet(b.expanded) \ {call.object})
  BY Zenon DEF SoFar
<1>2. ASSUME call.object \in ToSet(b.expanded), NEW c, LeadsTo(call.object, c)
      PROVE  c \in Bearing(b.marks)
  <2>1. call.depth # 0
    <3>1. call.object \notin Fresh(m, b.marks)
      BY DEF Fresh, Entered
    <3>2. call.object \in Own(call)
      BY <1>2, <3>1 DEF VisitKept
    <3> QED
      BY <3>2 DEF Own
  <2>2. PICK k \in Keys : heap[call.object][k] = c /\ IsPlain(c)
    BY <1>2, Zenon DEF LeadsTo
  <2>3. PICK j \in 1..Len(KeyOrder) : KeyOrder[j] = k
    BY KeysAssumption DEF Keys, ToSet
  <2>4. c = ChildAt(call, j)
    BY <2>2, <2>3, Zenon DEF ChildAt
  <2>5. FirstOnes(call, Len(KeyOrder), b)
    BY <2>1, Zenon DEF SoFar
  <2> QED
    BY <2>2, <2>4, <2>5, Zenon DEF FirstOnes
<1> QED
  BY <1>1, <1>2, Zenon DEF Onwards

LEMMA AnswerVisited ==
    ASSUME heap \in Heaps, IsFiniteSet(Objects), NEW d \in Nat, NEW most \in Nat,
           NEW call \in CallsTo(d), NEW root, NEW D, AnswersBelow(D, d, call),
           VisitedBelow(root, D, d, call, most)
    PROVE  Visited(root, call, most, Answer(D, call, most))
<1> SUFFICES ASSUME ListFrom(call.marks, root), call.object \in Bearing(call.marks)
             PROVE  /\ VisitKept(root, call, call.marks, Answer(D, call, most))
                    /\ DeepEnough(call, most) =>
                           /\ Complete(call, call.marks, Answer(D, call, most))
                           /\ Onwards(Answer(D, call, most), ToSet(Answer(D, call, most).expanded))
  BY Zenon DEF Visited
<1>1. PICK m : m = call.marks
  OBVIOUS
<1>2. PICK a : a = Answer(D, call, most)
  OBVIOUS
<1>3. CASE ~IsPlain(call.object)
  <2>1. a.marks = m /\ a.expanded = << >>
    BY <1>1, <1>2, <1>3 DEF Answer
  <2>2. ToSet(a.expanded) = {} /\ IsInjective(a.expanded) /\ Own(call) = {} /\ Fresh(m, a.marks) = {}
    BY <1>3, <2>1 DEF ToSet, IsInjective, Own, Fresh
  <2>3. VisitKept(root, call, m, a)
    BY <1>1, <2>1, <2>2 DEF VisitKept
  <2>4. Complete(call, m, a) /\ Onwards(a, ToSet(a.expanded))
    BY <2>2 DEF Complete, Onwards
  <2> QED
    BY <1>1, <1>2, <2>3, <2>4
<1>4. CASE IsPlain(call.object)
  <2>1. AtFirst(call).marks = m /\ m[call.object] # Unmarked
    BY <1>1 DEF AtFirst, Bearing
  <2>2. Entered(root, call, m)
    BY <1>1, <1>4 DEF Entered
  <2>3. PICK b : b = Done(D, call, most)
    OBVIOUS
  <2>4. a.marks = b.marks /\ a.expanded = b.expanded
    BY <1>1, <1>2, <1>4, <2>1, <2>3 DEF Answer
  <2>5. InProgress(root, call, m, most, Len(KeyOrder), b)
    BY <2>1, <2>2, <2>3, DoneInProgress
  <2>6. VisitKept(root, call, m, b)
    BY <2>5, Zenon DEF InProgress
  <2>7. VisitKept(root, call, m, a)
    BY <2>4, <2>6, Zenon DEF VisitKept
  <2>8. ASSUME DeepEnough(call, most) PROVE Complete(call, m, a) /\ Onwards(a, ToSet(a.expanded))
    <3>1. DeepFor(call, m, most)
      BY <1>1, <1>4, <2>8, Zenon DEF DeepEnough
    <3>2. SoFar(call, m, Len(KeyOrder), b)
      BY <2>5, <3>1, Zenon DEF InProgress
    <3>3. Onwards(b, ToSet(b.expanded))
      BY <2>2, <2>6, <3>2, DoneVisited
    <3>4. Complete(call, m, b)
      BY <3>2, Zenon DEF SoFar
    <3> QED
      BY <2>4, <3>3, <3>4, Zenon DEF Complete, Onwards
  <2> QED
    BY <1>1, <1>2, <2>7, <2>8
<1> QED
  BY <1>3, <1>4

-----------------------------------------------------------------------------
(* The whole description                                                   *)

LEMMA WrittenOnce ==
    ASSUME heap \in Heaps, NEW most \in Nat, NEW got, got = StringifyToDepth(heap, Root, 5, most)
    PROVE  /\ \A o \in Objects : got.marks[o] = Unmarked
           /\ IsInjective(got.expanded)
           /\ (most >= Len(KeyOrder) /\ Cardinality(PlainObjects) <= 5) =>
                  ToSet(got.expanded) = {Root} \cup Reachable(Root)
<1>0. IsFiniteSet(Objects) /\ IsPlain(Root) /\ Root \in Objects
  BY ObjectsAssumption DEF IsPlain
<1>1. PICK d \in Nat : d = 5
  OBVIOUS
<1>2. PICK none : none = [o \in Objects |-> Unmarked]
  OBVIOUS
<1>3. none \in Marks /\ Bearing(none) = {} /\ none[Root] = Unmarked
  BY <1>0, <1>2 DEF Marks, Bearing
<1>4. PICK call : call = RootCall(Root, d)
  OBVIOUS
<1>5. call = [object |-> Root, depth |-> d, marks |-> none]
  BY <1>2, <1>4 DEF RootCall
<1>6. call \in CallsTo(d)
  BY <1>0, <1>1, <1>3, <1>5 DEF CallsTo
<1>7. PICK D : D = CHOOSE E : Describes(E, d, most)
  OBVIOUS
<1>8. Describes(D, d, most)
  BY <1>7, DescribesExists, Zenon
<1>9. got = D[call]
  BY <1>1, <1>4, <1>7, StringifyIs
<1>10. got = Answer(D, call, most)
  BY <1>6, <1>8, <1>9 DEF Describes
<1>11. \A sub \in CallsTo(d) : D[sub] \in Answers
  BY <1>8, DescribesTyped
<1>12. AnswersBelow(D, d, call)
  BY <1>11 DEF AnswersBelow
<1>13. VisitedBelow(Root, D, d, call, most)
  <2>1. PICK Good : Good = {x \in CallsTo(d) \X Answers : Visited(Root, x[1], most, x[2])}
    OBVIOUS
  <2>2. ASSUME NEW sup \in CallsTo(d),
               \A sub \in CallsTo(d) : sub.depth < sup.depth => << sub, D[sub] >> \in Good
        PROVE  << sup, Answer(D, sup, most) >> \in Good
    <3>1. AnswersBelow(D, d, sup)
      BY <1>11 DEF AnswersBelow
    <3>2. VisitedBelow(Root, D, d, sup, most)
      BY <2>1, <2>2 DEF VisitedBelow
    <3>3. PICK a : a = Answer(D, sup, most)
      OBVIOUS
    <3>4. Visited(Root, sup, most, a)
      BY <1>0, <3>1, <3>2, <3>3, AnswerVisited
    <3>5. a \in Answers
      BY <3>1, <3>3, AnswerTyped
    <3> QED
      BY <2>1, <3>3, <3>4, <3>5
  <2>3. Rests(Good, D, d, most)
    BY <2>2, Zenon DEF Rests
  <2>4. \A sub \in CallsTo(d) : << sub, D[sub] >> \in Good
    BY <1>8, <2>3, AnswersKeep
  <2> QED
    BY <2>1, <2>4 DEF VisitedBelow
<1>14. PICK m : m = AtFirst(call).marks
  OBVIOUS
<1>15. m = [none EXCEPT ![Root] = EndOfList]
  BY <1>3, <1>5, <1>14 DEF AtFirst
<1>16. ListFrom(m, Root) /\ Bearing(m) = {Root}
  BY <1>0, <1>3, <1>15, ListStarts
<1>17. Entered(Root, call, m)
  BY <1>0, <1>5, <1>16 DEF Entered
<1>18. PICK b \in Progress : b = Done(D, call, most)
  BY <1>6, <1>12, DoneTyped
<1>19. InProgress(Root, call, m, most, Len(KeyOrder), b)
  BY <1>0, <1>6, <1>12, <1>13, <1>14, <1>17, <1>18, DoneInProgress
<1>20. VisitKept(Root, call, m, b)
  BY <1>19, Zenon DEF InProgress
<1>21. got.marks = Finish(b.marks, Root) /\ got.expanded = b.expanded
  BY <1>0, <1>3, <1>5, <1>10, <1>18 DEF Answer
<1>22. \A o \in Objects : got.marks[o] = Unmarked
  <2>1. b.marks \in Marks /\ ListFrom(b.marks, Root)
    BY <1>20 DEF VisitKept, Progress
  <2>2. \A o \in Objects : Finish(b.marks, Root)[o] = Unmarked
    BY <2>1, FinishIs
  <2> QED
    BY <1>21, <2>2
<1>23. ASSUME most >= Len(KeyOrder), Cardinality(PlainObjects) <= 5
       PROVE  ToSet(b.expanded) = {Root} \cup Reachable(Root)
  <2>1. DeepFor(call, m, most)
    <3>1. PlainObjects \subseteq Objects /\ Root \in PlainObjects
      BY <1>0 DEF PlainObjects
    <3>2. IsFiniteSet(PlainObjects)
      BY <1>0, <3>1, FS_Subset
    <3>3. IsFiniteSet(PlainObjects \ {Root})
          /\ Cardinality(PlainObjects \ {Root}) = Cardinality(PlainObjects) - 1
      BY <3>1, <3>2, FS_RemoveElement
    <3>4. Cardinality(PlainObjects) \in Nat
      BY <3>2, FS_CardinalityType
    <3>5. Unvisited(m) = Cardinality(PlainObjects) - 1
      BY <1>16, <3>3 DEF Unvisited
    <3>6. 5 > Unvisited(m)
      BY <1>23, <3>4, <3>5
    <3>7. call.depth = 5
      BY <1>1, <1>5
    <3> QED
      BY <1>23, <3>6, <3>7 DEF DeepFor
  <2>2. SoFar(call, m, Len(KeyOrder), b)
    BY <1>19, <2>1, Zenon DEF InProgress
  <2>3. Onwards(b, ToSet(b.expanded))
    BY <1>6, <1>17, <1>20, <2>2, DoneVisited
  <2>4. Complete(call, m, b)
    BY <2>2, Zenon DEF SoFar
  <2>5. call.object = Root /\ call.depth > 0
    BY <1>1, <1>5
  <2>6. Root \in ToSet(b.expanded)
    BY <1>0, <2>4, <2>5 DEF Complete, Own
  <2>7. ToSet(b.expanded) \subseteq {Root} \cup Reachable(Root)
    BY <1>20, <2>5 DEF VisitKept
  <2>8. PICK S \in SUBSET Objects : S = ToSet(b.expanded)
    <3>1. PICK s \in Seq(Objects) : s = b.expanded
      BY DEF Progress
    <3>2. ToSet(s) \in SUBSET Objects
      BY DEF ToSet
    <3> QED
      BY <3>1, <3>2
  <2>9. ASSUME NEW p, NEW c, p = Root \/ p \in S, LeadsTo(p, c) PROVE c \in S
    <3>1. c \in Bearing(b.marks)
      BY <2>3, <2>6, <2>8, <2>9, Zenon DEF Onwards
    <3>2. CASE c = Root
      BY <2>6, <2>8, <3>2
    <3>3. CASE c # Root
      <4>1. c \in Fresh(m, b.marks)
        BY <1>16, <3>1, <3>3 DEF Fresh
      <4>2. IsPlain(c)
        BY <2>9, Zenon DEF LeadsTo
      <4> QED
        BY <2>4, <2>8, <4>1, <4>2, Zenon DEF Complete
    <3> QED
      BY <3>2, <3>3
  <2>10. Reachable(Root) \subseteq S
    BY <2>9, ReachLeast
  <2> QED
    BY <2>6, <2>7, <2>8, <2>10
<1>24. IsInjective(b.expanded)
  BY <1>20, Zenon DEF VisitKept
<1> QED
  BY <1>21, <1>22, <1>23, <1>24

(* stringify, whatever the objects refer to: the list of the marks can be  *)
(* followed from the root by every object that bears one, so that finish   *)
(* takes them all away; an object is written when it gets its mark, and    *)
(* with depth left for all that have none, so are those it refers to.      *)
THEOREM EachObjectOnceCorrect == Spec => []EachObjectOnce
<1>1. HeapInvariant => EachObjectOnce
  <2> SUFFICES ASSUME heap \in Heaps PROVE EachObjectOnce
    BY DEF HeapInvariant
  <2>1. ASSUME NEW most \in {1, 25}, NEW got, got = StringifyToDepth(heap, Root, 5, most)
        PROVE  /\ \A o \in Objects : got.marks[o] = Unmarked
               /\ IsInjective(got.expanded)
               /\ (most >= Len(KeyOrder) /\ Cardinality(PlainObjects) <= 5) =>
                      ToSet(got.expanded) = {Root} \cup Reachable(Root)
    <3>1. most \in Nat
      OBVIOUS
    <3> QED
      BY <2>1, <3>1, WrittenOnce
  <2> QED
    BY <2>1, Zenon DEF EachObjectOnce
<1> QED
  BY <1>1, HeapTyped, PTL
=============================================================================
