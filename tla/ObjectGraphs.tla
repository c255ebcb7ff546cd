---------------------------- MODULE ObjectGraphs ----------------------------
(***************************************************************************)
(* What gjstest does with objects of the test's author that refer to each  *)
(* other: recursivelyEquals of public/matchers/equality_matchers.js and    *)
(* stringify of public/stringify.js.  A heap gives each object a value, an *)
(* object or Absent, for each key.  Objects are plain objects, arrays,     *)
(* matchers, or others (functions, say); only the first two have contents  *)
(* here: what a matcher or another object consists of is left out.  Both   *)
(* algorithms put marks on the objects they visit; none is frozen, and the *)
(* author's code they call neither throws nor changes the heap.            *)
(***************************************************************************)
EXTENDS Naturals, Sequences, FiniteSets, SequencesExt

CONSTANTS
    Objects,
    KindOf,         \* object -> "Object", "Array", "matcher" or "other"
    Takes,          \* object -> what its predicate, or its gjstestEquals, takes
    KeyOrder,       \* the keys, in the order of for ... in
    Absent

ASSUME KindAssumption == KindOf \in [Objects -> {"Object", "Array", "matcher", "other"}]
ASSUME TakesAssumption == Takes \in [Objects -> SUBSET Objects]
ASSUME AbsentAssumption == Absent \notin Objects

Keys == ToSet(KeyOrder)
Heaps == [Objects -> [Keys -> Objects \cup {Absent}]]
IsPlain(value) == value \in Objects /\ KindOf[value] \in {"Object", "Array"}

-----------------------------------------------------------------------------
(* containsCycle_: the marked objects are those on the path from the root; *)
(* the root itself is not marked.  Found: the nodes from which a marked    *)
(* one is met again.                                                       *)
ContainsCycle(heap, root) ==
    LET Found[marked \in SUBSET Objects] ==
            {node \in Objects : \E key \in Keys :
                LET child == heap[node][key]
                IN  IsPlain(child)
                    /\ (child \in marked \/ child \in Found[marked \cup {child}])}
    IN  root \in Found[{}]

(* compareRecursively_, for an expected object without cycles.  A matcher  *)
(* in it is asked about the actual value; other objects are compared by    *)
(* reference and then, if both are of a kind, with the gjstestEquals of    *)
(* the expected one (one without it takes nothing).  Equal: the objects to *)
(* which lhs is found equal.                                               *)
LeafEquals(lhsValue, rhsValue) ==
    IF KindOf[lhsValue] = "matcher" THEN rhsValue \in Takes[lhsValue]
    ELSE \/ lhsValue = rhsValue
         \/ KindOf[lhsValue] = KindOf[rhsValue] /\ rhsValue \in Takes[lhsValue]
KeysIn(heap, o) == {key \in Keys : heap[o][key] # Absent}
NoFurtherKeysUnchecked(heap, lhs, rhs) == TRUE                \* mutant
NoFurtherKeys(heap, lhs, rhs) == KeysIn(heap, rhs) \subseteq KeysIn(heap, lhs)
CompareRecursively(heap, expected, actual) ==
    LET Equal[lhs \in Objects] ==
            {rhs \in Objects :
                /\ \A key \in KeysIn(heap, lhs) :
                       LET lhsValue == heap[lhs][key]
                           rhsValue == heap[rhs][key]
                       IN  /\ rhsValue # Absent
                           /\ IF IsPlain(lhsValue)
                              THEN /\ KindOf[lhsValue] = KindOf[rhsValue]
                                   /\ rhsValue \in Equal[lhsValue]
                              ELSE LeafEquals(lhsValue, rhsValue)
                /\ NoFurtherKeys(heap, lhs, rhs)}
    IN  actual \in Equal[expected]

RecursivelyEquals(heap, expected, actual) ==
    IF ContainsCycle(heap, expected) THEN "given a non-tree"
    ELSE IF /\ KindOf[actual] = KindOf[expected]
            /\ CompareRecursively(heap, expected, actual)
    THEN "equal" ELSE "different"

-----------------------------------------------------------------------------
(* __gjstest_next_object: each marked object has the next one, the last    *)
(* one an object that is not the author's.                                 *)
Unmarked == "no mark"
EndOfList == "end of list"
ASSUME MarkAssumption == Objects \cap {Unmarked, EndOfList} = {}
Marks == [Objects -> Objects \cup {Unmarked, EndOfList}]

InsertAtEnd(marks, parent, child) ==                          \* mutant
    [marks EXCEPT ![child] = EndOfList, ![parent] = child]
Insert(marks, parent, child) ==
    [marks EXCEPT ![child] = marks[parent], ![parent] = child]

(* What the root removes, following the list. *)
Listed(marks, root) ==
    LET From[o \in Objects] ==
            {o} \cup (IF marks[o] \in Objects THEN From[marks[o]] ELSE {})
    IN  From[root]
Finish(marks, root) ==
    [o \in Objects |-> IF o \in Listed(marks, root) THEN Unmarked ELSE marks[o]]

(* stringifyToDepth: the marks it leaves, and the objects whose contents   *)
(* it wrote, in order.  After most parts the rest of an object is left     *)
(* out; a gap between the elements of an array is a part as well.          *)
Gap(heap, object, i) ==
    IF /\ KindOf[object] = "Array" /\ heap[object][KeyOrder[i]] = Absent
       /\ \E j \in (i + 1)..Len(KeyOrder) : heap[object][KeyOrder[j]] # Absent
    THEN 1 ELSE 0
StringifyToDepth(heap, root, depthOfRoot, most) ==
    LET Describe[call \in [object : Objects, depth : 0..depthOfRoot, marks : Marks]] ==
        LET object == call.object
            isRoot == call.marks[object] = Unmarked
            AddKey(before, i) ==
                LET child == heap[object][KeyOrder[i]]
                    seen == before.marks[child] # Unmarked
                    got == Describe[
                        [object |-> child,
                         depth |-> IF seen THEN 0 ELSE call.depth - 1,
                         marks |-> IF seen THEN before.marks
                                   ELSE Insert(before.marks, object, child)]]
                IN  IF child = Absent \/ call.depth = 0
                    THEN [before EXCEPT !.parts = @ + Gap(heap, object, i)]
                    ELSE IF before.parts >= most THEN before
                    ELSE [marks |-> got.marks, parts |-> before.parts + 1,
                          expanded |-> before.expanded \o got.expanded]
            After[i \in 0..Len(KeyOrder)] ==
                IF i = 0
                THEN [marks |-> IF isRoot THEN [call.marks EXCEPT ![object] = EndOfList]
                                ELSE call.marks,
                      parts |-> 0,
                      expanded |-> IF call.depth > 0 THEN << object >> ELSE << >>]
                ELSE AddKey(After[i - 1], i)
            done == After[Len(KeyOrder)]
        IN  IF ~IsPlain(object) THEN [marks |-> call.marks, expanded |-> << >>]
            ELSE [marks |-> IF isRoot THEN Finish(done.marks, object) ELSE done.marks,
                  expanded |-> done.expanded]
    IN  Describe[[object |-> root, depth |-> depthOfRoot,
                  marks |-> [o \in Objects |-> Unmarked]]]
=============================================================================
