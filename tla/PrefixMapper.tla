---------------------------- MODULE PrefixMapper ----------------------------
(***************************************************************************)
(* XmlWriter::PrefixMapper of webutil/xml/xml_writer.cc as operators on a  *)
(* record: which namespace has which prefix, and which of them go out of   *)
(* scope with each open element.                                           *)
(*   stack      uri_stack_: the URIs mapped at each depth                  *)
(*   prefix     uri_prefix_map_: what is in scope; empty for a null map    *)
(*   fixed      uri_fixed_prefix_map_: every prefix given to a URI         *)
(*   reserved   fixed_prefix_set_                                          *)
(*   counter    counter_, from which the next prefix is made               *)
(***************************************************************************)
EXTENDS Integers, Sequences

CONSTANTS
    URIs,           \* namespace URIs, XmlURI included
    Prefixes,
    XmlURI,         \* kXmlNamespaceURI
    XmlPrefix, XmlnsPrefix,             \* "xml" and "xmlns"
    PrefixAt,       \* the prefix made of a value of the counter
    MaxCounter      \* bound of the counter

ASSUME XmlAssumption == XmlURI \in URIs /\ {XmlPrefix, XmlnsPrefix} \subseteq Prefixes
ASSUME MaxCounterAssumption == MaxCounter \in Nat
ASSUME PrefixAtAssumption ==
    /\ PrefixAt \in [0..MaxCounter -> Prefixes]
    /\ \A m, n \in 0..MaxCounter : PrefixAt[m] = PrefixAt[n] => m = n

Empty == [u \in {} |-> XmlPrefix]
Extend(f, u, p) == [v \in DOMAIN f \cup {u} |-> IF v = u THEN p ELSE f[v]]

(* The constructor, and Reset. *)
NewMapper ==
    [stack |-> << >>, prefix |-> Empty, fixed |-> Empty, reserved |-> {}, counter |-> 0]

IsMapped(m, u) == u \in DOMAIN m.prefix

(* The maps are made when first needed; the xml namespace is always in.    *)
AllocateMapsIfNull(m) ==
    IF DOMAIN m.prefix = {} THEN [m EXCEPT !.prefix = Extend(Empty, XmlURI, XmlPrefix)]
    ELSE m

IsReservedPrefix(m, p) == p \in {XmlPrefix, XmlnsPrefix} \cup m.reserved

(* GenerateNextPrefix takes the first value whose prefix is not reserved.  *)
Available(m) == {n \in m.counter..MaxCounter : ~IsReservedPrefix(m, PrefixAt[n])}
NextFree(m) == CHOOSE n \in Available(m) : \A k \in Available(m) : n <= k

MustGenerate(m, u) ==
    u \notin DOMAIN AllocateMapsIfNull(m).prefix /\ u \notin DOMAIN m.fixed

(* The prefix GetPrefix returns, and the mapper it leaves. *)
PrefixFor(m, u) ==
    LET a == AllocateMapsIfNull(m)
    IN  CASE u \in DOMAIN a.prefix -> a.prefix[u]
          [] u \notin DOMAIN a.prefix /\ u \in DOMAIN a.fixed -> a.fixed[u]
          [] OTHER -> PrefixAt[NextFree(a)]

GetPrefixNotKept(m, u) ==                                     \* mutant
    LET a == AllocateMapsIfNull(m)
        p == PrefixFor(m, u)
    IN  IF u \in DOMAIN a.prefix THEN a
        ELSE [a EXCEPT !.prefix = Extend(@, u, p),
                       !.stack[Len(a.stack)] = @ \cup {u},
                       !.counter = IF MustGenerate(m, u) THEN NextFree(a) + 1 ELSE @]
GetPrefix(m, u) ==
    LET a == AllocateMapsIfNull(m)
        p == PrefixFor(m, u)
    IN  IF u \in DOMAIN a.prefix THEN a
        ELSE [a EXCEPT !.fixed = Extend(@, u, p),
                       !.prefix = Extend(@, u, p),
                       !.stack[Len(a.stack)] = @ \cup {u},
                       !.counter = IF MustGenerate(m, u) THEN NextFree(a) + 1 ELSE @]

AssociateNamespace(m, u, p) ==                                \* mutant
    LET a == AllocateMapsIfNull(m)
    IN  [a EXCEPT !.fixed = Extend(@, u, p), !.reserved = @ \cup {u}]
AssociatePrefix(m, u, p) ==
    LET a == AllocateMapsIfNull(m)
    IN  [a EXCEPT !.fixed = Extend(@, u, p), !.reserved = @ \cup {p}]

Push(m) == [m EXCEPT !.stack = Append(@, {})]

(* What was mapped at this depth is no longer. *)
PopUnscoped(m) ==                                             \* mutant
    [m EXCEPT !.stack = SubSeq(@, 1, Len(@) - 1)]
Pop(m) ==
    LET gone == m.stack[Len(m.stack)]
    IN  [m EXCEPT !.prefix = [u \in DOMAIN @ \ gone |-> @[u]],
                  !.stack = SubSeq(@, 1, Len(@) - 1)]

(* Bounds: is there a prefix for u below MaxCounter? *)
CanMap(m, u) == MustGenerate(m, u) => Available(m) # {}
=============================================================================
