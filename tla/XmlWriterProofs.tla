--------------------------- MODULE XmlWriterProofs ---------------------------
(* Theorems about XmlWriter, for every set of namespaces, alphabet of      *)
(* prefixes, depth and bound of the counter.                               *)
EXTENDS XmlWriter, TLAPS, SequenceTheorems, WellFoundedInduction

(* Callers bind a prefix to one namespace only.  The code does not refuse  *)
(* a second one, and then a name may have two meanings.                    *)
SeparateBindings == SharedBindings = FALSE

-----------------------------------------------------------------------------
(* The mapper.                                                             *)

PartialMaps == UNION { [D -> Prefixes] : D \in SUBSET URIs }

Mappers == [stack    : Seq(SUBSET URIs),
            prefix   : PartialMaps,
            fixed    : PartialMaps,
            reserved : SUBSET Prefixes,
            counter  : 0..(MaxCounter + 1)]

(* A prefix once given is reserved, or was made of a value the counter has *)
(* passed: so the next one made is new.                                    *)
Spent(m, p) ==
    p \in m.reserved \/ \E n \in 0..(m.counter - 1) : n \in 0..MaxCounter /\ p = PrefixAt[n]

(* The prefixes given to namespaces are all different. *)
GivenOK(m) ==
    /\ XmlURI \notin DOMAIN m.fixed
    /\ \A u, v \in DOMAIN m.fixed : m.fixed[u] = m.fixed[v] => u = v
    /\ \A u \in DOMAIN m.fixed : m.fixed[u] # XmlPrefix /\ Spent(m, m.fixed[u])

(* What is in scope has the prefix it was given, and "xml" is always. *)
ScopeOK(m) ==
    /\ DOMAIN m.prefix # {} => XmlURI \in DOMAIN m.prefix /\ m.prefix[XmlURI] = XmlPrefix
    /\ \A u \in DOMAIN m.prefix :
          u # XmlURI => u \in DOMAIN m.fixed /\ m.prefix[u] = m.fixed[u]

(* What was mapped at a depth is in scope, and was mapped at no other; and *)
(* nothing else is in scope.                                               *)
DepthsOK(m) ==
    /\ \A i \in 1..Len(m.stack) : \A u \in m.stack[i] :
          /\ u \in DOMAIN m.prefix /\ u # XmlURI
          /\ \A j \in 1..Len(m.stack) : u \in m.stack[j] => i = j
    /\ \A u \in DOMAIN m.prefix :
          u # XmlURI => \E i \in 1..Len(m.stack) : u \in m.stack[i]

MapperOK(m) == m \in Mappers /\ GivenOK(m) /\ ScopeOK(m) /\ DepthsOK(m)

LEMMA LeastExists ==
    ASSUME NEW S \in SUBSET Nat, S # {}
    PROVE  \E n \in S : \A k \in S : n <= k
<1> DEFINE R == OpToRel(<, Nat)
<1>1. IsWellFoundedOn(R, Nat)
  BY NatLessThanWellFounded
<1>2. \A x, y \in Nat : x < y => << x, y >> \in R
  BY DEF OpToRel
<1> HIDE DEF R
<1>3. PICK n \in S : \A k \in S : ~ (<< k, n >> \in R)
  BY <1>1, WFMin
<1>4. \A k \in S : ~ (k < n)
  BY <1>2, <1>3
<1> QED
  BY <1>4

LEMMA MapTypes ==
    ASSUME NEW f \in PartialMaps
    PROVE  /\ DOMAIN f \subseteq URIs
           /\ \A u \in DOMAIN f : f[u] \in Prefixes
           /\ f \in [DOMAIN f -> Prefixes]
BY DEF PartialMaps

LEMMA MapExtended ==
    ASSUME NEW f \in PartialMaps, NEW u \in URIs, NEW p \in Prefixes
    PROVE  /\ Extend(f, u, p) \in PartialMaps
           /\ DOMAIN Extend(f, u, p) = DOMAIN f \cup {u}
           /\ Extend(f, u, p)[u] = p
           /\ \A v \in DOMAIN f : v # u => Extend(f, u, p)[v] = f[v]
<1>1. Extend(f, u, p) \in [DOMAIN f \cup {u} -> Prefixes]
  BY MapTypes DEF Extend
<1>2. DOMAIN f \cup {u} \in SUBSET URIs
  BY MapTypes
<1> QED
  BY <1>1, <1>2 DEF Extend, PartialMaps

LEMMA EmptyMap == Empty \in PartialMaps /\ DOMAIN Empty = {}
<1>1. Empty \in [{} -> Prefixes]
  BY DEF Empty
<1> QED
  BY <1>1 DEF PartialMaps, Empty

LEMMA NewMapperOK == MapperOK(NewMapper)
<1>1. NewMapper \in Mappers
  BY EmptyMap, MaxCounterAssumption DEF NewMapper, Mappers
<1> QED
  BY <1>1, EmptyMap DEF NewMapper, MapperOK, GivenOK, ScopeOK, DepthsOK

(* The maps are allocated: xml is in, and nothing else has changed.        *)
LEMMA Allocated ==
    ASSUME NEW m, MapperOK(m)
    PROVE  LET a == AllocateMapsIfNull(m) IN
           /\ MapperOK(a)
           /\ a.stack = m.stack /\ a.fixed = m.fixed
           /\ a.reserved = m.reserved /\ a.counter = m.counter
           /\ DOMAIN a.prefix = DOMAIN m.prefix \cup {XmlURI}
           /\ XmlURI \in DOMAIN m.prefix => a = m
           /\ a.prefix[XmlURI] = XmlPrefix
           /\ \A u \in DOMAIN m.prefix : a.prefix[u] = m.prefix[u]
<1> DEFINE a == AllocateMapsIfNull(m)
           x == Extend(Empty, XmlURI, XmlPrefix)
<1>1. m \in Mappers
  BY DEF MapperOK
<1>2. CASE DOMAIN m.prefix # {}
  BY <1>2 DEF AllocateMapsIfNull, MapperOK, ScopeOK
<1>3. CASE DOMAIN m.prefix = {}
  <2>1. x \in PartialMaps /\ DOMAIN x = {XmlURI} /\ x[XmlURI] = XmlPrefix
    <3>1. XmlURI \in URIs /\ XmlPrefix \in Prefixes
      BY XmlAssumption
    <3>2. x \in PartialMaps /\ DOMAIN x = DOMAIN Empty \cup {XmlURI} /\ x[XmlURI] = XmlPrefix
      BY <3>1, EmptyMap, MapExtended
    <3> HIDE DEF x
    <3> QED
      BY <3>2, EmptyMap
  <2> HIDE DEF x
  <2>2. a = [m EXCEPT !.prefix = x]
    BY <1>3 DEF AllocateMapsIfNull, x
  <2>3. /\ a \in Mappers /\ a.prefix = x
        /\ a.stack = m.stack /\ a.fixed = m.fixed
        /\ a.reserved = m.reserved /\ a.counter = m.counter
    BY <1>1, <2>1, <2>2 DEF Mappers
  <2> HIDE DEF a
  <2>4. MapperOK(a)
    BY <1>3, <2>1, <2>3 DEF MapperOK, GivenOK, ScopeOK, DepthsOK, Spent
  <2> QED
    BY <1>3, <2>1, <2>3, <2>4 DEF a
<1> QED
  BY <1>2, <1>3

LEMMA PushOK ==
    ASSUME NEW m, MapperOK(m)
    PROVE  /\ MapperOK(Push(m)) /\ Push(m).stack = Append(m.stack, {})
           /\ Push(m).prefix = m.prefix /\ Push(m).fixed = m.fixed
           /\ Push(m).reserved = m.reserved /\ Push(m).counter = m.counter
           /\ Len(Push(m).stack) = Len(m.stack) + 1
           /\ Push(m).stack[Len(m.stack) + 1] = {}
           /\ \A i \in 1..Len(m.stack) : Push(m).stack[i] = m.stack[i]
<1> DEFINE g == Push(m)
<1>1. m \in Mappers
  BY DEF MapperOK
<1>2. /\ m.stack \in Seq(SUBSET URIs) /\ {} \in SUBSET URIs /\ Len(m.stack) \in Nat
  BY <1>1 DEF Mappers
<1>3. /\ g \in Mappers /\ g.stack = Append(m.stack, {})
      /\ g.prefix = m.prefix /\ g.fixed = m.fixed
      /\ g.reserved = m.reserved /\ g.counter = m.counter
  BY <1>1, <1>2, AppendProperties DEF Push, Mappers
<1> HIDE DEF g
<1>4. /\ Len(g.stack) = Len(m.stack) + 1 /\ g.stack[Len(m.stack) + 1] = {}
      /\ \A i \in 1..Len(m.stack) : g.stack[i] = m.stack[i]
  BY <1>2, <1>3, AppendProperties
<1>5. \A i \in 1..Len(g.stack) : i \in 1..Len(m.stack) \/ g.stack[i] = {}
  BY <1>2, <1>4
<1>6. MapperOK(g)
  <2>1. GivenOK(g) /\ ScopeOK(g)
    BY <1>3 DEF MapperOK, GivenOK, ScopeOK, Spent
  <2>2. DepthsOK(g)
    <3>1. 1..Len(m.stack) \subseteq 1..Len(g.stack)
      BY <1>2, <1>4
    <3> QED
      BY <1>3, <1>4, <1>5, <3>1 DEF MapperOK, DepthsOK
  <2> QED
    BY <1>3, <2>1, <2>2 DEF MapperOK
<1> QED
  BY <1>3, <1>4, <1>6 DEF g

LEMMA PopOK ==
    ASSUME NEW m, MapperOK(m), Len(m.stack) > 0
    PROVE  /\ MapperOK(Pop(m)) /\ Len(Pop(m).stack) = Len(m.stack) - 1
           /\ Pop(m).fixed = m.fixed
           /\ Pop(m).reserved = m.reserved /\ Pop(m).counter = m.counter
           /\ DOMAIN m.prefix # {} => DOMAIN Pop(m).prefix # {}
           /\ DOMAIN Pop(m).prefix \subseteq DOMAIN m.prefix
           /\ \A i \in 1..(Len(m.stack) - 1) : Pop(m).stack[i] = m.stack[i]
<1> DEFINE g == Pop(m)
           n == Len(m.stack)
           gone == m.stack[n]
           s == SubSeq(m.stack, 1, n - 1)
           f == [u \in DOMAIN m.prefix \ gone |-> m.prefix[u]]
<1>1. m \in Mappers
  BY DEF MapperOK
<1>2. m.stack \in Seq(SUBSET URIs) /\ n \in Nat /\ n \in 1..n /\ m.prefix \in PartialMaps
  BY <1>1 DEF Mappers
<1>3. /\ s \in Seq(SUBSET URIs) /\ Len(s) = n - 1
      /\ \A i \in 1..(n - 1) : s[i] = m.stack[i]
  <2> DEFINE k == n - 1
  <2>1. k \in Nat /\ \A i \in 1..k : m.stack[i] \in SUBSET URIs
    BY <1>2
  <2>2. /\ SubSeq(m.stack, 1, k) \in Seq(SUBSET URIs)
        /\ Len(SubSeq(m.stack, 1, k)) = IF 1 <= k THEN k - 1 + 1 ELSE 0
        /\ \A i \in 1..(k - 1 + 1) : SubSeq(m.stack, 1, k)[i] = m.stack[1 + i - 1]
    <3> HIDE DEF k, n
    <3> QED BY <2>1, SubSeqProperties
  <2> HIDE DEF n
  <2>3. \A i \in 1..k : i \in 1..(k - 1 + 1) /\ 1 + i - 1 = i
    BY <2>1
  <2>4. s = SubSeq(m.stack, 1, k) /\ (IF 1 <= k THEN k - 1 + 1 ELSE 0) = k
    BY <2>1
  <2> HIDE DEF k, s
  <2> QED
    BY <2>2, <2>3, <2>4 DEF k
<1>4. f \in PartialMaps
  <2>1. f \in [DOMAIN m.prefix \ gone -> Prefixes] /\ DOMAIN m.prefix \ gone \in SUBSET URIs
    BY <1>2, MapTypes
  <2> QED
    BY <2>1 DEF PartialMaps
<1>5. DOMAIN f = DOMAIN m.prefix \ gone /\ \A u \in DOMAIN f : f[u] = m.prefix[u]
  OBVIOUS
<1>6. g = [m EXCEPT !.prefix = f, !.stack = s]
  BY DEF Pop
<1> HIDE DEF f, s
<1>7. /\ g \in Mappers /\ g.prefix = f /\ g.stack = s
      /\ g.fixed = m.fixed /\ g.reserved = m.reserved /\ g.counter = m.counter
  BY <1>1, <1>3, <1>4, <1>6 DEF Mappers
<1> HIDE DEF g
<1>8. \A u \in gone : u # XmlURI
  BY <1>2 DEF MapperOK, DepthsOK
<1>9. GivenOK(g) /\ ScopeOK(g)
  BY <1>5, <1>7, <1>8 DEF MapperOK, GivenOK, ScopeOK, Spent
<1>10. \A i \in 1..n : \A u \in m.stack[i] :
          /\ u \in DOMAIN m.prefix /\ u # XmlURI
          /\ \A j \in 1..n : u \in m.stack[j] => i = j
  BY DEF MapperOK, DepthsOK
<1>11. DepthsOK(g)
  <2>1. \A i \in 1..(n - 1) : i \in 1..n /\ i # n
    BY <1>2
  <2>2. ASSUME NEW i \in 1..(n - 1), NEW u \in m.stack[i]
        PROVE  /\ u \in DOMAIN g.prefix /\ u # XmlURI
               /\ \A j \in 1..(n - 1) : u \in m.stack[j] => i = j
    BY <1>2, <1>5, <1>7, <1>10, <2>1
  <2>3. ASSUME NEW u \in DOMAIN g.prefix, u # XmlURI
        PROVE  \E i \in 1..(n - 1) : u \in m.stack[i]
    <3>1. u \in DOMAIN m.prefix /\ u \notin gone
      BY <1>5, <1>7
    <3>2. PICK i \in 1..n : u \in m.stack[i]
      BY <2>3, <3>1 DEF MapperOK, DepthsOK
    <3>3. i \in 1..(n - 1)
      BY <1>2, <3>1, <3>2
    <3> QED
      BY <3>2, <3>3
  <2> HIDE DEF n
  <2> QED
    BY <1>3, <1>7, <2>2, <2>3 DEF DepthsOK
<1>12. DOMAIN m.prefix # {} => DOMAIN g.prefix # {}
  BY <1>5, <1>7, <1>8 DEF MapperOK, ScopeOK
<1>13. DOMAIN g.prefix \subseteq DOMAIN m.prefix
  BY <1>5, <1>7
<1> QED
  BY <1>3, <1>7, <1>9, <1>11, <1>12, <1>13 DEF MapperOK, g

(* The prefix made up next is one that was never given. *)
LEMMA NextIsNew ==
    ASSUME NEW m, m \in Mappers, Available(m) # {}
    PROVE  /\ NextFree(m) \in m.counter..MaxCounter
           /\ PrefixAt[NextFree(m)] \in Prefixes
           /\ PrefixAt[NextFree(m)] # XmlPrefix
           /\ ~Spent(m, PrefixAt[NextFree(m)])
<1> DEFINE n == NextFree(m)
           p == PrefixAt[n]
<1>1. m.counter \in 0..(MaxCounter + 1)
  BY DEF Mappers
<1>2. Available(m) \subseteq Nat
  BY <1>1, MaxCounterAssumption DEF Available
<1>3. n \in Available(m)
  <2>1. Available(m) \in SUBSET Nat
    BY <1>2
  <2>2. \E k \in Available(m) : \A j \in Available(m) : k <= j
    BY <2>1, LeastExists
  <2> QED
    BY <2>2 DEF NextFree
<1> HIDE DEF n
<1>4. /\ n \in m.counter..MaxCounter /\ n \in 0..MaxCounter
      /\ p \notin {XmlPrefix, XmlnsPrefix} /\ p \notin m.reserved
  BY <1>1, <1>3, MaxCounterAssumption DEF Available, IsReservedPrefix
<1>5. p \in Prefixes
  BY <1>4, PrefixAtAssumption
<1>6. ~Spent(m, p)
  <2> SUFFICES ASSUME NEW k \in 0..(m.counter - 1), k \in 0..MaxCounter, p = PrefixAt[k]
               PROVE  FALSE
    BY <1>4 DEF Spent
  <2>1. k # n
    BY <1>1, <1>4, MaxCounterAssumption
  <2> QED
    BY <1>4, <2>1, PrefixAtAssumption
<1> QED
  BY <1>4, <1>5, <1>6 DEF n

(* What GetPrefix leaves of a mapper. *)
LEMMA GetPrefixOK ==
    ASSUME NEW m, MapperOK(m), Len(m.stack) > 0, NEW u \in URIs, CanMap(m, u)
    PROVE  LET g == GetPrefix(m, u)
               p == PrefixFor(m, u)
               n == Len(m.stack)
           IN  /\ MapperOK(g) /\ Len(g.stack) = n /\ g.reserved = m.reserved
               /\ p \in Prefixes /\ u \in DOMAIN g.prefix
               /\ \A v \in DOMAIN m.fixed : v \in DOMAIN g.fixed /\ g.fixed[v] = m.fixed[v]
               /\ \A i \in 1..(n - 1) : g.stack[i] = m.stack[i]
               /\ IsMapped(m, u) => g = m
               /\ IsMapped(m, u) /\ u # XmlURI => u \in DOMAIN m.fixed /\ p = m.fixed[u]
               /\ u = XmlURI => p = XmlPrefix /\ g.stack[n] = m.stack[n]
               /\ ~IsMapped(m, u) /\ u # XmlURI =>
                     /\ u \in DOMAIN g.fixed /\ p = g.fixed[u]
                     /\ g.stack[n] = m.stack[n] \cup {u}
                     /\ \A i \in 1..n : u \notin m.stack[i]
<1> DEFINE a == AllocateMapsIfNull(m)
           g == GetPrefix(m, u)
           p == PrefixFor(m, u)
           n == Len(m.stack)
<1>1. /\ MapperOK(a) /\ a \in Mappers
      /\ a.stack = m.stack /\ a.fixed = m.fixed
      /\ a.reserved = m.reserved /\ a.counter = m.counter
      /\ DOMAIN a.prefix = DOMAIN m.prefix \cup {XmlURI}
      /\ XmlURI \in DOMAIN m.prefix => a = m
      /\ a.prefix[XmlURI] = XmlPrefix
      /\ \A v \in DOMAIN m.prefix : a.prefix[v] = m.prefix[v]
  BY Allocated DEF MapperOK
<1>2. /\ a.stack \in Seq(SUBSET URIs) /\ n \in Nat /\ n \in 1..n /\ n = Len(a.stack)
      /\ a.prefix \in PartialMaps /\ a.fixed \in PartialMaps
      /\ a.counter \in 0..(MaxCounter + 1)
  BY <1>1 DEF Mappers
<1>3. /\ g = IF u \in DOMAIN a.prefix THEN a
              ELSE [a EXCEPT !.fixed = Extend(@, u, p),
                             !.prefix = Extend(@, u, p),
                             !.stack[n] = @ \cup {u},
                             !.counter = IF MustGenerate(m, u) THEN NextFree(a) + 1 ELSE @]
      /\ p = CASE u \in DOMAIN a.prefix -> a.prefix[u]
                [] u \notin DOMAIN a.prefix /\ u \in DOMAIN a.fixed -> a.fixed[u]
                [] OTHER -> PrefixAt[NextFree(a)]
      /\ MustGenerate(m, u) <=> u \notin DOMAIN a.prefix /\ u \notin DOMAIN a.fixed
  BY <1>1, <1>2 DEF GetPrefix, PrefixFor, MustGenerate
<1>4. IsMapped(m, u) <=> u \in DOMAIN m.prefix
  BY DEF IsMapped
<1>5. IsMapped(m, u) => XmlURI \in DOMAIN m.prefix
  BY <1>4 DEF MapperOK, ScopeOK
<1> HIDE DEF a, g, p
<1>6. CASE u \in DOMAIN a.prefix
  <2>1. g = a /\ p = a.prefix[u]
    BY <1>3, <1>6
  <2>2. p \in Prefixes
    BY <1>2, <1>6, <2>1, MapTypes
  <2>3. IsMapped(m, u) \/ u = XmlURI
    BY <1>1, <1>4, <1>6
  <2>4. IsMapped(m, u) /\ u # XmlURI => u \in DOMAIN m.fixed /\ p = m.fixed[u]
    BY <1>1, <1>4, <2>1 DEF MapperOK, ScopeOK
  <2> QED
    BY <1>1, <1>2, <1>5, <1>6, <2>1, <2>2, <2>3, <2>4 DEF a, g, p
<1>7. CASE u \notin DOMAIN a.prefix
  <2> DEFINE c == IF MustGenerate(m, u) THEN NextFree(a) + 1 ELSE a.counter
             f == Extend(a.fixed, u, p)
             h == Extend(a.prefix, u, p)
             s == [a.stack EXCEPT ![n] = @ \cup {u}]
  <2>1. u # XmlURI /\ ~IsMapped(m, u)
    BY <1>1, <1>4, <1>7
  <2>2. /\ p \in Prefixes /\ p # XmlPrefix
        /\ c \in 0..(MaxCounter + 1) /\ c >= a.counter
        /\ u \in DOMAIN a.fixed => p = a.fixed[u]
        /\ u \notin DOMAIN a.fixed =>
              /\ ~Spent(a, p)
              /\ p \in a.reserved \/ \E k \in 0..(c - 1) : k \in 0..MaxCounter /\ p = PrefixAt[k]
    <3>1. CASE u \in DOMAIN a.fixed
      <4>1. p = a.fixed[u] /\ c = a.counter
        BY <1>3, <1>7, <3>1
      <4>2. p \in Prefixes /\ p # XmlPrefix
        BY <1>1, <1>2, <3>1, <4>1, MapTypes DEF MapperOK, GivenOK
      <4> QED
        BY <1>2, <3>1, <4>1, <4>2, MaxCounterAssumption
    <3>2. CASE u \notin DOMAIN a.fixed
      <4>1. MustGenerate(m, u) /\ p = PrefixAt[NextFree(a)] /\ c = NextFree(a) + 1
        BY <1>3, <1>7, <3>2
      <4>2. Available(m) # {}
        BY <4>1 DEF CanMap
      <4>3. Available(a) = Available(m)
        BY <1>1 DEF Available, IsReservedPrefix
      <4>4. /\ NextFree(a) \in a.counter..MaxCounter
            /\ p \in Prefixes /\ p # XmlPrefix /\ ~Spent(a, p)
        BY <1>1, <4>1, <4>2, <4>3, NextIsNew
      <4> HIDE DEF c
      <4>5. c \in 0..(MaxCounter + 1) /\ c >= a.counter /\ NextFree(a) \in 0..(c - 1)
            /\ NextFree(a) \in 0..MaxCounter
        BY <1>2, <4>1, <4>4, MaxCounterAssumption
      <4> QED
        BY <3>2, <4>1, <4>4, <4>5 DEF c
    <3> QED
      BY <3>1, <3>2
  <2>3. /\ f \in PartialMaps /\ DOMAIN f = DOMAIN a.fixed \cup {u} /\ f[u] = p
        /\ \A v \in DOMAIN a.fixed : f[v] = a.fixed[v]
        /\ h \in PartialMaps /\ DOMAIN h = DOMAIN a.prefix \cup {u} /\ h[u] = p
        /\ \A v \in DOMAIN a.prefix : h[v] = a.prefix[v]
    <3>1. /\ f \in PartialMaps /\ DOMAIN f = DOMAIN a.fixed \cup {u} /\ f[u] = p
          /\ \A v \in DOMAIN a.fixed : v # u => f[v] = a.fixed[v]
      BY <1>2, <2>2, MapExtended
    <3>2. a.prefix \in PartialMaps /\ p \in Prefixes
      BY <1>2, <2>2
    <3>3. /\ h \in PartialMaps /\ DOMAIN h = DOMAIN a.prefix \cup {u} /\ h[u] = p
          /\ \A v \in DOMAIN a.prefix : v # u => h[v] = a.prefix[v]
      BY <3>2, MapExtended
    <3> HIDE DEF f, h
    <3> QED
      BY <1>7, <2>2, <3>1, <3>3
  <2>4. /\ s \in Seq(SUBSET URIs) /\ Len(s) = n /\ s[n] = a.stack[n] \cup {u}
        /\ \A i \in 1..n : i # n => s[i] = a.stack[i]
    BY <1>2
  <2>5. g = [a EXCEPT !.fixed = f, !.prefix = h, !.stack = s, !.counter = c]
    BY <1>1, <1>3, <1>7 DEF Mappers
  <2> HIDE DEF f, h, s, c
  <2>6. /\ g \in Mappers /\ g.fixed = f /\ g.prefix = h /\ g.stack = s /\ g.counter = c
        /\ g.reserved = a.reserved
    BY <1>1, <2>2, <2>3, <2>4, <2>5 DEF Mappers
  <2>7. GivenOK(g)
    <3>1. \A q : Spent(a, q) => Spent(g, q)
      <4>1. \A k \in 0..(a.counter - 1) : k \in 0..(c - 1)
        BY <1>2, <2>2, MaxCounterAssumption
      <4> QED
        BY <2>6, <4>1 DEF Spent
    <3>2. /\ XmlURI \notin DOMAIN a.fixed
          /\ \A v, w \in DOMAIN a.fixed : a.fixed[v] = a.fixed[w] => v = w
          /\ \A v \in DOMAIN a.fixed : a.fixed[v] # XmlPrefix /\ Spent(a, a.fixed[v])
      BY <1>1 DEF MapperOK, GivenOK
    <3>3. Spent(g, p)
      BY <2>2, <2>6, <3>1, <3>2 DEF Spent
    <3>4. \A v \in DOMAIN a.fixed : v # u => a.fixed[v] # p
      BY <2>2, <3>2
    <3>5. \A v \in DOMAIN f : f[v] # XmlPrefix /\ Spent(g, f[v])
      BY <2>2, <2>3, <3>1, <3>2, <3>3
    <3>6. \A v, w \in DOMAIN f : f[v] = f[w] => v = w
      BY <2>3, <3>2, <3>4
    <3> QED
      BY <2>1, <2>3, <2>6, <3>2, <3>5, <3>6 DEF GivenOK
  <2>8. ScopeOK(g)
    BY <1>1, <2>1, <2>3, <2>6 DEF MapperOK, ScopeOK
  <2>9. \A i \in 1..n : \A v \in a.stack[i] :
            /\ v \in DOMAIN a.prefix /\ v # XmlURI
            /\ \A j \in 1..n : v \in a.stack[j] => i = j
    BY <1>1, <1>2 DEF MapperOK, DepthsOK
  <2>10. \A i \in 1..n : u \notin a.stack[i]
    BY <1>7, <2>9
  <2>11. DepthsOK(g)
    <3>1. \A i \in 1..n : \A v \in s[i] : v \in a.stack[i] \/ (v = u /\ i = n)
      BY <2>4
    <3>2. \A i \in 1..n : a.stack[i] \subseteq s[i]
      BY <2>4
    <3>3. \A v \in DOMAIN a.prefix : v # XmlURI => \E i \in 1..n : v \in a.stack[i]
      BY <1>1, <1>2 DEF MapperOK, DepthsOK
    <3>4. \A v \in DOMAIN h : v # XmlURI => \E i \in 1..n : v \in s[i]
      BY <1>2, <2>3, <2>4, <3>2, <3>3
    <3>5. \A i \in 1..n : \A v \in s[i] :
             /\ v \in DOMAIN h /\ v # XmlURI
             /\ \A j \in 1..n : v \in s[j] => i = j
      BY <2>1, <2>3, <2>9, <2>10, <3>1
    <3> QED
      BY <2>4, <2>6, <3>4, <3>5 DEF DepthsOK
  <2>12. MapperOK(g)
    BY <2>6, <2>7, <2>8, <2>11 DEF MapperOK
  <2>13. \A i \in 1..(n - 1) : i \in 1..n /\ i # n
    BY <1>2
  <2> QED
    BY <1>1, <2>1, <2>2, <2>3, <2>4, <2>6, <2>10, <2>12, <2>13 DEF a, g, p
<1> QED
  BY <1>6, <1>7

-----------------------------------------------------------------------------
(* The open elements.                                                      *)

OpenElements == [declares : Seq(Pairs), names : SUBSET Pairs, tagOpen : BOOLEAN]

XmlDeclaration == << XmlPrefix, XmlURI >>

Declares(e) == SeqRange(e.declares)
Distinct(ds) == \A k, l \in DOMAIN ds : ds[k][1] = ds[l][1] => k = l

(* Why the i-th element declares d. *)
Right(m, i, d) ==
    \/ d[1] = NoPrefix
    \/ d = XmlDeclaration /\ DOMAIN m.prefix # {}
    \/ d[2] \in m.stack[i] /\ d = << m.fixed[d[2]], d[2] >>

(* Where the reader of a name finds what its prefix means. *)
Known(es, i, q) ==
    \/ q = XmlDeclaration
    \/ q[1] = NoPrefix /\ q \in Declares(es[i])
    \/ q[1] # NoPrefix /\ \E j \in 1..i : q \in Declares(es[j])

(* The declarations of the open elements are what the mapper has at each   *)
(* depth.                                                                  *)
TreeOK(m, es) ==
    /\ es \in Seq(OpenElements) /\ Len(es) = Len(m.stack)
    /\ \A i \in 1..Len(es) :
          /\ \A d \in Declares(es[i]) : Right(m, i, d)
          /\ \A u \in m.stack[i] : << m.fixed[u], u >> \in Declares(es[i])
          /\ \A q \in es[i].names : Known(es, i, q)
          /\ Distinct(es[i].declares)
    /\ \A i, j \in 1..Len(es) :
          XmlDeclaration \in Declares(es[i]) /\ XmlDeclaration \in Declares(es[j]) => i = j

SameText(es, fs, n) ==
    \A i \in 1..n : fs[i].declares = es[i].declares /\ fs[i].names = es[i].names

LEMMA NoPrefixIsNone == NoPrefix \notin Prefixes /\ XmlPrefix \in Prefixes /\ XmlURI \in URIs
                        /\ NoPrefix # XmlPrefix /\ NoURI \notin URIs
BY NoURIAssumption, XmlAssumption

LEMMA TreeFacts ==
    ASSUME NEW m, MapperOK(m), NEW es, TreeOK(m, es)
    PROVE  /\ es \in Seq(OpenElements) /\ Len(es) \in Nat /\ Len(m.stack) = Len(es)
           /\ m \in Mappers
           /\ \A i \in 1..Len(es) : es[i].declares \in Seq(Pairs) /\ es[i].names \in SUBSET Pairs
           /\ \A i \in 1..Len(es) : \A u \in m.stack[i] :
                 /\ u \in DOMAIN m.prefix /\ u # XmlURI /\ u \in DOMAIN m.fixed
                 /\ m.fixed[u] \in Prefixes /\ m.fixed[u] # XmlPrefix
<1>1. es \in Seq(OpenElements) /\ Len(es) \in Nat /\ Len(m.stack) = Len(es) /\ m \in Mappers
  BY DEF TreeOK, MapperOK
<1>2. \A i \in 1..Len(es) : es[i].declares \in Seq(Pairs) /\ es[i].names \in SUBSET Pairs
  <2> SUFFICES ASSUME NEW i \in 1..Len(es)
               PROVE  es[i].declares \in Seq(Pairs) /\ es[i].names \in SUBSET Pairs
    OBVIOUS
  <2>1. es[i] \in OpenElements
    BY <1>1
  <2> QED
    BY <2>1 DEF OpenElements
<1>3. m.fixed \in PartialMaps
  BY <1>1 DEF Mappers
<1>4. \A u \in DOMAIN m.fixed : m.fixed[u] \in Prefixes
  BY <1>3, MapTypes
<1>5. \A i \in 1..Len(es) : \A u \in m.stack[i] : u \in DOMAIN m.prefix /\ u # XmlURI
  BY <1>1 DEF MapperOK, DepthsOK
<1>6. \A i \in 1..Len(es) : \A u \in m.stack[i] : u \in DOMAIN m.fixed
  BY <1>5 DEF MapperOK, ScopeOK
<1>7. \A u \in DOMAIN m.fixed : m.fixed[u] # XmlPrefix
  BY DEF MapperOK, GivenOK
<1> QED
  BY <1>1, <1>2, <1>4, <1>5, <1>6, <1>7

LEMMA OneMore ==
    ASSUME NEW ds \in Seq(Pairs), NEW x \in Pairs
    PROVE  /\ ds \o << x >> \in Seq(Pairs)
           /\ SeqRange(ds \o << x >>) = SeqRange(ds) \cup {x}
           /\ Distinct(ds) /\ (\A y \in SeqRange(ds) : y[1] # x[1]) => Distinct(ds \o << x >>)
<1> DEFINE n == Len(ds)
           es == ds \o << x >>
<1>1. << x >> \in Seq(Pairs) /\ Len(<< x >>) = 1 /\ << x >>[1] = x /\ n \in Nat
  OBVIOUS
<1>2. /\ es \in Seq(Pairs) /\ Len(es) = n + 1
      /\ \A i \in 1..(n + 1) : es[i] = IF i <= n THEN ds[i] ELSE << x >>[i - n]
  BY <1>1, ConcatProperties
<1>3. /\ DOMAIN es = 1..(n + 1) /\ DOMAIN ds = 1..n
      /\ \A i \in 1..n : es[i] = ds[i]
      /\ es[n + 1] = x
      /\ \A i \in 1..(n + 1) : i = n + 1 \/ i \in 1..n
      /\ 1..n \subseteq 1..(n + 1) /\ n + 1 \in 1..(n + 1)
  BY <1>1, <1>2
<1> HIDE DEF es, n
<1>4. SeqRange(es) = SeqRange(ds) \cup {x}
  BY <1>3 DEF SeqRange
<1>5. Distinct(ds) /\ (\A y \in SeqRange(ds) : y[1] # x[1]) => Distinct(es)
  BY <1>3 DEF SeqRange, Distinct
<1> QED
  BY <1>2, <1>4, <1>5 DEF es

LEMMA NothingMore ==
    ASSUME NEW ds \in Seq(Pairs)
    PROVE  ds \o << >> = ds
BY ConcatEmptySeq

(* A start tag is closed: nothing else changes. *)
LEMMA TagClosedSame ==
    ASSUME NEW es \in Seq(OpenElements)
    PROVE  /\ TagClosed(es) \in Seq(OpenElements) /\ Len(TagClosed(es)) = Len(es)
           /\ SameText(es, TagClosed(es), Len(es))
<1>1. CASE es = << >>
  BY <1>1 DEF TagClosed, SameText
<1>2. CASE es # << >>
  <2> DEFINE n == Len(es)
             e == [es[n] EXCEPT !.tagOpen = FALSE]
  <2>1. n \in Nat /\ n \in 1..n
    BY <1>2, EmptySeq
  <2>2. es[n] \in OpenElements
    BY <2>1
  <2>3. e \in OpenElements /\ e.declares = es[n].declares /\ e.names = es[n].names
    BY <2>2 DEF OpenElements
  <2>4. TagClosed(es) = [es EXCEPT ![n] = e]
    BY <1>2 DEF TagClosed
  <2> HIDE DEF e, n
  <2> QED
    BY <2>1, <2>3, <2>4 DEF SameText, n
<1> QED
  BY <1>1, <1>2

LEMMA SameTree ==
    ASSUME NEW m, NEW es, TreeOK(m, es),
           NEW fs \in Seq(OpenElements), Len(fs) = Len(es), SameText(es, fs, Len(es))
    PROVE  TreeOK(m, fs)
<1>1. Len(es) \in Nat
  BY DEF TreeOK
<1>2. \A i \in 1..Len(es) : Declares(fs[i]) = Declares(es[i]) /\ fs[i].names = es[i].names
                               /\ fs[i].declares = es[i].declares
  BY DEF SameText, Declares
<1>3. \A i \in 1..Len(es) : \A q : Known(es, i, q) <=> Known(fs, i, q)
  <2> SUFFICES ASSUME NEW i \in 1..Len(es), NEW q
               PROVE  Known(es, i, q) <=> Known(fs, i, q)
    OBVIOUS
  <2>1. \A j \in 1..i : Declares(fs[j]) = Declares(es[j])
    BY <1>1, <1>2
  <2> QED
    BY <1>2, <2>1 DEF Known
<1> QED
  BY <1>2, <1>3 DEF TreeOK

(* An element is closed. *)
LEMMA PopTree ==
    ASSUME NEW m, MapperOK(m), NEW es, TreeOK(m, es), Len(es) > 0,
           NEW fs \in Seq(OpenElements), Len(fs) = Len(es) - 1, SameText(es, fs, Len(fs))
    PROVE  TreeOK(Pop(m), fs)
<1> DEFINE g == Pop(m)
           n == Len(fs)
<1>1. /\ n \in Nat /\ n = Len(es) - 1 /\ 1..n \subseteq 1..Len(es) /\ Len(m.stack) = n + 1
  BY TreeFacts
<1>2. /\ Len(g.stack) = n /\ g.fixed = m.fixed
      /\ DOMAIN m.prefix # {} => DOMAIN g.prefix # {}
      /\ \A i \in 1..n : g.stack[i] = m.stack[i]
  BY <1>1, PopOK
<1> HIDE DEF g, n
<1>3. \A i \in 1..n : Declares(fs[i]) = Declares(es[i]) /\ fs[i].names = es[i].names
                         /\ fs[i].declares = es[i].declares
  BY DEF SameText, Declares, n
<1>4. \A i \in 1..n : \A q : Known(es, i, q) <=> Known(fs, i, q)
  <2> SUFFICES ASSUME NEW i \in 1..n, NEW q
               PROVE  Known(es, i, q) <=> Known(fs, i, q)
    OBVIOUS
  <2>1. \A j \in 1..i : Declares(fs[j]) = Declares(es[j])
    BY <1>1, <1>3
  <2> QED
    BY <1>3, <2>1 DEF Known
<1>5. \A i \in 1..n : \A d : Right(m, i, d) => Right(g, i, d)
  BY <1>2 DEF Right
<1>6. Len(fs) = n
  BY DEF n
<1> QED
  BY <1>1, <1>2, <1>3, <1>4, <1>5, <1>6 DEF TreeOK, g

(* An element is opened, without a name in a namespace or in the default   *)
(* namespace.                                                              *)
LEMMA PushTree ==
    ASSUME NEW m, MapperOK(m), NEW es, TreeOK(m, es),
           NEW e \in OpenElements,
           \/ e.declares = << >> /\ e.names = {}
           \/ \E u \in URIs : /\ e.declares = << << NoPrefix, u >> >>
                             /\ e.names = {<< NoPrefix, u >>}
    PROVE  /\ TreeOK(Push(m), Append(TagClosed(es), e))
           /\ Len(Append(TagClosed(es), e)) = Len(es) + 1
           /\ Append(TagClosed(es), e)[Len(es) + 1] = e
           /\ \A i \in 1..Len(es) : Append(TagClosed(es), e)[i] = TagClosed(es)[i]
<1> DEFINE g == Push(m)
           n == Len(es)
           fs == Append(TagClosed(es), e)
<1>1. n \in Nat /\ Len(m.stack) = n /\ es \in Seq(OpenElements)
  BY TreeFacts
<1>2. /\ g.prefix = m.prefix /\ g.fixed = m.fixed
      /\ Len(g.stack) = n + 1 /\ g.stack[n + 1] = {}
      /\ \A i \in 1..n : g.stack[i] = m.stack[i]
  BY <1>1, PushOK
<1>3. /\ TagClosed(es) \in Seq(OpenElements) /\ Len(TagClosed(es)) = n
      /\ SameText(es, TagClosed(es), n)
  BY <1>1, TagClosedSame
<1>4. /\ fs \in Seq(OpenElements) /\ Len(fs) = n + 1 /\ fs[n + 1] = e
      /\ \A i \in 1..n : fs[i] = TagClosed(es)[i]
  BY <1>3, AppendProperties
<1>5. \A i \in 1..(n + 1) : i = n + 1 \/ i \in 1..n
  BY <1>1
<1> HIDE DEF g, fs
<1>6. \A i \in 1..n : Declares(fs[i]) = Declares(es[i]) /\ fs[i].names = es[i].names
                         /\ fs[i].declares = es[i].declares
  BY <1>3, <1>4 DEF SameText, Declares
<1>7. /\ \A d \in Declares(e) : d[1] = NoPrefix
      /\ \A q \in e.names : q[1] = NoPrefix /\ q \in Declares(e)
      /\ Distinct(e.declares)
      /\ XmlDeclaration \notin Declares(e)
  <2>1. CASE e.declares = << >> /\ e.names = {}
    BY <2>1 DEF Declares, SeqRange, Distinct
  <2>2. CASE \E u \in URIs : /\ e.declares = << << NoPrefix, u >> >>
                           /\ e.names = {<< NoPrefix, u >>}
    <3>1. PICK u \in URIs : e.declares = << << NoPrefix, u >> >> /\ e.names = {<< NoPrefix, u >>}
      BY <2>2
    <3>2. /\ Declares(e) = {<< NoPrefix, u >>}
          /\ Distinct(e.declares)
      BY <3>1 DEF Declares, SeqRange, Distinct
    <3>3. << NoPrefix, u >>[1] # XmlDeclaration[1]
      BY NoPrefixIsNone DEF XmlDeclaration
    <3> QED
      BY <3>1, <3>2, <3>3
  <2> QED
    BY <2>1, <2>2
<1>8. \A i \in 1..n : \A q : Known(es, i, q) <=> Known(fs, i, q)
  <2> SUFFICES ASSUME NEW i \in 1..n, NEW q
               PROVE  Known(es, i, q) <=> Known(fs, i, q)
    OBVIOUS
  <2>1. \A j \in 1..i : Declares(fs[j]) = Declares(es[j])
    BY <1>1, <1>6
  <2> QED
    BY <1>6, <2>1 DEF Known
<1>9. \A i \in 1..n : \A d : Right(m, i, d) => Right(g, i, d)
  BY <1>2 DEF Right
<1>10. ASSUME NEW i \in 1..(n + 1)
       PROVE  /\ \A d \in Declares(fs[i]) : Right(g, i, d)
              /\ \A u \in g.stack[i] : << g.fixed[u], u >> \in Declares(fs[i])
              /\ \A q \in fs[i].names : Known(fs, i, q)
              /\ Distinct(fs[i].declares)
  <2>1. CASE i = n + 1
    BY <1>2, <1>4, <1>7, <2>1 DEF Right, Known
  <2>2. CASE i # n + 1
    BY <1>2, <1>5, <1>6, <1>8, <1>9, <2>2 DEF TreeOK
  <2> QED
    BY <2>1, <2>2
<1>11. \A i, j \in 1..(n + 1) :
          XmlDeclaration \in Declares(fs[i]) /\ XmlDeclaration \in Declares(fs[j]) => i = j
  BY <1>4, <1>5, <1>6, <1>7 DEF TreeOK
<1>12. TreeOK(g, fs)
  BY <1>1, <1>2, <1>4, <1>10, <1>11 DEF TreeOK
<1> QED
  BY <1>4, <1>12 DEF g, fs

(* A namespace is used in the innermost element: it is declared there if   *)
(* it is not in scope, and then no prefix is declared twice.               *)
LEMMA UseTree ==
    ASSUME NEW m, MapperOK(m), NEW es, TreeOK(m, es), Len(es) > 0,
           NEW u \in URIs, CanMap(m, u), NEW uses \in SUBSET Name(m, u),
           NEW fs \in Seq(OpenElements), Len(fs) = Len(es), SameText(es, fs, Len(es) - 1),
           fs[Len(es)].declares = es[Len(es)].declares \o Declaration(m, u),
           fs[Len(es)].names = es[Len(es)].names \cup uses
    PROVE  TreeOK(GetPrefix(m, u), fs)
<1> DEFINE g == GetPrefix(m, u)
           p == PrefixFor(m, u)
           n == Len(es)
           x == << p, u >>
<1>1. /\ n \in Nat /\ n \in 1..n /\ Len(m.stack) = n /\ es \in Seq(OpenElements)
      /\ \A i \in 1..n : es[i].declares \in Seq(Pairs)
  <2>1. /\ n \in Nat /\ Len(m.stack) = n /\ es \in Seq(OpenElements)
        /\ \A i \in 1..n : es[i].declares \in Seq(Pairs)
    BY TreeFacts
  <2> QED
    BY <2>1
<1>2. /\ MapperOK(g) /\ Len(g.stack) = n /\ g.reserved = m.reserved
      /\ p \in Prefixes /\ u \in DOMAIN g.prefix
      /\ \A v \in DOMAIN m.fixed : v \in DOMAIN g.fixed /\ g.fixed[v] = m.fixed[v]
      /\ \A i \in 1..(n - 1) : g.stack[i] = m.stack[i]
      /\ IsMapped(m, u) => g = m
      /\ IsMapped(m, u) /\ u # XmlURI => u \in DOMAIN m.fixed /\ p = m.fixed[u]
      /\ u = XmlURI => p = XmlPrefix /\ g.stack[n] = m.stack[n]
      /\ ~IsMapped(m, u) /\ u # XmlURI =>
            /\ u \in DOMAIN g.fixed /\ p = g.fixed[u]
            /\ g.stack[n] = m.stack[n] \cup {u}
            /\ \A i \in 1..n : u \notin m.stack[i]
  BY <1>1, GetPrefixOK
<1>3. /\ u # NoURI /\ p # NoPrefix
      /\ uses \subseteq {x}
      /\ Declaration(m, u) = IF IsMapped(m, u) THEN << >> ELSE << x >>
  BY <1>2, NoPrefixIsNone DEF Name, Declaration
<1>4. x \in Pairs /\ x[1] = p /\ x[2] = u
  BY <1>2 DEF Pairs
<1> HIDE DEF g, p, x, n
<1>5. \A i \in 1..n : i # n => /\ Declares(fs[i]) = Declares(es[i]) /\ fs[i].names = es[i].names
                                 /\ fs[i].declares = es[i].declares
  <2>1. \A i \in 1..n : i # n => i \in 1..(n - 1)
    BY <1>1
  <2> QED
    BY <2>1 DEF SameText, Declares, n
<1>6. fs[n].names \subseteq es[n].names \cup {x} /\ Len(fs) = n
  BY <1>3 DEF n
<1>7. \A i \in 1..n :
         /\ \A d \in Declares(es[i]) : Right(m, i, d)
         /\ \A v \in m.stack[i] : << m.fixed[v], v >> \in Declares(es[i])
         /\ \A q \in es[i].names : Known(es, i, q)
         /\ Distinct(es[i].declares)
         /\ \A v \in m.stack[i] : v \in DOMAIN m.fixed /\ v \in DOMAIN m.prefix /\ v # XmlURI
  BY <1>1, TreeFacts DEF TreeOK, n
<1>8. \A i, j \in 1..n :
         XmlDeclaration \in Declares(es[i]) /\ XmlDeclaration \in Declares(es[j]) => i = j
  BY DEF TreeOK, n
<1>9. SUFFICES
         /\ \A i \in 1..n : Declares(es[i]) \subseteq Declares(fs[i])
         /\ \A d \in Declares(fs[n]) : Right(g, n, d)
         /\ \A i \in 1..n : \A d \in Declares(es[i]) : Right(g, i, d)
         /\ \A v \in g.stack[n] : << g.fixed[v], v >> \in Declares(fs[n])
         /\ Distinct(fs[n].declares)
         /\ x = XmlDeclaration \/ \E j \in 1..n : x \in Declares(fs[j])
         /\ \A i, j \in 1..n :
               XmlDeclaration \in Declares(fs[i]) /\ XmlDeclaration \in Declares(fs[j]) => i = j
  <2>1. \A i \in 1..n : \A q : Known(es, i, q) => Known(fs, i, q)
    <3> SUFFICES ASSUME NEW i \in 1..n, NEW q, Known(es, i, q) PROVE Known(fs, i, q)
      OBVIOUS
    <3>1. \A j \in 1..i : j \in 1..n
      BY <1>1
    <3> QED
      BY <1>9, <3>1 DEF Known
  <2>2. Known(fs, n, x)
    BY <1>3, <1>4, <1>9 DEF Known
  <2>3. ASSUME NEW i \in 1..n
        PROVE  /\ \A d \in Declares(fs[i]) : Right(g, i, d)
               /\ \A v \in g.stack[i] : << g.fixed[v], v >> \in Declares(fs[i])
               /\ \A q \in fs[i].names : Known(fs, i, q)
               /\ Distinct(fs[i].declares)
    <3>1. CASE i = n
      BY <1>6, <1>7, <1>9, <2>1, <2>2, <3>1
    <3>2. CASE i # n
      <4>1. g.stack[i] = m.stack[i]
        BY <1>1, <1>2, <3>2
      <4>2. \A v \in g.stack[i] : << g.fixed[v], v >> \in Declares(fs[i])
        BY <1>2, <1>5, <1>7, <3>2, <4>1
      <4> QED
        BY <1>5, <1>7, <1>9, <2>1, <3>2, <4>2
    <3> QED
      BY <3>1, <3>2
  <2> QED
    BY <1>2, <1>6, <1>9, <2>3 DEF TreeOK, g
<1>10. CASE IsMapped(m, u)
  <2>1. g = m /\ fs[n].declares = es[n].declares /\ Declares(fs[n]) = Declares(es[n])
    BY <1>1, <1>2, <1>3, <1>10, NothingMore DEF n, Declares
  <2>2. \A i \in 1..n : Declares(fs[i]) = Declares(es[i])
    BY <1>5, <2>1
  <2>3. x = XmlDeclaration \/ \E j \in 1..n : x \in Declares(fs[j])
    <3>1. CASE u = XmlURI
      BY <1>2, <3>1 DEF x, XmlDeclaration
    <3>2. CASE u # XmlURI
      <4>1. \E j \in 1..n : u \in m.stack[j]
        BY <1>1, <1>10, <3>2 DEF IsMapped, MapperOK, DepthsOK
      <4>2. x = << m.fixed[u], u >>
        BY <1>2, <1>10, <3>2 DEF x
      <4> QED
        BY <1>7, <2>2, <4>1, <4>2
    <3> QED
      BY <3>1, <3>2
  <2> QED
    BY <1>1, <1>7, <1>8, <2>1, <2>2, <2>3
<1>11. CASE ~IsMapped(m, u)
  <2>1. /\ fs[n].declares = es[n].declares \o << x >>
        /\ Declares(fs[n]) = Declares(es[n]) \cup {x}
        /\ (\A y \in Declares(es[n]) : y[1] # p) => Distinct(fs[n].declares)
    <3>1. fs[n].declares = es[n].declares \o << x >> /\ es[n].declares \in Seq(Pairs)
      BY <1>1, <1>3, <1>11 DEF n
    <3> DEFINE ds == es[n].declares
    <3>2. Distinct(ds) /\ ds \in Seq(Pairs)
      BY <1>1, <1>7
    <3> HIDE DEF ds
    <3>3. /\ SeqRange(ds \o << x >>) = SeqRange(ds) \cup {x}
          /\ (\A y \in SeqRange(ds) : y[1] # x[1]) => Distinct(ds \o << x >>)
      BY <1>4, <3>2, OneMore
    <3> QED
      BY <1>4, <3>1, <3>3 DEF Declares, ds
  <2>2. \A i \in 1..n : Declares(es[i]) \subseteq Declares(fs[i])
    BY <1>5, <2>1
  <2>3. DOMAIN g.prefix # {}
    BY <1>2
  <2>4. \A i \in 1..n : m.stack[i] \subseteq g.stack[i]
    BY <1>1, <1>2, <1>11
  <2>5. \A i \in 1..n : \A d \in Declares(es[i]) : Right(g, i, d)
    <3> SUFFICES ASSUME NEW i \in 1..n, NEW d \in Declares(es[i]) PROVE Right(g, i, d)
      OBVIOUS
    <3>1. Right(m, i, d)
      BY <1>7
    <3>2. d[2] \in m.stack[i] => g.fixed[d[2]] = m.fixed[d[2]]
      BY <1>2, <1>7
    <3> QED
      BY <2>3, <2>4, <3>1, <3>2 DEF Right
  <2>6. x \in Declares(fs[n])
    BY <2>1
  <2>7. CASE u = XmlURI
    <3>1. x = XmlDeclaration /\ p = XmlPrefix /\ g.stack[n] = m.stack[n]
      BY <1>2, <2>7 DEF x, XmlDeclaration
    <3>2. DOMAIN m.prefix = {}
      BY <1>11, <2>7 DEF IsMapped, MapperOK, ScopeOK
    <3>3. \A i \in 1..n : \A d \in Declares(es[i]) : d[1] = NoPrefix
      BY <1>7, <3>2 DEF Right
    <3>4. Distinct(fs[n].declares)
      BY <1>1, <1>3, <2>1, <3>3
    <3>5. \A i \in 1..n : XmlDeclaration \in Declares(fs[i]) => i = n
      <4>1. XmlDeclaration[1] # NoPrefix
        BY NoPrefixIsNone DEF XmlDeclaration
      <4> QED
        BY <1>5, <3>3, <4>1
    <3>6. \A v \in g.stack[n] : << g.fixed[v], v >> \in Declares(fs[n])
      BY <1>1, <1>2, <1>7, <2>2, <3>1
    <3>7. Right(g, n, x)
      BY <2>3, <3>1 DEF Right
    <3> QED
      BY <1>1, <2>1, <2>2, <2>5, <2>6, <3>4, <3>5, <3>6, <3>7
  <2>8. CASE u # XmlURI
    <3>1. /\ u \in DOMAIN g.fixed /\ p = g.fixed[u] /\ g.stack[n] = m.stack[n] \cup {u}
          /\ u \notin m.stack[n]
      BY <1>1, <1>2, <1>11, <2>8
    <3>2. x = << g.fixed[u], u >> /\ p # XmlPrefix /\ x # XmlDeclaration
      BY <1>2, <3>1 DEF x, MapperOK, GivenOK, XmlDeclaration
    <3>3. ASSUME NEW y \in Declares(es[n]), y[1] = p PROVE FALSE
      <4>1. Right(m, n, y)
        BY <1>1, <1>7
      <4>2. y[1] # NoPrefix /\ y # XmlDeclaration
        BY <1>3, <3>2, <3>3 DEF XmlDeclaration
      <4>3. y[2] \in m.stack[n] /\ y = << m.fixed[y[2]], y[2] >>
        BY <4>1, <4>2 DEF Right
      <4>4. y[1] = m.fixed[y[2]]
        BY <4>3
      <4>5. y[2] \in DOMAIN g.fixed /\ g.fixed[y[2]] = p
        BY <1>1, <1>2, <1>7, <3>3, <4>3, <4>4
      <4>6. y[2] = u
        BY <1>2, <3>1, <4>5 DEF MapperOK, GivenOK
      <4> QED
        BY <3>1, <4>3, <4>6
    <3>4. Distinct(fs[n].declares)
      BY <2>1, <3>3
    <3>5. Right(g, n, x)
      BY <1>4, <3>1, <3>2 DEF Right
    <3>6. \A v \in g.stack[n] : << g.fixed[v], v >> \in Declares(fs[n])
      <4>1. \A v \in m.stack[n] : << g.fixed[v], v >> \in Declares(es[n])
        BY <1>1, <1>2, <1>7
      <4> QED
        BY <2>1, <3>1, <3>2, <4>1
    <3>7. \A i, j \in 1..n :
             XmlDeclaration \in Declares(fs[i]) /\ XmlDeclaration \in Declares(fs[j]) => i = j
      <4>1. \A i \in 1..n : XmlDeclaration \in Declares(fs[i]) => XmlDeclaration \in Declares(es[i])
        <5> SUFFICES ASSUME NEW i \in 1..n, XmlDeclaration \in Declares(fs[i])
                     PROVE  XmlDeclaration \in Declares(es[i])
          OBVIOUS
        <5>1. CASE i = n
          BY <2>1, <3>2, <5>1
        <5>2. CASE i # n
          BY <1>5, <5>2
        <5> QED
          BY <5>1, <5>2
      <4> QED
        BY <1>8, <4>1
    <3> QED
      BY <1>1, <2>1, <2>2, <2>5, <2>6, <3>4, <3>5, <3>6, <3>7
  <2> QED
    BY <2>7, <2>8
<1> QED
  BY <1>10, <1>11

-----------------------------------------------------------------------------
(* The document.                                                           *)

(* What was declared in the document so far: the prefixes given.           *)
DeclaredOK(m, ds) ==
    \A d \in ds : d = XmlDeclaration \/ (d[2] \in DOMAIN m.fixed /\ d = << m.fixed[d[2]], d[2] >>)

LEMMA DeclaredGrows ==
    ASSUME NEW m, MapperOK(m), Len(m.stack) > 0, NEW u \in URIs, CanMap(m, u),
           NEW ds, DeclaredOK(m, ds)
    PROVE  DeclaredOK(GetPrefix(m, u), ds \cup SeqRange(Declaration(m, u)))
<1> DEFINE g == GetPrefix(m, u)
           p == PrefixFor(m, u)
           x == << p, u >>
<1>1. /\ \A v \in DOMAIN m.fixed : v \in DOMAIN g.fixed /\ g.fixed[v] = m.fixed[v]
      /\ u = XmlURI => p = XmlPrefix
      /\ ~IsMapped(m, u) /\ u # XmlURI => u \in DOMAIN g.fixed /\ p = g.fixed[u]
  BY GetPrefixOK
<1> HIDE DEF g, p
<1>2. \A d \in SeqRange(Declaration(m, u)) : ~IsMapped(m, u) /\ d = x
  BY DEF Declaration, SeqRange, p
<1>3. ASSUME NEW d \in ds
      PROVE  d = XmlDeclaration \/ (d[2] \in DOMAIN g.fixed /\ d = << g.fixed[d[2]], d[2] >>)
  <2>1. d = XmlDeclaration \/ (d[2] \in DOMAIN m.fixed /\ d = << m.fixed[d[2]], d[2] >>)
    BY DEF DeclaredOK
  <2> QED
    BY <1>1, <2>1
<1>4. ASSUME NEW d \in SeqRange(Declaration(m, u))
      PROVE  d = XmlDeclaration \/ (d[2] \in DOMAIN g.fixed /\ d = << g.fixed[d[2]], d[2] >>)
  <2>1. CASE u = XmlURI
    BY <1>1, <1>2, <2>1 DEF XmlDeclaration
  <2>2. CASE u # XmlURI
    <3>1. d = << p, u >> /\ d[2] = u /\ u \in DOMAIN g.fixed /\ p = g.fixed[u]
      BY <1>1, <1>2, <2>2
    <3> QED
      BY <3>1
  <2> QED
    BY <2>1, <2>2
<1> QED
  BY <1>3, <1>4 DEF DeclaredOK, g

LEMMA OneForOne ==
    ASSUME NEW m, MapperOK(m), NEW ds, DeclaredOK(m, ds)
    PROVE  \A d, e \in ds : d[1] = e[1] <=> d[2] = e[2]
<1> SUFFICES ASSUME NEW d \in ds, NEW e \in ds
             PROVE  d[1] = e[1] <=> d[2] = e[2]
  OBVIOUS
<1>1. \A c \in {d, e} : \/ c[1] = XmlPrefix /\ c[2] = XmlURI
                        \/ c[2] \in DOMAIN m.fixed /\ c[1] = m.fixed[c[2]]
  BY DEF DeclaredOK, XmlDeclaration
<1> QED
  BY <1>1 DEF MapperOK, GivenOK

(* An attribute or declaration is added to a start tag that is open.       *)
LEMMA WithAttributeText ==
    ASSUME NEW es \in Seq(OpenElements), Len(es) > 0, es[Len(es)].tagOpen,
           NEW uses \in SUBSET Pairs, NEW d \in Seq(Pairs)
    PROVE  LET fs == WithAttribute(es, uses, d)
               n  == Len(es)
           IN  /\ fs \in Seq(OpenElements) /\ Len(fs) = n /\ SameText(es, fs, n - 1)
               /\ fs[n].declares = es[n].declares \o d
               /\ fs[n].names = es[n].names \cup uses
               /\ fs[n].tagOpen
<1> DEFINE n == Len(es)
           e == [es[n] EXCEPT !.names = @ \cup uses, !.declares = @ \o d]
           fs == WithAttribute(es, uses, d)
<1>1. n \in Nat /\ n \in 1..n /\ es # << >>
  BY EmptySeq
<1>2. es[n] \in OpenElements
  BY <1>1
<1>3. es[n].declares \o d \in Seq(Pairs) /\ es[n].names \cup uses \in SUBSET Pairs
  BY <1>2, ConcatProperties DEF OpenElements
<1>4. /\ e \in OpenElements /\ e.declares = es[n].declares \o d
      /\ e.names = es[n].names \cup uses /\ e.tagOpen
  BY <1>2, <1>3 DEF OpenElements
<1>5. fs = [es EXCEPT ![n] = e]
  BY <1>1, <1>2 DEF WithAttribute, OpenElements
<1> HIDE DEF e, fs, n
<1>6. /\ fs \in Seq(OpenElements) /\ Len(fs) = n /\ fs[n] = e
      /\ \A i \in 1..(n - 1) : fs[i] = es[i]
  BY <1>1, <1>4, <1>5 DEF n
<1> QED
  BY <1>4, <1>6 DEF SameText, fs, n

LEMMA NothingAdded ==
    ASSUME NEW es \in Seq(OpenElements)
    PROVE  WithAttribute(es, {}, << >>) = es
<1>1. CASE es # << >> /\ es[Len(es)].tagOpen
  <2> DEFINE n == Len(es)
             e == [es[n] EXCEPT !.names = @ \cup {}, !.declares = @ \o << >>]
  <2>1. n \in Nat /\ n \in 1..n
    BY <1>1, EmptySeq
  <2>2. es[n] \in OpenElements
    BY <2>1
  <2>3. es[n].declares \o << >> = es[n].declares /\ es[n].names \cup {} = es[n].names
    BY <2>2, NothingMore DEF OpenElements
  <2>4. e = es[n]
    BY <2>2, <2>3 DEF OpenElements
  <2>5. WithAttribute(es, {}, << >>) = [es EXCEPT ![n] = e]
    BY <1>1, <2>2 DEF WithAttribute, OpenElements
  <2> HIDE DEF e, n
  <2> QED
    BY <2>1, <2>4, <2>5
<1>2. CASE ~ (es # << >> /\ es[Len(es)].tagOpen)
  BY <1>2 DEF WithAttribute
<1> QED
  BY <1>1, <1>2

LEMMA NameTypes ==
    ASSUME NEW m, MapperOK(m), Len(m.stack) > 0,
           NEW u \in URIs \cup {NoURI}, WithinBounds(m, u)
    PROVE  Name(m, u) \in SUBSET Pairs /\ Declaration(m, u) \in Seq(Pairs)
<1>1. CASE u = NoURI
  BY <1>1 DEF Name, Declaration
<1>2. CASE u # NoURI
  <2>1. PrefixFor(m, u) \in Prefixes
    BY <1>2, GetPrefixOK DEF WithinBounds
  <2>2. << PrefixFor(m, u), u >> \in Pairs
    BY <1>2, <2>1 DEF Pairs
  <2> QED
    BY <2>2 DEF Name, Declaration
<1> QED
  BY <1>1, <1>2

(* A namespace, or none, is used in the innermost element.                 *)
LEMMA Used ==
    ASSUME NEW m, MapperOK(m), NEW es, TreeOK(m, es), Len(es) > 0,
           NEW u \in URIs \cup {NoURI}, WithinBounds(m, u), NEW uses \in SUBSET Name(m, u),
           NEW fs \in Seq(OpenElements), Len(fs) = Len(es), SameText(es, fs, Len(es) - 1),
           fs[Len(es)].declares = es[Len(es)].declares \o Declaration(m, u),
           fs[Len(es)].names = es[Len(es)].names \cup uses,
           NEW ds, DeclaredOK(m, ds)
    PROVE  /\ MapperOK(Mapped(m, u)) /\ TreeOK(Mapped(m, u), fs)
           /\ DeclaredOK(Mapped(m, u), ds \cup SeqRange(Declaration(m, u)))
<1>1. Len(m.stack) = Len(es) /\ Len(es) \in Nat /\ es \in Seq(OpenElements)
  BY TreeFacts
<1>2. CASE u = NoURI
  <2>1. /\ Mapped(m, u) = m /\ Declaration(m, u) = << >> /\ uses = {}
        /\ SeqRange(Declaration(m, u)) = {}
    BY <1>2 DEF Mapped, Declaration, Name, SeqRange
  <2> DEFINE n == Len(es)
  <2>2. n \in 1..n /\ es[n].declares \in Seq(Pairs)
    BY <1>1, TreeFacts
  <2>3. fs[n].declares = es[n].declares /\ fs[n].names = es[n].names
    BY <2>1, <2>2, NothingMore
  <2>4. \A i \in 1..n : i = n \/ i \in 1..(n - 1)
    BY <1>1
  <2>5. SameText(es, fs, n)
    <3> HIDE DEF n
    <3> QED BY <2>3, <2>4 DEF SameText, n
  <2> QED
    BY <2>1, <2>5, SameTree
<1>3. CASE u # NoURI
  <2>1. u \in URIs /\ CanMap(m, u) /\ Mapped(m, u) = GetPrefix(m, u)
    BY <1>3 DEF Mapped, WithinBounds
  <2>2. MapperOK(GetPrefix(m, u))
    BY <1>1, <2>1, GetPrefixOK
  <2>3. TreeOK(GetPrefix(m, u), fs)
    BY <2>1, UseTree
  <2>4. DeclaredOK(GetPrefix(m, u), ds \cup SeqRange(Declaration(m, u)))
    BY <1>1, <2>1, DeclaredGrows
  <2> QED
    BY <2>1, <2>2, <2>3, <2>4
<1> QED
  BY <1>2, <1>3

(* An element is opened with a name in a namespace, or in none.            *)
LEMMA Opened ==
    ASSUME NEW m, MapperOK(m), NEW es, TreeOK(m, es),
           NEW u \in URIs \cup {NoURI}, WithinBounds(Push(m), u),
           NEW ds, DeclaredOK(m, ds)
    PROVE  LET k  == Push(m)
               d  == Declaration(k, u)
               fs == Append(TagClosed(es), Element(Name(k, u), d))
           IN  /\ MapperOK(Mapped(k, u)) /\ TreeOK(Mapped(k, u), fs)
               /\ DeclaredOK(Mapped(k, u), ds \cup SeqRange(d))
               /\ Len(fs) = Len(es) + 1 /\ fs # << >> /\ fs[Len(fs)].tagOpen
               /\ SameText(fs, TagClosed(es), Len(es))
<1> DEFINE k  == Push(m)
           d  == Declaration(k, u)
           uses == Name(k, u)
           n  == Len(es)
           ts == TagClosed(es)
           fs == Append(ts, Element(uses, d))
           gs == Append(ts, Element({}, << >>))
<1>1. /\ n \in Nat /\ es \in Seq(OpenElements) /\ Len(m.stack) = n
      /\ ts \in Seq(OpenElements) /\ Len(ts) = n
  BY TreeFacts, TagClosedSame
<1>2. /\ MapperOK(k) /\ k.fixed = m.fixed /\ Len(k.stack) = n + 1 /\ Len(k.stack) > 0
  BY <1>1, PushOK
<1> HIDE DEF k
<1>3. uses \in SUBSET Pairs /\ d \in Seq(Pairs) /\ << >> \in Seq(Pairs) /\ {} \in SUBSET Pairs
  BY <1>2, NameTypes DEF k
<1>4. DeclaredOK(k, ds)
  BY <1>2 DEF DeclaredOK
<1> HIDE DEF uses, d, ts
<1> DEFINE e == Element({}, << >>)
           f == Element(uses, d)
<1>5. /\ e \in OpenElements /\ e.declares = << >> /\ e.names = {}
      /\ f \in OpenElements /\ f.declares = d /\ f.names = uses /\ f.tagOpen
  BY <1>3 DEF Element, OpenElements
<1> HIDE DEF e, f
<1>6. /\ fs \in Seq(OpenElements) /\ Len(fs) = n + 1 /\ fs[n + 1] = f
      /\ \A i \in 1..n : fs[i] = ts[i]
  <2>1. /\ Append(ts, f) \in Seq(OpenElements) /\ Len(Append(ts, f)) = n + 1
        /\ Append(ts, f)[n + 1] = f
        /\ \A i \in 1..n : Append(ts, f)[i] = ts[i]
    BY <1>1, <1>5, AppendProperties
  <2> QED
    BY <2>1 DEF f
<1>7. /\ TreeOK(k, gs) /\ Len(gs) = n + 1 /\ gs[n + 1] = e
      /\ \A i \in 1..n : gs[i] = ts[i]
  <2>1. /\ TreeOK(Push(m), Append(TagClosed(es), e)) /\ Len(Append(TagClosed(es), e)) = n + 1
        /\ Append(TagClosed(es), e)[n + 1] = e
        /\ \A i \in 1..n : Append(TagClosed(es), e)[i] = TagClosed(es)[i]
    BY <1>5, PushTree
  <2> QED
    BY <2>1 DEF e, k, ts
<1> HIDE DEF fs, gs
<1>8. /\ SameText(gs, fs, n) /\ SameText(fs, ts, n)
  BY <1>6, <1>7 DEF SameText
<1>9. /\ n + 1 - 1 = n /\ n + 1 > 0
  BY <1>1
<1>10. << >> \o d = d /\ {} \cup uses = uses
  BY <1>3, ConcatEmptySeq
<1>11. /\ fs[Len(gs)].declares = gs[Len(gs)].declares \o d
       /\ fs[Len(gs)].names = gs[Len(gs)].names \cup uses
       /\ Len(fs) = Len(gs) /\ SameText(gs, fs, Len(gs) - 1) /\ Len(gs) > 0
  <2>1. /\ fs[n + 1].declares = gs[n + 1].declares \o d
        /\ fs[n + 1].names = gs[n + 1].names \cup uses
    BY <1>5, <1>6, <1>7, <1>10
  <2>2. Len(fs) = n + 1 /\ Len(gs) = n + 1 /\ SameText(gs, fs, (n + 1) - 1) /\ n + 1 > 0
    BY <1>6, <1>7, <1>8, <1>9
  <2> QED
    BY <2>1, <2>2
<1>12. WithinBounds(k, u) /\ uses \in SUBSET Name(k, u)
  BY DEF k, uses
<1>13. /\ MapperOK(Mapped(k, u)) /\ TreeOK(Mapped(k, u), fs)
       /\ DeclaredOK(Mapped(k, u), ds \cup SeqRange(d))
  BY <1>2, <1>4, <1>6, <1>7, <1>11, <1>12, Used DEF d
<1>14. fs # << >> /\ fs[Len(fs)].tagOpen
  BY <1>5, <1>6, <1>9, EmptySeq
<1> QED
  BY <1>6, <1>8, <1>13, <1>14 DEF k, d, uses, fs, ts, f

(* A prefix is bound before anything is written. *)
LEMMA AssociateOK ==
    ASSUME NEW m, MapperOK(m), DOMAIN m.prefix \subseteq {XmlURI}, Len(m.stack) = 0,
           NEW u \in URIs \ {XmlURI}, NEW p \in Prefixes \ {XmlPrefix},
           \A v \in DOMAIN m.fixed : m.fixed[v] # p
    PROVE  LET g == AssociatePrefix(m, u, p)
           IN  MapperOK(g) /\ Len(g.stack) = 0 /\ DOMAIN g.prefix \subseteq {XmlURI}
<1> DEFINE a == AllocateMapsIfNull(m)
           f == Extend(a.fixed, u, p)
           g == AssociatePrefix(m, u, p)
<1>1. /\ MapperOK(a) /\ a \in Mappers
      /\ a.stack = m.stack /\ a.fixed = m.fixed
      /\ a.reserved = m.reserved /\ a.counter = m.counter
      /\ DOMAIN a.prefix = DOMAIN m.prefix \cup {XmlURI}
  BY Allocated DEF MapperOK
<1>2. g = [a EXCEPT !.fixed = f, !.reserved = @ \cup {p}]
  BY DEF AssociatePrefix
<1> HIDE DEF a, g
<1>3. /\ f \in PartialMaps /\ DOMAIN f = DOMAIN a.fixed \cup {u} /\ f[u] = p
      /\ \A v \in DOMAIN a.fixed : v # u => f[v] = a.fixed[v]
  <2>1. a.fixed \in PartialMaps /\ u \in URIs /\ p \in Prefixes
    BY <1>1 DEF Mappers
  <2>2. \A q \in Prefixes :
           /\ Extend(a.fixed, u, q) \in PartialMaps
           /\ DOMAIN Extend(a.fixed, u, q) = DOMAIN a.fixed \cup {u}
           /\ Extend(a.fixed, u, q)[u] = q
           /\ \A v \in DOMAIN a.fixed : v # u => Extend(a.fixed, u, q)[v] = a.fixed[v]
    BY <2>1, MapExtended
  <2> QED
    BY <2>1, <2>2
<1> HIDE DEF f
<1>4. /\ g \in Mappers /\ g.fixed = f /\ g.reserved = a.reserved \cup {p}
      /\ g.stack = a.stack /\ g.prefix = a.prefix /\ g.counter = a.counter
  BY <1>1, <1>2, <1>3 DEF Mappers
<1>5. GivenOK(g)
  BY <1>1, <1>3, <1>4 DEF MapperOK, GivenOK, Spent
<1>6. ScopeOK(g) /\ DepthsOK(g)
  BY <1>1, <1>4 DEF MapperOK, ScopeOK, DepthsOK
<1> QED
  BY <1>1, <1>4, <1>5, <1>6 DEF MapperOK, g

(* The innermost of the elements with a property. *)
LEMMA InnermostExists ==
    ASSUME NEW i \in Nat, NEW S \in SUBSET (1..i), S # {}
    PROVE  \E j \in S : \A k \in S : k <= j
<1> DEFINE T == {i - j : j \in S}
<1>1. T \in SUBSET Nat /\ T # {}
  OBVIOUS
<1>2. PICK n \in T : \A k \in T : n <= k
  <2> HIDE DEF T
  <2> QED BY <1>1, LeastExists
<1>3. PICK j \in S : n = i - j
  BY <1>2
<1>4. \A k \in S : i - j <= i - k
  BY <1>2, <1>3
<1> QED
  BY <1>3, <1>4

-----------------------------------------------------------------------------
(* The invariant.                                                          *)

(* While an attribute may be added, the start tag is open.                 *)
Timely ==
    /\ ~dropped
    /\ document = "open" /\ attributeOk => elements # << >> /\ elements[Top].tagOpen

(* What was declared is what the mapper gave. *)
Consistent ==
    /\ OnePrefixPerNamespace
    /\ document = "open" => DeclaredOK(mapper, declared)

(* Before anything is written no prefix is in scope but "xml".             *)
Fresh ==
    document = "open" /\ ~started =>
        /\ elements = << >> /\ declared = {} /\ ~attributeOk
        /\ DOMAIN mapper.prefix \subseteq {XmlURI}

Sound == MapperOK(mapper) /\ TreeOK(mapper, elements) /\ Timely /\ Consistent /\ Fresh

LEMMA EmptyTree == MapperOK(NewMapper) /\ TreeOK(NewMapper, << >>)
<1>1. NewMapper.stack = << >>
  BY DEF NewMapper
<1> QED
  BY <1>1, NewMapperOK DEF TreeOK

LEMMA Initially == Init => Sound
<1> SUFFICES ASSUME Init PROVE Sound
  OBVIOUS
<1> QED
  BY EmptyTree DEF Init, Sound, Timely, Consistent, OnePrefixPerNamespace, Fresh

LEMMA StartDocumentSound ==
    ASSUME Sound, NEW known \in BOOLEAN, NEW converts \in BOOLEAN, StartDocument(known, converts)
    PROVE  Sound'
<1>1. /\ mapper' = NewMapper /\ elements' = << >> /\ ~attributeOk' /\ ~dropped'
      /\ declared' = {} /\ DOMAIN NewMapper.prefix = {}
  BY EmptyMap DEF StartDocument, NewMapper
<1>2. MapperOK(mapper') /\ TreeOK(mapper', elements')
  BY <1>1, EmptyTree
<1>3. Timely' /\ Consistent' /\ Fresh'
  BY <1>1 DEF Timely, Consistent, OnePrefixPerNamespace, DeclaredOK, Fresh
<1> QED
  BY <1>2, <1>3 DEF Sound

LEMMA EndDocumentSound ==
    ASSUME Sound, EndDocument PROVE Sound'
<1>1. /\ mapper' = NewMapper /\ elements' = << >> /\ ~dropped' /\ document' # "open"
      /\ declared' = declared
  BY DEF EndDocument, Sound, Timely
<1>2. MapperOK(mapper') /\ TreeOK(mapper', elements')
  BY <1>1, EmptyTree
<1>3. Timely' /\ Consistent' /\ Fresh'
  BY <1>1 DEF Sound, Timely, Consistent, OnePrefixPerNamespace, Fresh
<1> QED
  BY <1>2, <1>3 DEF Sound

(* What an operation that writes has to leave behind.                      *)
LEMMA Written ==
    ASSUME Sound, document = "open", document' = "open",
           MapperOK(mapper'), TreeOK(mapper', elements'), ~dropped',
           attributeOk' => elements' # << >> /\ elements'[Len(elements')].tagOpen,
           DeclaredOK(mapper', declared'),
           started'
    PROVE  Sound'
<1>1. OnePrefixPerNamespace'
  BY OneForOne DEF OnePrefixPerNamespace
<1> QED
  BY <1>1 DEF Sound, Timely, Consistent, Fresh, Top

LEMMA StartElementSound ==
    ASSUME Sound, NEW u \in URIs \cup {NoURI}, StartElement(u)
    PROVE  Sound'
<1> DEFINE k == Push(mapper)
           d == Declaration(k, u)
           fs == Append(TagClosed(elements), Element(Name(k, u), d))
<1>1. /\ MapperOK(mapper) /\ TreeOK(mapper, elements) /\ ~dropped /\ document = "open"
      /\ DeclaredOK(mapper, declared) /\ WithinBounds(k, u)
  BY DEF Sound, Timely, Consistent, StartElement
<1>2. /\ mapper' = Mapped(k, u) /\ elements' = fs /\ declared' = declared \cup SeqRange(d)
      /\ started' /\ ~dropped' /\ document' = "open"
  BY <1>1 DEF StartElement
<1> HIDE DEF k, d, fs
<1>3. /\ MapperOK(Mapped(k, u)) /\ TreeOK(Mapped(k, u), fs)
      /\ DeclaredOK(Mapped(k, u), declared \cup SeqRange(d))
      /\ fs # << >> /\ fs[Len(fs)].tagOpen
  BY <1>1, Opened DEF k, d, fs
<1> QED
  BY <1>1, <1>2, <1>3, Written

LEMMA StartElementDefaultNamespaceSound ==
    ASSUME Sound, NEW u \in URIs, StartElementDefaultNamespace(u)
    PROVE  Sound'
<1> DEFINE e == Element({<< NoPrefix, u >>}, << << NoPrefix, u >> >>)
           fs == Append(TagClosed(elements), e)
<1>1. /\ MapperOK(mapper) /\ TreeOK(mapper, elements) /\ ~dropped /\ document = "open"
      /\ DeclaredOK(mapper, declared) /\ Len(elements) \in Nat
  BY TreeFacts DEF Sound, Timely, Consistent, StartElementDefaultNamespace
<1>2. /\ mapper' = Push(mapper) /\ elements' = fs /\ declared' = declared
      /\ started' /\ ~dropped' /\ document' = "open"
  BY <1>1 DEF StartElementDefaultNamespace
<1>3. /\ e \in OpenElements /\ e.declares = << << NoPrefix, u >> >>
      /\ e.names = {<< NoPrefix, u >>} /\ e.tagOpen
  <2>1. << NoPrefix, u >> \in Pairs
    BY DEF Pairs
  <2> QED
    BY <2>1 DEF Element, OpenElements
<1> HIDE DEF e
<1>4. /\ TreeOK(Push(mapper), fs) /\ Len(fs) = Len(elements) + 1 /\ fs[Len(elements) + 1] = e
  BY <1>1, <1>3, PushTree
<1>5. MapperOK(Push(mapper)) /\ DeclaredOK(Push(mapper), declared)
  BY <1>1, PushOK DEF DeclaredOK
<1> HIDE DEF fs
<1>6. fs # << >> /\ fs[Len(fs)].tagOpen
  BY <1>1, <1>3, <1>4, EmptySeq
<1> QED
  BY <1>1, <1>2, <1>4, <1>5, <1>6, Written

(* The innermost element is left out. *)
LEMMA Shorter ==
    ASSUME NEW es \in Seq(OpenElements), Len(es) > 0
    PROVE  LET fs == SubSeq(es, 1, Len(es) - 1)
           IN  /\ fs \in Seq(OpenElements) /\ Len(fs) = Len(es) - 1
               /\ SameText(es, fs, Len(fs))
<1> DEFINE n == Len(es)
           k == n - 1
           fs == SubSeq(es, 1, k)
<1>1. n \in Nat /\ k \in Nat /\ \A i \in 1..k : es[i] \in OpenElements
  OBVIOUS
<1>2. /\ fs \in Seq(OpenElements)
      /\ Len(fs) = IF 1 <= k THEN k - 1 + 1 ELSE 0
      /\ \A i \in 1..(k - 1 + 1) : fs[i] = es[1 + i - 1]
  <2> HIDE DEF k, n
  <2> QED BY <1>1, SubSeqProperties
<1> HIDE DEF n, fs
<1>3. /\ \A i \in 1..k : i \in 1..(k - 1 + 1) /\ 1 + i - 1 = i
      /\ (IF 1 <= k THEN k - 1 + 1 ELSE 0) = k
  BY <1>1
<1>4. Len(fs) = k /\ \A i \in 1..k : fs[i] = es[i]
  <2> HIDE DEF k
  <2> QED BY <1>2, <1>3
<1> QED
  BY <1>2, <1>4 DEF SameText, fs, n

LEMMA EndElementSound ==
    ASSUME Sound, EndElement PROVE Sound'
<1> DEFINE fs == SubSeq(elements, 1, Top - 1)
<1>1. /\ MapperOK(mapper) /\ TreeOK(mapper, elements) /\ ~dropped /\ document = "open"
      /\ DeclaredOK(mapper, declared) /\ elements # << >>
  BY DEF Sound, Timely, Consistent, EndElement
<1>2. /\ elements \in Seq(OpenElements) /\ Len(mapper.stack) = Len(elements) /\ Len(elements) > 0
  BY <1>1, TreeFacts, EmptySeq
<1>3. /\ fs \in Seq(OpenElements) /\ Len(fs) = Len(elements) - 1
      /\ SameText(elements, fs, Len(fs))
  BY <1>2, Shorter DEF Top
<1>4. started
  BY <1>1 DEF Sound, Fresh
<1>5. /\ mapper' = Pop(mapper) /\ elements' = fs /\ declared' = declared /\ started'
      /\ ~dropped' /\ ~attributeOk' /\ document' = "open"
  BY <1>1, <1>4 DEF EndElement
<1> HIDE DEF fs
<1>6. MapperOK(Pop(mapper)) /\ Pop(mapper).fixed = mapper.fixed
  BY <1>1, <1>2, PopOK
<1>7. TreeOK(Pop(mapper), fs)
  BY <1>1, <1>2, <1>3, PopTree
<1>8. DeclaredOK(Pop(mapper), declared)
  BY <1>1, <1>6 DEF DeclaredOK
<1> QED
  BY <1>1, <1>5, <1>6, <1>7, <1>8, Written

LEMMA TooLateSound ==
    ASSUME Sound, TooLate PROVE Sound'
BY DEF TooLate, Sound, Timely, Consistent, Fresh, OnePrefixPerNamespace, Top

(* A namespace, or none, used in the start tag that is open.               *)
LEMMA Attributed ==
    ASSUME Sound, document = "open", attributeOk,
           NEW u \in URIs \cup {NoURI}, WithinBounds(mapper, u),
           NEW uses \in SUBSET Name(mapper, u)
    PROVE  LET d  == Declaration(mapper, u)
               fs == WithAttribute(elements, uses, d)
           IN  /\ MapperOK(Mapped(mapper, u)) /\ TreeOK(Mapped(mapper, u), fs)
               /\ DeclaredOK(Mapped(mapper, u), declared \cup SeqRange(d))
               /\ fs # << >> /\ fs[Len(fs)].tagOpen
               /\ ~Lost(elements) /\ started
<1> DEFINE d  == Declaration(mapper, u)
           fs == WithAttribute(elements, uses, d)
           n  == Len(elements)
<1>1. /\ MapperOK(mapper) /\ TreeOK(mapper, elements) /\ DeclaredOK(mapper, declared)
      /\ elements # << >> /\ elements[n].tagOpen /\ started
  BY DEF Sound, Timely, Consistent, Fresh, Top
<1>2. /\ elements \in Seq(OpenElements) /\ Len(mapper.stack) = n /\ n > 0
  BY <1>1, TreeFacts, EmptySeq
<1>3. uses \in SUBSET Pairs /\ d \in Seq(Pairs)
  BY <1>1, <1>2, NameTypes
<1> HIDE DEF d
<1>4. /\ fs \in Seq(OpenElements) /\ Len(fs) = n /\ SameText(elements, fs, n - 1)
      /\ fs[n].declares = elements[n].declares \o d
      /\ fs[n].names = elements[n].names \cup uses
      /\ fs[n].tagOpen
  BY <1>1, <1>2, <1>3, WithAttributeText
<1> HIDE DEF fs
<1>5. /\ MapperOK(Mapped(mapper, u)) /\ TreeOK(Mapped(mapper, u), fs)
      /\ DeclaredOK(Mapped(mapper, u), declared \cup SeqRange(d))
  BY <1>1, <1>2, <1>4, Used DEF d
<1>6. fs # << >> /\ fs[Len(fs)].tagOpen
  BY <1>2, <1>4, EmptySeq
<1>7. ~Lost(elements)
  BY <1>1 DEF Lost
<1> QED
  BY <1>1, <1>5, <1>6, <1>7 DEF d, fs

LEMMA DeclareNamespaceURISound ==
    ASSUME Sound, NEW u \in URIs, DeclareNamespaceURI(u)
    PROVE  Sound'
<1> DEFINE d  == Declaration(mapper, u)
           fs == WithAttribute(elements, {}, d)
<1>1. /\ document = "open" /\ attributeOk /\ WithinBounds(mapper, u) /\ ~dropped
      /\ elements' = fs /\ declared' = declared \cup SeqRange(d)
      /\ mapper' = (IF d = << >> THEN mapper ELSE GetPrefix(mapper, u))
      /\ dropped' = (dropped \/ (d # << >> /\ Lost(elements)))
      /\ document' = document /\ attributeOk' = attributeOk /\ started' = started
  BY DEF DeclareNamespaceURI, Sound, Timely
<1>2. /\ MapperOK(Mapped(mapper, u)) /\ TreeOK(Mapped(mapper, u), fs)
      /\ DeclaredOK(Mapped(mapper, u), declared \cup SeqRange(d))
      /\ fs # << >> /\ fs[Len(fs)].tagOpen
      /\ ~Lost(elements) /\ started
  BY <1>1, Attributed
<1>3. mapper' = Mapped(mapper, u)
  <2>1. u # NoURI
    BY NoURIAssumption
  <2>2. CASE IsMapped(mapper, u)
    <3>1. MapperOK(mapper) /\ Len(mapper.stack) > 0 /\ CanMap(mapper, u)
      BY <1>1, <2>1, TreeFacts, EmptySeq DEF Sound, Timely, WithinBounds
    <3>2. GetPrefix(mapper, u) = mapper
      BY <2>2, <3>1, GetPrefixOK
    <3> QED
      BY <1>1, <2>1, <3>2 DEF Mapped
  <2>3. CASE ~IsMapped(mapper, u)
    <3>1. d # << >>
      BY <2>1, <2>3 DEF Declaration
    <3> QED
      BY <1>1, <2>1, <3>1 DEF Mapped
  <2> QED
    BY <2>2, <2>3
<1> HIDE DEF d, fs
<1> QED
  BY <1>1, <1>2, <1>3, Written

LEMMA AddAttributeSound ==
    ASSUME Sound, NEW u \in URIs \cup {NoURI}, NEW convertible \in BOOLEAN,
           AddAttribute(u, convertible)
    PROVE  Sound'
<1> DEFINE d  == Declaration(mapper, u)
           uses == IF ConversionFails(convertible) THEN {} ELSE Name(mapper, u)
           fs == WithAttribute(elements, uses, d)
<1>1. /\ document = "open" /\ attributeOk /\ WithinBounds(mapper, u) /\ ~dropped
      /\ elements' = fs /\ declared' = declared \cup SeqRange(d)
      /\ mapper' = Mapped(mapper, u)
      /\ dropped' = (dropped \/ Lost(elements))
      /\ document' = document /\ attributeOk' = attributeOk /\ started' = started
  BY DEF AddAttribute, Sound, Timely
<1>2. uses \in SUBSET Name(mapper, u)
  OBVIOUS
<1> HIDE DEF uses
<1>3. /\ MapperOK(Mapped(mapper, u)) /\ TreeOK(Mapped(mapper, u), fs)
      /\ DeclaredOK(Mapped(mapper, u), declared \cup SeqRange(d))
      /\ fs # << >> /\ fs[Len(fs)].tagOpen
      /\ ~Lost(elements) /\ started
  BY <1>1, <1>2, Attributed
<1> HIDE DEF d, fs
<1> QED
  BY <1>1, <1>3, Written

LEMMA DataSound ==
    ASSUME Sound, NEW u \in URIs \cup {NoURI}, NEW convertible \in BOOLEAN,
           Data(u, convertible)
    PROVE  Sound'
<1> DEFINE d  == Declaration(mapper, u)
           fails == ConversionFails(convertible)
           uses == IF fails THEN {} ELSE Name(mapper, u)
           fs == WithAttribute(elements, uses, d)
<1>1. /\ document = "open" /\ WithinBounds(mapper, u) /\ ~dropped
      /\ u # NoURI => attributeOk
      /\ elements' = (IF fails THEN fs ELSE TagClosed(fs))
      /\ declared' = declared \cup SeqRange(d)
      /\ mapper' = Mapped(mapper, u)
      /\ dropped' = (dropped \/ (d # << >> /\ Lost(elements)))
      /\ document' = document /\ attributeOk' = (fails /\ attributeOk) /\ started'
  BY DEF Data, Sound, Timely
<1>2. uses \in SUBSET Name(mapper, u)
  OBVIOUS
<1> HIDE DEF uses, fails
<1>3. /\ MapperOK(Mapped(mapper, u)) /\ TreeOK(Mapped(mapper, u), fs)
      /\ DeclaredOK(Mapped(mapper, u), declared \cup SeqRange(d))
      /\ attributeOk => fs # << >> /\ fs[Len(fs)].tagOpen
      /\ ~(d # << >> /\ Lost(elements))
  <2>1. CASE attributeOk
    BY <1>1, <1>2, <2>1, Attributed
  <2>2. CASE ~attributeOk
    <3>1. u = NoURI
      BY <1>1, <2>2
    <3>2. d = << >> /\ uses = {} /\ Mapped(mapper, u) = mapper /\ SeqRange(d) = {}
      BY <1>2, <3>1 DEF Declaration, Name, Mapped, SeqRange
    <3>3. elements \in Seq(OpenElements)
      BY DEF Sound, TreeOK
    <3> HIDE DEF d
    <3>4. fs = elements
      BY <3>2, <3>3, NothingAdded
    <3> QED
      BY <1>1, <2>2, <3>2, <3>4 DEF Sound, Consistent
  <2> QED
    BY <2>1, <2>2
<1> HIDE DEF d, fs
<1>4. TreeOK(Mapped(mapper, u), TagClosed(fs))
  <2>1. fs \in Seq(OpenElements)
    BY <1>3 DEF TreeOK
  <2> QED
    BY <1>3, <2>1, TagClosedSame, SameTree
<1>5. TreeOK(mapper', elements')
  BY <1>1, <1>3, <1>4
<1>6. attributeOk' => elements' # << >> /\ elements'[Len(elements')].tagOpen
  <2>1. CASE fails /\ attributeOk
    BY <1>1, <1>3, <2>1
  <2>2. CASE ~(fails /\ attributeOk)
    BY <1>1, <2>2
  <2> QED
    BY <2>1, <2>2
<1> QED
  BY <1>1, <1>3, <1>5, <1>6, Written

LEMMA ClosedTree ==
    ASSUME NEW m, NEW es, TreeOK(m, es)
    PROVE  TreeOK(m, TagClosed(es))
<1>1. es \in Seq(OpenElements)
  BY DEF TreeOK
<1> QED
  BY <1>1, TagClosedSame, SameTree

LEMMA WriteCDataSound ==
    ASSUME Sound, WriteCData PROVE Sound'
<1>1. /\ MapperOK(mapper) /\ TreeOK(mapper, elements) /\ ~dropped /\ document = "open"
      /\ DeclaredOK(mapper, declared)
      /\ mapper' = mapper /\ elements' = TagClosed(elements) /\ declared' = declared
      /\ started' /\ ~dropped' /\ ~attributeOk' /\ document' = "open"
  BY DEF Sound, Timely, Consistent, WriteCData
<1> QED
  BY <1>1, ClosedTree, Written

LEMMA WriteCommentSound ==
    ASSUME Sound, NEW convertible \in BOOLEAN, WriteComment(convertible)
    PROVE  Sound'
<1>1. /\ MapperOK(mapper) /\ TreeOK(mapper, elements) /\ ~dropped /\ document = "open"
      /\ DeclaredOK(mapper, declared)
      /\ mapper' = mapper /\ declared' = declared
      /\ started' /\ ~dropped' /\ document' = "open"
  BY DEF Sound, Timely, Consistent, WriteComment
<1>2. CASE ConversionFails(convertible)
  <2>1. elements' = elements /\ attributeOk' = attributeOk
    BY <1>2 DEF WriteComment
  <2>2. attributeOk => elements # << >> /\ elements[Len(elements)].tagOpen
    BY <1>1 DEF Sound, Timely, Top
  <2> QED
    BY <1>1, <2>1, <2>2, Written
<1>3. CASE ~ConversionFails(convertible)
  <2>1. elements' = TagClosed(elements) /\ ~attributeOk'
    BY <1>3 DEF WriteComment
  <2> QED
    BY <1>1, <2>1, ClosedTree, Written
<1> QED
  BY <1>2, <1>3

LEMMA DataElementSound ==
    ASSUME Sound, NEW u \in URIs \cup {NoURI}, NEW convertible \in BOOLEAN,
           DataElement(u, convertible)
    PROVE  Sound'
<1> DEFINE k == Push(mapper)
           d == Declaration(k, u)
           fs == Append(TagClosed(elements), Element(Name(k, u), d))
           m == Mapped(k, u)
           ts == TagClosed(elements)
           ds == declared \cup SeqRange(d)
<1>1. /\ MapperOK(mapper) /\ TreeOK(mapper, elements) /\ ~dropped /\ document = "open"
      /\ DeclaredOK(mapper, declared) /\ WithinBounds(k, u)
  BY DEF Sound, Timely, Consistent, DataElement
<1>2. /\ declared' = ds /\ started' /\ ~dropped' /\ document' = "open"
  BY <1>1 DEF DataElement
<1>3. /\ MapperOK(m) /\ TreeOK(m, fs) /\ DeclaredOK(m, ds)
      /\ Len(fs) = Len(elements) + 1 /\ fs # << >> /\ fs[Len(fs)].tagOpen
      /\ SameText(fs, ts, Len(elements))
  <2> HIDE DEF k, d, fs, m, ts
  <2> QED
    BY <1>1, Opened DEF k, d, fs, m, ts
<1>4. CASE ConversionFails(convertible)
  <2>1. mapper' = m /\ elements' = fs
    BY <1>4 DEF DataElement
  <2> HIDE DEF m, fs, ds
  <2> QED
    BY <1>1, <1>2, <1>3, <2>1, Written
<1>5. CASE ~ConversionFails(convertible)
  <2>1. mapper' = Pop(m) /\ elements' = ts /\ ~attributeOk'
    BY <1>5 DEF DataElement
  <2>2. elements \in Seq(OpenElements) /\ Len(elements) \in Nat
    BY <1>1, TreeFacts
  <2>3. ts \in Seq(OpenElements) /\ Len(ts) = Len(elements)
    BY <2>2, TagClosedSame
  <2> HIDE DEF m, fs, ds, ts
  <2>4. Len(fs) > 0 /\ Len(ts) = Len(fs) - 1 /\ Len(m.stack) > 0 /\ SameText(fs, ts, Len(ts))
    BY <1>3, <2>2, <2>3 DEF TreeOK
  <2>5. TreeOK(Pop(m), ts)
    BY <1>3, <2>3, <2>4, PopTree
  <2>6. MapperOK(Pop(m)) /\ Pop(m).fixed = m.fixed
    BY <1>3, <2>4, PopOK
  <2>7. DeclaredOK(Pop(m), ds)
    BY <1>3, <2>6 DEF DeclaredOK
  <2> QED
    BY <1>1, <1>2, <2>1, <2>5, <2>6, <2>7, Written
<1> QED
  BY <1>4, <1>5

LEMMA BindSound ==
    ASSUME Sound, SeparateBindings, NEW u \in URIs, NEW p \in Bindable,
           BindNamespaceUriToPrefix(u, p)
    PROVE  Sound'
<1> DEFINE g == AssociatePrefix(mapper, u, p)
<1>1. /\ document = "open" /\ ~started /\ u # XmlURI
      /\ \A v \in DOMAIN mapper.fixed : mapper.fixed[v] # p
      /\ mapper' = g /\ document' = document /\ attributeOk' = attributeOk
      /\ elements' = elements /\ dropped' = dropped /\ started' = started
      /\ declared' = declared
  BY DEF BindNamespaceUriToPrefix, SeparateBindings
<1>2. /\ MapperOK(mapper) /\ TreeOK(mapper, elements) /\ ~dropped
      /\ elements = << >> /\ declared = {} /\ ~attributeOk
      /\ DOMAIN mapper.prefix \subseteq {XmlURI}
  BY <1>1 DEF Sound, Timely, Fresh
<1>3. Len(mapper.stack) = 0
  BY <1>2, TreeFacts
<1>4. u \in URIs \ {XmlURI} /\ p \in Prefixes \ {XmlPrefix}
  BY <1>1, BindableAssumption
<1>5. MapperOK(g) /\ Len(g.stack) = 0 /\ DOMAIN g.prefix \subseteq {XmlURI}
  BY <1>1, <1>2, <1>3, <1>4, AssociateOK
<1> HIDE DEF g
<1>6. TreeOK(g, << >>)
  BY <1>5 DEF TreeOK
<1>7. Timely' /\ Fresh'
  BY <1>1, <1>2, <1>5 DEF Timely, Fresh
<1>8. Consistent'
  BY <1>1, <1>2 DEF Consistent, OnePrefixPerNamespace, DeclaredOK
<1> QED
  BY <1>1, <1>2, <1>5, <1>6, <1>7, <1>8 DEF Sound

LEMMA NextSound ==
    ASSUME Sound, SeparateBindings, [Next]_vars
    PROVE  Sound'
<1>1. CASE UNCHANGED vars
  BY <1>1 DEF vars, Sound, Timely, Consistent, Fresh, OnePrefixPerNamespace, Top
<1>2. ASSUME NEW known \in BOOLEAN, NEW converts \in BOOLEAN, StartDocument(known, converts)
      PROVE  Sound'
  BY <1>2, StartDocumentSound
<1>3. CASE EndDocument
  BY <1>3, EndDocumentSound
<1>4. CASE PlainOperation
  <2>1. NoURI \in URIs \cup {NoURI}
    OBVIOUS
  <2>2. CASE StartElement(NoURI)
    BY <2>1, <2>2, StartElementSound
  <2>3. CASE EndElement
    BY <2>3, EndElementSound
  <2>4. CASE TooLate
    BY <2>4, TooLateSound
  <2>5. CASE WriteCData
    BY <2>5, WriteCDataSound
  <2>6. ASSUME NEW convertible \in BOOLEAN,
               \/ AddAttribute(NoURI, convertible)
               \/ Data(NoURI, convertible)
               \/ WriteComment(convertible)
               \/ DataElement(NoURI, convertible)
        PROVE  Sound'
    BY <2>1, <2>6, AddAttributeSound, DataSound, WriteCommentSound, DataElementSound
  <2> QED
    BY <1>4, <2>2, <2>3, <2>4, <2>5, <2>6 DEF PlainOperation
<1>5. CASE NamespaceOperation
  <2> SUFFICES ASSUME NEW u \in URIs,
                      \/ StartElement(u)
                      \/ StartElementDefaultNamespace(u)
                      \/ DeclareNamespaceURI(u)
                      \/ \E convertible \in BOOLEAN :
                           \/ AddAttribute(u, convertible)
                           \/ Data(u, convertible)
                           \/ DataElement(u, convertible)
                      \/ \E p \in Bindable : BindNamespaceUriToPrefix(u, p)
               PROVE  Sound'
    BY <1>5 DEF NamespaceOperation
  <2>1. u \in URIs \cup {NoURI}
    OBVIOUS
  <2>2. CASE StartElement(u)
    BY <2>1, <2>2, StartElementSound
  <2>3. CASE StartElementDefaultNamespace(u)
    BY <2>3, StartElementDefaultNamespaceSound
  <2>4. CASE DeclareNamespaceURI(u)
    BY <2>4, DeclareNamespaceURISound
  <2>5. ASSUME NEW convertible \in BOOLEAN,
               AddAttribute(u, convertible) \/ Data(u, convertible) \/ DataElement(u, convertible)
        PROVE  Sound'
    BY <2>1, <2>5, AddAttributeSound, DataSound, DataElementSound
  <2>6. ASSUME NEW p \in Bindable, BindNamespaceUriToPrefix(u, p)
        PROVE  Sound'
    BY <2>6, BindSound
  <2> QED
    BY <2>2, <2>3, <2>4, <2>5, <2>6
<1> QED
  BY <1>1, <1>2, <1>3, <1>4, <1>5 DEF Next

LEMMA AlwaysSound == SeparateBindings => (Spec => []Sound)
<1> SUFFICES ASSUME SeparateBindings PROVE Spec => []Sound
  OBVIOUS
<1>1. Init => Sound
  BY Initially
<1>2. Sound /\ [Next]_vars => Sound'
  BY NextSound
<1> QED
  BY <1>1, <1>2, PTL DEF Spec

-----------------------------------------------------------------------------
(* The types of the rest. *)

Typed ==
    /\ document \in {"none", "open", "ended"}
    /\ died \in {"no", "encoding", "attribute"}
    /\ {converting, attributeOk, dropped, started} \subseteq BOOLEAN
    /\ declared \subseteq Pairs
    /\ mapper.reserved \subseteq Bindable

LEMMA MappedTypes ==
    ASSUME NEW m, MapperOK(m), NEW u \in URIs \cup {NoURI}, WithinBounds(m, u),
           u = NoURI \/ Len(m.stack) > 0
    PROVE  /\ Mapped(m, u).reserved = m.reserved
           /\ SeqRange(Declaration(m, u)) \subseteq Pairs
<1>1. CASE u = NoURI
  BY <1>1 DEF Mapped, Declaration, SeqRange
<1>2. CASE u # NoURI
  <2>1. Declaration(m, u) \in Seq(Pairs)
    BY <1>2, NameTypes
  <2>2. SeqRange(Declaration(m, u)) \subseteq Pairs
    <3> DEFINE d == Declaration(m, u)
    <3> HIDE DEF d
    <3>1. d \in Seq(Pairs) => SeqRange(d) \subseteq Pairs
      BY DEF SeqRange
    <3> QED
      BY <2>1, <3>1 DEF d
  <2>3. Mapped(m, u).reserved = m.reserved
    BY <1>2, GetPrefixOK DEF Mapped, WithinBounds
  <2> QED
    BY <2>2, <2>3
<1> QED
  BY <1>1, <1>2

(* Where a namespace is used, in an open start tag or in a new element.    *)
LEMMA HereTypes ==
    ASSUME Sound, document = "open", NEW u \in URIs \cup {NoURI}, u # NoURI => attributeOk,
           WithinBounds(mapper, u)
    PROVE  /\ Mapped(mapper, u).reserved = mapper.reserved
           /\ SeqRange(Declaration(mapper, u)) \subseteq Pairs
<1>1. MapperOK(mapper) /\ TreeOK(mapper, elements)
  BY DEF Sound
<1>2. u # NoURI => Len(mapper.stack) > 0
  BY <1>1, TreeFacts, EmptySeq DEF Sound, Timely
<1> QED
  BY <1>1, <1>2, MappedTypes

LEMMA NewTypes ==
    ASSUME Sound, NEW u \in URIs \cup {NoURI}, WithinBounds(Push(mapper), u)
    PROVE  /\ Mapped(Push(mapper), u).reserved = mapper.reserved
           /\ SeqRange(Declaration(Push(mapper), u)) \subseteq Pairs
<1> DEFINE k == Push(mapper)
<1>1. MapperOK(mapper) /\ Len(mapper.stack) \in Nat
  BY TreeFacts DEF Sound
<1>2. MapperOK(k) /\ k.reserved = mapper.reserved /\ Len(k.stack) > 0
  BY <1>1, PushOK
<1> HIDE DEF k
<1>3. WithinBounds(k, u)
  BY DEF k
<1>4. Mapped(k, u).reserved = k.reserved /\ SeqRange(Declaration(k, u)) \subseteq Pairs
  BY <1>2, <1>3, MappedTypes
<1> QED
  BY <1>2, <1>4 DEF k

LEMMA NextTyped ==
    ASSUME Sound, Typed, [Next]_vars
    PROVE  Typed'
<1>1. CASE UNCHANGED vars
  BY <1>1 DEF vars, Typed
<1>2. ASSUME NEW known \in BOOLEAN, NEW converts \in BOOLEAN, StartDocument(known, converts)
      PROVE  Typed'
  BY <1>2 DEF StartDocument, NewMapper, Typed
<1>3. CASE EndDocument
  BY <1>3 DEF EndDocument, NewMapper, Typed
<1>4. CASE EndElement
  <2>1. MapperOK(mapper) /\ Len(mapper.stack) > 0
    BY <1>4, TreeFacts, EmptySeq DEF Sound, EndElement
  <2>2. Pop(mapper).reserved = mapper.reserved
    BY <2>1, PopOK
  <2> QED
    BY <1>4, <2>2 DEF EndElement, Typed
<1>5. CASE TooLate
  BY <1>5 DEF TooLate, Typed
<1>6. CASE WriteCData
  BY <1>6 DEF WriteCData, Typed
<1>7. ASSUME NEW convertible \in BOOLEAN, WriteComment(convertible)
      PROVE  Typed'
  BY <1>7 DEF WriteComment, Typed
<1>8. ASSUME NEW u \in URIs \cup {NoURI}, StartElement(u)
      PROVE  Typed'
  <2>1. WithinBounds(Push(mapper), u)
    BY <1>8 DEF StartElement
  <2> QED
    BY <1>8, <2>1, NewTypes DEF StartElement, Typed
<1>9. ASSUME NEW u \in URIs \cup {NoURI}, NEW convertible \in BOOLEAN, DataElement(u, convertible)
      PROVE  Typed'
  <2> DEFINE k == Push(mapper)
             m == Mapped(k, u)
             fs == Append(TagClosed(elements), Element(Name(k, u), Declaration(k, u)))
  <2>1. /\ MapperOK(mapper) /\ TreeOK(mapper, elements) /\ document = "open"
        /\ DeclaredOK(mapper, declared) /\ WithinBounds(k, u)
    BY <1>9 DEF Sound, Consistent, DataElement
  <2>2. m.reserved = mapper.reserved /\ SeqRange(Declaration(k, u)) \subseteq Pairs
    BY <2>1, NewTypes
  <2>3. MapperOK(m) /\ TreeOK(m, fs) /\ fs # << >>
    BY <2>1, Opened
  <2>4. Pop(m).reserved = m.reserved
    <3> HIDE DEF m, fs
    <3>1. Len(m.stack) > 0
      BY <2>3, EmptySeq DEF TreeOK
    <3> QED
      BY <2>3, <3>1, PopOK
  <2>5. /\ mapper' = m \/ mapper' = Pop(m)
        /\ declared' = declared \cup SeqRange(Declaration(k, u))
        /\ died' \in {died, "encoding"} /\ attributeOk' \in BOOLEAN /\ started' \in BOOLEAN
        /\ document' = document /\ converting' = converting /\ dropped' = dropped
    BY <1>9 DEF DataElement
  <2> HIDE DEF m, k
  <2>6. mapper'.reserved = mapper.reserved /\ declared' \subseteq declared \cup Pairs
    BY <2>2, <2>4, <2>5
  <2> QED
    BY <2>5, <2>6 DEF Typed
<1>10. ASSUME NEW u \in URIs, StartElementDefaultNamespace(u)
       PROVE  Typed'
  <2>1. Push(mapper).reserved = mapper.reserved
    BY PushOK DEF Sound
  <2> QED
    BY <1>10, <2>1 DEF StartElementDefaultNamespace, Typed
<1>11. ASSUME NEW u \in URIs, DeclareNamespaceURI(u)
       PROVE  Typed'
  <2>1. u # NoURI /\ document = "open" /\ attributeOk /\ WithinBounds(mapper, u)
    BY <1>11, NoURIAssumption DEF DeclareNamespaceURI
  <2>2. /\ GetPrefix(mapper, u).reserved = mapper.reserved
        /\ SeqRange(Declaration(mapper, u)) \subseteq Pairs
    BY <2>1, HereTypes DEF Mapped
  <2> QED
    BY <1>11, <2>2 DEF DeclareNamespaceURI, Typed
<1>12. ASSUME NEW u \in URIs \cup {NoURI}, NEW convertible \in BOOLEAN,
              AddAttribute(u, convertible) \/ Data(u, convertible)
       PROVE  Typed'
  <2>1. /\ document = "open" /\ WithinBounds(mapper, u)
        /\ u # NoURI => attributeOk
    BY <1>12 DEF AddAttribute, Data
  <2>2. /\ Mapped(mapper, u).reserved = mapper.reserved
        /\ SeqRange(Declaration(mapper, u)) \subseteq Pairs
    BY <2>1, HereTypes
  <2>3. CASE AddAttribute(u, convertible)
    BY <2>2, <2>3 DEF AddAttribute, Typed
  <2>4. CASE Data(u, convertible)
    BY <2>2, <2>4 DEF Data, Typed
  <2> QED
    BY <1>12, <2>3, <2>4
<1>13. ASSUME NEW u \in URIs, NEW p \in Bindable, BindNamespaceUriToPrefix(u, p)
       PROVE  Typed'
  <2>1. AssociatePrefix(mapper, u, p).reserved = mapper.reserved \cup {p}
    BY Allocated DEF Sound, MapperOK, Mappers, AssociatePrefix
  <2> QED
    BY <1>13, <2>1 DEF BindNamespaceUriToPrefix, Typed
<1>14. CASE PlainOperation
  <2>1. NoURI \in URIs \cup {NoURI}
    OBVIOUS
  <2> QED
    BY <1>4, <1>5, <1>6, <1>7, <1>8, <1>9, <1>12, <1>14, <2>1 DEF PlainOperation
<1>15. CASE NamespaceOperation
  <2>1. \A u \in URIs : u \in URIs \cup {NoURI}
    OBVIOUS
  <2> QED
    BY <1>8, <1>9, <1>10, <1>11, <1>12, <1>13, <1>15, <2>1 DEF NamespaceOperation
<1> QED
  BY <1>1, <1>2, <1>3, <1>14, <1>15 DEF Next

(* What is written and remembered has its type: prefixes are of the        *)
(* alphabet, what is reserved was bound, the counter is in its bounds.     *)
THEOREM TypesCorrect == SeparateBindings => (Spec => []TypeOK)
<1> SUFFICES ASSUME SeparateBindings PROVE Spec => []TypeOK
  OBVIOUS
<1>1. Init => Typed
  <2>1. NewMapper.reserved = {}
    BY DEF NewMapper
  <2> QED
    BY <2>1 DEF Init, Typed
<1>2. Sound /\ Typed /\ [Next]_vars => Typed'
  BY NextTyped
<1>3. ASSUME Sound, Typed PROVE TypeOK
  <2>1. mapper \in Mappers /\ elements \in Seq(OpenElements)
    BY <1>3 DEF Sound, MapperOK, TreeOK
  <2>2. \A f \in PartialMaps : DOMAIN f \subseteq URIs /\ SeqRange(f) \subseteq Prefixes
    BY MapTypes DEF SeqRange
  <2> QED
    BY <1>3, <2>1, <2>2 DEF Typed, TypeOK, Mappers, OpenElements
<1>4. Spec => []Sound
  BY AlwaysSound
<1> QED
  BY <1>1, <1>2, <1>3, <1>4, PTL DEF Spec

-----------------------------------------------------------------------------
(* What the writer promises.                                               *)

(* Attributes and declarations that come too late never reach libxml2: if  *)
(* attribute_adding_still_ok_ is set, the innermost start tag is open.     *)
THEOREM NothingDroppedCorrect == SeparateBindings => (Spec => []NothingDropped)
<1> SUFFICES ASSUME SeparateBindings PROVE Spec => []NothingDropped
  OBVIOUS
<1>1. Sound => NothingDropped
  BY DEF Sound, Timely, NothingDropped
<1>2. Spec => []Sound
  BY AlwaysSound
<1> QED
  BY <1>1, <1>2, PTL

(* A namespace has one prefix in the whole document and a prefix one       *)
(* namespace, however often elements are closed and opened again: what was *)
(* given stays in the mapper, and what the counter makes up is new.        *)
THEOREM OnePrefixPerNamespaceCorrect == SeparateBindings => (Spec => []OnePrefixPerNamespace)
<1> SUFFICES ASSUME SeparateBindings PROVE Spec => []OnePrefixPerNamespace
  OBVIOUS
<1>1. Sound => OnePrefixPerNamespace
  BY DEF Sound, Consistent
<1>2. Spec => []Sound
  BY AlwaysSound
<1> QED
  BY <1>1, <1>2, PTL

(* No element declares what an element around it has declared, nor a       *)
(* prefix twice: what the mapper has at one depth it has at no other.      *)
THEOREM DeclaredOnceCorrect == SeparateBindings => (Spec => []DeclaredOnce)
<1> SUFFICES ASSUME SeparateBindings PROVE Spec => []DeclaredOnce
  OBVIOUS
<1>1. ASSUME Sound PROVE DeclaredOnce
  <2>1. MapperOK(mapper) /\ TreeOK(mapper, elements)
    BY <1>1 DEF Sound
  <2> SUFFICES ASSUME NEW i \in 1..Top, NEW j \in 1..Top,
                      NEW k \in DOMAIN elements[i].declares,
                      NEW l \in DOMAIN elements[j].declares
               PROVE  LET d == elements[i].declares[k]
                          e == elements[j].declares[l]
                      IN  /\ i = j /\ d[1] = e[1] => k = l
                          /\ i < j /\ d = e => d[1] = NoPrefix
    BY DEF DeclaredOnce
  <2> DEFINE d == elements[i].declares[k]
             e == elements[j].declares[l]
  <2>2. Distinct(elements[i].declares)
    BY <2>1 DEF TreeOK, Top
  <2>3. i = j /\ d[1] = e[1] => k = l
    BY <2>2 DEF Distinct
  <2>4. d \in Declares(elements[i]) /\ e \in Declares(elements[j])
    BY DEF Declares, SeqRange
  <2>5. Right(mapper, i, d) /\ Right(mapper, j, e)
    BY <2>1, <2>4 DEF TreeOK, Top
  <2>6. ASSUME i < j, d = e PROVE d[1] = NoPrefix
    <3>1. i # j
      BY <2>6
    <3>2. d # XmlDeclaration
      BY <2>1, <2>4, <2>6, <3>1 DEF TreeOK, Top
    <3>3. Top = Len(mapper.stack)
      BY <2>1 DEF TreeOK, Top
    <3>4. ~ (d[2] \in mapper.stack[i] /\ d[2] \in mapper.stack[j])
      BY <2>1, <3>1, <3>3 DEF MapperOK, DepthsOK
    <3> QED
      BY <2>5, <2>6, <3>2, <3>4 DEF Right
  <2> QED
    BY <2>3, <2>6
<1>2. Spec => []Sound
  BY AlwaysSound
<1> QED
  BY <1>1, <1>2, PTL

(* Around a name its prefix is declared for no other namespace.            *)
LEMMA OneMeaning ==
    ASSUME NEW m, MapperOK(m), NEW es, TreeOK(m, es),
           NEW i \in 1..Len(es), NEW q \in es[i].names, q[1] # NoPrefix,
           NEW j \in 1..i, NEW d \in Declares(es[j]), d[1] = q[1]
    PROVE  d[2] = q[2]
<1>1. /\ Len(es) \in Nat /\ j \in 1..Len(es)
      /\ \A k \in 1..Len(es) : \A u \in m.stack[k] : u \in DOMAIN m.fixed
  BY TreeFacts
<1>2. Known(es, i, q)
  BY DEF TreeOK
<1>3. \A k \in 1..Len(es) : \A c \in Declares(es[k]) : c[1] # NoPrefix =>
         \/ c = XmlDeclaration
         \/ c[2] \in DOMAIN m.fixed /\ c = << m.fixed[c[2]], c[2] >>
  <2>1. \A k \in 1..Len(es) : \A c \in Declares(es[k]) : Right(m, k, c)
    BY DEF TreeOK
  <2> QED
    BY <1>1, <2>1 DEF Right
<1>4. q = XmlDeclaration \/ (q[2] \in DOMAIN m.fixed /\ q = << m.fixed[q[2]], q[2] >>)
  <2>1. CASE q = XmlDeclaration
    BY <2>1
  <2>2. CASE \E k \in 1..i : q \in Declares(es[k])
    <3>1. PICK k \in 1..Len(es) : q \in Declares(es[k])
      BY <1>1, <2>2
    <3> QED
      BY <1>3, <3>1
  <2> QED
    BY <1>2, <2>1, <2>2 DEF Known
<1>5. d = XmlDeclaration \/ (d[2] \in DOMAIN m.fixed /\ d = << m.fixed[d[2]], d[2] >>)
  BY <1>1, <1>3
<1>6. DeclaredOK(m, {q, d})
  BY <1>4, <1>5 DEF DeclaredOK
<1> QED
  BY <1>6, OneForOne

(* Every name is read in the namespace the caller gave for it: its prefix  *)
(* is declared in scope, and the innermost declaration of it is for this   *)
(* namespace.                                                              *)
THEOREM NamesResolveCorrect == SeparateBindings => (Spec => []NamesResolve)
<1> SUFFICES ASSUME SeparateBindings PROVE Spec => []NamesResolve
  OBVIOUS
<1>1. ASSUME Sound PROVE NamesResolve
  <2> SUFFICES ASSUME NEW i \in 1..Top, NEW q \in elements[i].names
               PROVE  Meaning(i, q[1]) = {q[2]}
    BY DEF NamesResolve
  <2> DEFINE es == elements
             p == q[1]
             S == DeclaredIn(i, p)
  <2>1. /\ MapperOK(mapper) /\ TreeOK(mapper, es) /\ Top = Len(es) /\ i \in 1..Len(es)
    BY <1>1 DEF Sound, Top
  <2>2. /\ Len(es) \in Nat /\ i \in Nat /\ i \in 1..i /\ q \in Pairs
        /\ \A j \in 1..i : j \in 1..Len(es) /\ Declares(es[j]) \subseteq Pairs
    <3>1. /\ Len(es) \in Nat
          /\ \A j \in 1..Len(es) : es[j].declares \in Seq(Pairs) /\ es[j].names \in SUBSET Pairs
      BY <2>1, TreeFacts
    <3>2. \A j \in 1..Len(es) : Declares(es[j]) \subseteq Pairs
      BY <3>1 DEF Declares, SeqRange
    <3> QED
      BY <2>1, <3>1, <3>2
  <2>3. q = << p, q[2] >> /\ q[2] \in URIs
    BY <2>2 DEF Pairs
  <2>4. Known(es, i, q) /\ Distinct(es[i].declares)
    BY <2>1 DEF TreeOK
  <2>5. \A j \in 1..i : \A v : v \in DeclaresAt(j, p) <=> v \in URIs /\ << p, v >> \in Declares(es[j])
    BY DEF DeclaresAt, Declares
  <2>6. S \in SUBSET (1..i) /\ \A j \in 1..i : j \in S <=> DeclaresAt(j, p) # {}
    BY DEF DeclaredIn
  <2> DEFINE j0 == CHOOSE j \in S : \A k \in S : k <= j
  <2>7. S # {} => j0 \in S /\ \A k \in S : k <= j0
    <3>1. S # {} => \E j \in S : \A k \in S : k <= j
      BY <2>2, <2>6, InnermostExists
    <3> QED
      BY <3>1
  <2>8. S # {} => Meaning(i, p) = DeclaresAt(j0, p)
    BY DEF Meaning
  <2>9. S = {} /\ p = XmlPrefix => Meaning(i, p) = {XmlURI}
    BY DEF Meaning
  <2> HIDE DEF j0, S, es
  <2>10. CASE p = NoPrefix
    <3>1. q \in Declares(es[i])
      BY <2>4, <2>10, NoPrefixIsNone DEF Known, XmlDeclaration
    <3>2. q[2] \in DeclaresAt(i, p)
      BY <2>2, <2>3, <2>5, <3>1
    <3>3. i \in S /\ S # {}
      BY <2>2, <2>6, <3>2
    <3>4. j0 = i
      <4>1. j0 \in 1..i /\ i <= j0
        BY <2>6, <2>7, <3>3
      <4> HIDE DEF p
      <4> QED
        BY <2>2, <4>1
    <3>5. ASSUME NEW v \in DeclaresAt(i, p) PROVE v = q[2]
      <4>1. << p, v >> \in Declares(es[i])
        BY <2>2, <2>5
      <4>2. PICK k \in DOMAIN es[i].declares : es[i].declares[k] = << p, v >>
        BY <4>1 DEF Declares, SeqRange
      <4>3. PICK l \in DOMAIN es[i].declares : es[i].declares[l] = q
        BY <3>1 DEF Declares, SeqRange
      <4>4. k = l
        BY <2>3, <2>4, <4>2, <4>3 DEF Distinct
      <4> QED
        BY <2>3, <4>2, <4>3, <4>4
    <3> QED
      BY <2>8, <3>2, <3>3, <3>4, <3>5
  <2>11. CASE p # NoPrefix
    <3>1. ASSUME NEW j \in 1..i, NEW v \in DeclaresAt(j, p) PROVE v = q[2]
      <4>1. << p, v >> \in Declares(es[j])
        BY <2>5
      <4>2. q \in es[i].names
        BY DEF es
      <4> DEFINE d == << p, v >>
      <4>3. d \in Declares(es[j]) /\ d[1] = q[1] /\ d[2] = v
        BY <4>1
      <4> HIDE DEF d
      <4>4. d[2] = q[2]
        BY <2>1, <2>11, <4>2, <4>3, OneMeaning
      <4> QED
        BY <4>3, <4>4
    <3>2. CASE S # {}
      <4>1. j0 \in 1..i /\ DeclaresAt(j0, p) # {}
        BY <2>6, <2>7, <3>2
      <4>2. DeclaresAt(j0, p) = {q[2]}
        BY <3>1, <4>1
      <4> QED
        BY <2>8, <3>2, <4>2
    <3>3. CASE S = {}
      <4>1. \A j \in 1..i : q \notin Declares(es[j])
        BY <2>3, <2>5, <2>6, <3>3
      <4>2. q = XmlDeclaration
        BY <2>4, <2>11, <4>1 DEF Known
      <4> QED
        BY <2>9, <3>3, <4>2 DEF XmlDeclaration
    <3> QED
      BY <3>2, <3>3
  <2> QED
    BY <2>10, <2>11
<1>2. Spec => []Sound
  BY AlwaysSound
<1> QED
  BY <1>1, <1>2, PTL
=============================================================================
