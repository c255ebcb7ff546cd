-------------------------- MODULE SelectionProofs ---------------------------
(* Induction, over numbers and over sequences, as theorems about sets; and *)
(* with it what the loops of Selections compute.                           *)
EXTENDS Selections, Integers, TLAPS, SequenceTheorems, WellFoundedInduction

LEMMA LeastExists ==
    ASSUME NEW S \in SUBSET Nat, S # {}
    PROVE  \E n \in S : \A k \in S : n <= k
<1> DEFINE R == OpToRel(<, Nat)
<1>1. IsWellFoundedOn(R, Nat)
  BY NatLessThanWellFounded
<1>2. \A x, y \in Nat : x < y => << x, y >> \in R
  BY DEF OpToRel
<1> HIDE DEF R
<1>3. PICK n \in S : \A k \in S : ~ (<< k, n >> \in R)
  BY <1>1, WFMin
<1>4. \A k \in S : ~ (k < n)
  BY <1>2, <1>3
<1> QED
  BY <1>4

(* A set of numbers with 0, and with the next of each of its own.          *)
LEMMA Induction ==
    ASSUME NEW S, 0 \in S, \A n \in Nat : n \in S => n + 1 \in S
    PROVE  Nat \subseteq S
<1> SUFFICES ASSUME Nat \ S # {} PROVE FALSE
  OBVIOUS
<1>1. PICK n \in Nat \ S : \A k \in Nat \ S : n <= k
  BY LeastExists
<1>2. n # 0 /\ n - 1 \in Nat
  BY <1>1
<1>3. n - 1 \in S
  BY <1>1, <1>2
<1>4. n - 1 + 1 = n
  BY <1>2
<1> QED
  BY <1>1, <1>2, <1>3, <1>4

(* A set of numbers with every one all of whose predecessors are in it.    *)
LEMMA StrongInduction ==
    ASSUME NEW S, \A n \in Nat : (\A m \in Nat : m < n => m \in S) => n \in S
    PROVE  Nat \subseteq S
<1> SUFFICES ASSUME Nat \ S # {} PROVE FALSE
  OBVIOUS
<1>1. PICK n \in Nat \ S : \A k \in Nat \ S : n <= k
  BY LeastExists
<1>2. \A m \in Nat : m < n => m \in S
  BY <1>1
<1> QED
  BY <1>1, <1>2

(* A set of sequences with the empty one, and the longer ones of its own.  *)
LEMMA SeqInduction ==
    ASSUME NEW S, NEW Q, << >> \in Q,
           \A s \in Seq(S), x \in S : s \in Q => Append(s, x) \in Q
    PROVE  Seq(S) \subseteq Q
<1> DEFINE N == {n \in Nat : \A s \in Seq(S) : Len(s) = n => s \in Q}
<1>1. 0 \in N
  BY EmptySeq
<1>2. ASSUME NEW n \in Nat, n \in N PROVE n + 1 \in N
  <2> SUFFICES ASSUME NEW s \in Seq(S), Len(s) = n + 1 PROVE s \in Q
    BY <1>2
  <2> DEFINE t == [i \in 1..n |-> s[i]]
  <2>1. \A i \in 1..n + 1 : s[i] \in S
    BY ElementOfSeq
  <2>2. t \in Seq(S) /\ Len(t) = n
    BY <2>1
  <2>3. t \in Q
    BY <1>2, <2>2
  <2>4. s[n + 1] \in S
    BY <2>1
  <2>5. s = Append(t, s[n + 1])
    <3>1. /\ Append(t, s[n + 1]) \in Seq(S) /\ Len(Append(t, s[n + 1])) = n + 1
          /\ \A i \in 1..n : Append(t, s[n + 1])[i] = t[i]
          /\ Append(t, s[n + 1])[n + 1] = s[n + 1]
      <4> HIDE DEF t
      <4> QED BY <2>2, <2>4, AppendProperties
    <3>2. \A i \in 1..n + 1 : s[i] = Append(t, s[n + 1])[i]
      <4>1. \A i \in 1..n + 1 : i = n + 1 \/ i \in 1..n
        OBVIOUS
      <4> QED BY <3>1, <4>1
    <3> HIDE DEF t
    <3> QED BY <3>1, <3>2, SeqEqual
  <2> HIDE DEF t
  <2> QED
    BY <2>2, <2>3, <2>4, <2>5
<1>3. Nat \subseteq N
  <2> HIDE DEF N
  <2> QED BY <1>1, <1>2, Induction
<1>4. ASSUME NEW s \in Seq(S) PROVE s \in Q
  <2>1. Len(s) \in N
    BY <1>3, LenProperties
  <2> QED
    BY <2>1
<1> QED
  BY <1>4

-----------------------------------------------------------------------------
(* The loop of Only                                                        *)

Step(s, T, f, n) ==
    IF n = 0 THEN << >> ELSE IF s[n] \in T THEN Append(f[n - 1], s[n]) ELSE f[n - 1]
Loop(s, T, f, N) == f = [n \in 0..N |-> Step(s, T, f, n)]

LEMMA LoopExists ==
    ASSUME NEW s, NEW T, NEW N \in Nat
    PROVE  \E f : Loop(s, T, f, N)
<1> DEFINE S == {k \in Nat : \E f : Loop(s, T, f, k)}
<1>1. 0 \in S
  <2>1. Loop(s, T, [n \in 0..0 |-> << >>], 0)
    BY DEF Loop, Step
  <2> QED BY <2>1
<1>2. ASSUME NEW k \in Nat, k \in S PROVE k + 1 \in S
  <2>1. PICK f : Loop(s, T, f, k)
    BY <1>2
  <2> DEFINE g == [n \in 0..(k + 1) |-> IF n = k + 1 THEN Step(s, T, f, k + 1) ELSE f[n]]
  <2>2. \A n \in 0..k : g[n] = f[n]
    BY SMT
  <2>3. \A n \in 0..k : f[n] = Step(s, T, f, n)
    BY <2>1 DEF Loop
  <2>4. \A n \in 0..(k + 1) : g[n] = Step(s, T, g, n)
    <3> SUFFICES ASSUME NEW n \in 0..(k + 1) PROVE g[n] = Step(s, T, g, n)
      OBVIOUS
    <3>1. n # 0 => n - 1 \in 0..k
      OBVIOUS
    <3>2. n # 0 => g[n - 1] = f[n - 1]
      BY <3>1, <2>2
    <3>3. g[n] = Step(s, T, f, n)
      BY <2>3
    <3> QED BY <3>2, <3>3 DEF Step
  <2> HIDE DEF g
  <2>5. Loop(s, T, g, k + 1)
    BY <2>4 DEF Loop, g
  <2> QED BY <2>5
<1> HIDE DEF S
<1>3. Nat \subseteq S
  BY <1>1, <1>2, Induction
<1> QED BY <1>3 DEF S

LEMMA OnlyIsLoop ==
    ASSUME NEW s, NEW T, Len(s) \in Nat
    PROVE  \E f : Loop(s, T, f, Len(s)) /\ Only(s, T) = f[Len(s)]
<1>1. PICK f : Loop(s, T, f, Len(s))
  BY LoopExists
<1>2. \E g : g = [n \in 0..Len(s) |->
                     IF n = 0 THEN << >>
                     ELSE IF s[n] \in T THEN Append(g[n - 1], s[n]) ELSE g[n - 1]]
  BY <1>1 DEF Loop, Step
<1> QED
  BY <1>2, Zenon DEF Only, Loop, Step

LEMMA LoopValues ==
    ASSUME NEW s, NEW T, NEW f, NEW N \in Nat, Loop(s, T, f, N)
    PROVE  /\ f[0] = << >>
           /\ \A n \in 0..N - 1 : /\ n + 1 \in 1..N
                                  /\ f[n + 1] = IF s[n + 1] \in T THEN Append(f[n], s[n + 1])
                                                ELSE f[n]
<1>1. \A n \in 0..N : f[n] = Step(s, T, f, n)
  BY DEF Loop
<1> SUFFICES ASSUME NEW n \in 0..N - 1
             PROVE  /\ n + 1 \in 1..N
                    /\ f[n + 1] = IF s[n + 1] \in T THEN Append(f[n], s[n + 1]) ELSE f[n]
  BY <1>1 DEF Step
<1>2. n + 1 \in 0..N /\ n + 1 # 0 /\ n + 1 - 1 = n /\ n + 1 \in 1..N
  OBVIOUS
<1>3. f[n + 1] = Step(s, T, f, n + 1)
  BY <1>1, <1>2
<1> QED
  BY <1>2, <1>3 DEF Step

(* Two loops that see the same, as far as they do. *)
LEMMA LoopsAgree ==
    ASSUME NEW s, NEW t, NEW T, NEW U, NEW f, NEW g, NEW M \in Nat, NEW K \in Nat, NEW N \in Nat,
           Loop(s, T, f, M), Loop(t, U, g, K), N <= M, N <= K,
           \A i \in 1..N : s[i] = t[i] /\ (s[i] \in T <=> t[i] \in U)
    PROVE  f[N] = g[N]
<1> DEFINE S == {n \in Nat : n <= N => f[n] = g[n]}
<1>1. 0 \in S
  BY LoopValues
<1>2. ASSUME NEW n \in Nat, n \in S PROVE n + 1 \in S
  <2> SUFFICES ASSUME n + 1 <= N PROVE f[n + 1] = g[n + 1]
    OBVIOUS
  <2>1. f[n] = g[n] /\ n \in 0..M - 1 /\ n \in 0..K - 1 /\ n + 1 \in 1..N
    BY <1>2
  <2>2. f[n + 1] = IF s[n + 1] \in T THEN Append(f[n], s[n + 1]) ELSE f[n]
    BY <2>1, LoopValues
  <2>3. g[n + 1] = IF t[n + 1] \in U THEN Append(g[n], t[n + 1]) ELSE g[n]
    BY <2>1, LoopValues
  <2> QED
    BY <2>1, <2>2, <2>3
<1> HIDE DEF S
<1>3. Nat \subseteq S
  BY <1>1, <1>2, Induction
<1> QED
  BY <1>3 DEF S

LEMMA OnlyEmpty == ASSUME NEW T PROVE Only(<< >>, T) = << >>
<1>1. Len(<< >>) = 0
  OBVIOUS
<1>2. PICK f : Loop(<< >>, T, f, 0) /\ Only(<< >>, T) = f[0]
  BY <1>1, OnlyIsLoop
<1> QED
  BY <1>2, LoopValues

LEMMA OnlyAppend ==
    ASSUME NEW S, NEW s \in Seq(S), NEW x \in S, NEW T
    PROVE  Only(Append(s, x), T) = IF x \in T THEN Append(Only(s, T), x) ELSE Only(s, T)
<1>0. PICK n \in Nat : n = Len(s)
  BY LenProperties
<1>1. PICK a : n = Len(s) /\ a = Append(s, x)
  BY <1>0
<1>2. Len(a) = n + 1 /\ (\A i \in 1..n : a[i] = s[i]) /\ a[n + 1] = x
  BY <1>1, AppendProperties
<1>3. PICK f : Loop(s, T, f, n) /\ Only(s, T) = f[n]
  BY <1>1, OnlyIsLoop
<1>4. PICK g : Loop(a, T, g, n + 1) /\ Only(a, T) = g[n + 1]
  BY <1>2, OnlyIsLoop
<1>5. g[n] = f[n]
  BY <1>2, <1>3, <1>4, LoopsAgree
<1>6. g[n + 1] = IF a[n + 1] \in T THEN Append(g[n], a[n + 1]) ELSE g[n]
  BY <1>4, LoopValues
<1> QED
  BY <1>1, <1>2, <1>3, <1>4, <1>5, <1>6

LEMMA OnlySame ==
    ASSUME NEW S, NEW s \in Seq(S), NEW T, NEW U,
           \A e \in Elements(s) : e \in T <=> e \in U
    PROVE  Only(s, T) = Only(s, U)
<1>1. Len(s) \in Nat /\ \A i \in 1..Len(s) : s[i] \in Elements(s)
  BY LenProperties DEF Elements
<1>2. PICK f : Loop(s, T, f, Len(s)) /\ Only(s, T) = f[Len(s)]
  BY <1>1, OnlyIsLoop
<1>3. PICK g : Loop(s, U, g, Len(s)) /\ Only(s, U) = g[Len(s)]
  BY <1>1, OnlyIsLoop
<1>4. f[Len(s)] = g[Len(s)]
  BY <1>1, <1>2, <1>3, LoopsAgree
<1> QED
  BY <1>2, <1>3, <1>4

-----------------------------------------------------------------------------
(* What Only keeps                                                         *)

LEMMA ElementsAppend ==
    ASSUME NEW S, NEW s \in Seq(S), NEW x \in S
    PROVE  Elements(Append(s, x)) = Elements(s) \cup {x}
<1>0. PICK n \in Nat : n = Len(s)
  BY LenProperties
<1>1. PICK a : n = Len(s) /\ a = Append(s, x)
  BY <1>0
<1>2. /\ a \in Seq(S) /\ Len(a) = n + 1 /\ (\A i \in 1..n : a[i] = s[i]) /\ a[n + 1] = x
  BY <1>1, AppendProperties
<1>3. DOMAIN a = 1..n + 1 /\ DOMAIN s = 1..n
  BY <1>1, <1>2, LenProperties
<1>4. \A i \in 1..n + 1 : i \in 1..n \/ i = n + 1
  OBVIOUS
<1> QED
  BY <1>1, <1>2, <1>3, <1>4 DEF Elements

LEMMA ElementsIn ==
    ASSUME NEW S, NEW s \in Seq(S)
    PROVE  /\ Elements(s) \subseteq S
           /\ s \in Seq(Elements(s))
<1>1. DOMAIN s = 1..Len(s) /\ Len(s) \in Nat /\ s \in [1..Len(s) -> S]
  BY LenProperties
<1>2. Elements(s) \subseteq S
  BY <1>1 DEF Elements
<1>3. \A i \in 1..Len(s) : s[i] \in Elements(s)
  BY <1>1 DEF Elements
<1> QED
  BY <1>2, <1>3

(* The elements kept are those in the set, and no others. *)
LEMMA OnlyElements ==
    ASSUME NEW S, NEW s \in Seq(S), NEW T
    PROVE  /\ Only(s, T) \in Seq({e \in Elements(s) : e \in T})
           /\ Elements(Only(s, T)) = {e \in Elements(s) : e \in T}
<1> DEFINE Chosen(t) == {e \in Elements(t) : e \in T}
           Q == {t \in Seq(S) : Only(t, T) \in Seq(S) /\ Elements(Only(t, T)) = Chosen(t)}
<1>1. << >> \in Q
  <2>1. << >> \in Seq(S) /\ Elements(<< >>) = {}
    BY DEF Elements
  <2> QED
    BY <2>1, OnlyEmpty
<1>2. ASSUME NEW t \in Seq(S), NEW x \in S, t \in Q PROVE Append(t, x) \in Q
  <2>1. Append(t, x) \in Seq(S) /\ Elements(Append(t, x)) = Elements(t) \cup {x}
    BY AppendProperties, ElementsAppend
  <2>2. Only(t, T) \in Seq(S) /\ Elements(Only(t, T)) = Chosen(t)
    BY <1>2
  <2>3. CASE x \in T
    <3>1. Only(Append(t, x), T) = Append(Only(t, T), x)
      BY <2>3, OnlyAppend
    <3>2. Append(Only(t, T), x) \in Seq(S)
      BY <2>2, AppendProperties
    <3>3. Elements(Append(Only(t, T), x)) = Chosen(t) \cup {x}
      BY <2>2, ElementsAppend
    <3>4. Chosen(Append(t, x)) = Chosen(t) \cup {x}
      BY <2>1, <2>3
    <3> QED
      BY <2>1, <3>1, <3>2, <3>3, <3>4
  <2>4. CASE x \notin T
    <3>1. Only(Append(t, x), T) = Only(t, T)
      BY <2>4, OnlyAppend
    <3>2. Chosen(Append(t, x)) = Chosen(t)
      BY <2>1, <2>4
    <3> QED
      BY <2>1, <2>2, <3>1, <3>2
  <2> QED
    BY <2>3, <2>4
<1>3. s \in Q
  <2> HIDE DEF Q
  <2> QED BY <1>1, <1>2, SeqInduction
<1> QED
  BY <1>3, ElementsIn

(* Nothing is dropped that is in the set. *)
LEMMA OnlyAll ==
    ASSUME NEW S, NEW s \in Seq(S), NEW T, Elements(s) \subseteq T
    PROVE  Only(s, T) = s
<1> DEFINE Q == {t \in Seq(S) : Elements(t) \subseteq T => Only(t, T) = t}
<1>1. << >> \in Q
  BY OnlyEmpty
<1>2. ASSUME NEW t \in Seq(S), NEW x \in S, t \in Q PROVE Append(t, x) \in Q
  <2>1. Append(t, x) \in Seq(S) /\ Elements(Append(t, x)) = Elements(t) \cup {x}
    BY AppendProperties, ElementsAppend
  <2> SUFFICES ASSUME Elements(Append(t, x)) \subseteq T PROVE Only(Append(t, x), T) = Append(t, x)
    BY <2>1
  <2>2. x \in T /\ Elements(t) \subseteq T
    BY <2>1
  <2> QED
    BY <1>2, <2>2, OnlyAppend
<1>3. s \in Q
  <2> HIDE DEF Q
  <2> QED BY <1>1, <1>2, SeqInduction
<1> QED
  BY <1>3

(* A loop over one list and then another; the provers take `\o' apart where *)
(* it has no name.                                                         *)
Join(s, t) == s \o t

LEMMA OnlyConcat ==
    ASSUME NEW S, NEW s \in Seq(S), NEW t \in Seq(S), NEW T
    PROVE  Only(Join(s, t), T) = Join(Only(s, T), Only(t, T))
<1> DEFINE Q == {u \in Seq(S) : Only(s \o u, T) = Only(s, T) \o Only(u, T)}
<1>0. \A u \in Seq(S) : Only(u, T) \in Seq(S)
  <2> SUFFICES ASSUME NEW u \in Seq(S) PROVE Only(u, T) \in Seq(S)
    OBVIOUS
  <2>1. {e \in Elements(u) : e \in T} \subseteq S
    BY ElementsIn
  <2>2. Only(u, T) \in Seq({e \in Elements(u) : e \in T})
    BY OnlyElements
  <2> QED
    BY <2>1, <2>2, SeqMonotonic
<1>1. << >> \in Q
  <2>1. << >> \in Seq(S) /\ s \o << >> = s
    BY ConcatEmptySeq
  <2>2. Only(s, T) \o << >> = Only(s, T)
    BY <1>0, ConcatEmptySeq
  <2> QED
    BY <2>1, <2>2, OnlyEmpty
<1>2. ASSUME NEW u \in Seq(S), NEW x \in S, u \in Q PROVE Append(u, x) \in Q
  <2>0. Append(u, x) \in Seq(S) /\ s \o u \in Seq(S)
    BY AppendProperties, ConcatProperties
  <2>1. s \o Append(u, x) = Append(s \o u, x)
    BY AppendIsConcat, <2>0
  <2>2. Only(s \o u, T) = Only(s, T) \o Only(u, T)
    BY <1>2
  <2>3. CASE x \in T
    <3>1. Only(Append(s \o u, x), T) = Append(Only(s, T) \o Only(u, T), x)
      BY <2>0, <2>2, <2>3, OnlyAppend
    <3>2. Only(Append(u, x), T) = Append(Only(u, T), x)
      BY <2>3, OnlyAppend
    <3>3. Only(s, T) \o Append(Only(u, T), x) = Append(Only(s, T) \o Only(u, T), x)
      BY <1>0
    <3> QED
      BY <2>0, <2>1, <3>1, <3>2, <3>3
  <2>4. CASE x \notin T
    <3>1. Only(Append(s \o u, x), T) = Only(s \o u, T)
      BY <2>0, <2>4, OnlyAppend
    <3>2. Only(Append(u, x), T) = Only(u, T)
      BY <2>4, OnlyAppend
    <3> QED
      BY <2>0, <2>1, <2>2, <3>1, <3>2
  <2> QED
    BY <2>3, <2>4
<1>3. t \in Q
  <2> HIDE DEF Q
  <2> QED BY <1>1, <1>2, SeqInduction
<1> QED
  BY <1>3 DEF Join

LEMMA OnlyNone ==
    ASSUME NEW S, NEW s \in Seq(S), NEW T, S \cap T = {}
    PROVE  Only(s, T) = << >>
<1>1. {e \in Elements(s) : e \in T} = {}
  BY ElementsIn
<1>2. Only(s, T) \in Seq({})
  BY <1>1, OnlyElements
<1> QED
  BY <1>2, EmptySeq, ElementOfSeq, LenProperties

LEMMA OnlyIn ==
    ASSUME NEW S, NEW s \in Seq(S), NEW T
    PROVE  Only(s, T) \in Seq(S \cap T)
<1>1. Only(s, T) \in Seq({e \in Elements(s) : e \in T})
  BY OnlyElements
<1>2. {e \in Elements(s) : e \in T} \subseteq S \cap T
  BY ElementsIn
<1> QED
  BY <1>1, <1>2, SeqMonotonic

LEMMA OnlyJoin ==
    ASSUME NEW S, NEW T, NEW s \in Seq(S), NEW t \in Seq(S \ T)
    PROVE  Join(s, t) \in Seq(S) /\ Only(Join(s, t), T) = Only(s, T)
<1>1. t \in Seq(S)
  <2>1. S \ T \subseteq S
    OBVIOUS
  <2> QED
    BY <2>1, SeqMonotonic
<1>2. Join(s, t) \in Seq(S)
  BY <1>1, ConcatProperties DEF Join
<1>3. Only(t, T) = << >>
  <2>1. (S \ T) \cap T = {}
    OBVIOUS
  <2> QED
    BY <2>1, OnlyNone
<1>4. PICK q : q = Only(s, T)
  OBVIOUS
<1>5. q \in Seq(S \cap T)
  BY <1>4, OnlyIn
<1>6. Only(Join(s, t), T) = Join(q, << >>)
  BY <1>1, <1>3, <1>4, OnlyConcat
<1>7. Join(q, << >>) = q
  BY <1>5, ConcatEmptySeq DEF Join
<1> QED
  BY <1>2, <1>4, <1>6, <1>7

-----------------------------------------------------------------------------
(* The loop of Together                                                    *)

Chain(lists, f, N) == f = [n \in 0..N |-> IF n = 0 THEN << >> ELSE Join(f[n - 1], lists[n])]

LEMMA ChainExists ==
    ASSUME NEW lists, NEW N \in Nat
    PROVE  \E f : Chain(lists, f, N)
<1> DEFINE S == {k \in Nat : \E f : Chain(lists, f, k)}
<1>1. 0 \in S
  <2>1. Chain(lists, [n \in 0..0 |-> << >>], 0)
    BY DEF Chain
  <2> QED BY <2>1
<1>2. ASSUME NEW k \in Nat, k \in S PROVE k + 1 \in S
  <2>1. PICK f : Chain(lists, f, k)
    BY <1>2
  <2>2. PICK last : last = Join(f[k], lists[k + 1])
    OBVIOUS
  <2> DEFINE g == [n \in 0..k + 1 |-> IF n = k + 1 THEN last ELSE f[n]]
  <2>3. \A n \in 0..k : g[n] = f[n]
    BY SMT
  <2>4. \A n \in 0..k : f[n] = IF n = 0 THEN << >> ELSE Join(f[n - 1], lists[n])
    BY <2>1 DEF Chain
  <2>5. \A n \in 0..k + 1 : g[n] = IF n = 0 THEN << >> ELSE Join(g[n - 1], lists[n])
    <3> SUFFICES ASSUME NEW n \in 0..k + 1
                 PROVE  g[n] = IF n = 0 THEN << >> ELSE Join(g[n - 1], lists[n])
      OBVIOUS
    <3>1. CASE n \in 0..k
      <4>1. n # 0 => n - 1 \in 0..k
        BY <3>1
      <4>2. n # 0 => g[n - 1] = f[n - 1]
        BY <4>1, <2>3
      <4> HIDE DEF g
      <4> QED
        BY <3>1, <4>2, <2>3, <2>4
    <3>2. CASE n = k + 1
      <4>1. g[k + 1] = last /\ k \in 0..k /\ k + 1 - 1 = k /\ k + 1 # 0
        OBVIOUS
      <4> HIDE DEF g
      <4> QED
        BY <3>2, <4>1, <2>2, <2>3
    <3> QED BY <3>1, <3>2
  <2> HIDE DEF g
  <2>6. Chain(lists, g, k + 1)
    BY <2>5 DEF Chain, g
  <2> QED BY <2>6
<1> HIDE DEF S
<1>3. Nat \subseteq S
  BY <1>1, <1>2, Induction
<1> QED BY <1>3 DEF S

(* Lists of a set's elements are a list of them together.                  *)
LEMMA TogetherIn ==
    ASSUME NEW S, NEW lists, Len(lists) \in Nat, \A n \in 1..Len(lists) : lists[n] \in Seq(S)
    PROVE  Together(lists) \in Seq(S)
<1>1. PICK f : Chain(lists, f, Len(lists))
  BY ChainExists
<1>2. \E g : g = [n \in 0..Len(lists) |-> IF n = 0 THEN << >> ELSE g[n - 1] \o lists[n]]
  BY <1>1 DEF Chain, Join
<1>3. PICK h : Chain(lists, h, Len(lists)) /\ Together(lists) = h[Len(lists)]
  BY <1>2, Zenon DEF Together, Chain, Join
<1>4. \A n \in 0..Len(lists) : h[n] = IF n = 0 THEN << >> ELSE Join(h[n - 1], lists[n])
  BY <1>3 DEF Chain
<1> DEFINE Q == {n \in Nat : n <= Len(lists) => h[n] \in Seq(S)}
<1>5. 0 \in Q
  <2>1. h[0] = << >>
    BY <1>4
  <2>2. h[0] \in Seq(S)
    BY <2>1
  <2> QED
    BY <2>2
<1>6. ASSUME NEW n \in Nat, n \in Q PROVE n + 1 \in Q
  <2> SUFFICES ASSUME n + 1 <= Len(lists) PROVE h[n + 1] \in Seq(S)
    OBVIOUS
  <2>1. h[n] \in Seq(S) /\ n + 1 \in 0..Len(lists) /\ n + 1 \in 1..Len(lists) /\ n + 1 - 1 = n
        /\ n + 1 # 0
    BY <1>6
  <2>2. h[n + 1] = Join(h[n], lists[n + 1]) /\ lists[n + 1] \in Seq(S)
    <3> HIDE DEF Q
    <3>1. h[n + 1] = Join(h[n + 1 - 1], lists[n + 1])
      BY <1>4, <2>1
    <3> QED
      BY <2>1, <3>1
  <2> QED
    BY <2>1, <2>2, ConcatProperties DEF Join
<1> HIDE DEF Q
<1>7. Nat \subseteq Q
  BY <1>5, <1>6, Induction
<1> QED
  BY <1>3, <1>7 DEF Q
=============================================================================
