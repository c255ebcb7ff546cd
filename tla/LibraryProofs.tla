---------------------------- MODULE LibraryProofs ----------------------------
(* Theorems about the algorithms of MCLibrary on numbers, texts and        *)
(* buffers, of any size.                                                   *)
EXTENDS MCLibrary, SelectionProofs, FiniteSetTheorems

-----------------------------------------------------------------------------
(* Division                                                                *)

LEMMA Division ==
    ASSUME NEW n \in Nat, NEW d \in Nat \ {0}
    PROVE  /\ n \div d \in Nat /\ n % d \in 0..d - 1
           /\ n = (d * (n \div d)) + (n % d)
           /\ n >= d => n \div d >= 1
           /\ n < d => n \div d = 0 /\ n % d = n
           /\ d > 1 /\ n > 0 => n \div d < n
OBVIOUS

LEMMA DivisionUnique ==
    ASSUME NEW d \in Nat \ {0}, NEW q \in Int, NEW r \in 0..d - 1
    PROVE  /\ ((d * q) + r) % d = r
           /\ ((d * q) + r) \div d = q
OBVIOUS

LEMMA DivisionOfNext ==
    ASSUME NEW n \in Nat, NEW d \in Nat \ {0}
    PROVE  /\ n % d = d - 1 => (n + 1) % d = 0 /\ (n + 1) \div d = (n \div d) + 1
           /\ n % d # d - 1 => (n + 1) % d = (n % d) + 1 /\ (n + 1) \div d = n \div d
<1>1. CASE n % d = d - 1
  <2>1. PICK q \in Nat : q = n \div d
    BY Division
  <2>2. n = (d * q) + (d - 1)
    BY <1>1, <2>1, Division
  <2>3. d * (q + 1) = (d * q) + d
    OBVIOUS
  <2>4. PICK e, p \in Int : e = n + 1 /\ e = (d * p) + 0 /\ p = q + 1
    BY <2>2, <2>3
  <2>5. e % d = 0 /\ e \div d = p
    <3>1. 0 \in 0..d - 1
      OBVIOUS
    <3>2. ((d * p) + 0) % d = 0 /\ ((d * p) + 0) \div d = p
      BY <3>1, DivisionUnique
    <3> QED
      BY <2>4, <3>2
  <2> QED
    BY <1>1, <2>1, <2>4, <2>5
<1>2. CASE n % d # d - 1
  BY <1>2
<1> QED
  BY <1>1, <1>2

-----------------------------------------------------------------------------
(* Functions of numbers that call themselves with smaller numbers          *)

Calls(f, V, b, base, step, down, N) ==
    /\ f \in [0..N -> V]
    /\ \A n \in 0..N : f[n] = IF n < b THEN base[n] ELSE step[<< f[down[n]], n >>]

WellFounded(V, b, base, step, down) ==
    /\ b \in Nat /\ base \in [Nat -> V] /\ step \in [V \X Nat -> V] /\ down \in [Nat -> Nat]
    /\ \A n \in Nat : n >= b => down[n] < n

LEMMA CallsExist ==
    ASSUME NEW V, NEW b, NEW base, NEW step, NEW down, WellFounded(V, b, base, step, down),
           NEW N \in Nat
    PROVE  \E f : Calls(f, V, b, base, step, down, N)
<1>0. /\ b \in Nat /\ base \in [Nat -> V] /\ step \in [V \X Nat -> V] /\ down \in [Nat -> Nat]
      /\ \A j \in Nat : j >= b => down[j] < j
  BY DEF WellFounded
<1> DEFINE S == {k \in Nat : \A n \in Nat : n < k => \E f : Calls(f, V, b, base, step, down, n)}
<1>1. 0 \in S
  OBVIOUS
<1>2. ASSUME NEW k \in Nat, k \in S PROVE k + 1 \in S
  <2> SUFFICES \E f : Calls(f, V, b, base, step, down, k)
    <3>1. \A n \in Nat : n < k + 1 => n < k \/ n = k
      OBVIOUS
    <3> QED BY <1>2, <3>1
  <2>1. CASE k = 0
    <3>1. PICK v \in V : v = base[k]
      BY <1>0
    <3>2. k < b
      BY <1>0, <2>1
    <3>3. \A n \in 0..k : n = k
      BY <2>1
    <3>4. Calls([n \in 0..k |-> v], V, b, base, step, down, k)
      BY <3>1, <3>2, <3>3 DEF Calls
    <3> QED
      BY <3>4
  <2>2. CASE k > 0
    <3>1. PICK f : Calls(f, V, b, base, step, down, k - 1)
      BY <1>2, <2>2
    <3>2. PICK last : last = IF k < b THEN base[k] ELSE step[<< f[down[k]], k >>]
      OBVIOUS
    <3>3. k >= b => down[k] \in 0..k - 1
      BY <1>0
    <3>4. last \in V
      <4>1. k >= b => f[down[k]] \in V
        BY <3>1, <3>3 DEF Calls
      <4> QED
        BY <1>0, <3>2, <4>1
    <3> DEFINE g == [n \in 0..k |-> IF n = k THEN last ELSE f[n]]
    <3>5. \A n \in 0..k - 1 : g[n] = f[n]
      BY SMT
    <3>6. g[k] = last
      BY SMT
    <3>7. g \in [0..k -> V]
      <4>1. \A n \in 0..k : n = k \/ n \in 0..k - 1
        OBVIOUS
      <4>2. \A n \in 0..k - 1 : f[n] \in V
        BY <3>1 DEF Calls
      <4> QED
        BY <3>4, <4>1, <4>2
    <3> HIDE DEF g
    <3>8. ASSUME NEW n \in 0..k
          PROVE  g[n] = IF n < b THEN base[n] ELSE step[<< g[down[n]], n >>]
      <4>1. CASE n = k
        <5>1. k >= b => g[down[k]] = f[down[k]]
          BY <3>3, <3>5
        <5> QED
          BY <1>0, <3>2, <3>6, <4>1, <5>1
      <4>2. CASE n # k
        <5>1. n \in 0..k - 1 /\ (n >= b => down[n] \in 0..k - 1)
          BY <1>0, <4>2
        <5>2. f[n] = IF n < b THEN base[n] ELSE step[<< f[down[n]], n >>]
          BY <3>1, <5>1 DEF Calls
        <5>3. g[n] = f[n] /\ (n >= b => g[down[n]] = f[down[n]])
          BY <3>5, <5>1
        <5> QED
          BY <1>0, <5>2, <5>3
      <4> QED
        BY <4>1, <4>2
    <3>9. Calls(g, V, b, base, step, down, k)
      BY <3>7, <3>8 DEF Calls
    <3> QED
      BY <3>9
  <2> QED
    BY <2>1, <2>2
<1> HIDE DEF S
<1>3. Nat \subseteq S
  BY <1>1, <1>2, Induction
<1>4. N + 1 \in S /\ N < N + 1
  BY <1>3
<1> QED
  BY <1>4 DEF S

LEMMA CallsAgree ==
    ASSUME NEW V, NEW b, NEW base, NEW step, NEW down, WellFounded(V, b, base, step, down),
           NEW M \in Nat, NEW N \in Nat, NEW f, NEW g,
           Calls(f, V, b, base, step, down, M), Calls(g, V, b, base, step, down, N),
           NEW n \in Nat, n <= M, n <= N
    PROVE  f[n] = g[n]
<1>0. /\ b \in Nat /\ base \in [Nat -> V] /\ step \in [V \X Nat -> V] /\ down \in [Nat -> Nat]
      /\ \A j \in Nat : j >= b => down[j] < j
  BY DEF WellFounded
<1> DEFINE S == {k \in Nat : k <= M /\ k <= N => f[k] = g[k]}
<1>1. ASSUME NEW k \in Nat, \A m \in Nat : m < k => m \in S PROVE k \in S
  <2> SUFFICES ASSUME k <= M, k <= N PROVE f[k] = g[k]
    OBVIOUS
  <2>1. k \in 0..M /\ k \in 0..N
    OBVIOUS
  <2>2. f[k] = IF k < b THEN base[k] ELSE step[<< f[down[k]], k >>]
    BY <2>1 DEF Calls
  <2>3. g[k] = IF k < b THEN base[k] ELSE step[<< g[down[k]], k >>]
    BY <2>1 DEF Calls
  <2>4. k >= b => f[down[k]] = g[down[k]]
    <3> SUFFICES ASSUME k >= b PROVE f[down[k]] = g[down[k]]
      OBVIOUS
    <3>1. PICK m \in Nat : m = down[k] /\ m < k
      BY <1>0
    <3> QED
      BY <1>1, <3>1
  <2> HIDE DEF S
  <2> QED
    BY <1>0, <2>2, <2>3, <2>4
<1> HIDE DEF S
<1>2. Nat \subseteq S
  BY <1>1, StrongInduction
<1> QED
  BY <1>2 DEF S

LEMMA Recursion ==
    ASSUME NEW V, NEW b, NEW base, NEW step, NEW down, WellFounded(V, b, base, step, down)
    PROVE  \E f \in [Nat -> V] :
               \A n \in Nat : f[n] = IF n < b THEN base[n] ELSE step[<< f[down[n]], n >>]
<1>0. /\ b \in Nat /\ base \in [Nat -> V] /\ step \in [V \X Nat -> V] /\ down \in [Nat -> Nat]
      /\ \A j \in Nat : j >= b => down[j] < j
  BY DEF WellFounded
<1> DEFINE F == [k \in Nat |-> (CHOOSE f : Calls(f, V, b, base, step, down, k))[k]]
<1>1. ASSUME NEW k \in Nat PROVE \E f : Calls(f, V, b, base, step, down, k) /\ F[k] = f[k]
  <2>1. PICK f : f = (CHOOSE g : Calls(g, V, b, base, step, down, k))
                 /\ Calls(f, V, b, base, step, down, k)
    BY CallsExist
  <2> QED
    BY <2>1
<1>2. F = [k \in Nat |-> F[k]]
  OBVIOUS
<1> HIDE DEF F
<1>3. ASSUME NEW k \in Nat
      PROVE  F[k] \in V /\ F[k] = IF k < b THEN base[k] ELSE step[<< F[down[k]], k >>]
  <2>1. PICK f : Calls(f, V, b, base, step, down, k) /\ F[k] = f[k]
    BY <1>1
  <2>2. f[k] \in V /\ f[k] = IF k < b THEN base[k] ELSE step[<< f[down[k]], k >>]
    <3>1. k \in 0..k
      OBVIOUS
    <3> QED
      BY <2>1, <3>1 DEF Calls
  <2>3. ASSUME k >= b PROVE F[down[k]] = f[down[k]]
    <3>1. PICK m \in Nat : m = down[k] /\ m < k
      BY <1>0, <2>3
    <3>2. PICK h : Calls(h, V, b, base, step, down, m) /\ F[m] = h[m]
      BY <1>1
    <3>3. m <= m /\ m <= k
      BY <3>1
    <3>4. h[m] = f[m]
      BY <2>1, <3>2, <3>3, CallsAgree
    <3> QED
      BY <3>1, <3>2, <3>4
  <2> QED
    BY <1>0, <2>1, <2>2, <2>3
<1>4. F \in [Nat -> V]
  BY <1>2, <1>3
<1> QED
  BY <1>3, <1>4

SameCalls(b, down, f, g) ==
    \A n \in Nat : /\ n < b => f[n] = g[n]
                   /\ n >= b => down[n] < n /\ (f[down[n]] = g[down[n]] => f[n] = g[n])

LEMMA RecursionAgrees ==
    ASSUME NEW b \in Nat, NEW down \in [Nat -> Nat], NEW f, NEW g, SameCalls(b, down, f, g)
    PROVE  \A n \in Nat : f[n] = g[n]
<1>0. \A n \in Nat : /\ n < b => f[n] = g[n]
                     /\ n >= b => down[n] < n /\ (f[down[n]] = g[down[n]] => f[n] = g[n])
  BY DEF SameCalls
<1> DEFINE S == {k \in Nat : f[k] = g[k]}
<1>1. ASSUME NEW k \in Nat, \A m \in Nat : m < k => m \in S PROVE k \in S
  <2>1. CASE k >= b
    <3>1. PICK m \in Nat : m = down[k] /\ m < k
      BY <1>0, <2>1
    <3> QED
      BY <1>0, <1>1, <2>1, <3>1
  <2>2. CASE k < b
    BY <1>0, <2>2
  <2> QED
    BY <2>1, <2>2
<1> HIDE DEF S
<1>2. Nat \subseteq S
  BY <1>1, StrongInduction
<1> QED
  BY <1>2 DEF S

-----------------------------------------------------------------------------
(* How many letters a number takes                                         *)

LEMMA Shorter ==
    ASSUME NEW n \in Nat, n >= AlphabetSize
    PROVE  (n \div AlphabetSize) - 1 \in Nat /\ (n \div AlphabetSize) - 1 < n
BY Division, AlphabetAssumption

LEMMA NumCharsIs ==
    /\ NumChars \in [Nat -> Nat \ {0}]
    /\ \A n \in Nat : NumChars[n] = IF n < AlphabetSize THEN 1
                                    ELSE 1 + NumChars[(n \div AlphabetSize) - 1]
<1>0. PICK b \in Nat : b = AlphabetSize
  BY AlphabetAssumption
<1>1. PICK V : V = Nat \ {0}
  OBVIOUS
<1>2. PICK base \in [Nat -> V] : \A n \in Nat : base[n] = 1
  <2>1. [n \in Nat |-> 1] \in [Nat -> V]
    BY <1>1
  <2> QED
    BY <2>1
<1>3. PICK step \in [V \X Nat -> V] : \A v \in V, n \in Nat : step[<< v, n >>] = 1 + v
  <2>1. [p \in V \X Nat |-> 1 + p[1]] \in [V \X Nat -> V]
    BY <1>1
  <2> QED
    BY <2>1
<1>4. PICK down \in [Nat -> Nat] :
          \A n \in Nat : n >= b => down[n] = (n \div AlphabetSize) - 1 /\ down[n] < n
  <2> DEFINE g == [n \in Nat |-> IF n >= b THEN (n \div AlphabetSize) - 1 ELSE 0]
  <2>1. g \in [Nat -> Nat]
    BY <1>0, Shorter
  <2>2. \A n \in Nat : n >= b => g[n] = (n \div AlphabetSize) - 1 /\ g[n] < n
    BY <1>0, Shorter
  <2> HIDE DEF g
  <2> QED
    BY <2>1, <2>2
<1>5. PICK F \in [Nat -> V] :
          \A n \in Nat : F[n] = IF n < b THEN base[n] ELSE step[<< F[down[n]], n >>]
  <2>1. WellFounded(V, b, base, step, down)
    BY <1>4 DEF WellFounded
  <2> QED
    BY <2>1, Recursion
<1>6. ASSUME NEW n \in Nat
      PROVE  F[n] = IF n < AlphabetSize THEN 1 ELSE 1 + F[(n \div AlphabetSize) - 1]
  <2>1. CASE n < b
    BY <1>0, <1>2, <1>5, <2>1
  <2>2. CASE ~ (n < b)
    <3>1. PICK m \in Nat : m = down[n] /\ m = (n \div AlphabetSize) - 1
      BY <1>4, <2>2
    <3>2. PICK v \in V : v = F[m]
      OBVIOUS
    <3>3. F[n] = step[<< v, n >>]
      BY <1>5, <2>2, <3>1, <3>2
    <3> QED
      BY <1>0, <1>3, <2>2, <3>1, <3>2, <3>3
  <2> QED
    BY <2>1, <2>2
<1>7. F = [k \in Nat |-> IF k < AlphabetSize THEN 1 ELSE 1 + F[(k \div AlphabetSize) - 1]]
  BY <1>6
<1>8. \E f : f = [k \in Nat |-> IF k < AlphabetSize THEN 1
                                ELSE 1 + f[(k \div AlphabetSize) - 1]]
  BY <1>7
<1>9. NumChars = [k \in Nat |-> IF k < AlphabetSize THEN 1
                                ELSE 1 + NumChars[(k \div AlphabetSize) - 1]]
  BY <1>8, Zenon DEF NumChars
<1>10. ASSUME NEW n \in Nat
       PROVE  NumChars[n] = IF n < AlphabetSize THEN 1
                            ELSE 1 + NumChars[(n \div AlphabetSize) - 1]
  BY <1>9
<1>11. \A n \in Nat : NumChars[n] = F[n]
  <2>1. \A n \in Nat : n < b => NumChars[n] = F[n]
    BY <1>0, <1>6, <1>10
  <2>2. \A n \in Nat : n >= b /\ NumChars[down[n]] = F[down[n]] => NumChars[n] = F[n]
    BY <1>0, <1>4, <1>6, <1>10
  <2>3. \A n \in Nat : n >= b => down[n] < n
    BY <1>4
  <2>4. SameCalls(b, down, NumChars, F)
    BY <2>1, <2>2, <2>3 DEF SameCalls
  <2> QED
    BY <2>4, RecursionAgrees
<1>12. NumChars = [n \in Nat |-> NumChars[n]]
  <2>1. DOMAIN NumChars = Nat
    BY <1>9
  <2> QED
    BY <1>9, <2>1
<1>13. NumChars \in [Nat -> Nat \ {0}]
  BY <1>1, <1>11, <1>12
<1> QED
  BY <1>10, <1>13

-----------------------------------------------------------------------------
(* The letters                                                             *)

Fills(f, n, k) ==
    f = [i \in 1..k |-> IF i = k THEN n ELSE (f[i + 1] \div AlphabetSize) - 1]

LEMMA FillsValue ==
    ASSUME NEW n, NEW k \in Nat, NEW f, Fills(f, n, k), NEW i \in 1..k
    PROVE  f[i] = IF i = k THEN n ELSE (f[i + 1] \div AlphabetSize) - 1
BY DEF Fills

LEMMA FillsExtended ==
    ASSUME NEW n, NEW m, NEW k \in Nat, NEW f, Fills(f, m, k),
           k > 0 => m = (n \div AlphabetSize) - 1
    PROVE  Fills([i \in 1..k + 1 |-> IF i = k + 1 THEN n ELSE f[i]], n, k + 1)
<1>2. \A i \in 1..k : f[i] = IF i = k THEN m ELSE (f[i + 1] \div AlphabetSize) - 1
  BY DEF Fills
<1> DEFINE g == [i \in 1..k + 1 |-> IF i = k + 1 THEN n ELSE f[i]]
<1>1. g[k + 1] = n /\ \A i \in 1..k : g[i] = f[i]
  BY SMT
<1>3. DOMAIN g = 1..k + 1 /\ g = [i \in 1..k + 1 |-> g[i]]
  OBVIOUS
<1> HIDE DEF g
<1>4. ASSUME NEW i \in 1..k + 1
      PROVE  g[i] = IF i = k + 1 THEN n ELSE (g[i + 1] \div AlphabetSize) - 1
  <2>1. CASE i = k + 1
    BY <1>1, <2>1
  <2>2. CASE i = k /\ k > 0
    <3>1. k \in 1..k /\ i # k + 1
      BY <2>2
    <3>2. g[i] = m
      BY <1>1, <1>2, <2>2, <3>1
    <3> QED
      BY <1>1, <2>2, <3>1, <3>2
  <2>3. CASE i # k + 1 /\ i # k
    <3>1. i \in 1..k /\ i + 1 \in 1..k
      BY <2>3
    <3> QED
      BY <1>1, <1>2, <2>3, <3>1
  <2> QED
    BY <2>1, <2>2, <2>3
<1> QED
  BY <1>3, <1>4 DEF Fills, g

LEMMA FillsExist ==
    ASSUME NEW N \in Nat
    PROVE  \A n : \E f : Fills(f, n, N)
<1> DEFINE S == {k \in Nat : \A n : \E f : Fills(f, n, k)}
<1>1. 0 \in S
  <2>1. \A n : Fills([i \in 1..0 |-> n], n, 0)
    BY DEF Fills
  <2> QED BY <2>1
<1>2. ASSUME NEW k \in Nat, k \in S PROVE k + 1 \in S
  <2> SUFFICES ASSUME NEW n PROVE \E f : Fills(f, n, k + 1)
    OBVIOUS
  <2>1. PICK m : m = (n \div AlphabetSize) - 1
    OBVIOUS
  <2>2. PICK f : Fills(f, m, k)
    BY <1>2
  <2> HIDE DEF S
  <2> QED
    BY <2>1, <2>2, FillsExtended
<1> HIDE DEF S
<1>3. Nat \subseteq S
  BY <1>1, <1>2, Induction
<1> QED BY <1>3 DEF S

LEMMA FillsAgree ==
    ASSUME NEW k \in Nat, NEW n, NEW f, NEW g, Fills(f, n, k), Fills(g, n, k)
    PROVE  f = g
<1> DEFINE S == {d \in Nat : \A i \in 1..k : k - i = d => f[i] = g[i]}
<1>1. 0 \in S
  BY FillsValue
<1>2. ASSUME NEW d \in Nat, d \in S PROVE d + 1 \in S
  <2> SUFFICES ASSUME NEW i \in 1..k, k - i = d + 1 PROVE f[i] = g[i]
    OBVIOUS
  <2>1. i + 1 \in 1..k /\ k - (i + 1) = d /\ i # k
    OBVIOUS
  <2>2. f[i + 1] = g[i + 1]
    BY <1>2, <2>1
  <2> HIDE DEF S
  <2> QED
    BY <2>1, <2>2, FillsValue
<1> HIDE DEF S
<1>3. Nat \subseteq S
  BY <1>1, <1>2, Induction
<1>4. \A i \in 1..k : f[i] = g[i]
  <2> SUFFICES ASSUME NEW i \in 1..k PROVE f[i] = g[i]
    OBVIOUS
  <2>1. PICK d \in Nat : k - i = d
    OBVIOUS
  <2>2. d \in S
    BY <1>3
  <2> QED
    BY <2>1, <2>2 DEF S
<1>5. DOMAIN f = 1..k /\ DOMAIN g = 1..k /\ f = [i \in 1..k |-> f[i]] /\ g = [i \in 1..k |-> g[i]]
  BY DEF Fills
<1> QED
  BY <1>4, <1>5

LEMMA LettersFill ==
    ASSUME NEW n \in Int, NEW k \in Nat
    PROVE  \E f : Fills(f, n, k) /\ Letters(n, k) = [i \in 1..k |-> f[i] % AlphabetSize]
<1>1. PICK f : Fills(f, n, k)
  BY FillsExist
<1>2. \E g : g = [i \in 1..k |-> IF i = k THEN n ELSE (g[i + 1] \div AlphabetSize) - 1]
  BY <1>1 DEF Fills
<1> QED
  BY <1>2, Zenon DEF Letters, Fills

(* All letters but the last are those of a smaller number.                 *)
LEMMA LettersOfNext ==
    ASSUME NEW n \in Nat, NEW m \in Int, NEW k \in Nat,
           k > 0 => m = (n \div AlphabetSize) - 1
    PROVE  Letters(n, k + 1) = [i \in 1..k + 1 |-> IF i = k + 1 THEN n % AlphabetSize
                                                   ELSE Letters(m, k)[i]]
<1>1. PICK f : Fills(f, n, k + 1)
               /\ Letters(n, k + 1) = [i \in 1..k + 1 |-> f[i] % AlphabetSize]
  <2>1. PICK K \in Nat : K = k + 1
    OBVIOUS
  <2>2. \E f : Fills(f, n, K) /\ Letters(n, K) = [i \in 1..K |-> f[i] % AlphabetSize]
    BY LettersFill
  <2> QED
    BY <2>1, <2>2
<1>2. PICK g : Fills(g, m, k) /\ Letters(m, k) = [i \in 1..k |-> g[i] % AlphabetSize]
  BY LettersFill
<1>3. PICK h : h = [i \in 1..k + 1 |-> IF i = k + 1 THEN n ELSE g[i]]
  OBVIOUS
<1>4. Fills(h, n, k + 1)
  BY <1>2, <1>3, FillsExtended
<1>5. f = h
  BY <1>1, <1>4, FillsAgree
<1>6. \A i \in 1..k + 1 : f[i] % AlphabetSize = IF i = k + 1 THEN n % AlphabetSize
                                                ELSE Letters(m, k)[i]
  <2> SUFFICES ASSUME NEW i \in 1..k + 1
               PROVE  f[i] % AlphabetSize = IF i = k + 1 THEN n % AlphabetSize
                                            ELSE Letters(m, k)[i]
    OBVIOUS
  <2>1. CASE i = k + 1
    BY <1>3, <1>5, <2>1
  <2>2. CASE i # k + 1
    <3>1. i \in 1..k
      BY <2>2
    <3> QED
      BY <1>2, <1>3, <1>5, <2>2, <3>1
  <2> QED
    BY <2>1, <2>2
<1> QED
  BY <1>1, <1>6

-----------------------------------------------------------------------------
(* Names                                                                   *)

Letter == 0..AlphabetSize - 1
Extended(w, r) == [i \in 1..Len(w) + 1 |-> IF i = Len(w) + 1 THEN r ELSE w[i]]

LEMMA NameOfLetter ==
    ASSUME NEW n \in Nat, n < AlphabetSize
    PROVE  GenerateNextPrefix(n) = << n >>
<1>1. NumChars[n] = 1
  BY NumCharsIs
<1>2. PICK f : Fills(f, n, 1) /\ Letters(n, 1) = [i \in 1..1 |-> f[i] % AlphabetSize]
  <2>1. PICK k \in Nat : k = 1
    OBVIOUS
  <2>2. \E f : Fills(f, n, k) /\ Letters(n, k) = [i \in 1..k |-> f[i] % AlphabetSize]
    BY LettersFill
  <2> QED
    BY <2>1, <2>2
<1>3. 1 \in 1..1 /\ f[1] = n
  BY <1>2, FillsValue
<1>4. n % AlphabetSize = n
  BY AlphabetAssumption, Division
<1>5. \A i \in 1..1 : f[i] % AlphabetSize = n
  BY <1>3, <1>4
<1>6. Letters(n, 1) = [i \in 1..1 |-> n]
  BY <1>2, <1>5
<1>7. [i \in 1..1 |-> n] = << n >>
  OBVIOUS
<1> QED
  BY <1>1, <1>6, <1>7 DEF GenerateNextPrefix

LEMMA NameOfMore ==
    ASSUME NEW n \in Nat, NEW m \in Nat, n >= AlphabetSize, m = (n \div AlphabetSize) - 1
    PROVE  GenerateNextPrefix(n) = Extended(GenerateNextPrefix(m), n % AlphabetSize)
<1>1. PICK k \in Nat : k = NumChars[m]
  BY NumCharsIs
<1>2. NumChars[n] = k + 1
  <2>1. ~ (n < AlphabetSize)
    BY AlphabetAssumption
  <2> QED
    BY <1>1, <2>1, NumCharsIs
<1>3. Letters(n, k + 1) = [i \in 1..k + 1 |-> IF i = k + 1 THEN n % AlphabetSize
                                                ELSE Letters(m, k)[i]]
  <2>1. m \in Int
    OBVIOUS
  <2> QED
    BY <2>1, LettersOfNext, ZenonT(20)
<1>4. PICK f : Fills(f, m, k) /\ Letters(m, k) = [i \in 1..k |-> f[i] % AlphabetSize]
  BY LettersFill, SMTT(20)
<1>5. Len(Letters(m, k)) = k
  BY <1>4
<1>6. PICK w : w = Letters(m, k) /\ Len(w) = k
  BY <1>5
<1>7. GenerateNextPrefix(m) = w
  BY <1>1, <1>6 DEF GenerateNextPrefix
<1>8. GenerateNextPrefix(n) = Letters(n, k + 1)
  BY <1>2 DEF GenerateNextPrefix
<1> QED
  BY <1>3, <1>6, <1>7, <1>8 DEF Extended

LEMMA ExtendedType ==
    ASSUME NEW w \in Seq(Letter), NEW r \in Letter
    PROVE  /\ Extended(w, r) \in Seq(Letter) /\ Len(Extended(w, r)) = Len(w) + 1
           /\ Extended(w, r)[Len(w) + 1] = r
           /\ \A i \in 1..Len(w) : Extended(w, r)[i] = w[i]
<1>1. PICK k \in Nat : k = Len(w)
  BY LenProperties
<1>2. \A i \in 1..k : w[i] \in Letter
  BY <1>1, ElementOfSeq
<1>3. PICK e : e = [i \in 1..k + 1 |-> IF i = k + 1 THEN r ELSE w[i]]
  OBVIOUS
<1>4. \A i \in 1..k + 1 : e[i] \in Letter
  <2>1. \A i \in 1..k + 1 : i = k + 1 \/ i \in 1..k
    OBVIOUS
  <2> QED
    BY <1>2, <1>3, <2>1
<1>5. e \in Seq(Letter) /\ Len(e) = k + 1
  BY <1>3, <1>4
<1>6. e[k + 1] = r /\ \A i \in 1..k : e[i] = w[i]
  BY <1>3
<1> QED
  BY <1>1, <1>3, <1>5, <1>6 DEF Extended

LEMMA NameType == ASSUME NEW n \in Nat PROVE GenerateNextPrefix(n) \in Seq(Letter)
<1> DEFINE S == {k \in Nat : GenerateNextPrefix(k) \in Seq(Letter)}
<1>1. ASSUME NEW k \in Nat, \A m \in Nat : m < k => m \in S PROVE k \in S
  <2>1. CASE k < AlphabetSize
    <3>1. k \in Letter
      BY <2>1, AlphabetAssumption DEF Letter
    <3>2. << k >> \in Seq(Letter)
      BY <3>1
    <3> QED
      BY <2>1, <3>2, NameOfLetter
  <2>2. CASE ~ (k < AlphabetSize)
    <3>1. PICK m \in Nat : m = (k \div AlphabetSize) - 1 /\ m < k
      BY <2>2, Shorter, AlphabetAssumption
    <3>2. GenerateNextPrefix(k) = Extended(GenerateNextPrefix(m), k % AlphabetSize)
      BY <2>2, <3>1, NameOfMore, AlphabetAssumption
    <3>3. k % AlphabetSize \in Letter
      BY Division, AlphabetAssumption DEF Letter
    <3>4. GenerateNextPrefix(m) \in Seq(Letter)
      BY <1>1, <3>1
    <3> QED
      BY <3>2, <3>3, <3>4, ExtendedType
  <2> QED
    BY <2>1, <2>2
<1> HIDE DEF S
<1>2. Nat \subseteq S
  BY <1>1, StrongInduction
<1> QED
  BY <1>2 DEF S

(* No two numbers have one name. *)
THEOREM NamesDiffer ==
    \A m, n \in Nat : GenerateNextPrefix(m) = GenerateNextPrefix(n) => m = n
<1> DEFINE S == {n \in Nat : \A m \in Nat : GenerateNextPrefix(m) = GenerateNextPrefix(n) => m = n}
<1>0. ASSUME NEW n \in Nat, n < AlphabetSize
      PROVE  Len(GenerateNextPrefix(n)) = 1 /\ GenerateNextPrefix(n)[1] = n
  <2>1. Len(<< n >>) = 1 /\ << n >>[1] = n
    OBVIOUS
  <2> QED
    BY <1>0, <2>1, NameOfLetter
<1>1. ASSUME NEW n \in Nat, ~ (n < AlphabetSize)
      PROVE  \E p \in Nat, w \in Seq(Letter), r \in Letter :
                 /\ p = (n \div AlphabetSize) - 1 /\ p < n /\ w = GenerateNextPrefix(p)
                 /\ r = n % AlphabetSize /\ GenerateNextPrefix(n) = Extended(w, r)
                 /\ Len(Extended(w, r)) = Len(w) + 1 /\ Len(w) \in Nat \ {0}
  <2>1. PICK p \in Nat : p = (n \div AlphabetSize) - 1 /\ p < n
    BY <1>1, Shorter, AlphabetAssumption
  <2>2. GenerateNextPrefix(n) = Extended(GenerateNextPrefix(p), n % AlphabetSize)
    BY <1>1, <2>1, NameOfMore, AlphabetAssumption
  <2>3. n % AlphabetSize \in Letter
    BY Division, AlphabetAssumption DEF Letter
  <2>4. PICK w \in Seq(Letter) : w = GenerateNextPrefix(p)
    BY NameType
  <2>5. Len(w) \in Nat \ {0}
    <3>1. PICK k \in Nat \ {0} : k = NumChars[p]
      BY NumCharsIs
    <3>2. PICK f : Fills(f, p, k) /\ Letters(p, k) = [i \in 1..k |-> f[i] % AlphabetSize]
      BY LettersFill
    <3>3. w = [i \in 1..k |-> f[i] % AlphabetSize]
      BY <2>4, <3>1, <3>2 DEF GenerateNextPrefix
    <3> QED
      BY <3>3
  <2>6. Len(Extended(w, n % AlphabetSize)) = Len(w) + 1
    BY <2>3, ExtendedType
  <2> QED
    BY <2>1, <2>2, <2>3, <2>4, <2>5, <2>6
<1>2. ASSUME NEW n \in Nat, \A k \in Nat : k < n => k \in S PROVE n \in S
  <2> SUFFICES ASSUME NEW m \in Nat, GenerateNextPrefix(m) = GenerateNextPrefix(n) PROVE m = n
    OBVIOUS
  <2> HIDE DEF S
  <2>1. CASE m < AlphabetSize /\ n < AlphabetSize
    BY <1>0, <2>1
  <2>2. CASE m < AlphabetSize /\ ~ (n < AlphabetSize)
    <3>1. Len(GenerateNextPrefix(m)) = 1
      BY <1>0, <2>2
    <3>2. PICK w \in Seq(Letter), r \in Letter :
              /\ GenerateNextPrefix(n) = Extended(w, r)
              /\ Len(Extended(w, r)) = Len(w) + 1 /\ Len(w) \in Nat \ {0}
      BY <1>1, <2>2, Zenon
    <3> QED
      BY <3>1, <3>2, SMTT(20)
  <2>3. CASE ~ (m < AlphabetSize) /\ n < AlphabetSize
    <3>1. Len(GenerateNextPrefix(n)) = 1
      BY <1>0, <2>3
    <3>2. PICK w \in Seq(Letter), r \in Letter :
              /\ GenerateNextPrefix(m) = Extended(w, r)
              /\ Len(Extended(w, r)) = Len(w) + 1 /\ Len(w) \in Nat \ {0}
      BY <1>1, <2>3, Zenon
    <3> QED
      BY <3>1, <3>2
  <2>4. CASE ~ (m < AlphabetSize) /\ ~ (n < AlphabetSize)
    <3>1. PICK p \in Nat, w \in Seq(Letter), r \in Letter :
              /\ p = (n \div AlphabetSize) - 1 /\ p < n /\ w = GenerateNextPrefix(p)
              /\ r = n % AlphabetSize /\ GenerateNextPrefix(n) = Extended(w, r)
              /\ Len(Extended(w, r)) = Len(w) + 1 /\ Len(w) \in Nat \ {0}
      BY <1>1, <2>4
    <3>2. PICK q \in Nat, v \in Seq(Letter), s \in Letter :
              /\ q = (m \div AlphabetSize) - 1 /\ q < m /\ v = GenerateNextPrefix(q)
              /\ s = m % AlphabetSize /\ GenerateNextPrefix(m) = Extended(v, s)
              /\ Len(Extended(v, s)) = Len(v) + 1 /\ Len(v) \in Nat \ {0}
      BY <1>1, <2>4
    <3>0. Len(v) = Len(w) /\ Extended(v, s) = Extended(w, r)
      BY <3>1, <3>2
    <3>a. PICK k \in Nat : k = Len(v) /\ k = Len(w)
      BY <3>0, <3>1
    <3>3. PICK e : e = Extended(v, s) /\ e = Extended(w, r) /\ k = Len(v) /\ k = Len(w)
      BY <3>0, <3>a
    <3>9. /\ e[k + 1] = s /\ \A i \in 1..k : e[i] = v[i]
          /\ e[k + 1] = r /\ \A i \in 1..k : e[i] = w[i]
      <4>1. /\ Extended(v, s)[Len(v) + 1] = s
            /\ \A i \in 1..Len(v) : Extended(v, s)[i] = v[i]
        BY ExtendedType
      <4>2. /\ Extended(w, r)[Len(w) + 1] = r
            /\ \A i \in 1..Len(w) : Extended(w, r)[i] = w[i]
        BY ExtendedType
      <4> QED
        BY <3>3, <4>1, <4>2
    <3>4. s = r
      BY <3>9
    <3>5. \A i \in 1..Len(w) : v[i] = w[i]
      BY <3>3, <3>9
    <3>6. v = w
      BY <3>3, <3>5, SeqEqual
    <3>7. q = p
      BY <1>2, <3>1, <3>2, <3>6 DEF S
    <3>8. m \div AlphabetSize = n \div AlphabetSize
      <4>1. PICK a, b \in Nat : a = m \div AlphabetSize /\ b = n \div AlphabetSize
        BY Division, AlphabetAssumption
      <4> QED
        BY <3>1, <3>2, <3>7, <4>1, SMTT(20)
    <3> QED
      <4>1. PICK d \in Nat \ {0} : d = AlphabetSize
        BY AlphabetAssumption
      <4>2. m = (d * (m \div d)) + (m % d) /\ n = (d * (n \div d)) + (n % d)
        BY Division
      <4> QED
        BY <3>1, <3>2, <3>4, <3>8, <4>1, <4>2
  <2> QED
    BY <2>1, <2>2, <2>3, <2>4
<1> HIDE DEF S
<1>3. Nat \subseteq S
  BY <1>2, StrongInduction
<1> QED
  BY <1>3 DEF S

-----------------------------------------------------------------------------
(* The order of names                                                      *)

LastLetter == AlphabetSize - 1
Full(w) == {i \in 1..Len(w) : \A j \in i..Len(w) : w[j] = LastLetter}
Stepped(w, k) ==
    IF k = 0 THEN [i \in 1..Len(w) + 1 |-> 0]
    ELSE [i \in 1..Len(w) |-> IF i < k THEN w[i] ELSE IF i = k THEN w[i] + 1 ELSE 0]

LEMMA FollowingIs ==
    ASSUME NEW w
    PROVE  Following(w) = Stepped(w, Len(w) - Cardinality(Full(w)))
BY DEF Following, Stepped, Full, LastLetter

LEMMA FullFinite ==
    ASSUME NEW w \in Seq(Letter)
    PROVE  IsFiniteSet(Full(w)) /\ Cardinality(Full(w)) \in 0..Len(w)
<1>1. PICK k \in Nat : k = Len(w)
  BY LenProperties
<1>2. IsFiniteSet(1..k) /\ Cardinality(1..k) = k
  <2>1. 1 \in Int /\ k \in Int
    OBVIOUS
  <2>2. IsFiniteSet(1..k) /\ Cardinality(1..k) = IF 1 > k THEN 0 ELSE k - 1 + 1
    BY <2>1, FS_Interval
  <2> QED
    BY <2>2
<1>3. PICK F : F = Full(w) /\ F \subseteq 1..k
  BY <1>1 DEF Full
<1>4. IsFiniteSet(F) /\ Cardinality(F) <= k
  BY <1>2, <1>3, FS_Subset
<1>5. Cardinality(F) \in Nat
  BY <1>4, FS_CardinalityType
<1> QED
  BY <1>1, <1>3, <1>4, <1>5

LEMMA FullExtended ==
    ASSUME NEW w \in Seq(Letter), NEW r \in Letter
    PROVE  Full(Extended(w, r)) = IF r = LastLetter THEN Full(w) \cup {Len(w) + 1} ELSE {}
<1>1. PICK k \in Nat : k = Len(w)
  BY LenProperties
<1>2. PICK e : e = Extended(w, r)
  OBVIOUS
<1>3. Len(e) = k + 1 /\ e[k + 1] = r /\ \A i \in 1..k : e[i] = w[i]
  <2>1. /\ Len(Extended(w, r)) = Len(w) + 1
        /\ Extended(w, r)[Len(w) + 1] = r
        /\ \A i \in 1..Len(w) : Extended(w, r)[i] = w[i]
    BY ExtendedType
  <2> QED
    BY <1>1, <1>2, <2>1
<1>4. CASE r # LastLetter
  <2>1. ASSUME NEW i \in 1..k + 1, \A j \in i..k + 1 : e[j] = LastLetter PROVE FALSE
    <3>1. k + 1 \in i..k + 1
      OBVIOUS
    <3> QED
      BY <1>3, <1>4, <2>1, <3>1
  <2> QED
    BY <1>2, <1>3, <1>4, <2>1 DEF Full
<1>5. CASE r = LastLetter
  <2>1. ASSUME NEW i \in 1..k, \A j \in i..k + 1 : e[j] = LastLetter
        PROVE  \A j \in i..k : w[j] = LastLetter
    <3> SUFFICES ASSUME NEW j \in i..k PROVE w[j] = LastLetter
      OBVIOUS
    <3>1. j \in i..k + 1 /\ j \in 1..k
      OBVIOUS
    <3> QED
      BY <1>3, <2>1, <3>1
  <2>2. ASSUME NEW i \in 1..k, \A j \in i..k : w[j] = LastLetter
        PROVE  \A j \in i..k + 1 : e[j] = LastLetter
    <3> SUFFICES ASSUME NEW j \in i..k + 1 PROVE e[j] = LastLetter
      OBVIOUS
    <3>1. j = k + 1 \/ (j \in i..k /\ j \in 1..k)
      OBVIOUS
    <3> QED
      BY <1>3, <1>5, <2>2, <3>1
  <2>3. \A j \in (k + 1)..(k + 1) : e[j] = LastLetter
    BY <1>3, <1>5
  <2>4. Full(e) = {i \in 1..k + 1 : \A j \in i..k + 1 : e[j] = LastLetter}
    BY <1>3 DEF Full
  <2>5. Full(w) = {i \in 1..k : \A j \in i..k : w[j] = LastLetter}
    BY <1>1 DEF Full
  <2>6. \A i \in 1..k + 1 : i \in 1..k \/ i = k + 1
    OBVIOUS
  <2>7. \A i : i \in Full(e) <=> i \in Full(w) \cup {k + 1}
    <3> SUFFICES ASSUME NEW i PROVE i \in Full(e) <=> i \in Full(w) \cup {k + 1}
      OBVIOUS
    <3>1. CASE i \in 1..k
      <4>1. i \in 1..k + 1 /\ i # k + 1
        BY <3>1
      <4> QED
        BY <2>1, <2>2, <2>4, <2>5, <3>1, <4>1
    <3>2. CASE i = k + 1
      <4>1. k + 1 \in 1..k + 1
        OBVIOUS
      <4> QED
        BY <2>3, <2>4, <3>2, <4>1
    <3>3. CASE i \notin 1..k /\ i # k + 1
      BY <2>4, <2>5, <2>6, <3>3
    <3> QED
      BY <3>1, <3>2, <3>3
  <2> QED
    BY <1>1, <1>2, <1>5, <2>7
<1> QED
  BY <1>4, <1>5

LEMMA FollowingOfLast ==
    ASSUME NEW w \in Seq(Letter)
    PROVE  Following(Extended(w, LastLetter)) = Extended(Following(w), 0)
<1>1. PICK k \in Nat : k = Len(w)
  BY LenProperties
<1>2. LastLetter \in Letter
  BY AlphabetAssumption DEF LastLetter, Letter
<1>3. PICK e : e = Extended(w, LastLetter)
  OBVIOUS
<1>4. Len(e) = k + 1 /\ \A i \in 1..k : e[i] = w[i]
  <2>1. /\ Len(Extended(w, LastLetter)) = Len(w) + 1
        /\ \A i \in 1..Len(w) : Extended(w, LastLetter)[i] = w[i]
    BY <1>2, ExtendedType
  <2> QED
    BY <1>1, <1>3, <2>1
<1>5. PICK F : F = Full(w) /\ IsFiniteSet(F) /\ Cardinality(F) \in 0..k /\ k + 1 \notin F
  <2>1. k + 1 \notin Full(w)
    BY <1>1 DEF Full
  <2> QED
    BY <1>1, <2>1, FullFinite
<1>6. Full(e) = F \cup {k + 1}
  BY <1>1, <1>2, <1>3, <1>5, FullExtended
<1>7. Cardinality(Full(e)) = Cardinality(F) + 1
  BY <1>5, <1>6, FS_AddElement
<1>8. PICK p \in 0..k : p = k - Cardinality(F)
  BY <1>5
<1>9. Following(w) = Stepped(w, p)
  BY <1>1, <1>5, <1>8, FollowingIs
<1>10. Following(e) = Stepped(e, p)
  <2>1. Len(e) - Cardinality(Full(e)) = p
    BY <1>4, <1>5, <1>7, <1>8
  <2> QED
    BY <2>1, FollowingIs
<1>11. CASE p = 0
  <2>1. Stepped(w, p) = [i \in 1..k + 1 |-> 0]
    BY <1>1, <1>11 DEF Stepped
  <2>2. PICK v : v = [i \in 1..k + 1 |-> 0]
    OBVIOUS
  <2>3. Len(v) = k + 1
    BY <2>2
  <2>4. Extended(v, 0) = [i \in 1..(k + 1) + 1 |-> IF i = (k + 1) + 1 THEN 0 ELSE v[i]]
    BY <2>3 DEF Extended
  <2>5. \A i \in 1..(k + 1) + 1 : (IF i = (k + 1) + 1 THEN 0 ELSE v[i]) = 0
    <3>1. \A i \in 1..(k + 1) + 1 : i = (k + 1) + 1 \/ i \in 1..k + 1
      OBVIOUS
    <3> QED
      BY <2>2, <3>1
  <2>6. Stepped(e, p) = [i \in 1..(k + 1) + 1 |-> 0]
    BY <1>4, <1>11 DEF Stepped
  <2> QED
    BY <1>3, <1>9, <1>10, <2>1, <2>2, <2>4, <2>5, <2>6
<1>12. CASE p # 0
  <2>1. PICK v : v = [i \in 1..k |-> IF i < p THEN w[i] ELSE IF i = p THEN w[i] + 1 ELSE 0]
    OBVIOUS
  <2>2. Stepped(w, p) = v /\ Len(v) = k
    BY <1>1, <1>12, <2>1 DEF Stepped
  <2>3. Extended(v, 0) = [i \in 1..k + 1 |-> IF i = k + 1 THEN 0 ELSE v[i]]
    BY <2>2 DEF Extended
  <2>4. Stepped(e, p) = [i \in 1..k + 1 |-> IF i < p THEN e[i] ELSE IF i = p THEN e[i] + 1 ELSE 0]
    BY <1>4, <1>12 DEF Stepped
  <2>5. ASSUME NEW i \in 1..k + 1
        PROVE  (IF i = k + 1 THEN 0 ELSE v[i])
                   = (IF i < p THEN e[i] ELSE IF i = p THEN e[i] + 1 ELSE 0)
    <3>1. CASE i = k + 1
      BY <3>1
    <3>2. CASE i # k + 1
      <4>1. i \in 1..k
        BY <3>2
      <4>2. e[i] = w[i] /\ v[i] = IF i < p THEN w[i] ELSE IF i = p THEN w[i] + 1 ELSE 0
        BY <1>4, <2>1, <4>1
      <4> QED
        BY <3>2, <4>2
    <3> QED
      BY <3>1, <3>2
  <2> QED
    BY <1>3, <1>9, <1>10, <2>2, <2>3, <2>4, <2>5
<1> QED
  BY <1>11, <1>12

LEMMA FollowingOfOther ==
    ASSUME NEW w \in Seq(Letter), NEW r \in Letter, r # LastLetter
    PROVE  Following(Extended(w, r)) = Extended(w, r + 1)
<1>1. PICK k \in Nat : k = Len(w)
  BY LenProperties
<1>2. PICK e : e = Extended(w, r)
  OBVIOUS
<1>3. Len(e) = k + 1 /\ e[k + 1] = r /\ \A i \in 1..k : e[i] = w[i]
  <2>1. /\ Len(Extended(w, r)) = Len(w) + 1
        /\ Extended(w, r)[Len(w) + 1] = r
        /\ \A i \in 1..Len(w) : Extended(w, r)[i] = w[i]
    BY ExtendedType
  <2> QED
    BY <1>1, <1>2, <2>1
<1>4. Cardinality(Full(e)) = 0
  BY <1>2, FullExtended, FS_EmptySet
<1>5. Following(e) = Stepped(e, k + 1)
  <2>1. Len(e) - Cardinality(Full(e)) = k + 1
    BY <1>3, <1>4
  <2> QED
    BY <2>1, FollowingIs
<1>6. Stepped(e, k + 1)
          = [i \in 1..k + 1 |-> IF i < k + 1 THEN e[i] ELSE IF i = k + 1 THEN e[i] + 1 ELSE 0]
  <2>1. k + 1 # 0
    OBVIOUS
  <2> QED
    BY <1>3, <2>1 DEF Stepped
<1>7. ASSUME NEW i \in 1..k + 1
      PROVE  (IF i < k + 1 THEN e[i] ELSE IF i = k + 1 THEN e[i] + 1 ELSE 0)
                 = (IF i = k + 1 THEN r + 1 ELSE w[i])
  <2>1. i = k + 1 \/ (i \in 1..k /\ i < k + 1 /\ i # k + 1)
    OBVIOUS
  <2> QED
    BY <1>3, <2>1
<1>8. Extended(w, r + 1) = [i \in 1..k + 1 |-> IF i = k + 1 THEN r + 1 ELSE w[i]]
  BY <1>1 DEF Extended
<1> QED
  BY <1>2, <1>5, <1>6, <1>7, <1>8

LEMMA ExtendedEmpty ==
    ASSUME NEW r
    PROVE  Extended(<< >>, r) = << r >> /\ << >> \in Seq(Letter)
<1>1. Len(<< >>) = 0 /\ << >> \in Seq(Letter)
  OBVIOUS
<1>2. PICK k \in Nat : k = 0
  OBVIOUS
<1>3. Extended(<< >>, r) = [i \in 1..k + 1 |-> IF i = k + 1 THEN r ELSE << >>[i]]
  BY <1>1, <1>2 DEF Extended
<1>4. \A i \in 1..k + 1 : i = k + 1
  BY <1>2
<1>5. Extended(<< >>, r) = [i \in 1..k + 1 |-> r]
  BY <1>3, <1>4
<1>6. [i \in 1..1 |-> r] = << r >>
  OBVIOUS
<1>7. k + 1 = 1
  BY <1>2
<1> QED
  BY <1>1, <1>5, <1>6, <1>7

LEMMA FollowingEmpty == Following(<< >>) = << 0 >>
<1>1. Full(<< >>) = {}
  <2>1. 1..Len(<< >>) = {}
    OBVIOUS
  <2> QED
    BY <2>1 DEF Full
<1>2. Cardinality(Full(<< >>)) = 0 /\ Len(<< >>) = 0
  BY <1>1, FS_EmptySet
<1>3. Following(<< >>) = Stepped(<< >>, 0)
  <2>1. Len(<< >>) - Cardinality(Full(<< >>)) = 0
    BY <1>2
  <2> QED
    BY <2>1, FollowingIs
<1>4. Stepped(<< >>, 0) = [i \in 1..1 |-> 0]
  BY <1>2 DEF Stepped
<1> QED
  BY <1>3, <1>4

(* A name made of a number is followed by that made of the next, for any   *)
(* alphabet of two letters and more: the numerals have no gaps.            *)
THEOREM NamesInOrder ==
    \A n \in Nat : GenerateNextPrefix(n + 1) = Following(GenerateNextPrefix(n))
<1> DEFINE S == {n \in Nat : GenerateNextPrefix(n + 1) = Following(GenerateNextPrefix(n))}
<1>a. PICK d \in Nat \ {0, 1} : d = AlphabetSize
  BY AlphabetAssumption
<1>b. LastLetter = d - 1 /\ LastLetter \in Letter /\ 0 \in Letter
  BY <1>a DEF LastLetter, Letter
<1>1. ASSUME NEW n \in Nat, \A m \in Nat : m < n => m \in S PROVE n \in S
  <2> PICK N \in Nat : N = n + 1
    OBVIOUS
  <2> SUFFICES GenerateNextPrefix(N) = Following(GenerateNextPrefix(n))
    OBVIOUS
  <2>1. CASE N < d
    <3>1. GenerateNextPrefix(n) = Extended(<< >>, n) /\ GenerateNextPrefix(N) = Extended(<< >>, N)
      <4>1. n < d
        BY <2>1
      <4> QED
        BY <1>a, <2>1, <4>1, NameOfLetter, ExtendedEmpty
    <3>2. n \in Letter /\ n # LastLetter
      BY <1>a, <1>b, <2>1 DEF Letter
    <3>3. << >> \in Seq(Letter)
      OBVIOUS
    <3>4. Following(Extended(<< >>, n)) = Extended(<< >>, n + 1)
      BY <3>2, <3>3, FollowingOfOther
    <3> QED
      BY <3>1, <3>4
  <2>2. CASE N = d
    <3>1. GenerateNextPrefix(n) = Extended(<< >>, n) /\ n = LastLetter
      <4>1. n < d
        BY <2>2
      <4> QED
        BY <1>a, <1>b, <2>2, <4>1, NameOfLetter, ExtendedEmpty
    <3>2. << >> \in Seq(Letter)
      OBVIOUS
    <3>3. Following(Extended(<< >>, LastLetter)) = Extended(<< 0 >>, 0)
      BY <3>2, FollowingOfLast, FollowingEmpty
    <3>4. N \div d = 1 /\ N % d = 0
      <4>1. (d * 1) + 0 = N /\ 0 \in 0..d - 1 /\ 1 \in Int
        BY <2>2
      <4>2. ((d * 1) + 0) % d = 0 /\ ((d * 1) + 0) \div d = 1
        BY <4>1, DivisionUnique
      <4> QED
        BY <4>1, <4>2
    <3>5. GenerateNextPrefix(N) = Extended(GenerateNextPrefix(0), 0)
      <4>1. PICK z \in Nat : z = 0 /\ z = (N \div AlphabetSize) - 1 /\ N >= AlphabetSize
        BY <1>a, <2>2, <3>4
      <4>2. GenerateNextPrefix(N) = Extended(GenerateNextPrefix(z), N % AlphabetSize)
        BY <4>1, NameOfMore
      <4> QED
        BY <1>a, <3>4, <4>1, <4>2
    <3>6. GenerateNextPrefix(0) = << 0 >>
      <4>1. PICK z \in Nat : z = 0 /\ z < AlphabetSize
        BY <1>a
      <4>2. GenerateNextPrefix(z) = << z >>
        BY <4>1, NameOfLetter
      <4> QED
        BY <4>1, <4>2
    <3> QED
      BY <3>1, <3>3, <3>5, <3>6
  <2>3. CASE N > d
    <3>0. n >= AlphabetSize /\ N >= AlphabetSize
      BY <1>a, <2>3
    <3>1. PICK m \in Nat : m = (n \div AlphabetSize) - 1 /\ m < n
      BY <3>0, Shorter
    <3>2. PICK w \in Seq(Letter) : w = GenerateNextPrefix(m)
      BY <3>1, NameType
    <3>3. PICK r \in Letter : r = n % AlphabetSize
      BY <1>a, Division DEF Letter
    <3>4. GenerateNextPrefix(n) = Extended(w, r)
      BY <3>0, <3>1, <3>2, <3>3, NameOfMore
    <3>5. CASE r # LastLetter
      <4>1. N % AlphabetSize = r + 1 /\ N \div AlphabetSize = n \div AlphabetSize
        <5>1. n % d = r /\ n % d # d - 1 /\ d = AlphabetSize
          BY <1>a, <1>b, <3>3, <3>5
        <5>2. (n + 1) % d = (n % d) + 1 /\ (n + 1) \div d = n \div d
          BY <5>1, DivisionOfNext
        <5> QED
          BY <1>b, <5>1, <5>2
      <4>2. m = (N \div AlphabetSize) - 1
        BY <3>1, <4>1
      <4>3. GenerateNextPrefix(N) = Extended(w, r + 1)
        BY <3>0, <3>2, <4>1, <4>2, NameOfMore
      <4> QED
        BY <3>4, <3>5, <4>3, FollowingOfOther
    <3>6. CASE r = LastLetter
      <4>1. N % AlphabetSize = 0 /\ N \div AlphabetSize = (n \div AlphabetSize) + 1
        <5>1. n % d = d - 1 /\ d = AlphabetSize
          BY <1>a, <1>b, <3>3, <3>6
        <5>2. (n + 1) % d = 0 /\ (n + 1) \div d = (n \div d) + 1
          BY <5>1, DivisionOfNext
        <5> QED
          BY <1>b, <5>1, <5>2
      <4>2. PICK M \in Nat : M = m + 1 /\ M = (N \div AlphabetSize) - 1
        <5>1. PICK q \in Nat : q = n \div AlphabetSize
          BY <1>a, Division
        <5> QED
          BY <3>1, <4>1, <5>1
      <4>3. GenerateNextPrefix(N) = Extended(GenerateNextPrefix(M), 0)
        BY <3>0, <4>1, <4>2, NameOfMore
      <4>4. GenerateNextPrefix(M) = Following(w)
        BY <1>1, <3>1, <3>2, <4>2
      <4> QED
        BY <3>4, <3>6, <4>3, <4>4, FollowingOfLast
    <3> QED
      BY <3>5, <3>6
  <2> QED
    BY <2>1, <2>2, <2>3
<1> HIDE DEF S
<1>2. Nat \subseteq S
  BY <1>1, StrongInduction
<1> QED
  BY <1>2 DEF S

-----------------------------------------------------------------------------
(* The runs                                                                *)

LEMMA LargestNumber == MaxInt32 \in Nat /\ MaxInt32 < 2147483648
BY DEF MaxInt32

LEMMA NumberInvariant == Spec => [](number \in 0..MaxInt32)
<1>0. /\ MaxInt32 \in Nat /\ MaxNumber \in Nat /\ MaxNumber <= MaxInt32
      /\ EdgeNumbers \subseteq 0..MaxInt32
  BY NumbersAssumption, LargestNumber
<1>1. Init => number \in 0..MaxInt32
  BY <1>0 DEF Init
<1>2. number \in 0..MaxInt32 /\ [Next]_vars => (number \in 0..MaxInt32)'
  <2> SUFFICES ASSUME number \in 0..MaxInt32, [Next]_vars PROVE number' \in 0..MaxInt32
    BY LargestNumber
  <2>1. CASE Type
    BY <2>1 DEF Type
  <2>2. CASE Count
    <3>1. CASE number < MaxNumber /\ number' = number + 1
      BY <1>0, <3>1
    <3>2. CASE number' \in EdgeNumbers
      BY <1>0, <3>2, Zenon
    <3> QED
      BY <2>2, <3>1, <3>2 DEF Count
  <2>3. CASE Build
    <3>1. UNCHANGED number
      BY <2>3, Zenon DEF Build
    <3> QED
      BY <3>1
  <2>4. CASE UNCHANGED vars
    BY <2>4 DEF vars
  <2> QED
    BY <2>1, <2>2, <2>3, <2>4 DEF Next
<1> QED
  BY <1>1, <1>2, PTL DEF Spec

(* The prefixes XmlWriter makes up follow each other without a gap, up to  *)
(* any number of them.                                                     *)
THEOREM InOrderCorrect == Spec => []InOrder
<1>1. number \in Nat => InOrder
  <2> SUFFICES ASSUME number \in Nat, number > 0
               PROVE  GenerateNextPrefix(number) = Following(GenerateNextPrefix(number - 1))
    BY DEF InOrder
  <2>1. PICK n \in Nat : n = number - 1 /\ number = n + 1
    OBVIOUS
  <2> QED
    BY <2>1, NamesInOrder
<1>2. number \in 0..MaxInt32 => number \in Nat
  BY LargestNumber
<1> QED
  BY <1>1, <1>2, NumberInvariant, PTL

-----------------------------------------------------------------------------
(* Numbers and their digits                                                *)

ValueStep(s, b, f, n) == IF n = 0 THEN 0 ELSE b * f[n - 1] - s[n]
Values(f, s, b, N) == f = [i \in 0..N |-> ValueStep(s, b, f, i)]

LEMMA ValuesExist ==
    ASSUME NEW s, NEW b, NEW N \in Nat
    PROVE  \E f : Values(f, s, b, N)
<1> DEFINE S == {k \in Nat : \E f : Values(f, s, b, k)}
<1>1. 0 \in S
  <2>1. Values([n \in 0..0 |-> 0], s, b, 0)
    BY DEF Values, ValueStep
  <2> QED BY <2>1
<1>2. ASSUME NEW k \in Nat, k \in S PROVE k + 1 \in S
  <2>1. PICK f : Values(f, s, b, k)
    BY <1>2
  <2> DEFINE g == [n \in 0..(k + 1) |-> IF n = k + 1 THEN ValueStep(s, b, f, k + 1) ELSE f[n]]
  <2>2. \A n \in 0..k : g[n] = f[n]
    BY SMT
  <2>3. \A n \in 0..k : f[n] = ValueStep(s, b, f, n)
    BY <2>1 DEF Values
  <2>4. \A n \in 0..(k + 1) : g[n] = ValueStep(s, b, g, n)
    <3> SUFFICES ASSUME NEW n \in 0..(k + 1) PROVE g[n] = ValueStep(s, b, g, n)
      OBVIOUS
    <3>1. n # 0 => n - 1 \in 0..k
      OBVIOUS
    <3>2. n # 0 => g[n - 1] = f[n - 1]
      BY <3>1, <2>2
    <3>3. g[n] = ValueStep(s, b, f, n)
      BY <2>3
    <3> QED BY <3>2, <3>3 DEF ValueStep
  <2> HIDE DEF g
  <2>5. Values(g, s, b, k + 1)
    BY <2>4 DEF Values, g
  <2> QED BY <2>5
<1> HIDE DEF S
<1>3. Nat \subseteq S
  BY <1>1, <1>2, Induction
<1> QED BY <1>3 DEF S

LEMMA ValuesType ==
    ASSUME NEW s \in Seq(Int), NEW b \in Int, NEW f, NEW N \in Nat, N <= Len(s), Values(f, s, b, N)
    PROVE  \A n \in 0..N : f[n] \in Int
<1> DEFINE S == {n \in Nat : n <= N => f[n] \in Int}
<1>1. 0 \in S
  BY DEF Values, ValueStep
<1>2. ASSUME NEW n \in Nat, n \in S PROVE n + 1 \in S
  <2> SUFFICES ASSUME n + 1 <= N PROVE f[n + 1] \in Int
    OBVIOUS
  <2>1. PICK k \in Nat : k = n + 1 /\ k \in 0..N /\ k # 0 /\ k - 1 = n
    OBVIOUS
  <2>2. f[n] \in Int
    BY <1>2, <2>1
  <2>3. s[k] \in Int
    <3>1. Len(s) \in Nat
      BY LenProperties
    <3>2. k \in 1..Len(s)
      BY <2>1, <3>1
    <3> QED
      BY <3>2, ElementOfSeq
  <2> HIDE DEF S
  <2>4. f[k] = b * f[n] - s[k]
    BY <2>1 DEF Values, ValueStep
  <2> QED
    BY <2>1, <2>2, <2>3, <2>4
<1> HIDE DEF S
<1>3. Nat \subseteq S
  BY <1>1, <1>2, Induction
<1> QED
  BY <1>3 DEF S

LEMMA ValuesAgree ==
    ASSUME NEW s, NEW t, NEW b, NEW f, NEW g, NEW M \in Nat, NEW N \in Nat, M <= N,
           Values(f, s, b, M), Values(g, t, b, N), \A i \in 1..M : s[i] = t[i]
    PROVE  f[M] = g[M]
<1> DEFINE S == {n \in Nat : n <= M => f[n] = g[n]}
<1>1. 0 \in S
  BY DEF Values, ValueStep
<1>2. ASSUME NEW n \in Nat, n \in S PROVE n + 1 \in S
  <2> SUFFICES ASSUME n + 1 <= M PROVE f[n + 1] = g[n + 1]
    OBVIOUS
  <2>1. PICK k \in Nat : k = n + 1 /\ k \in 0..M /\ k \in 0..N /\ k # 0 /\ k - 1 = n /\ k \in 1..M
    OBVIOUS
  <2>2. f[k] = b * f[k - 1] - s[k] /\ g[k] = b * g[k - 1] - t[k]
    BY <2>1 DEF Values, ValueStep
  <2>3. f[n] = g[n] /\ s[k] = t[k]
    BY <1>2, <2>1
  <2> HIDE DEF S
  <2> QED
    BY <2>1, <2>2, <2>3
<1> HIDE DEF S
<1>3. Nat \subseteq S
  BY <1>1, <1>2, Induction
<1> QED
  BY <1>3 DEF S

LEMMA ValueIs ==
    ASSUME NEW s, NEW b, Len(s) \in Nat
    PROVE  \E f : Values(f, s, b, Len(s)) /\ ValueOf(s, b) = f[Len(s)]
<1>1. \E g : Values(g, s, b, Len(s))
  BY ValuesExist
<1>2. \E g : g = [i \in 0..Len(s) |-> IF i = 0 THEN 0 ELSE b * g[i - 1] - s[i]]
  BY <1>1, Zenon DEF Values, ValueStep
<1> QED
  BY <1>2, Zenon DEF ValueOf, Values, ValueStep

LEMMA ValueType ==
    ASSUME NEW s \in Seq(Int), NEW b \in Int
    PROVE  ValueOf(s, b) \in Int
<1>1. PICK N \in Nat : N = Len(s)
  BY LenProperties
<1>2. PICK f : Values(f, s, b, N) /\ ValueOf(s, b) = f[N]
  BY <1>1, ValueIs
<1>3. N \in 0..N /\ N <= Len(s)
  BY <1>1
<1> QED
  BY <1>2, <1>3, ValuesType

LEMMA ValueAppended ==
    ASSUME NEW s \in Seq(Int), NEW d \in Int, NEW b \in Int
    PROVE  ValueOf(Append(s, d), b) = b * ValueOf(s, b) - d
<1>1. PICK N \in Nat : N = Len(s)
  BY LenProperties
<1>2. PICK t \in Seq(Int) : t = Append(s, d)
  BY AppendProperties
<1>3. Len(t) = N + 1 /\ t[N + 1] = d /\ \A i \in 1..N : t[i] = s[i]
  BY <1>1, <1>2, AppendProperties
<1>4. PICK f : Values(f, s, b, N) /\ ValueOf(s, b) = f[N]
  BY <1>1, ValueIs
<1>5. PICK K \in Nat : K = N + 1
  OBVIOUS
<1>6. PICK g : Values(g, t, b, K) /\ ValueOf(t, b) = g[K]
  BY <1>3, <1>5, ValueIs
<1>7. f[N] = g[N]
  <2>1. N <= K /\ \A i \in 1..N : s[i] = t[i]
    BY <1>3, <1>5
  <2>2. Values(f, s, b, N) /\ Values(g, t, b, K)
    BY <1>4, <1>6
  <2> QED
    BY <2>1, <2>2, ValuesAgree
<1>8. g[K] = b * g[N] - t[K]
  <2>1. K \in 0..K /\ K # 0 /\ K - 1 = N
    BY <1>5
  <2> QED
    BY <1>6, <2>1 DEF Values, ValueStep
<1> QED
  BY <1>2, <1>3, <1>4, <1>5, <1>6, <1>7, <1>8

LEMMA ValueOfDigit ==
    ASSUME NEW d \in Int, NEW b \in Int
    PROVE  ValueOf(<< d >>, b) = -d
<1>0. << d >> \in Seq(Int) /\ Len(<< d >>) = 1 /\ << d >>[1] = d
  OBVIOUS
<1>1. PICK t : t = << d >> /\ t \in Seq(Int) /\ Len(t) = 1 /\ t[1] = d
  BY <1>0
<1>2. PICK f : Values(f, t, b, 1) /\ ValueOf(t, b) = f[1]
  BY <1>1, ValueIs
<1>3. f[0] = 0 /\ f[1] = b * f[0] - t[1]
  <2>1. 0 \in 0..1 /\ 1 \in 0..1
    OBVIOUS
  <2> QED
    BY <1>2, <2>1 DEF Values, ValueStep
<1> QED
  BY <1>1, <1>2, <1>3

-----------------------------------------------------------------------------
(* The loop that writes digits backwards                                   *)

Writes(f, B) ==
    f = [n \in Nat |-> IF n < B THEN << n >> ELSE Append(f[n \div B], n % B)]

LEMMA Quotient ==
    ASSUME NEW B \in Nat \ {0, 1}, NEW n \in Nat, n >= B
    PROVE  \E m \in Nat : m = n \div B /\ m < n /\ m >= 1 /\ n = (B * m) + (n % B)
<1>1. B \in Nat \ {0} /\ B > 1 /\ n > 0
  OBVIOUS
<1>2. PICK m : m = n \div B
  OBVIOUS
<1>3. n \div B \in Nat /\ n \div B < n /\ n \div B >= 1 /\ n = (B * (n \div B)) + (n % B)
  BY <1>1, Division
<1>4. m \in Nat /\ m < n /\ m >= 1 /\ n = (B * m) + (n % B)
  BY <1>2, <1>3
<1> QED
  BY <1>2, <1>4

LEMMA WritingExists ==
    ASSUME NEW B \in Nat \ {0, 1}
    PROVE  \E f \in [Nat -> Seq(0..B - 1)] : Writes(f, B)
<1>1. PICK V : V = Seq(0..B - 1)
  OBVIOUS
<1>2. PICK base \in [Nat -> V] : \A n \in Nat : n < B => base[n] = << n >>
  <2> DEFINE g == [n \in Nat |-> IF n < B THEN << n >> ELSE << 0 >>]
  <2>1. \A n \in Nat : g[n] \in V
    <3>1. ASSUME NEW n \in Nat PROVE g[n] \in V
      <4>1. CASE n < B
        <5>1. n \in 0..B - 1
          BY <4>1
        <5> QED
          BY <1>1, <4>1, <5>1
      <4>2. CASE ~ (n < B)
        <5>1. 0 \in 0..B - 1
          OBVIOUS
        <5> QED
          BY <1>1, <4>2, <5>1
      <4> QED
        BY <4>1, <4>2
    <3> HIDE DEF g
    <3> QED
      BY <3>1
  <2>2. \A n \in Nat : n < B => g[n] = << n >>
    OBVIOUS
  <2>3. g = [n \in Nat |-> g[n]]
    OBVIOUS
  <2> HIDE DEF g
  <2>4. g \in [Nat -> V]
    BY <2>1, <2>3
  <2> QED
    BY <2>2, <2>4
<1>3. PICK step \in [V \X Nat -> V] : \A v \in V, n \in Nat : step[<< v, n >>] = Append(v, n % B)
  <2>1. ASSUME NEW v \in V, NEW n \in Nat PROVE Append(v, n % B) \in V
    <3>1. n % B \in 0..B - 1
      BY Division
    <3> QED
      BY <1>1, <3>1, AppendProperties
  <2>2. [p \in V \X Nat |-> Append(p[1], p[2] % B)] \in [V \X Nat -> V]
    BY <2>1
  <2> QED
    BY <2>2
<1>4. PICK down \in [Nat -> Nat] : \A n \in Nat : n >= B => down[n] = n \div B /\ down[n] < n
  <2> DEFINE g == [n \in Nat |-> n \div B]
  <2>1. g \in [Nat -> Nat]
    <3>1. ASSUME NEW n \in Nat PROVE n \div B \in Nat
      OBVIOUS
    <3> QED
      BY <3>1
  <2>2. ASSUME NEW n \in Nat, n >= B PROVE g[n] = n \div B /\ g[n] < n
    <3>1. g[n] = n \div B
      OBVIOUS
    <3> QED
      BY <2>2, <3>1, Quotient
  <2> HIDE DEF g
  <2> QED
    BY <2>1, <2>2
<1>5. PICK F \in [Nat -> V] :
          \A n \in Nat : F[n] = IF n < B THEN base[n] ELSE step[<< F[down[n]], n >>]
  <2>1. WellFounded(V, B, base, step, down)
    BY <1>4 DEF WellFounded
  <2> QED
    BY <2>1, Recursion
<1>6. ASSUME NEW n \in Nat
      PROVE  F[n] = IF n < B THEN << n >> ELSE Append(F[n \div B], n % B)
  <2>1. CASE n < B
    BY <1>2, <1>5, <2>1
  <2>2. CASE n >= B
    <3>1. PICK m \in Nat : m = down[n]
      OBVIOUS
    <3>a. m = n \div B
      <4>1. down[n] = n \div B
        BY <1>4, <2>2
      <4> QED
        BY <3>1, <4>1
    <3>2. PICK v \in V : v = F[m]
      OBVIOUS
    <3>3. F[n] = step[<< v, n >>]
      BY <1>5, <2>2, <3>1, <3>2
    <3>4. step[<< v, n >>] = Append(v, n % B)
      BY <1>3
    <3>5. F[n] = Append(F[n \div B], n % B)
      BY <3>1, <3>a, <3>2, <3>3, <3>4
    <3>6. ~ (n < B)
      BY <2>2
    <3> QED
      BY <3>5, <3>6, Zenon
  <2> QED
    BY <2>1, <2>2
<1>7. Writes(F, B)
  BY <1>6 DEF Writes
<1> QED
  BY <1>1, <1>7

LEMMA WritingValue ==
    ASSUME NEW B, NEW f, Writes(f, B), NEW n \in Nat
    PROVE  f[n] = IF n < B THEN << n >> ELSE Append(f[n \div B], n % B)
BY DEF Writes

(* The number n is written as m is, and then its last digit d. *)
LastDigit(f, B, n, m, d) ==
    /\ m = n \div B /\ m < n /\ m >= 1
    /\ d = n % B /\ n = (B * m) + d
    /\ f[n] = Append(f[m], d)

LEMMA WritingMore ==
    ASSUME NEW B \in Nat \ {0, 1}, NEW f, Writes(f, B), NEW n \in Nat, n >= B
    PROVE  \E m \in Nat : \E d \in 0..B - 1 : LastDigit(f, B, n, m, d)
<1>1. PICK m \in Nat : m = n \div B /\ m < n /\ m >= 1 /\ n = (B * m) + (n % B)
  BY Quotient
<1>2. PICK d \in 0..B - 1 : d = n % B
  BY Division
<1>3. f[n] = Append(f[m], d)
  <2>1. ~ (n < B)
    OBVIOUS
  <2>2. f[n] = IF n < B THEN << n >> ELSE Append(f[n \div B], n % B)
    BY WritingValue
  <2>3. f[n] = Append(f[n \div B], n % B)
    BY <2>1, <2>2
  <2> QED
    BY <1>1, <1>2, <2>3
<1>4. n = (B * m) + d
  BY <1>1, <1>2
<1>5. LastDigit(f, B, n, m, d)
  BY <1>1, <1>2, <1>3, <1>4 DEF LastDigit
<1> QED
  BY <1>5

LEMMA WritingType ==
    ASSUME NEW B \in Nat \ {0, 1}, NEW f, Writes(f, B)
    PROVE  \A n \in Nat : f[n] \in Seq(0..B - 1)
<1> DEFINE S == {n \in Nat : f[n] \in Seq(0..B - 1)}
<1>1. ASSUME NEW n \in Nat, \A m \in Nat : m < n => m \in S PROVE n \in S
  <2>1. CASE n < B
    <3>1. n \in 0..B - 1
      BY <2>1
    <3>2. f[n] = << n >>
      BY <2>1, WritingValue
    <3>3. << n >> \in Seq(0..B - 1)
      BY <3>1
    <3> QED
      BY <3>2, <3>3
  <2>2. CASE n >= B
    <3>1. PICK m \in Nat : \E d \in 0..B - 1 : LastDigit(f, B, n, m, d)
      BY <2>2, WritingMore
    <3>2. PICK d \in 0..B - 1 : m < n /\ f[n] = Append(f[m], d)
      BY <3>1 DEF LastDigit
    <3>3. f[m] \in Seq(0..B - 1)
      BY <1>1, <3>2
    <3> HIDE DEF S
    <3>5. f[n] \in Seq(0..B - 1)
      BY <3>2, <3>3, AppendProperties
    <3> QED
      BY <3>5 DEF S
  <2> QED
    BY <2>1, <2>2
<1> HIDE DEF S
<1>2. Nat \subseteq S
  BY <1>1, StrongInduction
<1> QED
  BY <1>2 DEF S

LEMMA DigitsWritten == Writes(Digits, 10)
<1>1. \E f : Writes(f, 10)
  <2>1. PICK B \in Nat \ {0, 1} : B = 10
    OBVIOUS
  <2>2. \E f : Writes(f, B)
    BY WritingExists
  <2> QED
    BY <2>1, <2>2
<1>2. \E f : f = [n \in Nat |-> IF n < 10 THEN << n >> ELSE Append(f[n \div 10], n % 10)]
  BY <1>1, Zenon DEF Writes
<1> QED
  BY <1>2, Zenon DEF Digits, Writes

LEMMA HexWritten == Writes(Hex, 16)
<1>1. \E f : Writes(f, 16)
  <2>1. PICK B \in Nat \ {0, 1} : B = 16
    OBVIOUS
  <2>2. \E f : Writes(f, B)
    BY WritingExists
  <2> QED
    BY <2>1, <2>2
<1>2. \E f : f = [n \in Nat |-> IF n < 16 THEN << n >> ELSE Append(f[n \div 16], n % 16)]
  BY <1>1, Zenon DEF Writes
<1> QED
  BY <1>2, Zenon DEF Hex, Writes

(* What is written denotes the number, and has no zero in front.           *)
LEMMA Denoted ==
    ASSUME NEW B \in Nat \ {0, 1}, NEW f, Writes(f, B), NEW N \in Nat
    PROVE  /\ Len(f[N]) \in Nat \ {0}
           /\ ValueOf(f[N], B) = -N
           /\ N > 0 => f[N][1] # 0
           /\ Len(f[N]) > 1 => N > 0
<1> DEFINE Fine(n) == /\ Len(f[n]) \in Nat \ {0}
                      /\ ValueOf(f[n], B) = -n
                      /\ n > 0 => f[n][1] # 0
                      /\ Len(f[n]) > 1 => n > 0
           S == {n \in Nat : Fine(n)}
<1>1. ASSUME NEW n \in Nat, \A m \in Nat : m < n => m \in S PROVE n \in S
  <2>1. CASE n < B
    <3>1. f[n] = << n >>
      BY <2>1, WritingValue
    <3>2. Len(f[n]) = 1 /\ f[n][1] = n
      BY <3>1
    <3>3. ValueOf(f[n], B) = -n
      BY <3>1, ValueOfDigit
    <3>4. Fine(n)
      BY <3>2, <3>3
    <3> HIDE DEF Fine
    <3> QED
      BY <3>4
  <2>2. CASE n >= B
    <3>0. PICK m \in Nat : \E d \in 0..B - 1 : LastDigit(f, B, n, m, d)
      BY <2>2, WritingMore
    <3>1. PICK d \in 0..B - 1 : m < n /\ m >= 1 /\ n = (B * m) + d /\ f[n] = Append(f[m], d)
      BY <3>0 DEF LastDigit
    <3>2. Fine(m)
      BY <1>1, <3>1
    <3>4. PICK s \in Seq(0..B - 1) : s = f[m]
      BY WritingType
    <3>5. f[n] = Append(s, d)
      BY <3>1, <3>4
    <3>6. Len(s) \in Nat \ {0} /\ ValueOf(s, B) = -m /\ s[1] # 0
      <4>1. m > 0
        BY <3>1
      <4> QED
        BY <3>2, <3>4, <4>1, Zenon
    <3> HIDE DEF S, Fine
    <3>7. Len(f[n]) = Len(s) + 1 /\ f[n][1] = s[1]
      <4>1. 1 \in 1..Len(s)
        BY <3>6
      <4> QED
        BY <3>5, <4>1, AppendProperties
    <3>8. ValueOf(f[n], B) = B * ValueOf(s, B) - d
      <4>1. s \in Seq(Int) /\ d \in Int /\ B \in Int
        OBVIOUS
      <4> QED
        BY <3>5, <4>1, ValueAppended
    <3>9. ValueOf(f[n], B) = -n
      <4>1. PICK p \in Nat : p = B * m
        OBVIOUS
      <4>2. B * (-m) = -p
        BY <4>1
      <4>3. n = p + d
        BY <3>1, <4>1
      <4>4. ValueOf(f[n], B) = -p - d
        BY <3>6, <3>8, <4>2
      <4> QED
        BY <4>3, <4>4
    <3>10. Fine(n)
      <4>1. n > 0 /\ Len(s) + 1 \in Nat \ {0}
        BY <2>2, <3>6
      <4> QED
        BY <3>6, <3>7, <3>9, <4>1 DEF Fine
    <3> QED
      BY <3>10 DEF S
  <2> QED
    BY <2>1, <2>2
<1> HIDE DEF S, Fine
<1>2. Nat \subseteq S
  BY <1>1, StrongInduction
<1>3. Fine(N)
  BY <1>2 DEF S
<1> QED
  BY <1>3 DEF Fine

LEMMA DenotesNumber ==
    ASSUME NEW B \in Nat \ {0, 1}, NEW f, Writes(f, B), NEW n \in Nat
    PROVE  Denotes(f[n], n, B)
<1>1. PICK s \in Seq(0..B - 1) : s = f[n]
  BY WritingType
<1>2. Len(s) \in Nat \ {0} /\ ValueOf(s, B) = -n /\ (Len(s) > 1 => s[1] # 0)
  BY <1>1, Denoted
<1>3. s # << >>
  BY <1>2
<1>4. ToSet(s) \subseteq 0..B - 1
  BY ElementOfSeq DEF ToSet
<1> QED
  BY <1>1, <1>2, <1>3, <1>4 DEF Denotes

-----------------------------------------------------------------------------
(* Negative numbers                                                        *)

LEMMA DigitsAre ==
    ASSUME NEW n \in Nat
    PROVE  /\ Digits[n] \in Seq(0..9) /\ Len(Digits[n]) \in Nat \ {0}
           /\ n < 10 => Digits[n] = << n >>
           /\ n >= 10 => \E m \in Nat : \E d \in 0..9 : LastDigit(Digits, 10, n, m, d)
           /\ ValueOf(Digits[n], 10) = -n
           /\ n > 0 => Digits[n][1] # 0
<1>1. PICK B \in Nat \ {0, 1} : B = 10 /\ 0..B - 1 = 0..9
  OBVIOUS
<1>2. PICK f : f = Digits /\ Writes(f, B)
  BY <1>1, DigitsWritten
<1>3. f[n] \in Seq(0..B - 1)
  BY <1>2, WritingType
<1>4. Len(f[n]) \in Nat \ {0} /\ ValueOf(f[n], B) = -n /\ (n > 0 => f[n][1] # 0)
  BY <1>2, Denoted
<1>5. n < B => f[n] = << n >>
  BY <1>2, WritingValue
<1>6. n >= B => \E m \in Nat : \E d \in 0..B - 1 : LastDigit(f, B, n, m, d)
  BY <1>2, WritingMore
<1> QED
  BY <1>1, <1>2, <1>3, <1>4, <1>5, <1>6

LEMMA OneBehind ==
    ASSUME NEW S, NEW s \in Seq(S), NEW d \in S
    PROVE  s \o << d >> = Append(s, d)
OBVIOUS

LEMMA TwoMarks ==
    ASSUME NEW V, NEW a \in V, NEW b \in V
    PROVE  << a >> \o << b >> = << a, b >>
<1>1. PICK s \in Seq(V) : s = << a >> /\ Len(s) = 1 /\ s[1] = a
  <2>1. << a >> \in Seq(V) /\ Len(<< a >>) = 1 /\ << a >>[1] = a
    OBVIOUS
  <2> QED
    BY <2>1
<1>2. PICK t \in Seq(V) : t = << a, b >> /\ Len(t) = 2 /\ t[1] = a /\ t[2] = b
  <2>1. << a, b >> \in Seq(V) /\ Len(<< a, b >>) = 2 /\ << a, b >>[1] = a /\ << a, b >>[2] = b
    OBVIOUS
  <2> QED
    BY <2>1
<1>3. PICK u : u = Append(s, b)
  OBVIOUS
<1>4. u \in Seq(V) /\ Len(u) = Len(s) + 1 /\ u[Len(s) + 1] = b /\ \A i \in 1..Len(s) : u[i] = s[i]
  BY <1>3, AppendProperties
<1>5. Len(u) = 2 /\ u[1] = a /\ u[2] = b
  BY <1>1, <1>4
<1>6. \A i \in 1..Len(t) : t[i] = u[i]
  BY <1>2, <1>5
<1>7. t = u
  BY <1>2, <1>4, <1>5, <1>6, SeqEqual
<1> QED
  BY <1>1, <1>2, <1>3, <1>7, OneBehind

LEMMA OneBefore ==
    ASSUME NEW d, NEW S, NEW s \in Seq(S), NEW t, t = << d >> \o s
    PROVE  /\ Len(t) = Len(s) + 1
           /\ Head(t) = d
           /\ Tail(t) = s
           /\ Len(s) > 0 => t[2] = s[1]
OBVIOUS

(* The last digit, taken apart from the others, is the one it should be.   *)
LEMMA NegativeDigits ==
    ASSUME NEW n \in Nat \ {0}
    PROVE  FastInt32ToBuffer(-n) = << Minus >> \o Digits[n]
<1>0. ~ (-n >= 0)
  OBVIOUS
<1>m. PICK m : m = Minus
  OBVIOUS
<1>1. CASE n < 10
  <2>1. Digits[n] = << n >>
    BY <1>1, DigitsAre
  <2>2. -n > -10 /\ -(-n) = n
    BY <1>1
  <2>3. FastInt32ToBuffer(-n) = << m, n >>
    BY <1>0, <1>m, <2>2 DEF FastInt32ToBuffer
  <2>4. << m >> \o << n >> = << m, n >>
    <3>1. PICK V : V = Nat \cup {m}
      OBVIOUS
    <3>2. m \in V /\ n \in V
      BY <3>1
    <3> QED
      BY <3>2, TwoMarks
  <2> QED
    BY <1>m, <2>1, <2>3, <2>4
<1>2. CASE n >= 10
  <2>0. PICK q \in Nat : \E d \in 0..9 : LastDigit(Digits, 10, n, q, d)
    BY <1>2, DigitsAre
  <2>5. PICK r \in 0..9 : q = n \div 10 /\ r = n % 10 /\ Digits[n] = Append(Digits[q], r)
    BY <2>0 DEF LastDigit
  <2>1. PICK o \in Nat : o = n - 10 /\ o = -(-n + 10) /\ ~ (-n > -10)
    BY <1>2
  <2>2. FastInt32ToBuffer(-n) = << m >> \o Digits[(o \div 10) + 1] \o << o % 10 >>
    BY <1>0, <1>m, <2>1 DEF FastInt32ToBuffer
  <2>3. q = (o \div 10) + 1 /\ r = o % 10
    BY <2>1, <2>5
  <2>6. PICK s \in Seq(0..9) : s = Digits[q]
    BY DigitsAre
  <2>7. Append(s, r) = s \o << r >>
    BY OneBehind
  <2>8. (<< m >> \o s) \o << r >> = << m >> \o (s \o << r >>)
    <3>1. PICK V : V = Int \cup {m}
      OBVIOUS
    <3>2. << m >> \in Seq(V) /\ s \in Seq(V) /\ << r >> \in Seq(V)
      BY <3>1
    <3>3. PICK a \in Seq(V) : a = << m >>
      BY <3>2
    <3>4. PICK c \in Seq(V) : c = << r >>
      BY <3>2
    <3>5. (a \o s) \o c = a \o (s \o c)
      BY <3>2, ConcatAssociative, SMTT(20)
    <3> QED
      BY <3>3, <3>4, <3>5
  <2>9. << m >> \o Digits[n] = << m >> \o (s \o << r >>)
    BY <2>5, <2>6, <2>7
  <2>10. << m >> \o s \o << r >> = FastInt32ToBuffer(-n)
    BY <2>2, <2>3, <2>6
  <2> QED
    BY <1>m, <2>8, <2>9, <2>10
<1> QED
  BY <1>1, <1>2

LEMMA NegativeDenotes ==
    ASSUME NEW n \in Nat \ {0}
    PROVE  LET digits == FastInt32ToBuffer(-n)
           IN  /\ Head(digits) = Minus /\ Len(digits) > 1
               /\ ToSet(Tail(digits)) \subseteq 0..9 /\ digits[2] # 0
               /\ ValueOf(Tail(digits), 10) = -n
<1>1. PICK s \in Seq(0..9) : s = Digits[n] /\ Len(s) \in Nat \ {0}
  BY DigitsAre
<1>2. PICK t : t = FastInt32ToBuffer(-n) /\ t = << Minus >> \o s
  BY <1>1, NegativeDigits
<1>3. Len(t) = Len(s) + 1 /\ Head(t) = Minus /\ Tail(t) = s /\ t[2] = s[1]
  <2>1. PICK m : m = Minus
    OBVIOUS
  <2>2. t = << m >> \o s
    BY <1>2, <2>1
  <2>3. /\ Len(t) = Len(s) + 1 /\ Head(t) = m /\ Tail(t) = s
        /\ Len(s) > 0 => t[2] = s[1]
    BY <2>2, OneBefore
  <2> QED
    BY <1>1, <2>1, <2>3
<1>4. ValueOf(s, 10) = -n /\ s[1] # 0
  <2>1. n \in Nat /\ n > 0
    OBVIOUS
  <2> QED
    BY <1>1, <2>1, DigitsAre
<1>5. ToSet(s) \subseteq 0..9
  BY ElementOfSeq DEF ToSet
<1>6. Len(t) > 1
  BY <1>1, <1>3
<1> QED
  BY <1>2, <1>3, <1>4, <1>5, <1>6

-----------------------------------------------------------------------------
(* Hexadecimal digits                                                      *)

LEMMA HexAre ==
    ASSUME NEW f, Writes(f, 16), NEW n \in Nat
    PROVE  /\ f[n] \in Seq(0..15) /\ Len(f[n]) \in Nat \ {0}
           /\ n < 16 => f[n] = << n >>
           /\ n >= 16 => \E m \in Nat : \E d \in 0..15 : LastDigit(f, 16, n, m, d)
<1>1. PICK B \in Nat \ {0, 1} : B = 16 /\ 0..B - 1 = 0..15
  OBVIOUS
<1>2. Writes(f, B)
  BY <1>1
<1>3. f[n] \in Seq(0..B - 1)
  BY <1>2, WritingType
<1>4. Len(f[n]) \in Nat \ {0}
  BY <1>2, Denoted
<1>5. n < B => f[n] = << n >>
  BY <1>2, WritingValue
<1>6. n >= B => \E m \in Nat : \E d \in 0..B - 1 : LastDigit(f, B, n, m, d)
  BY <1>2, WritingMore
<1> QED
  BY <1>1, <1>2, <1>3, <1>4, <1>5, <1>6

(* The number n is written as m is, of l digits, and then its last digit.  *)
Longer(f, n, m, l) ==
    /\ m = n \div 16
    /\ l = Len(f[m]) /\ Len(f[n]) = l + 1
    /\ f[n][l + 1] = n % 16
    /\ \A i \in 1..l : f[n][i] = f[m][i]

LEMMA HexLonger ==
    ASSUME NEW f, Writes(f, 16), NEW n \in Nat, n >= 16
    PROVE  \E m \in Nat : \E l \in Nat \ {0} : Longer(f, n, m, l)
<1>0. n >= 16 => \E m \in Nat : \E d \in 0..15 : LastDigit(f, 16, n, m, d)
  BY HexAre, Zenon
<1>1. PICK m \in Nat : \E d \in 0..15 : LastDigit(f, 16, n, m, d)
  BY <1>0
<1>d. PICK d \in 0..15 : LastDigit(f, 16, n, m, d)
  BY <1>1, Zenon
<1>2. m = n \div 16 /\ d = n % 16 /\ f[n] = Append(f[m], d)
  BY <1>d, Zenon DEF LastDigit
<1>3. PICK s \in Seq(0..15) : s = f[m]
  BY HexAre
<1>4. PICK l \in Nat \ {0} : l = Len(s)
  BY <1>3, HexAre
<1>5. PICK t : t = f[n] /\ t = Append(s, d)
  BY <1>2, <1>3
<1>6. Len(t) = Len(s) + 1 /\ t[Len(s) + 1] = d /\ \A i \in 1..Len(s) : t[i] = s[i]
  BY <1>5, AppendProperties
<1>7. Len(t) = l + 1 /\ t[l + 1] = d /\ \A i \in 1..l : t[i] = s[i]
  BY <1>4, <1>6
<1>8. Longer(f, n, m, l)
  BY <1>2, <1>3, <1>4, <1>5, <1>7 DEF Longer
<1> QED
  BY <1>8

ShortHex(f, k, M) == \A n \in Nat : n < M => Len(f[n]) <= k

LEMMA HexLength ==
    ASSUME NEW f, Writes(f, 16), NEW k \in Nat \ {0}, NEW M \in Nat, ShortHex(f, k, M),
           NEW l, NEW N, l = k + 1, N = 16 * M
    PROVE  ShortHex(f, l, N)
<1> SUFFICES ASSUME NEW n \in Nat, n < 16 * M PROVE Len(f[n]) <= k + 1
  BY DEF ShortHex
<1>1. CASE n < 16
  <2>1. f[n] = << n >>
    BY <1>1, HexAre
  <2>2. Len(f[n]) = 1
    BY <2>1
  <2> QED
    BY <2>2
<1>2. CASE n >= 16
  <2>1. PICK m \in Nat : \E i \in Nat \ {0} : Longer(f, n, m, i)
    BY <1>2, HexLonger
  <2>2. PICK i \in Nat \ {0} : m = n \div 16 /\ i = Len(f[m]) /\ Len(f[n]) = i + 1
    BY <2>1 DEF Longer
  <2>3. m < M
    BY <2>2
  <2>4. Len(f[m]) <= k
    BY <2>3 DEF ShortHex
  <2> QED
    BY <2>2, <2>4
<1> QED
  BY <1>1, <1>2

LEMMA EightHexDigits ==
    ASSUME NEW f, Writes(f, 16)
    PROVE  \A n \in Nat : n < 16 * 268435456 => Len(f[n]) <= 8
<1>1. ShortHex(f, 1, 16)
  <2>1. ASSUME NEW n \in Nat, n < 16 PROVE Len(f[n]) <= 1
    <3>1. f[n] = << n >>
      BY <2>1, HexAre
    <3>2. Len(f[n]) = 1
      BY <3>1
    <3> QED
      BY <3>2
  <2> QED
    BY <2>1 DEF ShortHex
<1>2. ShortHex(f, 2, 256)
  BY <1>1, HexLength
<1>3. ShortHex(f, 3, 4096)
  BY <1>2, HexLength
<1>4. ShortHex(f, 4, 65536)
  BY <1>3, HexLength
<1>5. ShortHex(f, 5, 1048576)
  BY <1>4, HexLength
<1>6. ShortHex(f, 6, 16777216)
  BY <1>5, HexLength
<1>7. ShortHex(f, 7, 268435456)
  BY <1>6, HexLength
<1>8. ShortHex(f, 8, 16 * 268435456)
  BY <1>7, HexLength
<1> QED
  BY <1>8 DEF ShortHex

(* The digits of a number behind as many zeros as fill k places.           *)
Padded(f, n, k) == [i \in 1..(k - Len(f[n])) |-> 0] \o f[n]

(* A text of k places that ends with the l digits of another.              *)
Filled(p, k, h, l) ==
    /\ p \in Seq(0..15) /\ Len(p) = k
    /\ \A i \in 1..k : p[i] = IF i <= k - l THEN 0 ELSE h[i - (k - l)]

LEMMA PaddedIs ==
    ASSUME NEW f, Writes(f, 16), NEW n \in Nat, NEW k \in Nat, Len(f[n]) <= k
    PROVE  \E l \in Nat : l = Len(f[n]) /\ Filled(Padded(f, n, k), k, f[n], l)
<1>1. PICK h \in Seq(0..15) : h = f[n]
  BY HexAre
<1>l. PICK l \in Nat : l = Len(h) /\ l <= k
  BY <1>1, LenProperties
<1>2. PICK z \in Nat : z = k - l
  <2>1. k - l \in Nat
    BY <1>l
  <2> QED
    BY <2>1
<1>3. PICK s : s = [i \in 1..z |-> 0]
  OBVIOUS
<1>4. s \in Seq(0..15) /\ Len(s) = z /\ \A i \in 1..z : s[i] = 0
  <2>1. s \in [1..z -> 0..15]
    BY <1>3
  <2>2. \A i \in 1..z : s[i] = 0
    BY <1>3
  <2>3. DOMAIN s = 1..z
    BY <1>3
  <2>4. s \in Seq(0..15)
    BY <2>1
  <2> QED
    BY <2>2, <2>3, <2>4, LenProperties
<1>5. PICK p : p = s \o h /\ p = Padded(f, n, k)
  BY <1>1, <1>l, <1>2, <1>3 DEF Padded
<1>6. /\ s \o h \in Seq(0..15) /\ Len(s \o h) = Len(s) + Len(h)
      /\ \A i \in 1..Len(s) + Len(h) : (s \o h)[i] = IF i <= Len(s) THEN s[i] ELSE h[i - Len(s)]
  BY <1>4, ConcatProperties
<1>7. Len(s) = z /\ Len(s) + Len(h) = k
  BY <1>l, <1>2, <1>4
<1>8. p \in Seq(0..15) /\ Len(p) = k /\ \A i \in 1..k : p[i] = IF i <= z THEN s[i] ELSE h[i - z]
  BY <1>5, <1>6, <1>7
<1>9. \A i \in 1..k : p[i] = IF i <= z THEN 0 ELSE h[i - z]
  BY <1>4, <1>8
<1>10. Filled(p, k, h, l)
  BY <1>2, <1>8, <1>9 DEF Filled
<1> QED
  BY <1>1, <1>l, <1>5, <1>10

LEMMA PaddedLast ==
    ASSUME NEW f, Writes(f, 16), NEW n \in Nat, NEW k \in Nat, k >= 1, Len(f[n]) <= k
    PROVE  Padded(f, n, k)[k] = n % 16
<1>1. PICK l \in Nat : l = Len(f[n]) /\ Filled(Padded(f, n, k), k, f[n], l)
  BY PaddedIs
<1>2. l >= 1 /\ l <= k
  BY <1>1, HexAre
<1>3. Padded(f, n, k)[k] = f[n][l]
  <2>1. k \in 1..k /\ ~ (k <= k - l) /\ k - (k - l) = l
    BY <1>2
  <2> QED
    BY <1>1, <2>1 DEF Filled
<1>4. CASE n < 16
  <2>1. f[n] = << n >>
    BY <1>4, HexAre
  <2>2. l = 1 /\ f[n][1] = n
    BY <1>1, <2>1
  <2> QED
    BY <1>3, <1>4, <2>2
<1>5. CASE n >= 16
  <2>1. PICK m \in Nat : \E i \in Nat \ {0} : Longer(f, n, m, i)
    BY <1>5, HexLonger
  <2>2. PICK i \in Nat \ {0} : Len(f[n]) = i + 1 /\ f[n][i + 1] = n % 16
    BY <2>1 DEF Longer
  <2> QED
    BY <1>1, <1>3, <2>2
<1> QED
  BY <1>4, <1>5

LEMMA PaddedOthers ==
    ASSUME NEW f, Writes(f, 16), NEW n \in Nat, NEW j \in Nat, NEW k \in Nat, k = j + 1, j >= 1,
           Len(f[n]) <= k, NEW m, m = n \div 16
    PROVE  /\ m \in Nat /\ Len(f[m]) <= j
           /\ \A i \in 1..j : Padded(f, n, k)[i] = Padded(f, m, j)[i]
<1>1. m \in Nat
  OBVIOUS
<1>2. PICK l \in Nat : l = Len(f[n]) /\ Filled(Padded(f, n, k), k, f[n], l)
  BY PaddedIs
<1>3. CASE n < 16
  <2>1. m = 0 /\ m < 16
    BY <1>3
  <2>2. f[n] = << n >> /\ f[m] = << m >>
    BY <1>1, <1>3, <2>1, HexAre
  <2>3. Len(f[n]) = 1 /\ Len(f[m]) = 1 /\ f[m][1] = 0
    <3>1. \A x : Len(<< x >>) = 1 /\ << x >>[1] = x
      OBVIOUS
    <3>2. Len(f[n]) = 1
      BY <2>2, <3>1
    <3>3. Len(f[m]) = 1 /\ f[m][1] = m
      BY <2>2, <3>1
    <3> QED
      BY <2>1, <3>2, <3>3
  <2>4. l = 1
    BY <1>2, <2>3
  <2>5. Len(f[m]) <= j
    BY <2>3
  <2>6. PICK e \in Nat : e = Len(f[m]) /\ Filled(Padded(f, m, j), j, f[m], e)
    BY <1>1, <2>5, PaddedIs
  <2>7. e = 1
    BY <2>3, <2>6
  <2>8. ASSUME NEW i \in 1..j PROVE Padded(f, n, k)[i] = 0 /\ Padded(f, m, j)[i] = 0
    <3>1. i \in 1..k /\ i <= k - 1 /\ (i <= j - 1 \/ i - (j - 1) = 1)
      OBVIOUS
    <3>2. Padded(f, n, k)[i] = 0
      BY <1>2, <2>4, <3>1 DEF Filled
    <3>3. Padded(f, m, j)[i] = IF i <= j - 1 THEN 0 ELSE f[m][i - (j - 1)]
      BY <2>6, <2>7 DEF Filled
    <3> QED
      BY <2>3, <3>1, <3>2, <3>3
  <2> QED
    BY <1>1, <2>5, <2>8
<1>4. CASE n >= 16
  <2>1. PICK q \in Nat : \E i \in Nat \ {0} : Longer(f, n, q, i)
    BY <1>4, HexLonger
  <2>2. PICK e \in Nat \ {0} : /\ q = n \div 16 /\ e = Len(f[q]) /\ Len(f[n]) = e + 1
                              /\ \A i \in 1..e : f[n][i] = f[q][i]
    BY <2>1 DEF Longer
  <2>3. q = m
    BY <2>2
  <2>4. e = Len(f[m]) /\ l = e + 1 /\ e <= j /\ \A i \in 1..e : f[n][i] = f[m][i]
    BY <1>2, <2>2, <2>3
  <2>5. Filled(Padded(f, m, j), j, f[m], e)
    <3>1. Len(f[m]) <= j
      BY <2>4
    <3>2. PICK g \in Nat : g = Len(f[m]) /\ Filled(Padded(f, m, j), j, f[m], g)
      BY <1>1, <3>1, PaddedIs
    <3> QED
      BY <2>4, <3>2
  <2>6. ASSUME NEW i \in 1..j PROVE Padded(f, n, k)[i] = Padded(f, m, j)[i]
    <3>0. PICK z \in Nat : z = j - e
      <4>1. j - e \in Nat
        BY <2>4
      <4> QED
        BY <4>1
    <3>1. z = k - l /\ i \in 1..k
      BY <2>4, <3>0
    <3>2. Padded(f, n, k)[i] = IF i <= z THEN 0 ELSE f[n][i - z]
      BY <1>2, <3>1 DEF Filled
    <3>3. Padded(f, m, j)[i] = IF i <= z THEN 0 ELSE f[m][i - z]
      BY <2>5, <3>0 DEF Filled
    <3>4. ~ (i <= z) => i - z \in 1..e
      BY <2>4, <3>0
    <3> QED
      BY <2>4, <3>2, <3>3, <3>4
  <2> QED
    BY <1>1, <2>4, <2>6
<1> QED
  BY <1>3, <1>4

Shifts(f, n) == f = [i \in 1..8 |-> IF i = 8 THEN n ELSE f[i + 1] \div 16]

LEMMA ShiftsExist == ASSUME NEW n PROVE \E f : Shifts(f, n)
<1>1. PICK a : a = n \div 16
  OBVIOUS
<1>2. PICK b : b = a \div 16
  OBVIOUS
<1>3. PICK c : c = b \div 16
  OBVIOUS
<1>4. PICK d : d = c \div 16
  OBVIOUS
<1>5. PICK e : e = d \div 16
  OBVIOUS
<1>6. PICK g : g = e \div 16
  OBVIOUS
<1>7. PICK h : h = g \div 16
  OBVIOUS
<1>8. PICK f : f = [i \in 1..8 |-> IF i = 8 THEN n ELSE IF i = 7 THEN a ELSE IF i = 6 THEN b
                                   ELSE IF i = 5 THEN c ELSE IF i = 4 THEN d
                                   ELSE IF i = 3 THEN e ELSE IF i = 2 THEN g ELSE h]
  OBVIOUS
<1>9. /\ f[8] = n /\ f[7] = a /\ f[6] = b /\ f[5] = c
      /\ f[4] = d /\ f[3] = e /\ f[2] = g /\ f[1] = h
  BY <1>8
<1>10. \A i \in 1..8 : f[i] = IF i = 8 THEN n ELSE f[i + 1] \div 16
  <2> DEFINE Fine(i) == f[i] = IF i = 8 THEN n ELSE f[i + 1] \div 16
  <2>1. \A i \in 1..8 : i \in {1, 2, 3, 4, 5, 6, 7, 8}
    OBVIOUS
  <2>2. 1 + 1 = 2 /\ 2 + 1 = 3 /\ 3 + 1 = 4 /\ 4 + 1 = 5 /\ 5 + 1 = 6 /\ 6 + 1 = 7 /\ 7 + 1 = 8
    OBVIOUS
  <2>3. Fine(8)
    BY <1>9
  <2>4. Fine(7)
    BY <1>1, <1>9, <2>2
  <2>5. Fine(6)
    BY <1>2, <1>9, <2>2
  <2>6. Fine(5)
    BY <1>3, <1>9, <2>2
  <2>7. Fine(4)
    BY <1>4, <1>9, <2>2
  <2>8. Fine(3)
    BY <1>5, <1>9, <2>2
  <2>9. Fine(2)
    BY <1>6, <1>9, <2>2
  <2>10. Fine(1)
    BY <1>7, <1>9, <2>2
  <2> HIDE DEF Fine
  <2>11. \A i \in 1..8 : Fine(i)
    BY <2>1, <2>3, <2>4, <2>5, <2>6, <2>7, <2>8, <2>9, <2>10
  <2> QED
    BY <2>11 DEF Fine
<1>11. f = [i \in 1..8 |-> f[i]]
  BY <1>8
<1>12. Shifts(f, n)
  BY <1>10, <1>11 DEF Shifts
<1> QED
  BY <1>12

(* The places up to the j-th of a text are those of a number v.            *)
Upto(f, n, v, j) ==
    /\ v \in Nat /\ Len(f[v]) <= j
    /\ \A i \in 1..j : Padded(f, n, 8)[i] = Padded(f, v, j)[i]

LEMMA UptoNext ==
    ASSUME NEW f, Writes(f, 16), NEW n, NEW j \in Nat, NEW k \in Nat, k = j + 1, j >= 1,
           NEW v, Upto(f, n, v, k), NEW m, m = v \div 16
    PROVE  Upto(f, n, m, j)
<1>1. v \in Nat /\ Len(f[v]) <= k /\ \A i \in 1..k : Padded(f, n, 8)[i] = Padded(f, v, k)[i]
  BY DEF Upto
<1>2. m \in Nat /\ Len(f[m]) <= j /\ \A i \in 1..j : Padded(f, v, k)[i] = Padded(f, m, j)[i]
  BY <1>1, PaddedOthers
<1>3. \A i \in 1..j : i \in 1..k
  OBVIOUS
<1> QED
  BY <1>1, <1>2, <1>3 DEF Upto

(* Shifting the number right by four bits for each place, from the last    *)
(* one on, writes its digits, and zeros where it has no more.              *)
LEMMA FilledUp ==
    ASSUME NEW h, Writes(h, 16), NEW n \in Nat, Len(h[n]) <= 8
    PROVE  InternalFastHexToBuffer(n, 8) = Padded(h, n, 8)
<1>1. PICK f : Shifts(f, n) /\ InternalFastHexToBuffer(n, 8) = [i \in 1..8 |-> f[i] % 16]
  <2>1. \E f : f = [i \in 1..8 |-> IF i = 8 THEN n ELSE f[i + 1] \div 16]
    BY ShiftsExist, Zenon DEF Shifts
  <2> QED
    BY <2>1, Zenon DEF InternalFastHexToBuffer, Shifts
<1>2. f[8] = n /\ \A i \in 1..7 : f[i] = f[i + 1] \div 16
  BY <1>1 DEF Shifts
<1>3. Upto(h, n, f[8], 8)
  BY <1>2 DEF Upto
<1>4. ASSUME NEW j \in 1..7, Upto(h, n, f[j + 1], j + 1) PROVE Upto(h, n, f[j], j)
  <2>1. PICK k \in Nat : k = j + 1
    OBVIOUS
  <2>2. PICK v : v = f[k]
    OBVIOUS
  <2>3. PICK m : m = f[j] /\ m = v \div 16
    BY <1>2, <2>1, <2>2
  <2>4. j \in Nat /\ j >= 1
    OBVIOUS
  <2>5. Upto(h, n, v, k)
    BY <1>4, <2>1, <2>2
  <2>6. Upto(h, n, m, j)
    BY <2>1, <2>3, <2>4, <2>5, UptoNext
  <2> QED
    BY <2>3, <2>6
<1>5. \A j \in 1..8 : Upto(h, n, f[j], j)
  <2>1. Upto(h, n, f[7], 7)
    BY <1>3, <1>4
  <2>2. Upto(h, n, f[6], 6)
    BY <2>1, <1>4
  <2>3. Upto(h, n, f[5], 5)
    BY <2>2, <1>4
  <2>4. Upto(h, n, f[4], 4)
    BY <2>3, <1>4
  <2>5. Upto(h, n, f[3], 3)
    BY <2>4, <1>4
  <2>6. Upto(h, n, f[2], 2)
    BY <2>5, <1>4
  <2>7. Upto(h, n, f[1], 1)
    BY <2>6, <1>4
  <2>8. \A j \in 1..8 : j \in {1, 2, 3, 4, 5, 6, 7, 8}
    OBVIOUS
  <2> QED
    BY <1>3, <2>1, <2>2, <2>3, <2>4, <2>5, <2>6, <2>7, <2>8
<1>6. ASSUME NEW j \in 1..8 PROVE Padded(h, n, 8)[j] = f[j] % 16
  <2>1. PICK v : v = f[j] /\ Upto(h, n, v, j)
    BY <1>5
  <2>2. j \in 1..j /\ j \in Nat /\ j >= 1
    OBVIOUS
  <2>3. v \in Nat /\ Len(h[v]) <= j /\ Padded(h, n, 8)[j] = Padded(h, v, j)[j]
    BY <2>1, <2>2 DEF Upto
  <2>4. Padded(h, v, j)[j] = v % 16
    BY <2>2, <2>3, PaddedLast
  <2> QED
    BY <2>1, <2>3, <2>4
<1>7. PICK p \in Seq(0..15) : p = Padded(h, n, 8) /\ Len(p) = 8
  <2>1. PICK k \in Nat : k = 8
    OBVIOUS
  <2>2. PICK l \in Nat : Filled(Padded(h, n, k), k, h[n], l)
    BY <2>1, PaddedIs
  <2> QED
    BY <2>1, <2>2 DEF Filled
<1>8. p = [i \in 1..8 |-> p[i]]
  BY <1>7
<1> QED
  BY <1>1, <1>6, <1>7, <1>8

-----------------------------------------------------------------------------
(* Two digits at a time                                                    *)

LEMMA Units ==
    /\ Len(Unit) = 5
    /\ Unit[1] = 1 /\ Unit[2] = 100 /\ Unit[3] = 10000 /\ Unit[4] = 1000000 /\ Unit[5] = 100000000
BY DEF Unit

Pair(U, g, u) == << (u \div U) \div 10, (u \div U) % 10 >> \o g[u - (u \div U) * U]

(* The function that a label k and those below it are. *)
Labels(f) ==
    f = [k \in 0..Len(Unit) |-> [u \in Nat |-> IF k = 0 THEN << >> ELSE Pair(Unit[k], f[k - 1], u)]]

LEMMA LabelsExist == \E f : Labels(f)
<1>1. PICK a : a = [u \in Nat |-> << >>]
  OBVIOUS
<1>2. PICK b : b = [u \in Nat |-> Pair(Unit[1], a, u)]
  OBVIOUS
<1>3. PICK c : c = [u \in Nat |-> Pair(Unit[2], b, u)]
  OBVIOUS
<1>4. PICK d : d = [u \in Nat |-> Pair(Unit[3], c, u)]
  OBVIOUS
<1>5. PICK e : e = [u \in Nat |-> Pair(Unit[4], d, u)]
  OBVIOUS
<1>6. PICK g : g = [u \in Nat |-> Pair(Unit[5], e, u)]
  OBVIOUS
<1>7. PICK f : f = [k \in 0..5 |-> IF k = 0 THEN a ELSE IF k = 1 THEN b ELSE IF k = 2 THEN c
                                   ELSE IF k = 3 THEN d ELSE IF k = 4 THEN e ELSE g]
  OBVIOUS
<1>8. f[0] = a /\ f[1] = b /\ f[2] = c /\ f[3] = d /\ f[4] = e /\ f[5] = g
  BY <1>7
<1>9. \A k \in 0..5 : f[k] = [u \in Nat |-> IF k = 0 THEN << >> ELSE Pair(Unit[k], f[k - 1], u)]
  <2> DEFINE Fine(k) == f[k] = [u \in Nat |-> IF k = 0 THEN << >> ELSE Pair(Unit[k], f[k - 1], u)]
  <2>1. \A k \in 0..5 : k \in {0, 1, 2, 3, 4, 5}
    OBVIOUS
  <2>2. 1 - 1 = 0 /\ 2 - 1 = 1 /\ 3 - 1 = 2 /\ 4 - 1 = 3 /\ 5 - 1 = 4
    OBVIOUS
  <2>3. Fine(0)
    BY <1>1, <1>8
  <2>4. Fine(1)
    BY <1>2, <1>8, <2>2
  <2>5. Fine(2)
    BY <1>3, <1>8, <2>2
  <2>6. Fine(3)
    BY <1>4, <1>8, <2>2
  <2>7. Fine(4)
    BY <1>5, <1>8, <2>2
  <2>8. Fine(5)
    BY <1>6, <1>8, <2>2
  <2> HIDE DEF Fine
  <2>9. \A k \in 0..5 : Fine(k)
    BY <2>1, <2>3, <2>4, <2>5, <2>6, <2>7, <2>8
  <2> QED
    BY <2>9 DEF Fine
<1>10. f = [k \in 0..5 |-> f[k]]
  BY <1>7
<1>11. Labels(f)
  BY <1>9, <1>10, Units DEF Labels
<1> QED
  BY <1>11

LEMMA LessThanIs ==
    /\ \A u \in Nat : LessThan[0][u] = << >>
    /\ \A k \in 1..5, u \in Nat : LessThan[k][u] = Pair(Unit[k], LessThan[k - 1], u)
<1>1. Labels(LessThan)
  <2>1. \E f : f = [k \in 0..Len(Unit) |->
                       [u \in Nat |->
                           IF k = 0 THEN << >>
                           ELSE << (u \div Unit[k]) \div 10, (u \div Unit[k]) % 10 >>
                                \o f[k - 1][u - (u \div Unit[k]) * Unit[k]]]]
    BY LabelsExist, Zenon DEF Labels, Pair
  <2> QED
    BY <2>1, Zenon DEF LessThan, Labels, Pair
<1>2. PICK f : f = LessThan /\ Labels(f)
  BY <1>1
<1>3. \A k \in 0..5 : f[k] = [u \in Nat |-> IF k = 0 THEN << >> ELSE Pair(Unit[k], f[k - 1], u)]
  <2>1. f = [k \in 0..5 |-> [u \in Nat |-> IF k = 0 THEN << >> ELSE Pair(Unit[k], f[k - 1], u)]]
    <3>1. Len(Unit) = 5
      BY Units
    <3> QED
      BY <1>2, <3>1, Zenon DEF Labels
  <2> QED
    BY <2>1
<1>4. \A u \in Nat : f[0][u] = << >>
  BY <1>3
<1>5. ASSUME NEW k \in 1..5, NEW u \in Nat PROVE f[k][u] = Pair(Unit[k], f[k - 1], u)
  <2>1. k \in 0..5 /\ k # 0
    OBVIOUS
  <2>2. f[k] = [v \in Nat |-> IF k = 0 THEN << >> ELSE Pair(Unit[k], f[k - 1], v)]
    BY <1>3, <2>1
  <2> QED
    BY <2>1, <2>2
<1> QED
  BY <1>2, <1>4, <1>5

LEMMA DigitsMore ==
    ASSUME NEW n \in Nat, n >= 10
    PROVE  Digits[n] = Append(Digits[n \div 10], n % 10)
<1>1. PICK f : f = Digits /\ Writes(f, 10)
  BY DigitsWritten
<1>2. ~ (n < 10)
  OBVIOUS
<1>3. f[n] = IF n < 10 THEN << n >> ELSE Append(f[n \div 10], n % 10)
  BY <1>1, WritingValue
<1> QED
  BY <1>1, <1>2, <1>3, Zenon

LEMMA TwoDigits ==
    ASSUME NEW q \in Nat \ {0}, NEW d \in 0..99
    PROVE  /\ Digits[100 * q + d] = Digits[q] \o << d \div 10, d % 10 >>
           /\ d >= 10 => Digits[d] = << d \div 10, d % 10 >>
<1>1. PICK a \in 0..9 : a = d \div 10
  OBVIOUS
<1>2. PICK b \in 0..9 : b = d % 10 /\ d = 10 * a + b
  BY <1>1
<1>3. PICK n \in Nat : n = 100 * q + d
  OBVIOUS
<1>4. PICK m \in Nat : m = 10 * q + a
  OBVIOUS
<1>5. PICK s \in Seq(0..9) : s = Digits[q]
  BY DigitsAre
<1>a. /\ a = m % 10 /\ q = m \div 10 /\ m >= 10
      /\ b = n % 10 /\ m = n \div 10 /\ n >= 10
  BY <1>1, <1>2, <1>3, <1>4
<1>6. Digits[m] = Append(s, a)
  BY <1>5, <1>a, DigitsMore
<1>7. Digits[n] = Append(Append(s, a), b)
  BY <1>6, <1>a, DigitsMore
<1>8. Append(Append(s, a), b) = s \o << a, b >>
  <2>0. << a >> \in Seq(0..9) /\ << b >> \in Seq(0..9)
    OBVIOUS
  <2>a. Append(s, a) = s \o << a >>
    BY OneBehind
  <2>1. PICK t \in Seq(0..9) : t = << a >> /\ Append(s, a) = s \o t
    BY <2>0, <2>a
  <2>2. PICK v \in Seq(0..9) : v = << b >>
    BY <2>0
  <2>3. PICK w \in Seq(0..9) : w = s \o t
    BY <2>1, ConcatProperties
  <2>4. Append(w, b) = w \o v
    BY <2>2, OneBehind
  <2>5. (s \o t) \o v = s \o (t \o v)
    BY ConcatAssociative, SMTT(20)
  <2>6. t \o v = << a, b >>
    BY <2>1, <2>2, TwoMarks
  <2> QED
    BY <2>1, <2>3, <2>4, <2>5, <2>6
<1>9. d >= 10 => Digits[d] = << a, b >>
  <2> SUFFICES ASSUME d >= 10 PROVE Digits[d] = << a, b >>
    OBVIOUS
  <2>1. Digits[d] = Append(Digits[a], b)
    BY <1>1, <1>2, DigitsMore
  <2>2. Digits[a] = << a >>
    BY DigitsAre
  <2>3. << a >> \in Seq(0..9)
    OBVIOUS
  <2>4. Append(<< a >>, b) = << a >> \o << b >>
    BY <2>3, OneBehind
  <2> QED
    BY <2>1, <2>2, <2>4, TwoMarks
<1> QED
  BY <1>1, <1>2, <1>3, <1>5, <1>7, <1>8, <1>9

(* The digits of a number of M or more are those of its quotient, and then *)
(* what a label writes of its remainder.                                   *)
Split(f, M, n, q, r) == n = M * q + r => Digits[n] = Digits[q] \o f[r]
Agree(f, M) == \A q \in Nat \ {0}, r \in Nat, n \in Nat : r < M => Split(f, M, n, q, r)

(* Of a remainder below M, f writes digits. *)
Written(f, M) == \A r \in Nat : r < M => f[r] \in Seq(0..9)

(* The label g writes the two digits of d, and leaves s to the label f.    *)
Taken(f, g, U, r, d, s) ==
    /\ s < U /\ r = U * d + s /\ f[s] \in Seq(0..9)
    /\ g[r] = << d \div 10, d % 10 >> \o f[s]

LEMMA NextLabel ==
    ASSUME NEW f, NEW g, NEW U \in Nat \ {0}, NEW M, M = 100 * U,
           \A u \in Nat : g[u] = Pair(U, f, u), Written(f, U), Agree(f, U)
    PROVE  Written(g, M) /\ Agree(g, M)
<1>1. ASSUME NEW r \in Nat, r < M
      PROVE  \E d \in 0..99 : \E s \in Nat : Taken(f, g, U, r, d, s)
  <2>1. PICK d \in Nat : d = r \div U /\ r = U * d + (r % U) /\ r % U \in 0..U - 1
    BY Division
  <2>2. PICK s \in Nat : s = r % U /\ s < U
    BY <2>1
  <2>3. d < 100
    <3>1. PICK p \in Nat : p = U * d
      OBVIOUS
    <3>2. p < U * 100
      BY <1>1, <2>1, <2>2, <3>1
    <3> QED
      BY <3>1, <3>2
  <2>4. r - d * U = s
    BY <2>1, <2>2
  <2>5. g[r] = << d \div 10, d % 10 >> \o f[s]
    <3>1. g[r] = Pair(U, f, r)
      OBVIOUS
    <3> QED
      BY <2>1, <2>4, <3>1, Zenon DEF Pair
  <2>6. f[s] \in Seq(0..9)
    BY <2>2 DEF Written
  <2>7. d \in 0..99 /\ r = U * d + s
    BY <2>1, <2>2, <2>3
  <2>8. Taken(f, g, U, r, d, s)
    BY <2>2, <2>5, <2>6, <2>7 DEF Taken
  <2> QED
    BY <2>7, <2>8
<1>2. ASSUME NEW d \in 0..99 PROVE << d \div 10, d % 10 >> \in Seq(0..9)
  <2>1. PICK a \in 0..9 : a = d \div 10
    OBVIOUS
  <2>2. PICK b \in 0..9 : b = d % 10
    OBVIOUS
  <2>3. << a, b >> \in Seq(0..9)
    OBVIOUS
  <2> QED
    BY <2>1, <2>2, <2>3
<1>3. Written(g, M)
  <2> SUFFICES ASSUME NEW r \in Nat, r < M PROVE g[r] \in Seq(0..9)
    BY DEF Written
  <2>1. PICK d \in 0..99 : \E s \in Nat : Taken(f, g, U, r, d, s)
    BY <1>1
  <2>2. PICK s \in Nat : f[s] \in Seq(0..9) /\ g[r] = << d \div 10, d % 10 >> \o f[s]
    BY <2>1 DEF Taken
  <2>3. PICK t \in Seq(0..9) : t = << d \div 10, d % 10 >>
    BY <1>2
  <2>4. t \o f[s] \in Seq(0..9)
    BY <2>2, ConcatProperties
  <2> QED
    BY <2>2, <2>3, <2>4
<1>4. Agree(g, M)
  <2> SUFFICES ASSUME NEW q \in Nat \ {0}, NEW r \in Nat, NEW n \in Nat, r < M, n = M * q + r
               PROVE  Digits[n] = Digits[q] \o g[r]
    BY DEF Agree, Split
  <2>1. PICK d \in 0..99 : \E s \in Nat : Taken(f, g, U, r, d, s)
    BY <1>1
  <2>2. PICK s \in Nat : /\ s < U /\ r = U * d + s /\ f[s] \in Seq(0..9)
                         /\ g[r] = << d \div 10, d % 10 >> \o f[s]
    BY <2>1 DEF Taken
  <2>3. PICK p \in Nat \ {0} : p = 100 * q + d
    OBVIOUS
  <2>4. n = U * p + s
    BY <2>2, <2>3
  <2>5. Digits[n] = Digits[p] \o f[s]
    BY <2>2, <2>4 DEF Agree, Split
  <2>6. PICK t \in Seq(0..9) : t = << d \div 10, d % 10 >>
    BY <1>2
  <2>7. Digits[p] = Digits[q] \o t
    <3>1. Digits[100 * q + d] = Digits[q] \o << d \div 10, d % 10 >>
      BY TwoDigits, Zenon
    <3> QED
      BY <2>3, <2>6, <3>1, Zenon
  <2>8. PICK v \in Seq(0..9) : v = Digits[q]
    BY DigitsAre
  <2>9. PICK w \in Seq(0..9) : w = f[s]
    BY <2>2
  <2>10. (v \o t) \o w = v \o (t \o w)
    BY ConcatAssociative, SMTT(20)
  <2>11. g[r] = t \o w
    BY <2>2, <2>6, <2>9, Zenon
  <2>12. Digits[n] = (v \o t) \o w
    BY <2>5, <2>7, <2>8, <2>9, Zenon
  <2> QED
    BY <2>8, <2>10, <2>11, <2>12, Zenon
<1> QED
  BY <1>3, <1>4

LEMMA LabelsAgree == \A k \in 1..5 : Agree(LessThan[k - 1], Unit[k])
<1> DEFINE Fine(f, U) == Written(f, U) /\ Agree(f, U)
<1>1. Fine(LessThan[0], 1)
  <2>1. ASSUME NEW r \in Nat, r < 1 PROVE r = 0 /\ LessThan[0][r] = << >>
    BY <2>1, LessThanIs
  <2>2. << >> \in Seq(0..9)
    OBVIOUS
  <2>3. Written(LessThan[0], 1)
    BY <2>1, <2>2 DEF Written
  <2>4. ASSUME NEW q \in Nat \ {0}, NEW r \in Nat, NEW n \in Nat, r < 1, n = 1 * q + r
        PROVE  Digits[n] = Digits[q] \o LessThan[0][r]
    <3>1. n = q
      BY <2>4
    <3>2. PICK v \in Seq(0..9) : v = Digits[q]
      BY DigitsAre
    <3>3. v \o << >> = v
      BY ConcatEmptySeq
    <3> QED
      BY <2>1, <2>4, <3>1, <3>2, <3>3
  <2>5. Agree(LessThan[0], 1)
    BY <2>4 DEF Agree, Split
  <2> QED
    BY <2>3, <2>5
<1>2. ASSUME NEW k \in 1..4, NEW j, j = k - 1, NEW U \in Nat \ {0}, U = Unit[k], Fine(LessThan[j], U)
      PROVE  Fine(LessThan[k], 100 * U)
  <2>1. PICK f : f = LessThan[j] /\ Written(f, U) /\ Agree(f, U)
    BY <1>2
  <2>2. PICK g : g = LessThan[k]
    OBVIOUS
  <2>3. \A u \in Nat : g[u] = Pair(U, f, u)
    <3>1. k \in 1..5
      OBVIOUS
    <3>2. \A u \in Nat : LessThan[k][u] = Pair(Unit[k], LessThan[k - 1], u)
      BY <3>1, LessThanIs
    <3> QED
      BY <1>2, <2>1, <2>2, <3>2
  <2>4. PICK M : M = 100 * U
    OBVIOUS
  <2>5. Written(g, M) /\ Agree(g, M)
    BY <2>1, <2>3, <2>4, NextLabel
  <2> QED
    BY <2>2, <2>4, <2>5
<1>3. Fine(LessThan[1], 100)
  <2>1. 1 \in 1..4 /\ 0 = 1 - 1 /\ 1 \in Nat \ {0} /\ 1 = Unit[1] /\ 100 * 1 = 100
    BY Units
  <2> HIDE DEF Fine
  <2> QED
    BY <1>1, <1>2, <2>1
<1>4. Fine(LessThan[2], 10000)
  <2>1. 2 \in 1..4 /\ 1 = 2 - 1 /\ 100 \in Nat \ {0} /\ 100 = Unit[2] /\ 100 * 100 = 10000
    BY Units
  <2> HIDE DEF Fine
  <2> QED
    BY <1>2, <1>3, <2>1
<1>5. Fine(LessThan[3], 1000000)
  <2>1. 3 \in 1..4 /\ 2 = 3 - 1 /\ 10000 \in Nat \ {0} /\ 10000 = Unit[3] /\ 100 * 10000 = 1000000
    BY Units
  <2> HIDE DEF Fine
  <2> QED
    BY <1>2, <1>4, <2>1
<1>6. Fine(LessThan[4], 100000000)
  <2>1. /\ 4 \in 1..4 /\ 3 = 4 - 1 /\ 1000000 \in Nat \ {0} /\ 1000000 = Unit[4]
        /\ 100 * 1000000 = 100000000
    BY Units
  <2> HIDE DEF Fine
  <2> QED
    BY <1>2, <1>5, <2>1
<1>7. ASSUME NEW k \in 1..5 PROVE Agree(LessThan[k - 1], Unit[k])
  <2>1. k \in {1, 2, 3, 4, 5}
    OBVIOUS
  <2>2. 1 - 1 = 0 /\ 2 - 1 = 1 /\ 3 - 1 = 2 /\ 4 - 1 = 3 /\ 5 - 1 = 4
    OBVIOUS
  <2>3. /\ Agree(LessThan[0], 1) /\ Agree(LessThan[1], 100) /\ Agree(LessThan[2], 10000)
        /\ Agree(LessThan[3], 1000000) /\ Agree(LessThan[4], 100000000)
    BY <1>1, <1>3, <1>4, <1>5, <1>6
  <2> QED
    BY <2>1, <2>2, <2>3, Units
<1> QED
  BY <1>7

(* The label a number jumps to: the last whose unit it has.                *)
LEMMA LabelOf ==
    ASSUME NEW u \in 0..MaxInt32
    PROVE  LET k == Max({1} \cup {j \in 1..Len(Unit) : Unit[j] <= u})
           IN  /\ k \in 1..5 /\ Unit[k] \in Nat \ {0}
               /\ u > 0 => Unit[k] <= u /\ u < 100 * Unit[k]
               /\ u = 0 => k = 1
<1>0. u \in Nat /\ u < 100 * 100000000
  BY LargestNumber
<1>1. PICK S : S = {1} \cup {j \in 1..Len(Unit) : Unit[j] <= u}
  OBVIOUS
<1>2. \A j : j \in S <=> (j = 1 \/ (j \in 1..5 /\ Unit[j] <= u))
  BY <1>1, Units
<1>3. PICK m \in 1..5 : m \in S /\ \A j \in S : m >= j
  <2>1. CASE 5 \in S
    <3>1. \A j \in S : 5 >= j
      BY <1>2
    <3> QED
      BY <2>1, <3>1
  <2>2. CASE 5 \notin S /\ 4 \in S
    <3>1. \A j \in S : 4 >= j
      BY <1>2, <2>2
    <3> QED
      BY <2>2, <3>1
  <2>3. CASE 5 \notin S /\ 4 \notin S /\ 3 \in S
    <3>1. \A j \in S : 3 >= j
      BY <1>2, <2>3
    <3> QED
      BY <2>3, <3>1
  <2>4. CASE 5 \notin S /\ 4 \notin S /\ 3 \notin S /\ 2 \in S
    <3>1. \A j \in S : 2 >= j
      BY <1>2, <2>4
    <3> QED
      BY <2>4, <3>1
  <2>5. CASE 5 \notin S /\ 4 \notin S /\ 3 \notin S /\ 2 \notin S
    <3>1. \A j \in S : 1 >= j
      BY <1>2, <2>5
    <3>2. 1 \in S
      BY <1>2
    <3> QED
      BY <3>1, <3>2
  <2> QED
    BY <2>1, <2>2, <2>3, <2>4, <2>5
<1>4. PICK k : k = Max(S) /\ k \in S /\ \A j \in S : k >= j
  <2>1. \E x \in S : \A y \in S : x >= y
    BY <1>3
  <2> QED
    BY <2>1, Zenon DEF Max
<1>5. k \in 1..5
  BY <1>2, <1>4
<1>6. Unit[k] \in Nat \ {0}
  <2>1. k \in {1, 2, 3, 4, 5}
    BY <1>5
  <2> QED
    BY <2>1, Units
<1>7. u > 0 => Unit[k] <= u
  BY <1>0, <1>2, <1>4, Units
<1>8. u < 100 * Unit[k]
  <2>1. CASE k = 5
    BY <1>0, <2>1, Units
  <2>2. CASE k \in 1..4
    <3>1. PICK j : j = k + 1 /\ j \in 1..5 /\ j > k
      BY <2>2
    <3>2. j \notin S
      BY <1>4, <1>5, <3>1
    <3>3. Unit[j] > u
      <4>1. Unit[j] \in Nat
        <5>1. j \in {1, 2, 3, 4, 5}
          BY <3>1
        <5> QED
          BY <5>1, Units
      <4>2. ~ (Unit[j] <= u)
        BY <1>2, <3>1, <3>2
      <4> QED
        BY <1>0, <4>1, <4>2
    <3>4. Unit[j] = 100 * Unit[k]
      <4>1. k \in {1, 2, 3, 4}
        BY <2>2
      <4>2. 1 + 1 = 2 /\ 2 + 1 = 3 /\ 3 + 1 = 4 /\ 4 + 1 = 5
        OBVIOUS
      <4> QED
        BY <3>1, <4>1, <4>2, Units
    <3> QED
      BY <3>3, <3>4
  <2> QED
    BY <1>5, <2>1, <2>2
<1>9. u = 0 => k = 1
  <2> SUFFICES ASSUME u = 0 PROVE k = 1
    OBVIOUS
  <2>1. Unit[k] <= u => FALSE
    BY <1>6
  <2> QED
    BY <1>2, <1>4, <2>1
<1> QED
  BY <1>1, <1>4, <1>5, <1>6, <1>7, <1>8, <1>9

(* FastUInt32ToBufferLeft, two digits at a time from a label on, writes    *)
(* what the loop of one digit at a time does.                              *)
LEMMA BothWays ==
    ASSUME NEW u \in 0..MaxInt32
    PROVE  FastUInt32ToBufferLeft(u) = Digits[u]
<1>1. PICK k : k = Max({1} \cup {j \in 1..Len(Unit) : Unit[j] <= u})
  OBVIOUS
<1>2. /\ k \in 1..5 /\ Unit[k] \in Nat \ {0}
      /\ u > 0 => Unit[k] <= u /\ u < 100 * Unit[k]
      /\ u = 0 => k = 1
  BY <1>1, LabelOf
<1>3. PICK U \in Nat \ {0} : U = Unit[k]
  BY <1>2
<1>4. PICK d \in Nat : d = u \div U
  BY LargestNumber
<1>5. PICK s \in Nat : s = u - d * U /\ s < U /\ u = U * d + s
  <2>1. u \in Nat
    BY LargestNumber
  <2>2. u = U * d + (u % U) /\ u % U \in 0..U - 1
    BY <1>4, <2>1, Division
  <2> QED
    BY <2>2
<1>6. FastUInt32ToBufferLeft(u)
          = IF u >= 10 * U THEN LessThan[k][u] ELSE << d >> \o LessThan[k - 1][s]
  <2>1. FastUInt32ToBufferLeft(u)
            = IF JumpsTo(u, k) THEN LessThan[k][u] ELSE << u \div U >> \o LessThan[k - 1][u - (u \div U) * U]
    BY <1>1, <1>3, Zenon DEF FastUInt32ToBufferLeft
  <2> QED
    BY <1>3, <1>4, <1>5, <2>1, Zenon DEF JumpsTo
<1>7. LessThan[k][u] = << d \div 10, d % 10 >> \o LessThan[k - 1][s]
  <2>1. u \in Nat
    BY LargestNumber
  <2>2. LessThan[k][u] = Pair(Unit[k], LessThan[k - 1], u)
    BY <1>2, <2>1, LessThanIs
  <2> QED
    BY <1>3, <1>4, <1>5, <2>2, Zenon DEF Pair
<1>8. CASE u > 0
  <2>1. U <= u /\ u < 100 * U /\ u \in Nat
    BY <1>2, <1>3, <1>8, LargestNumber
  <2>2. d >= 1 /\ d < 100
    <3>1. PICK p \in Nat : p = U * d
      OBVIOUS
    <3>2. d # 0
      <4>1. d = 0 => p = 0
        BY <3>1
      <4> QED
        BY <1>5, <2>1, <3>1, <4>1
    <3>3. p < U * 100
      BY <1>5, <2>1, <3>1
    <3> QED
      BY <3>1, <3>2, <3>3
  <2>3. Digits[u] = Digits[d] \o LessThan[k - 1][s]
    <3>1. PICK f : f = LessThan[k - 1] /\ Agree(f, U)
      BY <1>2, <1>3, LabelsAgree
    <3>2. d \in Nat \ {0}
      BY <2>2
    <3> QED
      BY <1>5, <2>1, <3>1, <3>2 DEF Agree, Split
  <2>4. CASE u >= 10 * U
    <3>1. d >= 10
      <4>1. PICK p \in Nat : p = U * d
        OBVIOUS
      <4>2. p + U > U * 10
        BY <1>5, <2>4, <4>1
      <4>3. U * (d + 1) = p + U
        BY <4>1
      <4>4. d + 1 > 10
        BY <4>2, <4>3
      <4> QED
        BY <4>4
    <3>2. d \in 0..99
      BY <2>2
    <3>3. Digits[d] = << d \div 10, d % 10 >>
      <4>1. 1 \in Nat \ {0}
        OBVIOUS
      <4> QED
        BY <3>1, <3>2, <4>1, TwoDigits, Zenon
    <3> QED
      BY <1>6, <1>7, <2>3, <2>4, <3>3, Zenon
  <2>5. CASE ~ (u >= 10 * U)
    <3>1. d < 10
      <4>1. PICK p \in Nat : p = U * d
        OBVIOUS
      <4>2. p < U * 10
        BY <1>5, <2>1, <2>5, <4>1
      <4> QED
        BY <4>1, <4>2
    <3>2. Digits[d] = << d >>
      BY <3>1, DigitsAre
    <3> QED
      BY <1>6, <2>3, <2>5, <3>2, Zenon
  <2> QED
    BY <2>4, <2>5
<1>9. CASE u = 0
  <2>1. k = 1 /\ U = 1
    BY <1>2, <1>3, <1>9, Units
  <2>2. d = 0 /\ s = 0
    BY <1>4, <1>5, <1>9, <2>1
  <2>3. ~ (u >= 10 * U)
    BY <1>9, <2>1
  <2>4. LessThan[k - 1][s] = << >>
    BY <2>1, <2>2, LessThanIs
  <2>5. Digits[u] = << d >>
    BY <1>9, <2>2, DigitsAre
  <2>6. << d >> \o << >> = << d >>
    <3>0. << d >> \in Seq(Nat)
      OBVIOUS
    <3>1. PICK v \in Seq(Nat) : v = << d >>
      BY <3>0
    <3> QED
      BY <3>1, ConcatEmptySeq
  <2> QED
    BY <1>6, <2>3, <2>4, <2>5, <2>6, Zenon
<1> QED
  BY <1>8, <1>9, LargestNumber

-----------------------------------------------------------------------------
(* Every number the runs come to is written digit for digit: its decimal   *)
(* and hexadecimal texts denote it without a zero in front, those of its   *)
(* opposites a sign and the digits behind it, down to the smallest         *)
(* integer; eight hexadecimal digits are its own behind zeros; and the     *)
(* labels that write two digits at a time write the digits of the loop     *)
(* that writes one (FastInt32ToBuffer, FastHexToBuffer,                    *)
(* InternalFastHexToBuffer and FastUInt32ToBufferLeft of strutil.cc).      *)
THEOREM NumbersReadBackCorrect == Spec => []NumbersReadBack
<1>1. number \in 0..MaxInt32 => NumbersReadBack
  <2> SUFFICES ASSUME NEW n, n = number, n \in 0..MaxInt32 PROVE NumbersReadBack
    OBVIOUS
  <2>0. n \in Nat /\ n < 16 * 268435456
    BY LargestNumber
  <2>1. Denotes(FastInt32ToBuffer(n), n, 10)
    <3>1. PICK B \in Nat \ {0, 1} : B = 10
      OBVIOUS
    <3>2. Denotes(Digits[n], n, B)
      BY <2>0, <3>1, DigitsWritten, DenotesNumber
    <3>3. FastInt32ToBuffer(n) = Digits[n]
      <4>1. n >= 0
        BY <2>0
      <4> QED
        BY <4>1, Zenon DEF FastInt32ToBuffer
    <3> QED
      BY <3>1, <3>2, <3>3
  <2>2. Denotes(FastHexToBuffer(n), n, 16)
    <3>1. PICK B \in Nat \ {0, 1} : B = 16
      OBVIOUS
    <3>2. Denotes(Hex[n], n, B)
      BY <2>0, <3>1, HexWritten, DenotesNumber
    <3> QED
      BY <3>1, <3>2 DEF FastHexToBuffer
  <2>3. ASSUME NEW negative \in {-n, -n - 1} \ {0}
        PROVE  LET digits == FastInt32ToBuffer(negative)
               IN  /\ Head(digits) = Minus /\ Len(digits) > 1
                   /\ ToSet(Tail(digits)) \subseteq 0..9 /\ digits[2] # 0
                   /\ ValueOf(Tail(digits), 10) = negative
    <3>1. PICK m \in Nat \ {0} : negative = -m
      <4>1. -negative \in Nat \ {0} /\ negative = -(-negative)
        BY <2>0
      <4> QED
        BY <4>1
    <3> QED
      BY <3>1, NegativeDenotes
  <2>4. InternalFastHexToBuffer(n, 8)
            = [i \in 1..(8 - Len(FastHexToBuffer(n))) |-> 0] \o FastHexToBuffer(n)
    <3>1. PICK h : h = Hex /\ Writes(h, 16)
      BY HexWritten
    <3>2. Len(h[n]) <= 8
      BY <2>0, <3>1, EightHexDigits
    <3>3. InternalFastHexToBuffer(n, 8) = Padded(h, n, 8)
      BY <2>0, <3>1, <3>2, FilledUp
    <3> QED
      BY <3>1, <3>3, Zenon DEF Padded, FastHexToBuffer
  <2>5. FastUInt32ToBufferLeft(n) = Digits[n]
    BY BothWays
  <2>6. n = number
    OBVIOUS
  <2>7. DigitsDenote
    BY <2>1, <2>2, <2>3, <2>4, <2>6, Zenon DEF DigitsDenote
  <2>8. BothWaysAgree
    BY <2>5, <2>6, Zenon DEF BothWaysAgree
  <2> QED
    BY <2>7, <2>8 DEF NumbersReadBack
<1> QED
  BY <1>1, NumberInvariant, PTL

-----------------------------------------------------------------------------
(* Bounds, widths and buffers                                              *)

LEMMA OfTwo ==
    ASSUME NEW a \in Int, NEW b \in Int
    PROVE  /\ Max({a, b}) = IF a >= b THEN a ELSE b
           /\ Min({a, b}) = IF a <= b THEN a ELSE b
<1>1. PICK S : S = {a, b}
  OBVIOUS
<1>2. PICK m : m = Max(S) /\ m \in S /\ \A y \in S : m >= y
  <2>1. \E x \in S : \A y \in S : x >= y
    BY <1>1
  <2> QED
    BY <2>1, Zenon DEF Max
<1>3. PICK k : k = Min(S) /\ k \in S /\ \A y \in S : k <= y
  <2>1. \E x \in S : \A y \in S : x <= y
    BY <1>1
  <2> QED
    BY <2>1, Zenon DEF Min
<1>4. m = IF a >= b THEN a ELSE b
  BY <1>1, <1>2
<1>5. k = IF a <= b THEN a ELSE b
  BY <1>1, <1>3
<1> QED
  BY <1>1, <1>2, <1>3, <1>4, <1>5, Zenon

(* A slice of a buffer of any length copies, for any start and any end but *)
(* 0, the bytes that the specification of typed arrays says, and up to the *)
(* length if the end is missing (ArrayBuffer.prototype.slice of            *)
(* internal/js/slice.js, which takes an end of 0 for a missing one).       *)
THEOREM SlicesCorrect ==
    \A length \in Nat, start \in Int, end \in (Int \ {0}) \cup {Undefined} :
        SliceExact(start, end, length)
<1> SUFFICES ASSUME NEW n \in Nat, NEW start \in Int, NEW end \in (Int \ {0}) \cup {Undefined}
             PROVE  SliceExact(start, end, n)
  OBVIOUS
<1> DEFINE Within(i) == Max({0, Min({n, IF i < 0 THEN i + n ELSE i})})
           Place(i) == IF i < 0 THEN (IF i + n < 0 THEN 0 ELSE i + n) ELSE (IF i > n THEN n ELSE i)
           last == IF end = Undefined THEN n ELSE Within(end)
<1>1. ASSUME NEW i \in Int PROVE Within(i) = Place(i)
  <2>1. PICK j \in Int : j = IF i < 0 THEN i + n ELSE i
    OBVIOUS
  <2> HIDE DEF Within, Place, last
  <2>2. PICK m \in Int : m = Min({n, j}) /\ m = IF n <= j THEN n ELSE j
    <3>1. PICK k \in Int : k = IF n <= j THEN n ELSE j
      OBVIOUS
    <3>2. n \in Int
      OBVIOUS
    <3>3. Min({n, j}) = IF n <= j THEN n ELSE j
      BY <3>2, OfTwo
    <3> QED
      BY <3>1, <3>3, Zenon
  <2> USE DEF Within, Place
  <2>3. Max({0, m}) = IF 0 >= m THEN 0 ELSE m
    BY OfTwo
  <2>4. Within(i) = Max({0, m})
    BY <2>1, <2>2, Zenon
  <2>5. PICK w : w = Within(i) /\ w = IF 0 >= m THEN 0 ELSE m
    BY <2>3, <2>4, Zenon
  <2> HIDE DEF Within
  <2>6. w = Place(i)
    <3>1. w \in Int
      BY <2>5
    <3>2. CASE i < 0
      BY <2>1, <2>2, <2>5, <3>1, <3>2
    <3>3. CASE i >= 0
      BY <2>1, <2>2, <2>5, <3>1, <3>3
    <3> QED
      BY <3>2, <3>3
  <2> QED
    BY <2>5, <2>6, Zenon
<1>2. PICK e \in Int : e = EndOf(end, n)
  BY DEF EndOf
<1>3. last = Place(e)
  <2>1. CASE end = Undefined
    <3>1. e = n /\ last = n
      BY <1>2, <2>1, Zenon DEF EndOf
    <3> HIDE DEF last
    <3> QED
      BY <3>1
  <2>2. CASE end # Undefined
    <3>1. end \notin {Undefined, 0}
      BY <2>2
    <3>2. e = end /\ last = Within(e)
      BY <1>2, <2>2, <3>1, Zenon DEF EndOf
    <3> HIDE DEF last, Within, Place
    <3> QED
      BY <1>1, <3>2
  <2> QED
    BY <2>1, <2>2
<1>4. PICK f \in Int : f = FromEnd(start, n) /\ f = IF start < 0 THEN n + start ELSE start
  BY DEF FromEnd
<1>5. PICK g \in Int : g = FromEnd(e, n) /\ g = IF e < 0 THEN n + e ELSE e
  BY DEF FromEnd
<1>6. Place(start) = Clamp(f, n) /\ Place(e) = Clamp(g, n)
  BY <1>4, <1>5 DEF Clamp
<1>7. PICK a \in 0..n : a = Clamp(f, n)
  BY DEF Clamp
<1>8. PICK b \in 0..n : b = Clamp(g, n)
  BY DEF Clamp
<1>9. PICK s : s = Slice(start, end, n)
               /\ s = IF g < f THEN [start |-> 0, end |-> 0] ELSE [start |-> a, end |-> b]
  BY <1>2, <1>4, <1>5, <1>7, <1>8, Zenon DEF Slice
<1>10. /\ 0 <= s.start /\ s.start <= s.end /\ s.end <= n
       /\ s.start..(s.end - 1) = a..(b - 1)
  <2>1. CASE g < f
    <3>1. s.start = 0 /\ s.end = 0
      BY <1>9, <2>1
    <3>2. b <= a
      BY <1>7, <1>8, <2>1 DEF Clamp
    <3>3. 0..(0 - 1) = a..(b - 1)
      BY <3>2
    <3> QED
      BY <3>1, <3>3
  <2>2. CASE ~ (g < f)
    <3>1. s.start = a /\ s.end = b
      BY <1>9, <2>2
    <3>2. a <= b
      BY <1>7, <1>8, <2>2 DEF Clamp
    <3> QED
      BY <3>1, <3>2
  <2> QED
    BY <2>1, <2>2
<1>11. Within(start) = a /\ last = b
  <2> HIDE DEF Within, Place, last
  <2> QED
    BY <1>1, <1>3, <1>6, <1>7, <1>8
<1> HIDE DEF Within, Place, last
<1>12. s.start..(s.end - 1) = Within(start)..(last - 1)
  BY <1>10, <1>11, Zenon
<1> QED
  BY <1>9, <1>10, <1>12, Zenon DEF SliceExact, Within, last

(* However wide long is, if int32 fits in it, strto32_adaptor gives every  *)
(* number that is one of int32 and leaves errno alone, and for the others  *)
(* the nearest int32 and ERANGE (strto32_adaptor of strutil.cc).           *)
THEOREM CutToInt32Correct ==
    \A value \in Int, longMax, intMax \in Nat :
        intMax <= longMax => \A errno : CutToInt32(value, longMax, intMax, errno)
<1> SUFFICES ASSUME NEW v \in Int, NEW l \in Nat, NEW i \in Nat, NEW errno, i <= l
             PROVE  CutToInt32(v, l, i, errno)
  OBVIOUS
<1> DEFINE got == Strtol(v, l, "0")
           below == \/ got = [result |-> -l - 1, errno |-> "ERANGE"]
                    \/ got.errno = "0" /\ got.result < -i - 1
           above == \/ got = [result |-> l, errno |-> "ERANGE"]
                    \/ got.errno = "0" /\ got.result > i
<1>0. strto32_adaptor(v, l, i, errno)
        = IF below THEN [result |-> -i - 1, errno |-> "ERANGE"]
          ELSE IF above THEN [result |-> i, errno |-> "ERANGE"]
          ELSE [got EXCEPT !.errno = IF @ = "0" THEN errno ELSE @]
  BY Zenon DEF strto32_adaptor
<1>1. CASE v \in (-l - 1)..l
  <2>1. got = [result |-> v, errno |-> "0"]
    BY <1>1 DEF Strtol
  <2>2. got.result = v /\ got.errno = "0" /\ got.errno # "ERANGE"
    BY <2>1
  <2>3. /\ got # [result |-> -l - 1, errno |-> "ERANGE"]
        /\ got # [result |-> l, errno |-> "ERANGE"]
    <3> HIDE DEF got
    <3> QED
      BY <2>2
  <2>4. below <=> v < -i - 1
    BY <2>2, <2>3, Zenon
  <2>5. above <=> v > i
    BY <2>2, <2>3, Zenon
  <2>6. [got EXCEPT !.errno = IF @ = "0" THEN errno ELSE @] = [result |-> v, errno |-> errno]
    BY <2>1
  <2> HIDE DEF got, below, above
  <2> QED
    BY <1>0, <2>4, <2>5, <2>6 DEF CutToInt32
<1>2. CASE v \notin (-l - 1)..l
  <2>1. got = [result |-> IF v < 0 THEN -l - 1 ELSE l, errno |-> "ERANGE"]
    BY <1>2 DEF Strtol
  <2>2. v \notin (-i - 1)..i
    BY <1>2
  <2>3. CASE v < 0
    <3>1. below
      BY <2>1, <2>3, Zenon
    <3> HIDE DEF got, below, above
    <3>2. strto32_adaptor(v, l, i, errno) = [result |-> -i - 1, errno |-> "ERANGE"]
      BY <1>0, <3>1, Zenon
    <3> QED
      BY <2>2, <2>3, <3>2, Zenon DEF CutToInt32
  <2>4. CASE ~ (v < 0)
    <3>1. got = [result |-> l, errno |-> "ERANGE"]
      BY <2>1, <2>4, Zenon
    <3>2. above
      BY <3>1, Zenon
    <3>3. ~below
      <4>1. got.result = l /\ got.errno = "ERANGE"
        BY <3>1
      <4>2. got.errno # "0" /\ -l - 1 # l
        BY <4>1
      <4>3. got # [result |-> -l - 1, errno |-> "ERANGE"]
        <5> HIDE DEF got
        <5> QED
          BY <4>1, <4>2
      <4> QED
        BY <4>2, <4>3, Zenon
    <3> HIDE DEF got, below, above
    <3>4. strto32_adaptor(v, l, i, errno) = [result |-> i, errno |-> "ERANGE"]
      BY <1>0, <3>2, <3>3, Zenon
    <3> QED
      BY <2>2, <2>4, <3>4, Zenon DEF CutToInt32
  <2> QED
    BY <2>3, <2>4
<1> QED
  BY <1>1, <1>2

(* A recursion from a number to a larger one, up to K, that halts in H.    *)
Upwards(f, K, H, next) == f = [s \in 1..K |-> IF s \in H THEN s ELSE f[next[s]]]
Rises(K, H, next) == \A s \in 1..K : s \notin H => next[s] \in 1..K /\ next[s] > s

LEMMA UpwardsExists ==
    ASSUME NEW K \in Nat \ {0}, NEW H, NEW next, Rises(K, H, next)
    PROVE  \E f : Upwards(f, K, H, next)
<1>0. \A s \in 1..K : s \notin H => next[s] \in 1..K /\ next[s] > s
  BY DEF Rises
<1> DEFINE halts == {n \in Nat : n >= K \/ K - n \in H}
<1>a. \A n \in Nat \ halts : /\ n < K /\ K - n \in 1..K /\ K - n \notin H
                             /\ next[K - n] \in 1..K /\ next[K - n] > K - n
  <2> SUFFICES ASSUME NEW n \in Nat \ halts
               PROVE  /\ n < K /\ K - n \in 1..K /\ K - n \notin H
                      /\ next[K - n] \in 1..K /\ next[K - n] > K - n
    OBVIOUS
  <2>1. n < K /\ K - n \notin H
    OBVIOUS
  <2>2. PICK s \in 1..K : s = K - n
    BY <2>1
  <2> QED
    BY <1>0, <2>1, <2>2
<1> HIDE DEF halts
<1>1. PICK base \in [Nat -> Int] : \A n \in Nat : base[n] = K
  <2>1. [n \in Nat |-> K] \in [Nat -> Int] /\ \A n \in Nat : [m \in Nat |-> K][n] = K
    OBVIOUS
  <2> QED
    BY <2>1
<1>2. PICK step \in [Int \X Nat -> Int] :
          \A v \in Int, n \in Nat : step[<< v, n >>] = IF n \in halts THEN K - n ELSE v
  <2> DEFINE g == [p \in Int \X Nat |-> IF p[2] \in halts THEN K - p[2] ELSE p[1]]
  <2>1. g \in [Int \X Nat -> Int]
    OBVIOUS
  <2>2. \A v \in Int, n \in Nat : g[<< v, n >>] = IF n \in halts THEN K - n ELSE v
    OBVIOUS
  <2> HIDE DEF g
  <2> QED
    BY <2>1, <2>2
<1>3. PICK down \in [Nat -> Nat] : \A n \in Nat : down[n] = IF n \in halts THEN 0 ELSE K - next[K - n]
  <2> DEFINE g == [n \in Nat |-> IF n \in halts THEN 0 ELSE K - next[K - n]]
  <2>1. \A n \in Nat : g[n] \in Nat
    <3> SUFFICES ASSUME NEW n \in Nat PROVE g[n] \in Nat
      OBVIOUS
    <3>1. CASE n \in halts
      BY <3>1
    <3>2. CASE n \notin halts
      <4>1. PICK t \in 1..K : t = next[K - n]
        BY <1>a, <3>2
      <4> QED
        BY <3>2, <4>1
    <3> QED
      BY <3>1, <3>2
  <2>2. g = [n \in Nat |-> g[n]]
    OBVIOUS
  <2>3. \A n \in Nat : g[n] = IF n \in halts THEN 0 ELSE K - next[K - n]
    OBVIOUS
  <2> HIDE DEF g
  <2>4. g \in [Nat -> Nat]
    BY <2>1, <2>2
  <2> QED
    BY <2>3, <2>4
<1>4. ASSUME NEW n \in Nat, n >= 1 PROVE down[n] < n
  <2>1. CASE n \in halts
    BY <1>3, <1>4, <2>1
  <2>2. CASE n \notin halts
    <3>1. PICK t \in 1..K : t = next[K - n] /\ t > K - n
      BY <1>a, <2>2
    <3>2. down[n] = K - t
      BY <1>3, <2>2, <3>1
    <3> QED
      BY <3>1, <3>2
  <2> QED
    BY <2>1, <2>2
<1>5. PICK b \in Nat : b = 1
  OBVIOUS
<1>6. PICK V : V = Int
  OBVIOUS
<1>7. WellFounded(V, b, base, step, down)
  BY <1>4, <1>5, <1>6 DEF WellFounded
<1>8. PICK G \in [Nat -> V] : \A n \in Nat : G[n] = IF n < b THEN base[n] ELSE step[<< G[down[n]], n >>]
  BY <1>7, Recursion
<1>9. ASSUME NEW n \in Nat, n < K
      PROVE  /\ n \in halts => G[n] = K - n
             /\ n \notin halts => G[n] = G[K - next[K - n]]
  <2>1. CASE n = 0
    <3>0. n < b
      BY <1>5, <2>1
    <3>a. G[n] = base[n]
      BY <1>8, <3>0, Zenon
    <3>1. G[n] = K
      BY <1>1, <3>a, Zenon
    <3>2. n \in halts
      <4> SUFFICES ASSUME n \notin halts PROVE FALSE
        OBVIOUS
      <4>1. PICK t \in 1..K : t = next[K - n] /\ t > K - n
        BY <1>a
      <4> QED
        BY <2>1, <4>1
    <3> QED
      BY <2>1, <3>1, <3>2
  <2>2. CASE n >= 1
    <3>1. PICK m \in Nat : m = down[n]
      OBVIOUS
    <3>2. PICK v \in Int : v = G[m]
      BY <1>6
    <3>3. G[n] = step[<< v, n >>]
      BY <1>5, <1>8, <2>2, <3>1, <3>2
    <3>4. G[n] = IF n \in halts THEN K - n ELSE v
      BY <1>2, <3>3
    <3>5. n \notin halts => v = G[K - next[K - n]]
      BY <1>3, <3>1, <3>2
    <3> QED
      BY <3>4, <3>5, Zenon
  <2> QED
    BY <2>1, <2>2
<1>10. PICK f : f = [s \in 1..K |-> G[K - s]]
  OBVIOUS
<1>11. ASSUME NEW s \in 1..K PROVE f[s] = IF s \in H THEN s ELSE f[next[s]]
  <2>1. PICK n \in Nat : n = K - s /\ n < K /\ K - n = s
    OBVIOUS
  <2>2. f[s] = G[n]
    BY <1>10, <2>1
  <2>3. n \in halts <=> s \in H
    BY <2>1 DEF halts
  <2>4. CASE s \in H
    BY <1>9, <2>1, <2>2, <2>3, <2>4
  <2>5. CASE s \notin H
    <3>1. PICK t \in 1..K : t = next[s]
      BY <1>0, <2>5
    <3>2. G[n] = G[K - t]
      BY <1>9, <2>1, <2>3, <2>5, <3>1
    <3>3. f[t] = G[K - t]
      BY <1>10
    <3> QED
      BY <2>2, <2>5, <3>1, <3>2, <3>3, Zenon
  <2> QED
    BY <2>4, <2>5
<1>12. f = [s \in 1..K |-> f[s]]
  BY <1>10
<1>13. Upwards(f, K, H, next)
  BY <1>11, <1>12 DEF Upwards
<1> QED
  BY <1>13

(* Where it stops rising is where it halts.                                *)
LEMMA UpwardsHalts ==
    ASSUME NEW K \in Nat \ {0}, NEW H, NEW next, Rises(K, H, next), NEW f, Upwards(f, K, H, next),
           NEW s \in 1..K
    PROVE  f[s] \in H /\ f[s] \in 1..K
<1>0. /\ \A k \in 1..K : k \notin H => next[k] \in 1..K /\ next[k] > k
      /\ \A k \in 1..K : f[k] = IF k \in H THEN k ELSE f[next[k]]
  BY DEF Rises, Upwards
<1> DEFINE S == {n \in Nat : \A k \in 1..K : K - k = n => f[k] \in H /\ f[k] \in 1..K}
<1>1. ASSUME NEW n \in Nat, \A m \in Nat : m < n => m \in S PROVE n \in S
  <2> SUFFICES ASSUME NEW k \in 1..K, K - k = n PROVE f[k] \in H /\ f[k] \in 1..K
    OBVIOUS
  <2> HIDE DEF S
  <2>1. CASE k \in H
    BY <1>0, <2>1
  <2>2. CASE k \notin H
    <3>1. PICK t \in 1..K : t = next[k] /\ t > k
      BY <1>0, <2>2
    <3>2. PICK m \in Nat : m = K - t /\ m < n
      BY <3>1
    <3>3. f[t] \in H /\ f[t] \in 1..K
      BY <1>1, <3>2 DEF S
    <3>4. f[k] = f[t]
      BY <1>0, <2>2, <3>1
    <3> QED
      BY <3>3, <3>4
  <2> QED
    BY <2>1, <2>2
<1> HIDE DEF S
<1>2. Nat \subseteq S
  BY <1>1, StrongInduction
<1>3. PICK n \in Nat : n = K - s
  OBVIOUS
<1> QED
  BY <1>2, <1>3 DEF S

Grown(length, size, old) ==
    LET result == Vsnprintf(length, size, old) IN IF result < 0 THEN 2 * size ELSE result + 1

(* A text of any length ends up in a buffer larger than it, if doubling a  *)
(* size that is too small stays below the largest, however the C library   *)
(* says that a text does not fit (StringAppendV of stringprintf.cc).       *)
THEOREM WholeTextAppendedCorrect ==
    \A length \in Nat, MaxSize \in Nat \ {0} : \A space \in 1..MaxSize, old \in BOOLEAN :
        2 * length <= MaxSize /\ length < MaxSize
            => StringAppendV(length, space, MaxSize, old) > length
<1> SUFFICES ASSUME NEW n \in Nat, NEW K \in Nat \ {0}, NEW space \in 1..K, NEW old \in BOOLEAN,
                    2 * n <= K, n < K
             PROVE  StringAppendV(n, space, K, old) > n
  OBVIOUS
<1> DEFINE Stops(s) == Fits(Vsnprintf(n, s, old), s) \/ Grown(n, s, old) > K
<1>1. ASSUME NEW s \in 1..K
      PROVE  /\ Stops(s) <=> s > n
             /\ s <= n => Grown(n, s, old) \in 1..K /\ Grown(n, s, old) > s
  <2>1. CASE s > n
    BY <2>1 DEF Fits, Vsnprintf
  <2>2. CASE s <= n /\ old
    <3>1. Vsnprintf(n, s, old) = -1
      BY <2>2 DEF Vsnprintf
    <3>2. Grown(n, s, old) = 2 * s
      BY <3>1 DEF Grown
    <3>3. ~Fits(Vsnprintf(n, s, old), s)
      BY <3>1 DEF Fits
    <3>4. s <= n /\ 2 * s \in 1..K /\ 2 * s > s /\ ~ (s > n) /\ ~ (2 * s > K)
      BY <2>2
    <3> QED
      BY <3>2, <3>3, <3>4, Zenon
  <2>3. CASE s <= n /\ ~old
    <3>1. Vsnprintf(n, s, old) = n
      BY <2>3 DEF Vsnprintf
    <3>2. Grown(n, s, old) = n + 1
      BY <3>1 DEF Grown
    <3>3. ~Fits(Vsnprintf(n, s, old), s)
      BY <2>3, <3>1 DEF Fits
    <3>4. s <= n /\ n + 1 \in 1..K /\ n + 1 > s /\ ~ (s > n) /\ ~ (n + 1 > K)
      BY <2>3
    <3> QED
      BY <3>2, <3>3, <3>4, Zenon
  <2> QED
    BY <2>1, <2>2, <2>3
<1>2. PICK H : H = {s \in 1..K : Stops(s)}
  OBVIOUS
<1>3. PICK next : next = [s \in 1..K |-> Grown(n, s, old)]
  OBVIOUS
<1> HIDE DEF Stops
<1>4. Rises(K, H, next)
  BY <1>1, <1>2, <1>3 DEF Rises
<1>5. ASSUME NEW f PROVE Upwards(f, K, H, next)
                         <=> f = [s \in 1..K |-> IF Stops(s) THEN s ELSE f[Grown(n, s, old)]]
  <2>1. \A s \in 1..K : (s \in H <=> Stops(s)) /\ next[s] = Grown(n, s, old)
    BY <1>2, <1>3
  <2>2. [s \in 1..K |-> IF s \in H THEN s ELSE f[next[s]]]
            = [s \in 1..K |-> IF Stops(s) THEN s ELSE f[Grown(n, s, old)]]
    BY <2>1
  <2> QED
    BY <2>2, Zenon DEF Upwards
<1>6. \E f : f = [s \in 1..K |-> IF Stops(s) THEN s ELSE f[Grown(n, s, old)]]
  BY <1>4, <1>5, UpwardsExists
<1>7. PICK f : /\ f = [s \in 1..K |-> IF Stops(s) THEN s ELSE f[Grown(n, s, old)]]
               /\ StringAppendV(n, space, K, old) = f[space]
  BY <1>6, Zenon DEF StringAppendV, Stops, Grown
<1>8. f[space] \in H /\ f[space] \in 1..K
  BY <1>4, <1>5, <1>7, UpwardsHalts
<1> QED
  BY <1>1, <1>2, <1>7, <1>8

-----------------------------------------------------------------------------
(* Radix marks                                                             *)

(* The part of a text from p to q, of the values V.                        *)
PartOf(V, t, p, q) ==
    /\ SubSeq(t, p, q) \in Seq(V) /\ Len(SubSeq(t, p, q)) = q - p + 1
    /\ \A k \in 1..(q - p + 1) : SubSeq(t, p, q)[k] = t[p + k - 1]

LEMMA SubIs ==
    ASSUME NEW V, NEW t \in Seq(V), NEW p \in Nat \ {0}, NEW q \in Nat, q <= Len(t), p <= q + 1
    PROVE  PartOf(V, t, p, q)
<1>1. Len(t) \in Nat
  BY LenProperties
<1>2. \A k \in p..q : t[k] \in V
  <2>1. \A k \in p..q : k \in 1..Len(t)
    BY <1>1
  <2> QED
    BY <2>1, ElementOfSeq
<1>3. PICK i, j \in Int : i = p /\ j = q
  OBVIOUS
<1>4. PICK s : s = SubSeq(t, i, j)
  OBVIOUS
<1>5. \A k \in i..j : t[k] \in V
  BY <1>2, <1>3
<1>6. /\ s \in Seq(V) /\ Len(s) = IF i <= j THEN j - i + 1 ELSE 0
      /\ \A k \in 1..(j - i + 1) : s[k] = t[i + k - 1]
  BY <1>4, <1>5, SubSeqProperties
<1>7. Len(s) = j - i + 1
  BY <1>3, <1>6
<1> QED
  BY <1>3, <1>4, <1>6, <1>7 DEF PartOf

LEMMA MaxIs ==
    ASSUME NEW S, S \subseteq Int, NEW m \in S, \A y \in S : m >= y
    PROVE  Max(S) = m
<1>1. PICK k : k = Max(S) /\ k \in S /\ \A y \in S : k >= y
  <2>1. \E x \in S : \A y \in S : x >= y
    OBVIOUS
  <2> QED
    BY <2>1, Zenon DEF Max
<1> QED
  BY <1>1

LEMMA MinIs ==
    ASSUME NEW S, S \subseteq Int, NEW m \in S, \A y \in S : m <= y
    PROVE  Min(S) = m
<1>1. PICK k : k = Min(S) /\ k \in S /\ \A y \in S : k <= y
  <2>1. \E x \in S : \A y \in S : x <= y
    OBVIOUS
  <2> QED
    BY <2>1, Zenon DEF Min
<1> QED
  BY <1>1

(* A text of four parts: digits up to i, a mark up to p, digits up to q,    *)
(* and what follows.                                                       *)
Places(t, a, m, c, r, i, p, q, e) ==
    /\ a \in Seq(0..9) /\ m \in Seq(Nat) /\ c \in Seq(0..9) /\ r \in Seq(Nat)
    /\ i = Len(a) /\ p = i + Len(m) /\ q = p + Len(c) /\ e = q + Len(r)
    /\ i <= p /\ p <= q /\ q <= e
    /\ t \in Seq(Nat) /\ Len(t) = e
    /\ \A k \in 1..e : k <= i => t[k] = a[k]
    /\ \A k \in 1..e : k > i /\ k <= p => t[k] = m[k - i]
    /\ \A k \in 1..e : k > p /\ k <= q => t[k] = c[k - p]
    /\ \A k \in 1..e : k > q => t[k] = r[k - q]
    /\ \A k \in 1..e : (k <= i \/ (k > p /\ k <= q)) => t[k] \in 0..9
Spelled(t, a, m, c, r) == \E i, p, q, e \in Nat : Places(t, a, m, c, r, i, p, q, e)

LEMMA JoinedTwo ==
    ASSUME NEW s \in Seq(Nat), NEW u \in Seq(Nat), NEW l \in Nat, l = Len(s),
           NEW n \in Nat, n = l + Len(u), NEW t, t = s \o u
    PROVE  /\ t \in Seq(Nat) /\ Len(t) = n
           /\ \A k \in 1..n : k <= l => t[k] = s[k]
           /\ \A k \in 1..n : k > l => t[k] = u[k - l]
<1>1. /\ s \o u \in Seq(Nat) /\ Len(s \o u) = Len(s) + Len(u)
      /\ \A k \in 1..Len(s) + Len(u) : (s \o u)[k] = IF k <= Len(s) THEN s[k] ELSE u[k - Len(s)]
  BY ConcatProperties
<1>2. /\ t \in Seq(Nat) /\ Len(t) = n
      /\ \A k \in 1..n : t[k] = IF k <= l THEN s[k] ELSE u[k - l]
  BY <1>1
<1> QED
  BY <1>2

LEMMA DigitsFit == ASSUME NEW a \in Seq(0..9) PROVE a \in Seq(Nat) /\ Len(a) \in Nat
<1>1. Len(a) \in Nat /\ a = [k \in 1..Len(a) |-> a[k]] /\ \A k \in 1..Len(a) : a[k] \in 0..9
  BY LenProperties, ElementOfSeq
<1>2. \A k \in 1..Len(a) : a[k] \in Nat
  BY <1>1
<1> QED
  BY <1>1, <1>2

LEMMA Joined ==
    ASSUME NEW a \in Seq(0..9), NEW m \in Seq(Nat), NEW c \in Seq(0..9), NEW r \in Seq(Nat)
    PROVE  Spelled(((a \o m) \o c) \o r, a, m, c, r)
<1>0. a \in Seq(Nat) /\ c \in Seq(Nat)
  BY DigitsFit
<1>1. PICK i \in Nat : i = Len(a)
  BY LenProperties
<1>2. PICK p \in Nat : p = i + Len(m) /\ i <= p
  <2>1. PICK n \in Nat : n = Len(m)
    BY LenProperties
  <2>2. i + n \in Nat /\ i <= i + n
    OBVIOUS
  <2> QED
    BY <2>1, <2>2, Zenon
<1>3. PICK q \in Nat : q = p + Len(c) /\ p <= q
  <2>1. PICK n \in Nat : n = Len(c)
    BY LenProperties
  <2>2. p + n \in Nat /\ p <= p + n
    OBVIOUS
  <2> QED
    BY <2>1, <2>2, Zenon
<1>4. PICK e \in Nat : e = q + Len(r) /\ q <= e
  <2>1. PICK n \in Nat : n = Len(r)
    BY LenProperties
  <2>2. q + n \in Nat /\ q <= q + n
    OBVIOUS
  <2> QED
    BY <2>1, <2>2, Zenon
<1>5. PICK x : x = a \o m
  OBVIOUS
<1>6. /\ x \in Seq(Nat) /\ Len(x) = p
      /\ \A k \in 1..p : k <= i => x[k] = a[k]
      /\ \A k \in 1..p : k > i => x[k] = m[k - i]
  BY <1>0, <1>1, <1>2, <1>5, JoinedTwo
<1>7. PICK y : y = x \o c
  OBVIOUS
<1>8. /\ y \in Seq(Nat) /\ Len(y) = q
      /\ \A k \in 1..q : k <= p => y[k] = x[k]
      /\ \A k \in 1..q : k > p => y[k] = c[k - p]
  <2>1. x \in Seq(Nat) /\ p = Len(x) /\ q = p + Len(c)
    BY <1>3, <1>6
  <2> QED
    BY <1>0, <1>7, <2>1, JoinedTwo, SMTT(20)
<1>9. PICK t : t = y \o r
  OBVIOUS
<1>10. /\ t \in Seq(Nat) /\ Len(t) = e
       /\ \A k \in 1..e : k <= q => t[k] = y[k]
       /\ \A k \in 1..e : k > q => t[k] = r[k - q]
  <2>1. y \in Seq(Nat) /\ q = Len(y) /\ e = q + Len(r)
    BY <1>4, <1>8
  <2> QED
    BY <1>9, <2>1, JoinedTwo, SMTT(20)
<1>11. ASSUME NEW k \in 1..e, k <= i PROVE t[k] = a[k]
  <2>0. i <= p /\ p <= q /\ q <= e
    BY <1>2, <1>3, <1>4
  <2>1. k \in 1..p /\ k \in 1..q /\ k <= p /\ k <= q
    BY <1>11, <2>0
  <2> QED
    BY <1>6, <1>8, <1>10, <1>11, <2>1, Zenon
<1>12. ASSUME NEW k \in 1..e, k > i, k <= p PROVE t[k] = m[k - i]
  <2>0. p <= q /\ q <= e
    BY <1>3, <1>4
  <2>1. k \in 1..p /\ k \in 1..q /\ k <= q
    BY <1>12, <2>0
  <2> QED
    BY <1>6, <1>8, <1>10, <1>12, <2>1, Zenon
<1>13. ASSUME NEW k \in 1..e, k > p, k <= q PROVE t[k] = c[k - p]
  <2>1. k \in 1..q
    BY <1>4, <1>13
  <2> QED
    BY <1>8, <1>10, <1>13, <2>1, Zenon
<1>14. ASSUME NEW k \in 1..e, k <= i PROVE t[k] \in 0..9
  <2>1. k \in 1..Len(a)
    BY <1>1, <1>14
  <2>2. a[k] \in 0..9
    BY <2>1, ElementOfSeq
  <2> QED
    BY <1>11, <1>14, <2>2
<1>15. ASSUME NEW k \in 1..e, k > p, k <= q PROVE t[k] \in 0..9
  <2>1. PICK n \in 1..Len(c) : n = k - p
    BY <1>3, <1>15
  <2>2. c[n] \in 0..9
    BY <2>1, ElementOfSeq
  <2> QED
    BY <1>13, <1>15, <2>1, <2>2
<1>16. Places(t, a, m, c, r, i, p, q, e)
  BY <1>1, <1>2, <1>3, <1>4, <1>10, <1>11, <1>12, <1>13, <1>14, <1>15 DEF Places
<1>17. Spelled(t, a, m, c, r)
  BY <1>16 DEF Spelled
<1> QED
  BY <1>5, <1>7, <1>9, <1>17

LEMMA SpelledOnce ==
    ASSUME NEW a, NEW m, NEW c, NEW r, NEW t, NEW u, Spelled(t, a, m, c, r), Spelled(u, a, m, c, r)
    PROVE  t = u
<1>1. PICK i, p, q, e \in Nat : Places(t, a, m, c, r, i, p, q, e)
  BY DEF Spelled
<1>2. PICK j, v, w, z \in Nat : Places(u, a, m, c, r, j, v, w, z)
  BY DEF Spelled
<1>3. i = j /\ p = v /\ q = w /\ e = z
  BY <1>1, <1>2, Zenon DEF Places
<1>4. Places(u, a, m, c, r, i, p, q, e)
  BY <1>2, <1>3
<1>5. t \in Seq(Nat) /\ u \in Seq(Nat) /\ Len(t) = e /\ Len(u) = e
  BY <1>1, <1>4, Zenon DEF Places
<1>6. ASSUME NEW k \in 1..e PROVE t[k] = u[k]
  <2>1. CASE k <= i
    BY <1>1, <1>4, <2>1, Zenon DEF Places
  <2>2. CASE k > i /\ k <= p
    <3>1. t[k] = m[k - i]
      BY <1>1, <2>2, Zenon DEF Places
    <3>2. u[k] = m[k - i]
      BY <1>4, <2>2, Zenon DEF Places
    <3> QED
      BY <3>1, <3>2
  <2>3. CASE k > p /\ k <= q
    <3>1. t[k] = c[k - p]
      BY <1>1, <2>3, Zenon DEF Places
    <3>2. u[k] = c[k - p]
      BY <1>4, <2>3, Zenon DEF Places
    <3> QED
      BY <3>1, <3>2
  <2>4. CASE k > q
    <3>1. t[k] = r[k - q]
      BY <1>1, <2>4, Zenon DEF Places
    <3>2. u[k] = r[k - q]
      BY <1>4, <2>4, Zenon DEF Places
    <3> QED
      BY <3>1, <3>2
  <2> QED
    BY <2>1, <2>2, <2>3, <2>4
<1> QED
  BY <1>5, <1>6, SeqEqual

(* The first q of s, and all but the first q. *)
IsFront(s, q, u) == u \in Seq(Nat) /\ Len(u) = q /\ \A k \in 1..q : u[k] = s[k]
IsBack(s, q, n, u) == u \in Seq(Nat) /\ Len(u) = n /\ \A k \in 1..n : u[k] = s[q + k]

LEMMA FrontPart ==
    ASSUME NEW s \in Seq(Nat), NEW l \in Nat, l = Len(s), NEW q \in Nat, q <= l
    PROVE  IsFront(s, q, SubSeq(s, 1, q))
<1>1. PICK b \in Nat \ {0} : b = 1
  OBVIOUS
<1>2. b <= q + 1 /\ q - b + 1 = q /\ \A k \in 1..q : b + k - 1 = k
  BY <1>1
<1>0. q <= Len(s)
  OBVIOUS
<1>3. PartOf(Nat, s, b, q)
  BY <1>0, <1>2, SubIs, Zenon
<1>4. /\ SubSeq(s, 1, q) \in Seq(Nat) /\ Len(SubSeq(s, 1, q)) = q
      /\ \A k \in 1..q : SubSeq(s, 1, q)[k] = s[b + k - 1]
  BY <1>1, <1>2, <1>3, Zenon DEF PartOf
<1> QED
  BY <1>2, <1>4, Zenon DEF IsFront

LEMMA BackPart ==
    ASSUME NEW s \in Seq(Nat), NEW l \in Nat, l = Len(s), NEW q \in Nat, q <= l,
           NEW n \in Nat, n = l - q
    PROVE  IsBack(s, q, n, SubSeq(s, q + 1, l))
<1>1. PICK b \in Nat \ {0} : b = q + 1
  OBVIOUS
<1>2. b <= l + 1 /\ l - b + 1 = n /\ \A k \in 1..n : b + k - 1 = q + k
  BY <1>1
<1>0. l <= Len(s)
  OBVIOUS
<1>3. PartOf(Nat, s, b, l)
  BY <1>0, <1>2, SubIs, Zenon
<1>4. /\ SubSeq(s, b, l) \in Seq(Nat) /\ Len(SubSeq(s, b, l)) = n
      /\ \A k \in 1..n : SubSeq(s, b, l)[k] = s[q + k]
  BY <1>2, <1>3, Zenon DEF PartOf
<1>5. IsBack(s, q, n, SubSeq(s, b, l))
  BY <1>4, Zenon DEF IsBack
<1> QED
  BY <1>1, <1>5, Zenon

IsBehind(s, l, q, n, u) == \A k \in 1..l : k > q => s[k] = u[k - q] /\ k - q \in 1..n

LEMMA Behind ==
    ASSUME NEW s, NEW l \in Nat, NEW q \in Nat, q <= l, NEW n \in Nat, n = l - q, NEW u,
           IsBack(s, q, n, u)
    PROVE  IsBehind(s, l, q, n, u)
<1> SUFFICES ASSUME NEW k \in 1..l, k > q PROVE s[k] = u[k - q] /\ k - q \in 1..n
  BY Zenon DEF IsBehind
<1>1. k - q \in 1..n /\ q + (k - q) = k
  OBVIOUS
<1>2. u[k - q] = s[q + (k - q)]
  BY <1>1, Zenon DEF IsBack
<1> QED
  BY <1>1, <1>2, Zenon

LEMMA Beyond ==
    ASSUME NEW g \in Nat, NEW l \in Nat, g <= l, NEW n \in Nat, n = l - g
    PROVE  \A k \in 1..n : g + k \in 1..l /\ g + k > g
OBVIOUS

(* What strtod takes for a number. *)
IsNumber(t, radix) ==
    \E i \in 0..Len(t) :
        /\ ToSet(SubSeq(t, 1, i)) \subseteq 0..9
        /\ \/ i = Len(t)
           \/ /\ IsPrefix(radix, SubSeq(t, i + 1, Len(t)))
              /\ ToSet(SubSeq(t, i + Len(radix) + 1, Len(t))) \subseteq 0..9
              /\ Len(t) > Len(radix)

LEMMA StrtodIs ==
    ASSUME NEW string, NEW radix
    PROVE  Strtod(string, radix) = Max({n \in 0..Len(string) : IsNumber(SubSeq(string, 1, n), radix)})
BY Zenon DEF Strtod, IsNumber

LEMMA AllDigits ==
    ASSUME NEW s \in Seq(Nat), NEW l \in Nat, l = Len(s)
    PROVE  ToSet(s) \subseteq 0..9 <=> \A k \in 1..l : s[k] \in 0..9
<1>1. DOMAIN s = 1..l
  BY LenProperties
<1> QED
  BY <1>1 DEF ToSet

(* Digits up to i, and nothing, or the radix and digits, behind them.      *)
Begins(s, radix, l, j, i) ==
    /\ \A k \in 1..l : k <= i => s[k] \in 0..9
    /\ \/ i = l
       \/ /\ i + j <= l /\ s[i + 1] = radix[1]
          /\ \A k \in 1..l : k > i + j => s[k] \in 0..9

LEMMA NumberThen ==
    ASSUME NEW s \in Seq(Nat), NEW radix \in Seq(Nat), NEW l \in Nat, l = Len(s),
           NEW j \in Nat \ {0}, j = Len(radix), IsNumber(s, radix)
    PROVE  \E i \in 0..l : Begins(s, radix, l, j, i)
<1>1. PICK i \in 0..l : /\ ToSet(SubSeq(s, 1, i)) \subseteq 0..9
                        /\ \/ i = l
                           \/ /\ IsPrefix(radix, SubSeq(s, i + 1, l))
                              /\ ToSet(SubSeq(s, i + j + 1, l)) \subseteq 0..9
                              /\ l > j
  BY Zenon DEF IsNumber
<1>0. i \in Nat /\ i <= l
  OBVIOUS
<1>2. \A k \in 1..i : s[k] \in 0..9
  <2>1. PICK u : u = SubSeq(s, 1, i)
    OBVIOUS
  <2>2. u \in Seq(Nat) /\ Len(u) = i /\ \A k \in 1..i : u[k] = s[k]
    <3>1. IsFront(s, i, u)
      BY <1>0, <2>1, FrontPart, Zenon
    <3> QED
      BY <3>1, Zenon DEF IsFront
  <2>3. ToSet(u) \subseteq 0..9
    BY <1>1, <2>1, Zenon
  <2>4. \A k \in 1..i : u[k] \in 0..9
    BY <1>0, <2>2, <2>3, AllDigits
  <2> QED
    BY <2>2, <2>4, Zenon
<1>3. \A k \in 1..l : k <= i => s[k] \in 0..9
  BY <1>2
<1>4. CASE i = l
  BY <1>3, <1>4 DEF Begins
<1>5. CASE i # l
  <2>0. PICK z \in Nat : z = l - i /\ z >= 1
    <3>1. l - i \in Nat /\ l - i >= 1
      BY <1>0, <1>5
    <3> QED
      BY <3>1, Zenon
  <2>1. PICK u : u = SubSeq(s, i + 1, l)
    OBVIOUS
  <2>2. u \in Seq(Nat) /\ Len(u) = z /\ \A k \in 1..z : u[k] = s[i + k]
    <3>1. IsBack(s, i, z, u)
      BY <1>0, <2>0, <2>1, BackPart, Zenon
    <3> QED
      BY <3>1, Zenon DEF IsBack
  <2>3. IsPrefix(radix, u)
    BY <1>1, <1>5, <2>1, Zenon
  <2>4. j <= z /\ SubSeq(radix, 1, j) = SubSeq(u, 1, j)
    <3>1. Len(radix) <= Len(u) /\ SubSeq(radix, 1, Len(radix)) = SubSeq(u, 1, Len(radix))
      BY <2>3, Zenon DEF IsPrefix
    <3> QED
      BY <2>2, <3>1, Zenon
  <2>5. radix[1] = s[i + 1]
    <3>0. 1 \in 1..j /\ 1 \in 1..z
      BY <2>0
    <3>1. PICK v : v = SubSeq(radix, 1, j)
      OBVIOUS
    <3>2. v[1] = radix[1]
      <4>1. j \in Nat /\ j <= j
        OBVIOUS
      <4>2. IsFront(radix, j, v)
        BY <3>1, <4>1, FrontPart, Zenon
      <4>3. \A k \in 1..j : v[k] = radix[k]
        BY <4>2, Zenon DEF IsFront
      <4> QED
        BY <3>0, <4>3
    <3>3. v = SubSeq(u, 1, j)
      BY <2>4, <3>1, Zenon
    <3>4. \A k \in 1..j : v[k] = u[k]
      <4>1. j \in Nat /\ z \in Nat /\ u \in Seq(Nat) /\ z = Len(u) /\ j <= z
        BY <2>2, <2>4
      <4>2. IsFront(u, j, v)
        BY <3>3, <4>1, FrontPart, Zenon
      <4> QED
        BY <4>2, Zenon DEF IsFront
    <3>5. v[1] = u[1]
      BY <3>0, <3>4
    <3>6. u[1] = s[i + 1]
      BY <2>2, <3>0
    <3> QED
      BY <3>2, <3>5, <3>6, Zenon
  <2>6. PICK g \in Nat : g = i + j /\ g <= l
    <3>1. i + j \in Nat /\ i + j <= l
      BY <1>0, <2>0, <2>4
    <3> QED
      BY <3>1, Zenon
  <2>7. \A k \in 1..l : k > i + j => s[k] \in 0..9
    <3>1. PICK v : v = SubSeq(s, g + 1, l)
      OBVIOUS
    <3>2. PICK n \in Nat : n = l - g
      <4>1. l - g \in Nat
        BY <2>6
      <4> QED
        BY <4>1, Zenon
    <3>3. /\ v \in Seq(Nat) /\ Len(v) = n
          /\ \A k \in 1..l : k > g => s[k] = v[k - g] /\ k - g \in 1..n
      <4>1. IsBack(s, g, n, v)
        BY <2>6, <3>1, <3>2, BackPart, Zenon
      <4>2. g <= l
        BY <2>6
      <4>3. IsBehind(s, l, g, n, v)
        BY <3>2, <4>1, <4>2, Behind, Zenon
      <4> QED
        BY <4>1, <4>3, Zenon DEF IsBack, IsBehind
    <3>4. ToSet(v) \subseteq 0..9
      BY <1>1, <1>5, <2>6, <3>1, Zenon
    <3>5. \A k \in 1..n : v[k] \in 0..9
      BY <3>3, <3>4, AllDigits
    <3>6. \A k \in 1..l : k > g => s[k] \in 0..9
      BY <3>3, <3>5, Zenon
    <3> QED
      BY <2>6, <3>6, Zenon
  <2>8. i + j <= l
    BY <2>6
  <2> QED
    BY <1>1, <1>3, <2>5, <2>7, <2>8 DEF Begins
<1> QED
  BY <1>4, <1>5

LEMMA NumberIf ==
    ASSUME NEW s \in Seq(Nat), NEW radix \in Seq(Nat), NEW l \in Nat, l = Len(s),
           NEW j \in Nat \ {0}, j = Len(radix), NEW i \in Nat, i <= l,
           \A k \in 1..l : k <= i => s[k] \in 0..9,
           i = l \/ (/\ i + j <= l /\ l > j
                     /\ \A k \in 1..j : s[i + k] = radix[k]
                     /\ \A k \in 1..l : k > i + j => s[k] \in 0..9)
    PROVE  IsNumber(s, radix)
<1>1. ToSet(SubSeq(s, 1, i)) \subseteq 0..9
  <2>1. PICK u : u = SubSeq(s, 1, i)
    OBVIOUS
  <2>2. u \in Seq(Nat) /\ Len(u) = i /\ \A k \in 1..i : u[k] = s[k]
    <3>1. IsFront(s, i, u)
      BY <2>1, FrontPart, Zenon
    <3> QED
      BY <3>1, Zenon DEF IsFront
  <2>3. \A k \in 1..i : k \in 1..l /\ k <= i
    OBVIOUS
  <2>4. \A k \in 1..i : u[k] \in 0..9
    BY <2>2, <2>3, Zenon
  <2>5. ToSet(u) \subseteq 0..9
    BY <2>2, <2>4, AllDigits
  <2> QED
    BY <2>1, <2>5, Zenon
<1>2. i \in 0..Len(s)
  OBVIOUS
<1>3. CASE i = l
  BY <1>1, <1>2, <1>3, Zenon DEF IsNumber
<1>4. CASE i # l
  <2>0. /\ i + j <= l /\ l > j
        /\ \A k \in 1..j : s[i + k] = radix[k]
        /\ \A k \in 1..l : k > i + j => s[k] \in 0..9
    BY <1>4
  <2>1. PICK z \in Nat : z = l - i /\ j <= z
    <3>1. l - i \in Nat /\ j <= l - i
      BY <2>0
    <3> QED
      BY <3>1, Zenon
  <2>2. PICK u : u = SubSeq(s, i + 1, l)
    OBVIOUS
  <2>3. u \in Seq(Nat) /\ Len(u) = z /\ \A k \in 1..z : u[k] = s[i + k]
    <3>1. IsBack(s, i, z, u)
      BY <2>1, <2>2, BackPart, Zenon
    <3> QED
      BY <3>1, Zenon DEF IsBack
  <2>4. SubSeq(radix, 1, j) = SubSeq(u, 1, j)
    <3>1. PICK v : v = SubSeq(radix, 1, j)
      OBVIOUS
    <3>2. PICK w : w = SubSeq(u, 1, j)
      OBVIOUS
    <3>3. v \in Seq(Nat) /\ Len(v) = j /\ \A k \in 1..j : v[k] = radix[k]
      <4>1. j \in Nat /\ j <= j
        OBVIOUS
      <4>2. IsFront(radix, j, v)
        BY <3>1, <4>1, FrontPart, Zenon
      <4> QED
        BY <4>2, Zenon DEF IsFront
    <3>4. w \in Seq(Nat) /\ Len(w) = j /\ \A k \in 1..j : w[k] = u[k]
      <4>1. j \in Nat /\ z \in Nat /\ u \in Seq(Nat) /\ z = Len(u) /\ j <= z
        BY <2>1, <2>3
      <4>2. IsFront(u, j, w)
        BY <3>2, <4>1, FrontPart, Zenon
      <4> QED
        BY <4>2, Zenon DEF IsFront
    <3>5. \A k \in 1..j : k \in 1..z
      BY <2>1
    <3>6. \A k \in 1..j : v[k] = w[k]
      BY <2>0, <2>3, <3>3, <3>4, <3>5, Zenon
    <3>7. v = w
      BY <3>3, <3>4, <3>6, SeqEqual
    <3> QED
      BY <3>1, <3>2, <3>7, Zenon
  <2>5. IsPrefix(radix, SubSeq(s, i + 1, l))
    <3>1. Len(radix) <= Len(u) /\ SubSeq(radix, 1, Len(radix)) = SubSeq(u, 1, Len(radix))
      BY <2>1, <2>3, <2>4, Zenon
    <3>2. IsPrefix(radix, u)
      BY <3>1, Zenon DEF IsPrefix
    <3> QED
      BY <2>2, <3>2, Zenon
  <2>6. ToSet(SubSeq(s, i + j + 1, l)) \subseteq 0..9
    <3>0. PICK g \in Nat : g = i + j /\ g <= l
      <4>1. i + j \in Nat /\ i + j <= l
        BY <2>0
      <4> QED
        BY <4>1, Zenon
    <3>1. PICK v : v = SubSeq(s, g + 1, l)
      OBVIOUS
    <3>2. PICK n \in Nat : n = l - g
      <4>1. l - g \in Nat
        BY <3>0
      <4> QED
        BY <4>1, Zenon
    <3>3. v \in Seq(Nat) /\ Len(v) = n /\ \A k \in 1..n : v[k] = s[g + k]
      <4>1. IsBack(s, g, n, v)
        BY <3>0, <3>1, <3>2, BackPart, Zenon
      <4> QED
        BY <4>1, Zenon DEF IsBack
    <3>4. \A k \in 1..n : g + k \in 1..l /\ g + k > g
      BY <3>0, <3>2, Beyond, Zenon
    <3>5. \A k \in 1..n : v[k] \in 0..9
      BY <2>0, <3>0, <3>3, <3>4, Zenon
    <3>6. ToSet(v) \subseteq 0..9
      BY <3>3, <3>5, AllDigits
    <3> QED
      BY <3>0, <3>1, <3>6, Zenon
  <2> QED
    BY <1>1, <1>2, <2>0, <2>5, <2>6, Zenon DEF IsNumber
<1> QED
  BY <1>3, <1>4

LEMMA NumberUpTo ==
    ASSUME NEW s \in Seq(Nat), NEW radix \in Seq(Nat), NEW l \in Nat, l = Len(s),
           NEW j \in Nat \ {0}, j = Len(radix), NEW n \in Nat, n <= l,
           IsNumber(SubSeq(s, 1, n), radix)
    PROVE  \E i \in 0..n : Begins(s, radix, n, j, i)
<1>1. PICK u : u = SubSeq(s, 1, n)
  OBVIOUS
<1>2. u \in Seq(Nat) /\ n = Len(u) /\ \A k \in 1..n : u[k] = s[k]
  <2>1. IsFront(s, n, u)
    BY <1>1, FrontPart, Zenon
  <2> QED
    BY <2>1, Zenon DEF IsFront
<1>3. PICK i \in 0..n : Begins(u, radix, n, j, i)
  <2>1. IsNumber(u, radix)
    BY <1>1, Zenon
  <2> QED
    BY <1>2, <2>1, NumberThen, Zenon
<1>4. Begins(s, radix, n, j, i)
  <2>1. \A k \in 1..n : k <= i => s[k] \in 0..9
    BY <1>2, <1>3, Zenon DEF Begins
  <2>2. CASE i = n
    BY <2>1, <2>2, Zenon DEF Begins
  <2>3. CASE i # n
    <3>1. i + j <= n /\ u[i + 1] = radix[1] /\ \A k \in 1..n : k > i + j => u[k] \in 0..9
      BY <1>3, <2>3, Zenon DEF Begins
    <3>2. i + 1 \in 1..n
      BY <3>1
    <3>3. u[i + 1] = s[i + 1]
      BY <1>2, <3>2, Zenon
    <3>4. \A k \in 1..n : k > i + j => s[k] \in 0..9
      BY <1>2, <3>1, Zenon
    <3> QED
      BY <2>1, <3>1, <3>3, <3>4, Zenon DEF Begins
  <2> QED
    BY <2>2, <2>3
<1> QED
  BY <1>4, Zenon

(* A radix of the locale stands where strtod stops reading digits.         *)
LEMMA StrtodRadix ==
    ASSUME NEW t, NEW a, NEW m, NEW c, NEW r,
           NEW i \in Nat, NEW p \in Nat, NEW q \in Nat, NEW e \in Nat,
           Places(t, a, m, c, r, i, p, q, e), m[1] \notin 0..9, i < p, p < q \/ i > 0,
           q = e \/ t[q + 1] \notin 0..9
    PROVE  Strtod(t, m) = q
<1>1. /\ m \in Seq(Nat) /\ t \in Seq(Nat) /\ Len(t) = e /\ p = i + Len(m) /\ p <= q /\ q <= e
      /\ \A k \in 1..e : k > i /\ k <= p => t[k] = m[k - i]
      /\ \A k \in 1..e : (k <= i \/ (k > p /\ k <= q)) => t[k] \in 0..9
  BY Zenon DEF Places
<1>2. PICK j \in Nat \ {0} : j = Len(m) /\ p = i + j
  <2>1. Len(m) \in Nat
    BY <1>1, LenProperties
  <2>2. Len(m) \in Nat \ {0}
    BY <1>1, <2>1
  <2> QED
    BY <1>1, <2>2, Zenon
<1>3. t[i + 1] = m[1]
  <2>1. i + 1 \in 1..e /\ i + 1 > i /\ i + 1 <= p /\ (i + 1) - i = 1
    BY <1>1
  <2> QED
    BY <1>1, <2>1, Zenon
<1>4. IsNumber(SubSeq(t, 1, q), m)
  <2>1. PICK u : u = SubSeq(t, 1, q)
    OBVIOUS
  <2>2. u \in Seq(Nat) /\ q = Len(u) /\ \A k \in 1..q : u[k] = t[k]
    <3>1. IsFront(t, q, u)
      BY <1>1, <2>1, FrontPart, Zenon
    <3> QED
      BY <3>1, Zenon DEF IsFront
  <2>0. p = i + j /\ p <= q /\ q <= e
    BY <1>1, <1>2, Zenon
  <2>3. i <= q /\ i + j <= q /\ q > j
    BY <2>0
  <2>4. \A k \in 1..q : k \in 1..e
    BY <1>1
  <2>5. \A k \in 1..q : k <= i => u[k] \in 0..9
    BY <1>1, <2>2, <2>4, Zenon
  <2>6. \A k \in 1..q : k > i + j => u[k] \in 0..9
    <3> SUFFICES ASSUME NEW k \in 1..q, k > i + j PROVE u[k] \in 0..9
      OBVIOUS
    <3>1. k > p /\ k <= q
      BY <1>2
    <3> QED
      BY <1>1, <2>2, <2>4, <3>1, Zenon
  <2>7. \A k \in 1..j : u[i + k] = m[k]
    <3> SUFFICES ASSUME NEW k \in 1..j PROVE u[i + k] = m[k]
      OBVIOUS
    <3>1. i + k \in 1..q /\ i + k \in 1..e /\ i + k > i /\ i + k <= p /\ (i + k) - i = k
      BY <2>0
    <3> QED
      BY <1>1, <2>2, <3>1, Zenon
  <2>8. IsNumber(u, m)
    BY <1>1, <1>2, <2>2, <2>3, <2>5, <2>6, <2>7, NumberIf, Zenon
  <2> QED
    BY <2>1, <2>8, Zenon
<1>5. ASSUME NEW n \in 0..e, IsNumber(SubSeq(t, 1, n), m) PROVE q >= n
  <2>0. n \in Nat /\ n <= e
    BY <1>1
  <2> SUFFICES ASSUME n > q PROVE FALSE
    BY <2>0
  <2>1. PICK g \in 0..n : Begins(t, m, n, j, g)
    BY <1>1, <1>2, <1>5, <2>0, NumberUpTo, Zenon
  <2>2. /\ \A k \in 1..n : k <= g => t[k] \in 0..9
        /\ \/ g = n
           \/ g + j <= n /\ t[g + 1] = m[1] /\ \A k \in 1..n : k > g + j => t[k] \in 0..9
    BY <2>1, Zenon DEF Begins
  <2>3. i + 1 \in 1..n /\ q + 1 \in 1..n
    BY <1>1, <2>0
  <2>4. g <= i
    <3>1. ~(i + 1 <= g)
      BY <1>3, <2>2, <2>3, Zenon
    <3> QED
      BY <3>1
  <2>5. g + j <= n /\ t[g + 1] = m[1] /\ \A k \in 1..n : k > g + j => t[k] \in 0..9
    <3>1. g # n
      BY <2>3, <2>4
    <3> QED
      BY <2>2, <3>1, Zenon
  <2>6. g = i
    <3>1. g + 1 \in 1..e
      BY <1>1, <2>3, <2>4
    <3>2. ~(g + 1 <= i)
      BY <1>1, <2>5, <3>1, Zenon
    <3> QED
      BY <2>4, <3>2
  <2>7. t[q + 1] \in 0..9
    <3>1. q + 1 > g + j
      BY <1>1, <1>2, <2>6
    <3> QED
      BY <2>3, <2>5, <3>1, Zenon
  <2>8. q # e
    BY <2>0
  <2> QED
    BY <2>7, <2>8, Zenon
<1>6. PICK S : S = {n \in 0..e : IsNumber(SubSeq(t, 1, n), m)}
  OBVIOUS
<1>7. Strtod(t, m) = Max(S)
  BY <1>1, <1>6, StrtodIs, Zenon
<1>8. S \subseteq Int /\ q \in S /\ \A y \in S : q >= y
  BY <1>1, <1>4, <1>5, <1>6
<1>9. Max(S) = q
  BY <1>8, MaxIs
<1> QED
  BY <1>7, <1>9

(* Where the mark is not the locale's radix, strtod stops before it.       *)
IsOther(radix, m) ==
    radix \in Seq(Nat) /\ Len(radix) > 0 /\ radix[1] \notin 0..9 /\ radix[1] # m[1]

LEMMA StrtodOther ==
    ASSUME NEW t, NEW a, NEW m, NEW c, NEW r,
           NEW i \in Nat, NEW p \in Nat, NEW q \in Nat, NEW e \in Nat,
           Places(t, a, m, c, r, i, p, q, e), i < p, m[1] \notin 0..9,
           NEW radix, IsOther(radix, m)
    PROVE  Strtod(t, radix) = i
<1>0. radix \in Seq(Nat) /\ Len(radix) > 0 /\ radix[1] \notin 0..9 /\ radix[1] # m[1]
  BY Zenon DEF IsOther
<1>1. /\ m \in Seq(Nat) /\ t \in Seq(Nat) /\ Len(t) = e /\ p <= q /\ q <= e
      /\ \A k \in 1..e : k > i /\ k <= p => t[k] = m[k - i]
      /\ \A k \in 1..e : (k <= i \/ (k > p /\ k <= q)) => t[k] \in 0..9
  BY Zenon DEF Places
<1>2. PICK j \in Nat \ {0} : j = Len(radix)
  <2>1. Len(radix) \in Nat
    BY <1>0, LenProperties
  <2>2. Len(radix) \in Nat \ {0}
    BY <1>0, <2>1
  <2> QED
    BY <2>2, Zenon
<1>3. t[i + 1] = m[1]
  <2>1. i + 1 \in 1..e /\ i + 1 > i /\ i + 1 <= p /\ (i + 1) - i = 1
    BY <1>1
  <2> QED
    BY <1>1, <2>1, Zenon
<1>4. IsNumber(SubSeq(t, 1, i), radix)
  <2>0. i <= e /\ i <= i
    BY <1>1
  <2>1. PICK u : u = SubSeq(t, 1, i)
    OBVIOUS
  <2>2. u \in Seq(Nat) /\ i = Len(u) /\ \A k \in 1..i : u[k] = t[k]
    <3>1. IsFront(t, i, u)
      BY <1>1, <2>0, <2>1, FrontPart, Zenon
    <3> QED
      BY <3>1, Zenon DEF IsFront
  <2>4. \A k \in 1..i : k \in 1..e
    BY <1>1
  <2>5. \A k \in 1..i : k <= i => u[k] \in 0..9
    BY <1>1, <2>2, <2>4, Zenon
  <2>8. IsNumber(u, radix)
    BY <1>1, <1>2, <1>0, <2>0, <2>2, <2>5, NumberIf, Zenon
  <2> QED
    BY <2>1, <2>8, Zenon
<1>5. ASSUME NEW n \in 0..e, IsNumber(SubSeq(t, 1, n), radix) PROVE i >= n
  <2>0. n \in Nat /\ n <= e
    BY <1>1
  <2> SUFFICES ASSUME n > i PROVE FALSE
    BY <2>0
  <2>1. PICK g \in 0..n : Begins(t, radix, n, j, g)
    BY <1>1, <1>0, <1>2, <1>5, <2>0, NumberUpTo, Zenon
  <2>2. /\ \A k \in 1..n : k <= g => t[k] \in 0..9
        /\ \/ g = n
           \/ g + j <= n /\ t[g + 1] = radix[1] /\ \A k \in 1..n : k > g + j => t[k] \in 0..9
    BY <2>1, Zenon DEF Begins
  <2>3. i + 1 \in 1..n
    BY <1>1, <2>0
  <2>4. g <= i
    <3>1. ~(i + 1 <= g)
      BY <1>3, <2>2, <2>3, Zenon
    <3> QED
      BY <3>1
  <2>5. t[g + 1] = radix[1]
    <3>1. g # n
      BY <2>3, <2>4
    <3> QED
      BY <2>2, <3>1, Zenon
  <2>6. g = i
    <3>1. g + 1 \in 1..e
      BY <1>1, <2>0, <2>3, <2>4
    <3>2. ~(g + 1 <= i)
      BY <1>0, <1>1, <2>5, <3>1, Zenon
    <3> QED
      BY <2>4, <3>2
  <2> QED
    BY <1>0, <1>3, <2>5, <2>6, Zenon
<1>6. PICK S : S = {n \in 0..e : IsNumber(SubSeq(t, 1, n), radix)}
  OBVIOUS
<1>7. Strtod(t, radix) = Max(S)
  BY <1>1, <1>6, StrtodIs, Zenon
<1>8. S \subseteq Int /\ i \in S /\ \A y \in S : i >= y
  BY <1>1, <1>4, <1>5, <1>6
<1>9. Max(S) = i
  BY <1>8, MaxIs
<1> QED
  BY <1>7, <1>9

LEMMA FirstPart ==
    ASSUME NEW t, NEW a, NEW m, NEW c, NEW r,
           NEW i \in Nat, NEW p \in Nat, NEW q \in Nat, NEW e \in Nat,
           Places(t, a, m, c, r, i, p, q, e)
    PROVE  SubSeq(t, 1, i) = a
<1>1. /\ a \in Seq(0..9) /\ i = Len(a) /\ t \in Seq(Nat) /\ e = Len(t)
      /\ i <= p /\ p <= q /\ q <= e /\ \A k \in 1..e : k <= i => t[k] = a[k]
  BY Zenon DEF Places
<1>2. i <= e
  BY <1>1
<1>3. PICK u : u = SubSeq(t, 1, i)
  OBVIOUS
<1>4. u \in Seq(Nat) /\ Len(u) = i /\ \A k \in 1..i : u[k] = t[k]
  <2>1. IsFront(t, i, u)
    BY <1>1, <1>2, <1>3, FrontPart, Zenon
  <2> QED
    BY <2>1, Zenon DEF IsFront
<1>5. a \in Seq(Nat)
  BY <1>1, DigitsFit
<1>6. \A k \in 1..i : k \in 1..e /\ k <= i
  BY <1>2
<1>7. \A k \in 1..i : u[k] = a[k]
  BY <1>1, <1>4, <1>6, Zenon
<1>8. u = a
  BY <1>1, <1>4, <1>5, <1>7, SeqEqual
<1> QED
  BY <1>3, <1>8

EndsWith(t, p, e, c, r) == SubSeq(t, p + 1, e) = c \o r

LEMMA LastPart ==
    ASSUME NEW t, NEW a, NEW m, NEW c, NEW r,
           NEW i \in Nat, NEW p \in Nat, NEW q \in Nat, NEW e \in Nat,
           Places(t, a, m, c, r, i, p, q, e)
    PROVE  EndsWith(t, p, e, c, r)
<1>1. /\ c \in Seq(0..9) /\ r \in Seq(Nat) /\ t \in Seq(Nat) /\ e = Len(t)
      /\ q = p + Len(c) /\ e = q + Len(r) /\ p <= q /\ q <= e
      /\ \A k \in 1..e : k > p /\ k <= q => t[k] = c[k - p]
      /\ \A k \in 1..e : k > q => t[k] = r[k - q]
  BY Zenon DEF Places
<1>0. p <= q /\ q <= e
  BY <1>1
<1>2. PICK n \in Nat : n = e - p
  <2>1. e - p \in Nat
    BY <1>0
  <2> QED
    BY <2>1, Zenon
<1>3. PICK l \in Nat : l = q - p
  <2>1. q - p \in Nat
    BY <1>0
  <2> QED
    BY <2>1, Zenon
<1>4. PICK x \in Seq(Nat) : x = c /\ l = Len(x)
  <2>1. c \in Seq(Nat) /\ Len(c) \in Nat
    BY <1>1, DigitsFit
  <2>2. Len(c) = q - p
    BY <1>1, <2>1
  <2> QED
    BY <1>3, <2>1, <2>2, Zenon
<1>5. n = l + Len(r)
  <2>1. Len(r) \in Nat
    BY <1>1, LenProperties
  <2>2. e = q + Len(r)
    BY <1>1, Zenon
  <2> QED
    BY <1>2, <1>3, <2>1, <2>2
<1>6. PICK y : y = x \o r
  OBVIOUS
<1>7. /\ y \in Seq(Nat) /\ Len(y) = n
      /\ \A k \in 1..n : k <= l => y[k] = x[k]
      /\ \A k \in 1..n : k > l => y[k] = r[k - l]
  BY <1>1, <1>4, <1>5, <1>6, JoinedTwo
<1>8. PICK u : u = SubSeq(t, p + 1, e)
  OBVIOUS
<1>9. u \in Seq(Nat) /\ Len(u) = n /\ \A k \in 1..n : u[k] = t[p + k]
  <2>1. p <= e
    BY <1>0
  <2>2. IsBack(t, p, n, u)
    BY <1>1, <1>2, <1>8, <2>1, BackPart, Zenon
  <2> QED
    BY <2>2, Zenon DEF IsBack
<1>10. ASSUME NEW k \in 1..n PROVE u[k] = y[k]
  <2>1. p + k \in 1..e /\ p + k > p /\ (p + k) - p = k /\ (p + k) - q = k - l
    BY <1>0, <1>2, <1>3
  <2>2. CASE k <= l
    <3>1. p + k <= q
      BY <1>3, <2>2
    <3>2. t[p + k] = c[k]
      BY <1>1, <2>1, <3>1, Zenon
    <3> QED
      BY <1>4, <1>7, <1>9, <2>2, <3>2, Zenon
  <2>3. CASE k > l
    <3>1. p + k > q
      BY <1>3, <2>3
    <3>2. t[p + k] = r[k - l]
      BY <1>1, <2>1, <3>1, Zenon
    <3> QED
      BY <1>7, <1>9, <2>3, <3>2, Zenon
  <2> QED
    BY <1>3, <2>2, <2>3
<1>11. u = y
  BY <1>7, <1>9, <1>10, SeqEqual
<1> QED
  BY <1>4, <1>6, <1>8, <1>11, Zenon DEF EndsWith

LEMMA NumberPart ==
    ASSUME NEW t, NEW a, NEW m, NEW c, NEW r,
           NEW i \in Nat, NEW p \in Nat, NEW q \in Nat, NEW e \in Nat,
           Places(t, a, m, c, r, i, p, q, e)
    PROVE  Places(SubSeq(t, 1, q), a, m, c, << >>, i, p, q, q)
<1>1. /\ a \in Seq(0..9) /\ m \in Seq(Nat) /\ c \in Seq(0..9)
      /\ i = Len(a) /\ p = i + Len(m) /\ q = p + Len(c)
      /\ i <= p /\ p <= q /\ q <= e /\ t \in Seq(Nat) /\ e = Len(t)
      /\ \A k \in 1..e : k <= i => t[k] = a[k]
      /\ \A k \in 1..e : k > i /\ k <= p => t[k] = m[k - i]
      /\ \A k \in 1..e : k > p /\ k <= q => t[k] = c[k - p]
      /\ \A k \in 1..e : (k <= i \/ (k > p /\ k <= q)) => t[k] \in 0..9
  BY Zenon DEF Places
<1>2. PICK u : u = SubSeq(t, 1, q)
  OBVIOUS
<1>3. u \in Seq(Nat) /\ Len(u) = q /\ \A k \in 1..q : u[k] = t[k]
  <2>1. IsFront(t, q, u)
    BY <1>1, <1>2, FrontPart, Zenon
  <2> QED
    BY <2>1, Zenon DEF IsFront
<1>4. \A k \in 1..q : k \in 1..e
  BY <1>1
<1>5. << >> \in Seq(Nat) /\ q = q + Len(<< >>) /\ q <= q
  OBVIOUS
<1>6. \A k \in 1..q : ~(k > q)
  OBVIOUS
<1>7. /\ \A k \in 1..q : k <= i => u[k] = a[k]
      /\ \A k \in 1..q : k > i /\ k <= p => u[k] = m[k - i]
      /\ \A k \in 1..q : k > p /\ k <= q => u[k] = c[k - p]
      /\ \A k \in 1..q : (k <= i \/ (k > p /\ k <= q)) => u[k] \in 0..9
  BY <1>1, <1>3, <1>4, Zenon
<1>8. \A k \in 1..q : k > q => u[k] = << >>[k - q]
  BY <1>6, Zenon
<1>9. Places(u, a, m, c, << >>, i, p, q, q)
  BY <1>1, <1>3, <1>5, <1>7, <1>8, Zenon DEF Places
<1> QED
  BY <1>2, <1>9, Zenon

LEMMA DelocalizeIs ==
    ASSUME NEW b, NEW l, l = Len(b), NEW S, S = {k \in 1..l : ~IsValidFloatChar(b[k])},
           NEW f, f = Min(S), S # {}, Point \notin ToSet(b),
           NEW A, A = {k \in (f + 1)..l : IsValidFloatChar(b[k])},
           NEW g, g = Min(A \cup {l + 1})
    PROVE  DelocalizeRadix(b) = (SubSeq(b, 1, f - 1) \o << Point >>) \o SubSeq(b, g, l)
BY Zenon DEF DelocalizeRadix

LEMMA Delocalized ==
    ASSUME NEW b,
           Point \in ToSet(b) \/ \A k \in 1..Len(b) : IsValidFloatChar(b[k])
    PROVE  DelocalizeRadix(b) = b
<1>1. CASE Point \in ToSet(b)
  BY <1>1, Zenon DEF DelocalizeRadix
<1>2. CASE \A k \in 1..Len(b) : IsValidFloatChar(b[k])
  <2>1. {k \in 1..Len(b) : ~IsValidFloatChar(b[k])} = {}
    BY <1>2, Zenon
  <2> QED
    BY <2>1, Zenon DEF DelocalizeRadix
<1> QED
  BY <1>1, <1>2

(* The bytes of the mark become one point, and nothing else is lost.       *)
Pointed(b, a, c, r) == DelocalizeRadix(b) = (a \o << Point >>) \o (c \o r)

LEMMA MarkReplaced ==
    ASSUME NEW b, NEW a, NEW m, NEW c, NEW r,
           NEW i \in Nat, NEW p \in Nat, NEW q \in Nat, NEW e \in Nat,
           Places(b, a, m, c, r, i, p, q, e), i < p,
           \A k \in 1..e : k > i /\ k <= p => ~IsValidFloatChar(b[k]) /\ b[k] # Point,
           \A k \in 1..e : k > q => IsValidFloatChar(b[k])
    PROVE  Pointed(b, a, c, r)
<1>1. /\ b \in Seq(Nat) /\ Len(b) = e /\ i <= p /\ p <= q /\ q <= e
      /\ \A k \in 1..e : (k <= i \/ (k > p /\ k <= q)) => b[k] \in 0..9
  BY Zenon DEF Places
<1>2. \A k \in 1..e : k <= i \/ k > p => IsValidFloatChar(b[k])
  <2>1. \A k \in 1..e : k <= i \/ (k > p /\ k <= q) => IsValidFloatChar(b[k])
    BY <1>1, Zenon DEF IsValidFloatChar
  <2>2. \A k \in 1..e : k <= q \/ k > q
    OBVIOUS
  <2> QED
    BY <2>1, <2>2, Zenon
<1>3. Point \notin ToSet(b)
  <2>1. ~IsValidFloatChar(Point)
    BY DEF IsValidFloatChar, Point, Minus, Exponent
  <2>2. \A k \in 1..e : k <= i \/ k > p \/ (k > i /\ k <= p)
    OBVIOUS
  <2>3. \A k \in 1..e : b[k] # Point
    BY <1>2, <2>1, <2>2, Zenon
  <2>4. DOMAIN b = 1..e
    BY <1>1, LenProperties
  <2> QED
    BY <2>3, <2>4, Zenon DEF ToSet
<1>4. PICK S : S = {k \in 1..e : ~IsValidFloatChar(b[k])}
  OBVIOUS
<1>5. PICK f \in Nat : f = i + 1
  OBVIOUS
<1>6. Min(S) = f /\ S # {}
  <2>1. f \in 1..e /\ f > i /\ f <= p
    BY <1>1, <1>5
  <2>2. f \in S
    BY <1>4, <2>1, Zenon
  <2>3. ASSUME NEW y \in S PROVE f <= y
    <3>1. y \in 1..e /\ ~IsValidFloatChar(b[y])
      BY <1>4, Zenon
    <3>2. ~(y <= i)
      BY <1>2, <3>1, Zenon
    <3> QED
      BY <1>5, <3>1, <3>2
  <2>4. S \subseteq Int
    BY <1>4
  <2>5. Min(S) = f
    BY <2>2, <2>3, <2>4, MinIs
  <2> QED
    BY <2>2, <2>5
<1>7. PICK A : A = {k \in (f + 1)..e : IsValidFloatChar(b[k])}
  OBVIOUS
<1>8. PICK g \in Nat : g = p + 1
  OBVIOUS
<1>9. Min(A \cup {e + 1}) = g
  <2>1. g \in A \cup {e + 1}
    <3>1. CASE p = e
      BY <1>8, <3>1
    <3>2. CASE p # e
      <4>1. g \in (f + 1)..e /\ g \in 1..e /\ g > p
        BY <1>1, <1>5, <1>8, <3>2
      <4>2. g \in A
        BY <1>2, <1>7, <4>1, Zenon
      <4> QED
        BY <4>2
    <3> QED
      BY <3>1, <3>2
  <2>2. ASSUME NEW y \in A \cup {e + 1} PROVE g <= y
    <3>1. CASE y \in A
      <4>1. y \in (f + 1)..e /\ IsValidFloatChar(b[y])
        BY <1>7, <3>1, Zenon
      <4>2. y \in 1..e /\ y > i
        BY <1>5, <4>1
      <4>3. ~(y <= p)
        BY <4>1, <4>2, Zenon
      <4> QED
        BY <1>8, <4>2, <4>3
    <3>2. CASE y = e + 1
      BY <1>1, <1>8, <3>2
    <3> QED
      BY <3>1, <3>2
  <2>3. A \cup {e + 1} \subseteq Int
    BY <1>7
  <2>4. PICK B : B = A \cup {e + 1}
    OBVIOUS
  <2>5. B \subseteq Int /\ g \in B /\ \A y \in B : g <= y
    BY <2>1, <2>2, <2>3, <2>4, Zenon
  <2>6. Min(B) = g
    BY <2>5, MinIs
  <2> QED
    BY <2>4, <2>6
<1>10. DelocalizeRadix(b) = (SubSeq(b, 1, f - 1) \o << Point >>) \o SubSeq(b, g, e)
  <2>1. S = {k \in 1..Len(b) : ~IsValidFloatChar(b[k])}
    BY <1>1, <1>4, Zenon
  <2> QED
    BY <1>1, <1>3, <1>6, <1>7, <1>9, <2>1, DelocalizeIs, ZenonT(20)
<1>11. f - 1 = i
  BY <1>5
<1>12. SubSeq(b, 1, i) = a
  BY FirstPart, Zenon
<1>13. SubSeq(b, g, e) = c \o r
  <2>1. EndsWith(b, p, e, c, r)
    BY LastPart, Zenon
  <2> QED
    BY <1>8, <2>1, Zenon DEF EndsWith
<1> QED
  BY <1>10, <1>11, <1>12, <1>13, Zenon DEF Pointed

LEMMA JoinedThree ==
    ASSUME NEW x \in Seq(Nat), NEW y \in Seq(Nat), NEW z \in Seq(Nat)
    PROVE  (x \o y) \o z = x \o (y \o z)
BY ConcatAssociative, SMTT(60)

LEMMA JoinedEither ==
    ASSUME NEW a \in Seq(0..9), NEW m \in Seq(Nat), NEW c \in Seq(0..9), NEW r \in Seq(Nat)
    PROVE  /\ Spelled((a \o m) \o (c \o r), a, m, c, r)
           /\ ((a \o m) \o c) \o r = (a \o m) \o (c \o r)
<1>1. a \in Seq(Nat) /\ c \in Seq(Nat)
  BY DigitsFit
<1>2. PICK x \in Seq(Nat) : x = a \o m
  BY <1>1, ConcatProperties
<1>3. (x \o c) \o r = x \o (c \o r)
  <2>1. PICK y \in Seq(Nat) : y = c
    BY <1>1
  <2>2. (x \o y) \o r = x \o (y \o r)
    BY JoinedThree
  <2> QED
    BY <2>1, <2>2, Zenon
<1>4. Spelled(((a \o m) \o c) \o r, a, m, c, r)
  BY Joined
<1> QED
  BY <1>2, <1>3, <1>4, Zenon

IsText(t, a, m, c, r) == t = (a \o m) \o (c \o r)

LEMMA SpelledIs ==
    ASSUME NEW t, NEW a, NEW m, NEW c, NEW r, Spelled(t, a, m, c, r)
    PROVE  IsText(t, a, m, c, r)
<1>1. a \in Seq(0..9) /\ m \in Seq(Nat) /\ c \in Seq(0..9) /\ r \in Seq(Nat)
  <2>1. PICK i, p, q, e \in Nat : Places(t, a, m, c, r, i, p, q, e)
    BY DEF Spelled
  <2> QED
    BY <2>1, Zenon DEF Places
<1>2. Spelled((a \o m) \o (c \o r), a, m, c, r)
  BY <1>1, JoinedEither, Zenon
<1>3. t = (a \o m) \o (c \o r)
  BY <1>2, SpelledOnce, Zenon
<1> QED
  BY <1>3, Zenon DEF IsText

(* Bytes that are of no number and that stand for the point.               *)
IsMark(m) ==
    /\ m \in Seq(Nat) /\ Len(m) > 0
    /\ \A k \in 1..Len(m) : ~IsValidFloatChar(m[k]) /\ m[k] # Point

LEMMA MarkFirst ==
    ASSUME NEW m, IsMark(m)
    PROVE  m \in Seq(Nat) /\ Len(m) > 0 /\ m[1] \notin 0..9 /\ m[1] # Point
<1>1. PICK l \in Nat : l = Len(m) /\ m \in Seq(Nat) /\ l > 0
  <2>1. m \in Seq(Nat) /\ Len(m) > 0
    BY Zenon DEF IsMark
  <2>2. Len(m) \in Nat
    BY <2>1, LenProperties
  <2> QED
    BY <2>1, <2>2, Zenon
<1>2. 1 \in 1..l
  BY <1>1
<1>3. ~IsValidFloatChar(m[1]) /\ m[1] # Point
  BY <1>1, <1>2, Zenon DEF IsMark
<1>4. m[1] \notin 0..9
  BY <1>3, Zenon DEF IsValidFloatChar
<1> QED
  BY <1>1, <1>3, <1>4, Zenon

LEMMA MarkGone ==
    ASSUME NEW b, NEW a, NEW m, NEW c, NEW r,
           NEW i \in Nat, NEW p \in Nat, NEW q \in Nat, NEW e \in Nat,
           Places(b, a, m, c, r, i, p, q, e), IsMark(m),
           \A k \in 1..Len(r) : IsValidFloatChar(r[k])
    PROVE  Pointed(b, a, c, r)
<1>1. /\ m \in Seq(Nat) /\ r \in Seq(Nat) /\ p = i + Len(m) /\ e = q + Len(r) /\ p <= q /\ q <= e
      /\ \A k \in 1..e : k > i /\ k <= p => b[k] = m[k - i]
      /\ \A k \in 1..e : k > q => b[k] = r[k - q]
  BY Zenon DEF Places
<1>2. PICK l \in Nat : l = Len(m) /\ l > 0 /\ p = i + l
  <2>1. Len(m) \in Nat
    BY <1>1, LenProperties
  <2> QED
    BY <1>1, <2>1, Zenon DEF IsMark
<1>3. PICK n \in Nat : n = Len(r) /\ e = q + n
  <2>1. Len(r) \in Nat
    BY <1>1, LenProperties
  <2> QED
    BY <1>1, <2>1, Zenon
<1>4. ASSUME NEW k \in 1..e, k > i, k <= p PROVE ~IsValidFloatChar(b[k]) /\ b[k] # Point
  <2>1. k - i \in 1..l
    BY <1>2, <1>4
  <2>2. ~IsValidFloatChar(m[k - i]) /\ m[k - i] # Point
    BY <1>2, <2>1, Zenon DEF IsMark
  <2> QED
    BY <1>1, <1>4, <2>2, Zenon
<1>5. ASSUME NEW k \in 1..e, k > q PROVE IsValidFloatChar(b[k])
  <2>1. k - q \in 1..n
    BY <1>3, <1>5
  <2>2. IsValidFloatChar(r[k - q])
    BY <1>3, <2>1, Zenon
  <2> QED
    BY <1>1, <1>5, <2>2, Zenon
<1>6. i < p
  BY <1>2
<1>7. \A k \in 1..e : k > i /\ k <= p => ~IsValidFloatChar(b[k]) /\ b[k] # Point
  BY <1>4, Zenon
<1>8. \A k \in 1..e : k > q => IsValidFloatChar(b[k])
  BY <1>5, Zenon
<1> QED
  BY <1>6, <1>7, <1>8, MarkReplaced, Zenon

(* A number ends where its text does, or before what is no digit.          *)
NoDigitAhead(r) == r = << >> \/ r[1] \notin 0..9

LEMMA EndsThere ==
    ASSUME NEW t, NEW a, NEW m, NEW c, NEW r,
           NEW i \in Nat, NEW p \in Nat, NEW q \in Nat, NEW e \in Nat,
           Places(t, a, m, c, r, i, p, q, e), NoDigitAhead(r)
    PROVE  q = e \/ t[q + 1] \notin 0..9
<1>1. /\ r \in Seq(Nat) /\ e = q + Len(r) /\ q <= e
      /\ \A k \in 1..e : k > q => t[k] = r[k - q]
  BY Zenon DEF Places
<1>2. CASE r = << >>
  BY <1>1, <1>2
<1>3. CASE r[1] \notin 0..9 /\ q # e
  <2>1. q + 1 \in 1..e /\ q + 1 > q /\ (q + 1) - q = 1
    BY <1>1, <1>3
  <2>2. t[q + 1] = r[1]
    BY <1>1, <2>1, Zenon
  <2> QED
    BY <1>3, <2>2, Zenon
<1> QED
  BY <1>2, <1>3, Zenon DEF NoDigitAhead

LEMMA NoLocaleStops ==
    ASSUME NEW t, NEW radix, NEW z, z = Strtod(t, radix), z = Len(t) \/ t[z + 1] # Point
    PROVE  NoLocaleStrtod(t, radix) = [read |-> SubSeq(t, 1, z), end |-> z]
BY Zenon DEF NoLocaleStrtod

(* What stands between two parts of a text, put between them.              *)
LEMMA PutBack ==
    ASSUME NEW t \in Seq(Nat), NEW e \in Nat, e = Len(t), NEW q \in Nat, q < e, NEW x \in Nat,
           t[q + 1] = x
    PROVE  (SubSeq(t, 1, q) \o << x >>) \o SubSeq(t, q + 2, e) = t
<1>1. PICK u : u = SubSeq(t, 1, q)
  OBVIOUS
<1>2. u \in Seq(Nat) /\ Len(u) = q /\ \A k \in 1..q : u[k] = t[k]
  <2>1. q <= e
    OBVIOUS
  <2>2. IsFront(t, q, u)
    BY <1>1, <2>1, FrontPart, Zenon
  <2> QED
    BY <2>2, Zenon DEF IsFront
<1>3. PICK g \in Nat : g = q + 1 /\ g <= e /\ g + 1 = q + 2
  <2>1. q + 1 \in Nat /\ q + 1 <= e /\ (q + 1) + 1 = q + 2
    OBVIOUS
  <2> QED
    BY <2>1, Zenon
<1>4. PICK n \in Nat : n = e - g
  <2>1. e - g \in Nat
    BY <1>3
  <2> QED
    BY <2>1, Zenon
<1>5. PICK w : w = SubSeq(t, g + 1, e)
  OBVIOUS
<1>6. w \in Seq(Nat) /\ Len(w) = n /\ \A k \in 1..n : w[k] = t[g + k]
  <2>1. IsBack(t, g, n, w)
    BY <1>3, <1>4, <1>5, BackPart, Zenon
  <2> QED
    BY <2>1, Zenon DEF IsBack
<1>7. PICK one \in Seq(Nat) : one = << x >> /\ Len(one) = 1 /\ one[1] = x
  <2>1. << x >> \in Seq(Nat) /\ Len(<< x >>) = 1 /\ << x >>[1] = x
    OBVIOUS
  <2> QED
    BY <2>1, Zenon
<1>8. PICK y : y = u \o one
  OBVIOUS
<1>9. /\ y \in Seq(Nat) /\ Len(y) = g
      /\ \A k \in 1..g : k <= q => y[k] = u[k]
      /\ \A k \in 1..g : k > q => y[k] = one[k - q]
  <2>1. g = q + Len(one)
    BY <1>3, <1>7
  <2> QED
    BY <1>2, <1>7, <1>8, <2>1, JoinedTwo
<1>10. PICK v : v = y \o w
  OBVIOUS
<1>11. /\ v \in Seq(Nat) /\ Len(v) = e
       /\ \A k \in 1..e : k <= g => v[k] = y[k]
       /\ \A k \in 1..e : k > g => v[k] = w[k - g]
  <2>1. e = g + Len(w)
    BY <1>3, <1>4, <1>6
  <2>2. w \in Seq(Nat) /\ y \in Seq(Nat) /\ g = Len(y)
    BY <1>6, <1>9
  <2> QED
    BY <1>10, <2>1, <2>2, JoinedTwo
<1>12. ASSUME NEW k \in 1..e PROVE v[k] = t[k]
  <2>1. CASE k <= q
    <3>1. k \in 1..q /\ k \in 1..g /\ k <= g
      BY <1>3, <2>1
    <3> QED
      BY <1>2, <1>9, <1>11, <2>1, <3>1, Zenon
  <2>2. CASE k = g
    <3>1. k \in 1..g /\ k <= g /\ k > q /\ k - q = 1 /\ k = q + 1
      BY <1>3, <2>2
    <3>2. v[k] = x
      BY <1>7, <1>9, <1>11, <3>1, Zenon
    <3> QED
      BY <3>1, <3>2, Zenon
  <2>3. CASE k > g
    <3>1. k - g \in 1..n /\ g + (k - g) = k
      BY <1>4, <2>3
    <3> QED
      BY <1>6, <1>11, <2>3, <3>1, Zenon
  <2> QED
    BY <1>3, <2>1, <2>2, <2>3
<1>13. v = t
  BY <1>11, <1>12, SeqEqual
<1> QED
  BY <1>1, <1>3, <1>5, <1>7, <1>8, <1>10, <1>13, Zenon

LEMMA PointFirst == << Point >> \in Seq(Nat) /\ Len(<< Point >>) = 1 /\ << Point >>[1] = Point /\ Point \notin 0..9
BY DEF Point

(* In the locale of C the number is read at once, or once more as it is.   *)
Reads(t, radix, x, z) == NoLocaleStrtod(t, radix) = [read |-> x, end |-> z]

LEMMA ReadsInC ==
    ASSUME NEW t, NEW a, NEW c, NEW r,
           NEW i \in Nat, NEW p \in Nat, NEW q \in Nat, NEW e \in Nat,
           Places(t, a, << Point >>, c, r, i, p, q, e), NoDigitAhead(r), p < q \/ i > 0
    PROVE  Reads(t, << Point >>, SubSeq(t, 1, q), q)
<1>1. PICK m : m = << Point >>
  OBVIOUS
<1>2. Places(t, a, m, c, r, i, p, q, e)
  BY <1>1, Zenon
<1>3. m[1] = Point /\ m[1] \notin 0..9 /\ i < p
  <2>1. p = i + Len(m)
    BY <1>2, Zenon DEF Places
  <2>2. Len(m) = 1 /\ m[1] = Point /\ m[1] \notin 0..9
    BY <1>1, PointFirst, Zenon
  <2>3. p = i + 1
    BY <2>1, <2>2, Zenon
  <2> QED
    BY <2>2, <2>3
<1>4. q = e \/ t[q + 1] \notin 0..9
  BY <1>2, EndsThere, Zenon
<1>5. Strtod(t, m) = q
  BY <1>2, <1>3, <1>4, StrtodRadix, Zenon
<1>6. t \in Seq(Nat) /\ e = Len(t) /\ q <= e
  BY <1>2, Zenon DEF Places
<1>7. CASE q = e \/ t[q + 1] # Point
  <2>1. q = Len(t) \/ t[q + 1] # Point
    BY <1>6, <1>7, Zenon
  <2> QED
    BY <1>1, <1>5, <2>1, NoLocaleStops, Zenon DEF Reads
<1>8. CASE ~(q = e \/ t[q + 1] # Point)
  <2>1. q < e /\ t[q + 1] = Point /\ Point \in Nat
    BY <1>6, <1>8 DEF Point
  <2>2. (SubSeq(t, 1, q) \o m) \o SubSeq(t, q + 2, e) = t
    <3>1. (SubSeq(t, 1, q) \o << Point >>) \o SubSeq(t, q + 2, e) = t
      BY <1>6, <2>1, PutBack
    <3> QED
      BY <1>1, <3>1, Zenon
  <2>3. t = (SubSeq(t, 1, q) \o m) \o SubSeq(t, q + 2, Len(t))
    BY <1>6, <2>2, Zenon
  <2>4. q = IF q > q THEN q - (Len(t) - Len(t)) ELSE q
    OBVIOUS
  <2>5. ~(q = Len(t) \/ t[q + 1] # Point)
    BY <1>6, <1>8, Zenon
  <2>6. NoLocaleStrtod(t, m) = [read |-> SubSeq(t, 1, q), end |-> q]
    BY <1>5, <2>3, <2>4, <2>5, Zenon DEF NoLocaleStrtod
  <2> QED
    BY <1>1, <2>6, Zenon DEF Reads
<1> QED
  BY <1>7, <1>8

(* A mark of one byte, and one of j in its place.                          *)
MarkOfAny(i, p, q, e, p2, q2, e2, j, lc, lr) ==
    /\ p = i + 1 /\ q = p + lc /\ e = q + lr
    /\ p2 = i + j /\ q2 = p2 + lc /\ e2 = q2 + lr
    /\ j > 0 /\ (p < q \/ i > 0)
SameEnd(i, q, e, p2, q2, e2) ==
    /\ i < p2 /\ (p2 < q2 \/ i > 0)
    /\ q = IF q2 > i THEN q2 - (e2 - e) ELSE i

LEMMA EndTold ==
    ASSUME NEW i \in Nat, NEW p \in Nat, NEW q \in Nat, NEW e \in Nat,
           NEW p2 \in Nat, NEW q2 \in Nat, NEW e2 \in Nat,
           NEW j \in Nat, NEW lc \in Nat, NEW lr \in Nat,
           MarkOfAny(i, p, q, e, p2, q2, e2, j, lc, lr)
    PROVE  SameEnd(i, q, e, p2, q2, e2)
BY DEF MarkOfAny, SameEnd

(* In another, it is read again with the radix of the locale in it.        *)
ReadsAs(t, radix, q) == \E x : Reads(t, radix, x, q) /\ DelocalizeRadix(x) = SubSeq(t, 1, q)

LEMMA ReadsElsewhere ==
    ASSUME NEW t, NEW a, NEW c, NEW r,
           NEW i \in Nat, NEW p \in Nat, NEW q \in Nat, NEW e \in Nat,
           Places(t, a, << Point >>, c, r, i, p, q, e), NoDigitAhead(r), p < q \/ i > 0,
           NEW radix, IsMark(radix)
    PROVE  ReadsAs(t, radix, q)
<1>1. PICK m : m = << Point >>
  OBVIOUS
<1>2. Places(t, a, m, c, r, i, p, q, e)
  BY <1>1, Zenon
<1>3. /\ a \in Seq(0..9) /\ m \in Seq(Nat) /\ c \in Seq(0..9) /\ r \in Seq(Nat)
      /\ i = Len(a) /\ p = i + Len(m) /\ q = p + Len(c) /\ e = q + Len(r)
      /\ i <= p /\ p <= q /\ q <= e /\ t \in Seq(Nat) /\ e = Len(t)
  BY <1>2, Zenon DEF Places
<1>4. m[1] = Point /\ m[1] \notin 0..9 /\ p = i + 1 /\ i < p
  <2>1. Len(m) = 1 /\ m[1] = Point /\ m[1] \notin 0..9
    BY <1>1, PointFirst, Zenon
  <2>2. p = i + 1
    BY <1>3, <2>1, Zenon
  <2> QED
    BY <2>1, <2>2
<1>5. radix \in Seq(Nat) /\ Len(radix) > 0 /\ radix[1] \notin 0..9 /\ radix[1] # m[1]
  <2>1. radix \in Seq(Nat) /\ Len(radix) > 0 /\ radix[1] \notin 0..9 /\ radix[1] # Point
    BY MarkFirst
  <2> QED
    BY <1>4, <2>1, Zenon
<1>6. Strtod(t, radix) = i
  <2>1. IsOther(radix, m)
    BY <1>5, Zenon DEF IsOther
  <2>2. m[1] \notin 0..9 /\ i < p
    BY <1>4, Zenon
  <2> QED
    BY <1>2, <2>1, <2>2, StrtodOther, Zenon
<1>7. ~(i = Len(t) \/ t[i + 1] # Point)
  <2>1. i + 1 \in 1..e /\ i + 1 > i /\ i + 1 <= p /\ (i + 1) - i = 1 /\ i # e
    <3>1. p <= q /\ q <= e
      BY <1>3
    <3> QED
      BY <1>4, <3>1
  <2>2. t[i + 1] = m[1]
    BY <1>2, <2>1, Zenon DEF Places
  <2> QED
    BY <1>3, <1>4, <2>1, <2>2, Zenon
<1>8. PICK u : u = (SubSeq(t, 1, i) \o radix) \o SubSeq(t, i + 2, Len(t))
  OBVIOUS
<1>9. Spelled(u, a, radix, c, r)
  <2>1. SubSeq(t, 1, i) = a
    BY <1>2, FirstPart, Zenon
  <2>2. p + 1 = i + 2
    BY <1>4
  <2>3. SubSeq(t, i + 2, Len(t)) = c \o r
    <3>1. EndsWith(t, p, e, c, r)
      BY <1>2, LastPart, Zenon
    <3> QED
      BY <1>3, <2>2, <3>1, Zenon DEF EndsWith
  <2>4. u = (a \o radix) \o (c \o r)
    BY <1>8, <2>1, <2>3, Zenon
  <2>5. Spelled((a \o radix) \o (c \o r), a, radix, c, r)
    BY <1>3, <1>5, JoinedEither, Zenon
  <2> QED
    BY <2>4, <2>5, Zenon
<1>10. PICK i2, p2, q2, e2 \in Nat : Places(u, a, radix, c, r, i2, p2, q2, e2)
  BY <1>9, Zenon DEF Spelled
<1>11. /\ i2 = Len(a) /\ p2 = i2 + Len(radix) /\ q2 = p2 + Len(c) /\ e2 = q2 + Len(r)
       /\ e2 = Len(u)
  BY <1>10, Zenon DEF Places
<1>12. PICK j \in Nat : j = Len(radix) /\ j > 0
  <2>1. Len(radix) \in Nat
    BY <1>5, LenProperties
  <2> QED
    BY <1>5, <2>1, Zenon
<1>13. PICK lc \in Nat : lc = Len(c)
  BY <1>3, LenProperties
<1>14. PICK lr \in Nat : lr = Len(r)
  BY <1>3, LenProperties
<1>15. /\ i2 = i /\ p2 = i + j /\ q2 = p2 + lc /\ e2 = q2 + lr
       /\ q = p + lc /\ e = q + lr
  BY <1>3, <1>11, <1>12, <1>13, <1>14, Zenon
<1>16. i2 < p2 /\ (p2 < q2 \/ i2 > 0) /\ q = IF q2 > i THEN q2 - (e2 - e) ELSE i
  <2>1. MarkOfAny(i, p, q, e, p2, q2, e2, j, lc, lr)
    BY <1>4, <1>12, <1>15, Zenon DEF MarkOfAny
  <2>2. SameEnd(i, q, e, p2, q2, e2)
    BY <2>1, EndTold, Zenon
  <2> QED
    BY <1>15, <2>2, Zenon DEF SameEnd
<1>17. q2 = e2 \/ u[q2 + 1] \notin 0..9
  BY <1>10, EndsThere, Zenon
<1>18. Strtod(u, radix) = q2
  BY <1>5, <1>10, <1>16, <1>17, StrtodRadix, Zenon
<1>20. q = IF q2 > i THEN q2 - (Len(u) - Len(t)) ELSE i
  BY <1>3, <1>11, <1>16, Zenon
<1>21. Reads(t, radix, SubSeq(u, 1, q2), q)
  BY <1>6, <1>7, <1>8, <1>18, <1>20, Zenon DEF NoLocaleStrtod, Reads
<1>22. DelocalizeRadix(SubSeq(u, 1, q2)) = SubSeq(t, 1, q)
  <2>1. PICK x : x = SubSeq(u, 1, q2)
    OBVIOUS
  <2>2. Places(x, a, radix, c, << >>, i2, p2, q2, q2)
    BY <1>10, <2>1, NumberPart, Zenon
  <2>3. \A k \in 1..Len(<< >>) : IsValidFloatChar(<< >>[k])
    OBVIOUS
  <2>4. PICK none : none = << >>
    OBVIOUS
  <2>5. Pointed(x, a, c, none)
    BY <2>2, <2>3, <2>4, MarkGone, Zenon
  <2>6. PICK y : y = SubSeq(t, 1, q)
    OBVIOUS
  <2>7. Places(y, a, m, c, none, i, p, q, q)
    BY <1>2, <2>4, <2>6, NumberPart, Zenon
  <2>8. Spelled(y, a, m, c, none)
    BY <2>7, Zenon DEF Spelled
  <2>9. IsText(y, a, m, c, none)
    BY <2>8, SpelledIs, Zenon
  <2> QED
    BY <1>1, <2>1, <2>5, <2>6, <2>9, Zenon DEF Pointed, IsText
<1> QED
  BY <1>21, <1>22, Zenon DEF ReadsAs

HereRead(h, y, z) == [h EXCEPT !.read = DelocalizeRadix(@)] = [read |-> y, end |-> z]

LEMMA ReadReplaced ==
    ASSUME NEW h, NEW x, NEW y, NEW z, h = [read |-> x, end |-> z], DelocalizeRadix(x) = y
    PROVE  HereRead(h, y, z)
<1>1. [h EXCEPT !.read = DelocalizeRadix(h.read)] = [read |-> DelocalizeRadix(x), end |-> z]
  OBVIOUS
<1> QED
  BY <1>1 DEF HereRead

IsRadix(m) == m = << Point >> \/ IsMark(m)

LEMMA RadixesAre == ASSUME NEW m \in Radixes PROVE IsRadix(m)
<1>1. CASE m = << 44 >>
  <2>1. m \in Seq(Nat) /\ Len(m) = 1 /\ m[1] = 44
    BY <1>1
  <2>2. ~IsValidFloatChar(44) /\ 44 # Point
    BY DEF IsValidFloatChar, Minus, Exponent, Point
  <2>3. \A k \in 1..1 : k = 1
    OBVIOUS
  <2>4. 1 > 0
    OBVIOUS
  <2>5. IsMark(m)
    BY <2>1, <2>2, <2>3, <2>4, Zenon DEF IsMark
  <2> QED
    BY <2>5, Zenon DEF IsRadix
<1>2. CASE m = << 194, 183 >>
  <2>1. m \in Seq(Nat) /\ m[1] = 194 /\ m[2] = 183
    BY <1>2
  <2>2. ~IsValidFloatChar(m[1]) /\ m[1] # Point /\ ~IsValidFloatChar(m[2]) /\ m[2] # Point
    BY <2>1 DEF IsValidFloatChar, Minus, Exponent, Point
  <2>3. PICK l \in Nat : l = Len(m) /\ l = 2
    BY <1>2
  <2>4. l > 0 /\ \A k \in 1..l : k = 1 \/ k = 2
    BY <2>3
  <2>5. \A k \in 1..l : ~IsValidFloatChar(m[k]) /\ m[k] # Point
    BY <2>2, <2>4, Zenon
  <2>6. IsMark(m)
    <3>1. Len(m) > 0 /\ \A k \in 1..Len(m) : ~IsValidFloatChar(m[k]) /\ m[k] # Point
      BY <2>3, <2>4, <2>5, Zenon
    <3> HIDE <1>2
    <3> QED
      BY <2>1, <3>1, Zenon DEF IsMark
  <2> QED
    BY <2>6, Zenon DEF IsRadix
<1>3. CASE m = << Point >>
  BY <1>3, Zenon DEF IsRadix
<1> QED
  BY <1>1, <1>2, <1>3, Zenon DEF Radixes

LEMMA PointInside ==
    ASSUME NEW t, NEW a, NEW c, NEW r,
           NEW i \in Nat, NEW p \in Nat, NEW q \in Nat, NEW e \in Nat,
           Places(t, a, << Point >>, c, r, i, p, q, e)
    PROVE  DelocalizeRadix(t) = t
<1>1. PICK m : m = << Point >>
  OBVIOUS
<1>2. /\ p = i + Len(m) /\ p <= q /\ q <= e /\ t \in Seq(Nat) /\ Len(t) = e
      /\ \A k \in 1..e : k > i /\ k <= p => t[k] = m[k - i]
  BY <1>1, Zenon DEF Places
<1>3. Len(m) = 1 /\ m[1] = Point
  BY <1>1, PointFirst, Zenon
<1>4. p = i + 1
  BY <1>2, <1>3, Zenon
<1>5. i + 1 \in 1..e /\ i + 1 > i /\ i + 1 <= p /\ (i + 1) - i = 1
  <2>1. p <= q /\ q <= e
    BY <1>2
  <2> QED
    BY <1>4, <2>1
<1>6. t[i + 1] = Point
  BY <1>2, <1>3, <1>5, Zenon
<1>7. DOMAIN t = 1..e
  BY <1>2, LenProperties
<1>8. Point \in ToSet(t)
  BY <1>5, <1>6, <1>7, Zenon DEF ToSet
<1> QED
  BY <1>8, Delocalized, Zenon

(* What is printed in any locale is what is printed in that of C.          *)
PrintedAlike(a, radix, c, r) ==
    DelocalizeRadix(((a \o radix) \o c) \o r) = ((a \o << Point >>) \o c) \o r

LEMMA Printed ==
    ASSUME NEW a \in Seq(0..9), NEW c \in Seq(0..9), NEW r \in Seq(Nat), NEW radix, IsRadix(radix),
           \A k \in 1..Len(r) : IsValidFloatChar(r[k])
    PROVE  PrintedAlike(a, radix, c, r)
<1>1. PICK m : m = << Point >> /\ m \in Seq(Nat)
  BY PointFirst, Zenon
<1>2. radix \in Seq(Nat)
  BY <1>1, Zenon DEF IsRadix, IsMark
<1>3. PICK b : b = ((a \o radix) \o c) \o r
  OBVIOUS
<1>4. PICK i, p, q, e \in Nat : Places(b, a, radix, c, r, i, p, q, e)
  <2>1. Spelled(b, a, radix, c, r)
    BY <1>2, <1>3, Joined, Zenon
  <2> QED
    BY <2>1, Zenon DEF Spelled
<1>5. CASE radix = << Point >>
  <2>1. DelocalizeRadix(b) = b
    <3>1. Places(b, a, << Point >>, c, r, i, p, q, e)
      BY <1>4, <1>5, Zenon
    <3> QED
      BY <3>1, PointInside, Zenon
  <2> QED
    BY <1>3, <1>5, <2>1, Zenon DEF PrintedAlike
<1>6. CASE IsMark(radix)
  <2>1. Pointed(b, a, c, r)
    BY <1>4, <1>6, MarkGone, Zenon
  <2>2. ((a \o m) \o c) \o r = (a \o m) \o (c \o r)
    BY <1>1, JoinedEither, Zenon
  <2> QED
    BY <1>1, <1>3, <2>1, <2>2, Zenon DEF PrintedAlike, Pointed
<1> QED
  BY <1>5, <1>6, Zenon DEF IsRadix

(* What is read in any locale is what is read in that of C.                *)
ReadAlike(t, radix) ==
    [NoLocaleStrtod(t, radix) EXCEPT !.read = DelocalizeRadix(@)] = NoLocaleStrtod(t, << Point >>)

LEMMA Read ==
    ASSUME NEW a \in Seq(0..9), NEW c \in Seq(0..9), NEW r \in Seq(Nat), NEW radix, IsRadix(radix),
           NoDigitAhead(r), Len(a) > 0 \/ Len(c) > 0, NEW t, t = ((a \o << Point >>) \o c) \o r
    PROVE  ReadAlike(t, radix)
<1>1. PICK i, p, q, e \in Nat : Places(t, a, << Point >>, c, r, i, p, q, e)
  <2>1. Spelled(t, a, << Point >>, c, r)
    BY PointFirst, Joined, Zenon
  <2> QED
    BY <2>1, Zenon DEF Spelled
<1>2. p < q \/ i > 0
  <2>1. i = Len(a) /\ q = p + Len(c)
    BY <1>1, Zenon DEF Places
  <2>2. Len(c) \in Nat
    BY LenProperties
  <2> QED
    BY <2>1, <2>2
<1>3. PICK y : y = SubSeq(t, 1, q)
  OBVIOUS
<1>4. Reads(t, << Point >>, y, q)
  BY <1>1, <1>2, <1>3, ReadsInC, Zenon
<1>5. \E x : Reads(t, radix, x, q) /\ DelocalizeRadix(x) = y
  <2>1. CASE radix = << Point >>
    <3>1. Places(y, a, << Point >>, c, << >>, i, p, q, q)
      BY <1>1, <1>3, NumberPart, Zenon
    <3>2. DelocalizeRadix(y) = y
      BY <3>1, PointInside, Zenon
    <3> QED
      BY <1>4, <2>1, <3>2, Zenon
  <2>2. CASE IsMark(radix)
    <3>1. ReadsAs(t, radix, q)
      BY <1>1, <1>2, <2>2, ReadsElsewhere, Zenon
    <3> QED
      BY <1>3, <3>1, Zenon DEF ReadsAs
  <2> QED
    BY <2>1, <2>2, Zenon DEF IsRadix
<1>6. PICK x : Reads(t, radix, x, q) /\ DelocalizeRadix(x) = y
  BY <1>5, Zenon
<1>7. PICK h : h = NoLocaleStrtod(t, radix) /\ h = [read |-> x, end |-> q]
  BY <1>6, Zenon DEF Reads
<1>8. HereRead(h, y, q)
  BY <1>6, <1>7, ReadReplaced, Zenon
<1> QED
  BY <1>4, <1>7, <1>8, Zenon DEF Reads, ReadAlike, HereRead

LEMMA EndsAre ==
    /\ << Exponent, Minus, 7 >> \in Seq(Nat)
    /\ \A k \in 1..Len(<< Exponent, Minus, 7 >>) : IsValidFloatChar(<< Exponent, Minus, 7 >>[k])
    /\ \A r \in {<< >>, << Point, 5 >>, << Exponent >>} : r \in Seq(Nat) /\ NoDigitAhead(r)
<1>1. PICK r : r = << Exponent, Minus, 7 >>
  OBVIOUS
<1>2. r \in Seq(Nat) /\ Len(r) = 3 /\ r[1] = Exponent /\ r[2] = Minus /\ r[3] = 7
  BY <1>1 DEF Exponent, Minus
<1>3. \A k \in 1..3 : k = 1 \/ k = 2 \/ k = 3
  OBVIOUS
<1>4. IsValidFloatChar(Exponent) /\ IsValidFloatChar(Minus) /\ IsValidFloatChar(7)
  BY DEF IsValidFloatChar
<1>5. \A k \in 1..Len(r) : IsValidFloatChar(r[k])
  BY <1>2, <1>3, <1>4, Zenon
<1>6. << >> \in Seq(Nat) /\ NoDigitAhead(<< >>)
  BY DEF NoDigitAhead
<1>7. << Point, 5 >> \in Seq(Nat) /\ NoDigitAhead(<< Point, 5 >>)
  BY DEF NoDigitAhead, Point
<1>8. << Exponent >> \in Seq(Nat) /\ NoDigitAhead(<< Exponent >>)
  BY DEF NoDigitAhead, Exponent
<1> QED
  BY <1>1, <1>2, <1>5, <1>6, <1>7, <1>8, Zenon

(* The digits with a radix mark behind the i-th, and LocaleDoesNotShow of   *)
(* these digits.                                                           *)
Marked(d, i, radix) == SubSeq(d, 1, i) \o radix \o SubSeq(d, i + 1, Len(d))
LocaleAt(d) ==
    \A radix \in Radixes :
        /\ DelocalizeRadix(d) = d
        /\ \A i \in 1..Len(d) :
               DelocalizeRadix(Marked(d, i, radix) \o << Exponent, Minus, 7 >>)
                   = Marked(d, i, << Point >>) \o << Exponent, Minus, 7 >>
        /\ \A i \in 0..Len(d), end \in {<< >>, << Point, 5 >>, << Exponent >>} :
               ReadAlike(Marked(d, i, << Point >>) \o end, radix)

LEMMA LocaleFor == ASSUME number \in Nat PROVE LocaleDoesNotShow
<1>1. PICK n \in Nat : n = number
  OBVIOUS
<1>2. PICK d \in Seq(0..9) : d = FastInt32ToBuffer(number) /\ Len(d) \in Nat \ {0}
  <2>1. FastInt32ToBuffer(n) = Digits[n]
    <3>1. n >= 0
      OBVIOUS
    <3> QED
      BY <3>1, Zenon DEF FastInt32ToBuffer
  <2>2. Digits[n] \in Seq(0..9) /\ Len(Digits[n]) \in Nat \ {0}
    BY DigitsAre
  <2> QED
    BY <1>1, <2>1, <2>2, Zenon
<1>3. PICK l \in Nat : l = Len(d) /\ l > 0
  <2>1. Len(d) \in Nat /\ Len(d) > 0
    BY <1>2
  <2> QED
    BY <2>1, Zenon
<1>4. DelocalizeRadix(d) = d
  <2>1. \A k \in 1..l : d[k] \in 0..9
    BY <1>3, ElementOfSeq
  <2>2. \A k \in 1..Len(d) : IsValidFloatChar(d[k])
    BY <1>3, <2>1, Zenon DEF IsValidFloatChar
  <2> QED
    BY <2>2, Delocalized, Zenon
<1>5. ASSUME NEW i \in 0..l
      PROVE  /\ SubSeq(d, 1, i) \in Seq(0..9) /\ SubSeq(d, i + 1, l) \in Seq(0..9)
             /\ Len(SubSeq(d, 1, i)) > 0 \/ Len(SubSeq(d, i + 1, l)) > 0
  <2>1. PICK j \in Nat : j = i /\ j <= l
    BY <1>5
  <2>2. PICK b \in Nat \ {0} : b = j + 1
    OBVIOUS
  <2>3. PICK one \in Nat \ {0} : one = 1
    OBVIOUS
  <2>4. b <= l + 1 /\ l - b + 1 = l - j /\ one <= j + 1 /\ j - one + 1 = j
    BY <2>1, <2>2, <2>3
  <2>a. j <= Len(d) /\ l <= Len(d)
    BY <1>3, <2>1
  <2>5. PartOf(0..9, d, one, j)
    BY <2>a, <2>4, SubIs, Zenon
  <2>6. PartOf(0..9, d, b, l)
    BY <2>a, <2>4, SubIs, Zenon
  <2>7. j > 0 \/ l - j > 0
    BY <1>3, <2>1
  <2> QED
    BY <2>1, <2>2, <2>3, <2>4, <2>5, <2>6, <2>7, Zenon DEF PartOf
<1>6. ASSUME NEW radix \in Radixes, NEW i \in 1..l
      PROVE  DelocalizeRadix(Marked(d, i, radix) \o << Exponent, Minus, 7 >>)
                 = Marked(d, i, << Point >>) \o << Exponent, Minus, 7 >>
  <2>1. i \in 0..l
    OBVIOUS
  <2>2. PrintedAlike(SubSeq(d, 1, i), radix, SubSeq(d, i + 1, l), << Exponent, Minus, 7 >>)
    BY <1>5, <2>1, RadixesAre, EndsAre, Printed, Zenon
  <2> QED
    BY <1>3, <2>2, Zenon DEF PrintedAlike, Marked
<1>7. ASSUME NEW radix \in Radixes, NEW i \in 0..l, NEW end \in {<< >>, << Point, 5 >>, << Exponent >>}
      PROVE  ReadAlike(Marked(d, i, << Point >>) \o end, radix)
  <2>1. PICK t : t = Marked(d, i, << Point >>) \o end
    OBVIOUS
  <2>2. t = ((SubSeq(d, 1, i) \o << Point >>) \o SubSeq(d, i + 1, l)) \o end
    BY <1>3, <2>1, Zenon DEF Marked
  <2>3. ReadAlike(t, radix)
    BY <1>5, <2>2, RadixesAre, EndsAre, Read, Zenon
  <2> QED
    BY <2>1, <2>3, Zenon
<1>8. LocaleAt(d)
  BY <1>3, <1>4, <1>6, <1>7, Zenon DEF LocaleAt
<1>9. LocaleAt(FastInt32ToBuffer(number))
  BY <1>2, <1>8, Zenon
<1> QED
  BY <1>9, Zenon DEF LocaleDoesNotShow, LocaleAt, ReadAlike, Marked

(* Whatever number the library is at, neither the width of the platform's  *)
(* long, nor what its printf says of a text that does not fit, shows in    *)
(* what the conversions give (strto32_adaptor, StringAppendV), nor does    *)
(* the locale's radix mark: a printed number gets a point for it           *)
(* (DelocalizeRadix), and a text with a point or without a mark is read as *)
(* in the locale of C (NoLocaleStrtod).  Texts with the locale's own mark, *)
(* which are read in another way there, are not among those.               *)
THEOREM PlatformDoesNotShowCorrect == Spec => []PlatformDoesNotShow
<1>1. number \in 0..MaxInt32 => PlatformDoesNotShow
  <2> SUFFICES ASSUME NEW n \in Nat, n = number PROVE PlatformDoesNotShow
    BY LargestNumber
  <2>1. LocaleDoesNotShow
    BY LocaleFor
  <2>2. SameOnEveryPlatform
    <3>1. \A value \in {number, -number} : value \in Int
      OBVIOUS
    <3>2. \A w \in {300, 600} : w \in Nat /\ 300 <= w
      OBVIOUS
    <3>3. 300 \in Nat
      OBVIOUS
    <3>4. ASSUME NEW value \in {number, -number}, NEW w \in {300, 600}, NEW errno
          PROVE  CutToInt32(value, w, 300, errno)
      <4>1. PICK most \in Nat : most = 300
        BY <3>3
      <4>2. value \in Int /\ w \in Nat /\ most <= w
        BY <3>1, <3>2, <4>1
      <4>3. CutToInt32(value, w, most, errno)
        BY <4>2, CutToInt32Correct, ZenonT(30)
      <4> QED
        BY <4>1, <4>3
    <3> QED
      BY <3>4 DEF SameOnEveryPlatform
  <2>3. WholeTextAppended
    <3>1. PICK most \in Nat : most = MaxNumber
      BY NumbersAssumption, LargestNumber
    <3>2. PICK size \in Nat : size = 2 * most + 8
      OBVIOUS
    <3>3. SUFFICES ASSUME n <= most, NEW old \in BOOLEAN
                   PROVE  StringAppendV(n, 8, size, old) > n
      BY <3>1, <3>2, Zenon DEF WholeTextAppended
    <3>4. 2 * n <= size /\ n < size /\ 8 \in 1..size
      BY <3>2, <3>3
    <3> QED
      BY <3>4, WholeTextAppendedCorrect
  <2> QED
    BY <2>1, <2>2, <2>3, Zenon DEF PlatformDoesNotShow
<1> QED
  BY <1>1, NumberInvariant, PTL

-----------------------------------------------------------------------------
(* What one byte is escaped as                                             *)

Byte == 0..255

LEMMA LettersAre ==
    /\ DOMAIN EscapeLetter = {10, 13, 9, 34, 39, 92}
    /\ EscapeLetter[10] = 110 /\ EscapeLetter[13] = 114 /\ EscapeLetter[9] = 116
    /\ EscapeLetter[34] = 34 /\ EscapeLetter[39] = 39 /\ EscapeLetter[92] = 92
BY DEF EscapeLetter

LEMMA UnescapedAre ==
    /\ DOMAIN Unescaped = {97, 98, 102, 110, 114, 116, 118, 92, 63, 39, 34}
    /\ Unescaped[110] = 10 /\ Unescaped[114] = 13 /\ Unescaped[116] = 9
    /\ Unescaped[34] = 34 /\ Unescaped[39] = 39 /\ Unescaped[92] = 92
BY DEF Unescaped, QuestionMark

(* The reader of a letter after a backslash gives what it was written for. *)
LEMMA LettersReadBack ==
    \A c \in DOMAIN EscapeLetter :
        /\ EscapeLetter[c] \in DOMAIN Unescaped /\ Unescaped[EscapeLetter[c]] = c
        /\ EscapeLetter[c] \in Byte \ {0}
BY LettersAre, UnescapedAre DEF Byte

Piece(c, x, h, u) ==
    IF c \in DOMAIN EscapeLetter THEN << Backslash, EscapeLetter[c] >>
    ELSE IF ~MustEscape(c, x, u) THEN << c >>
    ELSE NumericEscape(c, h)
HexAfter(c, x, h, u) ==
    IF c \in DOMAIN EscapeLetter THEN FALSE
    ELSE IF ~MustEscape(c, x, u) THEN FALSE
    ELSE h
State(d, x, y) == [dest |-> d, hex |-> x, fits |-> y]

LEMMA DigitsOfByte ==
    ASSUME NEW c \in Byte
    PROVE  /\ c \div 16 \in 0..15 /\ c % 16 \in 0..15 /\ c = (16 * (c \div 16)) + (c % 16)
           /\ c \div 64 \in 0..3 /\ (c \div 8) % 8 \in 0..7 /\ c % 8 \in 0..7
           /\ c = (8 * ((8 * (c \div 64)) + ((c \div 8) % 8))) + (c % 8)
BY DEF Byte

LEMMA NumericEscapeIs ==
    ASSUME NEW c \in Byte
    PROVE  /\ NumericEscape(c, TRUE) \in Seq(Byte) /\ Len(NumericEscape(c, TRUE)) = 4
           /\ NumericEscape(c, FALSE) \in Seq(Byte) /\ Len(NumericEscape(c, FALSE)) = 4
<1>1. PICK i \in 0..15, j \in 0..15 : i = c \div 16 /\ j = c % 16
  BY DigitsOfByte
<1>2. PICK a \in Byte, b \in Byte : a = HexDigit(i) /\ b = HexDigit(j)
  <2>1. HexDigit(i) \in Byte /\ HexDigit(j) \in Byte
    BY DEF HexDigit, Zero, Byte
  <2> QED
    BY <2>1, Zenon
<1>3. PICK k \in 0..3, m \in 0..7, n \in 0..7 : k = c \div 64 /\ m = (c \div 8) % 8 /\ n = c % 8
  BY DigitsOfByte
<1>4. PICK p \in Byte, q \in Byte, r \in Byte : p = Zero + k /\ q = Zero + m /\ r = Zero + n
  <2>1. Zero + k \in Byte /\ Zero + m \in Byte /\ Zero + n \in Byte
    BY DEF Zero, Byte
  <2> QED
    BY <2>1, Zenon
<1>5. PICK s \in Byte, x \in Byte : s = Backslash /\ x = 120
  BY DEF Backslash, Byte
<1>6. NumericEscape(c, TRUE) = << s, x, a, b >>
  BY <1>1, <1>2, <1>5, Zenon DEF NumericEscape
<1>7. NumericEscape(c, FALSE) = << s, p, q, r >>
  BY <1>3, <1>4, <1>5, Zenon DEF NumericEscape
<1>8. << s, x, a, b >> \in Seq(Byte) /\ Len(<< s, x, a, b >>) = 4
  OBVIOUS
<1>9. << s, p, q, r >> \in Seq(Byte) /\ Len(<< s, p, q, r >>) = 4
  OBVIOUS
<1> QED
  BY <1>6, <1>7, <1>8, <1>9, Zenon

LEMMA PieceIs ==
    ASSUME NEW c \in Byte, NEW x \in BOOLEAN, NEW h \in BOOLEAN, NEW u \in BOOLEAN
    PROVE  Piece(c, x, h, u) \in Seq(Byte) /\ Len(Piece(c, x, h, u)) \in {1, 2, 4}
           /\ HexAfter(c, x, h, u) \in BOOLEAN
<1>1. CASE c \in DOMAIN EscapeLetter
  <2>1. PICK a \in Byte, b \in Byte : a = Backslash /\ b = EscapeLetter[c]
    BY <1>1, LettersReadBack DEF Backslash, Byte
  <2>2. Piece(c, x, h, u) = << a, b >>
    BY <1>1, <2>1, Zenon DEF Piece
  <2>3. << a, b >> \in Seq(Byte) /\ Len(<< a, b >>) = 2
    OBVIOUS
  <2> QED
    BY <1>1, <2>2, <2>3 DEF HexAfter
<1>2. CASE c \notin DOMAIN EscapeLetter /\ ~MustEscape(c, x, u)
  <2>1. Piece(c, x, h, u) = << c >>
    BY <1>2, Zenon DEF Piece
  <2>2. << c >> \in Seq(Byte) /\ Len(<< c >>) = 1
    OBVIOUS
  <2> QED
    BY <1>2, <2>1, <2>2 DEF HexAfter
<1>3. CASE c \notin DOMAIN EscapeLetter /\ MustEscape(c, x, u)
  <2>1. Piece(c, x, h, u) = NumericEscape(c, h) /\ HexAfter(c, x, h, u) = h
    BY <1>3, Zenon DEF Piece, HexAfter
  <2>2. h = TRUE \/ h = FALSE
    OBVIOUS
  <2> QED
    BY <2>1, <2>2, NumericEscapeIs
<1> QED
  BY <1>1, <1>2, <1>3

Parts(b, d, x, y) == b.dest = d /\ b.hex = x /\ b.fits = y
GivesUp(b, d, x, z) == [b EXCEPT !.fits = z] = State(d, x, z)

LEMMA StateIs ==
    ASSUME NEW d, NEW x, NEW y, NEW z, NEW b, b = State(d, x, y)
    PROVE  Parts(b, d, x, y) /\ GivesUp(b, d, x, z)
<1>1. Parts(b, d, x, y)
  BY Zenon DEF State, Parts
<1>2. GivesUp(b, d, x, z)
  BY SMT DEF State, GivesUp
<1> QED
  BY <1>1, <1>2, Zenon

(* The room a piece needs to be written at all; the closing 0 is seen to   *)
(* at the end.                                                             *)
Lacks(room, used, n) == room - used < 2 \/ (n = 4 /\ room - used < 4)

IsNext(b, d, x, y, c, room, h, u) ==
    b = IF ~y \/ Lacks(room, Len(d), Len(Piece(c, x, h, u))) THEN State(d, x, FALSE)
        ELSE State(d \o Piece(c, x, h, u), HexAfter(c, x, h, u), TRUE)

LEMMA EscapeByteIs ==
    ASSUME NEW d \in Seq(Byte), NEW x \in BOOLEAN, NEW y \in BOOLEAN, NEW h \in BOOLEAN,
           NEW u \in BOOLEAN, NEW c \in Byte, NEW room \in Nat
    PROVE  IsNext(EscapeByte(State(d, x, y), c, room, h, u), d, x, y, c, room, h, u)
<1>1. PICK b : b = State(d, x, y)
  OBVIOUS
<1>2. b.dest = d /\ b.hex = x /\ b.fits = y /\ [b EXCEPT !.fits = FALSE] = State(d, x, FALSE)
  <2>1. Parts(b, d, x, y) /\ GivesUp(b, d, x, FALSE)
    BY <1>1, StateIs, Zenon
  <2> QED
    BY <2>1, Zenon DEF Parts, GivesUp
<1>3. PICK n \in Nat : n = Len(d)
  BY LenProperties
<1>4. PICK p : p = Piece(c, x, h, u)
  OBVIOUS
<1>5. PICK z : z = HexAfter(c, x, h, u)
  OBVIOUS
<1>6. CASE ~y \/ room - n < 2
  <2>1. ~b.fits \/ ~HasRoom(room, Len(b.dest))
    BY <1>2, <1>3, <1>6 DEF HasRoom
  <2>2. EscapeByte(b, c, room, h, u) = State(d, x, FALSE)
    BY <1>2, <2>1, Zenon DEF EscapeByte
  <2>3. ~y \/ Lacks(room, Len(d), Len(p))
    BY <1>3, <1>6 DEF Lacks
  <2> QED
    BY <1>1, <1>4, <2>2, <2>3, Zenon DEF IsNext
<1>7. CASE y /\ room - n >= 2
  <2>1. ~ (~b.fits \/ ~HasRoom(room, Len(b.dest)))
    BY <1>2, <1>3, <1>7 DEF HasRoom
  <2>2. ASSUME c \in DOMAIN EscapeLetter
        PROVE  EscapeByte(b, c, room, h, u) = State(d \o p, z, TRUE) /\ Len(p) # 4
    <3>1. p = << Backslash, EscapeLetter[c] >> /\ z = FALSE
      BY <1>4, <1>5, <2>2, Zenon DEF Piece, HexAfter
    <3>2. EscapeByte(b, c, room, h, u)
              = [dest |-> d \o << Backslash, EscapeLetter[c] >>, hex |-> FALSE, fits |-> TRUE]
      BY <1>2, <2>1, <2>2, Zenon DEF EscapeByte
    <3>3. Len(p) = 2
      BY <3>1
    <3>5. Len(p) # 4
      BY <3>3
    <3> QED
      BY <3>1, <3>2, <3>5, Zenon DEF State
  <2>3. ASSUME c \notin DOMAIN EscapeLetter, ~MustEscape(c, x, u)
        PROVE  EscapeByte(b, c, room, h, u) = State(d \o p, z, TRUE) /\ Len(p) # 4
    <3>1. p = << c >> /\ z = FALSE
      BY <1>4, <1>5, <2>3, Zenon DEF Piece, HexAfter
    <3>2. EscapeByte(b, c, room, h, u) = [dest |-> Append(d, c), hex |-> FALSE, fits |-> TRUE]
      BY <1>2, <2>1, <2>3, Zenon DEF EscapeByte
    <3>3. Len(p) = 1
      BY <3>1
    <3>5. Len(p) # 4
      BY <3>3
    <3>4. Append(d, c) = d \o << c >>
      OBVIOUS
    <3> QED
      BY <3>1, <3>2, <3>4, <3>5, Zenon DEF State
  <2>4. ASSUME c \notin DOMAIN EscapeLetter, MustEscape(c, x, u)
        PROVE  /\ Len(p) = 4
               /\ room - n < 4 => EscapeByte(b, c, room, h, u) = State(d, x, FALSE)
               /\ ~ (room - n < 4) => EscapeByte(b, c, room, h, u) = State(d \o p, z, TRUE)
    <3>1. p = NumericEscape(c, h) /\ z = h
      BY <1>4, <1>5, <2>4, Zenon DEF Piece, HexAfter
    <3>2. ASSUME room - n < 4 PROVE EscapeByte(b, c, room, h, u) = State(d, x, FALSE)
      BY <1>2, <1>3, <2>1, <2>4, <3>2, Zenon DEF EscapeByte
    <3>3. ASSUME ~ (room - n < 4)
          PROVE  EscapeByte(b, c, room, h, u)
                     = [dest |-> d \o NumericEscape(c, h), hex |-> h, fits |-> TRUE]
      BY <1>2, <1>3, <2>1, <2>4, <3>3, Zenon DEF EscapeByte
    <3>4. Len(p) = 4
      <4>1. h = TRUE \/ h = FALSE
        OBVIOUS
      <4> QED
        BY <3>1, <4>1, NumericEscapeIs
    <3> QED
      BY <3>1, <3>2, <3>3, <3>4, Zenon DEF State
  <2>5. /\ ~Lacks(room, n, Len(p)) => EscapeByte(b, c, room, h, u) = State(d \o p, z, TRUE)
        /\ Lacks(room, n, Len(p)) => EscapeByte(b, c, room, h, u) = State(d, x, FALSE)
    <3>1. Lacks(room, n, Len(p)) <=> (Len(p) = 4 /\ room - n < 4)
      BY <1>7 DEF Lacks
    <3> QED
      BY <2>2, <2>3, <2>4, <3>1, Zenon
  <2> QED
    BY <1>1, <1>3, <1>4, <1>5, <1>7, <2>5, Zenon DEF IsNext
<1>8. y \in BOOLEAN /\ (~y \/ room - n < 2 \/ (y /\ room - n >= 2))
  OBVIOUS
<1> QED
  BY <1>6, <1>7, <1>8

-----------------------------------------------------------------------------
(* The loop over the bytes of a text                                       *)

Started == State(<< >>, FALSE, TRUE)
ScanStep(s, room, h, u, f, i) ==
    IF i = 0 THEN Started ELSE EscapeByte(f[i - 1], s[i], room, h, u)
Scans(f, s, room, h, u, N) == f = [i \in 0..N |-> ScanStep(s, room, h, u, f, i)]

LEMMA ScansExist ==
    ASSUME NEW s, NEW room, NEW h, NEW u, NEW N \in Nat
    PROVE  \E f : Scans(f, s, room, h, u, N)
<1> DEFINE S == {k \in Nat : \E f : Scans(f, s, room, h, u, k)}
<1>1. 0 \in S
  <2>1. Scans([n \in 0..0 |-> Started], s, room, h, u, 0)
    BY DEF Scans, ScanStep
  <2> QED BY <2>1
<1>2. ASSUME NEW k \in Nat, k \in S PROVE k + 1 \in S
  <2>1. PICK f : Scans(f, s, room, h, u, k)
    BY <1>2
  <2> DEFINE g == [n \in 0..(k + 1) |-> IF n = k + 1 THEN ScanStep(s, room, h, u, f, k + 1)
                                        ELSE f[n]]
  <2>2. \A n \in 0..k : g[n] = f[n]
    BY SMT
  <2>3. \A n \in 0..k : f[n] = ScanStep(s, room, h, u, f, n)
    BY <2>1 DEF Scans
  <2>4. \A n \in 0..(k + 1) : g[n] = ScanStep(s, room, h, u, g, n)
    <3> SUFFICES ASSUME NEW n \in 0..(k + 1) PROVE g[n] = ScanStep(s, room, h, u, g, n)
      OBVIOUS
    <3>1. n # 0 => n - 1 \in 0..k
      OBVIOUS
    <3>2. n # 0 => g[n - 1] = f[n - 1]
      BY <3>1, <2>2
    <3>3. g[n] = ScanStep(s, room, h, u, f, n)
      BY <2>3
    <3> HIDE DEF g
    <3> QED BY <3>2, <3>3, Zenon DEF ScanStep
  <2> HIDE DEF g
  <2>5. Scans(g, s, room, h, u, k + 1)
    BY <2>4 DEF Scans, g
  <2> QED BY <2>5
<1> HIDE DEF S
<1>3. Nat \subseteq S
  BY <1>1, <1>2, Induction
<1> QED BY <1>3 DEF S

Returned(last, room) == [dest |-> last.dest, fits |-> last.fits /\ room > Len(last.dest)]
LEMMA CEscapeIs ==
    ASSUME NEW s, NEW room, NEW h, NEW u, Len(s) \in Nat
    PROVE  \E f : /\ Scans(f, s, room, h, u, Len(s))
                 /\ CEscapeInternal(s, room, h, u) = Returned(f[Len(s)], room)
<1>1. \E g : Scans(g, s, room, h, u, Len(s))
  BY ScansExist
<1>2. \E g : g = [i \in 0..Len(s) |->
                     IF i = 0 THEN [dest |-> << >>, hex |-> FALSE, fits |-> TRUE]
                     ELSE EscapeByte(g[i - 1], s[i], room, h, u)]
  BY <1>1, Zenon DEF Scans, ScanStep, Started, State
<1> QED
  BY <1>2, Zenon DEF CEscapeInternal, Scans, ScanStep, Started, State, Returned

Returns(r, d, y, room) == r.dest = d /\ (r.fits <=> y /\ room > Len(d))
LEMMA ReturnedIs ==
    ASSUME NEW last, NEW d, NEW x, NEW y, NEW room, NEW r, last = State(d, x, y),
           r = Returned(last, room)
    PROVE  Returns(r, d, y, room)
<1>1. Parts(last, d, x, y)
  BY StateIs, Zenon
<1>2. r.dest = last.dest /\ (r.fits <=> last.fits /\ room > Len(last.dest))
  BY Zenon DEF Returned
<1> QED
  BY <1>1, <1>2, Zenon DEF Parts, Returns

LEMMA ScanNext ==
    ASSUME NEW s \in Seq(Byte), NEW room \in Nat, NEW h \in BOOLEAN, NEW u \in BOOLEAN, NEW f,
           NEW N \in Nat, N = Len(s), Scans(f, s, room, h, u, N),
           NEW i \in Nat, NEW k \in Nat, k = i + 1, k <= N,
           NEW d \in Seq(Byte), NEW x \in BOOLEAN, NEW y \in BOOLEAN, f[i] = State(d, x, y)
    PROVE  s[k] \in Byte /\ IsNext(f[k], d, x, y, s[k], room, h, u)
<1>1. k \in 1..Len(s)
  OBVIOUS
<1>2. PICK c \in Byte : c = s[k]
  BY <1>1, ElementOfSeq
<1>3. f[k] = EscapeByte(f[i], c, room, h, u)
  <2>1. k \in 0..N /\ k # 0 /\ k - 1 = i
    OBVIOUS
  <2>2. f[k] = ScanStep(s, room, h, u, f, k)
    BY <2>1 DEF Scans
  <2> QED
    BY <1>2, <2>1, <2>2 DEF ScanStep
<1>4. IsNext(EscapeByte(State(d, x, y), c, room, h, u), d, x, y, c, room, h, u)
  BY EscapeByteIs
<1> QED
  BY <1>2, <1>3, <1>4, Zenon

LEMMA ScanBegins ==
    ASSUME NEW s, NEW room, NEW h, NEW u, NEW f, NEW N \in Nat, Scans(f, s, room, h, u, N)
    PROVE  f[0] = State(<< >>, FALSE, TRUE)
<1>1. f[0] = ScanStep(s, room, h, u, f, 0)
  BY DEF Scans
<1> QED
  BY <1>1, Zenon DEF ScanStep, Started

(* In the largest buffer that can be needed, every byte is written.        *)
Whole(f, i, d, x) ==
    d \in Seq(Byte) /\ x \in BOOLEAN /\ f[i] = State(d, x, TRUE) /\ Len(d) <= 4 * i
Adds(f, s, h, u, i, k, d, x) ==
    LET p == Piece(s[k], x, h, u)
        z == HexAfter(s[k], x, h, u)
    IN  /\ p \in Seq(Byte) /\ Len(p) \in {1, 2, 4}
        /\ Whole(f, k, d \o p, z) /\ Len(d \o p) = Len(d) + Len(p)

LEMMA JoinedBytes ==
    ASSUME NEW d \in Seq(Byte), NEW p \in Seq(Byte)
    PROVE  d \o p \in Seq(Byte) /\ Len(d \o p) = Len(d) + Len(p)
OBVIOUS

LEMMA Enough ==
    ASSUME NEW room \in Nat, NEW N \in Nat, room >= 4 * N + 1, NEW i \in Nat, NEW k \in Nat,
           k = i + 1, k <= N, NEW l \in Nat, l <= 4 * i, NEW n \in Nat, n \in {1, 2, 4}
    PROVE  ~Lacks(room, l, n) /\ l + n <= 4 * k
BY DEF Lacks

LEMMA LacksIs ==
    ASSUME NEW room \in Nat, NEW l \in Nat, NEW n \in Nat, n \in {1, 2, 4}
    PROVE  /\ Lacks(room, l, n) => room <= l + n
           /\ ~Lacks(room, l, n) => l + n <= room
BY DEF Lacks

LEMMA WholeAdds ==
    ASSUME NEW s \in Seq(Byte), NEW room \in Nat, NEW h \in BOOLEAN, NEW u \in BOOLEAN, NEW f,
           NEW N \in Nat, N = Len(s), Scans(f, s, room, h, u, N), room >= 4 * N + 1,
           NEW i \in Nat, NEW k \in Nat, k = i + 1, k <= N, NEW d, NEW x, Whole(f, i, d, x)
    PROVE  Adds(f, s, h, u, i, k, d, x)
<1>1. d \in Seq(Byte) /\ x \in BOOLEAN /\ f[i] = State(d, x, TRUE) /\ Len(d) <= 4 * i
  BY Zenon DEF Whole
<1>2. PICK y \in BOOLEAN : y = TRUE
  OBVIOUS
<1>3. s[k] \in Byte /\ IsNext(f[k], d, x, y, s[k], room, h, u)
  <2>1. f[i] = State(d, x, y)
    BY <1>1, <1>2, Zenon
  <2> QED
    BY <1>1, <2>1, ScanNext, SMTT(30)
<1>4. PICK c \in Byte : c = s[k]
  BY <1>3
<1>5. PICK p, z : p = Piece(c, x, h, u) /\ z = HexAfter(c, x, h, u)
  OBVIOUS
<1>6. p \in Seq(Byte) /\ Len(p) \in {1, 2, 4} /\ z \in BOOLEAN
  BY <1>1, <1>5, PieceIs
<1>7. d \o p \in Seq(Byte) /\ Len(d \o p) = Len(d) + Len(p)
  BY <1>1, <1>6, JoinedBytes
<1>8. PICK l \in Nat, n \in Nat : l = Len(d) /\ n = Len(p)
  BY <1>1, <1>6, LenProperties
<1>9. ~Lacks(room, l, n) /\ l + n <= 4 * k
  <2>1. l <= 4 * i /\ n \in {1, 2, 4}
    BY <1>1, <1>6, <1>8, Zenon
  <2> QED
    BY <2>1, Enough
<1>10. f[k] = State(d \o p, z, TRUE)
  BY <1>2, <1>3, <1>4, <1>5, <1>8, <1>9, Zenon DEF IsNext
<1>11. Whole(f, k, d \o p, z)
  BY <1>6, <1>7, <1>8, <1>9, <1>10 DEF Whole
<1> QED
  BY <1>4, <1>5, <1>6, <1>7, <1>11, Zenon DEF Adds

(* A scan into a smaller buffer is as far as the one into the largest, or  *)
(* has given up what could not fit.                                        *)
Alike(f, g, room, i, d, x) ==
    /\ Whole(f, i, d, x)
    /\ \/ g[i] = State(d, x, TRUE) /\ Len(d) <= room
       \/ \E e \in Seq(Byte), z \in BOOLEAN :
              g[i] = State(e, z, FALSE) /\ Len(e) <= room /\ room <= Len(d)

LEMMA AlikeNext ==
    ASSUME NEW s \in Seq(Byte), NEW most \in Nat, NEW room \in Nat, NEW h \in BOOLEAN,
           NEW u \in BOOLEAN, NEW f, NEW g, NEW N \in Nat, N = Len(s),
           Scans(f, s, most, h, u, N), most >= 4 * N + 1, Scans(g, s, room, h, u, N),
           NEW i \in Nat, NEW k \in Nat, k = i + 1, k <= N, NEW d, NEW x, Alike(f, g, room, i, d, x)
    PROVE  \E d2, x2 : Alike(f, g, room, k, d2, x2)
<1>1. Whole(f, i, d, x)
  BY Zenon DEF Alike
<1>2. d \in Seq(Byte) /\ x \in BOOLEAN
  BY <1>1, Zenon DEF Whole
<1>3. Adds(f, s, h, u, i, k, d, x)
  BY <1>1, WholeAdds
<1>4. PICK p, z : p = Piece(s[k], x, h, u) /\ z = HexAfter(s[k], x, h, u)
  OBVIOUS
<1>5. /\ p \in Seq(Byte) /\ Len(p) \in {1, 2, 4}
      /\ Whole(f, k, d \o p, z) /\ Len(d \o p) = Len(d) + Len(p)
  BY <1>3, <1>4, Zenon DEF Adds
<1>6. PICK l \in Nat, n \in Nat : l = Len(d) /\ n = Len(p) /\ n \in {1, 2, 4}
  BY <1>2, <1>5, LenProperties
<1>7. CASE g[i] = State(d, x, TRUE) /\ Len(d) <= room
  <2>1. PICK y \in BOOLEAN : y = TRUE
    OBVIOUS
  <2>2. g[i] = State(d, x, y)
    BY <1>7, <2>1
  <2>3. IsNext(g[k], d, x, y, s[k], room, h, u)
    BY <1>2, <2>2, ScanNext
  <2>4. CASE Lacks(room, l, n)
    <3>1. g[k] = State(d, x, FALSE)
      BY <1>4, <1>6, <2>3, <2>4, Zenon DEF IsNext
    <3>2. room <= l + n
      BY <1>6, <2>4, LacksIs
    <3>3. room <= Len(d \o p)
      BY <1>5, <1>6, <3>2
    <3> QED
      BY <1>2, <1>5, <1>7, <3>1, <3>3, Zenon DEF Alike
  <2>5. CASE ~Lacks(room, l, n)
    <3>1. g[k] = State(d \o p, z, TRUE)
      BY <1>4, <1>6, <2>1, <2>3, <2>5, Zenon DEF IsNext
    <3>2. l + n <= room
      BY <1>6, <2>5, LacksIs
    <3>3. Len(d \o p) <= room
      BY <1>5, <1>6, <3>2
    <3> QED
      BY <1>5, <3>1, <3>3, Zenon DEF Alike
  <2> QED
    BY <2>4, <2>5
<1>8. ASSUME NEW e \in Seq(Byte), NEW v \in BOOLEAN,
             g[i] = State(e, v, FALSE), Len(e) <= room, room <= Len(d)
      PROVE  \E d2, x2 : Alike(f, g, room, k, d2, x2)
  <2>1. PICK y \in BOOLEAN : y = FALSE
    OBVIOUS
  <2>2. g[i] = State(e, v, y) /\ e \in Seq(Byte) /\ v \in BOOLEAN
    BY <1>8, <2>1, Zenon
  <2>3. IsNext(g[k], e, v, y, s[k], room, h, u)
    BY <2>2, ScanNext
  <2>4. g[k] = State(e, v, FALSE)
    BY <2>1, <2>3, Zenon DEF IsNext
  <2>5. room <= Len(d \o p)
    BY <1>5, <1>6, <1>8
  <2> QED
    BY <1>5, <1>8, <2>4, <2>5, Zenon DEF Alike
<1> QED
  BY <1>7, <1>8, Zenon DEF Alike

LEMMA AlikeAlways ==
    ASSUME NEW s \in Seq(Byte), NEW most \in Nat, NEW room \in Nat, NEW h \in BOOLEAN,
           NEW u \in BOOLEAN, NEW f, NEW g, NEW N \in Nat, N = Len(s),
           Scans(f, s, most, h, u, N), most >= 4 * N + 1, Scans(g, s, room, h, u, N)
    PROVE  \E d, x : Alike(f, g, room, N, d, x)
<1> DEFINE S == {i \in Nat : i <= N => \E d, x : Alike(f, g, room, i, d, x)}
<1>1. 0 \in S
  <2>1. f[0] = State(<< >>, FALSE, TRUE) /\ g[0] = State(<< >>, FALSE, TRUE)
    BY ScanBegins
  <2>2. << >> \in Seq(Byte) /\ Len(<< >>) <= 4 * 0 /\ Len(<< >>) <= room /\ FALSE \in BOOLEAN
    OBVIOUS
  <2>3. Alike(f, g, room, 0, << >>, FALSE)
    BY <2>1, <2>2, Zenon DEF Alike, Whole
  <2> QED
    BY <2>3, Zenon
<1>2. ASSUME NEW i \in Nat, i \in S PROVE i + 1 \in S
  <2> SUFFICES ASSUME i + 1 <= N PROVE \E d, x : Alike(f, g, room, i + 1, d, x)
    OBVIOUS
  <2>1. PICK k \in Nat : k = i + 1 /\ k <= N /\ i <= N
    OBVIOUS
  <2>2. PICK d, x : Alike(f, g, room, i, d, x)
    BY <1>2, <2>1
  <2>3. \E d2, x2 : Alike(f, g, room, k, d2, x2)
    BY <2>1, <2>2, AlikeNext
  <2> QED
    BY <2>1, <2>3, Zenon
<1> HIDE DEF S
<1>3. Nat \subseteq S
  BY <1>1, <1>2, Induction
<1>4. N \in S /\ N <= N
  BY <1>3
<1> QED
  BY <1>4, Zenon DEF S

-----------------------------------------------------------------------------
(* The buffer                                                              *)

Buffered(s, room, h, u) ==
    LET whole == CEscapeInternal(s, MaximumExpansion(s), h, u)
        into == CEscapeInternal(s, room, h, u)
    IN  /\ Len(into.dest) <= room
        /\ into.fits <=> room > Len(whole.dest)

(* Whatever the text and the size of the buffer, CEscapeInternal writes no *)
(* byte behind the end of the buffer, and reports that the text did not    *)
(* fit exactly when the whole of it and the closing 0 are longer.          *)
THEOREM EscapesFitCorrect ==
    \A s \in Seq(0..255), room \in Nat, useHex \in BOOLEAN, utf8Safe \in BOOLEAN :
        Buffered(s, room, useHex, utf8Safe)
<1> SUFFICES ASSUME NEW s \in Seq(Byte), NEW room \in Nat, NEW h \in BOOLEAN, NEW u \in BOOLEAN
             PROVE  Buffered(s, room, h, u)
  BY Zenon DEF Byte
<1>1. PICK N \in Nat : N = Len(s)
  BY LenProperties
<1>2. PICK most \in Nat : most = MaximumExpansion(s) /\ most >= 4 * N + 1
  BY <1>1 DEF MaximumExpansion
<1>3. PICK f : /\ Scans(f, s, most, h, u, N)
               /\ CEscapeInternal(s, most, h, u) = Returned(f[N], most)
  BY <1>1, CEscapeIs
<1>4. PICK g : /\ Scans(g, s, room, h, u, N)
               /\ CEscapeInternal(s, room, h, u) = Returned(g[N], room)
  BY <1>1, CEscapeIs
<1>5. PICK d, x : Alike(f, g, room, N, d, x)
  BY <1>1, <1>2, <1>3, <1>4, AlikeAlways
<1>6. f[N] = State(d, x, TRUE) /\ d \in Seq(Byte)
  BY <1>5, Zenon DEF Alike, Whole
<1>7. PICK whole : whole = CEscapeInternal(s, most, h, u)
  OBVIOUS
<1>8. PICK into : into = CEscapeInternal(s, room, h, u)
  OBVIOUS
<1>9. Returns(whole, d, TRUE, most)
  BY <1>3, <1>6, <1>7, ReturnedIs
<1>10. CASE g[N] = State(d, x, TRUE) /\ Len(d) <= room
  <2>1. Returns(into, d, TRUE, room)
    BY <1>4, <1>8, <1>10, ReturnedIs
  <2> QED
    BY <1>2, <1>7, <1>8, <1>9, <1>10, <2>1, Zenon DEF Buffered, Returns
<1>11. ASSUME NEW e \in Seq(Byte), NEW z \in BOOLEAN,
              g[N] = State(e, z, FALSE), Len(e) <= room, room <= Len(d)
       PROVE  Buffered(s, room, h, u)
  <2>1. Returns(into, e, FALSE, room)
    BY <1>4, <1>8, <1>11, ReturnedIs
  <2>2. ~ (room > Len(d))
    BY <1>6, <1>11, LenProperties
  <2> QED
    BY <1>2, <1>7, <1>8, <1>9, <1>11, <2>1, <2>2, Zenon DEF Buffered, Returns
<1> QED
  BY <1>5, <1>10, <1>11, Zenon DEF Alike

-----------------------------------------------------------------------------
(* The value of the digits of an escape                                    *)

ReadDigit(s, b, f, i) == IF i = 0 THEN 0 ELSE (b * f[i - 1] + hex_digit_to_int(s[i])) % 256
ReadDigits(f, s, b, N) == f = [i \in 0..N |-> ReadDigit(s, b, f, i)]

LEMMA ReadDigitsExist ==
    ASSUME NEW s, NEW b, NEW N \in Nat
    PROVE  \E f : ReadDigits(f, s, b, N)
<1> DEFINE S == {k \in Nat : \E f : ReadDigits(f, s, b, k)}
<1>1. 0 \in S
  <2>1. ReadDigits([n \in 0..0 |-> 0], s, b, 0)
    BY DEF ReadDigits, ReadDigit
  <2> QED BY <2>1
<1>2. ASSUME NEW k \in Nat, k \in S PROVE k + 1 \in S
  <2>1. PICK f : ReadDigits(f, s, b, k)
    BY <1>2
  <2> DEFINE g == [n \in 0..(k + 1) |-> IF n = k + 1 THEN ReadDigit(s, b, f, k + 1) ELSE f[n]]
  <2>2. \A n \in 0..k : g[n] = f[n]
    BY SMT
  <2>3. \A n \in 0..k : f[n] = ReadDigit(s, b, f, n)
    BY <2>1 DEF ReadDigits
  <2>4. \A n \in 0..(k + 1) : g[n] = ReadDigit(s, b, g, n)
    <3> SUFFICES ASSUME NEW n \in 0..(k + 1) PROVE g[n] = ReadDigit(s, b, g, n)
      OBVIOUS
    <3>1. n # 0 => n - 1 \in 0..k
      OBVIOUS
    <3>2. n # 0 => g[n - 1] = f[n - 1]
      BY <3>1, <2>2
    <3>3. g[n] = ReadDigit(s, b, f, n)
      BY <2>3
    <3> HIDE DEF g
    <3> QED BY <3>2, <3>3, Zenon DEF ReadDigit
  <2> HIDE DEF g
  <2>5. ReadDigits(g, s, b, k + 1)
    BY <2>4 DEF ReadDigits, g
  <2> QED BY <2>5
<1> HIDE DEF S
<1>3. Nat \subseteq S
  BY <1>1, <1>2, Induction
<1> QED BY <1>3 DEF S

LEMMA ByteOfIs ==
    ASSUME NEW s, NEW b, Len(s) \in Nat
    PROVE  \E f : ReadDigits(f, s, b, Len(s)) /\ ByteOf(s, b) = f[Len(s)]
<1>1. \E g : ReadDigits(g, s, b, Len(s))
  BY ReadDigitsExist
<1>2. \E g : g = [i \in 0..Len(s) |->
                     IF i = 0 THEN 0 ELSE (b * g[i - 1] + hex_digit_to_int(s[i])) % 256]
  BY <1>1, Zenon DEF ReadDigits, ReadDigit
<1> QED
  BY <1>2, Zenon DEF ByteOf, ReadDigits, ReadDigit

LEMMA ByteOfTwo ==
    ASSUME NEW s, Len(s) = 2, NEW i \in 0..15, NEW j \in 0..15,
           hex_digit_to_int(s[1]) = i, hex_digit_to_int(s[2]) = j
    PROVE  ByteOf(s, 16) = (16 * i) + j
<1>1. PICK f : ReadDigits(f, s, 16, 2) /\ ByteOf(s, 16) = f[2]
  <2>1. Len(s) \in Nat
    OBVIOUS
  <2>2. \E f : ReadDigits(f, s, 16, Len(s)) /\ ByteOf(s, 16) = f[Len(s)]
    BY <2>1, ByteOfIs, Zenon
  <2> QED
    BY <2>2
<1>2. f[0] = 0 /\ f[1] = (16 * f[0] + i) % 256 /\ f[2] = (16 * f[1] + j) % 256
  BY <1>1 DEF ReadDigits, ReadDigit
<1>3. PICK a \in Int : a = f[1] /\ a = i
  BY <1>2
<1> QED
  BY <1>1, <1>2, <1>3

LEMMA ByteOfThree ==
    ASSUME NEW s, Len(s) = 3, NEW k \in 0..3, NEW m \in 0..7, NEW n \in 0..7,
           hex_digit_to_int(s[1]) = k, hex_digit_to_int(s[2]) = m, hex_digit_to_int(s[3]) = n
    PROVE  ByteOf(s, 8) = (8 * ((8 * k) + m)) + n
<1>1. PICK f : ReadDigits(f, s, 8, 3) /\ ByteOf(s, 8) = f[3]
  <2>1. Len(s) \in Nat
    OBVIOUS
  <2>2. \E f : ReadDigits(f, s, 8, Len(s)) /\ ByteOf(s, 8) = f[Len(s)]
    BY <2>1, ByteOfIs, Zenon
  <2> QED
    BY <2>2
<1>2. /\ f[0] = 0 /\ f[1] = (8 * f[0] + k) % 256 /\ f[2] = (8 * f[1] + m) % 256
      /\ f[3] = (8 * f[2] + n) % 256
  BY <1>1 DEF ReadDigits, ReadDigit
<1>3. PICK a \in Int : a = f[1] /\ a = k
  BY <1>2
<1>4. PICK b \in Int : b = f[2] /\ b = (8 * k) + m
  BY <1>2, <1>3
<1> QED
  BY <1>1, <1>2, <1>4

-----------------------------------------------------------------------------
(* Runs of digits in an escape                                             *)

LEMMA GreatestIs ==
    ASSUME NEW S \in SUBSET Nat, S # {}, NEW K \in Nat, \A x \in S : x <= K
    PROVE  Max(S) \in S /\ \A x \in S : x <= Max(S)
<1> DEFINE T == {n \in 0..K : K - n \in S}
<1>1. T \in SUBSET Nat /\ T # {}
  <2>1. PICK x \in S : x <= K
    OBVIOUS
  <2>2. PICK n \in 0..K : n = K - x /\ K - n = x
    BY <2>1
  <2>3. n \in T
    BY <2>1, <2>2
  <2>4. T \in SUBSET Nat
    OBVIOUS
  <2> HIDE DEF T
  <2> QED
    BY <2>3, <2>4
<1> HIDE DEF T
<1>2. PICK n \in T : \A k \in T : n <= k
  BY <1>1, LeastExists
<1>3. PICK m \in Nat : m = K - n /\ m \in S /\ n \in 0..K
  BY <1>2 DEF T
<1>4. ASSUME NEW x \in S PROVE x <= m
  <2>1. PICK k \in 0..K : k = K - x /\ K - k = x
    OBVIOUS
  <2>2. k \in T
    BY <2>1 DEF T
  <2> QED
    BY <1>2, <1>3, <2>1, <2>2
<1>5. S \subseteq Int /\ \A x \in S : m >= x
  BY <1>3, <1>4
<1>6. Max(S) = m
  BY <1>3, <1>5, MaxIs
<1> QED
  BY <1>3, <1>4, <1>6

IsRun(s, from, bytes, q) == \A i \in from..q : At(s, i) \in bytes

LEMMA RunIs ==
    ASSUME NEW s, NEW from \in Nat \ {0}, NEW bytes, NEW most \in Nat
    PROVE  /\ LastOfRun(s, from, bytes, most) \in (from - 1)..(from + most - 1)
           /\ IsRun(s, from, bytes, LastOfRun(s, from, bytes, most))
           /\ \A r \in (from - 1)..(from + most - 1) :
                  IsRun(s, from, bytes, r) => r <= LastOfRun(s, from, bytes, most)
<1> DEFINE S == {q \in (from - 1)..(from + most - 1) : \A i \in from..q : At(s, i) \in bytes}
<1>1. LastOfRun(s, from, bytes, most) = Max(S)
  BY Zenon DEF LastOfRun
<1>2. from - 1 \in S
  OBVIOUS
<1>3. Max(S) \in S /\ \A r \in S : r <= Max(S)
  <2>1. PICK K \in Nat : K = from + most - 1
    OBVIOUS
  <2>2. S \in SUBSET Nat /\ \A r \in S : r <= K
    BY <2>1
  <2>3. S # {}
    BY <1>2
  <2> HIDE DEF S
  <2> QED
    BY <2>2, <2>3, GreatestIs
<1> QED
  BY <1>1, <1>3 DEF IsRun

LEMMA RunExact ==
    ASSUME NEW s, NEW from \in Nat \ {0}, NEW bytes, NEW most \in Nat,
           NEW r \in Int, from - 1 <= r, r <= from + most - 1, IsRun(s, from, bytes, r),
           r = from + most - 1 \/ At(s, r + 1) \notin bytes
    PROVE  LastOfRun(s, from, bytes, most) = r
<1>1. PICK q \in Int : /\ q = LastOfRun(s, from, bytes, most) /\ q <= from + most - 1
                       /\ IsRun(s, from, bytes, q) /\ r <= q
  BY RunIs
<1>2. q > r => r + 1 \in from..q
  OBVIOUS
<1> QED
  BY <1>1, <1>2 DEF IsRun

LEMMA RunInside ==
    ASSUME NEW s, NEW N \in Nat, N = Len(s), NEW from \in Nat \ {0}, from <= N + 1, NEW bytes, 0 \notin bytes,
           NEW most \in Nat
    PROVE  LastOfRun(s, from, bytes, most) \in (from - 1)..N
<1>1. PICK q \in Int : /\ q = LastOfRun(s, from, bytes, most) /\ q >= from - 1
                       /\ IsRun(s, from, bytes, q)
  <2>1. PICK q : q = LastOfRun(s, from, bytes, most)
    OBVIOUS
  <2>2. q \in (from - 1)..(from + most - 1) /\ IsRun(s, from, bytes, q)
    BY <2>1, RunIs, Zenon
  <2> QED
    BY <2>1, <2>2
<1>2. CASE q > N
  <2>1. q \in from..q
    BY <1>1, <1>2
  <2>2. At(s, q) = 0
    BY <1>2 DEF At
  <2> QED
    BY <1>1, <2>1, <2>2 DEF IsRun
<1> QED
  BY <1>1, <1>2

-----------------------------------------------------------------------------
(* The reader of C escapes                                                 *)

Octal(t, p) == LastOfRun(t, p + 1, OctalDigits, 3)
HexRun(t, p) == LastOfRun(t, p + 2, HexDigits, Len(t))
ReadAt(t, f, p) ==
    IF At(t, p) = 0 THEN << >>
    ELSE IF t[p] # Backslash THEN << t[p] >> \o f[p + 1]
    ELSE IF At(t, p + 1) \in DOMAIN Unescaped
    THEN << Unescaped[At(t, p + 1)] >> \o f[p + 2]
    ELSE IF At(t, p + 1) \in OctalDigits
    THEN << ByteOf(SubSeq(t, p + 1, Octal(t, p)), 8) >> \o f[Octal(t, p) + 1]
    ELSE IF At(t, p + 1) \in {88, 120}
    THEN (IF HexRun(t, p) = p + 1 THEN << >>
          ELSE << ByteOf(SubSeq(t, p + 2, HexRun(t, p)), 16) >>)
         \o f[HexRun(t, p) + 1]
    ELSE IF At(t, p + 1) = 0 THEN << >>
    ELSE f[p + 2]
ReadsFrom(f, t, p, K) == f = [q \in p..K |-> ReadAt(t, f, q)]
Follows(f, g, p, K) == \A q \in (p + 1)..K : f[q] = g[q]

LEMMA NoDigitsAtEnd == 0 \notin OctalDigits /\ 0 \notin HexDigits
BY DEF OctalDigits, HexDigits, Zero

(* What is read at a place depends on what is read behind it only.         *)
LEMMA ReadAtAgrees ==
    ASSUME NEW t, NEW N \in Nat, N = Len(t), NEW f, NEW g, NEW p \in 1..N + 2, Follows(f, g, p, N + 2)
    PROVE  ReadAt(t, f, p) = ReadAt(t, g, p)
<1>0. \A q \in (p + 1)..(N + 2) : f[q] = g[q]
  BY Zenon DEF Follows
<1>1. CASE At(t, p) = 0
  BY <1>1, Zenon DEF ReadAt
<1>2. CASE At(t, p) # 0
  <2>0. p <= N
    BY <1>2 DEF At
  <2>1. f[p + 1] = g[p + 1] /\ f[p + 2] = g[p + 2]
    <3>1. p + 1 \in (p + 1)..(N + 2) /\ p + 2 \in (p + 1)..(N + 2)
      BY <2>0
    <3> QED
      BY <1>0, <3>1, Zenon
  <2>2. CASE t[p] # Backslash
    BY <1>2, <2>1, <2>2, Zenon DEF ReadAt
  <2>3. CASE t[p] = Backslash /\ At(t, p + 1) \in DOMAIN Unescaped
    BY <1>2, <2>1, <2>3, Zenon DEF ReadAt
  <2>4. CASE /\ t[p] = Backslash /\ At(t, p + 1) \notin DOMAIN Unescaped
             /\ At(t, p + 1) \in OctalDigits
    <3>0. p + 1 \in Nat \ {0} /\ p + 1 <= N + 1 /\ 3 \in Nat /\ 0 \notin OctalDigits
      BY <2>0, NoDigitsAtEnd
    <3>1. Octal(t, p) \in ((p + 1) - 1)..N
      BY <3>0, RunInside, Zenon DEF Octal
    <3>2. Octal(t, p) + 1 \in (p + 1)..(N + 2)
      BY <3>1
    <3>3. f[Octal(t, p) + 1] = g[Octal(t, p) + 1]
      BY <1>0, <3>2, Zenon
    <3> QED
      BY <1>2, <2>4, <3>3, Zenon DEF ReadAt
  <2>5. CASE /\ t[p] = Backslash /\ At(t, p + 1) \notin DOMAIN Unescaped
             /\ At(t, p + 1) \notin OctalDigits /\ At(t, p + 1) \in {88, 120}
    <3>a. p + 1 <= N
      BY <2>0, <2>5 DEF At
    <3>0. p + 2 \in Nat \ {0} /\ p + 2 <= N + 1 /\ Len(t) \in Nat /\ 0 \notin HexDigits
      BY <3>a, NoDigitsAtEnd
    <3>1. HexRun(t, p) \in ((p + 2) - 1)..N
      BY <3>0, RunInside, Zenon DEF HexRun
    <3>2. HexRun(t, p) + 1 \in (p + 1)..(N + 2)
      BY <3>1
    <3>3. f[HexRun(t, p) + 1] = g[HexRun(t, p) + 1]
      BY <1>0, <3>2, Zenon
    <3> QED
      BY <1>2, <2>5, <3>3, Zenon DEF ReadAt
  <2>6. CASE /\ t[p] = Backslash /\ At(t, p + 1) \notin DOMAIN Unescaped
             /\ At(t, p + 1) \notin OctalDigits /\ At(t, p + 1) \notin {88, 120}
    BY <1>2, <2>1, <2>6, Zenon DEF ReadAt
  <2> QED
    BY <2>2, <2>3, <2>4, <2>5, <2>6, Zenon
<1> QED
  BY <1>1, <1>2, Zenon

LEMMA ReadsExist ==
    ASSUME NEW t, NEW N \in Nat, N = Len(t)
    PROVE  \E f : ReadsFrom(f, t, 1, N + 2)
<1> DEFINE S == {n \in Nat : \A p \in 1..N + 2 : p = N + 2 - n => \E f : ReadsFrom(f, t, p, N + 2)}
<1>0. PICK K \in Nat : K = N + 2
  OBVIOUS
<1>1. 0 \in S
  <2>1. PICK v : v = ReadAt(t, t, K)
    OBVIOUS
  <2>2. PICK f : f = [q \in K..K |-> v]
    OBVIOUS
  <2>3. Follows(t, f, K, N + 2)
    BY <1>0 DEF Follows
  <2>4. ReadAt(t, t, K) = ReadAt(t, f, K)
    <3>1. K \in 1..N + 2
      BY <1>0
    <3> QED
      BY <2>3, <3>1, ReadAtAgrees
  <2>5. \A q \in K..K : q = K
    OBVIOUS
  <2>6. \A q \in K..K : f[q] = ReadAt(t, f, q)
    <3>1. f[K] = v
      BY <2>2, <2>5
    <3> QED
      BY <2>1, <2>4, <2>5, <3>1, Zenon
  <2>7. ReadsFrom(f, t, K, K)
    <3>1. f = [q \in K..K |-> f[q]]
      BY <2>2
    <3> HIDE DEF S
    <3> QED
      BY <2>6, <3>1, Zenon DEF ReadsFrom
  <2> QED
    BY <1>0, <2>7
<1>2. ASSUME NEW n \in Nat, n \in S PROVE n + 1 \in S
  <2> SUFFICES ASSUME NEW p \in 1..K, p = K - (n + 1) PROVE \E f : ReadsFrom(f, t, p, K)
    BY <1>0
  <2>1. PICK r \in 1..K : r = p + 1 /\ r = K - n
    OBVIOUS
  <2>2. PICK f : ReadsFrom(f, t, r, K)
    <3>1. r \in 1..N + 2 /\ r = N + 2 - n
      BY <1>0, <2>1
    <3>2. \E f : ReadsFrom(f, t, r, N + 2)
      BY <1>2, <3>1, Zenon
    <3> QED
      BY <1>0, <3>2
  <2> HIDE DEF S
  <2>3. PICK v : v = ReadAt(t, f, p)
    OBVIOUS
  <2>4. PICK g : g = [q \in p..K |-> IF q = p THEN v ELSE f[q]]
    OBVIOUS
  <2>5. \A q \in r..K : g[q] = f[q] /\ f[q] = ReadAt(t, f, q)
    <3>1. \A q \in r..K : g[q] = f[q]
      BY <2>1, <2>4
    <3>2. \A q \in r..K : f[q] = ReadAt(t, f, q)
      BY <2>2 DEF ReadsFrom
    <3> QED
      BY <3>1, <3>2
  <2>6. ASSUME NEW q \in p..K PROVE g[q] = ReadAt(t, g, q)
    <3>1. Follows(f, g, q, N + 2)
      BY <1>0, <2>1, <2>5 DEF Follows
    <3>2. q \in 1..N + 2
      BY <1>0
    <3>3. ReadAt(t, f, q) = ReadAt(t, g, q)
      BY <3>1, <3>2, ReadAtAgrees
    <3>4. CASE q = p
      <4>1. g[p] = v
        BY <2>4
      <4> QED
        BY <2>3, <3>3, <3>4, <4>1
    <3>5. CASE q # p
      <4>1. q \in r..K
        BY <2>1, <3>5
      <4> QED
        BY <2>5, <3>3, <4>1
    <3> QED
      BY <3>4, <3>5
  <2>7. g = [q \in p..K |-> g[q]]
    BY <2>4
  <2>8. ReadsFrom(g, t, p, K)
    BY <2>6, <2>7 DEF ReadsFrom
  <2> QED
    BY <2>8
<1> HIDE DEF S
<1>3. Nat \subseteq S
  BY <1>1, <1>2, Induction
<1>4. PICK n \in S : n = N + 1
  BY <1>3
<1>5. 1 \in 1..N + 2 /\ 1 = N + 2 - n
  BY <1>4
<1> QED
  BY <1>4, <1>5, Zenon DEF S

LEMMA UnescapeIs ==
    ASSUME NEW t, Len(t) \in Nat
    PROVE  \E f : ReadsFrom(f, t, 1, Len(t) + 2) /\ UnescapeCEscapeSequences(t) = f[1]
<1>1. \E g : ReadsFrom(g, t, 1, Len(t) + 2)
  BY ReadsExist
<1>2. \E g : g = [p \in 1..(Len(t) + 2) |-> ReadAt(t, g, p)]
  BY <1>1, Zenon DEF ReadsFrom
<1> QED
  BY <1>2, Zenon DEF UnescapeCEscapeSequences, ReadsFrom, ReadAt, Octal, HexRun

-----------------------------------------------------------------------------
(* Each piece that is written is read as the byte it was written for       *)

Holds(t, q, p) == \A j \in 1..Len(p) : At(t, q + j - 1) = p[j] /\ t[q + j - 1] = p[j]
ReadsAt(t, R, q, n, c) == R[q] = << c >> \o R[q + n]

LEMMA ReadIs ==
    ASSUME NEW t, NEW N \in Nat, N = Len(t), NEW R, ReadsFrom(R, t, 1, N + 2), NEW q \in 1..N
    PROVE  R[q] = ReadAt(t, R, q)
<1>1. q \in 1..N + 2
  OBVIOUS
<1> QED
  BY <1>1 DEF ReadsFrom

LEMMA HexDigitIs ==
    ASSUME NEW i \in 0..15
    PROVE  HexDigit(i) \in HexDigits /\ hex_digit_to_int(HexDigit(i)) = i
<1>1. CASE i < 10
  <2>1. HexDigit(i) = 48 + i
    BY <1>1 DEF HexDigit, Zero
  <2>2. PICK a \in Nat : a = 48 + i /\ a <= 57 /\ a % 16 = i
    BY <1>1
  <2> QED
    BY <2>1, <2>2 DEF HexDigits, hex_digit_to_int
<1>2. CASE i >= 10
  <2>1. HexDigit(i) = 87 + i
    BY <1>2 DEF HexDigit, Zero
  <2>2. PICK a \in Nat : a = 87 + i /\ a > 57 /\ (a + 9) % 16 = i /\ a \in 97..102
    BY <1>2
  <2> QED
    BY <2>1, <2>2 DEF HexDigits, hex_digit_to_int
<1> QED
  BY <1>1, <1>2

LEMMA OctalDigitIs ==
    ASSUME NEW i \in 0..7
    PROVE  Zero + i \in OctalDigits /\ hex_digit_to_int(Zero + i) = i
BY DEF Zero, OctalDigits, hex_digit_to_int

OctalOf(c, k, m, n) ==
    /\ k \in 0..7 /\ m \in 0..7 /\ n \in 0..7 /\ k <= 3
    /\ k = c \div 64 /\ m = (c \div 8) % 8 /\ n = c % 8 /\ c = (8 * ((8 * k) + m)) + n
HexOf(c, k, m) ==
    k \in 0..15 /\ m \in 0..15 /\ k = c \div 16 /\ m = c % 16 /\ c = (16 * k) + m

LEMMA OctalParts == ASSUME NEW c \in Byte PROVE \E k, m, n : OctalOf(c, k, m, n)
<1>1. OctalOf(c, c \div 64, (c \div 8) % 8, c % 8)
  BY DigitsOfByte DEF OctalOf
<1> QED
  BY <1>1, Zenon

LEMMA HexParts == ASSUME NEW c \in Byte PROVE \E k, m : HexOf(c, k, m)
<1>1. HexOf(c, c \div 16, c % 16)
  BY DigitsOfByte DEF HexOf
<1> QED
  BY <1>1, Zenon

ReadAs(s, i) == hex_digit_to_int(s) = i
LEMMA OctalValue ==
    ASSUME NEW c, NEW k, NEW m, NEW n, OctalOf(c, k, m, n), NEW s, Len(s) = 3,
           ReadAs(s[1], k), ReadAs(s[2], m), ReadAs(s[3], n)
    PROVE  ByteOf(s, 8) = c
<1>1. k \in 0..3 /\ m \in 0..7 /\ n \in 0..7 /\ c = (8 * ((8 * k) + m)) + n
  BY DEF OctalOf
<1>2. hex_digit_to_int(s[1]) = k /\ hex_digit_to_int(s[2]) = m /\ hex_digit_to_int(s[3]) = n
  BY DEF ReadAs
<1>3. ByteOf(s, 8) = (8 * ((8 * k) + m)) + n
  BY <1>1, <1>2, ByteOfThree
<1> QED
  BY <1>1, <1>3, Zenon

LEMMA HexValue ==
    ASSUME NEW c, NEW k, NEW m, HexOf(c, k, m), NEW s, Len(s) = 2,
           ReadAs(s[1], k), ReadAs(s[2], m)
    PROVE  ByteOf(s, 16) = c
<1>1. k \in 0..15 /\ m \in 0..15 /\ c = (16 * k) + m
  BY DEF HexOf
<1>2. hex_digit_to_int(s[1]) = k /\ hex_digit_to_int(s[2]) = m
  BY DEF ReadAs
<1>3. ByteOf(s, 16) = (16 * k) + m
  BY <1>1, <1>2, ByteOfTwo
<1> QED
  BY <1>1, <1>3, Zenon

LEMMA LetterRead ==
    ASSUME NEW t, NEW N \in Nat, N = Len(t), NEW R, ReadsFrom(R, t, 1, N + 2),
           NEW c \in DOMAIN EscapeLetter, NEW q \in Nat \ {0}, q <= N,
           Holds(t, q, << Backslash, EscapeLetter[c] >>)
    PROVE  ReadsAt(t, R, q, 2, c)
<1>1. R[q] = ReadAt(t, R, q)
  <2>1. q \in 1..N
    OBVIOUS
  <2> QED
    BY <2>1, ReadIs
<1>2. At(t, q) = Backslash /\ t[q] = Backslash /\ At(t, q + 1) = EscapeLetter[c]
  <2>1. PICK p : p = << Backslash, EscapeLetter[c] >> /\ Len(p) = 2 /\ p[1] = Backslash
                 /\ p[2] = EscapeLetter[c]
    OBVIOUS
  <2>2. 1 \in 1..Len(p) /\ 2 \in 1..Len(p) /\ q + 1 - 1 = q /\ q + 2 - 1 = q + 1
    BY <2>1
  <2>3. \A j \in 1..Len(p) : At(t, q + j - 1) = p[j] /\ t[q + j - 1] = p[j]
    BY <2>1, Zenon DEF Holds
  <2>4. At(t, q + 1 - 1) = p[1] /\ t[q + 1 - 1] = p[1] /\ At(t, q + 2 - 1) = p[2]
    BY <2>2, <2>3, Zenon
  <2> QED
    BY <2>1, <2>2, <2>4, Zenon
<1>3. Backslash # 0
  BY DEF Backslash
<1>4. EscapeLetter[c] \in DOMAIN Unescaped /\ Unescaped[EscapeLetter[c]] = c
  BY LettersReadBack
<1> QED
  BY <1>1, <1>2, <1>3, <1>4, Zenon DEF ReadAt, ReadsAt

LEMMA ByteRead ==
    ASSUME NEW t, NEW N \in Nat, N = Len(t), NEW R, ReadsFrom(R, t, 1, N + 2),
           NEW c, c # 0, c # Backslash, NEW q \in Nat \ {0}, q <= N, Holds(t, q, << c >>)
    PROVE  ReadsAt(t, R, q, 1, c)
<1>1. R[q] = ReadAt(t, R, q)
  <2>1. q \in 1..N
    OBVIOUS
  <2> QED
    BY <2>1, ReadIs
<1>2. At(t, q) = c /\ t[q] = c
  <2>1. PICK p : p = << c >> /\ Len(p) = 1 /\ p[1] = c
    OBVIOUS
  <2>2. 1 \in 1..Len(p) /\ q + 1 - 1 = q
    BY <2>1
  <2>3. \A j \in 1..Len(p) : At(t, q + j - 1) = p[j] /\ t[q + j - 1] = p[j]
    BY <2>1, Zenon DEF Holds
  <2>4. At(t, q + 1 - 1) = p[1] /\ t[q + 1 - 1] = p[1]
    BY <2>2, <2>3, Zenon
  <2> QED
    BY <2>1, <2>2, <2>4, Zenon
<1> QED
  BY <1>1, <1>2, Zenon DEF ReadAt, ReadsAt

(* Four bytes at a place of a text.                                        *)
FourAt(t, q, a, b, c, d) ==
    /\ At(t, q) = a /\ At(t, q + 1) = b /\ At(t, q + 2) = c /\ At(t, q + 3) = d
    /\ t[q] = a /\ t[q + 1] = b /\ t[q + 2] = c /\ t[q + 3] = d
LEMMA FourHeld ==
    ASSUME NEW t, NEW q \in Nat, NEW a, NEW b, NEW c, NEW d, Holds(t, q, << a, b, c, d >>)
    PROVE  FourAt(t, q, a, b, c, d)
<1>1. PICK p : /\ p = << a, b, c, d >> /\ Len(p) = 4
               /\ p[1] = a /\ p[2] = b /\ p[3] = c /\ p[4] = d
  OBVIOUS
<1>2. /\ 1 \in 1..Len(p) /\ 2 \in 1..Len(p) /\ 3 \in 1..Len(p) /\ 4 \in 1..Len(p)
      /\ q + 1 - 1 = q /\ q + 2 - 1 = q + 1 /\ q + 3 - 1 = q + 2 /\ q + 4 - 1 = q + 3
  BY <1>1
<1>3. \A j \in 1..Len(p) : At(t, q + j - 1) = p[j] /\ t[q + j - 1] = p[j]
  BY <1>1, Zenon DEF Holds
<1>4. /\ At(t, q + 1 - 1) = p[1] /\ t[q + 1 - 1] = p[1]
      /\ At(t, q + 2 - 1) = p[2] /\ t[q + 2 - 1] = p[2]
      /\ At(t, q + 3 - 1) = p[3] /\ t[q + 3 - 1] = p[3]
      /\ At(t, q + 4 - 1) = p[4] /\ t[q + 4 - 1] = p[4]
  BY <1>2, <1>3, Zenon
<1> QED
  BY <1>1, <1>2, <1>4, Zenon DEF FourAt

LEMMA OctalRead ==
    ASSUME NEW t \in Seq(Byte), NEW N \in Nat, N = Len(t), NEW R, ReadsFrom(R, t, 1, N + 2),
           NEW c \in Byte, NEW q \in Nat \ {0}, q + 3 <= N, Holds(t, q, NumericEscape(c, FALSE))
    PROVE  ReadsAt(t, R, q, 4, c)
<1>1. R[q] = ReadAt(t, R, q)
  <2>1. q \in 1..N
    OBVIOUS
  <2> QED
    BY <2>1, ReadIs
<1>2. PICK k, m, n : OctalOf(c, k, m, n)
  BY OctalParts
<1>a. k \in 0..7 /\ m \in 0..7 /\ n \in 0..7 /\ k <= 3
  BY <1>2, Zenon DEF OctalOf
<1>3. NumericEscape(c, FALSE) = << Backslash, Zero + k, Zero + m, Zero + n >>
  BY <1>2, Zenon DEF NumericEscape, OctalOf
<1>4. FourAt(t, q, Backslash, Zero + k, Zero + m, Zero + n)
  BY <1>3, FourHeld
<1>5. PICK i, j, l : i = Zero + k /\ j = Zero + m /\ l = Zero + n
  OBVIOUS
<1>6. /\ i \in OctalDigits /\ hex_digit_to_int(i) = k
      /\ j \in OctalDigits /\ hex_digit_to_int(j) = m
      /\ l \in OctalDigits /\ hex_digit_to_int(l) = n
  BY <1>a, <1>5, OctalDigitIs
<1>7. FourAt(t, q, Backslash, i, j, l)
  BY <1>4, <1>5
<1>8. i \notin DOMAIN Unescaped /\ Backslash # 0
  <2>1. i \in 48..51
    BY <1>a, <1>5 DEF Zero
  <2> QED
    BY <2>1, UnescapedAre DEF Backslash
<1>9. Octal(t, q) = q + 3
  <2>1. PICK from \in Nat \ {0} : from = q + 1
    OBVIOUS
  <2>2. PICK r \in Int : r = q + 3 /\ from - 1 <= r /\ r <= from + 3 - 1 /\ r = from + 3 - 1
    BY <2>1
  <2>3. \A y \in from..r : y = q + 1 \/ y = q + 2 \/ y = q + 3
    BY <2>1, <2>2
  <2>4. IsRun(t, from, OctalDigits, r)
    BY <1>6, <1>7, <2>3, Zenon DEF IsRun, FourAt
  <2>5. 3 \in Nat
    OBVIOUS
  <2>6. LastOfRun(t, from, OctalDigits, 3) = r
    BY <2>2, <2>4, <2>5, RunExact
  <2> QED
    BY <2>1, <2>2, <2>6, Zenon DEF Octal
<1>10. ByteOf(SubSeq(t, q + 1, q + 3), 8) = c
  <2>1. PICK from \in Nat \ {0}, r \in Nat : from = q + 1 /\ r = q + 3
    OBVIOUS
  <2>2. PartOf(Byte, t, from, r)
    <3>1. r <= Len(t) /\ from <= r + 1
      BY <2>1
    <3> QED
      BY <3>1, SubIs
  <2>3. PICK s : s = SubSeq(t, from, r)
    OBVIOUS
  <2>4. Len(s) = 3 /\ s[1] = t[q + 1] /\ s[2] = t[q + 2] /\ s[3] = t[q + 3]
    <3>1. Len(s) = r - from + 1 /\ \A y \in 1..(r - from + 1) : s[y] = t[from + y - 1]
      BY <2>2, <2>3, Zenon DEF PartOf
    <3> QED
      BY <2>1, <3>1
  <2>5. s[1] = i /\ s[2] = j /\ s[3] = l
    BY <1>7, <2>4, Zenon DEF FourAt
  <2>6. ReadAs(s[1], k) /\ ReadAs(s[2], m) /\ ReadAs(s[3], n)
    BY <1>6, <2>5, Zenon DEF ReadAs
  <2>7. ByteOf(s, 8) = c
    BY <1>2, <2>4, <2>6, OctalValue
  <2> QED
    BY <2>1, <2>3, <2>7, Zenon
<1>11. (q + 3) + 1 = q + 4
  OBVIOUS
<1> QED
  BY <1>1, <1>6, <1>7, <1>8, <1>9, <1>10, <1>11, Zenon DEF ReadAt, ReadsAt, FourAt

LEMMA HexRead ==
    ASSUME NEW t \in Seq(Byte), NEW N \in Nat, N = Len(t), NEW R, ReadsFrom(R, t, 1, N + 2),
           NEW c \in Byte, NEW q \in Nat \ {0}, q + 3 <= N, Holds(t, q, NumericEscape(c, TRUE)),
           At(t, q + 4) \notin HexDigits
    PROVE  ReadsAt(t, R, q, 4, c)
<1>1. R[q] = ReadAt(t, R, q)
  <2>1. q \in 1..N
    OBVIOUS
  <2> QED
    BY <2>1, ReadIs
<1>2. PICK k, m : HexOf(c, k, m)
  BY HexParts
<1>a. k \in 0..15 /\ m \in 0..15
  BY <1>2, Zenon DEF HexOf
<1>3. NumericEscape(c, TRUE) = << Backslash, 120, HexDigit(k), HexDigit(m) >>
  BY <1>2, Zenon DEF NumericEscape, HexOf
<1>5. PICK i, j, l : i = 120 /\ j = HexDigit(k) /\ l = HexDigit(m)
  OBVIOUS
<1>6. j \in HexDigits /\ hex_digit_to_int(j) = k /\ l \in HexDigits /\ hex_digit_to_int(l) = m
  BY <1>a, <1>5, HexDigitIs
<1>7. FourAt(t, q, Backslash, i, j, l)
  BY <1>3, <1>5, FourHeld
<1>8. /\ i \notin DOMAIN Unescaped /\ i \notin OctalDigits /\ i \in {88, 120} /\ Backslash # 0
  BY <1>5, UnescapedAre DEF Zero, Backslash, OctalDigits
<1>9. HexRun(t, q) = q + 3
  <2>1. PICK from \in Nat \ {0} : from = q + 2
    OBVIOUS
  <2>2. PICK r \in Int : r = q + 3 /\ from - 1 <= r /\ r <= from + N - 1 /\ r + 1 = q + 4
    BY <2>1
  <2>3. \A y \in from..r : y = q + 2 \/ y = q + 3
    BY <2>1, <2>2
  <2>4. IsRun(t, from, HexDigits, r)
    BY <1>6, <1>7, <2>3, Zenon DEF IsRun, FourAt
  <2>5. At(t, r + 1) \notin HexDigits
    BY <2>2
  <2>6. LastOfRun(t, from, HexDigits, N) = r
    BY <2>2, <2>4, <2>5, RunExact
  <2> QED
    BY <2>1, <2>2, <2>6, Zenon DEF HexRun
<1>10. ByteOf(SubSeq(t, q + 2, q + 3), 16) = c
  <2>1. PICK from \in Nat \ {0}, r \in Nat : from = q + 2 /\ r = q + 3
    OBVIOUS
  <2>2. PartOf(Byte, t, from, r)
    <3>1. r <= Len(t) /\ from <= r + 1
      BY <2>1
    <3> QED
      BY <3>1, SubIs
  <2>3. PICK s : s = SubSeq(t, from, r)
    OBVIOUS
  <2>4. Len(s) = 2 /\ s[1] = t[q + 2] /\ s[2] = t[q + 3]
    <3>1. Len(s) = r - from + 1 /\ \A y \in 1..(r - from + 1) : s[y] = t[from + y - 1]
      BY <2>2, <2>3, Zenon DEF PartOf
    <3> QED
      BY <2>1, <3>1
  <2>5. s[1] = j /\ s[2] = l
    BY <1>7, <2>4, Zenon DEF FourAt
  <2>6. ReadAs(s[1], k) /\ ReadAs(s[2], m)
    BY <1>6, <2>5, Zenon DEF ReadAs
  <2>7. ByteOf(s, 16) = c
    BY <1>2, <2>4, <2>6, HexValue
  <2> QED
    BY <2>1, <2>3, <2>7, Zenon
<1>11. (q + 3) + 1 = q + 4 /\ q + 3 # q + 1
  OBVIOUS
<1> QED
  BY <1>1, <1>6, <1>7, <1>8, <1>9, <1>10, <1>11, ZenonT(40) DEF ReadAt, ReadsAt, FourAt

LEMMA PieceRead ==
    ASSUME NEW t \in Seq(Byte), NEW N \in Nat, N = Len(t), NEW R, ReadsFrom(R, t, 1, N + 2),
           NEW c \in Byte, NEW x \in BOOLEAN, NEW h \in BOOLEAN, NEW u \in BOOLEAN,
           NEW q \in Nat \ {0}, NEW n \in Nat, n = Len(Piece(c, x, h, u)), q + n <= N + 1,
           Holds(t, q, Piece(c, x, h, u)),
           HexAfter(c, x, h, u) => At(t, q + n) \notin HexDigits
    PROVE  ReadsAt(t, R, q, n, c)
<1>1. CASE c \in DOMAIN EscapeLetter
  <2>1. Piece(c, x, h, u) = << Backslash, EscapeLetter[c] >>
    BY <1>1, Zenon DEF Piece
  <2>2. n = 2 /\ q <= N
    BY <2>1
  <2>3. Holds(t, q, << Backslash, EscapeLetter[c] >>)
    BY <2>1
  <2>4. ReadsAt(t, R, q, 2, c)
    BY <1>1, <2>2, <2>3, LetterRead
  <2> QED
    BY <2>2, <2>4
<1>2. CASE c \notin DOMAIN EscapeLetter /\ ~MustEscape(c, x, u)
  <2>1. Piece(c, x, h, u) = << c >>
    BY <1>2, Zenon DEF Piece
  <2>2. n = 1 /\ q <= N
    BY <2>1
  <2>3. c # 0 /\ c # Backslash
    <3>1. c # Backslash
      BY <1>2, LettersAre DEF Backslash
    <3>2. MustEscape(0, x, u)
      BY DEF MustEscape, IsPrint
    <3> QED
      BY <1>2, <3>1, <3>2
  <2>4. Holds(t, q, << c >>)
    BY <2>1
  <2>5. ReadsAt(t, R, q, 1, c)
    BY <2>2, <2>3, <2>4, ByteRead
  <2> QED
    BY <2>2, <2>5
<1>3. CASE c \notin DOMAIN EscapeLetter /\ MustEscape(c, x, u)
  <2>1. Piece(c, x, h, u) = NumericEscape(c, h) /\ HexAfter(c, x, h, u) = h
    BY <1>3, Zenon DEF Piece, HexAfter
  <2>2. h = TRUE \/ h = FALSE
    OBVIOUS
  <2>3. n = 4 /\ q + 3 <= N
    <3>1. n = 4
      BY <2>1, <2>2, NumericEscapeIs
    <3> QED
      BY <3>1
  <2>4. CASE h = FALSE
    <3>1. Holds(t, q, NumericEscape(c, FALSE))
      BY <2>1, <2>4
    <3>2. ReadsAt(t, R, q, 4, c)
      BY <2>3, <3>1, OctalRead
    <3> QED
      BY <2>3, <3>2
  <2>5. CASE h = TRUE
    <3>1. Holds(t, q, NumericEscape(c, TRUE))
      BY <2>1, <2>5
    <3>2. At(t, q + 4) \notin HexDigits
      BY <2>1, <2>3, <2>5
    <3>3. ReadsAt(t, R, q, 4, c)
      BY <2>3, <3>1, <3>2, HexRead
    <3> QED
      BY <2>3, <3>3
  <2> QED
    BY <2>2, <2>4, <2>5
<1> QED
  BY <1>1, <1>2, <1>3

-----------------------------------------------------------------------------
(* The whole text is read back                                             *)

LEMMA WholeAlways ==
    ASSUME NEW s \in Seq(Byte), NEW room \in Nat, NEW h \in BOOLEAN, NEW u \in BOOLEAN, NEW f,
           NEW N \in Nat, N = Len(s), Scans(f, s, room, h, u, N), room >= 4 * N + 1
    PROVE  \A i \in 0..N : \E d, x : Whole(f, i, d, x)
<1> DEFINE S == {i \in Nat : i <= N => \E d, x : Whole(f, i, d, x)}
<1>1. 0 \in S
  <2>1. f[0] = State(<< >>, FALSE, TRUE)
    BY ScanBegins
  <2>2. << >> \in Seq(Byte) /\ Len(<< >>) <= 4 * 0 /\ FALSE \in BOOLEAN
    OBVIOUS
  <2>3. Whole(f, 0, << >>, FALSE)
    BY <2>1, <2>2, Zenon DEF Whole
  <2> QED
    BY <2>3, Zenon
<1>2. ASSUME NEW i \in Nat, i \in S PROVE i + 1 \in S
  <2> SUFFICES ASSUME i + 1 <= N PROVE \E d, x : Whole(f, i + 1, d, x)
    OBVIOUS
  <2>1. PICK k \in Nat : k = i + 1 /\ k <= N /\ i <= N
    OBVIOUS
  <2>2. PICK d, x : Whole(f, i, d, x)
    BY <1>2, <2>1
  <2>3. Adds(f, s, h, u, i, k, d, x)
    BY <2>1, <2>2, WholeAdds
  <2>4. \E d2, x2 : Whole(f, k, d2, x2)
    BY <2>3, Zenon DEF Adds
  <2> QED
    BY <2>1, <2>4, Zenon
<1> HIDE DEF S
<1>3. Nat \subseteq S
  BY <1>1, <1>2, Induction
<1>4. ASSUME NEW i \in 0..N PROVE \E d, x : Whole(f, i, d, x)
  <2>1. i \in S /\ i <= N
    BY <1>3
  <2> QED
    BY <2>1, Zenon DEF S
<1> QED
  BY <1>4

(* After a hex escape nothing begins with a hex digit.                     *)
LEMMA PieceBegins ==
    ASSUME NEW c \in Byte, NEW h \in BOOLEAN, NEW u \in BOOLEAN
    PROVE  Piece(c, TRUE, h, u)[1] \notin HexDigits
<1>0. Backslash \notin HexDigits
  BY DEF Backslash, HexDigits
<1>1. CASE c \in DOMAIN EscapeLetter
  <2>1. Piece(c, TRUE, h, u) = << Backslash, EscapeLetter[c] >>
    BY <1>1, Zenon DEF Piece
  <2>2. << Backslash, EscapeLetter[c] >>[1] = Backslash
    OBVIOUS
  <2> QED
    BY <1>0, <2>1, <2>2, Zenon
<1>2. CASE c \notin DOMAIN EscapeLetter /\ ~MustEscape(c, TRUE, u)
  <2>1. Piece(c, TRUE, h, u) = << c >>
    BY <1>2, Zenon DEF Piece
  <2>2. c \notin HexDigits
    BY <1>2 DEF MustEscape, HexDigits
  <2>3. << c >>[1] = c
    OBVIOUS
  <2> QED
    BY <2>1, <2>2, <2>3, Zenon
<1>3. CASE c \notin DOMAIN EscapeLetter /\ MustEscape(c, TRUE, u)
  <2>1. Piece(c, TRUE, h, u) = NumericEscape(c, h)
    BY <1>3, Zenon DEF Piece
  <2>2. NumericEscape(c, h)[1] = Backslash
    <3>1. CASE h = TRUE
      <4>1. NumericEscape(c, h) = << Backslash, 120, HexDigit(c \div 16), HexDigit(c % 16) >>
        BY <3>1, Zenon DEF NumericEscape
      <4> QED
        BY <4>1
    <3>2. CASE h = FALSE
      <4>1. NumericEscape(c, h)
                = << Backslash, Zero + c \div 64, Zero + ((c \div 8) % 8), Zero + (c % 8) >>
        BY <3>2, Zenon DEF NumericEscape
      <4> QED
        BY <4>1
    <3> QED
      BY <3>1, <3>2
  <2> QED
    BY <1>0, <2>1, <2>2
<1> QED
  BY <1>1, <1>2, <1>3

Prefix(t, d) == \A j \in 1..Len(d) : t[j] = d[j]
BackFrom(s, t, R, i, d, x) ==
    /\ Len(d) <= Len(t) /\ Prefix(t, d)
    /\ R[Len(d) + 1] = SubSeq(s, i + 1, Len(s))
    /\ x => At(t, Len(d) + 1) \notin HexDigits
AllBack(f, s, t, R, i) == \A d, x : Whole(f, i, d, x) => BackFrom(s, t, R, i, d, x)

LEMMA PlaceAfter ==
    ASSUME NEW l \in Nat, NEW n \in Nat, NEW N \in Nat, NEW q \in Nat, l + n <= N, q = l + 1,
           NEW j \in 1..n, NEW k \in Nat, k = l + j
    PROVE  k \in 1..l + n /\ k = q + j - 1 /\ ~ (k <= l) /\ k - l = j /\ ~ (k > N)
OBVIOUS

LEMMA SplitPrefix ==
    ASSUME NEW t \in Seq(Byte), NEW d \in Seq(Byte), NEW p \in Seq(Byte), Prefix(t, d \o p),
           Len(d \o p) <= Len(t), NEW q \in Nat, q = Len(d) + 1
    PROVE  Len(d) <= Len(t) /\ Prefix(t, d) /\ Holds(t, q, p)
<1>1. PICK N \in Nat, l \in Nat, n \in Nat : N = Len(t) /\ l = Len(d) /\ n = Len(p)
  BY LenProperties
<1>2. Len(d \o p) = l + n
  BY <1>1
<1>3. \A j \in 1..l + n : t[j] = (d \o p)[j]
  BY <1>2 DEF Prefix
<1>4. \A j \in 1..l + n : (d \o p)[j] = IF j <= l THEN d[j] ELSE p[j - l]
  BY <1>1
<1>5. Prefix(t, d)
  <2>1. \A j \in 1..l : j \in 1..l + n /\ j <= l
    OBVIOUS
  <2> QED
    BY <1>1, <1>3, <1>4, <2>1 DEF Prefix
<1>6. ASSUME NEW j \in 1..n PROVE At(t, q + j - 1) = p[j] /\ t[q + j - 1] = p[j]
  <2>0. l + n <= N /\ q = l + 1
    BY <1>1, <1>2
  <2>a. PICK k \in Nat : k = l + j
    OBVIOUS
  <2>1. k \in 1..l + n /\ k = q + j - 1 /\ ~ (k <= l) /\ k - l = j /\ ~ (k > N)
    BY <2>0, <2>a, PlaceAfter, SMTT(30)
  <2>2. t[k] = p[j]
    BY <1>3, <1>4, <2>1
  <2> QED
    BY <1>1, <2>1, <2>2 DEF At
<1> QED
  BY <1>1, <1>2, <1>5, <1>6 DEF Holds

LEMMA PutBefore ==
    ASSUME NEW V, NEW s \in Seq(V), NEW k \in 1..Len(s)
    PROVE  << s[k] >> \o SubSeq(s, k + 1, Len(s)) = SubSeq(s, k, Len(s))
<1>1. PICK N \in Nat : N = Len(s)
  BY LenProperties
<1>2. PartOf(V, s, k, N)
  <2>1. k \in Nat \ {0} /\ N <= Len(s) /\ k <= N + 1
    BY <1>1
  <2> QED
    BY <2>1, SubIs
<1>3. PICK m \in Nat \ {0} : m = k + 1
  OBVIOUS
<1>4. PartOf(V, s, m, N)
  <2>1. N <= Len(s) /\ m <= N + 1
    BY <1>1, <1>3
  <2> QED
    BY <2>1, SubIs
<1>5. PICK a, b, c : a = SubSeq(s, k, N) /\ b = SubSeq(s, m, N) /\ c = << s[k] >>
  OBVIOUS
<1>6. a \in Seq(V) /\ Len(a) = N - k + 1 /\ \A j \in 1..(N - k + 1) : a[j] = s[k + j - 1]
  BY <1>2, <1>5, Zenon DEF PartOf
<1>7. b \in Seq(V) /\ Len(b) = N - m + 1 /\ \A j \in 1..(N - m + 1) : b[j] = s[m + j - 1]
  BY <1>4, <1>5, Zenon DEF PartOf
<1>8. c \in Seq(V) /\ Len(c) = 1 /\ c[1] = s[k]
  <2>1. s[k] \in V
    BY ElementOfSeq
  <2> QED
    BY <1>5, <2>1
<1>9. PICK e : e = c \o b
  OBVIOUS
<1>10. /\ e \in Seq(V) /\ Len(e) = 1 + Len(b)
       /\ \A j \in 1..(1 + Len(b)) : e[j] = IF j <= 1 THEN c[j] ELSE b[j - 1]
  <2>1. /\ c \o b \in Seq(V) /\ Len(c \o b) = Len(c) + Len(b)
        /\ \A j \in 1..Len(c) + Len(b) : (c \o b)[j] = IF j <= Len(c) THEN c[j] ELSE b[j - Len(c)]
    BY <1>7, <1>8, ConcatProperties
  <2> QED
    BY <1>8, <1>9, <2>1
<1>11. Len(e) = Len(a)
  BY <1>1, <1>3, <1>6, <1>7, <1>10
<1>12. ASSUME NEW j \in 1..Len(e) PROVE e[j] = a[j]
  <2>1. j \in 1..(N - k + 1) /\ j \in 1..(1 + Len(b))
    BY <1>1, <1>6, <1>10, <1>11
  <2>2. CASE j = 1
    BY <1>6, <1>8, <1>10, <2>1, <2>2
  <2>3. CASE j # 1
    <3>1. PICK i \in 1..(N - m + 1) : i = j - 1 /\ m + i - 1 = k + j - 1 /\ ~ (j <= 1)
      BY <1>3, <2>1, <2>3
    <3> QED
      BY <1>6, <1>7, <1>10, <2>1, <3>1
  <2> QED
    BY <2>2, <2>3
<1>13. e = a
  BY <1>6, <1>10, <1>11, <1>12, SeqEqual
<1> QED
  BY <1>1, <1>3, <1>5, <1>9, <1>13, Zenon

PieceAt(t, q, n, c, x, h, u) ==
    /\ n = Len(Piece(c, x, h, u)) /\ q + n <= Len(t) + 1 /\ Holds(t, q, Piece(c, x, h, u))
    /\ HexAfter(c, x, h, u) => At(t, q + n) \notin HexDigits
LEMMA PieceReadAt ==
    ASSUME NEW t \in Seq(Byte), NEW R, ReadsFrom(R, t, 1, Len(t) + 2),
           NEW c \in Byte, NEW x \in BOOLEAN, NEW h \in BOOLEAN, NEW u \in BOOLEAN,
           NEW q \in Nat \ {0}, NEW n \in Nat, PieceAt(t, q, n, c, x, h, u)
    PROVE  ReadsAt(t, R, q, n, c)
<1>1. PICK N \in Nat : N = Len(t)
  BY LenProperties
<1>2. /\ n = Len(Piece(c, x, h, u)) /\ q + n <= N + 1 /\ Holds(t, q, Piece(c, x, h, u))
      /\ HexAfter(c, x, h, u) => At(t, q + n) \notin HexDigits
  BY <1>1, Zenon DEF PieceAt
<1>3. ReadsFrom(R, t, 1, N + 2)
  BY <1>1
<1> QED
  BY <1>1, <1>2, <1>3, PieceRead

LEMMA BackNext ==
    ASSUME NEW s \in Seq(Byte), NEW room \in Nat, NEW h \in BOOLEAN, NEW u \in BOOLEAN, NEW f,
           NEW N \in Nat, N = Len(s), Scans(f, s, room, h, u, N), room >= 4 * N + 1,
           NEW t \in Seq(Byte), NEW R, ReadsFrom(R, t, 1, Len(t) + 2),
           NEW i \in Nat, NEW k \in Nat, k = i + 1, k <= N, AllBack(f, s, t, R, k),
           NEW d, NEW x, Whole(f, i, d, x)
    PROVE  BackFrom(s, t, R, i, d, x)
<1>1. d \in Seq(Byte) /\ x \in BOOLEAN
  BY Zenon DEF Whole
<1>2. Adds(f, s, h, u, i, k, d, x)
  BY WholeAdds
<1>3. PICK c, p, z : c = s[k] /\ p = Piece(s[k], x, h, u) /\ z = HexAfter(s[k], x, h, u)
  OBVIOUS
<1>4. /\ p \in Seq(Byte) /\ Len(p) \in {1, 2, 4}
      /\ Whole(f, k, d \o p, z) /\ Len(d \o p) = Len(d) + Len(p)
  BY <1>2, <1>3, Zenon DEF Adds
<1>5. BackFrom(s, t, R, k, d \o p, z)
  BY <1>4, Zenon DEF AllBack
<1>6. /\ Len(d \o p) <= Len(t) /\ Prefix(t, d \o p)
      /\ R[Len(d \o p) + 1] = SubSeq(s, k + 1, Len(s))
      /\ z => At(t, Len(d \o p) + 1) \notin HexDigits
  BY <1>5, Zenon DEF BackFrom
<1>a. PICK T \in Nat : T = Len(t)
  BY LenProperties
<1>b. PICK n \in Nat : n = Len(p) /\ n \in {1, 2, 4}
  BY <1>4
<1>c. PICK l \in Nat : l = Len(d)
  BY <1>1, LenProperties
<1>d. PICK q \in Nat \ {0} : q = l + 1
  OBVIOUS
<1>7. q = Len(d) + 1 /\ n = Len(p) /\ T = Len(t) /\ q + n = Len(d \o p) + 1
  BY <1>4, <1>a, <1>b, <1>c, <1>d
<1>8. c \in Byte /\ k \in 1..Len(s)
  <2>1. k \in 1..Len(s)
    OBVIOUS
  <2> QED
    BY <1>3, <2>1, ElementOfSeq
<1>9. Len(d) <= Len(t) /\ Prefix(t, d) /\ Holds(t, q, p)
  BY <1>1, <1>4, <1>6, <1>7, SplitPrefix
<1>10. ReadsAt(t, R, q, n, c)
  <2>1. n = Len(Piece(c, x, h, u)) /\ q + n <= Len(t) + 1 /\ Holds(t, q, Piece(c, x, h, u))
    <3>1. n = Len(Piece(c, x, h, u)) /\ Holds(t, q, Piece(c, x, h, u))
      BY <1>3, <1>7, <1>9, Zenon
    <3>2. q + n <= Len(t) + 1
      BY <1>6, <1>7, <1>a, <1>b, <1>c, <1>d, <1>4
    <3> QED
      BY <3>1, <3>2
  <2>2. HexAfter(c, x, h, u) => At(t, q + n) \notin HexDigits
    BY <1>3, <1>6, <1>7, Zenon
  <2>3. PieceAt(t, q, n, c, x, h, u)
    BY <2>1, <2>2, Zenon DEF PieceAt
  <2>4. c \in Byte /\ x \in BOOLEAN
    BY <1>1, <1>8
  <2> QED
    BY <2>3, <2>4, PieceReadAt
<1>11. R[q] = << c >> \o R[q + n]
  BY <1>10, Zenon DEF ReadsAt
<1>12. R[q + n] = SubSeq(s, k + 1, Len(s))
  BY <1>6, <1>7, Zenon
<1>13. << s[k] >> \o SubSeq(s, k + 1, Len(s)) = SubSeq(s, k, Len(s))
  BY <1>8, PutBefore
<1>14. R[Len(d) + 1] = SubSeq(s, i + 1, Len(s))
  BY <1>3, <1>7, <1>11, <1>12, <1>13, Zenon
<1>15. ASSUME x PROVE At(t, Len(d) + 1) \notin HexDigits
  <2>1. p = Piece(c, TRUE, h, u)
    BY <1>1, <1>3, <1>15, Zenon
  <2>2. p[1] \notin HexDigits
    BY <1>8, <2>1, PieceBegins
  <2>3. 1 \in 1..Len(p) /\ q + 1 - 1 = q
    <3>1. 1 \in 1..n /\ q + 1 - 1 = q
      BY <1>b
    <3> QED
      BY <1>7, <3>1
  <2>4. At(t, q + 1 - 1) = p[1]
    BY <1>9, <2>3, Zenon DEF Holds
  <2> QED
    BY <1>7, <2>2, <2>3, <2>4, Zenon
<1> QED
  BY <1>9, <1>14, <1>15, Zenon DEF BackFrom

LEMMA BackAtEnd ==
    ASSUME NEW s \in Seq(Byte), NEW f, NEW N \in Nat, N = Len(s), NEW t \in Seq(Byte), NEW y, NEW R,
           f[N] = State(t, y, TRUE), ReadsFrom(R, t, 1, Len(t) + 2),
           NEW d, NEW x, Whole(f, N, d, x)
    PROVE  BackFrom(s, t, R, N, d, x)
<1>1. PICK b : b = f[N]
  OBVIOUS
<1>2. Parts(b, t, y, TRUE) /\ Parts(b, d, x, TRUE)
  <2>1. b = State(t, y, TRUE) /\ b = State(d, x, TRUE)
    BY <1>1, Zenon DEF Whole
  <2> QED
    BY <2>1, StateIs, Zenon
<1>3. d = t
  BY <1>2, Zenon DEF Parts
<1>4. PICK T \in Nat : T = Len(t)
  BY LenProperties
<1>5. At(t, T + 1) = 0
  BY <1>4 DEF At
<1>6. R[T + 1] = << >>
  <2>1. T + 1 \in 1..T + 2
    OBVIOUS
  <2>2. R[T + 1] = ReadAt(t, R, T + 1)
    BY <1>4, <2>1 DEF ReadsFrom
  <2> QED
    BY <1>5, <2>2, Zenon DEF ReadAt
<1>7. SubSeq(s, N + 1, N) = << >>
  <2>1. PICK m \in Nat \ {0} : m = N + 1 /\ N - m + 1 = 0 /\ N <= Len(s) /\ m <= N + 1
    OBVIOUS
  <2>2. PartOf(Byte, s, m, N)
    BY <2>1, SubIs
  <2>3. SubSeq(s, m, N) \in Seq(Byte) /\ Len(SubSeq(s, m, N)) = 0
    BY <2>1, <2>2, Zenon DEF PartOf
  <2>4. SubSeq(s, m, N) = << >>
    BY <2>3, EmptySeq
  <2> QED
    BY <2>1, <2>4
<1>8. Len(d) <= Len(t)
  BY <1>3, <1>4
<1>9. Prefix(t, d)
  BY <1>3, Zenon DEF Prefix
<1>10. At(t, T + 1) \notin HexDigits
  BY <1>5, NoDigitsAtEnd
<1> QED
  BY <1>3, <1>4, <1>6, <1>7, <1>8, <1>9, <1>10, Zenon DEF BackFrom

LEMMA BackAlways ==
    ASSUME NEW s \in Seq(Byte), NEW room \in Nat, NEW h \in BOOLEAN, NEW u \in BOOLEAN, NEW f,
           NEW N \in Nat, N = Len(s), Scans(f, s, room, h, u, N), room >= 4 * N + 1,
           NEW t \in Seq(Byte), NEW y, f[N] = State(t, y, TRUE),
           NEW R, ReadsFrom(R, t, 1, Len(t) + 2)
    PROVE  AllBack(f, s, t, R, 0)
<1> DEFINE S == {n \in Nat : \A i \in 0..N : i = N - n => AllBack(f, s, t, R, i)}
<1>1. 0 \in S
  <2>1. AllBack(f, s, t, R, N)
    BY BackAtEnd, Zenon DEF AllBack
  <2> QED
    BY <2>1
<1>2. ASSUME NEW n \in Nat, n \in S PROVE n + 1 \in S
  <2> SUFFICES ASSUME NEW i \in 0..N, i = N - (n + 1) PROVE AllBack(f, s, t, R, i)
    OBVIOUS
  <2>a. PICK k \in Nat : k = i + 1
    <3>1. i + 1 \in Nat
      OBVIOUS
    <3> QED
      BY <3>1, Zenon
  <2>1. k = i + 1 /\ k <= N /\ k \in 0..N /\ k = N - n
    BY <2>a
  <2>2. AllBack(f, s, t, R, k)
    BY <1>2, <2>1, Zenon
  <2> HIDE DEF S
  <2>3. ASSUME NEW d, NEW x, Whole(f, i, d, x) PROVE BackFrom(s, t, R, i, d, x)
    <3>1. i \in Nat
      OBVIOUS
    <3> QED
      BY <2>1, <2>2, <2>3, <3>1, BackNext, SMTT(30)
  <2> QED
    BY <2>3, Zenon DEF AllBack
<1> HIDE DEF S
<1>3. Nat \subseteq S
  BY <1>1, <1>2, Induction
<1>4. N \in S /\ 0 \in 0..N /\ 0 = N - N
  BY <1>3
<1> QED
  BY <1>4, Zenon DEF S

ReadBack(s, h, u) ==
    LET escaped == CEscapeInternal(s, MaximumExpansion(s), h, u)
    IN  escaped.fits /\ UnescapeCEscapeSequences(escaped.dest) = s

(* Whatever bytes a text consists of, it fits into a buffer of the largest *)
(* expansion when it is escaped, in octal or in hex, UTF-8 left alone or   *)
(* not, and UnescapeCEscapeSequences gives the same bytes again.           *)
THEOREM EscapesReadBackCorrect ==
    \A s \in Seq(0..255), useHex \in BOOLEAN, utf8Safe \in BOOLEAN :
        ReadBack(s, useHex, utf8Safe)
<1> SUFFICES ASSUME NEW s \in Seq(Byte), NEW h \in BOOLEAN, NEW u \in BOOLEAN
             PROVE  ReadBack(s, h, u)
  BY Zenon DEF Byte
<1>1. PICK N \in Nat : N = Len(s)
  BY LenProperties
<1>2. PICK most \in Nat : most = MaximumExpansion(s) /\ most >= 4 * N + 1
  BY <1>1 DEF MaximumExpansion
<1>3. PICK f : /\ Scans(f, s, most, h, u, N)
               /\ CEscapeInternal(s, most, h, u) = Returned(f[N], most)
  BY <1>1, CEscapeIs
<1>4. PICK t, y : Whole(f, N, t, y)
  <2>1. N \in 0..N
    OBVIOUS
  <2> QED
    BY <1>1, <1>2, <1>3, <2>1, WholeAlways
<1>5. t \in Seq(Byte) /\ y \in BOOLEAN /\ f[N] = State(t, y, TRUE) /\ Len(t) <= 4 * N
  BY <1>4, Zenon DEF Whole
<1>6. PICK escaped : escaped = CEscapeInternal(s, most, h, u)
  OBVIOUS
<1>7. Returns(escaped, t, TRUE, most)
  BY <1>3, <1>5, <1>6, ReturnedIs
<1>8. Len(t) \in Nat /\ most > Len(t)
  BY <1>2, <1>5, LenProperties
<1>9. escaped.dest = t /\ escaped.fits
  BY <1>7, <1>8, Zenon DEF Returns
<1>10. PICK R : ReadsFrom(R, t, 1, Len(t) + 2) /\ UnescapeCEscapeSequences(t) = R[1]
  BY <1>8, UnescapeIs
<1>11. AllBack(f, s, t, R, 0)
  BY <1>1, <1>2, <1>3, <1>5, <1>10, BackAlways
<1>12. Whole(f, 0, << >>, FALSE)
  <2>1. f[0] = State(<< >>, FALSE, TRUE)
    BY <1>3, ScanBegins
  <2>2. << >> \in Seq(Byte) /\ Len(<< >>) <= 4 * 0 /\ FALSE \in BOOLEAN
    OBVIOUS
  <2> QED
    BY <2>1, <2>2, Zenon DEF Whole
<1>13. R[Len(<< >>) + 1] = SubSeq(s, 0 + 1, Len(s))
  BY <1>11, <1>12, Zenon DEF AllBack, BackFrom
<1>14. Len(<< >>) + 1 = 1 /\ 0 + 1 = 1
  OBVIOUS
<1>15. SubSeq(s, 1, Len(s)) = s
  BY SubSeqFull
<1> QED
  BY <1>2, <1>6, <1>9, <1>10, <1>13, <1>14, <1>15, Zenon DEF ReadBack

-----------------------------------------------------------------------------
LEMMA Widened ==
    ASSUME NEW A, NEW V, A \subseteq V, NEW s \in Seq(A)
    PROVE  s \in Seq(V)
<1>1. Len(s) \in Nat /\ \A i \in 1..Len(s) : s[i] \in V
  BY LenProperties, ElementOfSeq
<1>2. s = [i \in 1..Len(s) |-> s[i]]
  BY LenProperties
<1>3. [i \in 1..Len(s) |-> s[i]] \in Seq(V)
  BY <1>1, IsASeq
<1> QED
  BY <1>2, <1>3, Zenon

LEMMA TextInvariant == Spec => [](text \in Seq(Alphabet))
<1> DEFINE Inv == text \in Seq(Alphabet)
<1>1. Init => Inv
  BY DEF Init
<1>2. Inv /\ [Next]_vars => Inv'
  <2> SUFFICES ASSUME Inv, [Next]_vars PROVE Inv'
    OBVIOUS
  <2>1. CASE Type
    <3>1. PICK c \in Alphabet : text' = Append(text, c)
      BY <2>1, Zenon DEF Type
    <3> QED
      BY <3>1
  <2>2. CASE Count
    BY <2>2 DEF Count
  <2>3. CASE Build
    BY <2>3 DEF Build
  <2>4. CASE UNCHANGED vars
    BY <2>4 DEF vars
  <2> QED
    BY <2>1, <2>2, <2>3, <2>4 DEF Next
<1> QED
  BY <1>1, <1>2, PTL DEF Spec

(* Texts of any length over any alphabet of bytes are read back as they    *)
(* were, however they were escaped, and never overrun a buffer             *)
(* (CEscapeInternal and UnescapeCEscapeSequences of strutil.cc).           *)
THEOREM EscapesExactCorrect == Spec => []EscapesExact
<1>1. text \in Seq(Alphabet) => EscapesExact
  <2> SUFFICES ASSUME text \in Seq(Alphabet) PROVE EscapesExact
    OBVIOUS
  <2>1. PICK s : s = text
    OBVIOUS
  <2>2. s \in Seq(0..255)
    <3>1. Alphabet \subseteq 0..255
      BY BytesAssumption
    <3>2. PICK V : V = 0..255
      OBVIOUS
    <3>3. s \in Seq(V)
      <4>1. Alphabet \subseteq V /\ text \in Seq(Alphabet)
        BY <3>1, <3>2
      <4>2. text \in Seq(V)
        BY <4>1, Widened
      <4> QED
        BY <2>1, <4>2
    <3> QED
      BY <3>2, <3>3
  <2>3. ReadBack(s, FALSE, FALSE) /\ ReadBack(s, FALSE, TRUE) /\ ReadBack(s, TRUE, FALSE)
    BY <2>2, EscapesReadBackCorrect, Zenon
  <2>4. EscapesReadBack
    BY <2>1, <2>3, Zenon DEF EscapesReadBack, ReadBack, CEscape, CHexEscape, Utf8SafeCEscape
  <2>5. ASSUME NEW h \in BOOLEAN, NEW room \in Nat PROVE Buffered(s, room, h, FALSE)
    BY <2>2, EscapesFitCorrect, Zenon
  <2>6. EscapesFit
    <3> SUFFICES ASSUME NEW h \in BOOLEAN, NEW whole,
                        whole = CEscapeInternal(text, MaximumExpansion(text), h, FALSE),
                        NEW room \in 0..(Len(whole.dest) + 1)
                 PROVE  LET into == CEscapeInternal(text, room, h, FALSE)
                        IN  Len(into.dest) <= room /\ (into.fits <=> room > Len(whole.dest))
      BY Zenon DEF EscapesFit
    <3>1. room \in Nat
      OBVIOUS
    <3> QED
      BY <2>1, <2>5, <3>1, Zenon DEF Buffered
  <2> QED
    BY <2>4, <2>6 DEF EscapesExact
<1> QED
  BY <1>1, TextInvariant, PTL

-----------------------------------------------------------------------------
(* White space taken from both sides                                       *)

Blank(s) == \A i \in DOMAIN s : IsSpace(s[i])
(* What StripsBothSides says of a text. *)
Stripped(s) ==
    LET stripped == StripWhitespace(s)
    IN  /\ \E i \in 0..Len(s), j \in 0..Len(s) :
               /\ i <= j /\ stripped = SubSeq(s, i + 1, j)
               /\ Blank(SubSeq(s, 1, i)) /\ Blank(SubSeq(s, j + 1, Len(s)))
        /\ stripped # << >> => ~IsSpace(Head(stripped)) /\ ~IsSpace(Last(stripped))

LEMMA SubNone ==
    ASSUME NEW t, NEW p \in Nat, NEW q \in Nat, q < p
    PROVE  SubSeq(t, p, q) = << >>
BY SubSeqEmpty

LEMMA FirstInIs ==
    ASSUME NEW S, S \subseteq Nat \ {0}
    PROVE  \/ S = {} /\ FirstIn(S) = 0
           \/ FirstIn(S) \in S /\ FirstIn(S) # 0 /\ \A x \in S : FirstIn(S) <= x
<1>1. CASE S = {}
  BY <1>1, Zenon DEF FirstIn
<1>2. CASE S # {}
  <2>1. S \in SUBSET Nat /\ S \subseteq Int
    OBVIOUS
  <2>2. PICK n \in S : \A k \in S : n <= k
    BY <1>2, <2>1, LeastExists
  <2>3. Min(S) = n
    BY <2>1, <2>2, MinIs
  <2>4. FirstIn(S) = n
    BY <1>2, <2>3, Zenon DEF FirstIn
  <2>5. n # 0
    BY <2>2
  <2> QED
    BY <2>2, <2>4, <2>5
<1> QED
  BY <1>1, <1>2

LEMMA NoneBlank == ASSUME NEW t, NEW p \in Nat, NEW q \in Nat, q < p PROVE Blank(SubSeq(t, p, q))
<1>1. SubSeq(t, p, q) = << >>
  BY SubNone
<1>2. DOMAIN << >> = {}
  OBVIOUS
<1> QED
  BY <1>1, <1>2, Zenon DEF Blank

LEMMA SpaceBlank ==
    ASSUME NEW V, NEW s \in Seq(V), NEW p \in Nat \ {0}, NEW q \in Nat, q <= Len(s),
           \A k \in p..q : IsSpace(s[k])
    PROVE  Blank(SubSeq(s, p, q))
<1>1. CASE q < p
  BY <1>1, NoneBlank
<1>2. CASE p <= q
  <2>1. PartOf(V, s, p, q)
    BY <1>2, SubIs
  <2>2. PICK u : u = SubSeq(s, p, q)
    OBVIOUS
  <2>3. /\ u \in Seq(V) /\ Len(u) = q - p + 1
        /\ \A k \in 1..(q - p + 1) : u[k] = s[p + k - 1]
    BY <2>1, <2>2, Zenon DEF PartOf
  <2>4. DOMAIN u = 1..(q - p + 1)
    BY <2>3
  <2>5. ASSUME NEW k \in 1..(q - p + 1) PROVE IsSpace(u[k])
    <3>1. p + k - 1 \in p..q
      OBVIOUS
    <3> QED
      BY <2>3, <3>1, Zenon
  <2> QED
    BY <2>2, <2>4, <2>5, Zenon DEF Blank
<1> QED
  BY <1>1, <1>2

(* White space is taken from both sides of any text, all of it and nothing  *)
(* else (StripWhitespace of strutil.cc).                                    *)
THEOREM StripsBothSidesOfAny == \A s \in Seq(0..255) : Stripped(s)
<1> SUFFICES ASSUME NEW s \in Seq(Byte) PROVE Stripped(s)
  BY Zenon DEF Byte
<1>1. PICK N \in Nat : N = Len(s)
  BY LenProperties
<1>2. PICK F : F = {i \in 1..N : ~IsSpace(s[i])}
  OBVIOUS
<1>3. PICK first : first = FirstIn(F)
  OBVIOUS
<1>4. F \subseteq Nat \ {0}
  BY <1>2
<1>5. CASE F = {}
  <2>1. first = 0
    BY <1>3, <1>5, Zenon DEF FirstIn
  <2>2. StripWhitespace(s) = << >>
    BY <1>1, <1>2, <1>3, <2>1, Zenon DEF StripWhitespace
  <2>3. SubSeq(s, 0 + 1, 0) = << >>
    BY SubNone
  <2>4. Blank(SubSeq(s, 1, 0)) /\ Blank(SubSeq(s, 0 + 1, N))
    <3>1. Blank(SubSeq(s, 1, 0))
      BY NoneBlank
    <3>2. \A k \in 1..N : IsSpace(s[k])
      BY <1>2, <1>5
    <3>3. Blank(SubSeq(s, 1, N))
      BY <1>1, <3>2, SpaceBlank
    <3>4. 0 + 1 = 1
      OBVIOUS
    <3> QED
      BY <3>1, <3>3, <3>4, Zenon
  <2>5. 0 \in 0..N /\ 0 <= 0
    OBVIOUS
  <2> QED
    BY <1>1, <2>2, <2>3, <2>4, <2>5, Zenon DEF Stripped
<1>6. CASE F # {}
  <2>1. first \in F /\ first # 0 /\ \A x \in F : first <= x
    BY <1>3, <1>4, <1>6, FirstInIs
  <2>2. first \in 1..N /\ ~IsSpace(s[first])
    BY <1>2, <2>1
  <2>3. PICK L : L = {i \in first..N : ~IsSpace(s[i])}
    OBVIOUS
  <2>4. L \in SUBSET Nat /\ L # {} /\ \A x \in L : x <= N
    BY <2>2, <2>3
  <2>5. PICK last : last = Max(L)
    OBVIOUS
  <2>6. last \in L /\ \A x \in L : x <= last
    BY <2>4, <2>5, GreatestIs
  <2>7. last \in first..N /\ ~IsSpace(s[last])
    BY <2>3, <2>6
  <2>8. PICK u : u = SubSeq(s, first, last)
    OBVIOUS
  <2>9. StripWhitespace(s) = u
    BY <1>1, <1>2, <1>3, <2>1, <2>3, <2>5, <2>8, Zenon DEF StripWhitespace
  <2>10. PICK i \in Nat : i = first - 1
    BY <2>2
  <2>11. i + 1 = first /\ i \in 0..N /\ last \in 0..N /\ i <= last
    BY <2>2, <2>7, <2>10
  <2>12. Blank(SubSeq(s, 1, i))
    <3>1. \A k \in 1..i : IsSpace(s[k])
      BY <1>2, <2>1, <2>2, <2>10
    <3>2. i <= Len(s)
      BY <1>1, <2>11
    <3> QED
      BY <3>1, <3>2, SpaceBlank
  <2>13. Blank(SubSeq(s, last + 1, N))
    <3>1. PICK p \in Nat \ {0} : p = last + 1
      BY <2>2, <2>7
    <3>2. \A k \in p..N : IsSpace(s[k])
      BY <2>2, <2>3, <2>6, <2>7, <3>1
    <3>3. Blank(SubSeq(s, p, N))
      BY <1>1, <3>2, SpaceBlank
    <3> QED
      BY <3>1, <3>3
  <2>14. ~IsSpace(Head(u)) /\ ~IsSpace(Last(u))
    <3>1. PICK q \in Nat : q = last - first + 1
      BY <2>2, <2>7
    <3>2. PartOf(Byte, s, first, last)
      BY <1>1, <2>2, <2>7, SubIs
    <3>3. /\ u \in Seq(Byte) /\ Len(u) = last - first + 1
          /\ \A k \in 1..(last - first + 1) : u[k] = s[first + k - 1]
      BY <2>8, <3>2, Zenon DEF PartOf
    <3>4. q \in 1..(last - first + 1) /\ 1 \in 1..(last - first + 1) /\ first + q - 1 = last /\ first + 1 - 1 = first
      BY <2>2, <2>7, <3>1
    <3>5. u[q] = s[last] /\ u[1] = s[first]
      BY <3>3, <3>4, Zenon
    <3>6. Last(u) = u[q]
      BY <3>1, <3>3, Zenon DEF Last
    <3>7. Head(u) = u[1]
      BY <3>3, <3>4
    <3> QED
      BY <2>2, <2>7, <3>5, <3>6, <3>7, Zenon
  <2> QED
    BY <1>1, <2>8, <2>9, <2>11, <2>12, <2>13, <2>14, Zenon DEF Stripped
<1> QED
  BY <1>5, <1>6

-----------------------------------------------------------------------------
(* One recursion for both loops that split                                 *)

(* The end of the run of bytes that are no delimiters from p on. *)
Ends(t, chars, p) == {q \in (p + 1)..(Len(t) + 1) : q > Len(t) \/ t[q] \in chars}
RunEnd(t, chars, p) == Min(Ends(t, chars, p))
SplitStep(W, t, chars, p) ==
    IF p > Len(t) THEN << >>
    ELSE IF t[p] \in chars THEN W[p + 1]
    ELSE << SubSeq(t, p, RunEnd(t, chars, p) - 1) >> \o W[RunEnd(t, chars, p)]
SplitsFrom(W, t, chars) == \A p \in 1..(Len(t) + 1) : W[p] = SplitStep(W, t, chars, p)

IsRunEnd(t, chars, p, e) ==
    /\ e \in Nat /\ p < e /\ e <= Len(t) + 1
    /\ e <= Len(t) => t[e] \in chars
    /\ \A k \in Nat : (p < k /\ k < e) => t[k] \notin chars

LEMMA RunEndIs ==
    ASSUME NEW V, NEW t \in Seq(V), NEW chars, NEW p \in Nat, p <= Len(t)
    PROVE  IsRunEnd(t, chars, p, RunEnd(t, chars, p))
<1>1. PICK N \in Nat : N = Len(t)
  BY LenProperties
<1>2. PICK S : S = Ends(t, chars, p)
  OBVIOUS
<1>3. S = {q \in (p + 1)..(N + 1) : q > N \/ t[q] \in chars}
  BY <1>1, <1>2, Zenon DEF Ends
<1>4. N + 1 \in S /\ S \in SUBSET Nat /\ S \subseteq Int
  BY <1>1, <1>3
<1>5. PICK e \in S : \A k \in S : e <= k
  BY <1>4, LeastExists
<1>6. Min(S) = e
  BY <1>4, <1>5, MinIs
<1>7. e = RunEnd(t, chars, p)
  BY <1>2, <1>6, Zenon DEF RunEnd
<1>8. e \in Nat /\ p < e /\ e <= N + 1 /\ (e <= N => t[e] \in chars)
  BY <1>3, <1>5
<1>9. ASSUME NEW k \in Nat, p < k, k < e PROVE t[k] \notin chars
  <2>1. k \notin S
    BY <1>5, <1>8, <1>9
  <2>2. k \in (p + 1)..(N + 1)
    BY <1>8, <1>9
  <2> QED
    BY <1>3, <2>1, <2>2
<1> QED
  BY <1>1, <1>7, <1>8, <1>9, Zenon DEF IsRunEnd

LEMMA RunEndOnly ==
    ASSUME NEW t, NEW N \in Nat, N = Len(t), NEW chars, NEW p \in Nat, NEW e, NEW d,
           IsRunEnd(t, chars, p, e), IsRunEnd(t, chars, p, d)
    PROVE  e = d
<1>1. /\ e \in Nat /\ p < e /\ e <= N + 1 /\ (e <= N => t[e] \in chars)
      /\ \A k \in Nat : (p < k /\ k < e) => t[k] \notin chars
  BY Zenon DEF IsRunEnd
<1>2. /\ d \in Nat /\ p < d /\ d <= N + 1 /\ (d <= N => t[d] \in chars)
      /\ \A k \in Nat : (p < k /\ k < d) => t[k] \notin chars
  BY Zenon DEF IsRunEnd
<1>3. ~(e < d)
  BY <1>1, <1>2
<1>4. ~(d < e)
  BY <1>1, <1>2
<1> QED
  BY <1>1, <1>2, <1>3, <1>4

(* A function on 1..K each of whose values is made of a later one, or is   *)
(* given; it exists whatever the values.                                   *)
Link(f, next, value, skips, p) ==
    IF next[p] = 0 THEN value[p]
    ELSE IF p \in skips THEN f[next[p]]
    ELSE value[p] \o f[next[p]]
LinksFrom(f, next, value, skips, b, K) == \A p \in b..K : f[p] = Link(f, next, value, skips, p)
Linked(f, next, value, skips, K) == f = [p \in 1..K |-> Link(f, next, value, skips, p)]
Forward(next, K) == \A p \in 1..K : next[p] = 0 \/ next[p] \in (p + 1)..K

LEMMA LinkAgrees ==
    ASSUME NEW f, NEW g, NEW next, NEW value, NEW skips, NEW K \in Nat, NEW p \in 1..K,
           Forward(next, K), \A q \in (p + 1)..K : f[q] = g[q]
    PROVE  Link(f, next, value, skips, p) = Link(g, next, value, skips, p)
<1>1. CASE next[p] = 0
  BY <1>1, Zenon DEF Link
<1>2. CASE next[p] # 0
  <2>1. next[p] \in (p + 1)..K
    BY <1>2, Zenon DEF Forward
  <2>2. f[next[p]] = g[next[p]]
    BY <2>1, Zenon
  <2> QED
    BY <1>2, <2>2, Zenon DEF Link
<1> QED
  BY <1>1, <1>2

LEMMA LinksExist ==
    ASSUME NEW next, NEW value, NEW skips, NEW K \in Nat, Forward(next, K)
    PROVE  \E f : Linked(f, next, value, skips, K)
<1> DEFINE S == {n \in Nat : \A b \in Nat \ {0} :
                     b = K + 1 - n => \E f : LinksFrom(f, next, value, skips, b, K)}
<1>1. 0 \in S
  <2>1. \A b \in Nat \ {0} : b = K + 1 - 0 => b..K = {}
    OBVIOUS
  <2>2. \A b : b..K = {} => LinksFrom(next, next, value, skips, b, K)
    BY Zenon DEF LinksFrom
  <2>3. \A b \in Nat \ {0} : b = K + 1 - 0 => \E f : LinksFrom(f, next, value, skips, b, K)
    BY <2>1, <2>2, Zenon
  <2> QED
    BY <2>3
<1>2. ASSUME NEW n \in Nat, n \in S PROVE n + 1 \in S
  <2> SUFFICES ASSUME NEW b \in Nat \ {0}, b = K + 1 - (n + 1)
               PROVE  \E f : LinksFrom(f, next, value, skips, b, K)
    OBVIOUS
  <2>1. PICK r \in Nat \ {0} : r = b + 1
    OBVIOUS
  <2>2. r = K + 1 - n /\ b \in 1..K
    BY <2>1
  <2>3. PICK f : LinksFrom(f, next, value, skips, r, K)
    BY <1>2, <2>2, Zenon
  <2> HIDE DEF S
  <2>4. PICK v : v = Link(f, next, value, skips, b)
    OBVIOUS
  <2>5. PICK g : g = [q \in b..K |-> IF q = b THEN v ELSE f[q]]
    OBVIOUS
  <2>6. \A q \in r..K : g[q] = f[q]
    BY <2>1, <2>5
  <2>7. ASSUME NEW q \in b..K PROVE g[q] = Link(g, next, value, skips, q)
    <3>1. \A k \in (q + 1)..K : f[k] = g[k]
      <4>1. \A k \in (q + 1)..K : k \in r..K
        BY <2>1
      <4> QED
        BY <2>6, <4>1
    <3>2. q \in 1..K
      OBVIOUS
    <3>3. Link(f, next, value, skips, q) = Link(g, next, value, skips, q)
      BY <3>1, <3>2, LinkAgrees
    <3>4. CASE q = b
      <4>1. g[b] = v
        BY <2>2, <2>5
      <4> QED
        BY <2>4, <3>3, <3>4, <4>1
    <3>5. CASE q # b
      <4>1. q \in r..K
        BY <2>1, <3>5
      <4>2. f[q] = Link(f, next, value, skips, q)
        BY <2>3, <4>1, Zenon DEF LinksFrom
      <4> QED
        BY <2>6, <3>3, <4>1, <4>2
    <3> QED
      BY <3>4, <3>5
  <2> QED
    BY <2>7, Zenon DEF LinksFrom
<1> HIDE DEF S
<1>3. Nat \subseteq S
  BY <1>1, <1>2, Induction
<1>4. \E f : LinksFrom(f, next, value, skips, 1, K)
  <2>1. K \in S
    BY <1>3
  <2>2. 1 \in Nat \ {0} /\ 1 = K + 1 - K
    OBVIOUS
  <2> QED
    BY <2>1, <2>2, Zenon DEF S
<1>5. PICK f : LinksFrom(f, next, value, skips, 1, K)
  BY <1>4
<1>6. PICK g : g = [p \in 1..K |-> f[p]]
  OBVIOUS
<1>7. ASSUME NEW p \in 1..K PROVE g[p] = Link(g, next, value, skips, p)
  <2>1. \A q \in (p + 1)..K : f[q] = g[q]
    BY <1>6
  <2>2. Link(f, next, value, skips, p) = Link(g, next, value, skips, p)
    BY <2>1, LinkAgrees
  <2>3. f[p] = Link(f, next, value, skips, p)
    BY <1>5, Zenon DEF LinksFrom
  <2>4. g[p] = f[p]
    BY <1>6
  <2> QED
    BY <2>2, <2>3, <2>4
<1>8. g = [p \in 1..K |-> g[p]]
  BY <1>6
<1>9. g = [p \in 1..K |-> Link(g, next, value, skips, p)]
  BY <1>7, <1>8
<1> QED
  BY <1>9, Zenon DEF Linked

LEMMA SplitsOne ==
    ASSUME NEW V, NEW t \in Seq(V), NEW c
    PROVE  \E W : SplitsFrom(W, t, {c}) /\ SplitAt(t, c) = W[1]
<1>1. PICK N \in Nat : N = Len(t)
  BY LenProperties
<1>k. PICK K \in Nat : K = N + 1
  OBVIOUS
<1>c. PICK chars : chars = {c}
  OBVIOUS
<1>2. PICK next : next = [p \in 1..K |-> IF p > N THEN 0 ELSE IF t[p] = c THEN p + 1
                                         ELSE RunEnd(t, chars, p)]
  OBVIOUS
<1>3. PICK value : value = [p \in 1..K |-> IF p > N THEN << >>
                                           ELSE << SubSeq(t, p, RunEnd(t, chars, p) - 1) >>]
  OBVIOUS
<1>4. PICK skips : skips = {p \in 1..N : t[p] = c}
  OBVIOUS
<1>5. ASSUME NEW p \in 1..N PROVE RunEnd(t, chars, p) \in (p + 1)..K
  <2>1. IsRunEnd(t, chars, p, RunEnd(t, chars, p))
    BY <1>1, RunEndIs
  <2>2. RunEnd(t, chars, p) \in Nat /\ p < RunEnd(t, chars, p) /\ RunEnd(t, chars, p) <= N + 1
    BY <1>1, <2>1, Zenon DEF IsRunEnd
  <2> QED
    BY <1>k, <2>2
<1>a. ASSUME NEW p \in 1..N
      PROVE  /\ next[p] = (IF t[p] = c THEN p + 1 ELSE RunEnd(t, chars, p))
             /\ value[p] = << SubSeq(t, p, RunEnd(t, chars, p) - 1) >>
             /\ next[p] \in (p + 1)..K /\ next[p] # 0
  <2>1. p \in 1..K /\ ~(p > N) /\ p + 1 \in (p + 1)..K
    BY <1>k
  <2>2. next[p] = (IF t[p] = c THEN p + 1 ELSE RunEnd(t, chars, p))
    BY <1>2, <2>1, Zenon
  <2>3. value[p] = << SubSeq(t, p, RunEnd(t, chars, p) - 1) >>
    BY <1>3, <2>1, Zenon
  <2>4. next[p] \in (p + 1)..K
    BY <1>5, <2>1, <2>2, Zenon
  <2>5. next[p] # 0
    BY <2>4
  <2> QED
    BY <2>2, <2>3, <2>4, <2>5
<1>b. next[K] = 0 /\ value[K] = << >> /\ K > N /\ K \in 1..K
  <2>1. K \in 1..K /\ K > N
    BY <1>k
  <2> QED
    BY <1>2, <1>3, <2>1, Zenon
<1>d. \A p \in 1..K : p = K \/ p \in 1..N
  BY <1>k
<1>6. Forward(next, K)
  BY <1>a, <1>b, <1>d, Zenon DEF Forward
<1> DEFINE OneStep(W, p) == IF p > N THEN << >>
                         ELSE IF t[p] = c THEN W[p + 1]
                         ELSE LET end == Min({q \in (p + 1)..(N + 1) : q > N \/ t[q] = c})
                              IN  << SubSeq(t, p, end - 1) >> \o W[end]
<1>7. ASSUME NEW p PROVE Min({q \in (p + 1)..(N + 1) : q > N \/ t[q] = c}) = RunEnd(t, chars, p)
  <2>1. {q \in (p + 1)..(N + 1) : q > N \/ t[q] = c} = Ends(t, chars, p)
    BY <1>1, <1>c DEF Ends
  <2> QED
    BY <2>1, Zenon DEF RunEnd
<1>8. ASSUME NEW W, NEW p \in 1..K
      PROVE  OneStep(W, p) = Link(W, next, value, skips, p) /\ OneStep(W, p) = SplitStep(W, t, chars, p)
  <2>1. CASE p = K
    <3>1. p > Len(t)
      BY <1>1, <1>b, <2>1
    <3> QED
      BY <1>b, <2>1, <3>1, Zenon DEF Link, SplitStep
  <2>2. CASE p \in 1..N /\ t[p] = c
    <3>1. p \in skips /\ ~(p > N)
      BY <1>4, <2>2
    <3>2. ~(p > Len(t)) /\ t[p] \in chars
      BY <1>1, <1>c, <2>2
    <3>3. next[p] = p + 1 /\ next[p] # 0
      BY <1>a, <2>2
    <3> QED
      BY <2>2, <3>1, <3>2, <3>3, Zenon DEF Link, SplitStep
  <2>3. CASE p \in 1..N /\ t[p] # c
    <3>1. PICK e : e = RunEnd(t, chars, p)
      OBVIOUS
    <3>2. next[p] = e /\ next[p] # 0 /\ value[p] = << SubSeq(t, p, e - 1) >>
      BY <1>a, <2>3, <3>1, Zenon
    <3>3. p \notin skips /\ ~(p > N)
      BY <1>4, <2>3
    <3>4. ~(p > Len(t)) /\ t[p] \notin chars
      BY <1>1, <1>c, <2>3
    <3>5. SplitStep(W, t, chars, p) = << SubSeq(t, p, e - 1) >> \o W[e]
      BY <3>1, <3>4, Zenon DEF SplitStep
    <3>6. Link(W, next, value, skips, p) = << SubSeq(t, p, e - 1) >> \o W[e]
      BY <3>2, <3>3, Zenon DEF Link
    <3>7. OneStep(W, p) = << SubSeq(t, p, e - 1) >> \o W[e]
      BY <1>7, <2>3, <3>1, <3>3, Zenon
    <3> HIDE DEF OneStep
    <3> QED
      BY <3>5, <3>6, <3>7
  <2> HIDE DEF OneStep
  <2> QED
    BY <1>d, <2>1, <2>2, <2>3
<1> HIDE DEF OneStep
<1>9. \E W : W = [p \in 1..K |-> OneStep(W, p)]
  <2>0. \E W : Linked(W, next, value, skips, K)
    BY <1>6, LinksExist
  <2>1. PICK W : W = [p \in 1..K |-> Link(W, next, value, skips, p)]
    BY <2>0, Zenon DEF Linked
  <2>2. \A p \in 1..K : Link(W, next, value, skips, p) = OneStep(W, p)
    BY <1>8
  <2>3. W = [p \in 1..K |-> OneStep(W, p)]
    BY <2>1, <2>2
  <2> QED
    BY <2>3
<1>10. \E W : W = [p \in 1..K |-> OneStep(W, p)] /\ SplitAt(t, c) = W[1]
  <2>1. 1..K = 1..(Len(t) + 1)
    BY <1>1, <1>k
  <2>2. PICK U : U = CHOOSE W : W = [p \in 1..K |-> OneStep(W, p)]
    OBVIOUS
  <2>3. U = [p \in 1..K |-> OneStep(U, p)]
    BY <1>9, <2>2, Zenon
  <2>4. SplitAt(t, c) = U[1]
    BY <1>1, <2>1, <2>2, ZenonT(30) DEF SplitAt, OneStep
  <2> QED
    BY <2>3, <2>4
<1>11. PICK W : W = [p \in 1..K |-> OneStep(W, p)] /\ SplitAt(t, c) = W[1]
  BY <1>10
<1>12. \A p \in 1..K : W[p] = SplitStep(W, t, chars, p)
  <2>1. \A p \in 1..K : OneStep(W, p) = SplitStep(W, t, chars, p)
    BY <1>8
  <2> QED
    BY <1>11, <2>1
<1>13. SplitsFrom(W, t, chars)
  BY <1>1, <1>12, <1>k, Zenon DEF SplitsFrom
<1> QED
  BY <1>11, <1>13, <1>c, Zenon

-----------------------------------------------------------------------------
OfIs(e, t, chars, p, N) ==
    \/ e = 0 /\ \A k \in p..N : t[k] \notin chars
    \/ e \in p..N /\ e # 0 /\ t[e] \in chars /\ \A k \in p..N : t[k] \in chars => e <= k
LEMMA FirstOfIs ==
    ASSUME NEW t, NEW chars, NEW N \in Nat, N = Len(t), NEW p \in Nat \ {0},
           NEW e, e = FindFirstOf(t, chars, p)
    PROVE  OfIs(e, t, chars, p, N)
<1>1. PICK S : S = {i \in p..N : t[i] \in chars}
  OBVIOUS
<1>2. e = FirstIn(S)
  BY <1>1, Zenon DEF FindFirstOf
<1>3. S \subseteq Nat \ {0}
  BY <1>1
<1>4. \/ S = {} /\ e = 0
      \/ e \in S /\ e # 0 /\ \A x \in S : e <= x
  BY <1>2, <1>3, FirstInIs
<1> QED
  BY <1>1, <1>4 DEF OfIs

NotOfIs(e, t, chars, p, N) ==
    \/ e = 0 /\ \A k \in p..N : t[k] \in chars
    \/ e \in p..N /\ e # 0 /\ t[e] \notin chars /\ \A k \in p..N : t[k] \notin chars => e <= k
LEMMA FirstNotOfIs ==
    ASSUME NEW t, NEW chars, NEW N \in Nat, N = Len(t), NEW p \in Nat \ {0},
           NEW e, e = FindFirstNotOf(t, chars, p)
    PROVE  NotOfIs(e, t, chars, p, N)
<1>1. PICK S : S = {i \in p..N : t[i] \notin chars}
  OBVIOUS
<1>2. e = FirstIn(S)
  BY <1>1, Zenon DEF FindFirstNotOf
<1>3. S \subseteq Nat \ {0}
  BY <1>1
<1>4. \/ S = {} /\ e = 0
      \/ e \in S /\ e # 0 /\ \A x \in S : e <= x
  BY <1>2, <1>3, FirstInIs
<1> QED
  BY <1>1, <1>4 DEF NotOfIs

(* The loop of SplitAtAny, from b on. *)
AnyStep(P, t, chars, N, b) ==
    IF b = 0 THEN << >>
    ELSE IF FindFirstOf(t, chars, b) = 0 THEN << SubSeq(t, b, N) >>
    ELSE << SubSeq(t, b, FindFirstOf(t, chars, b) - 1) >>
         \o P[FindFirstNotOf(t, chars, FindFirstOf(t, chars, b))]
AnySteps(P, t, chars, N) == P = [b \in 0..N |-> AnyStep(P, t, chars, N, b)]

LEMMA AnyStepsExist ==
    ASSUME NEW t, NEW chars, NEW N \in Nat, N = Len(t)
    PROVE  \E P : AnySteps(P, t, chars, N)
<1>k. PICK K \in Nat : K = N + 1
  OBVIOUS
<1>1. PICK of : of = [b \in 1..N |-> FindFirstOf(t, chars, b)]
  OBVIOUS
<1>2. PICK not : not = [b \in 1..N |-> FindFirstNotOf(t, chars, b)]
  OBVIOUS
<1>3. PICK next : next = [b \in 1..K |-> IF b = K THEN 0 ELSE IF of[b] = 0 THEN 0
                                         ELSE IF not[of[b]] = 0 THEN K ELSE not[of[b]]]
  OBVIOUS
<1>4. PICK value : value = [b \in 1..K |-> IF b = K THEN << >>
                                           ELSE IF of[b] = 0 THEN << SubSeq(t, b, N) >>
                                           ELSE << SubSeq(t, b, of[b] - 1) >>]
  OBVIOUS
<1>5. ASSUME NEW b \in 1..N, of[b] # 0
      PROVE  of[b] \in b..N /\ (not[of[b]] = 0 \/ not[of[b]] \in (b + 1)..N)
  <2>1. PICK e : e = FindFirstOf(t, chars, b)
    OBVIOUS
  <2>2. of[b] = e
    BY <1>1, <2>1
  <2>a. b \in Nat \ {0}
    OBVIOUS
  <2>b. OfIs(e, t, chars, b, N)
    BY <2>1, <2>a, FirstOfIs, Zenon
  <2>3. e \in b..N /\ t[e] \in chars
    BY <1>5, <2>2, <2>b DEF OfIs
  <2>4. PICK d : d = FindFirstNotOf(t, chars, e)
    OBVIOUS
  <2>5. not[e] = d
    BY <1>2, <2>3, <2>4
  <2>6. e \in Nat \ {0}
    BY <2>3
  <2>c. NotOfIs(d, t, chars, e, N)
    BY <2>4, <2>6, FirstNotOfIs, Zenon
  <2>7. d = 0 \/ (d \in e..N /\ t[d] \notin chars)
    BY <2>c DEF NotOfIs
  <2>8. d = 0 \/ d \in (b + 1)..N
    BY <2>3, <2>7
  <2> QED
    BY <2>2, <2>3, <2>5, <2>8
<1>a. \A b \in 1..K : b = K \/ b \in 1..N
  BY <1>k
<1>b. \A b \in 1..N : b \in 1..K /\ b # K /\ b # 0
  BY <1>k
<1>c. K \in 1..K
  BY <1>k
<1>d. next[K] = 0 /\ value[K] = << >>
  BY <1>3, <1>4, <1>c, Zenon
<1>6. Forward(next, K)
  <2>1. ASSUME NEW b \in 1..N PROVE next[b] = 0 \/ next[b] \in (b + 1)..K
    <3>1. next[b] = IF of[b] = 0 THEN 0 ELSE IF not[of[b]] = 0 THEN K ELSE not[of[b]]
      BY <1>3, <1>b, Zenon
    <3>2. K \in (b + 1)..K /\ \A x \in (b + 1)..N : x \in (b + 1)..K
      BY <1>k
    <3> QED
      BY <1>5, <3>1, <3>2, Zenon
  <2> QED
    BY <1>a, <1>d, <2>1, Zenon DEF Forward
<1>7. \E f : Linked(f, next, value, {}, K)
  BY <1>6, LinksExist
<1>8. PICK f : f = [p \in 1..K |-> Link(f, next, value, {}, p)]
  BY <1>7, Zenon DEF Linked
<1>9. PICK P : P = [b \in 0..N |-> IF b = 0 THEN << >> ELSE f[b]]
  OBVIOUS
<1>10. f[K] = << >>
  <2>1. f[K] = Link(f, next, value, {}, K)
    BY <1>8, <1>c
  <2> QED
    BY <1>d, <2>1, Zenon DEF Link
<1>11. P[0] = << >> /\ \A b \in 1..N : P[b] = f[b]
  BY <1>9
<1>12. ASSUME NEW b \in 0..N PROVE P[b] = AnyStep(P, t, chars, N, b)
  <2>1. CASE b = 0
    BY <1>11, <2>1, Zenon DEF AnyStep
  <2>2. CASE b # 0
    <3>0. b \in 1..N
      BY <2>2
    <3>1. P[b] = Link(f, next, value, {}, b)
      BY <1>8, <1>11, <1>b, <3>0
    <3>2. of[b] = FindFirstOf(t, chars, b)
      BY <1>1, <3>0
    <3>3. CASE of[b] = 0
      <4>1. next[b] = 0 /\ value[b] = << SubSeq(t, b, N) >>
        BY <1>3, <1>4, <1>b, <3>0, <3>3, Zenon
      <4>2. P[b] = << SubSeq(t, b, N) >>
        BY <3>1, <4>1, Zenon DEF Link
      <4> QED
        BY <2>2, <3>2, <3>3, <4>2, Zenon DEF AnyStep
    <3>4. CASE of[b] # 0
      <4>1. PICK e : e = of[b]
        OBVIOUS
      <4>2. e \in 1..N /\ (not[e] = 0 \/ not[e] \in 1..N) /\ e # 0
        BY <1>5, <3>0, <3>4, <4>1
      <4>3. not[e] = FindFirstNotOf(t, chars, e)
        BY <1>2, <4>2
      <4>4. next[b] = (IF not[e] = 0 THEN K ELSE not[e]) /\ value[b] = << SubSeq(t, b, e - 1) >>
        BY <1>3, <1>4, <1>b, <3>0, <3>4, <4>1, Zenon
      <4>5. next[b] # 0
        BY <1>k, <4>2, <4>4
      <4>6. f[next[b]] = P[not[e]]
        BY <1>10, <1>11, <4>2, <4>4, Zenon
      <4>7. b \notin {}
        OBVIOUS
      <4>8. P[b] = << SubSeq(t, b, e - 1) >> \o P[not[e]]
        BY <3>1, <4>4, <4>5, <4>6, <4>7, Zenon DEF Link
      <4> QED
        BY <2>2, <3>2, <3>4, <4>1, <4>3, <4>8, Zenon DEF AnyStep
    <3> QED
      BY <3>3, <3>4
  <2> QED
    BY <2>1, <2>2
<1>13. P = [b \in 0..N |-> P[b]]
  BY <1>9
<1>14. P = [b \in 0..N |-> AnyStep(P, t, chars, N, b)]
  BY <1>12, <1>13
<1> QED
  BY <1>14, Zenon DEF AnySteps

LEMMA SplitAtAnyIs ==
    ASSUME NEW t, NEW chars, NEW N \in Nat, N = Len(t)
    PROVE  \E P : AnySteps(P, t, chars, N) /\ SplitAtAny(t, chars) = P[FindFirstNotOf(t, chars, 1)]
<1>1. PICK P : P = CHOOSE Q : AnySteps(Q, t, chars, N)
  OBVIOUS
<1>2. AnySteps(P, t, chars, N)
  BY <1>1, AnyStepsExist, Zenon
<1>3. SplitAtAny(t, chars) = P[FindFirstNotOf(t, chars, 1)]
  BY <1>1, Zenon DEF SplitAtAny, AnySteps, AnyStep
<1> QED
  BY <1>2, <1>3

LEMMA NothingMore == ASSUME NEW x PROVE << x >> \o << >> = << x >>
<1>1. << x >> \in Seq({x})
  OBVIOUS
<1> QED
  BY <1>1, ConcatEmptySeq

LEMMA SplitsAny ==
    ASSUME NEW V, NEW t \in Seq(V), NEW chars
    PROVE  \E W : SplitsFrom(W, t, chars) /\ SplitAtAny(t, chars) = W[1]
<1>1. PICK N \in Nat : N = Len(t)
  BY LenProperties
<1>k. PICK K \in Nat : K = N + 1
  OBVIOUS
<1>2. PICK P : AnySteps(P, t, chars, N) /\ SplitAtAny(t, chars) = P[FindFirstNotOf(t, chars, 1)]
  BY <1>1, SplitAtAnyIs
<1>3. \A b \in 0..N : P[b] = AnyStep(P, t, chars, N, b)
  <2>1. P = [b \in 0..N |-> AnyStep(P, t, chars, N, b)]
    BY <1>2, Zenon DEF AnySteps
  <2> QED
    BY <2>1
<1>4. PICK W : W = [p \in 1..K |-> P[FindFirstNotOf(t, chars, p)]]
  OBVIOUS
<1>5. \A p \in 1..K : W[p] = P[FindFirstNotOf(t, chars, p)]
  BY <1>4
<1>c. 1 \in 1..K /\ K \in 1..K
  BY <1>k
<1>6. SplitAtAny(t, chars) = W[1]
  BY <1>2, <1>5, <1>c, Zenon
<1>7. P[0] = << >>
  <2>1. 0 \in 0..N
    OBVIOUS
  <2>2. P[0] = AnyStep(P, t, chars, N, 0)
    BY <1>3, <2>1
  <2> QED
    BY <2>2, Zenon DEF AnyStep
<1>8. W[K] = << >>
  <2>1. PICK e : e = FindFirstNotOf(t, chars, K)
    OBVIOUS
  <2>2. K \in Nat \ {0}
    BY <1>k
  <2>a. NotOfIs(e, t, chars, K, N)
    BY <1>1, <2>1, <2>2, FirstNotOfIs, Zenon
  <2>3. e = 0 \/ e \in K..N
    BY <2>a DEF NotOfIs
  <2>4. e = 0
    BY <1>k, <2>3
  <2> QED
    BY <1>5, <1>7, <1>c, <2>1, <2>4
<1>9. ASSUME NEW p \in 1..K PROVE W[p] = SplitStep(W, t, chars, p)
  <2>1. CASE p = K
    <3>1. p > Len(t)
      BY <1>1, <1>k, <2>1
    <3> QED
      BY <1>8, <2>1, <3>1, Zenon DEF SplitStep
  <2>2. CASE p \in 1..N /\ t[p] \in chars
    <3>1. {i \in p..N : t[i] \notin chars} = {i \in (p + 1)..N : t[i] \notin chars}
      BY <2>2
    <3>2. FindFirstNotOf(t, chars, p) = FindFirstNotOf(t, chars, p + 1)
      BY <1>1, <3>1, Zenon DEF FindFirstNotOf
    <3>3. p + 1 \in 1..K /\ ~(p > N)
      BY <1>k, <2>2
    <3>4. W[p] = W[p + 1]
      BY <1>5, <3>2, <3>3, Zenon
    <3> QED
      BY <1>1, <2>2, <3>3, <3>4, Zenon DEF SplitStep
  <2>3. CASE p \in 1..N /\ t[p] \notin chars
    <3>0. p \in Nat \ {0} /\ p \in 0..N /\ p # 0 /\ ~(p > N)
      BY <2>3
    <3>1. PICK d : d = FindFirstNotOf(t, chars, p)
      OBVIOUS
    <3>2. \/ d = 0 /\ \A k \in p..N : t[k] \in chars
          \/ d \in p..N /\ d # 0 /\ t[d] \notin chars /\ \A k \in p..N : t[k] \notin chars => d <= k
      <4>1. NotOfIs(d, t, chars, p, N)
        BY <1>1, <3>0, <3>1, FirstNotOfIs, Zenon
      <4> QED
        BY <4>1 DEF NotOfIs
    <3>3. d = p
      BY <2>3, <3>2
    <3>4. W[p] = P[p]
      BY <1>5, <3>1, <3>3
    <3>5. PICK e : e = FindFirstOf(t, chars, p)
      OBVIOUS
    <3>6. \/ e = 0 /\ \A k \in p..N : t[k] \notin chars
          \/ e \in p..N /\ e # 0 /\ t[e] \in chars /\ \A k \in p..N : t[k] \in chars => e <= k
      <4>1. OfIs(e, t, chars, p, N)
        BY <1>1, <3>0, <3>5, FirstOfIs, Zenon
      <4> QED
        BY <4>1 DEF OfIs
    <3>7. IsRunEnd(t, chars, p, RunEnd(t, chars, p))
      <4>1. p \in Nat /\ p <= Len(t)
        BY <1>1, <2>3
      <4> QED
        BY <4>1, RunEndIs
    <3>8. P[p] = AnyStep(P, t, chars, N, p)
      BY <1>3, <3>0
    <3>9. PICK r : r = RunEnd(t, chars, p)
      OBVIOUS
    <3>a. SplitStep(W, t, chars, p) = << SubSeq(t, p, r - 1) >> \o W[r]
      BY <1>1, <2>3, <3>0, <3>9, Zenon DEF SplitStep
    <3>10. CASE e = 0
      <4>1. IsRunEnd(t, chars, p, K)
        <5>1. K \in Nat /\ p < K /\ K <= N + 1 /\ ~(K <= N)
          BY <1>k, <2>3
        <5>2. \A k \in Nat : (p < k /\ k < K) => t[k] \notin chars
          BY <1>k, <3>6, <3>10
        <5> QED
          BY <1>1, <5>1, <5>2, Zenon DEF IsRunEnd
      <4>2. r = K
        BY <1>1, <3>0, <3>7, <3>9, <4>1, RunEndOnly
      <4>3. P[p] = << SubSeq(t, p, N) >>
        BY <3>0, <3>5, <3>8, <3>10, Zenon DEF AnyStep
      <4>4. K - 1 = N
        BY <1>k
      <4>5. << SubSeq(t, p, K - 1) >> \o << >> = << SubSeq(t, p, K - 1) >>
        BY NothingMore
      <4> QED
        BY <1>8, <3>4, <3>a, <4>2, <4>3, <4>4, <4>5, Zenon
    <3>11. CASE e # 0
      <4>0. e \in p..N /\ t[e] \in chars /\ \A k \in p..N : t[k] \in chars => e <= k
        BY <3>6, <3>11
      <4>1. IsRunEnd(t, chars, p, e)
        <5>1. e \in Nat /\ p < e /\ e <= N + 1
          BY <2>3, <4>0
        <5>2. \A k \in Nat : (p < k /\ k < e) => t[k] \notin chars
          BY <2>3, <4>0
        <5> QED
          BY <1>1, <4>0, <5>1, <5>2, Zenon DEF IsRunEnd
      <4>2. r = e
        BY <1>1, <3>0, <3>7, <3>9, <4>1, RunEndOnly
      <4>3. P[p] = << SubSeq(t, p, e - 1) >> \o P[FindFirstNotOf(t, chars, e)]
        BY <3>0, <3>5, <3>8, <3>11, Zenon DEF AnyStep
      <4>4. e \in 1..K
        BY <1>k, <2>3, <4>0
      <4>5. W[e] = P[FindFirstNotOf(t, chars, e)]
        BY <1>5, <4>4
      <4> QED
        BY <3>4, <3>a, <4>2, <4>3, <4>5, Zenon
    <3> QED
      BY <3>10, <3>11
  <2>4. p = K \/ p \in 1..N
    BY <1>k
  <2> QED
    BY <2>1, <2>2, <2>3, <2>4
<1>10. SplitsFrom(W, t, chars)
  BY <1>1, <1>9, <1>k, Zenon DEF SplitsFrom
<1> QED
  BY <1>6, <1>10

-----------------------------------------------------------------------------
(* The pieces are the runs                                                 *)

LEMMA SplitIs ==
    ASSUME NEW V, NEW t \in Seq(V), NEW delim \in Seq(V)
    PROVE  \E W : SplitsFrom(W, t, ToSet(delim)) /\ SplitStringUsing(t, delim) = W[1]
<1>1. CASE Len(delim) = 1
  <2>1. PICK c : c = delim[1]
    OBVIOUS
  <2>2. ToSet(delim) = {c}
    <3>1. DOMAIN delim = {1}
      BY <1>1
    <3> QED
      BY <2>1, <3>1 DEF ToSet
  <2>3. PICK W : SplitsFrom(W, t, {c}) /\ SplitAt(t, c) = W[1]
    BY SplitsOne
  <2>4. SplitStringUsing(t, delim) = SplitAt(t, c)
    BY <1>1, <2>1, Zenon DEF SplitStringUsing
  <2> QED
    BY <2>2, <2>3, <2>4, Zenon
<1>2. CASE Len(delim) # 1
  <2>1. PICK W : SplitsFrom(W, t, ToSet(delim)) /\ SplitAtAny(t, ToSet(delim)) = W[1]
    BY SplitsAny
  <2>2. SplitStringUsing(t, delim) = SplitAtAny(t, ToSet(delim))
    BY <1>2, Zenon DEF SplitStringUsing
  <2> QED
    BY <2>1, <2>2, Zenon
<1> QED
  BY <1>1, <1>2

(* What holds of a place when it holds of every later one holds of all. *)
LEMMA Downward ==
    ASSUME NEW K \in Nat, NEW S, \A p \in 1..K : (\A q \in (p + 1)..K : q \in S) => p \in S
    PROVE  1..K \subseteq S
<1>1. PICK T : T = {n \in Nat : \A p \in 1..K : p = K - n => p \in S}
  OBVIOUS
<1>2. ASSUME NEW n \in Nat, \A m \in Nat : m < n => m \in T PROVE n \in T
  <2>1. ASSUME NEW p \in 1..K, p = K - n PROVE p \in S
    <3>1. ASSUME NEW q \in (p + 1)..K PROVE q \in S
      <4>1. PICK m \in Nat : m = K - q
        OBVIOUS
      <4>2. m < n /\ q = K - m /\ q \in 1..K
        BY <2>1, <4>1
      <4>3. m \in T
        BY <1>2, <4>2
      <4> QED
        BY <1>1, <4>2, <4>3
    <3> QED
      BY <3>1
  <2> QED
    BY <1>1, <2>1
<1>3. Nat \subseteq T
  BY <1>2, StrongInduction, Zenon
<1>4. ASSUME NEW p \in 1..K PROVE p \in S
  <2>1. PICK m \in Nat : m = K - p
    OBVIOUS
  <2>2. m \in T /\ p = K - m
    BY <1>3, <2>1
  <2> QED
    BY <1>1, <2>2
<1> QED
  BY <1>4

AtDelimiter(W, t, chars, p, N) == p \in 1..N /\ t[p] \in chars /\ W[p] = W[p + 1]
AtRun(W, t, chars, p, N, e) ==
    /\ p \in 1..N /\ t[p] \notin chars /\ e \in (p + 1)..(N + 1)
    /\ e = RunEnd(t, chars, p) /\ IsRunEnd(t, chars, p, e)
    /\ W[p] = << SubSeq(t, p, e - 1) >> \o W[e]

LEMMA SplitCases ==
    ASSUME NEW V, NEW t \in Seq(V), NEW N \in Nat, N = Len(t), NEW chars, NEW W,
           SplitsFrom(W, t, chars), NEW p \in 1..(N + 1)
    PROVE  \/ p = N + 1 /\ W[p] = << >>
           \/ AtDelimiter(W, t, chars, p, N)
           \/ \E e : AtRun(W, t, chars, p, N, e)
<1>1. W[p] = SplitStep(W, t, chars, p)
  BY Zenon DEF SplitsFrom
<1>2. CASE p = N + 1
  <2>1. p > N
    BY <1>2
  <2>2. W[p] = << >>
    BY <1>1, <2>1, Zenon DEF SplitStep
  <2> QED
    BY <1>2, <2>2
<1>3. CASE p \in 1..N /\ t[p] \in chars
  <2>1. ~(p > N)
    BY <1>3
  <2>2. W[p] = W[p + 1]
    BY <1>1, <1>3, <2>1, Zenon DEF SplitStep
  <2> QED
    BY <1>3, <2>2, Zenon DEF AtDelimiter
<1>4. CASE p \in 1..N /\ t[p] \notin chars
  <2>1. ~(p > N) /\ p \in Nat /\ p <= N
    BY <1>4
  <2>2. PICK e : e = RunEnd(t, chars, p)
    OBVIOUS
  <2>3. IsRunEnd(t, chars, p, e)
    BY <2>1, <2>2, RunEndIs
  <2>4. e \in (p + 1)..(N + 1)
    BY <2>1, <2>3 DEF IsRunEnd
  <2>5. W[p] = << SubSeq(t, p, e - 1) >> \o W[e]
    BY <1>1, <1>4, <2>1, <2>2, Zenon DEF SplitStep
  <2>6. AtRun(W, t, chars, p, N, e)
    BY <1>4, <2>2, <2>3, <2>4, <2>5, Zenon DEF AtRun
  <2> QED
    BY <2>6
<1>5. p = N + 1 \/ p \in 1..N
  OBVIOUS
<1> QED
  BY <1>2, <1>3, <1>4, <1>5

(* A piece: a stretch of the text with no delimiter in it. *)
IsPiece(x, t, chars, V) ==
    /\ x \in Seq(V) /\ Len(x) > 0 /\ \A k \in 1..Len(x) : x[k] \notin chars
    /\ \E a \in 1..Len(t), b \in 1..Len(t) : a <= b /\ x = SubSeq(t, a, b)
Pieces(y, t, chars, V) ==
    y \in Seq(Seq(V)) /\ \A k \in 1..Len(y) : IsPiece(y[k], t, chars, V)

LEMMA RunIsPiece ==
    ASSUME NEW V, NEW t \in Seq(V), NEW N \in Nat, N = Len(t), NEW chars, NEW W,
           NEW p, NEW e, AtRun(W, t, chars, p, N, e)
    PROVE  IsPiece(SubSeq(t, p, e - 1), t, chars, V)
<1>1. p \in 1..N /\ t[p] \notin chars /\ e \in (p + 1)..(N + 1)
  BY Zenon DEF AtRun
<1>2. \A k \in Nat : (p < k /\ k < e) => t[k] \notin chars
  BY Zenon DEF AtRun, IsRunEnd
<1>3. PICK q \in Nat : q = e - 1
  BY <1>1
<1>4. p \in Nat \ {0} /\ q <= N /\ p <= q + 1 /\ p <= q /\ q \in 1..N
  BY <1>1, <1>3
<1>5. PartOf(V, t, p, q)
  BY <1>4, SubIs
<1>6. PICK x : x = SubSeq(t, p, q)
  OBVIOUS
<1>7. /\ x \in Seq(V) /\ Len(x) = q - p + 1
      /\ \A k \in 1..(q - p + 1) : x[k] = t[p + k - 1]
  BY <1>5, <1>6, Zenon DEF PartOf
<1>8. ASSUME NEW k \in 1..(q - p + 1) PROVE x[k] \notin chars
  <2>1. p + k - 1 \in p..q
    BY <1>4
  <2>2. \A m \in p..q : t[m] \notin chars
    BY <1>1, <1>2, <1>3
  <2> QED
    BY <1>7, <2>1, <2>2
<1>9. Len(x) > 0
  BY <1>4, <1>7
<1> QED
  BY <1>1, <1>3, <1>4, <1>6, <1>7, <1>8, <1>9, Zenon DEF IsPiece

OneMoreThan(x, y, t, chars, V) ==
    /\ Pieces(<< x >> \o y, t, chars, V) /\ Len(<< x >> \o y) = Len(y) + 1
    /\ (<< x >> \o y)[1] = x /\ \A k \in 1..Len(y) : (<< x >> \o y)[k + 1] = y[k]
LEMMA OneMore ==
    ASSUME NEW V, NEW t, NEW chars, NEW x, IsPiece(x, t, chars, V), NEW y, Pieces(y, t, chars, V)
    PROVE  OneMoreThan(x, y, t, chars, V)
<1>1. x \in Seq(V) /\ y \in Seq(Seq(V))
  BY Zenon DEF IsPiece, Pieces
<1>2. PICK D : D = Seq(V)
  OBVIOUS
<1>3. x \in D /\ y \in Seq(D)
  BY <1>1, <1>2
<1>4. PICK z : z = << x >> \o y
  OBVIOUS
<1>5. << x >> \in Seq(D) /\ Len(<< x >>) = 1 /\ << x >>[1] = x
  BY <1>3
<1>6. PICK n \in Nat : n = Len(y)
  BY <1>3, LenProperties
<1>7. /\ z \in Seq(D) /\ Len(z) = 1 + n
      /\ \A k \in 1..(1 + n) : z[k] = IF k <= 1 THEN << x >>[k] ELSE y[k - 1]
  BY <1>3, <1>4, <1>5, <1>6, ConcatProperties
<1>8. z[1] = x
  BY <1>5, <1>7
<1>9. ASSUME NEW k \in 1..n PROVE z[k + 1] = y[k]
  <2>1. k + 1 \in 1..(1 + n) /\ ~(k + 1 <= 1) /\ (k + 1) - 1 = k
    OBVIOUS
  <2> QED
    BY <1>7, <2>1
<1>10. ASSUME NEW k \in 1..(1 + n) PROVE IsPiece(z[k], t, chars, V)
  <2>1. CASE k = 1
    BY <1>8, <2>1
  <2>2. CASE k # 1
    <3>1. PICK j \in 1..n : j + 1 = k
      <4>1. k - 1 \in 1..n /\ (k - 1) + 1 = k
        BY <2>2
      <4> QED
        BY <4>1
    <3>2. IsPiece(y[j], t, chars, V)
      BY <1>6, Zenon DEF Pieces
    <3> QED
      BY <1>9, <3>1, <3>2
  <2> QED
    BY <2>1, <2>2
<1>11. Pieces(z, t, chars, V)
  BY <1>2, <1>7, <1>10, Zenon DEF Pieces
<1>12. Len(z) = n + 1
  BY <1>7
<1> QED
  BY <1>4, <1>6, <1>8, <1>9, <1>11, <1>12, Zenon DEF OneMoreThan

LEMMA PiecesAlways ==
    ASSUME NEW V, NEW t \in Seq(V), NEW N \in Nat, N = Len(t), NEW chars, NEW W,
           SplitsFrom(W, t, chars)
    PROVE  \A p \in 1..(N + 1) : Pieces(W[p], t, chars, V)
<1>1. PICK K \in Nat : K = N + 1
  OBVIOUS
<1>2. PICK S : S = {p \in 1..K : Pieces(W[p], t, chars, V)}
  OBVIOUS
<1>3. ASSUME NEW p \in 1..K, \A q \in (p + 1)..K : q \in S PROVE p \in S
  <2>0. p \in 1..(N + 1)
    BY <1>1
  <2>1. CASE W[p] = << >>
    <3>1. << >> \in Seq(Seq(V)) /\ 1..Len(<< >>) = {}
      OBVIOUS
    <3>2. Pieces(<< >>, t, chars, V)
      BY <3>1, Zenon DEF Pieces
    <3> QED
      BY <1>2, <2>1, <3>2
  <2>2. CASE AtDelimiter(W, t, chars, p, N)
    <3>1. p \in 1..N /\ W[p] = W[p + 1]
      BY <2>2, Zenon DEF AtDelimiter
    <3>2. p + 1 \in (p + 1)..K
      BY <1>1, <3>1
    <3>3. Pieces(W[p + 1], t, chars, V)
      BY <1>2, <1>3, <3>2
    <3> QED
      BY <1>2, <3>1, <3>3
  <2>3. ASSUME NEW e, AtRun(W, t, chars, p, N, e) PROVE p \in S
    <3>1. e \in (p + 1)..K /\ W[p] = << SubSeq(t, p, e - 1) >> \o W[e]
      BY <1>1, <2>3, Zenon DEF AtRun
    <3>2. Pieces(W[e], t, chars, V)
      BY <1>2, <1>3, <3>1
    <3>3. IsPiece(SubSeq(t, p, e - 1), t, chars, V)
      BY <2>3, RunIsPiece
    <3>5. OneMoreThan(SubSeq(t, p, e - 1), W[e], t, chars, V)
      BY <3>2, <3>3, OneMore, Zenon
    <3>4. Pieces(W[p], t, chars, V)
      BY <3>1, <3>5, Zenon DEF OneMoreThan
    <3> QED
      BY <1>2, <3>4
  <2> QED
    BY <2>0, <2>1, <2>2, <2>3, SplitCases
<1>4. 1..K \subseteq S
  BY <1>3, Downward
<1> QED
  BY <1>1, <1>2, <1>4

-----------------------------------------------------------------------------
(* What SplitsIntoRuns says of a text and its delimiters. *)
RunStarts(t, chars) ==
    {i \in 1..Len(t) : t[i] \notin chars /\ (i = 1 \/ t[i - 1] \in chars)}
RunFrom(t, chars, i) ==
    SubSeq(t, i, Max({j \in i..Len(t) : \A k \in i..j : t[k] \notin chars}))
Ranked(y, t, chars, S) ==
    /\ Len(y) = Cardinality(S)
    /\ \A i \in S : y[Cardinality({j \in S : j <= i})] = RunFrom(t, chars, i)
IntoRuns(t, delim) == Ranked(SplitStringUsing(t, delim), t, ToSet(delim), RunStarts(t, ToSet(delim)))

LEMMA RunFromIs ==
    ASSUME NEW t, NEW N \in Nat, N = Len(t), NEW chars, NEW W,
           NEW p, NEW e, AtRun(W, t, chars, p, N, e)
    PROVE  RunFrom(t, chars, p) = SubSeq(t, p, e - 1)
<1>1. p \in 1..N /\ t[p] \notin chars /\ e \in (p + 1)..(N + 1)
  BY Zenon DEF AtRun
<1>2. /\ e <= N => t[e] \in chars
      /\ \A k \in Nat : (p < k /\ k < e) => t[k] \notin chars
  BY Zenon DEF AtRun, IsRunEnd
<1>3. PICK S : S = {j \in p..N : \A k \in p..j : t[k] \notin chars}
  OBVIOUS
<1>4. PICK m \in Nat : m = e - 1
  BY <1>1
<1>5. m \in S
  <2>1. m \in p..N
    BY <1>1, <1>4
  <2>2. \A k \in p..m : t[k] \notin chars
    BY <1>1, <1>2, <1>4
  <2> QED
    BY <1>3, <2>1, <2>2
<1>6. ASSUME NEW j \in S PROVE m >= j
  <2>1. j \in p..N /\ \A k \in p..j : t[k] \notin chars
    BY <1>3
  <2>2. CASE e <= N
    <3>1. e \notin p..j
      BY <1>2, <2>1, <2>2
    <3> QED
      BY <1>1, <1>4, <2>1, <3>1
  <2>3. CASE ~(e <= N)
    BY <1>1, <1>4, <2>1, <2>3
  <2> QED
    BY <2>2, <2>3
<1>7. S \subseteq Int
  BY <1>1, <1>3
<1>8. Max(S) = m
  BY <1>5, <1>6, <1>7, MaxIs
<1> QED
  BY <1>3, <1>4, <1>8, Zenon DEF RunFrom

(* A place is first of all in its set: it is put in front of the others. *)
LEMMA RankedNext ==
    ASSUME NEW V, NEW t, NEW chars, NEW S, NEW N \in Nat, S \subseteq 1..N,
           NEW p \in Nat, \A i \in S : p < i, NEW y, Ranked(y, t, chars, S),
           NEW z, OneMoreThan(RunFrom(t, chars, p), y, t, chars, V),
           z = << RunFrom(t, chars, p) >> \o y
    PROVE  Ranked(z, t, chars, S \cup {p})
<1>1. /\ Len(z) = Len(y) + 1 /\ z[1] = RunFrom(t, chars, p)
      /\ \A k \in 1..Len(y) : z[k + 1] = y[k]
  BY Zenon DEF OneMoreThan
<1>2. Len(y) = Cardinality(S) /\ \A i \in S : y[Cardinality({j \in S : j <= i})] = RunFrom(t, chars, i)
  BY Zenon DEF Ranked
<1>3. IsFiniteSet(S)
  <2>1. IsFiniteSet(1..N)
    BY FS_Interval
  <2> QED
    BY <2>1, FS_Subset
<1>4. Len(z) = Cardinality(S \cup {p})
  <2>1. p \notin S
    OBVIOUS
  <2>2. Cardinality(S \cup {p}) = Cardinality(S) + 1
    BY <1>3, <2>1, FS_AddElement
  <2> QED
    BY <1>1, <1>2, <2>2
<1>5. ASSUME NEW i \in S \cup {p}
      PROVE  z[Cardinality({j \in S \cup {p} : j <= i})] = RunFrom(t, chars, i)
  <2>1. CASE i = p
    <3>1. {j \in S \cup {p} : j <= i} = {p}
      <4>1. \A j \in S : ~(j <= p)
        OBVIOUS
      <4>2. p <= p
        OBVIOUS
      <4> QED
        BY <2>1, <4>1, <4>2
    <3>2. Cardinality({p}) = 1
      BY FS_Singleton
    <3> QED
      BY <1>1, <2>1, <3>1, <3>2, Zenon
  <2>2. CASE i \in S
    <3>1. PICK T : T = {j \in S : j <= i}
      OBVIOUS
    <3>2. {j \in S \cup {p} : j <= i} = T \cup {p}
      <4>1. p <= i
        BY <2>2
      <4> QED
        BY <3>1, <4>1
    <3>3. T \subseteq S /\ p \notin T /\ i \in T
      BY <2>2, <3>1
    <3>4. IsFiniteSet(T) /\ Cardinality(T) <= Cardinality(S)
      BY <1>3, <3>3, FS_Subset
    <3>5. Cardinality(T \cup {p}) = Cardinality(T) + 1
      BY <3>3, <3>4, FS_AddElement
    <3>6. Cardinality(T) \in Nat /\ Cardinality(T) # 0 /\ Cardinality(S) \in Nat
      <4>1. Cardinality(T) \in Nat /\ Cardinality(S) \in Nat
        BY <1>3, <3>4, FS_CardinalityType
      <4>2. Cardinality(T) # 0
        BY <3>3, <3>4, FS_EmptySet
      <4> QED
        BY <4>1, <4>2
    <3>7. Cardinality(T) \in 1..Len(y)
      BY <1>2, <3>4, <3>6
    <3>8. z[Cardinality(T) + 1] = y[Cardinality(T)]
      BY <1>1, <3>7
    <3>9. y[Cardinality(T)] = RunFrom(t, chars, i)
      BY <1>2, <2>2, <3>1, Zenon
    <3> QED
      BY <3>2, <3>5, <3>8, <3>9
  <2> QED
    BY <2>1, <2>2
<1> QED
  BY <1>4, <1>5, Zenon DEF Ranked

StartsFrom(t, chars, p, N) ==
    {i \in p..N : t[i] \notin chars /\ (i = 1 \/ t[i - 1] \in chars)}
Bound(t, chars, p, N) == p = 1 \/ p = N + 1 \/ t[p - 1] \in chars \/ t[p] \in chars

LEMMA RankedAlways ==
    ASSUME NEW V, NEW t \in Seq(V), NEW N \in Nat, N = Len(t), NEW chars, NEW W,
           SplitsFrom(W, t, chars)
    PROVE  \A p \in 1..(N + 1) :
               Bound(t, chars, p, N) => Ranked(W[p], t, chars, StartsFrom(t, chars, p, N))
<1>1. PICK K \in Nat : K = N + 1
  OBVIOUS
<1>2. PICK S : S = {p \in 1..K : Bound(t, chars, p, N)
                                 => Ranked(W[p], t, chars, StartsFrom(t, chars, p, N))}
  OBVIOUS
<1>3. ASSUME NEW p \in 1..K, \A q \in (p + 1)..K : q \in S PROVE p \in S
  <2>0. p \in 1..(N + 1)
    BY <1>1
  <2>1. CASE p = N + 1 /\ W[p] = << >>
    <3>1. StartsFrom(t, chars, p, N) = {}
      BY <2>1 DEF StartsFrom
    <3>2. Cardinality({}) = 0 /\ Len(<< >>) = 0
      BY FS_EmptySet
    <3>3. Ranked(<< >>, t, chars, {})
      BY <3>2, Zenon DEF Ranked
    <3> QED
      BY <1>2, <2>1, <3>1, <3>3
  <2>2. CASE AtDelimiter(W, t, chars, p, N)
    <3>1. p \in 1..N /\ t[p] \in chars /\ W[p] = W[p + 1]
      BY <2>2, Zenon DEF AtDelimiter
    <3>2. PICK q : q = p + 1
      OBVIOUS
    <3>3. q \in (p + 1)..K /\ q - 1 = p
      BY <1>1, <3>1, <3>2
    <3>4. Bound(t, chars, q, N)
      BY <3>1, <3>3, Zenon DEF Bound
    <3>5. Ranked(W[q], t, chars, StartsFrom(t, chars, q, N))
      BY <1>2, <1>3, <3>3, <3>4
    <3>6. StartsFrom(t, chars, q, N) = StartsFrom(t, chars, p, N)
      BY <3>1, <3>2 DEF StartsFrom
    <3> QED
      BY <1>2, <3>1, <3>2, <3>5, <3>6
  <2>3. ASSUME NEW e, AtRun(W, t, chars, p, N, e), Bound(t, chars, p, N)
        PROVE  Ranked(W[p], t, chars, StartsFrom(t, chars, p, N))
    <3>1. /\ e \in (p + 1)..(N + 1) /\ W[p] = << SubSeq(t, p, e - 1) >> \o W[e]
          /\ p \in 1..N /\ t[p] \notin chars
      BY <2>3, Zenon DEF AtRun
    <3>2. /\ e <= N => t[e] \in chars
          /\ \A k \in Nat : (p < k /\ k < e) => t[k] \notin chars
      BY <2>3, <3>1, Zenon DEF AtRun, IsRunEnd
    <3>3. RunFrom(t, chars, p) = SubSeq(t, p, e - 1)
      BY <2>3, RunFromIs
    <3>4. Bound(t, chars, e, N)
      <4>1. e <= N \/ e = N + 1
        <5>1. p \in 1..N /\ e \in (p + 1)..(N + 1)
          BY <3>1, Zenon
        <5> QED
          BY <5>1
      <4> QED
        BY <3>2, <4>1, Zenon DEF Bound
    <3>5. e \in (p + 1)..K
      BY <1>1, <3>1
    <3>6. Ranked(W[e], t, chars, StartsFrom(t, chars, e, N))
      BY <1>2, <1>3, <3>4, <3>5
    <3>7. OneMoreThan(RunFrom(t, chars, p), W[e], t, chars, V)
      <4>1. IsPiece(SubSeq(t, p, e - 1), t, chars, V)
        BY <2>3, RunIsPiece
      <4>2. Pieces(W[e], t, chars, V)
        BY <3>1, PiecesAlways
      <4> QED
        BY <3>3, <4>1, <4>2, OneMore, Zenon
    <3>8. PICK T : T = StartsFrom(t, chars, e, N)
      OBVIOUS
    <3>9. T \subseteq 1..N /\ \A i \in T : p < i
      BY <3>1, <3>8 DEF StartsFrom
    <3>10. StartsFrom(t, chars, p, N) = T \cup {p}
      <4>1. p \in StartsFrom(t, chars, p, N)
        <5>1. p = 1 \/ t[p - 1] \in chars
          BY <2>3, <3>1 DEF Bound
        <5> QED
          BY <3>1, <5>1 DEF StartsFrom
      <4>2. T \subseteq StartsFrom(t, chars, p, N)
        BY <3>1, <3>8 DEF StartsFrom
      <4>3. ASSUME NEW i \in StartsFrom(t, chars, p, N), i # p PROVE i \in T
        <5>1. i \in p..N /\ t[i] \notin chars /\ (i = 1 \/ t[i - 1] \in chars)
          BY Zenon DEF StartsFrom
        <5>2. i >= e
          <6>1. CASE i = p + 1
            <7>1. i - 1 = p /\ i # 1
              BY <3>1, <6>1
            <7> QED
              BY <3>1, <5>1, <7>1
          <6>2. CASE i # p + 1
            <7>1. i - 1 \in Nat /\ p < i - 1 /\ i # 1
              BY <3>1, <4>3, <5>1, <6>2
            <7>2. t[i - 1] \in chars
              BY <5>1, <7>1
            <7>3. ~(i - 1 < e)
              BY <3>2, <7>1, <7>2
            <7> QED
              BY <3>1, <5>1, <7>3
          <6> QED
            BY <6>1, <6>2
        <5>3. i \in e..N
          BY <3>1, <5>1, <5>2
        <5> QED
          BY <3>8, <5>1, <5>3, Zenon DEF StartsFrom
      <4> QED
        BY <4>1, <4>2, <4>3
    <3>11. p \in Nat
      OBVIOUS
    <3>12. W[p] = << RunFrom(t, chars, p) >> \o W[e]
      BY <3>1, <3>3
    <3>13. Ranked(W[p], t, chars, T \cup {p})
      BY <3>6, <3>7, <3>8, <3>9, <3>11, <3>12, RankedNext
    <3> QED
      BY <3>10, <3>13
  <2>4. ASSUME NEW e, AtRun(W, t, chars, p, N, e) PROVE p \in S
    BY <1>2, <2>3, <2>4
  <2> QED
    BY <2>0, <2>1, <2>2, <2>4, SplitCases
<1>4. 1..K \subseteq S
  BY <1>3, Downward
<1> QED
  BY <1>1, <1>2, <1>4

(* Any text split at any set of delimiters gives its maximal runs of bytes  *)
(* that are no delimiters, in their order and none empty, whichever of the  *)
(* two loops of SplitStringUsing does it.                                   *)
THEOREM SplitsIntoRunsOfAny == \A s \in Seq(0..255), delim \in Seq(0..255) : IntoRuns(s, delim)
<1> SUFFICES ASSUME NEW s \in Seq(Byte), NEW delim \in Seq(Byte) PROVE IntoRuns(s, delim)
  BY Zenon DEF Byte
<1>1. PICK N \in Nat : N = Len(s)
  BY LenProperties
<1>2. PICK chars : chars = ToSet(delim)
  OBVIOUS
<1>3. PICK W : SplitsFrom(W, s, chars) /\ SplitStringUsing(s, delim) = W[1]
  BY <1>2, SplitIs
<1>4. 1 \in 1..(N + 1)
  OBVIOUS
<1>5. Ranked(W[1], s, chars, StartsFrom(s, chars, 1, N))
  <2>1. Bound(s, chars, 1, N)
    BY Zenon DEF Bound
  <2> QED
    BY <1>1, <1>3, <1>4, <2>1, RankedAlways
<1>6. StartsFrom(s, chars, 1, N) = RunStarts(s, chars)
  BY <1>1, Zenon DEF StartsFrom, RunStarts
<1> QED
  BY <1>2, <1>3, <1>5, <1>6, Zenon DEF IntoRuns

-----------------------------------------------------------------------------
(* Pieces joined are split again                                           *)

(* What JoinStrings puts together, piece by piece. *)
Glue(y, D, i) == IF i = 1 THEN y[i] ELSE D \o y[i]
Glued(y, D, F) ==
    F = [i \in 1..Len(y) |-> IF i = 1 THEN Glue(y, D, i) ELSE F[i - 1] \o Glue(y, D, i)]

LEMMA GluedExists ==
    ASSUME NEW y, NEW n \in Nat, n = Len(y), NEW D
    PROVE  \E F : Glued(y, D, F)
<1> DEFINE GluedTo(F, k) == F = [i \in 1..k |-> IF i = 1 THEN Glue(y, D, i) ELSE F[i - 1] \o Glue(y, D, i)]
           S == {k \in Nat : \E F : GluedTo(F, k)}
<1>1. 0 \in S
  <2>1. PICK F : F = [i \in 1..0 |-> Glue(y, D, i)]
    OBVIOUS
  <2>2. GluedTo(F, 0)
    BY <2>1
  <2> QED
    BY <2>2
<1>2. ASSUME NEW k \in Nat, k \in S PROVE k + 1 \in S
  <2>1. PICK F : GluedTo(F, k)
    BY <1>2
  <2>2. PICK v : v = IF k + 1 = 1 THEN Glue(y, D, k + 1) ELSE F[k] \o Glue(y, D, k + 1)
    OBVIOUS
  <2>3. PICK G : G = [i \in 1..(k + 1) |-> IF i = k + 1 THEN v ELSE F[i]]
    OBVIOUS
  <2>4. \A i \in 1..k : G[i] = F[i]
    BY <2>3
  <2>5. G[k + 1] = v
    BY <2>3
  <2>6. ASSUME NEW i \in 1..(k + 1)
        PROVE  G[i] = IF i = 1 THEN Glue(y, D, i) ELSE G[i - 1] \o Glue(y, D, i)
    <3>1. CASE i = k + 1
      <4>1. CASE i = 1
        BY <2>2, <2>5, <3>1, <4>1, Zenon
      <4>2. CASE i # 1
        <5>1. k \in 1..k /\ i - 1 = k
          BY <3>1, <4>2
        <5>2. G[i - 1] = F[k]
          BY <2>4, <5>1
        <5> QED
          BY <2>2, <2>5, <3>1, <4>2, <5>2, Zenon
      <4> QED
        BY <4>1, <4>2
    <3>2. CASE i # k + 1
      <4>1. i \in 1..k
        BY <3>2
      <4>2. F[i] = IF i = 1 THEN Glue(y, D, i) ELSE F[i - 1] \o Glue(y, D, i)
        BY <2>1, <4>1
      <4>3. i # 1 => i - 1 \in 1..k
        BY <4>1
      <4>4. i # 1 => G[i - 1] = F[i - 1]
        BY <2>4, <4>3, Zenon
      <4>5. G[i] = F[i]
        BY <2>4, <4>1
      <4> QED
        BY <4>2, <4>4, <4>5, Zenon
    <3> QED
      BY <3>1, <3>2
  <2>7. G = [i \in 1..(k + 1) |-> G[i]]
    BY <2>3
  <2>8. GluedTo(G, k + 1)
    BY <2>6, <2>7
  <2>9. k + 1 \in Nat
    OBVIOUS
  <2> HIDE DEF GluedTo
  <2> QED
    BY <2>8, <2>9, Zenon
<1>3. n \in S
  <2> HIDE DEF S
  <2> QED
    BY <1>1, <1>2, Induction
<1> QED
  BY <1>3 DEF Glued

LEMMA JoinIs ==
    ASSUME NEW V, NEW y \in Seq(V), NEW D
    PROVE  /\ y = << >> => JoinStrings(y, D) = << >>
           /\ y # << >> => \E F : Glued(y, D, F) /\ JoinStrings(y, D) = F[Len(y)]
<1>1. PICK n \in Nat : n = Len(y)
  BY LenProperties
<1>2. DOMAIN y = 1..n
  BY <1>1
<1>3. PICK g : g = [i \in 1..n |-> Glue(y, D, i)]
  OBVIOUS
<1>4. Len(g) = n
  BY <1>3
<1>5. JoinStrings(y, D) = FlattenSeq(g)
  BY <1>2, <1>3, Zenon DEF JoinStrings, Glue
<1>6. CASE n = 0
  <2>a. y = << >>
    BY <1>1, <1>6, EmptySeq
  <2>b. 1..n = {}
    BY <1>6
  <2>c. g \in Seq(V)
    BY <1>3, <2>b
  <2>d. g = << >>
    BY <1>4, <1>6, <2>c, EmptySeq
  <2>1. y = << >> /\ g = << >>
    BY <2>a, <2>d
  <2>2. FlattenSeq(g) = g
    BY <1>4, <1>6, Zenon DEF FlattenSeq
  <2> QED
    BY <1>5, <2>1, <2>2
<1>7. CASE n # 0
  <2> DEFINE Is(F) == F = [i \in 1..n |-> IF i = 1 THEN g[i] ELSE F[i - 1] \o g[i]]
  <2>1. \A i \in 1..n : g[i] = Glue(y, D, i)
    BY <1>3
  <2>2. \A F : Is(F) <=> Glued(y, D, F)
    <3>1. ASSUME NEW F
          PROVE  [i \in 1..n |-> IF i = 1 THEN g[i] ELSE F[i - 1] \o g[i]]
                     = [i \in 1..n |-> IF i = 1 THEN Glue(y, D, i) ELSE F[i - 1] \o Glue(y, D, i)]
      BY <2>1
    <3> QED
      BY <1>1, <3>1, Zenon DEF Glued
  <2>3. PICK F : F = CHOOSE G : Is(G)
    OBVIOUS
  <2>4. Is(F)
    <3>1. \E G : Is(G)
      BY <1>1, <2>2, GluedExists
    <3> HIDE DEF Is
    <3> QED
      BY <2>3, <3>1, Zenon
  <2>5. FlattenSeq(g) = F[n]
    BY <1>4, <1>7, <2>3, Zenon DEF FlattenSeq
  <2>6. Glued(y, D, F)
    BY <2>2, <2>4
  <2>7. y # << >>
    <3>1. Len(<< >>) = 0
      OBVIOUS
    <3> QED
      BY <1>1, <1>7, <3>1
  <2>8. Glued(y, D, F) /\ JoinStrings(y, D) = F[Len(y)]
    BY <1>1, <1>5, <2>5, <2>6
  <2> QED
    BY <2>7, <2>8
<1>8. y = << >> => n = 0
  <2>1. Len(<< >>) = 0
    OBVIOUS
  <2> QED
    BY <1>1, <2>1
<1> QED
  BY <1>6, <1>7, <1>8

-----------------------------------------------------------------------------
(* Three texts one after the other. *)
InThree(t, s, D, x, V, n, d, m) ==
    /\ t \in Seq(V) /\ Len(t) = n + d + m
    /\ \A k \in 1..n : t[k] = s[k]
    /\ \A k \in 1..d : t[n + k] = D[k]
    /\ \A k \in 1..m : t[n + d + k] = x[k]

LEMMA ThreeJoined ==
    ASSUME NEW V, NEW s \in Seq(V), NEW D \in Seq(V), NEW x \in Seq(V),
           NEW n \in Nat, n = Len(s), NEW d \in Nat, d = Len(D), NEW m \in Nat, m = Len(x)
    PROVE  InThree(s \o (D \o x), s, D, x, V, n, d, m)
<1>1. PICK y : y = D \o x
  OBVIOUS
<1>2. PICK l \in Nat : l = d + m
  OBVIOUS
<1>3. /\ y \in Seq(V) /\ Len(y) = l
      /\ \A k \in 1..l : y[k] = IF k <= d THEN D[k] ELSE x[k - d]
  BY <1>1, <1>2, ConcatProperties
<1>4. PICK t : t = s \o y
  OBVIOUS
<1>5. /\ t \in Seq(V) /\ Len(t) = n + l
      /\ \A k \in 1..(n + l) : t[k] = IF k <= n THEN s[k] ELSE y[k - n]
  BY <1>3, <1>4, ConcatProperties
<1>6. ASSUME NEW k \in 1..n PROVE t[k] = s[k]
  <2>1. k \in 1..(n + l) /\ k <= n
    OBVIOUS
  <2> QED
    BY <1>5, <2>1
<1>7. ASSUME NEW k \in 1..l PROVE t[n + k] = y[k]
  <2>1. n + k \in 1..(n + l) /\ ~(n + k <= n) /\ (n + k) - n = k
    OBVIOUS
  <2> QED
    BY <1>5, <2>1
<1>8. ASSUME NEW k \in 1..d PROVE t[n + k] = D[k]
  <2>1. k \in 1..l /\ k <= d
    BY <1>2
  <2> QED
    BY <1>3, <1>7, <2>1
<1>9. ASSUME NEW k \in 1..m PROVE t[n + d + k] = x[k]
  <2>1. PICK j \in 1..l : j = d + k
    BY <1>2
  <2>2. ~(j <= d) /\ j - d = k /\ n + d + k = n + j
    BY <2>1
  <2>3. y[j] = x[k]
    BY <1>3, <2>1, <2>2
  <2> QED
    BY <1>7, <2>2, <2>3
<1>10. Len(t) = n + d + m
  BY <1>2, <1>5
<1> QED
  BY <1>1, <1>4, <1>5, <1>6, <1>8, <1>9, <1>10, Zenon DEF InThree

AllIn(t, chars, a, b) == \A k \in a..b : t[k] \in chars
NoneIn(t, chars, a, b) == \A k \in a..b : t[k] \notin chars

Stretch(t, chars, N, a, b) ==
    a \in Nat \ {0} /\ b \in Nat /\ b <= N /\ a <= b + 1 /\ AllIn(t, chars, a, b)
SplitOf(W, t, chars, V, N) == t \in Seq(V) /\ N \in Nat /\ N = Len(t) /\ SplitsFrom(W, t, chars)

SameFrom(W, a, b) == W[a] = W[b]
Alone(W, p, x) == W[p] = << x >>

LEMMA SkipsDelimiters ==
    ASSUME NEW V, NEW t, NEW N, NEW chars, NEW W, SplitOf(W, t, chars, V, N),
           NEW a, NEW b, Stretch(t, chars, N, a, b)
    PROVE  SameFrom(W, a, b + 1)
<1>h. t \in Seq(V) /\ N \in Nat /\ N = Len(t) /\ SplitsFrom(W, t, chars)
  BY Zenon DEF SplitOf
<1>s. a \in Nat \ {0} /\ b \in Nat /\ b <= N /\ a <= b + 1 /\ AllIn(t, chars, a, b)
  BY Zenon DEF Stretch
<1>1. PICK K \in Nat : K = b + 1
  BY <1>s
<1>2. PICK S : S = {p \in 1..K : p >= a => W[p] = W[K]}
  OBVIOUS
<1>3. ASSUME NEW p \in 1..K, \A q \in (p + 1)..K : q \in S PROVE p \in S
  <2>1. CASE p = K \/ ~(p >= a)
    BY <1>2, <2>1
  <2>2. CASE p # K /\ p >= a
    <3>0. a \in Nat \ {0} /\ b \in Nat /\ b <= N /\ N \in Nat
      BY <1>h, <1>s, Zenon
    <3>1. p \in a..b /\ p \in 1..N /\ p \in 1..(N + 1) /\ p # N + 1 /\ p + 1 \in (p + 1)..K /\ p + 1 >= a
      BY <1>1, <2>2, <3>0
    <3>2. t[p] \in chars
      BY <1>s, <3>1 DEF AllIn
    <3>3. ~AtRun(W, t, chars, p, N, RunEnd(t, chars, p)) /\ \A e : ~AtRun(W, t, chars, p, N, e)
      BY <3>2, Zenon DEF AtRun
    <3>4. AtDelimiter(W, t, chars, p, N)
      BY <1>h, <3>1, <3>3, SplitCases
    <3>5. W[p] = W[p + 1]
      BY <3>4, Zenon DEF AtDelimiter
    <3>6. W[p + 1] = W[K]
      BY <1>2, <1>3, <3>1
    <3> QED
      BY <1>2, <3>5, <3>6
  <2> QED
    BY <2>1, <2>2
<1>4. 1..K \subseteq S
  BY <1>3, Downward
<1>5. a \in 1..K /\ a >= a
  BY <1>1, <1>s
<1> QED
  BY <1>1, <1>2, <1>4, <1>5 DEF SameFrom

LEMMA LastRun ==
    ASSUME NEW V, NEW t, NEW N, NEW chars, NEW W, SplitOf(W, t, chars, V, N),
           NEW p \in 1..N, NoneIn(t, chars, p, N)
    PROVE  Alone(W, p, SubSeq(t, p, N))
<1>h. t \in Seq(V) /\ N \in Nat /\ N = Len(t) /\ SplitsFrom(W, t, chars)
  BY Zenon DEF SplitOf
<1>1. p \in 1..(N + 1) /\ p # N + 1 /\ p \in p..N /\ N + 1 \in 1..(N + 1)
  BY <1>h
<1>2. t[p] \notin chars
  BY <1>1 DEF NoneIn
<1>3. ~AtDelimiter(W, t, chars, p, N)
  BY <1>2, Zenon DEF AtDelimiter
<1>4. PICK e : AtRun(W, t, chars, p, N, e)
  BY <1>h, <1>1, <1>3, SplitCases
<1>5. /\ e \in (p + 1)..(N + 1) /\ IsRunEnd(t, chars, p, e)
      /\ W[p] = << SubSeq(t, p, e - 1) >> \o W[e]
  BY <1>4, Zenon DEF AtRun
<1>6. e <= N => t[e] \in chars
  BY <1>h, <1>5, Zenon DEF IsRunEnd
<1>7. e = N + 1
  <2>0. e \in (p + 1)..(N + 1) /\ (e <= N => t[e] \in chars)
    BY <1>5, <1>6, Zenon
  <2>1. ~(e <= N)
    BY <1>h, <2>0 DEF NoneIn
  <2>2. e \in (p + 1)..(N + 1)
    BY <2>0
  <2> QED
    BY <1>h, <2>1, <2>2
<1>8. e - 1 = N
  BY <1>h, <1>7
<1>9. W[N + 1] = << >>
  <2>1. N + 1 > N /\ Len(t) = N
    BY <1>h
  <2>2. W[N + 1] = SplitStep(W, t, chars, N + 1)
    BY <1>h, <1>1, Zenon DEF SplitsFrom
  <2> QED
    BY <2>1, <2>2, Zenon DEF SplitStep
<1>10. << SubSeq(t, p, N) >> \o << >> = << SubSeq(t, p, N) >>
  BY NothingMore
<1> QED
  BY <1>5, <1>7, <1>8, <1>9, <1>10, Zenon DEF Alone

(* A text, delimiters, and one piece more; and how they are split. *)
PieceBehind(V, s, D, x, chars, n, d, m, t, U) ==
    /\ s \in Seq(V) /\ D \in Seq(V) /\ x \in Seq(V)
    /\ n \in Nat /\ n = Len(s) /\ d \in Nat /\ d # 0 /\ d = Len(D) /\ m \in Nat /\ m # 0 /\ m = Len(x)
    /\ AllIn(D, chars, 1, d) /\ NoneIn(x, chars, 1, m)
    /\ InThree(t, s, D, x, V, n, d, m) /\ SplitsFrom(U, t, chars)

LEMMA OnePieceLast ==
    ASSUME NEW V, NEW s, NEW D, NEW x, NEW chars, NEW n, NEW d, NEW m, NEW t, NEW U,
           PieceBehind(V, s, D, x, chars, n, d, m, t, U)
    PROVE  Alone(U, n + 1, x)
<1> /\ s \in Seq(V) /\ D \in Seq(V) /\ x \in Seq(V)
    /\ n \in Nat /\ n = Len(s) /\ d \in Nat \ {0} /\ d = Len(D) /\ m \in Nat \ {0} /\ m = Len(x)
    /\ AllIn(D, chars, 1, d) /\ NoneIn(x, chars, 1, m)
    /\ InThree(t, s, D, x, V, n, d, m) /\ SplitsFrom(U, t, chars)
  BY DEF PieceBehind
<1>1. PICK N \in Nat : N = n + d + m
  OBVIOUS
<1>2. /\ t \in Seq(V) /\ N = Len(t)
      /\ \A k \in 1..d : t[n + k] = D[k]
      /\ \A k \in 1..m : t[n + d + k] = x[k]
  BY <1>1, Zenon DEF InThree
<1>3. PICK b \in Nat : b = n + d
  OBVIOUS
<1>4. PICK a \in Nat \ {0} : a = n + 1
  OBVIOUS
<1>5. ASSUME NEW k \in a..b PROVE t[k] \in chars
  <2>1. PICK j \in 1..d : k = n + j
    <3>1. k - n \in 1..d /\ k = n + (k - n)
      BY <1>3, <1>4
    <3> QED
      BY <3>1
  <2> QED
    BY <1>2, <2>1 DEF AllIn
<1>6. U[a] = U[b + 1]
  <2>1. b <= N /\ a <= b + 1
    BY <1>1, <1>3, <1>4
  <2>2. AllIn(t, chars, a, b)
    BY <1>5, Zenon DEF AllIn
  <2>3. SplitOf(U, t, chars, V, N)
    BY <1>2, Zenon DEF SplitOf
  <2>4. Stretch(t, chars, N, a, b)
    BY <2>1, <2>2, Zenon DEF Stretch
  <2> QED
    <3>1. SameFrom(U, a, b + 1)
      BY <2>3, <2>4, SkipsDelimiters, Zenon
    <3> QED
      BY <3>1, Zenon DEF SameFrom
<1>7. PICK p \in 1..N : p = b + 1
  BY <1>1, <1>3
<1>8. ASSUME NEW k \in p..N PROVE t[k] \notin chars
  <2>1. PICK j \in 1..m : k = n + d + j
    <3>1. k - b \in 1..m /\ k = n + d + (k - b)
      BY <1>1, <1>3, <1>7
    <3> QED
      BY <3>1
  <2> QED
    BY <1>2, <2>1 DEF NoneIn
<1>9. U[p] = << SubSeq(t, p, N) >>
  <2>1. NoneIn(t, chars, p, N)
    BY <1>8, Zenon DEF NoneIn
  <2>2. SplitOf(U, t, chars, V, N)
    BY <1>2, Zenon DEF SplitOf
  <2> QED
    <3>1. Alone(U, p, SubSeq(t, p, N))
      BY <2>1, <2>2, LastRun, Zenon
    <3> QED
      BY <3>1, Zenon DEF Alone
<1>10. SubSeq(t, p, N) = x
  <2>1. PICK y : y = SubSeq(t, p, N)
    OBVIOUS
  <2>2. PartOf(V, t, p, N)
    <3>1. p \in Nat \ {0} /\ N <= Len(t) /\ p <= N + 1
      BY <1>2
    <3> QED
      BY <1>2, <3>1, SubIs
  <2>3. y \in Seq(V) /\ Len(y) = N - p + 1 /\ \A k \in 1..(N - p + 1) : y[k] = t[p + k - 1]
    BY <2>1, <2>2, Zenon DEF PartOf
  <2>4. N - p + 1 = m
    BY <1>1, <1>3, <1>7
  <2>5. ASSUME NEW k \in 1..m PROVE y[k] = x[k]
    <3>1. p + k - 1 = n + d + k
      BY <1>3, <1>7
    <3> QED
      BY <1>2, <2>3, <2>4, <3>1
  <2> QED
    BY <2>1, <2>3, <2>4, <2>5, SeqEqual
<1> QED
  BY <1>4, <1>6, <1>7, <1>9, <1>10, Zenon DEF Alone

Regroups(a, b, c) == (a \o b) \o c = a \o (b \o c)
LEMMA Regrouped ==
    ASSUME NEW A, NEW a, NEW b, NEW c, a \in Seq(A), b \in Seq(A), c \in Seq(A)
    PROVE  Regroups(a, b, c)
BY ConcatAssociative DEF Regroups

EachWith(U, W, n, x) == \A p \in 1..(n + 1) : U[p] = W[p] \o << x >>

LEMMA PieceAdded ==
    ASSUME NEW V, NEW s, NEW D, NEW x, NEW chars, NEW n, NEW d, NEW m, NEW t, NEW U,
           PieceBehind(V, s, D, x, chars, n, d, m, t, U),
           NEW W, SplitsFrom(W, s, chars)
    PROVE  EachWith(U, W, n, x)
<1> /\ s \in Seq(V) /\ D \in Seq(V) /\ x \in Seq(V)
    /\ n \in Nat /\ n = Len(s) /\ d \in Nat \ {0} /\ d = Len(D) /\ m \in Nat \ {0} /\ m = Len(x)
    /\ AllIn(D, chars, 1, d) /\ NoneIn(x, chars, 1, m)
    /\ InThree(t, s, D, x, V, n, d, m) /\ SplitsFrom(U, t, chars)
  BY DEF PieceBehind
<1>1. PICK N \in Nat : N = n + d + m
  OBVIOUS
<1>2. /\ t \in Seq(V) /\ N = Len(t) /\ \A k \in 1..n : t[k] = s[k]
      /\ \A k \in 1..d : t[n + k] = D[k]
  BY <1>1, Zenon DEF InThree
<1>3. PICK K \in Nat : K = n + 1
  OBVIOUS
<1>4. PICK S : S = {p \in 1..K : U[p] = W[p] \o << x >>}
  OBVIOUS
<1>5. PICK A : A = Seq(V)
  OBVIOUS
<1>6. x \in A /\ << x >> \in Seq(A)
  BY <1>5
<1>7. \A p \in 1..K : W[p] \in Seq(A)
  <2>1. \A p \in 1..(n + 1) : Pieces(W[p], s, chars, V)
    BY PiecesAlways
  <2> QED
    BY <1>3, <1>5, <2>1 DEF Pieces
<1>8. ASSUME NEW p \in 1..K, \A q \in (p + 1)..K : q \in S PROVE p \in S
  <2>0. p \in 1..(n + 1) /\ p \in 1..(N + 1)
    BY <1>1, <1>3
  <2>1. CASE p = n + 1 /\ W[p] = << >>
    <3>0. U[n + 1] = << x >>
      <4>1. Alone(U, n + 1, x)
        BY OnePieceLast, Zenon
      <4> QED
        BY <4>1, Zenon DEF Alone
    <3>1. U[p] = << x >>
      BY <2>1, <3>0
    <3>2. << >> \o << x >> = << x >>
      BY <1>6, ConcatEmptySeq
    <3> QED
      BY <1>4, <2>1, <3>1, <3>2
  <2>2. CASE AtDelimiter(W, s, chars, p, n)
    <3>1. p \in 1..n /\ s[p] \in chars /\ W[p] = W[p + 1]
      BY <2>2, Zenon DEF AtDelimiter
    <3>2. t[p] \in chars /\ p # N + 1 /\ p + 1 \in (p + 1)..K
      BY <1>1, <1>2, <1>3, <3>1
    <3>3. \A e : ~AtRun(U, t, chars, p, N, e)
      BY <3>2, Zenon DEF AtRun
    <3>4. AtDelimiter(U, t, chars, p, N)
      BY <1>2, <2>0, <3>2, <3>3, SplitCases
    <3>5. U[p] = U[p + 1]
      BY <3>4, Zenon DEF AtDelimiter
    <3>6. U[p + 1] = W[p + 1] \o << x >>
      BY <1>4, <1>8, <3>2
    <3> QED
      BY <1>4, <3>1, <3>5, <3>6
  <2>3. ASSUME NEW e, AtRun(W, s, chars, p, n, e) PROVE p \in S
    <3>1. /\ p \in 1..n /\ s[p] \notin chars /\ e \in (p + 1)..(n + 1)
          /\ W[p] = << SubSeq(s, p, e - 1) >> \o W[e]
      BY <2>3, Zenon DEF AtRun
    <3>2. /\ e <= n => s[e] \in chars
          /\ \A k \in Nat : (p < k /\ k < e) => s[k] \notin chars
      BY <2>3, <3>1, Zenon DEF AtRun, IsRunEnd
    <3>3. t[p] \notin chars /\ p # N + 1
      BY <1>1, <1>2, <3>1
    <3>4. ~AtDelimiter(U, t, chars, p, N)
      BY <3>3, Zenon DEF AtDelimiter
    <3>5. PICK f : AtRun(U, t, chars, p, N, f)
      BY <1>2, <2>0, <3>3, <3>4, SplitCases
    <3>6. IsRunEnd(t, chars, p, f) /\ U[p] = << SubSeq(t, p, f - 1) >> \o U[f]
      BY <3>5, Zenon DEF AtRun
    <3>7. IsRunEnd(t, chars, p, e)
      <4>1. e \in Nat /\ p < e /\ e <= N + 1
        BY <1>1, <3>1
      <4>2. t[e] \in chars
        <5>1. CASE e <= n
          <6>1. e \in 1..n
            BY <3>1, <5>1
          <6> QED
            BY <1>2, <3>2, <5>1, <6>1
        <5>2. CASE ~(e <= n)
          <6>0. e \in (p + 1)..(n + 1) /\ p \in 1..n
            BY <3>1, Zenon
          <6>1. e = n + 1 /\ 1 \in 1..d
            BY <5>2, <6>0
          <6> QED
            BY <1>2, <6>1 DEF AllIn
        <5> QED
          BY <5>1, <5>2
      <4>3. ASSUME NEW k \in Nat, p < k, k < e PROVE t[k] \notin chars
        <5>1. k \in 1..n
          BY <3>1, <4>3
        <5> QED
          BY <1>2, <3>2, <4>3, <5>1
      <4> QED
        BY <1>2, <4>1, <4>2, <4>3, Zenon DEF IsRunEnd
    <3>8. f = e
      <4>1. p \in Nat
        OBVIOUS
      <4> QED
        BY <1>2, <3>6, <3>7, <4>1, RunEndOnly
    <3>9. SubSeq(t, p, e - 1) = SubSeq(s, p, e - 1) /\ SubSeq(s, p, e - 1) \in A
      <4>1. PICK q \in Nat : q = e - 1
        BY <3>1
      <4>a. p \in 1..n /\ e \in (p + 1)..(n + 1)
        BY <3>1, Zenon
      <4>b. p \in Nat \ {0} /\ q <= n /\ q <= N /\ p <= q + 1
        BY <1>1, <4>1, <4>a
      <4>2. p \in Nat \ {0} /\ q <= n /\ q <= N /\ p <= q + 1 /\ q <= Len(s) /\ q <= Len(t)
        BY <1>2, <4>b
      <4>3. PartOf(V, s, p, q) /\ PartOf(V, t, p, q)
        <5>1. PartOf(V, s, p, q)
          BY <4>2, SubIs
        <5>2. PartOf(V, t, p, q)
          BY <1>2, <4>2, SubIs
        <5> QED
          BY <5>1, <5>2
      <4>4. PICK y, z : y = SubSeq(s, p, q) /\ z = SubSeq(t, p, q)
        OBVIOUS
      <4>5. /\ y \in Seq(V) /\ z \in Seq(V) /\ Len(y) = q - p + 1 /\ Len(z) = q - p + 1
            /\ \A k \in 1..(q - p + 1) : y[k] = s[p + k - 1]
            /\ \A k \in 1..(q - p + 1) : z[k] = t[p + k - 1]
        BY <4>3, <4>4, Zenon DEF PartOf
      <4>6. ASSUME NEW k \in 1..(q - p + 1) PROVE y[k] = z[k]
        <5>1. p + k - 1 \in 1..n
          BY <4>2
        <5> QED
          BY <1>2, <4>5, <5>1
      <4>7. y = z
        BY <4>5, <4>6, SeqEqual
      <4> QED
        BY <1>5, <4>1, <4>4, <4>5, <4>7
    <3>10. e \in (p + 1)..K /\ e \in 1..K
      BY <1>3, <3>1
    <3>11. U[e] = W[e] \o << x >>
      BY <1>4, <1>8, <3>10
    <3>12. PICK y : y = SubSeq(s, p, e - 1)
      OBVIOUS
    <3>13. << y >> \o (W[e] \o << x >>) = (<< y >> \o W[e]) \o << x >>
      <4>1. << y >> \in Seq(A) /\ W[e] \in Seq(A)
        BY <1>7, <3>9, <3>10, <3>12
      <4>2. (<< y >> \o W[e]) \o << x >> = << y >> \o (W[e] \o << x >>)
        <5>1. Regroups(<< y >>, W[e], << x >>)
          BY <1>6, <4>1, Regrouped, Zenon
        <5> QED
          BY <5>1, Zenon DEF Regroups
      <4> QED
        BY <4>2
    <3>14. U[p] = W[p] \o << x >>
      BY <3>1, <3>6, <3>8, <3>9, <3>11, <3>12, <3>13, Zenon
    <3> QED
      BY <1>4, <3>14
  <2> QED
    BY <2>0, <2>1, <2>2, <2>3, SplitCases
<1>9. 1..K \subseteq S
  BY <1>8, Downward
<1> QED
  BY <1>3, <1>4, <1>9 DEF EachWith

-----------------------------------------------------------------------------
(* What JoinsBack says of a text and its delimiters. *)
JoinedBack(s, delim) ==
    SplitStringUsing(JoinStrings(SplitStringUsing(s, delim), delim), delim)
        = SplitStringUsing(s, delim)
SplitsInto(s, delim, y, V) == s \in Seq(V) /\ SplitStringUsing(s, delim) = y

LEMMA DelimitersIn ==
    ASSUME NEW D, NEW d, d = Len(D)
    PROVE  DOMAIN D = 1..d => AllIn(D, ToSet(D), 1, d)
BY DEF AllIn, ToSet

LEMMA OnePieceSplit ==
    ASSUME NEW V, NEW D \in Seq(V), NEW t, NEW x, IsPiece(x, t, ToSet(D), V)
    PROVE  SplitsInto(x, D, << x >>, V)
<1>1. x \in Seq(V) /\ Len(x) > 0 /\ \A k \in 1..Len(x) : x[k] \notin ToSet(D)
  BY Zenon DEF IsPiece
<1>2. PICK m \in Nat : m = Len(x)
  BY <1>1, LenProperties
<1>3. NoneIn(x, ToSet(D), 1, m)
  BY <1>1, <1>2, Zenon DEF NoneIn
<1>4. PICK U : SplitsFrom(U, x, ToSet(D)) /\ SplitStringUsing(x, D) = U[1]
  BY <1>1, SplitIs
<1>5. SplitOf(U, x, ToSet(D), V, m)
  BY <1>1, <1>2, <1>4, Zenon DEF SplitOf
<1>6. 1 \in 1..m
  BY <1>1, <1>2
<1>7. Alone(U, 1, SubSeq(x, 1, m))
  BY <1>3, <1>5, <1>6, LastRun, Zenon
<1>8. SubSeq(x, 1, m) = x
  BY <1>1, <1>2, SubSeqFull
<1> QED
  BY <1>1, <1>4, <1>7, <1>8, Zenon DEF SplitsInto, Alone

LEMMA OnePieceMore ==
    ASSUME NEW V, NEW D \in Seq(V), D # << >>, NEW t, NEW x, IsPiece(x, t, ToSet(D), V),
           NEW s, NEW y, SplitsInto(s, D, y, V)
    PROVE  SplitsInto(s \o (D \o x), D, y \o << x >>, V)
<1>1. x \in Seq(V) /\ Len(x) > 0 /\ \A k \in 1..Len(x) : x[k] \notin ToSet(D)
  BY Zenon DEF IsPiece
<1>2. s \in Seq(V) /\ SplitStringUsing(s, D) = y
  BY Zenon DEF SplitsInto
<1>3. PICK m \in Nat : m = Len(x)
  BY <1>1, LenProperties
<1>4. PICK n \in Nat : n = Len(s)
  BY <1>2, LenProperties
<1>5. PICK d \in Nat : d = Len(D)
  BY LenProperties
<1>6. d # 0 /\ m # 0
  BY <1>1, <1>3, <1>5, EmptySeq
<1>7. PICK chars : chars = ToSet(D)
  OBVIOUS
<1>8. NoneIn(x, chars, 1, m)
  BY <1>1, <1>3, <1>7, Zenon DEF NoneIn
<1>9. AllIn(D, chars, 1, d)
  <2>1. DOMAIN D = 1..d
    BY <1>5, LenProperties
  <2> QED
    BY <1>5, <1>7, <2>1, DelimitersIn, Zenon
<1>10. PICK v : v = s \o (D \o x)
  OBVIOUS
<1>11. InThree(v, s, D, x, V, n, d, m)
  BY <1>1, <1>2, <1>3, <1>4, <1>5, <1>10, ThreeJoined
<1>12. v \in Seq(V)
  BY <1>11, Zenon DEF InThree
<1>13. PICK W : SplitsFrom(W, s, chars) /\ SplitStringUsing(s, D) = W[1]
  BY <1>2, <1>7, SplitIs
<1>14. PICK U : SplitsFrom(U, v, chars) /\ SplitStringUsing(v, D) = U[1]
  BY <1>7, <1>12, SplitIs
<1>15. PieceBehind(V, s, D, x, chars, n, d, m, v, U)
  BY <1>1, <1>2, <1>3, <1>4, <1>5, <1>6, <1>8, <1>9, <1>11, <1>14, Zenon DEF PieceBehind
<1>16. \A p \in 1..(n + 1) : U[p] = W[p] \o << x >>
  <2>1. EachWith(U, W, n, x)
    BY <1>13, <1>15, PieceAdded, Zenon
  <2> QED
    BY <2>1, Zenon DEF EachWith
<1>17. 1 \in 1..(n + 1)
  OBVIOUS
<1>18. U[1] = y \o << x >>
  BY <1>2, <1>13, <1>16, <1>17, Zenon
<1> QED
  BY <1>10, <1>12, <1>14, <1>18, Zenon DEF SplitsInto

LEMMA GluedSplit ==
    ASSUME NEW V, NEW D \in Seq(V), D # << >>, NEW t, NEW y, Pieces(y, t, ToSet(D), V),
           NEW n \in Nat, n = Len(y), n # 0, NEW F, Glued(y, D, F)
    PROVE  SplitsInto(F[n], D, y, V)
<1>1. PICK A : A = Seq(V)
  OBVIOUS
<1>2. y \in Seq(A) /\ \A k \in 1..n : IsPiece(y[k], t, ToSet(D), V)
  BY <1>1, Zenon DEF Pieces
<1>3. \A i \in 1..n : F[i] = IF i = 1 THEN Glue(y, D, i) ELSE F[i - 1] \o Glue(y, D, i)
  <2>1. F = [i \in 1..n |-> IF i = 1 THEN Glue(y, D, i) ELSE F[i - 1] \o Glue(y, D, i)]
    BY Zenon DEF Glued
  <2> QED
    BY <2>1
<1>4. PICK S : S = {k \in Nat : k + 1 \in 1..n => SplitsInto(F[k + 1], D, SubSeq(y, 1, k + 1), V)}
  OBVIOUS
<1>5. 0 \in S
  <2>1. 1 \in 1..n /\ 0 + 1 = 1
    OBVIOUS
  <2>2. F[1] = y[1]
    BY <1>3, <2>1, Zenon DEF Glue
  <2>3. SplitsInto(y[1], D, << y[1] >>, V)
    BY <1>2, <2>1, OnePieceSplit, Zenon
  <2>4. SubSeq(y, 1, 1) = << y[1] >>
    <3>1. 1 \in 1..Len(y) /\ 1 \in 1..Len(y) /\ 0 < 1
      BY <2>1
    <3>2. SubSeq(y, 1, 1) = << y[1] >> \o SubSeq(y, 1 + 1, 1)
      BY <1>2, <3>1, SubSeqRecursiveFirst
    <3>3. SubSeq(y, 1 + 1, 1) = << >>
      BY SubNone
    <3> QED
      BY <3>2, <3>3, NothingMore
  <2>5. SplitsInto(F[1], D, SubSeq(y, 1, 1), V)
    BY <2>2, <2>3, <2>4
  <2> QED
    BY <1>4, <2>1, <2>5
<1>6. ASSUME NEW k \in Nat, k \in S PROVE k + 1 \in S
  <2> SUFFICES ASSUME k + 1 + 1 \in 1..n
               PROVE  SplitsInto(F[k + 1 + 1], D, SubSeq(y, 1, k + 1 + 1), V)
    BY <1>4
  <2>1. PICK i \in Nat : i = k + 1
    OBVIOUS
  <2>2. PICK j \in 1..n : j = i + 1
    BY <2>1
  <2>3. i \in 1..n /\ j # 1 /\ j - 1 = i
    BY <2>1, <2>2
  <2>4. SplitsInto(F[i], D, SubSeq(y, 1, i), V)
    BY <1>4, <1>6, <2>1, <2>3
  <2>5. IsPiece(y[j], t, ToSet(D), V)
    BY <1>2
  <2>6. SplitsInto(F[i] \o (D \o y[j]), D, SubSeq(y, 1, i) \o << y[j] >>, V)
    BY <2>4, <2>5, OnePieceMore, Zenon
  <2>7. F[j] = F[i] \o (D \o y[j])
    BY <1>3, <2>3, Zenon DEF Glue
  <2>8. SubSeq(y, 1, j) = SubSeq(y, 1, i) \o << y[j] >>
    <3>1. 1 \in 1..Len(y) /\ j \in 1..Len(y)
      BY <2>3
    <3>2. SubSeq(y, 1, j) = SubSeq(y, 1, j - 1) \o << y[j] >>
      BY <1>2, <3>1, SubSeqRecursiveSecond
    <3> QED
      BY <2>3, <3>2
  <2>9. SplitsInto(F[j], D, SubSeq(y, 1, j), V)
    BY <2>6, <2>7, <2>8
  <2> QED
    BY <2>1, <2>2, <2>9
<1>7. PICK k \in Nat : n = k + 1
  <2>1. n - 1 \in Nat /\ n = (n - 1) + 1
    OBVIOUS
  <2> QED
    BY <2>1
<1>8. k \in S
  BY <1>5, <1>6, Induction
<1>9. SplitsInto(F[n], D, SubSeq(y, 1, n), V)
  BY <1>4, <1>7, <1>8
<1>10. SubSeq(y, 1, n) = y
  BY <1>2, SubSeqFull
<1> QED
  BY <1>9, <1>10

(* The pieces of any text, joined with the delimiters they were split at,   *)
(* are split into the same pieces again (JoinStrings, SplitStringUsing).    *)
THEOREM JoinsBackOfAny ==
    \A s \in Seq(0..255), delim \in Seq(0..255) \ {<< >>} : JoinedBack(s, delim)
<1> SUFFICES ASSUME NEW s \in Seq(Byte), NEW delim \in Seq(Byte), delim # << >>
             PROVE  JoinedBack(s, delim)
  BY Zenon DEF Byte
<1>1. PICK N \in Nat : N = Len(s)
  BY LenProperties
<1>2. PICK chars : chars = ToSet(delim)
  OBVIOUS
<1>3. PICK W : SplitsFrom(W, s, chars) /\ SplitStringUsing(s, delim) = W[1]
  BY <1>2, SplitIs
<1>4. PICK y : y = W[1]
  OBVIOUS
<1>5. Pieces(y, s, chars, Byte)
  <2>1. 1 \in 1..(N + 1)
    OBVIOUS
  <2> QED
    BY <1>1, <1>3, <1>4, <2>1, PiecesAlways
<1>6. PICK A : A = Seq(Byte)
  OBVIOUS
<1>7. y \in Seq(A)
  BY <1>5, <1>6, Zenon DEF Pieces
<1>8. PICK n \in Nat : n = Len(y)
  BY <1>7, LenProperties
<1>9. SplitStringUsing(JoinStrings(y, delim), delim) = y
  <2>1. CASE y = << >> /\ JoinStrings(y, delim) = << >>
    <3>1. << >> \in Seq(Byte) /\ Len(<< >>) = 0
      OBVIOUS
    <3>2. PICK U : SplitsFrom(U, << >>, chars) /\ SplitStringUsing(<< >>, delim) = U[1]
      BY <1>2, <3>1, SplitIs
    <3>3. 1 \in 1..(Len(<< >>) + 1) /\ 1 > Len(<< >>)
      BY <3>1
    <3>4. U[1] = SplitStep(U, << >>, chars, 1)
      BY <3>2, <3>3, Zenon DEF SplitsFrom
    <3>5. U[1] = << >>
      BY <3>3, <3>4, Zenon DEF SplitStep
    <3> QED
      BY <2>1, <3>2, <3>5
  <2>2. CASE n # 0
    <3>1. ~(y = << >>)
      BY <1>7, <1>8, <2>2, EmptySeq
    <3>2. PICK F : Glued(y, delim, F) /\ JoinStrings(y, delim) = F[n]
      BY <1>7, <1>8, <3>1, JoinIs
    <3>3. SplitsInto(F[n], delim, y, Byte)
      BY <1>2, <1>5, <1>8, <2>2, <3>2, GluedSplit
    <3> QED
      BY <3>2, <3>3, Zenon DEF SplitsInto
  <2>3. n # 0 \/ (y = << >> /\ JoinStrings(y, delim) = << >>)
    <3>1. CASE n = 0
      <4>1. y = << >>
        BY <1>7, <1>8, <3>1, EmptySeq
      <4> QED
        BY <1>7, <4>1, JoinIs
    <3> QED
      BY <3>1
  <2> QED
    BY <2>1, <2>2, <2>3
<1> QED
  BY <1>3, <1>4, <1>9, Zenon DEF JoinedBack

-----------------------------------------------------------------------------
(* What is replaced                                                        *)

Occurs(t, old, l, k) == k + l - 1 <= Len(t) /\ \A j \in 1..l : t[k + j - 1] = old[j]
FoundAt(e, t, old, l, p) ==
    \/ e = 0 /\ \A k \in Nat : k >= p => ~Occurs(t, old, l, k)
    \/ /\ e \in Nat /\ e >= p /\ Occurs(t, old, l, e)
       /\ \A k \in Nat : (p <= k /\ k < e) => ~Occurs(t, old, l, k)
AText(t, V, n) == t \in Seq(V) /\ n \in Nat /\ n = Len(t)

LEMMA OccursIs ==
    ASSUME NEW V, NEW t, NEW N, AText(t, V, N), NEW old, NEW l, AText(old, V, l), l # 0,
           NEW k \in Nat \ {0}, k + l - 1 <= N
    PROVE  SubSeq(t, k, k + l - 1) = old <=> Occurs(t, old, l, k)
<1>1. t \in Seq(V) /\ N \in Nat /\ N = Len(t) /\ old \in Seq(V) /\ l \in Nat \ {0} /\ l = Len(old)
  BY DEF AText
<1>2. PICK q \in Nat : q = k + l - 1
  <2>1. k + l - 1 \in Nat
    BY <1>1
  <2> QED
    BY <2>1, Zenon
<1>3. PICK x : x = SubSeq(t, k, q)
  OBVIOUS
<1>4. q - k + 1 = l /\ q <= Len(t) /\ k <= q + 1
  BY <1>1, <1>2
<1>5. PartOf(V, t, k, q)
  BY <1>1, <1>4, SubIs
<1>6. x \in Seq(V) /\ Len(x) = l /\ \A j \in 1..l : x[j] = t[k + j - 1]
  BY <1>3, <1>4, <1>5 DEF PartOf
<1>7. x = old <=> \A j \in 1..l : x[j] = old[j]
  BY <1>1, <1>6, SeqEqual
<1>8. (\A j \in 1..l : x[j] = old[j]) <=> (\A j \in 1..l : t[k + j - 1] = old[j])
  BY <1>6
<1>9. k + l - 1 <= Len(t)
  BY <1>1
<1> QED
  BY <1>2, <1>3, <1>7, <1>8, <1>9, Zenon DEF Occurs

LEMMA FindIs ==
    ASSUME NEW V, NEW t, NEW N, AText(t, V, N), NEW old, NEW l, AText(old, V, l), l # 0,
           NEW p \in Nat \ {0}
    PROVE  FoundAt(Find(t, old, p), t, old, l, p)
<1>1. N \in Nat /\ N = Len(t) /\ l \in Nat \ {0} /\ l = Len(old)
  BY DEF AText
<1>2. PICK S : S = {i \in p..(N - l + 1) : SubSeq(t, i, i + l - 1) = old}
  OBVIOUS
<1>3. PICK e : e = FirstIn(S)
  OBVIOUS
<1>4. Find(t, old, p) = e
  BY <1>1, <1>2, <1>3, Zenon DEF Find
<1>5. S \subseteq Nat \ {0}
  BY <1>1, <1>2
<1>6. ASSUME NEW k \in Nat, k >= p PROVE k \in S <=> Occurs(t, old, l, k)
  <2>1. CASE k + l - 1 <= N
    <3>1. k \in p..(N - l + 1) /\ k \in Nat \ {0}
      BY <1>1, <1>6, <2>1
    <3>2. SubSeq(t, k, k + l - 1) = old <=> Occurs(t, old, l, k)
      BY <2>1, <3>1, OccursIs
    <3> QED
      BY <1>2, <3>1, <3>2
  <2>2. CASE ~(k + l - 1 <= N)
    <3>1. k \notin p..(N - l + 1)
      BY <1>1, <1>6, <2>2
    <3>2. ~Occurs(t, old, l, k)
      BY <1>1, <2>2, Zenon DEF Occurs
    <3> QED
      BY <1>2, <3>1, <3>2
  <2> QED
    BY <2>1, <2>2
<1>7. \/ S = {} /\ e = 0
      \/ e \in S /\ e # 0 /\ \A x \in S : e <= x
  BY <1>3, <1>5, FirstInIs
<1>8. CASE S = {} /\ e = 0
  <2>1. \A k \in Nat : k >= p => ~Occurs(t, old, l, k)
    BY <1>6, <1>8
  <2> QED
    BY <1>4, <1>8, <2>1, Zenon DEF FoundAt
<1>9. CASE e \in S /\ \A x \in S : e <= x
  <2>1. e \in Nat /\ e >= p
    BY <1>1, <1>2, <1>9
  <2>2. Occurs(t, old, l, e)
    BY <1>6, <1>9, <2>1
  <2>3. ASSUME NEW k \in Nat, p <= k, k < e PROVE ~Occurs(t, old, l, k)
    <3>1. k \notin S
      BY <1>9, <2>1, <2>3
    <3> QED
      BY <1>6, <2>3, <3>1
  <2> QED
    BY <1>4, <2>1, <2>2, <2>3, Zenon DEF FoundAt
<1> QED
  BY <1>7, <1>8, <1>9

(* One turn of the loop of StringReplace, from p on. *)
PlaceOf(s, old, all, p) == IF p = 1 \/ all THEN Find(s, old, p) ELSE 0
ReplaceStep(A, s, old, new, all, p) ==
    IF PlaceOf(s, old, all, p) = 0 THEN SubSeq(s, p, Len(s))
    ELSE SubSeq(s, p, PlaceOf(s, old, all, p) - 1) \o new \o A[PlaceOf(s, old, all, p) + Len(old)]
Replaces(A, s, old, new, all) ==
    A = [p \in 1..(Len(s) + 1) |-> ReplaceStep(A, s, old, new, all, p)]

LEMMA PlaceIs ==
    ASSUME NEW V, NEW s, NEW N, AText(s, V, N), NEW old, NEW l, AText(old, V, l), l # 0,
           NEW all, NEW p \in 1..(N + 1), PlaceOf(s, old, all, p) # 0
    PROVE  /\ (p = 1 \/ all)
           /\ FoundAt(PlaceOf(s, old, all, p), s, old, l, p)
           /\ PlaceOf(s, old, all, p) \in p..N
           /\ PlaceOf(s, old, all, p) + l \in (p + 1)..(N + 1)
<1>1. N \in Nat /\ N = Len(s) /\ l \in Nat \ {0}
  BY DEF AText
<1>2. (p = 1 \/ all) /\ PlaceOf(s, old, all, p) = Find(s, old, p)
  BY Zenon DEF PlaceOf
<1>3. PICK e : e = Find(s, old, p)
  OBVIOUS
<1>4. p \in Nat \ {0}
  BY <1>1
<1>5. FoundAt(e, s, old, l, p)
  BY <1>3, <1>4, FindIs
<1>6. e # 0
  BY <1>2, <1>3
<1>7. e \in Nat /\ e >= p /\ Occurs(s, old, l, e)
  BY <1>5, <1>6, Zenon DEF FoundAt
<1>8. e + l - 1 <= N
  BY <1>1, <1>7, Zenon DEF Occurs
<1>9. e \in p..N /\ e + l \in (p + 1)..(N + 1)
  BY <1>1, <1>4, <1>7, <1>8
<1> QED
  BY <1>2, <1>3, <1>5, <1>9

LEMMA ReplaceExists ==
    ASSUME NEW V, NEW s, NEW N, AText(s, V, N), NEW old, NEW l, AText(old, V, l), l # 0,
           NEW new, NEW all
    PROVE  \E A : Replaces(A, s, old, new, all)
<1>1. N \in Nat /\ N = Len(s) /\ l = Len(old)
  BY DEF AText
<1>2. PICK K \in Nat : K = N + 1
  BY <1>1
<1>3. PICK place : place = [p \in 1..K |-> PlaceOf(s, old, all, p)]
  OBVIOUS
<1>4. PICK next : next = [p \in 1..K |-> IF place[p] = 0 THEN 0 ELSE place[p] + l]
  OBVIOUS
<1>5. PICK value : value = [p \in 1..K |-> IF place[p] = 0 THEN SubSeq(s, p, N)
                                           ELSE SubSeq(s, p, place[p] - 1) \o new]
  OBVIOUS
<1>6. ASSUME NEW p \in 1..K
      PROVE  /\ place[p] = PlaceOf(s, old, all, p)
             /\ place[p] = 0 => next[p] = 0 /\ value[p] = SubSeq(s, p, N)
             /\ place[p] # 0 => /\ next[p] = place[p] + l /\ next[p] \in (p + 1)..K /\ next[p] # 0
                                /\ value[p] = SubSeq(s, p, place[p] - 1) \o new
  <2>1. place[p] = PlaceOf(s, old, all, p)
    BY <1>3
  <2>2. place[p] = 0 => next[p] = 0 /\ value[p] = SubSeq(s, p, N)
    BY <1>4, <1>5, Zenon
  <2>3. place[p] # 0 => next[p] = place[p] + l /\ value[p] = SubSeq(s, p, place[p] - 1) \o new
    BY <1>4, <1>5, Zenon
  <2>4. place[p] # 0 => place[p] + l \in (p + 1)..K
    BY <1>2, <2>1, PlaceIs
  <2>5. place[p] # 0 => next[p] # 0
    BY <2>3, <2>4
  <2> QED
    BY <2>1, <2>2, <2>3, <2>4, <2>5
<1>7. Forward(next, K)
  <2>1. \A p \in 1..K : next[p] = 0 \/ next[p] \in (p + 1)..K
    BY <1>6
  <2> QED
    BY <2>1, Zenon DEF Forward
<1>8. \E A : Linked(A, next, value, {}, K)
  BY <1>7, LinksExist
<1>9. PICK A : A = [p \in 1..K |-> Link(A, next, value, {}, p)]
  BY <1>8, Zenon DEF Linked
<1>10. ASSUME NEW p \in 1..K PROVE Link(A, next, value, {}, p) = ReplaceStep(A, s, old, new, all, p)
  <2>1. CASE place[p] = 0
    <3>1. next[p] = 0 /\ value[p] = SubSeq(s, p, N) /\ PlaceOf(s, old, all, p) = 0
      BY <1>6, <2>1
    <3> QED
      BY <1>1, <3>1, Zenon DEF Link, ReplaceStep
  <2>2. CASE place[p] # 0
    <3>1. /\ next[p] = PlaceOf(s, old, all, p) + l /\ next[p] # 0
          /\ value[p] = SubSeq(s, p, PlaceOf(s, old, all, p) - 1) \o new
          /\ PlaceOf(s, old, all, p) # 0
      BY <1>6, <2>2
    <3>2. p \notin {}
      OBVIOUS
    <3> QED
      BY <1>1, <3>1, <3>2, Zenon DEF Link, ReplaceStep
  <2> QED
    BY <2>1, <2>2
<1>11. A = [p \in 1..K |-> ReplaceStep(A, s, old, new, all, p)]
  BY <1>9, <1>10
<1> QED
  BY <1>1, <1>2, <1>11, Zenon DEF Replaces

LEMMA ReplaceIs ==
    ASSUME NEW V, NEW s, NEW N, AText(s, V, N), NEW old, NEW l, AText(old, V, l), l # 0,
           NEW new, NEW all
    PROVE  \E A : Replaces(A, s, old, new, all) /\ StringReplace(s, old, new, all) = A[1]
<1>1. PICK A : A = CHOOSE B : Replaces(B, s, old, new, all)
  OBVIOUS
<1>2. Replaces(A, s, old, new, all)
  <2>1. \E B : Replaces(B, s, old, new, all)
    BY ReplaceExists
  <2> QED
    BY <1>1, <2>1, Zenon
<1>3. old # << >>
  <2>1. Len(<< >>) = 0 /\ l = Len(old)
    BY DEF AText
  <2> QED
    BY <2>1
<1>4. StringReplace(s, old, new, all) = A[1]
  BY <1>1, <1>3, Zenon DEF StringReplace, Replaces, ReplaceStep, PlaceOf
<1> QED
  BY <1>2, <1>4

-----------------------------------------------------------------------------
(* A text in which a mark takes the place of what is replaced. *)
WithMarks(V, s, N, old, l, mark, all, A) ==
    /\ AText(s, V, N) /\ AText(old, V, l) /\ l # 0
    /\ mark \in V /\ \A k \in 1..N : s[k] # mark
    /\ Replaces(A, s, old, << mark >>, all)

Kept(A, s, N, old, l, all, p) ==
    /\ A[p] = SubSeq(s, p, N)
    /\ (p = 1 \/ all) => \A k \in Nat : k >= p => ~Occurs(s, old, l, k)
Put(A, s, N, old, l, mark, all, p, e) ==
    /\ e \in p..N /\ e + l \in (p + 1)..(N + 1) /\ Occurs(s, old, l, e)
    /\ \A k \in Nat : (p <= k /\ k < e) => ~Occurs(s, old, l, k)
    /\ (p = 1 \/ all)
    /\ A[p] = SubSeq(s, p, e - 1) \o << mark >> \o A[e + l]

LEMMA ReplaceCases ==
    ASSUME NEW V, NEW s, NEW N, NEW old, NEW l, NEW mark, NEW all, NEW A,
           WithMarks(V, s, N, old, l, mark, all, A), NEW p \in 1..(N + 1)
    PROVE  \/ Kept(A, s, N, old, l, all, p)
           \/ \E e : Put(A, s, N, old, l, mark, all, p, e)
<1>1. /\ AText(s, V, N) /\ AText(old, V, l) /\ l # 0 /\ N = Len(s) /\ l = Len(old)
      /\ N \in Nat
  BY DEF WithMarks, AText
<1>2. A = [q \in 1..(N + 1) |-> ReplaceStep(A, s, old, << mark >>, all, q)]
  BY <1>1, Zenon DEF WithMarks, Replaces
<1>3. A[p] = ReplaceStep(A, s, old, << mark >>, all, p)
  BY <1>2
<1>4. PICK e : e = PlaceOf(s, old, all, p)
  OBVIOUS
<1>5. p \in Nat \ {0}
  BY <1>1
<1>6. CASE e = 0
  <2>1. A[p] = SubSeq(s, p, N)
    BY <1>1, <1>3, <1>4, <1>6, Zenon DEF ReplaceStep
  <2>2. ASSUME p = 1 \/ all PROVE \A k \in Nat : k >= p => ~Occurs(s, old, l, k)
    <3>1. Find(s, old, p) = 0
      BY <1>4, <1>6, <2>2, Zenon DEF PlaceOf
    <3>2. FoundAt(0, s, old, l, p)
      BY <1>1, <1>5, <3>1, FindIs
    <3>3. ~(0 >= p)
      BY <1>5
    <3> QED
      BY <3>2, <3>3, Zenon DEF FoundAt
  <2> QED
    BY <2>1, <2>2, Zenon DEF Kept
<1>7. CASE e # 0
  <2>1. /\ (p = 1 \/ all) /\ FoundAt(e, s, old, l, p)
        /\ e \in p..N /\ e + l \in (p + 1)..(N + 1)
    BY <1>1, <1>4, <1>7, PlaceIs
  <2>2. A[p] = SubSeq(s, p, e - 1) \o << mark >> \o A[e + l]
    BY <1>1, <1>3, <1>4, <1>7, Zenon DEF ReplaceStep
  <2>3. /\ Occurs(s, old, l, e)
        /\ \A k \in Nat : (p <= k /\ k < e) => ~Occurs(s, old, l, k)
    BY <1>7, <2>1, Zenon DEF FoundAt
  <2> QED
    BY <2>1, <2>2, <2>3, Zenon DEF Put
<1> QED
  BY <1>6, <1>7

(* y is s from p to before e, the mark, and z. *)
Made(y, s, mark, z, V, p, e, d) ==
    /\ y \in Seq(V) /\ d \in Nat /\ d = Len(z) /\ Len(y) = (e - p) + 1 + d
    /\ \A k \in 1..(e - p) : y[k] = s[p + k - 1]
    /\ y[(e - p) + 1] = mark
    /\ \A k \in 1..d : y[(e - p) + 1 + k] = z[k]

LEMMA MadeSo ==
    ASSUME NEW V, NEW s \in Seq(V), NEW N \in Nat, N = Len(s), NEW mark \in V, NEW z \in Seq(V),
           NEW p \in 1..(N + 1), NEW e \in p..N
    PROVE  Made(SubSeq(s, p, e - 1) \o << mark >> \o z, s, mark, z, V, p, e, Len(z))
<1>1. PICK q \in Nat : q = e - 1
  <2>1. e - 1 \in Nat
    OBVIOUS
  <2> QED
    BY <2>1, Zenon
<1>2. PICK n \in Nat : n = e - p
  <2>1. e - p \in Nat
    OBVIOUS
  <2> QED
    BY <2>1, Zenon
<1>3. PICK x : x = SubSeq(s, p, q)
  OBVIOUS
<1>4. x \in Seq(V) /\ Len(x) = n /\ \A k \in 1..n : x[k] = s[p + k - 1]
  <2>1. p \in Nat \ {0} /\ q <= Len(s) /\ p <= q + 1 /\ q - p + 1 = n
    BY <1>1, <1>2
  <2>2. PartOf(V, s, p, q)
    BY <2>1, SubIs
  <2> QED
    BY <1>3, <2>1, <2>2 DEF PartOf
<1>5. PICK d \in Nat : d = Len(z)
  BY LenProperties
<1>6. PICK D : D = << mark >>
  OBVIOUS
<1>7. D \in Seq(V) /\ 1 = Len(D) /\ D[1] = mark
  BY <1>6
<1>8. PICK y : y = x \o (D \o z)
  OBVIOUS
<1>9. InThree(y, x, D, z, V, n, 1, d)
  BY <1>4, <1>5, <1>7, <1>8, ThreeJoined
<1>10. /\ y \in Seq(V) /\ Len(y) = n + 1 + d
       /\ \A k \in 1..n : y[k] = x[k]
       /\ \A k \in 1..1 : y[n + k] = D[k]
       /\ \A k \in 1..d : y[n + 1 + k] = z[k]
  BY <1>9, Zenon DEF InThree
<1>11. y[n + 1] = mark
  BY <1>7, <1>10
<1>12. \A k \in 1..n : y[k] = s[p + k - 1]
  BY <1>4, <1>10
<1>13. (x \o D) \o z = y
  <2>1. Regroups(x, D, z)
    BY <1>4, <1>7, Regrouped
  <2> QED
    BY <1>8, <2>1, Zenon DEF Regroups
<1>14. Made(y, s, mark, z, V, p, e, d)
  BY <1>2, <1>5, <1>10, <1>11, <1>12, Zenon DEF Made
<1> QED
  BY <1>1, <1>3, <1>5, <1>6, <1>13, <1>14, Zenon

LEMMA ReplacedTexts ==
    ASSUME NEW V, NEW s, NEW N, NEW old, NEW l, NEW mark, NEW all, NEW A,
           WithMarks(V, s, N, old, l, mark, all, A)
    PROVE  \A p \in 1..(N + 1) : A[p] \in Seq(V)
<1>1. N \in Nat /\ s \in Seq(V) /\ N = Len(s) /\ mark \in V
  BY DEF WithMarks, AText
<1>2. PICK K \in Nat : K = N + 1
  BY <1>1
<1>3. PICK S : S = {p \in 1..K : A[p] \in Seq(V)}
  OBVIOUS
<1>4. ASSUME NEW p \in 1..K, \A q \in (p + 1)..K : q \in S PROVE p \in S
  <2>1. CASE Kept(A, s, N, old, l, all, p)
    <3>1. p \in Nat \ {0} /\ N <= Len(s) /\ p <= N + 1
      BY <1>1, <1>2
    <3>2. PartOf(V, s, p, N)
      BY <1>1, <3>1, SubIs
    <3> QED
      BY <1>3, <2>1, <3>2, Zenon DEF PartOf, Kept
  <2>2. ASSUME NEW e, Put(A, s, N, old, l, mark, all, p, e) PROVE p \in S
    <3>1. /\ e \in p..N /\ e + l \in (p + 1)..K
          /\ A[p] = SubSeq(s, p, e - 1) \o << mark >> \o A[e + l]
      BY <1>2, <2>2, Zenon DEF Put
    <3>2. A[e + l] \in Seq(V)
      BY <1>3, <1>4, <3>1
    <3>3. PICK z : z = A[e + l]
      OBVIOUS
    <3>4. Made(A[p], s, mark, z, V, p, e, Len(z))
      BY <1>1, <1>2, <3>1, <3>2, <3>3, MadeSo
    <3> QED
      BY <1>3, <3>4, Zenon DEF Made
  <2>3. p \in 1..(N + 1)
    BY <1>2
  <2> QED
    BY <2>1, <2>2, <2>3, ReplaceCases
<1>5. 1..K \subseteq S
  BY <1>2, <1>4, Downward
<1> QED
  BY <1>2, <1>3, <1>5

(* The cases again, element by element. *)
KeptSo(A, s, N, V, p) ==
    /\ A[p] \in Seq(V) /\ Len(A[p]) = N - p + 1
    /\ \A k \in 1..(N - p + 1) : A[p][k] = s[p + k - 1]

LEMMA KeptIs ==
    ASSUME NEW V, NEW s, NEW N, NEW old, NEW l, NEW mark, NEW all, NEW A,
           WithMarks(V, s, N, old, l, mark, all, A), NEW p \in 1..(N + 1),
           Kept(A, s, N, old, l, all, p)
    PROVE  KeptSo(A, s, N, V, p)
<1>1. N \in Nat /\ s \in Seq(V) /\ N = Len(s)
  BY DEF WithMarks, AText
<1>2. p \in Nat \ {0} /\ N <= Len(s) /\ p <= N + 1
  BY <1>1
<1>3. PartOf(V, s, p, N)
  BY <1>1, <1>2, SubIs
<1>4. A[p] = SubSeq(s, p, N)
  BY Zenon DEF Kept
<1> QED
  BY <1>3, <1>4, Zenon DEF PartOf, KeptSo

LEMMA PutIs ==
    ASSUME NEW V, NEW s, NEW N, NEW old, NEW l, NEW mark, NEW all, NEW A,
           WithMarks(V, s, N, old, l, mark, all, A), NEW p \in 1..(N + 1),
           NEW e, Put(A, s, N, old, l, mark, all, p, e)
    PROVE  Made(A[p], s, mark, A[e + l], V, p, e, Len(A[e + l]))
<1>1. N \in Nat /\ s \in Seq(V) /\ N = Len(s) /\ mark \in V
  BY DEF WithMarks, AText
<1>2. /\ e \in p..N /\ e + l \in (p + 1)..(N + 1)
      /\ A[p] = SubSeq(s, p, e - 1) \o << mark >> \o A[e + l]
  BY Zenon DEF Put
<1>3. e + l \in 1..(N + 1)
  BY <1>1, <1>2
<1>4. PICK z : z = A[e + l]
  OBVIOUS
<1>5. z \in Seq(V)
  BY <1>3, <1>4, ReplacedTexts
<1>6. Made(A[p], s, mark, z, V, p, e, Len(z))
  BY <1>1, <1>2, <1>4, <1>5, MadeSo
<1> QED
  BY <1>4, <1>6, Zenon

-----------------------------------------------------------------------------
NeverIn(y, old, l) == \A k \in Nat \ {0} : ~Occurs(y, old, l, k)

LEMMA NoneInKept ==
    ASSUME NEW V, NEW s, NEW N \in Nat, N = Len(s), NEW old, NEW l \in Nat \ {0},
           NEW A, NEW p \in 1..(N + 1), KeptSo(A, s, N, V, p),
           \A k \in Nat : k >= p => ~Occurs(s, old, l, k)
    PROVE  NeverIn(A[p], old, l)
<1>1. PICK y : y = A[p]
  OBVIOUS
<1>2. /\ y \in Seq(V) /\ Len(y) = N - p + 1
      /\ \A k \in 1..(N - p + 1) : y[k] = s[p + k - 1]
  BY <1>1, Zenon DEF KeptSo
<1>3. ASSUME NEW k \in Nat \ {0}, Occurs(y, old, l, k) PROVE FALSE
  <2>1. k + l - 1 <= Len(y) /\ \A j \in 1..l : y[k + j - 1] = old[j]
    BY <1>3, Zenon DEF Occurs
  <2>2. PICK i \in Nat : i = p + k - 1
    <3>1. p + k - 1 \in Nat
      OBVIOUS
    <3> QED
      BY <3>1, Zenon
  <2>3. i >= p /\ i + l - 1 <= N
    BY <1>2, <2>1, <2>2, SMTT(30)
  <2>4. ASSUME NEW j \in 1..l PROVE s[i + j - 1] = old[j]
    <3>1. k + j - 1 \in 1..(N - p + 1) /\ p + (k + j - 1) - 1 = i + j - 1
      BY <1>2, <2>1, <2>2
    <3> QED
      BY <1>2, <2>1, <3>1
  <2>5. Occurs(s, old, l, i)
    BY <2>3, <2>4 DEF Occurs
  <2> QED
    BY <2>3, <2>5
<1> QED
  BY <1>1, <1>3, Zenon DEF NeverIn

LEMMA NoneInMade ==
    ASSUME NEW V, NEW s, NEW N \in Nat, N = Len(s), NEW old, NEW l \in Nat \ {0}, NEW mark,
           NEW y, NEW z, NEW d, NEW p \in 1..(N + 1), NEW e \in p..N, Made(y, s, mark, z, V, p, e, d),
           \A k \in Nat : (p <= k /\ k < e) => ~Occurs(s, old, l, k),
           \A j \in 1..l : old[j] # mark, NeverIn(z, old, l)
    PROVE  NeverIn(y, old, l)
<1>1. PICK n \in Nat : n = e - p
  <2>1. e - p \in Nat
    OBVIOUS
  <2> QED
    BY <2>1, Zenon
<1>2. /\ d \in Nat /\ d = Len(z) /\ Len(y) = n + 1 + d
      /\ \A k \in 1..n : y[k] = s[p + k - 1]
      /\ y[n + 1] = mark
      /\ \A k \in 1..d : y[n + 1 + k] = z[k]
  BY <1>1, Zenon DEF Made
<1>3. ASSUME NEW k \in Nat \ {0}, Occurs(y, old, l, k) PROVE FALSE
  <2>1. k + l - 1 <= n + 1 + d /\ \A j \in 1..l : y[k + j - 1] = old[j]
    BY <1>2, <1>3, Zenon DEF Occurs
  <2>2. CASE k + l - 1 <= n
    <3>1. PICK i \in Nat : i = p + k - 1
      <4>1. p + k - 1 \in Nat
        OBVIOUS
      <4> QED
        BY <4>1, Zenon
    <3>2. p <= i /\ i < e /\ i + l - 1 <= N
      BY <1>1, <2>2, <3>1
    <3>3. ASSUME NEW j \in 1..l PROVE s[i + j - 1] = old[j]
      <4>1. k + j - 1 \in 1..n /\ p + (k + j - 1) - 1 = i + j - 1
        BY <2>2, <3>1
      <4> QED
        BY <1>2, <2>1, <4>1
    <3>4. Occurs(s, old, l, i)
      BY <3>2, <3>3 DEF Occurs
    <3> QED
      BY <3>2, <3>4
  <2>3. CASE k <= n + 1 /\ ~(k + l - 1 <= n)
    <3>1. PICK j \in 1..l : k + j - 1 = n + 1
      <4>1. n + 2 - k \in 1..l /\ k + (n + 2 - k) - 1 = n + 1
        BY <2>3
      <4> QED
        BY <4>1, Zenon
    <3> QED
      BY <1>2, <2>1, <3>1, ZenonT(40)
  <2>4. CASE ~(k <= n + 1)
    <3>1. PICK i \in Nat \ {0} : i = k - (n + 1)
      <4>1. k - (n + 1) \in Nat \ {0}
        BY <2>4
      <4> QED
        BY <4>1, Zenon
    <3>2. i + l - 1 <= d
      BY <2>1, <3>1, <1>2
    <3>3. ASSUME NEW j \in 1..l PROVE z[i + j - 1] = old[j]
      <4>1. i + j - 1 \in 1..d /\ n + 1 + (i + j - 1) = k + j - 1
        BY <1>2, <3>1, <3>2
      <4> QED
        BY <1>2, <2>1, <4>1
    <3>4. Occurs(z, old, l, i)
      BY <1>2, <3>2, <3>3 DEF Occurs
    <3> QED
      BY <3>4, Zenon DEF NeverIn
  <2> QED
    BY <2>2, <2>3, <2>4
<1> QED
  BY <1>3, Zenon DEF NeverIn

LEMMA NoMarkReplaced ==
    ASSUME NEW V, NEW s, NEW N, NEW old, NEW l, NEW mark, NEW all, NEW A,
           WithMarks(V, s, N, old, l, mark, all, A), NEW p \in 1..(N + 1),
           NEW e, Put(A, s, N, old, l, mark, all, p, e)
    PROVE  \A j \in 1..l : old[j] # mark
<1>1. N \in Nat /\ N = Len(s) /\ l \in Nat \ {0} /\ \A k \in 1..N : s[k] # mark
  BY DEF WithMarks, AText
<1>2. e \in p..N /\ Occurs(s, old, l, e)
  BY Zenon DEF Put
<1>3. e + l - 1 <= N /\ \A j \in 1..l : s[e + j - 1] = old[j]
  BY <1>1, <1>2, Zenon DEF Occurs
<1>4. ASSUME NEW j \in 1..l PROVE old[j] # mark
  <2>1. e + j - 1 \in 1..N
    BY <1>1, <1>2, <1>3
  <2> QED
    BY <1>1, <1>3, <2>1
<1> QED
  BY <1>4

(* When every occurrence is replaced, none is left, nor is one made. *)
LEMMA NoneLeft ==
    ASSUME NEW V, NEW s, NEW N, NEW old, NEW l, NEW mark, NEW all, NEW A,
           WithMarks(V, s, N, old, l, mark, all, A), all
    PROVE  \A p \in 1..(N + 1) : NeverIn(A[p], old, l)
<1>1. N \in Nat /\ N = Len(s) /\ l \in Nat \ {0}
  BY DEF WithMarks, AText
<1>2. PICK K \in Nat : K = N + 1
  BY <1>1
<1>3. PICK S : S = {p \in 1..K : NeverIn(A[p], old, l)}
  OBVIOUS
<1>4. ASSUME NEW p \in 1..K, \A q \in (p + 1)..K : q \in S PROVE p \in S
  <2>0. p \in 1..(N + 1)
    BY <1>2
  <2>1. CASE Kept(A, s, N, old, l, all, p)
    <3>1. KeptSo(A, s, N, V, p)
      BY <2>0, <2>1, KeptIs, Zenon
    <3>2. \A k \in Nat : k >= p => ~Occurs(s, old, l, k)
      BY <2>1, Zenon DEF Kept
    <3>3. NeverIn(A[p], old, l)
      BY <1>1, <2>0, <3>1, <3>2, NoneInKept
    <3> QED
      BY <1>3, <3>3
  <2>2. ASSUME NEW e, Put(A, s, N, old, l, mark, all, p, e) PROVE p \in S
    <3>1. /\ e \in p..N /\ e + l \in (p + 1)..K
          /\ \A k \in Nat : (p <= k /\ k < e) => ~Occurs(s, old, l, k)
      BY <1>2, <2>2, Zenon DEF Put
    <3>2. Made(A[p], s, mark, A[e + l], V, p, e, Len(A[e + l]))
      BY <2>0, <2>2, PutIs, Zenon
    <3>3. \A j \in 1..l : old[j] # mark
      BY <2>0, <2>2, NoMarkReplaced
    <3>4. PICK z : z = A[e + l]
      OBVIOUS
    <3>5. NeverIn(z, old, l)
      BY <1>3, <1>4, <3>1, <3>4
    <3>6. Made(A[p], s, mark, z, V, p, e, Len(z))
      BY <3>2, <3>4
    <3>7. NeverIn(A[p], old, l)
      BY <1>1, <2>0, <3>1, <3>3, <3>5, <3>6, NoneInMade
    <3> QED
      BY <1>3, <3>7
  <2> QED
    BY <2>0, <2>1, <2>2, ReplaceCases
<1>5. 1..K \subseteq S
  BY <1>2, <1>4, Downward
<1> QED
  BY <1>2, <1>3, <1>5

-----------------------------------------------------------------------------
(* The text behind a place, and what replacing the marks in it gives. *)
ReadsOn(r, q, y) == Len(r) = q - 1 + Len(y) /\ \A k \in 1..Len(y) : r[q + k - 1] = y[k]
Unmarks(V, s, N, old, l, mark, r, M, B) ==
    /\ AText(s, V, N) /\ AText(old, V, l) /\ l # 0
    /\ mark \in V /\ \A k \in 1..N : s[k] # mark
    /\ AText(r, V, M) /\ Replaces(B, r, << mark >>, old, TRUE)
FirstMark(e, r, M, mark, q) ==
    \/ e = 0 /\ \A k \in q..M : r[k] # mark
    \/ e \in q..M /\ r[e] = mark /\ \A k \in q..M : k < e => r[k] # mark

LEMMA FirstMarkIs ==
    ASSUME NEW V, NEW r, NEW M, AText(r, V, M), NEW mark \in V, NEW q \in Nat \ {0}
    PROVE  FirstMark(Find(r, << mark >>, q), r, M, mark, q)
<1>1. M \in Nat /\ M = Len(r)
  BY DEF AText
<1>2. PICK old : old = << mark >>
  OBVIOUS
<1>3. old[1] = mark /\ AText(old, V, 1)
  BY <1>2 DEF AText
<1>4. PICK e : e = Find(r, old, q)
  OBVIOUS
<1>5. FoundAt(e, r, old, 1, q)
  BY <1>3, <1>4, FindIs
<1>6. ASSUME NEW k \in Nat PROVE Occurs(r, old, 1, k) <=> (k <= M /\ r[k] = mark)
  <2>1. (\A j \in 1..1 : r[k + j - 1] = old[j]) <=> r[k] = mark
    <3>1. \A j \in 1..1 : j = 1 /\ k + j - 1 = k
      OBVIOUS
    <3>2. 1 \in 1..1 /\ k + 1 - 1 = k
      OBVIOUS
    <3> QED
      BY <1>3, <3>1, <3>2
  <2>2. k + 1 - 1 <= Len(r) <=> k <= M
    BY <1>1
  <2> QED
    BY <2>1, <2>2, Zenon DEF Occurs
<1>7. CASE e = 0 /\ \A k \in Nat : k >= q => ~Occurs(r, old, 1, k)
  <2>1. \A k \in q..M : r[k] # mark
    BY <1>1, <1>6, <1>7
  <2> QED
    BY <1>2, <1>4, <1>7, <2>1, Zenon DEF FirstMark
<1>8. CASE /\ e \in Nat /\ e >= q /\ Occurs(r, old, 1, e)
           /\ \A k \in Nat : (q <= k /\ k < e) => ~Occurs(r, old, 1, k)
  <2>1. e \in q..M /\ r[e] = mark
    BY <1>1, <1>6, <1>8
  <2>2. \A k \in q..M : k < e => r[k] # mark
    BY <1>1, <1>6, <1>8
  <2> QED
    BY <1>2, <1>4, <2>1, <2>2, Zenon DEF FirstMark
<1> QED
  BY <1>5, <1>7, <1>8, Zenon DEF FoundAt

LEMMA UnmarkStep ==
    ASSUME NEW V, NEW s, NEW N, NEW old, NEW l, NEW mark, NEW r, NEW M, NEW B,
           Unmarks(V, s, N, old, l, mark, r, M, B), NEW q \in 1..(M + 1)
    PROVE  \E e : /\ FirstMark(e, r, M, mark, q)
                  /\ B[q] = IF e = 0 THEN SubSeq(r, q, M)
                            ELSE SubSeq(r, q, e - 1) \o old \o B[e + 1]
<1>1. M \in Nat /\ M = Len(r) /\ AText(r, V, M) /\ mark \in V
  BY DEF Unmarks, AText
<1>2. B = [p \in 1..(M + 1) |-> ReplaceStep(B, r, << mark >>, old, TRUE, p)]
  BY <1>1, Zenon DEF Unmarks, Replaces
<1>3. B[q] = ReplaceStep(B, r, << mark >>, old, TRUE, q)
  BY <1>2
<1>4. PICK e : e = Find(r, << mark >>, q)
  OBVIOUS
<1>5. PlaceOf(r, << mark >>, TRUE, q) = e
  BY <1>4, Zenon DEF PlaceOf
<1>6. q \in Nat \ {0}
  BY <1>1
<1>7. FirstMark(e, r, M, mark, q)
  BY <1>1, <1>4, <1>6, FirstMarkIs
<1>8. Len(<< mark >>) = 1
  OBVIOUS
<1>9. B[q] = IF e = 0 THEN SubSeq(r, q, M) ELSE SubSeq(r, q, e - 1) \o old \o B[e + 1]
  BY <1>1, <1>3, <1>5, <1>8, Zenon DEF ReplaceStep
<1> QED
  BY <1>7, <1>9

LEMMA BackKept ==
    ASSUME NEW V, NEW s, NEW N, NEW old, NEW l, NEW mark, NEW r, NEW M, NEW B,
           Unmarks(V, s, N, old, l, mark, r, M, B), NEW A, NEW p \in 1..(N + 1),
           KeptSo(A, s, N, V, p), NEW q \in Nat \ {0}, ReadsOn(r, q, A[p])
    PROVE  B[q] = SubSeq(s, p, N)
<1>1. /\ s \in Seq(V) /\ N \in Nat /\ N = Len(s) /\ \A k \in 1..N : s[k] # mark
      /\ r \in Seq(V) /\ M \in Nat /\ M = Len(r)
  BY DEF Unmarks, AText
<1>2. PICK y : y = A[p]
  OBVIOUS
<1>3. Len(y) = N - p + 1 /\ \A k \in 1..(N - p + 1) : y[k] = s[p + k - 1]
  BY <1>2, Zenon DEF KeptSo
<1>4. M = q - 1 + Len(y) /\ \A k \in 1..Len(y) : r[q + k - 1] = y[k]
  BY <1>1, <1>2, Zenon DEF ReadsOn
<1>5. PICK n \in Nat : n = N - p + 1
  <2>1. N - p + 1 \in Nat
    BY <1>1
  <2> QED
    BY <2>1, Zenon
<1>6. \A k \in 1..n : r[q + k - 1] = s[p + k - 1]
  BY <1>3, <1>4, <1>5
<1>7. M = q - 1 + n /\ q \in 1..(M + 1)
  BY <1>1, <1>3, <1>4, <1>5
<1>8. ASSUME NEW k \in q..M PROVE r[k] # mark
  <2>1. PICK j \in 1..n : k = q + j - 1
    <3>1. k - q + 1 \in 1..n /\ k = q + (k - q + 1) - 1
      BY <1>7
    <3> QED
      BY <3>1, Zenon
  <2>2. p + j - 1 \in 1..N
    BY <1>1, <1>5
  <2> QED
    BY <1>1, <1>6, <2>1, <2>2
<1>9. PICK e : /\ FirstMark(e, r, M, mark, q)
               /\ B[q] = IF e = 0 THEN SubSeq(r, q, M) ELSE SubSeq(r, q, e - 1) \o old \o B[e + 1]
  BY <1>7, UnmarkStep
<1>10. e = 0
  BY <1>8, <1>9, Zenon DEF FirstMark
<1>11. SubSeq(r, q, M) = SubSeq(s, p, N)
  <2>1. p \in Nat \ {0} /\ N <= Len(s) /\ p <= N + 1 /\ M <= Len(r) /\ q <= M + 1
    BY <1>1, <1>7
  <2>2. PartOf(V, s, p, N)
    BY <1>1, <2>1, SubIs
  <2>3. PartOf(V, r, q, M)
    BY <1>1, <2>1, SubIs
  <2>4. PICK a, b : a = SubSeq(s, p, N) /\ b = SubSeq(r, q, M)
    OBVIOUS
  <2>5. N - p + 1 = n /\ M - q + 1 = n
    BY <1>5, <1>7
  <2>6. /\ a \in Seq(V) /\ Len(a) = n /\ \A k \in 1..n : a[k] = s[p + k - 1]
        /\ b \in Seq(V) /\ Len(b) = n /\ \A k \in 1..n : b[k] = r[q + k - 1]
    BY <2>2, <2>3, <2>4, <2>5 DEF PartOf
  <2>7. \A k \in 1..n : b[k] = a[k]
    BY <1>6, <2>6
  <2>8. a = b
    BY <2>6, <2>7, SeqEqual
  <2> QED
    BY <2>4, <2>8
<1> QED
  BY <1>9, <1>10, <1>11, Zenon

Threes(s, p, e, h, f, N) ==
    SubSeq(s, p, e - 1) \o SubSeq(s, e, h) \o SubSeq(s, f, N) = SubSeq(s, p, N)

LEMMA ThreeParts ==
    ASSUME NEW V, NEW s \in Seq(V), NEW N \in Nat, N = Len(s),
           NEW p \in 1..(N + 1), NEW e \in p..N, NEW f \in e..(N + 1), NEW h, h = f - 1
    PROVE  Threes(s, p, e, h, f, N)
<1>1. PICK k \in Nat : k = e - 1
  <2>1. e - 1 \in Nat
    OBVIOUS
  <2> QED
    BY <2>1, Zenon
<1>2. PICK m \in Nat : m = f - 1
  <2>1. f - 1 \in Nat
    OBVIOUS
  <2> QED
    BY <2>1, Zenon
<1>3. /\ p \in 1..(Len(s) + 1) /\ k \in (p - 1)..Len(s) /\ m \in k..Len(s) /\ m \in (p - 1)..Len(s)
      /\ N \in m..Len(s) /\ k + 1 = e /\ m + 1 = f
  BY <1>1, <1>2
<1>4. SubSeq(s, p, k) \o SubSeq(s, k + 1, m) = SubSeq(s, p, m)
  BY <1>3, ConcatAdjacentSubSeq
<1>5. SubSeq(s, p, m) \o SubSeq(s, m + 1, N) = SubSeq(s, p, N)
  BY <1>3, ConcatAdjacentSubSeq
<1> QED
  BY <1>1, <1>2, <1>3, <1>4, <1>5, Zenon DEF Threes

IsThere(t, k, l, old) == SubSeq(t, k, k + l - 1) = old

LEMMA OccursThere ==
    ASSUME NEW V, NEW t, NEW N, AText(t, V, N), NEW old, NEW l, AText(old, V, l), l # 0,
           NEW k \in Nat \ {0}, Occurs(t, old, l, k)
    PROVE  IsThere(t, k, l, old)
<1>1. N = Len(t)
  BY DEF AText
<1>2. k + l - 1 <= N
  BY <1>1, Zenon DEF Occurs
<1>3. SubSeq(t, k, k + l - 1) = old <=> Occurs(t, old, l, k)
  BY <1>2, OccursIs
<1> QED
  BY <1>3, Zenon DEF IsThere

GoesBack(B, r, z, s, f, N) == \A i \in Nat \ {0} : ReadsOn(r, i, z) => B[i] = SubSeq(s, f, N)

LEMMA BackPut ==
    ASSUME NEW V, NEW s, NEW N, NEW old, NEW l, NEW mark, NEW r, NEW M, NEW B,
           Unmarks(V, s, N, old, l, mark, r, M, B), NEW y, NEW z, NEW d, NEW p \in 1..(N + 1),
           NEW e \in p..N, Made(y, s, mark, z, V, p, e, d), Occurs(s, old, l, e),
           e + l \in (p + 1)..(N + 1), GoesBack(B, r, z, s, e + l, N)
    PROVE  GoesBack(B, r, y, s, p, N)
<1> SUFFICES ASSUME NEW q \in Nat \ {0}, ReadsOn(r, q, y) PROVE B[q] = SubSeq(s, p, N)
  BY Zenon DEF GoesBack
<1>1. /\ s \in Seq(V) /\ N \in Nat /\ N = Len(s) /\ \A k \in 1..N : s[k] # mark
      /\ r \in Seq(V) /\ M \in Nat /\ M = Len(r) /\ AText(s, V, N) /\ AText(old, V, l)
      /\ l \in Nat \ {0}
  BY DEF Unmarks, AText
<1>2. PICK n \in Nat : n = e - p
  <2>1. e - p \in Nat
    BY <1>1
  <2> QED
    BY <2>1, Zenon
<1>3. /\ d \in Nat /\ d = Len(z) /\ Len(y) = n + 1 + d
      /\ \A k \in 1..n : y[k] = s[p + k - 1]
      /\ y[n + 1] = mark
      /\ \A k \in 1..d : y[n + 1 + k] = z[k]
  BY <1>2, Zenon DEF Made
<1>4. M = q - 1 + Len(y) /\ \A k \in 1..Len(y) : r[q + k - 1] = y[k]
  BY <1>1, Zenon DEF ReadsOn
<1>5. M = q + n + d /\ \A k \in 1..(n + 1 + d) : r[q + k - 1] = y[k]
  BY <1>3, <1>4
<1>6. PICK i \in Nat \ {0} : i = q + n + 1
  OBVIOUS
<1>7. ReadsOn(r, i, z)
  <2>1. Len(r) = i - 1 + Len(z)
    BY <1>1, <1>3, <1>5, <1>6
  <2>2. ASSUME NEW k \in 1..d PROVE r[i + k - 1] = z[k]
    <3>1. n + 1 + k \in 1..(n + 1 + d) /\ q + (n + 1 + k) - 1 = i + k - 1
      BY <1>3, <1>6
    <3> QED
      BY <1>3, <1>5, <3>1
  <2> QED
    BY <1>3, <2>1, <2>2, Zenon DEF ReadsOn
<1>8. B[i] = SubSeq(s, e + l, N)
  BY <1>7, Zenon DEF GoesBack
<1>9. ASSUME NEW k \in 1..n PROVE r[q + k - 1] = s[p + k - 1]
  <2>1. k \in 1..(n + 1 + d)
    BY <1>3
  <2>2. r[q + k - 1] = y[k]
    BY <1>5, <2>1, Zenon
  <2>3. y[k] = s[p + k - 1]
    BY <1>3, Zenon
  <2> QED
    BY <2>2, <2>3, Zenon
<1>10. r[q + n] = mark
  <2>1. n + 1 \in 1..(n + 1 + d) /\ q + (n + 1) - 1 = q + n
    BY <1>3
  <2> QED
    BY <1>3, <1>5, <2>1
<1>11. q \in 1..(M + 1) /\ q + n \in q..M
  BY <1>3, <1>5
<1>12. PICK f : /\ FirstMark(f, r, M, mark, q)
                /\ B[q] = IF f = 0 THEN SubSeq(r, q, M) ELSE SubSeq(r, q, f - 1) \o old \o B[f + 1]
  BY <1>11, UnmarkStep
<1>13. f = q + n
  <2>0. PICK h \in q..M : h = q + n
    BY <1>11, Zenon
  <2>01. r[h] = mark
    BY <1>10, <2>0, Zenon
  <2>02. f \in q..M /\ r[f] = mark /\ ~(h < f)
    BY <1>12, <2>0, <2>01, Zenon DEF FirstMark
  <2>1. f \in q..M /\ r[f] = mark /\ ~(q + n < f)
    BY <2>0, <2>02, Zenon
  <2>2. ASSUME f < q + n PROVE FALSE
    <3>1. PICK j \in 1..n : f = q + j - 1
      <4>1. f - q + 1 \in 1..n /\ f = q + (f - q + 1) - 1
        BY <1>1, <2>1, <2>2
      <4> QED
        BY <4>1, Zenon
    <3>2. p + j - 1 \in 1..N
      BY <1>1, <1>2
    <3> QED
      BY <1>1, <1>9, <2>1, <3>1, <3>2
  <2> QED
    BY <1>1, <2>1, <2>2
<1>14. f # 0 /\ f + 1 = i
  BY <1>6, <1>13
<1>15. B[q] = SubSeq(r, q, f - 1) \o old \o SubSeq(s, e + l, N)
  BY <1>8, <1>12, <1>14, Zenon
<1>16. SubSeq(r, q, f - 1) = SubSeq(s, p, e - 1)
  <2>1. PICK u \in Nat : u = f - 1
    <3>1. f - 1 \in Nat
      BY <1>13
    <3> QED
      BY <3>1, Zenon
  <2>2. PICK v \in Nat : v = e - 1
    <3>1. e - 1 \in Nat
      BY <1>1
    <3> QED
      BY <3>1, Zenon
  <2>3. p \in Nat \ {0} /\ v <= Len(s) /\ p <= v + 1 /\ u <= Len(r) /\ q <= u + 1
    BY <1>1, <1>2, <1>3, <1>5, <1>13, <2>1, <2>2, SMTT(30)
  <2>4. PartOf(V, s, p, v)
    BY <1>1, <2>3, SubIs
  <2>5. PartOf(V, r, q, u)
    BY <1>1, <2>3, SubIs
  <2>6. PICK a, b : a = SubSeq(s, p, v) /\ b = SubSeq(r, q, u)
    OBVIOUS
  <2>7. v - p + 1 = n /\ u - q + 1 = n
    BY <1>1, <1>2, <1>13, <2>1, <2>2
  <2>8. /\ a \in Seq(V) /\ Len(a) = n /\ \A k \in 1..n : a[k] = s[p + k - 1]
        /\ b \in Seq(V) /\ Len(b) = n /\ \A k \in 1..n : b[k] = r[q + k - 1]
    BY <2>4, <2>5, <2>6, <2>7 DEF PartOf
  <2>9. \A k \in 1..n : b[k] = a[k]
    BY <1>9, <2>8
  <2>10. a = b
    BY <2>8, <2>9, SeqEqual
  <2> QED
    BY <2>1, <2>2, <2>6, <2>10
<1>17. SubSeq(s, e, e + l - 1) = old
  <2>1. e \in Nat \ {0} /\ l # 0
    BY <1>1
  <2>2. IsThere(s, e, l, old)
    BY <1>1, <2>1, OccursThere, Zenon
  <2> QED
    BY <2>2, Zenon DEF IsThere
<1>18. SubSeq(s, p, e - 1) \o SubSeq(s, e, e + l - 1) \o SubSeq(s, e + l, N) = SubSeq(s, p, N)
  <2>1. PICK g \in Nat : g = e + l
    <3>1. e + l \in Nat
      BY <1>1
    <3> QED
      BY <3>1, Zenon
  <2>2. g \in e..(N + 1)
    BY <1>1, <2>1
  <2>5. PICK h : h = e + l - 1
    OBVIOUS
  <2>6. h = g - 1
    BY <1>1, <2>1, <2>5
  <2>3. Threes(s, p, e, h, g, N)
    BY <1>1, <2>2, <2>6, ThreeParts
  <2>4. Threes(s, p, e, e + l - 1, e + l, N)
    BY <2>1, <2>3, <2>5, Zenon
  <2> QED
    BY <2>4, Zenon DEF Threes
<1> QED
  BY <1>15, <1>16, <1>17, <1>18, Zenon

-----------------------------------------------------------------------------
(* Whatever the marks stand for is put back in their places. *)
LEMMA BackEverywhere ==
    ASSUME NEW V, NEW s, NEW N, NEW old, NEW l, NEW mark, NEW all, NEW A,
           WithMarks(V, s, N, old, l, mark, all, A), NEW r, NEW M, NEW B,
           Unmarks(V, s, N, old, l, mark, r, M, B)
    PROVE  \A p \in 1..(N + 1) : GoesBack(B, r, A[p], s, p, N)
<1>1. N \in Nat /\ N = Len(s) /\ l \in Nat \ {0}
  BY DEF WithMarks, AText
<1>2. PICK K \in Nat : K = N + 1
  BY <1>1
<1>3. PICK S : S = {p \in 1..K : GoesBack(B, r, A[p], s, p, N)}
  OBVIOUS
<1>4. ASSUME NEW p \in 1..K, \A q \in (p + 1)..K : q \in S PROVE p \in S
  <2>0. p \in 1..(N + 1)
    BY <1>2
  <2>1. CASE Kept(A, s, N, old, l, all, p)
    <3>1. KeptSo(A, s, N, V, p)
      BY <2>0, <2>1, KeptIs, Zenon
    <3>2. ASSUME NEW i \in Nat \ {0}, ReadsOn(r, i, A[p]) PROVE B[i] = SubSeq(s, p, N)
      BY <2>0, <3>1, <3>2, BackKept
    <3> QED
      BY <1>3, <3>2 DEF GoesBack
  <2>2. ASSUME NEW e, Put(A, s, N, old, l, mark, all, p, e) PROVE p \in S
    <3>1. e \in p..N /\ e + l \in (p + 1)..K /\ Occurs(s, old, l, e)
      BY <1>2, <2>2, Zenon DEF Put
    <3>2. Made(A[p], s, mark, A[e + l], V, p, e, Len(A[e + l]))
      BY <2>0, <2>2, PutIs, Zenon
    <3>3. PICK f : f = e + l
      OBVIOUS
    <3>4. f \in S
      BY <1>4, <3>1, <3>3
    <3>5. GoesBack(B, r, A[f], s, f, N)
      BY <1>3, <3>4
    <3>6. PICK z : z = A[e + l]
      OBVIOUS
    <3>7. GoesBack(B, r, z, s, e + l, N)
      BY <3>3, <3>5, <3>6, Zenon
    <3>9. PICK y, d : y = A[p] /\ Made(y, s, mark, z, V, p, e, d)
      BY <3>2, <3>6, Zenon
    <3>10. e + l \in (p + 1)..(N + 1)
      BY <1>2, <3>1
    <3>12. GoesBack(B, r, y, s, p, N)
      BY <2>0, <3>1, <3>7, <3>9, <3>10, BackPut
    <3> QED
      BY <1>3, <3>9, <3>12
  <2> QED
    BY <2>0, <2>1, <2>2, ReplaceCases
<1>5. 1..K \subseteq S
  BY <1>2, <1>4, Downward
<1> QED
  BY <1>2, <1>3, <1>5

AsBefore(s, old, mark, new) == StringReplace(new, << mark >>, old, TRUE) = s

LEMMA PutsBack ==
    ASSUME NEW V, NEW s, NEW N, NEW old, NEW l, NEW mark, NEW all, NEW A,
           WithMarks(V, s, N, old, l, mark, all, A)
    PROVE  AsBefore(s, old, mark, A[1])
<1>1. /\ AText(s, V, N) /\ AText(old, V, l) /\ l # 0 /\ s \in Seq(V) /\ old \in Seq(V)
      /\ N \in Nat /\ N = Len(s) /\ mark \in V /\ \A k \in 1..N : s[k] # mark
  BY DEF WithMarks, AText
<1>2. PICK r : r = A[1]
  OBVIOUS
<1>3. 1 \in 1..(N + 1)
  BY <1>1
<1>4. r \in Seq(V)
  BY <1>2, <1>3, ReplacedTexts
<1>5. PICK M \in Nat : M = Len(r)
  BY <1>4, LenProperties
<1>6. AText(r, V, M)
  BY <1>4, <1>5, Zenon DEF AText
<1>7. PICK m : m = << mark >>
  OBVIOUS
<1>8. AText(m, V, 1)
  BY <1>1, <1>7 DEF AText
<1>9. PICK B : Replaces(B, r, m, old, TRUE) /\ StringReplace(r, m, old, TRUE) = B[1]
  <2>1. PICK one, every : one = 1 /\ every = TRUE
    OBVIOUS
  <2>2. AText(m, V, one) /\ one # 0
    BY <1>8, <2>1
  <2>3. PICK B : Replaces(B, r, m, old, every) /\ StringReplace(r, m, old, every) = B[1]
    BY <1>6, <2>2, ReplaceIs
  <2> QED
    BY <2>1, <2>3, Zenon
<1>10. Unmarks(V, s, N, old, l, mark, r, M, B)
  BY <1>1, <1>6, <1>7, <1>9, Zenon DEF Unmarks
<1>11. GoesBack(B, r, A[1], s, 1, N)
  BY <1>3, <1>10, BackEverywhere
<1>12. ReadsOn(r, 1, r)
  <2>1. Len(r) = 1 - 1 + Len(r)
    BY <1>5
  <2>2. \A k \in 1..Len(r) : r[1 + k - 1] = r[k]
    BY <1>5
  <2> QED
    BY <2>1, <2>2, Zenon DEF ReadsOn
<1>13. 1 \in Nat \ {0}
  OBVIOUS
<1>14. B[1] = SubSeq(s, 1, N)
  BY <1>2, <1>11, <1>12, <1>13, Zenon DEF GoesBack
<1>15. SubSeq(s, 1, N) = s
  BY <1>1, SubSeqFull
<1> QED
  BY <1>2, <1>7, <1>9, <1>14, <1>15, Zenon DEF AsBefore

NotFound(x, old) == Find(x, old, 1) = 0

LEMMA NeverFound ==
    ASSUME NEW V, NEW t, NEW N, AText(t, V, N), NEW old, NEW l, AText(old, V, l), l # 0
    PROVE  NotFound(t, old) <=> NeverIn(t, old, l)
<1>1. 1 \in Nat \ {0}
  OBVIOUS
<1>2. PICK e : e = Find(t, old, 1)
  OBVIOUS
<1>3. FoundAt(e, t, old, l, 1)
  BY <1>1, <1>2, FindIs
<1>4. CASE e = 0 /\ \A k \in Nat : k >= 1 => ~Occurs(t, old, l, k)
  <2>1. \A k \in Nat \ {0} : k \in Nat /\ k >= 1
    OBVIOUS
  <2>2. NeverIn(t, old, l)
    BY <1>4, <2>1, Zenon DEF NeverIn
  <2> QED
    BY <1>2, <1>4, <2>2, Zenon DEF NotFound
<1>5. CASE e \in Nat /\ e >= 1 /\ Occurs(t, old, l, e)
  <2>1. e \in Nat \ {0} /\ e # 0
    BY <1>5
  <2>2. ~NeverIn(t, old, l)
    BY <1>5, <2>1, Zenon DEF NeverIn
  <2> QED
    BY <1>2, <2>1, <2>2, Zenon DEF NotFound
<1> QED
  BY <1>3, <1>4, <1>5, Zenon DEF FoundAt

LEMMA NoneInPart ==
    ASSUME NEW V, NEW t, NEW N, AText(t, V, N), NEW old, NEW l, AText(old, V, l), l # 0,
           NEW a \in Nat \ {0}, NEW b \in Nat, b <= N, a <= b + 1,
           \A k \in a..b : (k + l - 1 <= b) => ~Occurs(t, old, l, k)
    PROVE  NotFound(SubSeq(t, a, b), old)
<1>1. t \in Seq(V) /\ N \in Nat /\ N = Len(t) /\ l \in Nat \ {0}
  BY DEF AText
<1>2. PICK x : x = SubSeq(t, a, b)
  OBVIOUS
<1>3. PartOf(V, t, a, b)
  BY <1>1, SubIs
<1>4. PICK n \in Nat : n = b - a + 1
  <2>1. b - a + 1 \in Nat
    OBVIOUS
  <2> QED
    BY <2>1, Zenon
<1>5. x \in Seq(V) /\ Len(x) = n /\ \A j \in 1..n : x[j] = t[a + j - 1]
  BY <1>2, <1>3, <1>4 DEF PartOf
<1>6. ASSUME NEW k \in Nat \ {0}, Occurs(x, old, l, k) PROVE FALSE
  <2>1. k + l - 1 <= n /\ \A j \in 1..l : x[k + j - 1] = old[j]
    BY <1>5, <1>6, Zenon DEF Occurs
  <2>2. PICK i \in Nat : i = a + k - 1
    <3>1. a + k - 1 \in Nat
      OBVIOUS
    <3> QED
      BY <3>1, Zenon
  <2>3. i \in a..b /\ i + l - 1 <= b
    BY <1>1, <1>4, <2>1, <2>2
  <2>4. i + l - 1 <= Len(t)
    BY <1>1, <2>3
  <2>5. ASSUME NEW j \in 1..l PROVE t[i + j - 1] = old[j]
    <3>1. k + j - 1 \in 1..n /\ a + (k + j - 1) - 1 = i + j - 1
      BY <1>1, <2>1, <2>2
    <3> QED
      BY <1>5, <2>1, <3>1
  <2>6. Occurs(t, old, l, i)
    BY <2>4, <2>5 DEF Occurs
  <2> QED
    BY <2>3, <2>6
<1>7. NeverIn(x, old, l)
  BY <1>6, Zenon DEF NeverIn
<1>8. AText(x, V, n)
  BY <1>5, Zenon DEF AText
<1>9. NotFound(x, old)
  BY <1>7, <1>8, NeverFound
<1> QED
  BY <1>2, <1>9, Zenon

Searched(new, mark, old) ==
    \A i \in DOMAIN SplitAtAny(new, {mark}) : Find(SplitAtAny(new, {mark})[i], old, 1) = 0

LEMMA StretchesSearched ==
    ASSUME NEW V, NEW t, NEW N, AText(t, V, N), NEW old, NEW l, AText(old, V, l), l # 0,
           NeverIn(t, old, l), NEW mark
    PROVE  Searched(t, mark, old)
<1>1. t \in Seq(V) /\ N \in Nat /\ N = Len(t)
  BY DEF AText
<1>2. PICK chars : chars = {mark}
  OBVIOUS
<1>3. PICK W : SplitsFrom(W, t, chars) /\ SplitAtAny(t, chars) = W[1]
  BY <1>1, SplitsAny
<1>4. PICK y : y = SplitAtAny(t, chars)
  OBVIOUS
<1>5. Pieces(y, t, chars, V)
  <2>1. 1 \in 1..(N + 1)
    BY <1>1
  <2> QED
    BY <1>1, <1>3, <1>4, <2>1, PiecesAlways
<1>6. y \in Seq(Seq(V)) /\ \A k \in 1..Len(y) : IsPiece(y[k], t, chars, V)
  BY <1>5, Zenon DEF Pieces
<1>7. DOMAIN y = 1..Len(y)
  BY <1>6
<1>8. ASSUME NEW k \in DOMAIN y PROVE NotFound(y[k], old)
  <2>1. PICK a \in 1..N, b \in 1..N : a <= b /\ y[k] = SubSeq(t, a, b)
    BY <1>1, <1>6, <1>7, Zenon DEF IsPiece
  <2>2. a \in Nat \ {0} /\ b \in Nat /\ b <= N /\ a <= b + 1
    BY <1>1, <2>1
  <2>3. ASSUME NEW i \in a..b PROVE ~Occurs(t, old, l, i)
    <3>1. i \in Nat \ {0}
      BY <2>2
    <3> QED
      BY <3>1, Zenon DEF NeverIn
  <2>4. NotFound(SubSeq(t, a, b), old)
    BY <2>2, <2>3, NoneInPart
  <2> QED
    BY <2>1, <2>4, Zenon
<1> QED
  BY <1>2, <1>4, <1>8, Zenon DEF Searched, NotFound

-----------------------------------------------------------------------------
(* With only the first replaced there is one mark, at the first occurrence, *)
(* or none if nothing is replaced.                                          *)
MarksOf(t, mark) == {i \in 1..Len(t) : t[i] = mark}
OneMark(s, old, l, mark, t) ==
    \/ MarksOf(t, mark) = {} /\ NeverIn(s, old, l)
    \/ \E e \in 1..Len(t) :
           /\ MarksOf(t, mark) = {e} /\ Occurs(s, old, l, e) /\ e + l \in (e + 1)..(Len(s) + 1)
           /\ \A k \in Nat : (1 <= k /\ k < e) => ~Occurs(s, old, l, k)
           /\ \A k \in 1..(e - 1) : t[k] = s[k]

LEMMA KeptUnmarked ==
    ASSUME NEW V, NEW s, NEW N \in Nat, NEW mark, \A k \in 1..N : s[k] # mark,
           NEW A, NEW p \in 1..(N + 1), KeptSo(A, s, N, V, p)
    PROVE  MarksOf(A[p], mark) = {}
<1>1. PICK y : y = A[p]
  OBVIOUS
<1>2. Len(y) = N - p + 1 /\ \A k \in 1..(N - p + 1) : y[k] = s[p + k - 1]
  BY <1>1, Zenon DEF KeptSo
<1>3. ASSUME NEW k \in 1..Len(y) PROVE y[k] # mark
  <2>1. p + k - 1 \in 1..N
    BY <1>2
  <2> QED
    BY <1>2, <2>1
<1>4. MarksOf(y, mark) = {}
  BY <1>3 DEF MarksOf
<1> QED
  BY <1>1, <1>4

LEMMA FirstOnly ==
    ASSUME NEW V, NEW s, NEW N, NEW old, NEW l, NEW mark, NEW A,
           WithMarks(V, s, N, old, l, mark, FALSE, A)
    PROVE  OneMark(s, old, l, mark, A[1])
<1>1. N \in Nat /\ N = Len(s) /\ l \in Nat \ {0} /\ \A k \in 1..N : s[k] # mark
  BY DEF WithMarks, AText
<1>2. 1 \in 1..(N + 1)
  BY <1>1
<1>3. CASE Kept(A, s, N, old, l, FALSE, 1)
  <2>1. KeptSo(A, s, N, V, 1)
    BY <1>2, <1>3, KeptIs, Zenon
  <2>2. MarksOf(A[1], mark) = {}
    BY <1>1, <1>2, <2>1, KeptUnmarked
  <2>3. \A k \in Nat : k >= 1 => ~Occurs(s, old, l, k)
    BY <1>3, Zenon DEF Kept
  <2>4. NeverIn(s, old, l)
    BY <2>3 DEF NeverIn
  <2> QED
    BY <2>2, <2>4, Zenon DEF OneMark
<1>4. ASSUME NEW e, Put(A, s, N, old, l, mark, FALSE, 1, e) PROVE OneMark(s, old, l, mark, A[1])
  <2>1. /\ e \in 1..N /\ e + l \in (1 + 1)..(N + 1) /\ Occurs(s, old, l, e)
        /\ \A k \in Nat : (1 <= k /\ k < e) => ~Occurs(s, old, l, k)
    BY <1>4, Zenon DEF Put
  <2>2. Made(A[1], s, mark, A[e + l], V, 1, e, Len(A[e + l]))
    BY <1>2, <1>4, PutIs, Zenon
  <2>3. PICK f \in Nat : f = e + l
    BY <1>1, <2>1
  <2>4. f \in 1..(N + 1) /\ f # 1
    BY <1>1, <2>1, <2>3
  <2>5. \A g : ~Put(A, s, N, old, l, mark, FALSE, f, g)
    BY <2>4, Zenon DEF Put
  <2>6. Kept(A, s, N, old, l, FALSE, f)
    BY <2>4, <2>5, ReplaceCases
  <2>7. KeptSo(A, s, N, V, f)
    BY <2>4, <2>6, KeptIs, Zenon
  <2>8. PICK y, z, d : y = A[1] /\ z = A[e + l] /\ d = Len(z)
    OBVIOUS
  <2>9. MarksOf(z, mark) = {}
    <3>1. MarksOf(A[f], mark) = {}
      BY <1>1, <2>4, <2>7, KeptUnmarked
    <3> QED
      BY <2>3, <2>8, <3>1, Zenon
  <2>10. Made(y, s, mark, z, V, 1, e, d)
    BY <2>2, <2>8, Zenon
  <2>11. PICK n \in Nat : n = e - 1
    BY <2>1
  <2>12. /\ d \in Nat /\ Len(y) = n + 1 + d
         /\ \A k \in 1..n : y[k] = s[1 + k - 1]
         /\ y[n + 1] = mark
         /\ \A k \in 1..d : y[n + 1 + k] = z[k]
    BY <2>10, <2>11, Zenon DEF Made
  <2>13. \A k \in 1..n : y[k] = s[k] /\ s[k] # mark
    <3>1. \A k \in 1..n : 1 + k - 1 = k /\ k \in 1..N
      BY <1>1, <2>1, <2>11
    <3> QED
      BY <1>1, <2>12, <3>1
  <2>14. e \in 1..Len(y) /\ n + 1 = e
    BY <2>1, <2>11, <2>12
  <2>15. ASSUME NEW i \in 1..Len(y), i # e PROVE y[i] # mark
    <3>1. CASE i <= n
      BY <2>13, <3>1
    <3>2. CASE ~(i <= n)
      <4>1. PICK j \in 1..d : i = n + 1 + j
        <5>1. i - e \in 1..d /\ i = n + 1 + (i - e)
          BY <2>11, <2>12, <2>14, <2>15, <3>2
        <5> QED
          BY <5>1, Zenon
      <4>2. z[j] # mark
        BY <2>8, <2>9 DEF MarksOf
      <4> QED
        BY <2>12, <4>1, <4>2
    <3> QED
      BY <3>1, <3>2
  <2>16. MarksOf(y, mark) = {e}
    BY <2>12, <2>14, <2>15 DEF MarksOf
  <2>17. e + l \in (e + 1)..(Len(s) + 1)
    BY <1>1, <2>1
  <2>18. \A k \in 1..(e - 1) : y[k] = s[k]
    BY <2>11, <2>13
  <2>19. OneMark(s, old, l, mark, y)
    BY <2>1, <2>14, <2>16, <2>17, <2>18, Zenon DEF OneMark
  <2> QED
    BY <2>8, <2>19
<1> QED
  BY <1>2, <1>3, <1>4, ReplaceCases

Leading(t, mark, old) ==
    \A i \in MarksOf(t, mark) : Find(SubSeq(t, 1, i - 1), old, 1) = 0

LEMMA LeadingOfAll ==
    ASSUME NEW V, NEW t, NEW N, AText(t, V, N), NEW old, NEW l, AText(old, V, l), l # 0,
           NeverIn(t, old, l), NEW mark
    PROVE  Leading(t, mark, old)
<1>1. N \in Nat /\ N = Len(t)
  BY DEF AText
<1>2. ASSUME NEW i \in MarksOf(t, mark) PROVE NotFound(SubSeq(t, 1, i - 1), old)
  <2>1. i \in 1..N
    BY <1>1 DEF MarksOf
  <2>2. PICK b \in Nat : b = i - 1
    BY <2>1
  <2>3. b <= N /\ 1 <= b + 1 /\ 1 \in Nat \ {0}
    BY <1>1, <2>1, <2>2
  <2>4. ASSUME NEW k \in 1..b PROVE ~Occurs(t, old, l, k)
    <3>1. k \in Nat \ {0}
      BY <2>2
    <3> QED
      BY <3>1, Zenon DEF NeverIn
  <2>5. NotFound(SubSeq(t, 1, b), old)
    BY <2>2, <2>3, <2>4, NoneInPart
  <2> QED
    BY <2>2, <2>5, Zenon
<1> QED
  BY <1>2, Zenon DEF Leading, NotFound

LEMMA LeadingOfFirst ==
    ASSUME NEW V, NEW s, NEW N, AText(s, V, N), NEW old, NEW l, AText(old, V, l), l # 0,
           NEW t, NEW M, AText(t, V, M), NEW mark, OneMark(s, old, l, mark, t)
    PROVE  Leading(t, mark, old)
<1>1. M \in Nat /\ M = Len(t) /\ N \in Nat /\ N = Len(s) /\ l \in Nat \ {0}
  BY DEF AText
<1>2. ASSUME NEW i \in MarksOf(t, mark) PROVE NotFound(SubSeq(t, 1, i - 1), old)
  <2>1. PICK e \in 1..Len(t) :
           /\ MarksOf(t, mark) = {e} /\ Occurs(s, old, l, e) /\ e + l \in (e + 1)..(Len(s) + 1)
           /\ \A k \in Nat : (1 <= k /\ k < e) => ~Occurs(s, old, l, k)
           /\ \A k \in 1..(e - 1) : t[k] = s[k]
    BY <1>2, Zenon DEF OneMark
  <2>2. i = e
    BY <1>2, <2>1
  <2>3. PICK b \in Nat : b = e - 1
    BY <2>1
  <2>4. b <= M /\ 1 <= b + 1 /\ 1 \in Nat \ {0}
    BY <1>1, <2>1, <2>3
  <2>5. ASSUME NEW k \in 1..b, k + l - 1 <= b, Occurs(t, old, l, k) PROVE FALSE
    <3>1. \A j \in 1..l : t[k + j - 1] = old[j]
      BY <2>5, Zenon DEF Occurs
    <3>2. ASSUME NEW j \in 1..l PROVE s[k + j - 1] = old[j]
      <4>1. k + j - 1 \in 1..(e - 1)
        BY <1>1, <2>3, <2>5
      <4>2. t[k + j - 1] = s[k + j - 1]
        BY <2>1, <4>1, Zenon
      <4> QED
        BY <3>1, <4>2, Zenon
    <3>3. k \in Nat /\ 1 <= k /\ k < e /\ k + l - 1 <= Len(s)
      BY <1>1, <2>1, <2>3, <2>5
    <3>4. Occurs(s, old, l, k)
      BY <3>2, <3>3 DEF Occurs
    <3> QED
      BY <2>1, <3>3, <3>4, Zenon
  <2>6. NotFound(SubSeq(t, 1, b), old)
    BY <2>4, <2>5, NoneInPart
  <2> QED
    BY <2>2, <2>3, <2>6, Zenon
<1> QED
  BY <1>2, Zenon DEF Leading, NotFound

Counted(s, old, mark, t) ==
    Cardinality(MarksOf(t, mark)) = IF Find(s, old, 1) = 0 THEN 0 ELSE 1

LEMMA FirstCounted ==
    ASSUME NEW V, NEW s, NEW N, AText(s, V, N), NEW old, NEW l, AText(old, V, l), l # 0,
           NEW t, NEW mark, OneMark(s, old, l, mark, t)
    PROVE  Counted(s, old, mark, t)
<1>1. NotFound(s, old) <=> NeverIn(s, old, l)
  BY NeverFound
<1>2. CASE MarksOf(t, mark) = {} /\ NeverIn(s, old, l)
  <2>1. Cardinality(MarksOf(t, mark)) = 0
    BY <1>2, FS_EmptySet, Zenon
  <2> QED
    BY <1>1, <1>2, <2>1, Zenon DEF Counted, NotFound
<1>3. ASSUME NEW e \in 1..Len(t), MarksOf(t, mark) = {e}, Occurs(s, old, l, e)
      PROVE  Counted(s, old, mark, t)
  <2>1. e \in Nat \ {0}
    OBVIOUS
  <2>2. ~NotFound(s, old)
    BY <1>1, <1>3, <2>1, Zenon DEF NeverIn
  <2>3. Cardinality(MarksOf(t, mark)) = 1
    <3>1. Cardinality({e}) = 1
      BY FS_Singleton, Zenon
    <3> QED
      BY <1>3, <3>1, Zenon
  <2> QED
    BY <2>2, <2>3, Zenon DEF Counted, NotFound
<1> QED
  BY <1>2, <1>3, Zenon DEF OneMark

ReplacedWell(s, old, all, mark, new) ==
    /\ AsBefore(s, old, mark, new)
    /\ all => Searched(new, mark, old)
    /\ Leading(new, mark, old)
    /\ ~all => Counted(s, old, mark, new)

(* What StringReplace makes of any text when it puts a byte that is not in  *)
(* the text in the place of an occurrence, or of all: it can be put back,   *)
(* no occurrence is left that was to be replaced, and only as many are      *)
(* replaced as are wanted.                                                  *)
THEOREM ReplacesOfAny ==
    \A s \in Seq(0..255), old \in Seq(0..255) \ {<< >>}, all \in BOOLEAN :
        \A mark \in (0..255) \ ToSet(s) :
            ReplacedWell(s, old, all, mark, StringReplace(s, old, << mark >>, all))
<1> SUFFICES ASSUME NEW s \in Seq(Byte), NEW old \in Seq(Byte), old # << >>, NEW all \in BOOLEAN,
                    NEW mark \in Byte, mark \notin ToSet(s)
             PROVE  ReplacedWell(s, old, all, mark, StringReplace(s, old, << mark >>, all))
  BY ZenonT(60) DEF Byte
<1>1. PICK N \in Nat : N = Len(s)
  BY LenProperties
<1>2. PICK l \in Nat : l = Len(old)
  BY LenProperties
<1>3. l # 0
  BY <1>2
<1>4. AText(s, Byte, N) /\ AText(old, Byte, l)
  BY <1>1, <1>2, Zenon DEF AText
<1>5. \A k \in 1..N : s[k] # mark
  BY <1>1 DEF ToSet
<1>6. PICK m : m = << mark >>
  OBVIOUS
<1>7. PICK A : Replaces(A, s, old, m, all) /\ StringReplace(s, old, m, all) = A[1]
  BY <1>3, <1>4, ReplaceIs
<1>8. WithMarks(Byte, s, N, old, l, mark, all, A)
  BY <1>3, <1>4, <1>5, <1>6, <1>7, Zenon DEF WithMarks
<1>9. PICK t : t = A[1]
  OBVIOUS
<1>10. 1 \in 1..(N + 1)
  OBVIOUS
<1>11. t \in Seq(Byte)
  BY <1>8, <1>9, <1>10, ReplacedTexts
<1>12. PICK M \in Nat : M = Len(t)
  BY <1>11, LenProperties
<1>13. AText(t, Byte, M)
  BY <1>11, <1>12, Zenon DEF AText
<1>14. AsBefore(s, old, mark, t)
  BY <1>8, <1>9, PutsBack, Zenon
<1>15. CASE all
  <2>1. NeverIn(t, old, l)
    BY <1>8, <1>9, <1>10, <1>15, NoneLeft
  <2>2. Searched(t, mark, old)
    BY <1>3, <1>4, <1>13, <2>1, StretchesSearched
  <2>3. Leading(t, mark, old)
    BY <1>3, <1>4, <1>13, <2>1, LeadingOfAll
  <2> QED
    BY <1>6, <1>7, <1>9, <1>14, <1>15, <2>2, <2>3, Zenon DEF ReplacedWell
<1>16. CASE ~all
  <2>1. WithMarks(Byte, s, N, old, l, mark, FALSE, A)
    <3>1. all = FALSE
      BY <1>16
    <3> QED
      BY <1>8, <3>1, Zenon
  <2>2. OneMark(s, old, l, mark, t)
    BY <1>9, <2>1, FirstOnly, Zenon
  <2>3. Leading(t, mark, old)
    BY <1>3, <1>4, <1>13, <2>2, LeadingOfFirst
  <2>4. Counted(s, old, mark, t)
    BY <1>3, <1>4, <2>2, FirstCounted
  <2> QED
    BY <1>6, <1>7, <1>9, <1>14, <1>16, <2>3, <2>4, Zenon DEF ReplacedWell
<1> QED
  BY <1>15, <1>16

-----------------------------------------------------------------------------
LEMMA TextsAre == Texts(2) \subseteq Seq(0..255)
<1>1. ASSUME NEW x \in Texts(2) PROVE x \in Seq(0..255)
  <2>1. PICK k \in 0..2 : x \in [1..k -> Alphabet]
    BY <1>1, Zenon DEF Texts
  <2>2. k \in Nat /\ \A i \in 1..k : x[i] \in 0..255
    <3>1. k \in Nat
      OBVIOUS
    <3>2. PICK V : V = 0..255
      OBVIOUS
    <3>3. \A i \in 1..k : x[i] \in Alphabet
      BY <2>1
    <3>4. Alphabet \subseteq V
      BY <3>2, BytesAssumption, Zenon
    <3> QED
      BY <3>1, <3>2, <3>3, <3>4, Zenon
  <2>3. x = [i \in 1..k |-> x[i]]
    BY <2>1
  <2>4. [i \in 1..k |-> x[i]] \in Seq(0..255)
    BY <2>2, IsASeq
  <2> QED
    BY <2>3, <2>4, Zenon
<1> QED
  BY <1>1

(* Texts of any length over any alphabet of bytes are split, joined,        *)
(* replaced in and stripped without anything lost or made twice, and slices *)
(* hold the bytes between their ends (SplitStringUsing, JoinStrings,        *)
(* StringReplace and StripWhitespace of strutil.cc, and slice.js).          *)
THEOREM PiecesExactCorrect == Spec => []PiecesExact
<1>1. (text \in Seq(Alphabet) /\ number \in 0..MaxInt32) => PiecesExact
  <2> SUFFICES ASSUME text \in Seq(Alphabet), number \in 0..MaxInt32 PROVE PiecesExact
    OBVIOUS
  <2>1. PICK s : s = text
    OBVIOUS
  <2>2. s \in Seq(0..255)
    <3>1. Alphabet \subseteq 0..255
      BY BytesAssumption
    <3>2. PICK V : V = 0..255
      OBVIOUS
    <3>3. Alphabet \subseteq V /\ text \in Seq(Alphabet)
      BY <3>1, <3>2
    <3>4. text \in Seq(V)
      BY <3>3, Widened
    <3> QED
      BY <2>1, <3>2, <3>4
  <2>20. text \in Seq(0..255)
    BY <2>1, <2>2
  <2>3. SplitsIntoRuns
    <3>1. ASSUME NEW delim \in Texts(2) PROVE IntoRuns(text, delim)
      BY <2>20, <3>1, TextsAre, SplitsIntoRunsOfAny, Zenon
    <3> QED
      BY <3>1, Zenon DEF SplitsIntoRuns, IntoRuns, Ranked, RunStarts, RunFrom
  <2>4. JoinsBack
    <3>1. ASSUME NEW delim \in Texts(2) \ {<< >>} PROVE JoinedBack(text, delim)
      <4>1. delim \in Seq(0..255) \ {<< >>}
        BY <3>1, TextsAre, Zenon
      <4> QED
        BY <2>20, <4>1, JoinsBackOfAny, Zenon
    <3> QED
      BY <3>1, Zenon DEF JoinsBack, JoinedBack
  <2>5. ReplacesLeftmost
    <3>1. ASSUME NEW old \in Texts(2) \ {<< >>}, NEW all \in BOOLEAN, NEW mark \in {0} \ ToSet(text)
          PROVE  ReplacedWell(text, old, all, mark, StringReplace(text, old, << mark >>, all))
      <4>1. old \in Seq(0..255) \ {<< >>}
        BY <3>1, TextsAre, Zenon
      <4>2. 0 \in 0..255
        OBVIOUS
      <4>3. mark \in (0..255) \ ToSet(text)
        BY <3>1, <4>2, ZenonT(30)
      <4> QED
        BY <2>20, <3>1, <4>1, <4>3, ReplacesOfAny, ZenonT(40)
    <3> QED
      BY <3>1, Zenon
         DEF ReplacesLeftmost, ReplacedWell, AsBefore, Searched, Leading, Counted, MarksOf
  <2>6. StripsBothSides
    <3>1. Stripped(text)
      BY <2>20, StripsBothSidesOfAny, Zenon
    <3> QED
      BY <3>1, Zenon DEF StripsBothSides, Stripped, Blank
  <2>7. SlicesLikeTheSpecification
    <3>1. PICK n : n = number
      OBVIOUS
    <3>2. n \in Nat /\ -(n + 2)..(n + 2) \subseteq Int
      BY <3>1
    <3>3. PICK I : I = -(n + 2)..(n + 2)
      OBVIOUS
    <3>4. ASSUME NEW start \in I, NEW end \in (I \ {0}) \cup {Undefined}
          PROVE  SliceExact(start, end, n)
      <4>1. start \in Int /\ end \in (Int \ {0}) \cup {Undefined}
        BY <3>2, <3>3, Zenon
      <4> QED
        BY <3>2, <4>1, SlicesCorrect, Zenon
    <3> QED
      BY <3>1, <3>3, <3>4, Zenon DEF SlicesLikeTheSpecification, Indices
  <2> QED
    BY <2>3, <2>4, <2>5, <2>6, <2>7, Zenon DEF PiecesExact
<1> QED
  BY <1>1, TextInvariant, NumberInvariant, PTL
=============================================================================
