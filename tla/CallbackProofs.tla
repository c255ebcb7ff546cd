--------------------------- MODULE CallbackProofs ---------------------------
(* Theorems about Callbacks, for every value of its constants.             *)
EXTENDS Callbacks, TLAPS, SequenceTheorems

Records == [class : AllClasses, del : BOOLEAN, target : BOOLEAN, allocated : BOOLEAN]
Holders == {"maker", "runner", "argument", "nobody"}
Places(n) == [of : 0..n, member : Range(P) \cup {"none"}]

-----------------------------------------------------------------------------
(* What the blocks pass                                                    *)

(* A class passes on every member it stores and every parameter it takes.  *)
PassesAll(k) == Range(k.stores) \cup Range(k.takes) \subseteq Range(k.passes)

LEMMA RangeOfPrefix ==
    ASSUME NEW S, NEW s \in Seq(S), NEW n \in 0..Len(s), NEW x \in Range(SubSeq(s, 1, n))
    PROVE  \E i \in 1..n : x = s[i]
<1>1. n \in Nat /\ \A i \in 1..n : s[i] \in S
  BY LenProperties
<1>2. /\ SubSeq(s, 1, n) \in Seq(S)
      /\ Len(SubSeq(s, 1, n)) = n
      /\ \A i \in 1..n : SubSeq(s, 1, n)[i] = s[i]
  BY <1>1, SubSeqProperties
<1> QED
  BY <1>2, LenProperties DEF Range

LEMMA Six ==
    ASSUME NEW n \in 0..6, NEW m \in 0..5, NEW passes, DOMAIN passes = 1..n + m,
           \A i \in 1..n : passes[i] = P[i],
           \A i \in 1..m : passes[n + i] = A[i],
           NEW k \in SixClasses(n, m, passes)
    PROVE  PassesAll(k)
<1>1. k.stores = SubSeq(P, 1, n) /\ k.takes = SubSeq(A, 1, m) /\ k.passes = passes
  BY DEF SixClasses
<1>2. PICK S : S = {P[i] : i \in 1..6} \cup {A[i] : i \in 1..5}
  OBVIOUS
<1>3. P \in Seq(S) /\ A \in Seq(S) /\ n \in 0..Len(P) /\ m \in 0..Len(A)
  BY <1>2 DEF P, A
<1>4. \A i \in 1..n + m : passes[i] \in Range(passes)
  BY DEF Range
<1>5. ASSUME NEW x \in Range(k.stores) PROVE x \in Range(passes)
  <2>0. x \in Range(SubSeq(P, 1, n))
    BY <1>1
  <2>1. PICK i \in 1..n : x = P[i]
    BY <1>3, <2>0, RangeOfPrefix, Zenon
  <2>2. i \in 1..n + m
    OBVIOUS
  <2> QED
    BY <1>4, <2>1, <2>2
<1>6. ASSUME NEW x \in Range(k.takes) PROVE x \in Range(passes)
  <2>0. x \in Range(SubSeq(A, 1, m))
    BY <1>1
  <2>1. PICK i \in 1..m : x = A[i]
    BY <1>3, <2>0, RangeOfPrefix, Zenon
  <2>2. n + i \in 1..n + m
    OBVIOUS
  <2> QED
    BY <1>4, <2>1, <2>2
<1> QED
  BY <1>1, <1>5, <1>6 DEF PassesAll

(* Every block of the header, by itself. *)
LEMMA EveryClassPassesAll == \A k \in AllClasses : PassesAll(k)
<1>1. \A k \in Block_0_0 : PassesAll(k)
  <2>1. PICK s :
            s = << >>
    OBVIOUS
  <2>2. /\ DOMAIN s = 1..0 + 0
        /\ \A i \in 1..0 : s[i] = P[i]
        /\ \A i \in 1..0 : s[0 + i] = A[i]
    BY <2>1 DEF P, A
  <2> QED
    BY <2>1, <2>2, Six DEF Block_0_0
<1>2. \A k \in Block_1_0 : PassesAll(k)
  <2>1. PICK s :
            s = << "p1_" >>
    OBVIOUS
  <2>2. /\ DOMAIN s = 1..1 + 0
        /\ \A i \in 1..1 : s[i] = P[i]
        /\ \A i \in 1..0 : s[1 + i] = A[i]
    BY <2>1 DEF P, A
  <2> QED
    BY <2>1, <2>2, Six DEF Block_1_0
<1>3. \A k \in Block_2_0 : PassesAll(k)
  <2>1. PICK s :
            s = << "p1_", "p2_" >>
    OBVIOUS
  <2>2. /\ DOMAIN s = 1..2 + 0
        /\ \A i \in 1..2 : s[i] = P[i]
        /\ \A i \in 1..0 : s[2 + i] = A[i]
    BY <2>1 DEF P, A
  <2> QED
    BY <2>1, <2>2, Six DEF Block_2_0
<1>4. \A k \in Block_3_0 : PassesAll(k)
  <2>1. PICK s :
            s = << "p1_", "p2_", "p3_" >>
    OBVIOUS
  <2>2. /\ DOMAIN s = 1..3 + 0
        /\ \A i \in 1..3 : s[i] = P[i]
        /\ \A i \in 1..0 : s[3 + i] = A[i]
    BY <2>1 DEF P, A
  <2> QED
    BY <2>1, <2>2, Six DEF Block_3_0
<1>5. \A k \in Block_4_0 : PassesAll(k)
  <2>1. PICK s :
            s = << "p1_", "p2_", "p3_", "p4_" >>
    OBVIOUS
  <2>2. /\ DOMAIN s = 1..4 + 0
        /\ \A i \in 1..4 : s[i] = P[i]
        /\ \A i \in 1..0 : s[4 + i] = A[i]
    BY <2>1 DEF P, A
  <2> QED
    BY <2>1, <2>2, Six DEF Block_4_0
<1>6. \A k \in Block_5_0 : PassesAll(k)
  <2>1. PICK s :
            s = << "p1_", "p2_", "p3_", "p4_", "p5_" >>
    OBVIOUS
  <2>2. /\ DOMAIN s = 1..5 + 0
        /\ \A i \in 1..5 : s[i] = P[i]
        /\ \A i \in 1..0 : s[5 + i] = A[i]
    BY <2>1 DEF P, A
  <2> QED
    BY <2>1, <2>2, Six DEF Block_5_0
<1>7. \A k \in Block_6_0 : PassesAll(k)
  <2>1. PICK s :
            s = << "p1_", "p2_", "p3_", "p4_", "p5_", "p6_" >>
    OBVIOUS
  <2>2. /\ DOMAIN s = 1..6 + 0
        /\ \A i \in 1..6 : s[i] = P[i]
        /\ \A i \in 1..0 : s[6 + i] = A[i]
    BY <2>1 DEF P, A
  <2> QED
    BY <2>1, <2>2, Six DEF Block_6_0
<1>8. \A k \in Block_0_1 : PassesAll(k)
  <2>1. PICK s :
            s = << "a1" >>
    OBVIOUS
  <2>2. /\ DOMAIN s = 1..0 + 1
        /\ \A i \in 1..0 : s[i] = P[i]
        /\ \A i \in 1..1 : s[0 + i] = A[i]
    BY <2>1 DEF P, A
  <2> QED
    BY <2>1, <2>2, Six DEF Block_0_1
<1>9. \A k \in Block_1_1 : PassesAll(k)
  <2>1. PICK s :
            s = << "p1_", "a1" >>
    OBVIOUS
  <2>2. /\ DOMAIN s = 1..1 + 1
        /\ \A i \in 1..1 : s[i] = P[i]
        /\ \A i \in 1..1 : s[1 + i] = A[i]
    BY <2>1 DEF P, A
  <2> QED
    BY <2>1, <2>2, Six DEF Block_1_1
<1>10. \A k \in Block_2_1 : PassesAll(k)
  <2>1. PICK s :
            s = << "p1_", "p2_", "a1" >>
    OBVIOUS
  <2>2. /\ DOMAIN s = 1..2 + 1
        /\ \A i \in 1..2 : s[i] = P[i]
        /\ \A i \in 1..1 : s[2 + i] = A[i]
    BY <2>1 DEF P, A
  <2> QED
    BY <2>1, <2>2, Six DEF Block_2_1
<1>11. \A k \in Block_3_1 : PassesAll(k)
  <2>1. PICK s :
            s = << "p1_", "p2_", "p3_", "a1" >>
    OBVIOUS
  <2>2. /\ DOMAIN s = 1..3 + 1
        /\ \A i \in 1..3 : s[i] = P[i]
        /\ \A i \in 1..1 : s[3 + i] = A[i]
    BY <2>1 DEF P, A
  <2> QED
    BY <2>1, <2>2, Six DEF Block_3_1
<1>12. \A k \in Block_4_1 : PassesAll(k)
  <2>1. PICK s :
            s = << "p1_", "p2_", "p3_", "p4_", "a1" >>
    OBVIOUS
  <2>2. /\ DOMAIN s = 1..4 + 1
        /\ \A i \in 1..4 : s[i] = P[i]
        /\ \A i \in 1..1 : s[4 + i] = A[i]
    BY <2>1 DEF P, A
  <2> QED
    BY <2>1, <2>2, Six DEF Block_4_1
<1>13. \A k \in Block_5_1 : PassesAll(k)
  <2>1. PICK s :
            s = << "p1_", "p2_", "p3_", "p4_", "p5_", "a1" >>
    OBVIOUS
  <2>2. /\ DOMAIN s = 1..5 + 1
        /\ \A i \in 1..5 : s[i] = P[i]
        /\ \A i \in 1..1 : s[5 + i] = A[i]
    BY <2>1 DEF P, A
  <2> QED
    BY <2>1, <2>2, Six DEF Block_5_1
<1>14. \A k \in Block_6_1 : PassesAll(k)
  <2>1. PICK s :
            s = << "p1_", "p2_", "p3_", "p4_", "p5_", "p6_", "a1" >>
    OBVIOUS
  <2>2. /\ DOMAIN s = 1..6 + 1
        /\ \A i \in 1..6 : s[i] = P[i]
        /\ \A i \in 1..1 : s[6 + i] = A[i]
    BY <2>1 DEF P, A
  <2> QED
    BY <2>1, <2>2, Six DEF Block_6_1
<1>15. \A k \in Block_0_2 : PassesAll(k)
  <2>1. PICK s :
            s = << "a1", "a2" >>
    OBVIOUS
  <2>2. /\ DOMAIN s = 1..0 + 2
        /\ \A i \in 1..0 : s[i] = P[i]
        /\ \A i \in 1..2 : s[0 + i] = A[i]
    BY <2>1 DEF P, A
  <2> QED
    BY <2>1, <2>2, Six DEF Block_0_2
<1>16. \A k \in Block_1_2 : PassesAll(k)
  <2>1. PICK s :
            s = << "p1_", "a1", "a2" >>
    OBVIOUS
  <2>2. /\ DOMAIN s = 1..1 + 2
        /\ \A i \in 1..1 : s[i] = P[i]
        /\ \A i \in 1..2 : s[1 + i] = A[i]
    BY <2>1 DEF P, A
  <2> QED
    BY <2>1, <2>2, Six DEF Block_1_2
<1>17. \A k \in Block_2_2 : PassesAll(k)
  <2>1. PICK s :
            s = << "p1_", "p2_", "a1", "a2" >>
    OBVIOUS
  <2>2. /\ DOMAIN s = 1..2 + 2
        /\ \A i \in 1..2 : s[i] = P[i]
        /\ \A i \in 1..2 : s[2 + i] = A[i]
    BY <2>1 DEF P, A
  <2> QED
    BY <2>1, <2>2, Six DEF Block_2_2
<1>18. \A k \in Block_3_2 : PassesAll(k)
  <2>1. PICK s :
            s = << "p1_", "p2_", "p3_", "a1", "a2" >>
    OBVIOUS
  <2>2. /\ DOMAIN s = 1..3 + 2
        /\ \A i \in 1..3 : s[i] = P[i]
        /\ \A i \in 1..2 : s[3 + i] = A[i]
    BY <2>1 DEF P, A
  <2> QED
    BY <2>1, <2>2, Six DEF Block_3_2
<1>19. \A k \in Block_4_2 : PassesAll(k)
  <2>1. PICK s :
            s = << "p1_", "p2_", "p3_", "p4_", "a1", "a2" >>
    OBVIOUS
  <2>2. /\ DOMAIN s = 1..4 + 2
        /\ \A i \in 1..4 : s[i] = P[i]
        /\ \A i \in 1..2 : s[4 + i] = A[i]
    BY <2>1 DEF P, A
  <2> QED
    BY <2>1, <2>2, Six DEF Block_4_2
<1>20. \A k \in Block_5_2 : PassesAll(k)
  <2>1. PICK s :
            s = << "p1_", "p2_", "p3_", "p4_", "p5_", "a1", "a2" >>
    OBVIOUS
  <2>2. /\ DOMAIN s = 1..5 + 2
        /\ \A i \in 1..5 : s[i] = P[i]
        /\ \A i \in 1..2 : s[5 + i] = A[i]
    BY <2>1 DEF P, A
  <2> QED
    BY <2>1, <2>2, Six DEF Block_5_2
<1>21. \A k \in Block_6_2 : PassesAll(k)
  <2>1. PICK s :
            s = << "p1_", "p2_", "p3_", "p4_", "p5_", "p6_", "a1", "a2" >>
    OBVIOUS
  <2>2. /\ DOMAIN s = 1..6 + 2
        /\ \A i \in 1..6 : s[i] = P[i]
        /\ \A i \in 1..2 : s[6 + i] = A[i]
    BY <2>1 DEF P, A
  <2> QED
    BY <2>1, <2>2, Six DEF Block_6_2
<1>22. \A k \in Block_0_3 : PassesAll(k)
  <2>1. PICK s :
            s = << "a1", "a2", "a3" >>
    OBVIOUS
  <2>2. /\ DOMAIN s = 1..0 + 3
        /\ \A i \in 1..0 : s[i] = P[i]
        /\ \A i \in 1..3 : s[0 + i] = A[i]
    BY <2>1 DEF P, A
  <2> QED
    BY <2>1, <2>2, Six DEF Block_0_3
<1>23. \A k \in Block_1_3 : PassesAll(k)
  <2>1. PICK s :
            s = << "p1_", "a1", "a2", "a3" >>
    OBVIOUS
  <2>2. /\ DOMAIN s = 1..1 + 3
        /\ \A i \in 1..1 : s[i] = P[i]
        /\ \A i \in 1..3 : s[1 + i] = A[i]
    BY <2>1 DEF P, A
  <2> QED
    BY <2>1, <2>2, Six DEF Block_1_3
<1>24. \A k \in Block_2_3 : PassesAll(k)
  <2>1. PICK s :
            s = << "p1_", "p2_", "a1", "a2", "a3" >>
    OBVIOUS
  <2>2. /\ DOMAIN s = 1..2 + 3
        /\ \A i \in 1..2 : s[i] = P[i]
        /\ \A i \in 1..3 : s[2 + i] = A[i]
    BY <2>1 DEF P, A
  <2> QED
    BY <2>1, <2>2, Six DEF Block_2_3
<1>25. \A k \in Block_3_3 : PassesAll(k)
  <2>1. PICK s :
            s = << "p1_", "p2_", "p3_", "a1", "a2", "a3" >>
    OBVIOUS
  <2>2. /\ DOMAIN s = 1..3 + 3
        /\ \A i \in 1..3 : s[i] = P[i]
        /\ \A i \in 1..3 : s[3 + i] = A[i]
    BY <2>1 DEF P, A
  <2> QED
    BY <2>1, <2>2, Six DEF Block_3_3
<1>26. \A k \in Block_4_3 : PassesAll(k)
  <2>1. PICK s :
            s = << "p1_", "p2_", "p3_", "p4_", "a1", "a2", "a3" >>
    OBVIOUS
  <2>2. /\ DOMAIN s = 1..4 + 3
        /\ \A i \in 1..4 : s[i] = P[i]
        /\ \A i \in 1..3 : s[4 + i] = A[i]
    BY <2>1 DEF P, A
  <2> QED
    BY <2>1, <2>2, Six DEF Block_4_3
<1>27. \A k \in Block_5_3 : PassesAll(k)
  <2>1. PICK s :
            s = << "p1_", "p2_", "p3_", "p4_", "p5_", "a1", "a2", "a3" >>
    OBVIOUS
  <2>2. /\ DOMAIN s = 1..5 + 3
        /\ \A i \in 1..5 : s[i] = P[i]
        /\ \A i \in 1..3 : s[5 + i] = A[i]
    BY <2>1 DEF P, A
  <2> QED
    BY <2>1, <2>2, Six DEF Block_5_3
<1>28. \A k \in Block_6_3 : PassesAll(k)
  <2>1. PICK s :
            s = << "p1_", "p2_", "p3_", "p4_", "p5_", "p6_", "a1", "a2", "a3" >>
    OBVIOUS
  <2>2. /\ DOMAIN s = 1..6 + 3
        /\ \A i \in 1..6 : s[i] = P[i]
        /\ \A i \in 1..3 : s[6 + i] = A[i]
    BY <2>1 DEF P, A
  <2> QED
    BY <2>1, <2>2, Six DEF Block_6_3
<1>29. \A k \in Block_0_4 : PassesAll(k)
  <2>1. PICK s :
            s = << "a1", "a2", "a3", "a4" >>
    OBVIOUS
  <2>2. /\ DOMAIN s = 1..0 + 4
        /\ \A i \in 1..0 : s[i] = P[i]
        /\ \A i \in 1..4 : s[0 + i] = A[i]
    BY <2>1 DEF P, A
  <2> QED
    BY <2>1, <2>2, Six DEF Block_0_4
<1>30. \A k \in Block_1_4 : PassesAll(k)
  <2>1. PICK s :
            s = << "p1_", "a1", "a2", "a3", "a4" >>
    OBVIOUS
  <2>2. /\ DOMAIN s = 1..1 + 4
        /\ \A i \in 1..1 : s[i] = P[i]
        /\ \A i \in 1..4 : s[1 + i] = A[i]
    BY <2>1 DEF P, A
  <2> QED
    BY <2>1, <2>2, Six DEF Block_1_4
<1>31. \A k \in Block_2_4 : PassesAll(k)
  <2>1. PICK s :
            s = << "p1_", "p2_", "a1", "a2", "a3", "a4" >>
    OBVIOUS
  <2>2. /\ DOMAIN s = 1..2 + 4
        /\ \A i \in 1..2 : s[i] = P[i]
        /\ \A i \in 1..4 : s[2 + i] = A[i]
    BY <2>1 DEF P, A
  <2> QED
    BY <2>1, <2>2, Six DEF Block_2_4
<1>32. \A k \in Block_3_4 : PassesAll(k)
  <2>1. PICK s :
            s = << "p1_", "p2_", "p3_", "a1", "a2", "a3", "a4" >>
    OBVIOUS
  <2>2. /\ DOMAIN s = 1..3 + 4
        /\ \A i \in 1..3 : s[i] = P[i]
        /\ \A i \in 1..4 : s[3 + i] = A[i]
    BY <2>1 DEF P, A
  <2> QED
    BY <2>1, <2>2, Six DEF Block_3_4
<1>33. \A k \in Block_4_4 : PassesAll(k)
  <2>1. PICK s :
            s = << "p1_", "p2_", "p3_", "p4_", "a1", "a2", "a3", "a4" >>
    OBVIOUS
  <2>2. /\ DOMAIN s = 1..4 + 4
        /\ \A i \in 1..4 : s[i] = P[i]
        /\ \A i \in 1..4 : s[4 + i] = A[i]
    BY <2>1 DEF P, A
  <2> QED
    BY <2>1, <2>2, Six DEF Block_4_4
<1>34. \A k \in Block_5_4 : PassesAll(k)
  <2>1. PICK s :
            s = << "p1_", "p2_", "p3_", "p4_", "p5_", "a1", "a2", "a3", "a4" >>
    OBVIOUS
  <2>2. /\ DOMAIN s = 1..5 + 4
        /\ \A i \in 1..5 : s[i] = P[i]
        /\ \A i \in 1..4 : s[5 + i] = A[i]
    BY <2>1 DEF P, A
  <2> QED
    BY <2>1, <2>2, Six DEF Block_5_4
<1>35. \A k \in Block_6_4 : PassesAll(k)
  <2>1. PICK s :
            s = << "p1_", "p2_", "p3_", "p4_", "p5_", "p6_", "a1", "a2", "a3", "a4" >>
    OBVIOUS
  <2>2. /\ DOMAIN s = 1..6 + 4
        /\ \A i \in 1..6 : s[i] = P[i]
        /\ \A i \in 1..4 : s[6 + i] = A[i]
    BY <2>1 DEF P, A
  <2> QED
    BY <2>1, <2>2, Six DEF Block_6_4
<1>36. \A k \in Block_0_5 : PassesAll(k)
  <2>1. PICK s :
            s = << "a1", "a2", "a3", "a4", "a5" >>
    OBVIOUS
  <2>2. /\ DOMAIN s = 1..0 + 5
        /\ \A i \in 1..0 : s[i] = P[i]
        /\ \A i \in 1..5 : s[0 + i] = A[i]
    BY <2>1 DEF P, A
  <2> QED
    BY <2>1, <2>2, Six DEF Block_0_5
<1>37. \A k \in Block_1_5 : PassesAll(k)
  <2>1. PICK s :
            s = << "p1_", "a1", "a2", "a3", "a4", "a5" >>
    OBVIOUS
  <2>2. /\ DOMAIN s = 1..1 + 5
        /\ \A i \in 1..1 : s[i] = P[i]
        /\ \A i \in 1..5 : s[1 + i] = A[i]
    BY <2>1 DEF P, A
  <2> QED
    BY <2>1, <2>2, Six DEF Block_1_5
<1>38. \A k \in Block_2_5 : PassesAll(k)
  <2>1. PICK s :
            s = << "p1_", "p2_", "a1", "a2", "a3", "a4", "a5" >>
    OBVIOUS
  <2>2. /\ DOMAIN s = 1..2 + 5
        /\ \A i \in 1..2 : s[i] = P[i]
        /\ \A i \in 1..5 : s[2 + i] = A[i]
    BY <2>1 DEF P, A
  <2> QED
    BY <2>1, <2>2, Six DEF Block_2_5
<1>39. \A k \in Block_3_5 : PassesAll(k)
  <2>1. PICK s :
            s = << "p1_", "p2_", "p3_", "a1", "a2", "a3", "a4", "a5" >>
    OBVIOUS
  <2>2. /\ DOMAIN s = 1..3 + 5
        /\ \A i \in 1..3 : s[i] = P[i]
        /\ \A i \in 1..5 : s[3 + i] = A[i]
    BY <2>1 DEF P, A
  <2> QED
    BY <2>1, <2>2, Six DEF Block_3_5
<1>40. \A k \in Block_4_5 : PassesAll(k)
  <2>1. PICK s :
            s = << "p1_", "p2_", "p3_", "p4_", "a1", "a2", "a3", "a4", "a5" >>
    OBVIOUS
  <2>2. /\ DOMAIN s = 1..4 + 5
        /\ \A i \in 1..4 : s[i] = P[i]
        /\ \A i \in 1..5 : s[4 + i] = A[i]
    BY <2>1 DEF P, A
  <2> QED
    BY <2>1, <2>2, Six DEF Block_4_5
<1>41. \A k \in Block_5_5 : PassesAll(k)
  <2>1. PICK s :
            s = << "p1_", "p2_", "p3_", "p4_", "p5_", "a1", "a2", "a3", "a4", "a5" >>
    OBVIOUS
  <2>2. /\ DOMAIN s = 1..5 + 5
        /\ \A i \in 1..5 : s[i] = P[i]
        /\ \A i \in 1..5 : s[5 + i] = A[i]
    BY <2>1 DEF P, A
  <2> QED
    BY <2>1, <2>2, Six DEF Block_5_5
<1>42. \A k \in Block_6_5 : PassesAll(k)
  <2>1. PICK s :
            s = << "p1_", "p2_", "p3_", "p4_", "p5_", "p6_", "a1", "a2", "a3", "a4", "a5" >>
    OBVIOUS
  <2>2. /\ DOMAIN s = 1..6 + 5
        /\ \A i \in 1..6 : s[i] = P[i]
        /\ \A i \in 1..5 : s[6 + i] = A[i]
    BY <2>1 DEF P, A
  <2> QED
    BY <2>1, <2>2, Six DEF Block_6_5
<1> QED
  BY <1>1, <1>2, <1>3, <1>4, <1>5, <1>6, <1>7, <1>8, <1>9, <1>10, <1>11,
     <1>12, <1>13, <1>14, <1>15, <1>16, <1>17, <1>18, <1>19, <1>20, <1>21,
     <1>22, <1>23, <1>24, <1>25, <1>26, <1>27, <1>28, <1>29, <1>30, <1>31,
     <1>32, <1>33, <1>34, <1>35, <1>36, <1>37, <1>38, <1>39, <1>40, <1>41,
     <1>42 DEF AllClasses
-----------------------------------------------------------------------------
(* What steps do to the sequences.                                         *)

LEMMA FunctionIsSeq ==
    ASSUME NEW S, NEW n \in Nat, NEW f \in [1..n -> S]
    PROVE  f \in Seq(S) /\ Len(f) = n
<1>1. f = [i \in 1..n |-> f[i]]
  OBVIOUS
<1>2. /\ [i \in 1..n |-> f[i]] \in Seq(S)
      /\ Len([i \in 1..n |-> f[i]]) = n
  OBVIOUS
<1> QED
  BY <1>1, <1>2

(* g is f and one element more. *)
OneMore(S, n, f, x, g) ==
    /\ g \in [1..n + 1 -> S]
    /\ \A i \in 1..n : g[i] = f[i]
    /\ g[n + 1] = x

LEMMA Appended ==
    ASSUME NEW S, NEW n \in Nat, NEW f \in [1..n -> S], NEW x \in S
    PROVE  OneMore(S, n, f, x, Append(f, x))
<1>1. f \in Seq(S) /\ Len(f) = n
  BY FunctionIsSeq
<1>2. PICK g \in Seq(S) : g = Append(f, x)
  BY <1>1, AppendProperties
<1>3. Len(g) = n + 1 /\ (\A i \in 1..n : g[i] = f[i]) /\ g[n + 1] = x
  BY <1>1, <1>2, AppendProperties
<1>4. g \in [1..n + 1 -> S]
  BY <1>3, LenProperties
<1> QED
  BY <1>2, <1>3, <1>4 DEF OneMore

LEMMA StackPopped ==
    ASSUME TypeOK, stack # << >>, stack' = SubSeq(stack, 1, Len(stack) - 1)
    PROVE  /\ stack' \in Seq(Callbacks)
           /\ Len(stack') = Len(stack) - 1
           /\ \A i \in 1..Len(stack') : stack'[i] = stack[i]
           /\ Len(stack) \in Nat \ {0}
           /\ stack[Len(stack)] \in Callbacks
<1> DEFINE n == Len(stack) - 1
<1>1. stack \in Seq(Callbacks)
  BY DEF TypeOK
<1>2. Len(stack) \in Nat \ {0}
  BY <1>1, EmptySeq
<1>3. n \in Nat /\ \A i \in 1..n : stack[i] \in Callbacks
  BY <1>1, <1>2
<1>4. /\ stack' \in Seq(Callbacks)
      /\ Len(stack') = IF 1 <= n THEN n - 1 + 1 ELSE 0
      /\ \A i \in 1..(n - 1 + 1) : stack'[i] = stack[1 + i - 1]
  <2> HIDE DEF n
  <2> QED BY <1>3, SubSeqProperties DEF n
<1>5. Len(stack') = n /\ \A i \in 1..n : stack'[i] = stack[i]
  <2> HIDE DEF n
  <2> QED BY <1>3, <1>4
<1>6. stack[Len(stack)] \in Callbacks
  BY <1>1, <1>2
<1> QED
  BY <1>2, <1>4, <1>5, <1>6

(* A callback is changed: only in whether it has a target, or is there. *)
LEMMA CallbackChanged ==
    ASSUME TypeOK, NEW c \in Callbacks, NEW d \in Records,
           callbacks' = [callbacks EXCEPT ![c] = d]
    PROVE  /\ callbacks' \in Seq(Records)
           /\ Len(callbacks') = Len(callbacks)
           /\ \A e \in Callbacks : callbacks'[e] = IF e = c THEN d ELSE callbacks[e]
<1>1. callbacks \in Seq(Records)
  BY DEF TypeOK, Records
<1> QED
  BY <1>1, ExceptSeq DEF Callbacks

LEMMA RecordChanged ==
    ASSUME NEW r \in Records, NEW a \in BOOLEAN
    PROVE  /\ [r EXCEPT !.allocated = a] \in Records
           /\ [r EXCEPT !.allocated = a].class = r.class
           /\ [r EXCEPT !.allocated = a].del = r.del
           /\ [r EXCEPT !.allocated = a].allocated = a
           /\ [r EXCEPT !.allocated = a].target = r.target
           /\ [r EXCEPT !.target = a] \in Records
           /\ [r EXCEPT !.target = a].class = r.class
           /\ [r EXCEPT !.target = a].del = r.del
           /\ [r EXCEPT !.target = a].target = a
           /\ [r EXCEPT !.target = a].allocated = r.allocated
BY DEF Records

(* Deleting a pointer: of NULL nothing, of a callback its memory. *)
LEMMA DeletedProperties ==
    ASSUME TypeOK, NEW c \in 0..Len(callbacks), callbacks' = Deleted(c)
    PROVE  /\ callbacks' \in Seq(Records)
           /\ Len(callbacks') = Len(callbacks)
           /\ \A e \in Callbacks :
                 /\ callbacks'[e].class = callbacks[e].class
                 /\ callbacks'[e].del = callbacks[e].del
                 /\ callbacks'[e].target = callbacks[e].target
                 /\ callbacks'[e].allocated <=> (callbacks[e].allocated /\ e # c)
<1>1. callbacks \in Seq(Records) /\ Len(callbacks) \in Nat
  BY DEF TypeOK, Records
<1>2. CASE c = 0
  BY <1>1, <1>2 DEF Deleted, Callbacks, Records
<1>3. CASE c # 0
  <2> DEFINE d == [callbacks[c] EXCEPT !.allocated = FALSE]
  <2>1. c \in Callbacks
    BY <1>1, <1>3 DEF Callbacks
  <2>2. /\ d \in Records
        /\ d.class = callbacks[c].class
        /\ d.del = callbacks[c].del /\ d.target = callbacks[c].target /\ d.allocated = FALSE
    <3>1. callbacks[c] \in Records
      BY <1>1, <2>1 DEF Callbacks
    <3> QED
      BY <3>1, RecordChanged
  <2>3. callbacks' = [callbacks EXCEPT ![c] = d]
    BY <1>3 DEF Deleted
  <2>4. /\ callbacks' \in Seq(Records)
        /\ Len(callbacks') = Len(callbacks)
        /\ \A e \in Callbacks : callbacks'[e] = IF e = c THEN d ELSE callbacks[e]
    <3> HIDE DEF d
    <3> QED BY <2>1, <2>2, <2>3, CallbackChanged
  <2>5. \A e \in Callbacks : callbacks[e] \in Records
    BY <1>1 DEF Callbacks
  <2> QED
    BY <2>2, <2>4, <2>5 DEF Records
<1> QED
  BY <1>2, <1>3

(* A new callback. *)
Made(class, del) == [class |-> class, del |-> del, target |-> TRUE, allocated |-> TRUE]

NewState(class, del, d, member) ==
    LET new == Len(callbacks) + 1 IN
    /\ callbacks' \in [1..new -> Records]
    /\ \A e \in Callbacks : callbacks'[e] = callbacks[e]
    /\ callbacks'[new] = Made(class, del)
    /\ holder' \in [1..new -> Holders]
    /\ \A e \in Callbacks : holder'[e] = IF e = d THEN "argument" ELSE holder[e]
    /\ holder'[new] = "maker"
    /\ place' \in [1..new -> Places(new)]
    /\ \A e \in Callbacks :
          place'[e] = IF e = d THEN [of |-> new, member |-> member] ELSE place[e]
    /\ runs' \in [1..new -> Nat]
    /\ \A e \in Callbacks : runs'[e] = runs[e]
    /\ runs'[new] = 0

LEMMA ClassGiven ==
    ASSUME TypeOK, Len(callbacks) < MaxCallbacks, NEW class \in Classes[Len(callbacks) + 1]
    PROVE  class \in AllClasses
<1>1. Len(callbacks) + 1 \in 1..MaxCallbacks
  BY BoundsAssumption DEF TypeOK
<1> QED
  BY <1>1, ClassesAssumption

LEMMA NewProperties ==
    ASSUME TypeOK, NEW class \in Classes[Len(callbacks) + 1], NEW del \in BOOLEAN,
           NEW d \in 0..Len(callbacks), NEW member \in Range(P) \cup {"none"},
           New(class, del, d, member)
    PROVE  NewState(class, del, d, member)
<1>1. PICK n \in Nat : n = Len(callbacks)
  <2>1. Len(callbacks) \in Nat
    BY DEF TypeOK
  <2> QED
    BY <2>1
<1>2. Callbacks = 1..n
  BY <1>1 DEF Callbacks
<1>3. /\ callbacks' \in [1..n + 1 -> Records]
      /\ \A e \in 1..n : callbacks'[e] = callbacks[e]
      /\ callbacks'[n + 1] = Made(class, del)
  <2>1. callbacks \in [1..n -> Records]
    BY <1>1, LenProperties DEF TypeOK, Records
  <2>2. Made(class, del) \in Records
    BY ClassGiven DEF New, Made, Records
  <2>3. callbacks' = Append(callbacks, Made(class, del))
    BY DEF New, Made
  <2>4. OneMore(Records, n, callbacks, Made(class, del), callbacks')
    BY <2>1, <2>2, <2>3, Appended, Zenon
  <2> QED
    BY <2>4 DEF OneMore
<1>4. /\ holder' \in [1..n + 1 -> Holders]
      /\ \A e \in 1..n : holder'[e] = IF e = d THEN "argument" ELSE holder[e]
      /\ holder'[n + 1] = "maker"
  <2>1. PICK f : f = [e \in 1..n |-> IF e = d THEN "argument" ELSE holder[e]]
    OBVIOUS
  <2>2. f \in [1..n -> Holders] /\ "maker" \in Holders
    BY <1>2, <2>1 DEF TypeOK, Holders
  <2>3. holder' = Append(f, "maker")
    BY <1>2, <2>1 DEF New
  <2>4. OneMore(Holders, n, f, "maker", holder')
    BY <2>2, <2>3, Appended, Zenon
  <2> QED
    BY <2>1, <2>4 DEF OneMore
<1>5. /\ place' \in [1..n + 1 -> Places(n + 1)]
      /\ \A e \in 1..n :
            place'[e] = IF e = d THEN [of |-> n + 1, member |-> member] ELSE place[e]
  <2>1. PICK f : f = [e \in 1..n |-> IF e = d THEN [of |-> n + 1, member |-> member]
                                     ELSE place[e]]
    OBVIOUS
  <2>2. f \in [1..n -> Places(n + 1)] /\ NoPlace \in Places(n + 1)
    <3>1. \A e \in 1..n : place[e] \in Places(n)
      BY <1>1, <1>2 DEF TypeOK, Places
    <3>2. \A l \in Places(n) : l \in Places(n + 1)
      BY DEF Places
    <3>3. [of |-> n + 1, member |-> member] \in Places(n + 1)
      BY DEF Places
    <3>4. \A e \in 1..n : (IF e = d THEN [of |-> n + 1, member |-> member] ELSE place[e])
                              \in Places(n + 1)
      BY <3>1, <3>2, <3>3, Zenon
    <3>5. NoPlace \in Places(n + 1)
      BY DEF NoPlace, Places
    <3> QED
      BY <2>1, <3>4, <3>5, Zenon
  <2>3. place' = Append(f, NoPlace)
    BY <1>1, <1>2, <2>1 DEF New
  <2>4. OneMore(Places(n + 1), n, f, NoPlace, place')
    BY <2>2, <2>3, Appended, Zenon
  <2> QED
    BY <2>1, <2>4 DEF OneMore
<1>6. /\ runs' \in [1..n + 1 -> Nat]
      /\ \A e \in 1..n : runs'[e] = runs[e]
      /\ runs'[n + 1] = 0
  <2>1. runs \in [1..n -> Nat] /\ runs' = Append(runs, 0)
    BY <1>2 DEF TypeOK, New
  <2>2. OneMore(Nat, n, runs, 0, runs')
    BY <2>1, Appended, Zenon
  <2> QED
    BY <2>2 DEF OneMore
<1> QED
  BY <1>1, <1>2, <1>3, <1>4, <1>5, <1>6 DEF NewState

-----------------------------------------------------------------------------
(* Types                                                                   *)

LEMMA TypeKept ==
    ASSUME TypeOK,
           callbacks' \in Seq(Records), Len(callbacks') = Len(callbacks),
           holder' \in [Callbacks -> Holders],
           place' = place,
           pointers' \in [Pointers -> 0..Len(callbacks)],
           stack' \in Seq(Callbacks),
           object' \in BOOLEAN,
           ended' \in {"no", "fatal", "segfault", "undefined"},
           runs' \in [Callbacks -> Nat],
           UNCHANGED manner
    PROVE  TypeOK'
BY DEF TypeOK, Records, Holders, Callbacks, Pointers

LEMMA TypeInit == Init => TypeOK
<1> SUFFICES ASSUME Init PROVE TypeOK
  OBVIOUS
<1>1. callbacks \in Seq(Records) /\ Len(callbacks) = 0 /\ stack \in Seq(Callbacks)
  BY DEF Init
<1>2. /\ holder \in [Callbacks -> Holders] /\ runs \in [Callbacks -> Nat]
      /\ place \in [Callbacks -> Places(Len(callbacks))]
  BY <1>1 DEF Init, Callbacks
<1>3. pointers \in [Pointers -> 0..Len(callbacks)]
  BY <1>1 DEF Init
<1> QED
  BY <1>1, <1>2, <1>3 DEF Init, TypeOK, Records, Holders, Places

LEMMA NewType ==
    ASSUME TypeOK, NEW class \in Classes[Len(callbacks) + 1], NEW del \in BOOLEAN,
           NEW d \in 0..Len(callbacks), NEW member \in Range(P) \cup {"none"},
           New(class, del, d, member)
    PROVE  TypeOK'
<1>0. NewState(class, del, d, member)
  BY NewProperties
<1>1. PICK new \in Nat : new = Len(callbacks) + 1
  BY DEF TypeOK
<1>2. callbacks' \in Seq(Records) /\ Len(callbacks') = new
  <2>1. callbacks' \in [1..new -> Records]
    BY <1>0, <1>1 DEF NewState
  <2> QED
    BY <2>1, FunctionIsSeq
<1>3. Callbacks' = 1..new /\ Callbacks \subseteq Callbacks'
  BY <1>1, <1>2 DEF Callbacks, TypeOK
<1>4. /\ holder' \in [Callbacks' -> Holders]
      /\ place' \in [Callbacks' -> Places(new)]
      /\ runs' \in [Callbacks' -> Nat]
  BY <1>0, <1>1, <1>3 DEF NewState
<1>5. stack' \in Seq(Callbacks')
  <2>1. stack \in Seq(Callbacks) /\ stack' = stack
    BY DEF TypeOK, New
  <2> QED
    BY <1>3, <2>1, SeqMonotonic
<1>6. pointers' \in [Pointers -> 0..Len(callbacks')]
  BY <1>1, <1>2 DEF TypeOK, New
<1> QED
  BY <1>2, <1>4, <1>5, <1>6 DEF TypeOK, New, Records, Holders, Pointers, Places

LEMMA ResetType ==
    ASSUME TypeOK, NEW s \in Pointers, NEW c \in 0..Len(callbacks), Reset(s, c),
           holder' \in [Callbacks -> Holders], UNCHANGED << manner, place, stack, object, runs >>
    PROVE  TypeOK'
<1>1. pointers[s] \in 0..Len(callbacks)
  BY DEF TypeOK
<1>2. CASE c # pointers[s]
  <2>1. callbacks' \in Seq(Records) /\ Len(callbacks') = Len(callbacks)
    BY <1>1, <1>2, DeletedProperties DEF Reset
  <2>2. pointers' \in [Pointers -> 0..Len(callbacks)]
    BY <1>2 DEF Reset, TypeOK
  <2> QED
    BY <1>2, <2>1, <2>2, TypeKept DEF Reset, TypeOK
<1>3. CASE c = pointers[s]
  BY <1>3, TypeKept DEF Reset, TypeOK, Records
<1> QED
  BY <1>2, <1>3

LEMMA RunType ==
    ASSUME TypeOK, NEW c \in Callbacks, NEW g, NEW parameter, Run(c, g, parameter)
    PROVE  TypeOK'
<1>1. holder' \in [Callbacks -> Holders]
  BY DEF Run, HolderAfterRun, Holders, TypeOK
<1>2. stack' \in Seq(Callbacks)
  BY AppendProperties DEF Run, TypeOK
<1>3. runs' \in [Callbacks -> Nat]
  <2>1. runs' = [runs EXCEPT ![c] = runs[c] + 1]
    BY Zenon DEF Run
  <2>2. runs \in [Callbacks -> Nat]
    BY DEF TypeOK
  <2> QED
    BY <2>1, <2>2
<1>4. UNCHANGED << manner, callbacks, place, pointers, object, ended >>
  BY DEF Run
<1> QED
  BY <1>1, <1>2, <1>3, <1>4, TypeKept DEF TypeOK, Records

LEMMA ReturnProperties ==
    ASSUME TypeOK, NEW r, Return(r)
    PROVE  LET c == stack[Len(stack)] IN
           /\ c \in Callbacks
           /\ callbacks' \in Seq(Records)
           /\ Len(callbacks') = Len(callbacks)
           /\ \A e \in Callbacks :
                 /\ callbacks'[e].class = callbacks[e].class
                 /\ callbacks'[e].del = callbacks[e].del
                 /\ e # c \/ ~callbacks[c].del => callbacks'[e] = callbacks[e]
           /\ callbacks[c].del => ~callbacks'[c].allocated /\ ~callbacks'[c].target
<1>1. PICK c \in Callbacks : c = stack[Len(stack)]
  BY StackPopped DEF Return
<1>2. callbacks \in Seq(Records)
  BY DEF TypeOK, Records
<1>3. CASE callbacks[c].del
  <2>1. PICK z \in Records :
            /\ z = [callbacks[c] EXCEPT !.target = FALSE]
            /\ z.class = callbacks[c].class /\ z.del = callbacks[c].del /\ z.target = FALSE
    <3>1. PICK old \in Records : old = callbacks[c]
      BY <1>2, ElementOfSeq DEF Callbacks
    <3>2. /\ [old EXCEPT !.target = FALSE] \in Records
          /\ [old EXCEPT !.target = FALSE].class = old.class
          /\ [old EXCEPT !.target = FALSE].del = old.del
          /\ [old EXCEPT !.target = FALSE].target = FALSE
      BY RecordChanged
    <3> QED
      BY <3>1, <3>2
  <2>2. PICK d \in Records :
            /\ d = [z EXCEPT !.allocated = FALSE]
            /\ d.class = z.class /\ d.del = z.del /\ d.target = FALSE /\ d.allocated = FALSE
    <3>1. /\ [z EXCEPT !.allocated = FALSE] \in Records
          /\ [z EXCEPT !.allocated = FALSE].class = z.class
          /\ [z EXCEPT !.allocated = FALSE].del = z.del
          /\ [z EXCEPT !.allocated = FALSE].target = z.target
          /\ [z EXCEPT !.allocated = FALSE].allocated = FALSE
      BY <2>1, RecordChanged
    <3> QED
      BY <2>1, <3>1
  <2>3. callbacks' = [callbacks EXCEPT ![c] = d]
    BY <1>1, <1>3, <2>1, <2>2 DEF Return
  <2>4. /\ callbacks' \in Seq(Records)
        /\ Len(callbacks') = Len(callbacks)
        /\ \A e \in Callbacks : callbacks'[e] = IF e = c THEN d ELSE callbacks[e]
    BY <2>3, CallbackChanged
  <2> QED
    BY <1>1, <1>3, <2>1, <2>2, <2>4
<1>4. CASE ~callbacks[c].del
  BY <1>1, <1>2, <1>4 DEF Return
<1> QED
  BY <1>3, <1>4

LEMMA ReturnType ==
    ASSUME TypeOK, NEW r, Return(r)
    PROVE  TypeOK'
<1>1. holder' \in [Callbacks -> Holders]
  BY DEF Return, Holders, TypeOK
<1>2. stack' \in Seq(Callbacks)
  BY StackPopped DEF Return
<1>3. ended' \in {"no", "fatal", "segfault", "undefined"}
  BY DEF Return, TypeOK
<1>4. UNCHANGED << manner, place, pointers, object, runs >>
  BY DEF Return
<1> QED
  BY <1>1, <1>2, <1>3, <1>4, ReturnProperties, TypeKept DEF TypeOK

LEMMA TypeNext == TypeOK /\ [Next]_vars => TypeOK'
<1> SUFFICES ASSUME TypeOK, [Next]_vars PROVE TypeOK'
  OBVIOUS
<1> USE DEF Holders, held
<1>0. /\ callbacks \in Seq(Records)
      /\ Len(callbacks) \in Nat
      /\ holder \in [Callbacks -> Holders]
      /\ \A c \in Callbacks : callbacks[c] \in Records
  <2>1. callbacks \in Seq(Records) /\ holder \in [Callbacks -> Holders]
    BY DEF TypeOK, Records
  <2> QED
    BY <2>1, ElementOfSeq, LenProperties DEF Callbacks
<1>1. CASE UNCHANGED vars
  BY <1>0, <1>1, TypeKept DEF vars, TypeOK
<1>2. ASSUME NEW class \in Classes[Len(callbacks) + 1], NEW del \in BOOLEAN,
             NEW d \in 0..Len(callbacks), NEW member \in Range(P) \cup {"none"},
             New(class, del, d, member)
      PROVE  TypeOK'
  BY <1>2, NewType
<1>3. ASSUME NEW c \in Callbacks, GiveToRunner(c)
      PROVE  TypeOK'
  BY <1>0, <1>3, TypeKept DEF GiveToRunner, TypeOK
<1>4. ASSUME NEW c \in Callbacks, NEW g, NEW parameter, Run(c, g, parameter)
      PROVE  TypeOK'
  BY <1>4, RunType
<1>5. ASSUME NEW c \in Callbacks, RunFreed(c)
      PROVE  TypeOK'
  BY <1>0, <1>5, TypeKept DEF RunFreed, TypeOK
<1>6. ASSUME NEW c \in Callbacks, Delete(c)
      PROVE  TypeOK'
  <2>1. callbacks' \in Seq(Records) /\ Len(callbacks') = Len(callbacks)
    BY <1>0, <1>6, DeletedProperties DEF Delete, Callbacks
  <2>2. holder' \in [Callbacks -> Holders]
    BY <1>0, <1>6 DEF Delete
  <2> QED
    BY <1>6, <2>1, <2>2, TypeKept DEF Delete, TypeOK
<1>7. ASSUME NEW c \in Callbacks, NEW s \in Pointers, GiveToKeeper(c, s)
      PROVE  TypeOK'
  <2>1. CASE CheckIsRepeatable(c)
    <3>1. holder' \in [Callbacks -> Holders]
      BY <1>0, <1>7, <2>1 DEF GiveToKeeper
    <3> QED
      BY <1>0, <1>7, <2>1, <3>1, ResetType DEF GiveToKeeper, Callbacks
  <2>2. CASE ~CheckIsRepeatable(c)
    BY <1>0, <1>7, <2>2, TypeKept DEF GiveToKeeper, TypeOK
  <2> QED
    BY <2>1, <2>2
<1>8. ASSUME NEW r, Return(r)
      PROVE  TypeOK'
  BY <1>8, ReturnType
<1>9. ASSUME NEW s \in Pointers, ResetToOwn(s)
      PROVE  TypeOK'
  BY <1>0, <1>9, ResetType DEF ResetToOwn, TypeOK
<1>10. ASSUME NEW s \in Pointers, Drop(s)
       PROVE  TypeOK'
  BY <1>0, <1>10, ResetType DEF Drop
<1>11. ASSUME NEW s \in Pointers, GiveBack(s)
       PROVE  TypeOK'
  <2>1. holder' \in [Callbacks -> Holders]
    BY <1>0, <1>11 DEF GiveBack
  <2>2. pointers' \in [Pointers -> 0..Len(callbacks)]
    BY <1>0, <1>11 DEF GiveBack, Release, TypeOK
  <2> QED
    BY <1>0, <1>11, <2>1, <2>2, TypeKept DEF GiveBack, TypeOK
<1>12. ASSUME NEW s \in Pointers, NEW t \in Pointers, Swap(s, t)
       PROVE  TypeOK'
  <2>1. pointers' \in [Pointers -> 0..Len(callbacks)]
    BY <1>12 DEF Swap, TypeOK
  <2> QED
    BY <1>0, <1>12, <2>1, TypeKept DEF Swap, TypeOK
<1>13. ASSUME NEW c \in Callbacks, RunWithoutObject(c)
       PROVE  TypeOK'
  BY <1>0, <1>13, TypeKept DEF RunWithoutObject, TypeOK
<1>14. CASE DestroyObject
  BY <1>0, <1>14, TypeKept DEF DestroyObject, TypeOK
<1> QED
  BY <1>1, <1>2, <1>3, <1>4, <1>5, <1>6, <1>7, <1>8, <1>9, <1>10, <1>11, <1>12,
     <1>13, <1>14 DEF Next

(* In every reachable state each variable has its type, whatever blocks,   *)
(* manners and numbers of callbacks and pointers there are.                *)
THEOREM TypeCorrect == Spec => []TypeOK
<1>1. Init => TypeOK
  BY TypeInit
<1>2. TypeOK /\ [Next]_vars => TypeOK'
  BY TypeNext
<1> QED
  BY <1>1, <1>2, PTL DEF Spec

-----------------------------------------------------------------------------
(* One owner                                                               *)

(* The pointers after a reset, when nobody else has its new pointer. *)
LEMMA ResetKeepsOneOwner ==
    ASSUME TypeOK, OneOwner, NEW s \in Pointers, NEW c \in 0..Len(callbacks), Reset(s, c),
           c # 0 => holder'[c] = "nobody",
           \A t \in Pointers : t # s /\ pointers[t] # 0 =>
               pointers[t] # c /\ holder'[pointers[t]] = "nobody"
    PROVE  OneOwner'
<1>1. pointers \in [Pointers -> 0..Len(callbacks)]
  BY DEF TypeOK
<1>2. pointers' = [pointers EXCEPT ![s] = c]
  BY <1>1 DEF Reset
<1>3. Pointers' = Pointers
  BY DEF Pointers
<1> QED
  BY <1>1, <1>2, <1>3 DEF OneOwner

LEMMA OneOwnerNext == TypeOK /\ OneOwner /\ [Next]_vars => OneOwner'
<1> SUFFICES ASSUME TypeOK, OneOwner, [Next]_vars PROVE OneOwner'
  OBVIOUS
<1>0. /\ Len(callbacks) \in Nat
      /\ holder \in [Callbacks -> Holders]
      /\ pointers \in [Pointers -> 0..Len(callbacks)]
      /\ \A s \in Pointers : pointers[s] # 0 => pointers[s] \in Callbacks
      /\ Pointers' = Pointers
  BY DEF TypeOK, Holders, Callbacks, Pointers
<1>1. CASE UNCHANGED vars
  BY <1>0, <1>1 DEF vars, held, OneOwner
<1>2. ASSUME NEW class \in Classes[Len(callbacks) + 1], NEW del \in BOOLEAN,
             NEW d \in 0..Len(callbacks), NEW member \in Range(P) \cup {"none"},
             New(class, del, d, member)
      PROVE  OneOwner'
  <2>1. \A c \in Callbacks : holder[c] = "nobody" => holder'[c] = "nobody"
    <3>1. NewState(class, del, d, member)
      BY <1>2, NewProperties, Zenon
    <3>2. d # 0 => holder[d] = "maker"
      BY <1>2 DEF New, MayBind
    <3> QED
      BY <3>1, <3>2 DEF Callbacks, NewState
  <2> QED
    BY <1>0, <1>2, <2>1 DEF New, OneOwner
<1>3. ASSUME NEW c \in Callbacks, GiveToRunner(c)
      PROVE  OneOwner'
  BY <1>0, <1>3 DEF GiveToRunner, OneOwner
<1>4. ASSUME NEW c \in Callbacks, NEW g \in 0..Len(callbacks),
             NEW parameter, Run(c, g, parameter)
      PROVE  OneOwner'
  <2>1. \A d \in Callbacks : holder[d] = "nobody" => holder'[d] = "nobody"
    BY <1>0, <1>4 DEF Run, HolderAfterRun, MayGive, BoundIn, Callbacks
  <2> QED
    BY <1>0, <1>4, <2>1 DEF Run, OneOwner
<1>5. ASSUME NEW c \in Callbacks, RunFreed(c)
      PROVE  OneOwner'
  BY <1>0, <1>5 DEF RunFreed, held, OneOwner
<1>6. ASSUME NEW c \in Callbacks, Delete(c)
      PROVE  OneOwner'
  <2>1. \A d \in Callbacks : holder[d] = "nobody" => holder'[d] = "nobody"
    BY <1>0, <1>6 DEF Delete, BoundIn
  <2> QED
    BY <1>0, <1>6, <2>1 DEF Delete, OneOwner
<1>7. ASSUME NEW c \in Callbacks, NEW s \in Pointers, GiveToKeeper(c, s)
      PROVE  OneOwner'
  <2>1. CASE CheckIsRepeatable(c)
    <3>1. /\ Reset(s, c)
          /\ holder[c] = "maker"
          /\ holder' = [holder EXCEPT ![c] = "nobody"]
      BY <1>7, <2>1 DEF GiveToKeeper
    <3>2. \A t \in Pointers : pointers[t] # 0 =>
              pointers[t] # c /\ holder'[pointers[t]] = "nobody"
      BY <1>0, <3>1 DEF OneOwner
    <3>3. c \in 0..Len(callbacks) /\ holder'[c] = "nobody"
      BY <1>0, <3>1 DEF Callbacks
    <3> QED
      BY <3>1, <3>2, <3>3, ResetKeepsOneOwner
  <2>2. CASE ~CheckIsRepeatable(c)
    BY <1>0, <1>7, <2>2 DEF GiveToKeeper, OneOwner
  <2> QED
    BY <2>1, <2>2
<1>8. ASSUME NEW r \in 0..Len(callbacks), Return(r)
      PROVE  OneOwner'
  <2>1. \A d \in Callbacks : holder[d] = "nobody" => holder'[d] = "nobody"
    BY <1>0, <1>8 DEF Return, Callbacks
  <2> QED
    BY <1>0, <1>8, <2>1 DEF Return, OneOwner
<1>9. ASSUME NEW s \in Pointers, ResetToOwn(s)
      PROVE  OneOwner'
  BY <1>0, <1>9 DEF ResetToOwn, held, Reset, OneOwner
<1>10. ASSUME NEW s \in Pointers, Drop(s)
       PROVE  OneOwner'
  BY <1>0, <1>10, ResetKeepsOneOwner DEF Drop, held, OneOwner
<1>11. ASSUME NEW s \in Pointers, GiveBack(s)
       PROVE  OneOwner'
  <2>1. /\ pointers' = [pointers EXCEPT ![s] = 0]
        /\ holder' = [holder EXCEPT ![pointers[s]] = "maker"]
        /\ pointers[s] # 0
    BY <1>11 DEF GiveBack, Release
  <2> QED
    BY <1>0, <2>1 DEF OneOwner
<1>12. ASSUME NEW s \in Pointers, NEW t \in Pointers, Swap(s, t)
       PROVE  OneOwner'
  <2>1. /\ \A u \in Pointers : pointers'[u] =
                IF u = t THEN pointers[s] ELSE IF u = s THEN pointers[t] ELSE pointers[u]
        /\ UNCHANGED holder
    BY <1>0, <1>12 DEF Swap, held
  <2> QED
    BY <1>0, <2>1 DEF OneOwner
<1>13. ASSUME NEW c \in Callbacks, RunWithoutObject(c)
       PROVE  OneOwner'
  BY <1>0, <1>13 DEF RunWithoutObject, held, OneOwner
<1>14. CASE DestroyObject
  BY <1>0, <1>14 DEF DestroyObject, held, OneOwner
<1> QED
  BY <1>1, <1>2, <1>3, <1>4, <1>5, <1>6, <1>7, <1>8, <1>9, <1>10, <1>11, <1>12,
     <1>13, <1>14 DEF Next

(* A callback in a scoped_ptr has no other owner, neither another          *)
(* scoped_ptr nor the code that made or runs it: reset, release, swap and  *)
(* the destructor keep this up for any number of pointers and callbacks.   *)
THEOREM AlwaysOneOwner == Spec => []OneOwner
<1>1. Init => TypeOK /\ OneOwner
  BY TypeInit DEF Init, OneOwner
<1>2. TypeOK /\ OneOwner /\ [Next]_vars => TypeOK' /\ OneOwner'
  BY TypeNext, OneOwnerNext
<1> QED
  BY <1>1, <1>2, PTL DEF Spec

-----------------------------------------------------------------------------
(* Nothing is used after it is freed, and nothing is lost                  *)

(* A callback that somebody holds is there, and if it destroys itself it   *)
(* is not running; one in a scoped_ptr is there, and does not destroy      *)
(* itself; one that runs and will destroy itself is there until then; and  *)
(* if nobody has it, it is gone, or about to go.                           *)
CallbackOK(c) ==
    /\ holder[c] # "nobody" => ~Freed(c) /\ ~(callbacks[c].del /\ Running(c))
    /\ Kept(c) => ~Freed(c) /\ ~callbacks[c].del
    /\ Running(c) /\ callbacks[c].del => ~Freed(c)
    /\ holder[c] = "nobody" /\ ~Kept(c) => Freed(c) \/ (callbacks[c].del /\ Running(c))

(* What destroys itself runs once at a time. *)
OneRun ==
    \A i, j \in 1..Len(stack) :
        stack[i] = stack[j] /\ callbacks[stack[i]].del => i = j

(* What is bound is bound in one that will run once and has not, in a      *)
(* member of it; what runs has been counted; and as long as a method may   *)
(* be called, its object is there.                                         *)
BindingOK(c) ==
    LET of == place[c].of IN
    /\ of \in Callbacks /\ ~Freed(of)
    /\ callbacks[of].del /\ runs[of] = 0
    /\ place[c].member \in Range(Class(of).stores)
PlaceOK(c) ==
    /\ holder[c] = "argument" => BindingOK(c)
    /\ Running(c) => runs[c] > 0
    /\ MayCall(c) => object

Owned ==
    manner = "owners" =>
        /\ \A c \in Callbacks : CallbackOK(c)
        /\ \A c \in Callbacks : PlaceOK(c)
        /\ OneRun
        /\ ended \in {"no", "fatal"}

Ownership == TypeOK /\ OneOwner /\ Owned

LEMMA CallbackSame ==
    ASSUME NEW c, CallbackOK(c),
           holder'[c] = "nobody" <=> holder[c] = "nobody",
           callbacks'[c].allocated <=> callbacks[c].allocated,
           callbacks'[c].del = callbacks[c].del,
           Kept(c)' <=> Kept(c),
           callbacks[c].del => (Running(c)' <=> Running(c))
    PROVE  CallbackOK(c)'
BY DEF CallbackOK, Freed

(* What a callback is bound in stays as it is. *)
BindingSame(c) ==
    holder'[c] = "argument" =>
        /\ holder[c] = "argument"
        /\ place'[c] = place[c]
        /\ LET of == place[c].of IN
           of \in Callbacks =>
               /\ of \in Callbacks'
               /\ callbacks'[of].allocated <=> callbacks[of].allocated
               /\ callbacks'[of].del = callbacks[of].del
               /\ callbacks'[of].class = callbacks[of].class
               /\ runs'[of] = runs[of]

LEMMA PlaceSame ==
    ASSUME NEW c, PlaceOK(c), BindingSame(c), UNCHANGED object,
           callbacks'[c].class = callbacks[c].class,
           callbacks'[c].del = callbacks[c].del,
           callbacks'[c].allocated => callbacks[c].allocated,
           Running(c)' => Running(c),
           callbacks[c].del /\ Running(c) => Running(c)',
           runs'[c] = runs[c]
    PROVE  PlaceOK(c)'
<1>1. holder'[c] = "argument" => BindingOK(c)'
  <2>1. SUFFICES ASSUME holder'[c] = "argument" PROVE BindingOK(c)'
    OBVIOUS
  <2>2. BindingOK(c)
    BY <2>1 DEF PlaceOK, BindingSame
  <2> QED
    BY <2>1, <2>2 DEF BindingOK, BindingSame, Freed, Class
<1>2. Running(c)' => runs'[c] > 0
  BY DEF PlaceOK
<1>3. MayCall(c)' => object'
  BY DEF PlaceOK, MayCall, IsMethod, Class, Freed
<1> QED
  BY <1>1, <1>2, <1>3 DEF PlaceOK

(* The stack is the same, and so is what destroys itself. *)
LEMMA OneRunSame ==
    ASSUME TypeOK, OneRun, UNCHANGED stack,
           \A c \in Callbacks : callbacks'[c].del = callbacks[c].del
    PROVE  OneRun'
<1>1. \A i \in 1..Len(stack) : stack[i] \in Callbacks
  BY ElementOfSeq DEF TypeOK
<1> QED
  BY <1>1 DEF OneRun

(* A reset: what was in the scoped_ptr, and in no other, is freed. *)
LEMMA ResetKeepsOwned ==
    ASSUME Ownership, manner = "owners", ended = "no",
           NEW s \in Pointers, NEW c \in 0..Len(callbacks), Reset(s, c),
           c # pointers[s],
           c # 0 => /\ holder[c] = "maker" /\ ~callbacks[c].del /\ holder'[c] = "nobody",
           \A e \in Callbacks : e # c => holder'[e] = holder[e],
           UNCHANGED << manner, place, stack, object, runs >>
    PROVE  Owned'
<1> DEFINE old == pointers[s]
<1>1. /\ pointers \in [Pointers -> 0..Len(callbacks)]
      /\ Len(callbacks) \in Nat
      /\ old \in 0..Len(callbacks)
      /\ Pointers' = Pointers
  <2>1. pointers \in [Pointers -> 0..Len(callbacks)] /\ Len(callbacks) \in Nat
    BY DEF Ownership, TypeOK
  <2>2. Pointers' = Pointers
    BY DEF Pointers
  <2> QED
    BY <2>1, <2>2
<1>2. callbacks' = Deleted(old) /\ pointers' = [pointers EXCEPT ![s] = c]
  BY DEF Reset
<1>3. /\ Len(callbacks') = Len(callbacks)
      /\ \A e \in Callbacks :
            /\ callbacks'[e].class = callbacks[e].class
            /\ callbacks'[e].del = callbacks[e].del
            /\ callbacks'[e].allocated <=> (callbacks[e].allocated /\ e # old)
  <2> HIDE DEF old
  <2> QED BY <1>1, <1>2, DeletedProperties DEF Ownership
<1>4. old # 0 => old \in Callbacks /\ Kept(old) /\ CallbackOK(old)
  BY <1>1 DEF Ownership, Owned, Kept, Callbacks
<1>5. ended' = "no"
  BY <1>1, <1>4 DEF Reset, DeletedTwice, CallbackOK
<1>6. OneRun'
  BY <1>3, OneRunSame DEF Ownership, Owned
<1>7. ASSUME NEW e \in Callbacks
      PROVE  CallbackOK(e)'
  <2>1. CallbackOK(e) /\ (Running(e)' <=> Running(e))
    BY DEF Ownership, Owned, Running
  <2>2. CASE e = c
    <3>1. Kept(e)' /\ ~Freed(e) /\ e # old
      BY <1>1, <1>2, <2>1, <2>2 DEF Kept, CallbackOK, Callbacks
    <3> QED
      BY <1>3, <2>1, <2>2, <3>1 DEF CallbackOK, Freed, Callbacks
  <2>3. CASE e = old /\ e # c
    <3>1. old # 0 /\ Kept(e) /\ holder[e] = "nobody"
      BY <1>4, <2>3 DEF Ownership, OneOwner, Callbacks
    <3>2. ~Kept(e)'
      <4>1. \A t \in Pointers : pointers[t] = e => t = s
        BY <2>3, <3>1 DEF Ownership, OneOwner
      <4> QED
        BY <1>1, <1>2, <2>3, <4>1 DEF Kept
    <3>3. ~callbacks[e].del
      BY <2>1, <3>1 DEF CallbackOK
    <3> QED
      BY <1>3, <2>3, <3>1, <3>2, <3>3 DEF CallbackOK, Freed
  <2>4. CASE e # old /\ e # c
    <3>1. Kept(e)' <=> Kept(e)
      BY <1>1, <1>2, <2>4 DEF Kept
    <3> QED
      BY <1>3, <2>1, <2>4, <3>1, CallbackSame
  <2> QED
    BY <2>2, <2>3, <2>4
<1>8. ASSUME NEW e \in Callbacks
      PROVE  PlaceOK(e)'
  <2>1. PlaceOK(e) /\ (Running(e)' <=> Running(e)) /\ runs'[e] = runs[e] /\ UNCHANGED object
    BY DEF Ownership, Owned, Running
  <2>2. BindingSame(e)
    <3>1. SUFFICES ASSUME holder'[e] = "argument" PROVE BindingSame(e)
      BY DEF BindingSame
    <3>2. holder[e] = "argument" /\ BindingOK(e)
      <4>1. c # 0 => holder'[c] = "nobody"
        OBVIOUS
      <4>2. e # c
        BY <3>1, <4>1 DEF Callbacks
      <4> QED
        BY <2>1, <3>1, <4>2 DEF PlaceOK
    <3>3. place[e].of # old
      BY <1>4, <3>2 DEF BindingOK, CallbackOK, Callbacks
    <3>4. Callbacks' = Callbacks
      BY <1>3 DEF Callbacks
    <3> QED
      BY <1>3, <3>2, <3>3, <3>4 DEF BindingSame
  <2> QED
    BY <1>3, <2>1, <2>2, PlaceSame
<1>9. \A e \in Callbacks' : CallbackOK(e)' /\ PlaceOK(e)'
  BY <1>3, <1>7, <1>8 DEF Callbacks
<1> QED
  BY <1>5, <1>6, <1>9 DEF Owned

(* Only who holds a callback changes, or which pointer it is in. *)
LEMMA HandedOn ==
    ASSUME Ownership, manner = "owners", ended \in {"no", "fatal"}, ended' \in {"no", "fatal"},
           UNCHANGED << manner, callbacks, place, stack, object, runs >>,
           \A c \in Callbacks :
               /\ holder'[c] = "nobody" <=> holder[c] = "nobody"
               /\ holder'[c] = "argument" => holder[c] = "argument"
               /\ Kept(c)' <=> Kept(c)
    PROVE  Owned'
<1>1. OneRun'
  BY OneRunSame DEF Ownership, Owned
<1>2. ASSUME NEW c \in Callbacks
      PROVE  CallbackOK(c)' /\ PlaceOK(c)'
  <2>1. CallbackOK(c) /\ PlaceOK(c) /\ (Running(c)' <=> Running(c))
    BY DEF Ownership, Owned, Running
  <2>2. CallbackOK(c)'
    BY <2>1, CallbackSame
  <2>3. BindingSame(c)
    BY DEF BindingSame, Callbacks
  <2>4. PlaceOK(c)'
    BY <2>1, <2>3, PlaceSame
  <2> QED
    BY <2>2, <2>4
<1> QED
  BY <1>1, <1>2 DEF Owned, Callbacks

LEMMA RunKeepsOwned ==
    ASSUME Ownership, manner = "owners", ended = "no", NEW c \in Callbacks,
           NEW g \in 0..Len(callbacks), NEW parameter, Run(c, g, parameter)
    PROVE  Owned'
<1>1. /\ holder \in [Callbacks -> Holders]
      /\ runs \in [Callbacks -> Nat]
      /\ stack \in Seq(Callbacks)
      /\ \A e \in Callbacks : CallbackOK(e) /\ PlaceOK(e)
      /\ OneRun
  BY DEF Ownership, TypeOK, Owned, Holders
<1>2. /\ UNCHANGED << manner, callbacks, place, pointers, object, ended >>
      /\ holder[c] = "runner" \/ Kept(c)
  BY DEF Run, MayRun
<1>3. /\ Len(stack) \in Nat /\ Len(stack') = Len(stack) + 1
      /\ \A i \in 1..Len(stack) : stack'[i] = stack[i]
      /\ stack'[Len(stack) + 1] = c
  BY <1>1, AppendProperties DEF Run
<1>4. /\ callbacks[c].del => ~Running(c) /\ holder[c] = "runner" /\ ~Freed(c)
      /\ holder[c] # "argument"
  <2>1. holder[c] = "runner" \/ holder[c] = "nobody"
    BY <1>2 DEF Ownership, OneOwner, Kept, Callbacks
  <2> QED
    BY <1>1, <1>2, <2>1 DEF CallbackOK
<1>5. /\ Running(c)'
      /\ \A e \in Callbacks : e # c => (Running(e)' <=> Running(e))
  BY <1>3 DEF Running
<1>6. OneRun'
  <2>1. SUFFICES ASSUME NEW i \in 1..Len(stack'), NEW j \in 1..Len(stack'),
                        stack'[i] = stack'[j], callbacks[stack'[i]].del
                 PROVE  i = j
    BY <1>2 DEF OneRun
  <2>2. CASE i \in 1..Len(stack) /\ j \in 1..Len(stack)
    BY <1>1, <1>3, <2>1, <2>2 DEF OneRun
  <2>3. CASE i = Len(stack) + 1 /\ j \in 1..Len(stack)
    BY <1>3, <1>4, <2>1, <2>3 DEF Running
  <2>4. CASE i \in 1..Len(stack) /\ j = Len(stack) + 1
    BY <1>3, <1>4, <2>1, <2>4 DEF Running
  <2> QED
    BY <1>3, <2>2, <2>3, <2>4
<1>7. \A e \in Callbacks : Kept(e)' <=> Kept(e)
  BY <1>2 DEF Kept, Pointers
<1>8. /\ holder'[c] = HolderAfterRun(c)
      /\ \A e \in Callbacks : e # c => runs'[e] = runs[e]
      /\ runs'[c] > 0
  <2>1. holder'[c] = HolderAfterRun(c)
    BY DEF Run
  <2>2. runs' = [runs EXCEPT ![c] = runs[c] + 1]
    BY Zenon DEF Run
  <2> QED
    BY <1>1, <2>1, <2>2
<1>9. PassesAll(Class(c))
  <2>1. Class(c) \in AllClasses
    <3>1. callbacks \in Seq(Records)
      BY DEF Ownership, TypeOK, Records
    <3>2. callbacks[c] \in Records
      BY <3>1, ElementOfSeq DEF Callbacks
    <3> QED
      BY <3>2 DEF Class, Records
  <2> QED
    BY <2>1, EveryClassPassesAll
<1>10. ASSUME NEW e \in Callbacks, e # c
       PROVE  /\ holder'[e] = "nobody" <=> holder[e] = "nobody"
              /\ holder'[e] = "argument" => holder[e] = "argument" /\ place[e].of # c
  <2> DEFINE passed == Range(Class(c).passes)
  <2>1. holder'[e] = IF BoundIn(e, c) /\ place[e].member \in passed THEN "runner"
                     ELSE IF e = g THEN IF parameter \in passed THEN "runner" ELSE "nobody"
                     ELSE holder[e]
    BY <1>10 DEF Run
  <2>2. BoundIn(e, c) => place[e].member \in passed
    <3>1. BoundIn(e, c) => place[e].member \in Range(Class(c).stores)
      BY <1>1 DEF PlaceOK, BindingOK, BoundIn
    <3> QED
      BY <1>9, <3>1 DEF PassesAll
  <2>3. e = g => holder[e] = "maker" /\ parameter \in passed
    <3>1. e = g => holder[e] = "maker" /\ parameter \in Range(Class(c).takes)
      BY DEF Run, MayGive, Callbacks
    <3> QED
      BY <1>9, <3>1 DEF PassesAll
  <2> HIDE DEF passed
  <2> QED
    BY <2>1, <2>2, <2>3 DEF BoundIn
<1>11. CallbackOK(c)'
  <2>1. CASE callbacks[c].del
    BY <1>1, <1>2, <1>4, <1>5, <1>7, <1>8, <2>1 DEF CallbackOK, HolderAfterRun, IsRepeatable, Freed
  <2>2. CASE ~callbacks[c].del /\ holder[c] = "runner"
    BY <1>1, <1>2, <1>7, <1>8, <2>2 DEF CallbackOK, HolderAfterRun, IsRepeatable, Freed
  <2>3. CASE ~callbacks[c].del /\ holder[c] # "runner"
    <3>1. holder'[c] = holder[c]
      BY <1>1, <1>2, <1>8, <2>3 DEF HolderAfterRun
    <3> QED
      BY <1>1, <1>2, <1>7, <2>3, <3>1, CallbackSame
  <2> QED
    BY <2>1, <2>2, <2>3
<1>12. PlaceOK(c)'
  <2>1. holder'[c] # "argument"
    BY <1>4, <1>8 DEF HolderAfterRun
  <2>2. MayCall(c)' => object'
    BY <1>1, <1>2, <1>5 DEF PlaceOK, MayCall, IsMethod, Class, Freed, Run
  <2> QED
    BY <1>8, <2>1, <2>2 DEF PlaceOK
<1>13. ASSUME NEW e \in Callbacks, e # c
       PROVE  CallbackOK(e)' /\ PlaceOK(e)'
  <2>1. CallbackOK(e)'
    BY <1>1, <1>2, <1>5, <1>7, <1>10, <1>13, CallbackSame
  <2>2. BindingSame(e)
    BY <1>2, <1>8, <1>10, <1>13 DEF BindingSame, Callbacks
  <2>3. PlaceOK(e)'
    BY <1>1, <1>2, <1>5, <1>8, <1>13, <2>2, PlaceSame
  <2> QED
    BY <2>1, <2>3
<1> QED
  BY <1>2, <1>6, <1>11, <1>12, <1>13 DEF Owned, Callbacks

LEMMA ReturnKeepsOwned ==
    ASSUME Ownership, manner = "owners", ended = "no", NEW r, Return(r)
    PROVE  Owned'
<1>0. PICK c \in Callbacks : c = stack[Len(stack)]
  BY StackPopped DEF Ownership, Return
<1>1. /\ \A e \in Callbacks : CallbackOK(e) /\ PlaceOK(e)
      /\ OneRun
      /\ Len(callbacks) \in Nat
  BY DEF Ownership, TypeOK, Owned
<1>2. /\ stack' \in Seq(Callbacks)
      /\ Len(stack') = Len(stack) - 1
      /\ \A i \in 1..Len(stack') : stack'[i] = stack[i]
      /\ Len(stack) \in Nat \ {0}
      /\ c = stack[Len(stack)]
  BY <1>0, StackPopped DEF Ownership, Return
<1>3. UNCHANGED << manner, place, pointers, object, runs >>
  BY DEF Return
<1>4. /\ Running(c) /\ runs[c] > 0
      /\ \A e \in Callbacks : /\ Running(e)' => Running(e)
                              /\ e # c => (Running(e)' <=> Running(e))
  <2>1. \A i \in 1..Len(stack) : stack[i] # c => i \in 1..Len(stack')
    BY <1>2
  <2>2. Running(c)
    BY <1>2 DEF Running
  <2>3. runs[c] > 0
    BY <1>1, <2>2 DEF PlaceOK
  <2>4. 1..Len(stack') \subseteq 1..Len(stack)
    BY <1>2
  <2>5. ASSUME NEW e \in Callbacks, Running(e)' PROVE Running(e)
    <3>1. PICK i \in 1..Len(stack') : stack'[i] = e
      BY <2>5, Zenon DEF Running
    <3>2. stack[i] = e
      BY <1>2, <3>1
    <3> QED
      BY <2>4, <3>2, Zenon DEF Running
  <2>6. ASSUME NEW e \in Callbacks, e # c, Running(e) PROVE Running(e)'
    <3>1. PICK i \in 1..Len(stack) : stack[i] = e
      BY <2>6, Zenon DEF Running
    <3>2. i \in 1..Len(stack')
      BY <2>1, <2>6, <3>1, Zenon
    <3>3. stack'[i] = e
      BY <1>2, <3>1, <3>2
    <3> QED
      BY <3>2, <3>3, Zenon DEF Running
  <2> QED
    BY <2>2, <2>3, <2>5, <2>6, Zenon
<1>5. \A e \in Callbacks : Kept(e)' <=> Kept(e)
  BY <1>3 DEF Kept, Pointers
<1>6. /\ Len(callbacks') = Len(callbacks)
      /\ \A e \in Callbacks :
            /\ callbacks'[e].class = callbacks[e].class
            /\ callbacks'[e].del = callbacks[e].del
            /\ e # c \/ ~callbacks[c].del => callbacks'[e] = callbacks[e]
      /\ callbacks[c].del => ~callbacks'[c].allocated
  BY <1>0, ReturnProperties DEF Ownership
<1>7. /\ \A e \in Callbacks : /\ holder'[e] = "nobody" <=> holder[e] = "nobody"
                              /\ holder'[e] = "argument" => holder[e] = "argument"
      /\ holder'[c] = holder[c]
  <2>1. /\ r # 0 => holder[r] = "runner" /\ r # c
        /\ \A e \in Callbacks : holder'[e] = IF e = r THEN "maker" ELSE holder[e]
    BY <1>0 DEF Return
  <2>2. 0 \notin Callbacks
    BY DEF Callbacks
  <2> QED
    BY <2>1, <2>2
<1>8. callbacks[c].del => ~Freed(c) /\ holder[c] = "nobody" /\ ~Kept(c) /\ ~Running(c)'
  <2>1. callbacks[c].del => ~Running(c)'
    BY <1>1, <1>2 DEF Running, OneRun
  <2> QED
    BY <1>1, <1>4, <2>1 DEF CallbackOK
<1>9. ended' = "no"
  BY <1>0, <1>8 DEF Return
<1>10. OneRun'
  <2>1. \A i \in 1..Len(stack') : stack'[i] \in Callbacks /\ i \in 1..Len(stack)
    BY <1>2, ElementOfSeq
  <2> QED
    BY <1>1, <1>2, <1>6, <2>1 DEF OneRun
<1>11. ASSUME NEW e \in Callbacks
       PROVE  CallbackOK(e)'
  <2>1. CASE e = c /\ callbacks[c].del
    BY <1>5, <1>6, <1>7, <1>8, <2>1 DEF CallbackOK, Freed
  <2>2. CASE e # c \/ ~callbacks[c].del
    BY <1>1, <1>4, <1>5, <1>6, <1>7, <2>2, CallbackSame
  <2> QED
    BY <2>1, <2>2
<1>12. ASSUME NEW e \in Callbacks
       PROVE  PlaceOK(e)'
  <2>1. BindingSame(e)
    <3>1. SUFFICES ASSUME holder'[e] = "argument" PROVE BindingSame(e)
      BY DEF BindingSame
    <3>2. holder[e] = "argument" /\ BindingOK(e)
      BY <1>1, <1>7, <3>1 DEF PlaceOK
    <3>3. place[e].of # c
      BY <1>4, <3>2 DEF BindingOK
    <3>4. Callbacks' = Callbacks
      BY <1>6 DEF Callbacks
    <3> QED
      BY <1>3, <1>6, <3>2, <3>3, <3>4 DEF BindingSame
  <2>2. CASE e = c /\ callbacks[c].del
    BY <1>6, <1>7, <1>8, <2>2 DEF PlaceOK, MayCall, Freed
  <2>3. CASE e # c \/ ~callbacks[c].del
    <3>1. callbacks[e].del /\ Running(e) => Running(e)'
      BY <1>4, <2>3
    <3> QED
      BY <1>1, <1>3, <1>4, <1>6, <2>1, <2>3, <3>1, PlaceSame
  <2> QED
    BY <2>2, <2>3
<1> QED
  BY <1>6, <1>9, <1>10, <1>11, <1>12 DEF Owned, Callbacks

LEMMA DeleteKeepsOwned ==
    ASSUME Ownership, manner = "owners", ended = "no", NEW c \in Callbacks, Delete(c)
    PROVE  Owned'
<1>1. /\ holder \in [Callbacks -> Holders]
      /\ Len(callbacks) \in Nat
      /\ \A e \in Callbacks : CallbackOK(e) /\ PlaceOK(e)
  BY DEF Ownership, TypeOK, Owned, Holders
<1>2. /\ Len(callbacks') = Len(callbacks)
      /\ \A e \in Callbacks :
            /\ callbacks'[e].class = callbacks[e].class
            /\ callbacks'[e].del = callbacks[e].del
            /\ callbacks'[e].allocated <=> (callbacks[e].allocated /\ e # c)
  BY <1>1, DeletedProperties DEF Ownership, Delete, Callbacks
<1>3. /\ UNCHANGED << manner, place, pointers, stack, object, runs >>
      /\ holder[c] = "maker" /\ holder'[c] = "nobody"
      /\ \A e \in Callbacks : e # c =>
            holder'[e] = IF BoundIn(e, c) THEN "maker" ELSE holder[e]
  BY DEF Delete
<1>4. ~Freed(c) /\ ~(callbacks[c].del /\ Running(c)) /\ ~Kept(c)
  <2>1. ~Kept(c)
    BY <1>1, <1>3 DEF Ownership, OneOwner, Kept, Callbacks
  <2> QED
    BY <1>1, <1>3, <2>1 DEF CallbackOK
<1>5. ended' = "no"
  BY <1>4 DEF Delete, DeletedTwice
<1>6. \A e \in Callbacks : (Kept(e)' <=> Kept(e)) /\ (Running(e)' <=> Running(e))
  BY <1>3 DEF Kept, Pointers, Running
<1>7. CallbackOK(c)'
  BY <1>1, <1>2, <1>3, <1>4, <1>6 DEF CallbackOK, Freed
<1>8. ASSUME NEW e \in Callbacks, e # c
      PROVE  CallbackOK(e)'
  <2>1. holder'[e] = "nobody" <=> holder[e] = "nobody"
    BY <1>3, <1>8 DEF BoundIn
  <2> QED
    BY <1>1, <1>2, <1>6, <1>8, <2>1, CallbackSame
<1>9. ASSUME NEW e \in Callbacks
      PROVE  PlaceOK(e)'
  <2>1. holder'[e] = "argument" => holder[e] = "argument" /\ place[e].of # c
    BY <1>3 DEF BoundIn
  <2>2. Callbacks' = Callbacks
    BY <1>2 DEF Callbacks
  <2>3. BindingSame(e)
    BY <1>2, <1>3, <2>1, <2>2 DEF BindingSame
  <2> QED
    BY <1>1, <1>2, <1>3, <1>6, <2>3, PlaceSame
<1>10. OneRun'
  BY <1>2, <1>3, OneRunSame DEF Ownership, Owned
<1> QED
  BY <1>2, <1>3, <1>5, <1>7, <1>8, <1>9, <1>10 DEF Owned, Callbacks

LEMMA NewKeepsOwned ==
    ASSUME Ownership, manner = "owners", ended = "no",
           NEW class \in Classes[Len(callbacks) + 1], NEW del \in BOOLEAN,
           NEW d \in 0..Len(callbacks), NEW member \in Range(P) \cup {"none"},
           New(class, del, d, member)
    PROVE  Owned'
<1>0. PICK new \in Nat : new = Len(callbacks) + 1
  BY DEF Ownership, TypeOK
<1>1. /\ Len(callbacks) \in Nat
      /\ pointers \in [Pointers -> 0..Len(callbacks)]
      /\ stack \in Seq(Callbacks)
      /\ \A e \in Callbacks : CallbackOK(e) /\ PlaceOK(e)
      /\ OneRun
      /\ UNCHANGED << manner, pointers, stack, object, ended >>
  BY DEF Ownership, TypeOK, Owned, New
<1>2. /\ callbacks' \in [1..new -> Records]
      /\ \A e \in Callbacks : /\ callbacks'[e] = callbacks[e]
                              /\ holder'[e] = IF e = d THEN "argument" ELSE holder[e]
                              /\ place'[e] = IF e = d THEN [of |-> new, member |-> member]
                                             ELSE place[e]
                              /\ runs'[e] = runs[e]
      /\ callbacks'[new] = Made(class, del)
      /\ holder'[new] = "maker"
      /\ runs'[new] = 0
  <2>1. NewState(class, del, d, member)
    BY NewProperties DEF Ownership
  <2> QED
    BY <1>0, <2>1 DEF NewState
<1>3. /\ Callbacks' = 1..new /\ Callbacks \subseteq 1..new
      /\ \A e \in 1..new : e \in Callbacks \/ e = new
  <2>1. Len(callbacks') = new
    BY <1>2, FunctionIsSeq
  <2> QED
    BY <1>0, <1>1, <2>1 DEF Callbacks
<1>4. d # 0 => del /\ holder[d] = "maker" /\ member \in Range(class.stores)
  BY DEF New, MayBind
<1>5. \A i \in 1..Len(stack) : stack[i] \in Callbacks
  BY <1>1, ElementOfSeq
<1>6. /\ ~Kept(new)' /\ ~Running(new)'
      /\ \A e \in Callbacks : (Kept(e)' <=> Kept(e)) /\ (Running(e)' <=> Running(e))
  <2>1. stack' = stack /\ pointers' = pointers
    BY <1>1
  <2>2. \A t \in Pointers : pointers[t] # new
    BY <1>0, <1>1
  <2>3. \A i \in 1..Len(stack) : stack[i] # new
    BY <1>0, <1>1, <1>5 DEF Callbacks
  <2> QED
    BY <2>1, <2>2, <2>3 DEF Kept, Pointers, Running
<1>7. CallbackOK(new)' /\ PlaceOK(new)'
  <2>1. CallbackOK(new)'
    BY <1>2, <1>6 DEF CallbackOK, Freed, Made
  <2>2. MayCall(new)' => object'
    BY <1>1, <1>2 DEF MayCall, IsMethod, Class, Made, New
  <2> QED
    BY <1>2, <1>6, <2>1, <2>2 DEF PlaceOK
<1>8. ASSUME NEW e \in Callbacks
      PROVE  CallbackOK(e)'
  <2>1. holder'[e] = "nobody" <=> holder[e] = "nobody"
    <3>1. 0 \notin Callbacks
      BY DEF Callbacks
    <3> QED
      BY <1>2, <1>4, <3>1
  <2> QED
    BY <1>1, <1>2, <1>6, <2>1, CallbackSame
<1>9. ASSUME NEW e \in Callbacks, e # d
      PROVE  PlaceOK(e)'
  <2>1. BindingSame(e)
    BY <1>2, <1>3, <1>9 DEF BindingSame
  <2> QED
    BY <1>1, <1>2, <1>6, <1>9, <2>1, PlaceSame
<1>10. ASSUME d \in Callbacks
       PROVE  PlaceOK(d)'
  <2>1. place'[d] = [of |-> new, member |-> member] /\ d # 0
    BY <1>2, <1>10 DEF Callbacks
  <2>2. place'[d].of = new /\ place'[d].member = member
    BY <2>1
  <2>3. BindingOK(d)'
    <3>1. /\ callbacks'[new].allocated = TRUE /\ callbacks'[new].del = del
          /\ callbacks'[new].class = class
      BY <1>2 DEF Made
    <3>2. new \in Callbacks' /\ del = TRUE /\ member \in Range(class.stores)
      BY <1>0, <1>3, <1>4, <2>1
    <3> QED
      BY <1>2, <2>2, <3>1, <3>2, Zenon DEF BindingOK, Freed, Class
  <2>4. Running(d)' => runs'[d] > 0
    BY <1>1, <1>2, <1>6, <1>10 DEF PlaceOK
  <2>5. MayCall(d)' => object'
    BY <1>1, <1>2, <1>6, <1>10 DEF PlaceOK, MayCall, IsMethod, Class, Freed
  <2> QED
    BY <2>3, <2>4, <2>5 DEF PlaceOK
<1>11. OneRun'
  <2>1. stack' = stack
    BY <1>1
  <2>2. \A i \in 1..Len(stack) : callbacks'[stack[i]] = callbacks[stack[i]]
    BY <1>2, <1>5
  <2> QED
    BY <1>1, <2>1, <2>2 DEF OneRun
<1>12. \A e \in Callbacks' : CallbackOK(e)' /\ PlaceOK(e)'
  BY <1>3, <1>7, <1>8, <1>9, <1>10
<1> QED
  BY <1>1, <1>11, <1>12 DEF Owned

LEMMA OwnedNext == Ownership /\ [Next]_vars => Owned'
<1> SUFFICES ASSUME Ownership, [Next]_vars PROVE Owned'
  OBVIOUS
<1> USE DEF held
<1>0. /\ Len(callbacks) \in Nat
      /\ holder \in [Callbacks -> Holders]
      /\ pointers \in [Pointers -> 0..Len(callbacks)]
  BY DEF Ownership, TypeOK, Holders
<1>1. CASE UNCHANGED vars
  <2>1. /\ \A c : (CallbackOK(c)' <=> CallbackOK(c)) /\ (PlaceOK(c)' <=> PlaceOK(c))
        /\ OneRun' <=> OneRun
    BY <1>1 DEF vars, CallbackOK, PlaceOK, BindingOK, MayCall, IsMethod, Class, Callbacks,
                OneRun, Freed, Kept, Pointers, Running
  <2> QED
    BY <1>1, <2>1 DEF vars, Ownership, Owned, Callbacks
<1>2. CASE manner # "owners"
  <2>1. UNCHANGED manner
    BY DEF Next, vars, New, GiveToRunner, Run, RunFreed, RunWithoutObject, DestroyObject,
           Delete, GiveToKeeper, Return, ResetToOwn, Drop, GiveBack, Swap
  <2> QED
    BY <1>2, <2>1 DEF Owned
<1>3. CASE Next /\ manner = "owners"
  <2>0. ended = "no" /\ \A c \in Callbacks : CallbackOK(c) /\ PlaceOK(c)
    BY <1>3 DEF Next, Ownership, Owned
  <2>1. ASSUME NEW class \in Classes[Len(callbacks) + 1], NEW del \in BOOLEAN,
               NEW d \in 0..Len(callbacks), NEW member \in Range(P) \cup {"none"},
               New(class, del, d, member)
        PROVE  Owned'
    BY <1>3, <2>0, <2>1, NewKeepsOwned
  <2>2. ASSUME NEW c \in Callbacks, GiveToRunner(c)
        PROVE  Owned'
    <3>1. /\ UNCHANGED << manner, callbacks, place, pointers, stack, object, ended, runs >>
          /\ \A e \in Callbacks : /\ holder'[e] = "nobody" <=> holder[e] = "nobody"
                                  /\ holder'[e] = "argument" => holder[e] = "argument"
      BY <1>0, <2>2 DEF GiveToRunner
    <3> QED
      BY <1>3, <2>0, <3>1, HandedOn DEF Kept, Pointers
  <2>3. ASSUME NEW c \in Callbacks, NEW g \in 0..Len(callbacks),
               NEW parameter, Run(c, g, parameter)
        PROVE  Owned'
    BY <1>3, <2>0, <2>3, RunKeepsOwned
  <2>4. ASSUME NEW c \in Callbacks, RunFreed(c)
        PROVE  Owned'
    BY <1>3, <2>0, <2>4 DEF RunFreed, MayRun, CallbackOK
  <2>5. ASSUME NEW c \in Callbacks, Delete(c)
        PROVE  Owned'
    BY <1>3, <2>0, <2>5, DeleteKeepsOwned
  <2>6. ASSUME NEW c \in Callbacks, NEW s \in Pointers, GiveToKeeper(c, s)
        PROVE  Owned'
    <3>1. CASE CheckIsRepeatable(c)
      <4>1. /\ Reset(s, c) /\ holder[c] = "maker" /\ ~callbacks[c].del
            /\ holder' = [holder EXCEPT ![c] = "nobody"]
            /\ UNCHANGED << manner, place, stack, object, runs >>
        BY <2>6, <3>1 DEF GiveToKeeper, CheckIsRepeatable, IsRepeatable
      <4>2. c # 0 /\ c # pointers[s] /\ c \in 0..Len(callbacks)
        BY <1>0, <4>1 DEF Ownership, OneOwner, Callbacks
      <4> QED
        BY <1>0, <1>3, <2>0, <4>1, <4>2, ResetKeepsOwned
    <3>2. CASE ~CheckIsRepeatable(c)
      <4>1. ended' = "fatal" /\ UNCHANGED << manner, held, callbacks, pointers, stack, object, runs >>
        BY <2>6, <3>2 DEF GiveToKeeper
      <4> QED
        BY <1>3, <2>0, <4>1, HandedOn DEF Kept, Pointers
    <3> QED
      BY <3>1, <3>2
  <2>7. ASSUME NEW r, Return(r)
        PROVE  Owned'
    BY <1>3, <2>0, <2>7, ReturnKeepsOwned
  <2>8. ASSUME NEW s \in Pointers, ResetToOwn(s)
        PROVE  Owned'
    <3>1. UNCHANGED << manner, held, callbacks, pointers, stack, object, ended, runs >>
      BY <2>8 DEF ResetToOwn, Reset
    <3> QED
      BY <1>3, <2>0, <3>1, HandedOn DEF Kept, Pointers
  <2>9. ASSUME NEW s \in Pointers, Drop(s)
        PROVE  Owned'
    <3>1. /\ pointers[s] # 0 /\ Reset(s, 0)
          /\ UNCHANGED << manner, held, stack, object, runs >>
      BY <2>9 DEF Drop
    <3> QED
      BY <1>0, <1>3, <2>0, <3>1, ResetKeepsOwned
  <2>10. ASSUME NEW s \in Pointers, GiveBack(s)
         PROVE  Owned'
    <3>0. PICK c \in Callbacks : c = pointers[s] /\ c # 0
      BY <1>0, <2>10 DEF GiveBack, Callbacks
    <3>1. /\ c = pointers[s] /\ c # 0
          /\ pointers' = [pointers EXCEPT ![s] = 0]
          /\ holder' = [holder EXCEPT ![c] = "maker"]
          /\ UNCHANGED << manner, callbacks, place, stack, object, ended, runs >>
      BY <3>0, <2>10 DEF GiveBack, Release
    <3>2. Kept(c) /\ \A t \in Pointers : pointers[t] = c => t = s
      BY <3>1 DEF Kept, Ownership, OneOwner
    <3>3. ~Kept(c)' /\ \A e \in Callbacks : e # c => (Kept(e)' <=> Kept(e))
      BY <1>0, <3>1, <3>2 DEF Kept, Pointers, Callbacks
    <3>4. ~Freed(c) /\ ~callbacks[c].del
      BY <2>0, <3>1, <3>2 DEF CallbackOK
    <3>5. CallbackOK(c)'
      BY <1>0, <3>1, <3>3, <3>4 DEF CallbackOK, Freed
    <3>6. ASSUME NEW e \in Callbacks, e # c
          PROVE  CallbackOK(e)'
      <4>1. holder'[e] = holder[e] /\ (Running(e)' <=> Running(e))
        BY <1>0, <3>1, <3>6 DEF Running
      <4> QED
        BY <2>0, <3>1, <3>3, <3>6, <4>1, CallbackSame
    <3>7. OneRun'
      BY <1>3, <3>1, OneRunSame DEF Ownership, Owned
    <3>8. ASSUME NEW e \in Callbacks
          PROVE  PlaceOK(e)'
      <4>1. holder'[e] = "argument" => holder[e] = "argument"
        BY <1>0, <3>1
      <4>2. BindingSame(e) /\ (Running(e)' <=> Running(e))
        BY <3>1, <4>1 DEF BindingSame, Running, Callbacks
      <4> QED
        BY <2>0, <3>1, <4>2, PlaceSame
    <3> QED
      BY <2>0, <3>1, <3>5, <3>6, <3>7, <3>8 DEF Owned, Callbacks
  <2>11. ASSUME NEW s \in Pointers, NEW t \in Pointers, Swap(s, t)
         PROVE  Owned'
    <3>1. /\ pointers' = [pointers EXCEPT ![s] = pointers[t], ![t] = pointers[s]]
          /\ UNCHANGED << manner, callbacks, held, stack, object, ended, runs >>
      BY <2>11 DEF Swap
    <3>2. \A e \in Callbacks : Kept(e)' <=> Kept(e)
      BY <1>0, <3>1 DEF Kept, Pointers
    <3> QED
      BY <1>3, <2>0, <3>1, <3>2, HandedOn
  <2>12. ASSUME NEW c \in Callbacks, RunWithoutObject(c)
         PROVE  Owned'
    <3>1. /\ holder[c] = "runner" \/ Kept(c)
          /\ ~object /\ IsMethod(c)
      BY <1>3, <2>12 DEF RunWithoutObject, MayRun
    <3>2. CallbackOK(c) /\ PlaceOK(c)
      BY <2>0
    <3>3. MayCall(c)
      BY <3>1, <3>2 DEF CallbackOK, MayCall
    <3> QED
      BY <3>1, <3>2, <3>3 DEF PlaceOK
  <2>13. CASE DestroyObject
    <3>1. /\ \A c \in Callbacks : ~MayCall(c)
          /\ UNCHANGED << manner, callbacks, held, pointers, stack, ended, runs >>
      BY <1>3, <2>13 DEF DestroyObject
    <3>2. /\ \A c \in Callbacks : /\ CallbackOK(c)' <=> CallbackOK(c)
                                  /\ BindingOK(c)' <=> BindingOK(c)
                                  /\ Running(c)' <=> Running(c)
                                  /\ MayCall(c)' <=> MayCall(c)
          /\ OneRun' <=> OneRun
      BY <3>1 DEF CallbackOK, BindingOK, MayCall, IsMethod, Class, Callbacks, OneRun, Freed,
                  Kept, Pointers, Running
    <3>3. \A c \in Callbacks : PlaceOK(c)'
      BY <2>0, <3>1, <3>2 DEF PlaceOK
    <3> QED
      BY <1>3, <3>1, <3>2, <3>3 DEF Ownership, Owned, Callbacks
  <2> QED
    BY <1>3, <2>1, <2>2, <2>3, <2>4, <2>5, <2>6, <2>7, <2>8, <2>9, <2>10, <2>11, <2>12,
       <2>13 DEF Next
<1> QED
  BY <1>1, <1>2, <1>3

LEMMA OwnershipInvariant == Spec => []Ownership
<1>1. Init => Ownership
  <2>1. Init => OneOwner
    BY DEF Init, OneOwner
  <2>2. Init => Owned
    BY DEF Init, Owned, OneRun, Callbacks
  <2> QED
    BY <2>1, <2>2, TypeInit DEF Ownership
<1>2. Ownership /\ [Next]_vars => Ownership'
  BY TypeNext, OneOwnerNext, OwnedNext DEF Ownership
<1> QED
  BY <1>1, <1>2, PTL DEF Spec

(* If only those run a callback who hold it, and an object stays while one *)
(* of its methods may be called, no callback is run once it or its object  *)
(* is gone, and none is freed again: with any number of callbacks of any   *)
(* block and of both kinds, bound in one another, given to runs and        *)
(* returned by them, with any number of pointers, and runs inside runs.    *)
THEOREM NeverUsedAfterFree == Spec => []NoUseAfterFree
<1>1. Ownership => NoUseAfterFree
  BY DEF Ownership, Owned, NoUseAfterFree
<1> QED
  BY <1>1, OwnershipInvariant, PTL

(* And nothing leaks: a callback that nobody holds and that does not run   *)
(* has been freed, and one bound in another can still be passed on by it.  *)
(* That every class of the header passes on all that it is given is the    *)
(* lemma EveryClassPassesAll.                                              *)
THEOREM NeverLeaks == Spec => []NoLeak
<1>1. Ownership => NoLeak
  BY DEF Ownership, Owned, NoLeak, CallbackOK, PlaceOK, BindingOK
<1> QED
  BY <1>1, OwnershipInvariant, PTL

-----------------------------------------------------------------------------
(* What destroys itself is called once                                     *)

CalledOnce(c) ==
    callbacks[c].del =>
        /\ runs[c] <= 1
        /\ runs[c] > 0 => ~callbacks[c].target \/ Running(c)
Once == manner # "reused" => \A c \in Callbacks : CalledOnce(c)

LEMMA OnceKept ==
    ASSUME Once, UNCHANGED << manner, stack, runs >>, Len(callbacks') = Len(callbacks),
           \A c \in Callbacks : /\ callbacks'[c].del = callbacks[c].del
                                /\ callbacks'[c].target = callbacks[c].target
    PROVE  Once'
BY DEF Once, CalledOnce, Running, Callbacks

LEMMA ResetKeepsOnce ==
    ASSUME TypeOK, Once, NEW s \in Pointers, NEW c \in 0..Len(callbacks), Reset(s, c),
           UNCHANGED << manner, stack, runs >>
    PROVE  Once'
<1>1. pointers[s] \in 0..Len(callbacks)
  BY DEF TypeOK
<1>2. CASE c # pointers[s]
  BY <1>1, <1>2, DeletedProperties, OnceKept DEF Reset
<1>3. CASE c = pointers[s]
  BY <1>3, OnceKept DEF Reset
<1> QED
  BY <1>2, <1>3

LEMMA NewKeepsOnce ==
    ASSUME TypeOK, Once,
           NEW class \in Classes[Len(callbacks) + 1], NEW del \in BOOLEAN,
           NEW d \in 0..Len(callbacks), NEW member \in Range(P) \cup {"none"},
           New(class, del, d, member)
    PROVE  Once'
<1>0. PICK new \in Nat : new = Len(callbacks) + 1
  BY DEF TypeOK
<1>1. Len(callbacks) \in Nat /\ UNCHANGED << manner, stack >>
  BY DEF TypeOK, New
<1>2. /\ callbacks' \in [1..new -> Records]
      /\ \A e \in Callbacks : callbacks'[e] = callbacks[e] /\ runs'[e] = runs[e]
      /\ runs'[new] = 0
  <2>1. NewState(class, del, d, member)
    BY NewProperties
  <2> QED
    BY <1>0, <2>1 DEF NewState
<1>3. \A e \in Callbacks' : e \in Callbacks \/ e = new
  <2>1. Len(callbacks') = new
    BY <1>2, FunctionIsSeq
  <2> QED
    BY <1>0, <1>1, <2>1 DEF Callbacks
<1>4. \A e : Running(e)' <=> Running(e)
  BY <1>1 DEF Running
<1>5. ASSUME NEW e \in Callbacks, CalledOnce(e)
      PROVE  CalledOnce(e)'
  BY <1>2, <1>4, <1>5 DEF CalledOnce
<1>6. CalledOnce(new)'
  BY <1>2 DEF CalledOnce
<1> QED
  BY <1>1, <1>3, <1>5, <1>6 DEF Once

LEMMA RunKeepsOnce ==
    ASSUME Ownership, Once, ended = "no", NEW c \in Callbacks, NEW g, NEW parameter,
           Run(c, g, parameter)
    PROVE  Once'
<1> SUFFICES ASSUME manner # "reused", NEW e \in Callbacks
             PROVE  CalledOnce(e)'
  BY DEF Once, Run, Callbacks
<1>1. /\ stack \in Seq(Callbacks)
      /\ runs \in [Callbacks -> Nat]
      /\ manner \in {"owners", "sequential"}
      /\ callbacks' = callbacks
      /\ CalledOnce(e)
  BY MannersAssumption DEF Ownership, TypeOK, Run, Once
<1>2. /\ Len(stack) \in Nat /\ Len(stack') = Len(stack) + 1
      /\ \A i \in 1..Len(stack) : stack'[i] = stack[i]
      /\ stack'[Len(stack) + 1] = c
  BY <1>1, AppendProperties DEF Run
<1>3. Running(c)' /\ (Running(e) => Running(e)')
  BY <1>2 DEF Running
<1>4. CASE e # c
  <2>1. runs'[e] = runs[e]
    BY <1>1, <1>4 DEF Run
  <2> QED
    BY <1>1, <1>3, <2>1 DEF CalledOnce
<1>5. CASE e = c /\ callbacks[c].del
  <2>1. ~Running(c)
    <3>1. CASE manner = "owners"
      BY <1>5, <3>1 DEF Run, MayRun, Ownership, Owned, CallbackOK
    <3>2. CASE manner = "sequential"
      BY <1>2, <3>2 DEF Run, MayRun, Running
    <3> QED
      BY <1>1, <3>1, <3>2
  <2>2. runs[c] = 0
    BY <1>1, <1>5, <2>1 DEF CalledOnce, Run
  <2>3. runs' = [runs EXCEPT ![c] = runs[c] + 1]
    BY Zenon DEF Run
  <2> QED
    BY <1>1, <1>3, <1>5, <2>2, <2>3 DEF CalledOnce
<1>6. CASE e = c /\ ~callbacks[c].del
  BY <1>1, <1>6 DEF CalledOnce
<1> QED
  BY <1>4, <1>5, <1>6

LEMMA ReturnKeepsOnce ==
    ASSUME TypeOK, Once, NEW r, Return(r)
    PROVE  Once'
<1>0. PICK c \in Callbacks : c = stack[Len(stack)]
  BY StackPopped DEF Return
<1>1. /\ \A i \in 1..Len(stack) : stack[i] # c => i \in 1..Len(stack')
      /\ \A i \in 1..Len(stack') : stack'[i] = stack[i]
  BY <1>0, StackPopped DEF Return
<1>2. UNCHANGED << manner, runs >> /\ callbacks \in Seq(Records)
  BY DEF Return, TypeOK, Records
<1>3. \A e \in Callbacks : e # c => (Running(e) => Running(e)')
  BY <1>1 DEF Running
<1>4. CASE callbacks[c].del
  <2>1. /\ Len(callbacks') = Len(callbacks)
        /\ \A e \in Callbacks : /\ callbacks'[e].del = callbacks[e].del
                                /\ e # c => callbacks'[e] = callbacks[e]
        /\ ~callbacks'[c].target
    BY <1>0, <1>4, ReturnProperties
  <2>2. ASSUME NEW e \in Callbacks, CalledOnce(e)
        PROVE  CalledOnce(e)'
    BY <1>2, <1>3, <2>1, <2>2 DEF CalledOnce
  <2> QED
    BY <1>2, <2>1, <2>2 DEF Once, Callbacks
<1>5. CASE ~callbacks[c].del
  <2>1. UNCHANGED callbacks
    BY <1>0, <1>5 DEF Return
  <2>2. ASSUME NEW e \in Callbacks, CalledOnce(e)
        PROVE  CalledOnce(e)'
    BY <1>2, <1>3, <1>5, <2>1, <2>2 DEF CalledOnce
  <2> QED
    BY <1>2, <2>1, <2>2 DEF Once, Callbacks
<1> QED
  BY <1>4, <1>5

LEMMA OnceNext == Ownership /\ Once /\ [Next]_vars => Once'
<1> SUFFICES ASSUME Ownership, Once, [Next]_vars PROVE Once'
  OBVIOUS
<1>0. /\ TypeOK /\ Len(callbacks) \in Nat
      /\ pointers \in [Pointers -> 0..Len(callbacks)]
  BY DEF Ownership, TypeOK
<1>1. CASE UNCHANGED vars
  BY <1>1, OnceKept DEF vars
<1>2. ASSUME NEW class \in Classes[Len(callbacks) + 1], NEW del \in BOOLEAN,
             NEW d \in 0..Len(callbacks), NEW member \in Range(P) \cup {"none"},
             New(class, del, d, member)
      PROVE  Once'
  BY <1>0, <1>2, NewKeepsOnce
<1>3. ASSUME NEW c \in Callbacks, NEW g, NEW parameter, Run(c, g, parameter), ended = "no"
      PROVE  Once'
  BY <1>3, RunKeepsOnce
<1>4. ASSUME NEW c \in Callbacks, GiveToRunner(c) \/ RunFreed(c) \/ RunWithoutObject(c)
      PROVE  Once'
  BY <1>4, OnceKept DEF GiveToRunner, RunFreed, RunWithoutObject
<1>5. ASSUME NEW c \in Callbacks, Delete(c)
      PROVE  Once'
  BY <1>0, <1>5, DeletedProperties, OnceKept DEF Delete, Callbacks
<1>6. ASSUME NEW c \in Callbacks, NEW s \in Pointers, GiveToKeeper(c, s)
      PROVE  Once'
  <2>1. CASE CheckIsRepeatable(c)
    BY <1>0, <1>6, <2>1, ResetKeepsOnce DEF GiveToKeeper, Callbacks
  <2>2. CASE ~CheckIsRepeatable(c)
    BY <1>6, <2>2, OnceKept DEF GiveToKeeper
  <2> QED
    BY <2>1, <2>2
<1>7. ASSUME NEW r, Return(r)
      PROVE  Once'
  BY <1>0, <1>7, ReturnKeepsOnce
<1>8. ASSUME NEW s \in Pointers, ResetToOwn(s) \/ Drop(s)
      PROVE  Once'
  BY <1>0, <1>8, ResetKeepsOnce DEF ResetToOwn, Drop
<1>9. ASSUME NEW s \in Pointers, GiveBack(s) \/ \E t \in Pointers : Swap(s, t)
      PROVE  Once'
  BY <1>9, OnceKept DEF GiveBack, Swap
<1>10. CASE DestroyObject
  BY <1>10, OnceKept DEF DestroyObject
<1> QED
  BY <1>1, <1>2, <1>3, <1>4, <1>5, <1>6, <1>7, <1>8, <1>9, <1>10 DEF Next

(* Unless runs of callbacks that their runner does not hold are nested, a  *)
(* callback that destroys itself calls its target once at most: by the     *)
(* time it could be called again, its pointer to the target is zero.       *)
THEOREM OneShotRunsOnce == ("reused" \notin Manners) => (Spec => []SegfaultsIfUsedAgain)
<1> SUFFICES ASSUME "reused" \notin Manners PROVE Spec => []SegfaultsIfUsedAgain
  OBVIOUS
<1>1. Init => Once
  BY DEF Init, Once, Callbacks
<1>2. Ownership /\ Once => SegfaultsIfUsedAgain
  BY DEF Ownership, TypeOK, Once, CalledOnce, SegfaultsIfUsedAgain
<1> QED
  BY <1>1, <1>2, OnceNext, OwnershipInvariant, PTL DEF Spec
=============================================================================
