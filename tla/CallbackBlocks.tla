--------------------------- MODULE CallbackBlocks ---------------------------
(***************************************************************************)
(* The generated classes of base/callback.h.  The header has one block for *)
(* each number n of arguments bound when the callback is made (p1_ .. p6_) *)
(* and number m of arguments given to Run (a1 .. a5).  The block n, m,     *)
(* here Block_n_m, is a set of six classes: of a const method of an        *)
(* object, of a method, or of a function, with a result or without.  A     *)
(* class keeps what is bound in the members it stores, has Run take its    *)
(* parameters, and passes members and parameters to what it calls.  That   *)
(* it destroys itself or not is in its template argument, see Callbacks.   *)
(***************************************************************************)
EXTENDS Naturals, Sequences

P == << "p1_", "p2_", "p3_", "p4_", "p5_", "p6_" >>
A == << "a1", "a2", "a3", "a4", "a5" >>

Objects == {"const", "mutable", "none"}
SixClasses(n, m, passes) ==
    {[object |-> o, result |-> r, stores |-> SubSeq(P, 1, n), takes |-> SubSeq(A, 1, m),
      passes |-> passes] : o \in Objects, r \in BOOLEAN}

Block_0_0 == SixClasses(0, 0, << >>)
Block_1_0 == SixClasses(1, 0, << "p1_" >>)
Block_2_0 == SixClasses(2, 0, << "p1_", "p2_" >>)
Block_3_0 == SixClasses(3, 0, << "p1_", "p2_", "p3_" >>)
Block_4_0 == SixClasses(4, 0, << "p1_", "p2_", "p3_", "p4_" >>)
Block_5_0 == SixClasses(5, 0, << "p1_", "p2_", "p3_", "p4_", "p5_" >>)
Block_6_0 == SixClasses(6, 0, << "p1_", "p2_", "p3_", "p4_", "p5_", "p6_" >>)
Block_0_1 == SixClasses(0, 1, << "a1" >>)
Block_1_1 == SixClasses(1, 1, << "p1_", "a1" >>)
Block_2_1 == SixClasses(2, 1, << "p1_", "p2_", "a1" >>)
Block_3_1 == SixClasses(3, 1, << "p1_", "p2_", "p3_", "a1" >>)
Block_4_1 == SixClasses(4, 1, << "p1_", "p2_", "p3_", "p4_", "a1" >>)
Block_5_1 == SixClasses(5, 1, << "p1_", "p2_", "p3_", "p4_", "p5_", "a1" >>)
Block_6_1 == SixClasses(6, 1, << "p1_", "p2_", "p3_", "p4_", "p5_", "p6_", "a1" >>)
Block_0_2 == SixClasses(0, 2, << "a1", "a2" >>)
Block_1_2 == SixClasses(1, 2, << "p1_", "a1", "a2" >>)
Block_2_2 == SixClasses(2, 2, << "p1_", "p2_", "a1", "a2" >>)
Block_3_2Repeats ==                                           \* mutant
    SixClasses(3, 2, << "p1_", "p2_", "p2_", "a1", "a2" >>)
Block_3_2 == SixClasses(3, 2, << "p1_", "p2_", "p3_", "a1", "a2" >>)
Block_4_2 == SixClasses(4, 2, << "p1_", "p2_", "p3_", "p4_", "a1", "a2" >>)
Block_5_2 == SixClasses(5, 2, << "p1_", "p2_", "p3_", "p4_", "p5_", "a1", "a2" >>)
Block_6_2 == SixClasses(6, 2, << "p1_", "p2_", "p3_", "p4_", "p5_", "p6_", "a1", "a2" >>)
Block_0_3 == SixClasses(0, 3, << "a1", "a2", "a3" >>)
Block_1_3 == SixClasses(1, 3, << "p1_", "a1", "a2", "a3" >>)
Block_2_3 == SixClasses(2, 3, << "p1_", "p2_", "a1", "a2", "a3" >>)
Block_3_3 == SixClasses(3, 3, << "p1_", "p2_", "p3_", "a1", "a2", "a3" >>)
Block_4_3 == SixClasses(4, 3, << "p1_", "p2_", "p3_", "p4_", "a1", "a2", "a3" >>)
Block_5_3 == SixClasses(5, 3, << "p1_", "p2_", "p3_", "p4_", "p5_", "a1", "a2", "a3" >>)
Block_6_3 ==
    SixClasses(6, 3, << "p1_", "p2_", "p3_", "p4_", "p5_", "p6_", "a1", "a2", "a3" >>)
Block_0_4 == SixClasses(0, 4, << "a1", "a2", "a3", "a4" >>)
Block_1_4 == SixClasses(1, 4, << "p1_", "a1", "a2", "a3", "a4" >>)
Block_2_4 == SixClasses(2, 4, << "p1_", "p2_", "a1", "a2", "a3", "a4" >>)
Block_3_4 == SixClasses(3, 4, << "p1_", "p2_", "p3_", "a1", "a2", "a3", "a4" >>)
Block_4_4 == SixClasses(4, 4, << "p1_", "p2_", "p3_", "p4_", "a1", "a2", "a3", "a4" >>)
Block_5_4 ==
    SixClasses(5, 4, << "p1_", "p2_", "p3_", "p4_", "p5_", "a1", "a2", "a3", "a4" >>)
Block_6_4 ==
    SixClasses(6, 4, << "p1_", "p2_", "p3_", "p4_", "p5_", "p6_", "a1", "a2", "a3", "a4" >>)
Block_0_5 == SixClasses(0, 5, << "a1", "a2", "a3", "a4", "a5" >>)
Block_1_5 == SixClasses(1, 5, << "p1_", "a1", "a2", "a3", "a4", "a5" >>)
Block_2_5 == SixClasses(2, 5, << "p1_", "p2_", "a1", "a2", "a3", "a4", "a5" >>)
Block_3_5 == SixClasses(3, 5, << "p1_", "p2_", "p3_", "a1", "a2", "a3", "a4", "a5" >>)
Block_4_5 ==
    SixClasses(4, 5, << "p1_", "p2_", "p3_", "p4_", "a1", "a2", "a3", "a4", "a5" >>)
Block_5_5 ==
    SixClasses(5, 5, << "p1_", "p2_", "p3_", "p4_", "p5_", "a1", "a2", "a3", "a4", "a5" >>)
Block_6_5 ==
    SixClasses(6, 5, << "p1_", "p2_", "p3_", "p4_", "p5_", "p6_", "a1", "a2", "a3", "a4", "a5" >>)

AllClasses ==
    UNION {
        Block_0_0, Block_1_0, Block_2_0, Block_3_0, Block_4_0, Block_5_0, Block_6_0,
        Block_0_1, Block_1_1, Block_2_1, Block_3_1, Block_4_1, Block_5_1, Block_6_1,
        Block_0_2, Block_1_2, Block_2_2, Block_3_2, Block_4_2, Block_5_2, Block_6_2,
        Block_0_3, Block_1_3, Block_2_3, Block_3_3, Block_4_3, Block_5_3, Block_6_3,
        Block_0_4, Block_1_4, Block_2_4, Block_3_4, Block_4_4, Block_5_4, Block_6_4,
        Block_0_5, Block_1_5, Block_2_5, Block_3_5, Block_4_5, Block_5_5, Block_6_5}
=============================================================================
