---------------------------- MODULE MCCallbacks -----------------------------
(* Instances of Callbacks for TLC: the first callback is of a method with  *)
(* a result or of a function without one; the second is of any block, and  *)
(* of any class of one of them.                                            *)
EXTENDS Callbacks

ClassesByTurn ==
    << {k \in Block_1_1 : k.object = "mutable" /\ k.result}
           \cup {k \in Block_0_0 : k.object = "none" /\ ~k.result},
       {k \in AllClasses : k.object = "none" /\ ~k.result} \cup Block_1_1 >>
=============================================================================
