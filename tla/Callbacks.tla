----------------------------- MODULE Callbacks ------------------------------
(***************************************************************************)
(* The life of the callbacks of base/callback.h, and of the scoped_ptr of  *)
(* base/scoped_ptr.h that own them.  NewCallback() makes one that destroys *)
(* itself when it has run, NewPermanentCallback() one that its last owner  *)
(* destroys.  Both have the same type, so a receiver that means to run a   *)
(* callback more than once asks CheckIsRepeatable().                       *)
(*                                                                         *)
(* Who makes a callback gives it to a runner, who runs it once, or to a    *)
(* keeper, who puts it into a scoped_ptr, or destroys it.  Runs nest: what *)
(* a callback calls may run callbacks, and move, drop or destroy them, the *)
(* running one included.  A callback may itself be bound as an argument of *)
(* one that is run once, be given to a run, or be the result of one: the   *)
(* function that is called with it runs it next, and whoever destroys what *)
(* it is bound in without running that has it back.  How the callers       *)
(* behave is `manner':                                                     *)
(*   "owners"      only those run a callback who hold it, and an object    *)
(*                 stays while one of its methods may be called            *)
(*   "sequential"  all who have ever seen one do, but none inside another  *)
(*   "reused"      all do, at any time                                     *)
(***************************************************************************)
EXTENDS CallbackBlocks, Functions

CONSTANTS
    Classes,        \* i -> the classes the i-th callback may have
    Manners,        \* the manners of callers explored
    NumPointers,    \* number of scoped_ptr
    MaxCallbacks, MaxDepth, MaxRuns     \* bounds

ASSUME ClassesAssumption == Classes \in [1..MaxCallbacks -> SUBSET AllClasses]
ASSUME MannersAssumption == Manners \subseteq {"owners", "sequential", "reused"}
ASSUME BoundsAssumption ==
    {NumPointers, MaxCallbacks, MaxDepth, MaxRuns} \subseteq Nat

VARIABLES
    manner,
    callbacks,      \* every callback made, freed ones included
    holder,         \* callback -> who holds it outside of scoped_ptrs
    place,          \* callback -> where it is if it is an argument: the
                    \* callback it is bound in, and the member there
    pointers,       \* scoped_ptr -> its ptr_, 0 for NULL
    stack,          \* the callbacks being run, innermost last
    object,         \* is the object whose methods are called there?
    ended,          \* how the process ended: "no", "fatal", "segfault",
                    \* or "undefined" once it read or freed freed memory
    runs            \* history: callback -> how often its target was called

held == << holder, place >>
vars == << manner, callbacks, held, pointers, stack, object, ended, runs >>

Callbacks == 1..Len(callbacks)
Pointers == 1..NumPointers
Freed(c) == ~callbacks[c].allocated
Kept(c) == \E s \in Pointers : pointers[s] = c
Class(c) == callbacks[c].class
IsMethod(c) == Class(c).object # "none"
Running(c) == \E i \in 1..Len(stack) : stack[i] = c
NoPlace == [of |-> 0, member |-> "none"]
BoundIn(d, c) == holder[d] = "argument" /\ place[d].of = c
Total == FoldFunction(+, 0, runs)

Init ==
    /\ manner \in Manners
    /\ callbacks = << >>
    /\ holder = << >>
    /\ place = << >>
    /\ pointers = [s \in Pointers |-> 0]
    /\ stack = << >>
    /\ ended = "no"
    /\ runs = << >>
    /\ object = TRUE

(* NewCallback (del) and NewPermanentCallback; the callback d, if it is not *)
(* 0, is bound, and will be in that member of the new one.                 *)
MayBind(class, del, d, member) ==
    IF d = 0 THEN member = "none"
    ELSE del /\ holder[d] = "maker" /\ member \in Range(class.stores)
NewUncounted(class, del, d, member) ==                        \* mutant
    /\ Len(callbacks) < MaxCallbacks
    /\ MayBind(class, del, d, member)
    /\ class.object # "none" => object
    /\ callbacks' = Append(callbacks,
           [class |-> class, del |-> del, target |-> TRUE, allocated |-> TRUE])
    /\ holder' = Append([c \in Callbacks |-> IF c = d THEN "argument" ELSE holder[c]], "maker")
    /\ place' = Append([c \in Callbacks |->
                           IF c = d THEN [of |-> Len(callbacks) + 1, member |-> member]
                           ELSE place[c]], NoPlace)
    /\ UNCHANGED << manner, pointers, stack, object, ended, runs >>
New(class, del, d, member) ==
    /\ Len(callbacks) < MaxCallbacks
    /\ MayBind(class, del, d, member)
    /\ class.object # "none" => object
    /\ callbacks' = Append(callbacks,
           [class |-> class, del |-> del, target |-> TRUE, allocated |-> TRUE])
    /\ holder' = Append([c \in Callbacks |-> IF c = d THEN "argument" ELSE holder[c]], "maker")
    /\ place' = Append([c \in Callbacks |->
                           IF c = d THEN [of |-> Len(callbacks) + 1, member |-> member]
                           ELSE place[c]], NoPlace)
    /\ runs' = Append(runs, 0)
    /\ UNCHANGED << manner, pointers, stack, object, ended >>

IsRepeatable(c) == ~callbacks[c].del

CheckIsRepeatableNever(c) == TRUE                             \* mutant
CheckIsRepeatable(c) == IsRepeatable(c)

(* The maker hands the callback to code that will run it once. *)
GiveToRunner(c) ==
    /\ holder[c] = "maker"
    /\ holder' = [holder EXCEPT ![c] = "runner"]
    /\ UNCHANGED << manner, callbacks, place, pointers, stack, object, ended, runs >>

(* A runner lets go of what he runs: it will be gone, or the maker's. *)
HolderAfterRun(c) ==
    IF holder[c] = "runner" THEN IF IsRepeatable(c) THEN "maker" ELSE "nobody"
    ELSE holder[c]

MayRun(c) ==
    /\ manner = "owners" => holder[c] = "runner" \/ Kept(c)
    /\ manner = "sequential" => stack = << >>

(* Run calls the target with what is bound and what is given, the callback *)
(* g among it as that parameter if it is not 0.  The target will run them. *)
MayGive(c, g, parameter) ==
    IF g = 0 THEN parameter = "none"
    ELSE g # c /\ holder[g] = "maker" /\ parameter \in Range(Class(c).takes)
Run(c, g, parameter) ==
    /\ MayRun(c)
    /\ MayGive(c, g, parameter)
    /\ callbacks[c].allocated
    /\ callbacks[c].target
    /\ IsMethod(c) => object
    /\ Len(stack) < MaxDepth
    /\ Total < MaxRuns
    /\ stack' = Append(stack, c)
    /\ runs' = [runs EXCEPT ![c] = @ + 1]
    /\ LET passed == Range(Class(c).passes) IN
       holder' = [d \in Callbacks |->
           IF d = c THEN HolderAfterRun(c)
           ELSE IF BoundIn(d, c) /\ place[d].member \in passed THEN "runner"
           ELSE IF d = g THEN IF parameter \in passed THEN "runner" ELSE "nobody"
           ELSE holder[d]]
    /\ UNCHANGED << manner, callbacks, place, pointers, object, ended >>

(* Run of a callback that is gone: the null pointer it stored before it    *)
(* freed itself is still there, or the memory has another use.             *)
RunFreed(c) ==
    /\ MayRun(c)
    /\ Freed(c)
    /\ ended' \in IF callbacks[c].target THEN {"undefined"}
                  ELSE {"segfault", "undefined"}
    /\ UNCHANGED << manner, callbacks, held, pointers, stack, object, runs >>

(* The method of an object that is gone. *)
RunWithoutObject(c) ==
    /\ MayRun(c)
    /\ callbacks[c].allocated
    /\ callbacks[c].target
    /\ IsMethod(c)
    /\ ~object
    /\ ended' = "undefined"
    /\ UNCHANGED << manner, callbacks, held, pointers, stack, object, runs >>

(* A careful owner of the object destroys it when none of its methods will *)
(* be called, and be it in the last call there is.                         *)
MayCall(c) == IsMethod(c) /\ ~Freed(c) /\ ~(callbacks[c].del /\ Running(c))
DestroyObject ==
    /\ object
    /\ manner = "owners" => \A c \in Callbacks : ~MayCall(c)
    /\ object' = FALSE
    /\ UNCHANGED << manner, callbacks, held, pointers, stack, ended, runs >>

ReturnKept(r) ==                                              \* mutant
    /\ stack # << >>
    /\ LET c == stack[Len(stack)] IN
       r # 0 => Class(c).result /\ r # c /\ holder[r] = "runner"
    /\ stack' = SubSeq(stack, 1, Len(stack) - 1)
    /\ holder' = [d \in Callbacks |-> IF d = r THEN "maker" ELSE holder[d]]
    /\ UNCHANGED << manner, callbacks, place, pointers, object, ended, runs >>
(* The target returns, the callback r as its result if it is not 0.  A     *)
(* one-shot callback zeroes its pointer to the target and deletes itself;  *)
(* a permanent one touches nothing any more.                               *)
Return(r) ==
    /\ stack # << >>
    /\ LET c == stack[Len(stack)] IN
       /\ r # 0 => Class(c).result /\ r # c /\ holder[r] = "runner"
       /\ callbacks' = IF callbacks[c].del
                       THEN [callbacks EXCEPT ![c].target = FALSE, ![c].allocated = FALSE]
                       ELSE callbacks
       /\ ended' = IF callbacks[c].del /\ Freed(c) THEN "undefined" ELSE ended
    /\ stack' = SubSeq(stack, 1, Len(stack) - 1)
    /\ holder' = [d \in Callbacks |-> IF d = r THEN "maker" ELSE holder[d]]
    /\ UNCHANGED << manner, place, pointers, object, runs >>

(* delete: of the null pointer it does nothing, of freed memory anything. *)
Deleted(c) == IF c = 0 THEN callbacks ELSE [callbacks EXCEPT ![c].allocated = FALSE]
DeletedTwice(c) == c # 0 /\ Freed(c)

(* The maker destroys what he did not give away, or what came back; the    *)
(* destructor leaves alone what is bound in it.                            *)
Delete(c) ==
    /\ holder[c] = "maker"
    /\ callbacks' = Deleted(c)
    /\ ended' = IF DeletedTwice(c) THEN "undefined" ELSE ended
    /\ holder' = [d \in Callbacks |-> IF d = c THEN "nobody"
                                     ELSE IF BoundIn(d, c) THEN "maker" ELSE holder[d]]
    /\ UNCHANGED << manner, place, pointers, stack, object, runs >>

(* scoped_ptr: reset to another pointer, the null pointer or its own.      *)
Reset(s, c) ==
    IF c # pointers[s]
    THEN /\ callbacks' = Deleted(pointers[s])
         /\ ended' = IF DeletedTwice(pointers[s]) THEN "undefined" ELSE ended
         /\ pointers' = [pointers EXCEPT ![s] = c]
    ELSE UNCHANGED << callbacks, ended, pointers >>

(* The maker hands a callback to code that keeps it in a scoped_ptr. *)
GiveToKeeper(c, s) ==
    /\ holder[c] = "maker"
    /\ IF CheckIsRepeatable(c)
       THEN /\ Reset(s, c)
            /\ holder' = [holder EXCEPT ![c] = "nobody"]
       ELSE /\ ended' = "fatal"                     \* FailIsRepeatable
            /\ UNCHANGED << holder, callbacks, pointers >>
    /\ UNCHANGED << manner, place, stack, object, runs >>

(* reset(get()), and reset() or the destructor. *)
ResetToOwn(s) ==
    /\ Reset(s, pointers[s])
    /\ UNCHANGED << manner, held, stack, object, runs >>
Drop(s) ==
    /\ pointers[s] # 0
    /\ Reset(s, 0)
    /\ UNCHANGED << manner, held, stack, object, runs >>

(* release: the keeper is the maker from now on. *)
ReleaseKept(s) == UNCHANGED pointers                          \* mutant
Release(s) == pointers' = [pointers EXCEPT ![s] = 0]
GiveBack(s) ==
    /\ pointers[s] # 0
    /\ Release(s)
    /\ holder' = [holder EXCEPT ![pointers[s]] = "maker"]
    /\ UNCHANGED << manner, callbacks, place, stack, object, ended, runs >>

Swap(s, t) ==
    /\ pointers' = [pointers EXCEPT ![s] = pointers[t], ![t] = pointers[s]]
    /\ UNCHANGED << manner, callbacks, held, stack, object, ended, runs >>

Next ==
    /\ ended = "no"
    /\ \/ /\ Len(callbacks) < MaxCallbacks
          /\ \E class \in Classes[Len(callbacks) + 1], del \in BOOLEAN, d \in 0..Len(callbacks),
                member \in Range(P) \cup {"none"} : New(class, del, d, member)
       \/ \E c \in Callbacks :
            \/ GiveToRunner(c) \/ RunFreed(c) \/ RunWithoutObject(c) \/ Delete(c)
            \/ \E g \in 0..Len(callbacks), parameter \in Range(A) \cup {"none"} :
                  Run(c, g, parameter)
            \/ \E s \in Pointers : GiveToKeeper(c, s)
       \/ \E r \in 0..Len(callbacks) : Return(r)
       \/ DestroyObject
       \/ \E s \in Pointers :
            \/ ResetToOwn(s) \/ Drop(s) \/ GiveBack(s)
            \/ \E t \in Pointers : Swap(s, t)

Spec == Init /\ [][Next]_vars
-----------------------------------------------------------------------------
(* Every callback is of one of the classes of the header and has a holder  *)
(* and a count of runs; arguments are bound in callbacks; and only         *)
(* callbacks are run or pointed to.                                        *)
TypeOK ==
    /\ manner \in Manners
    /\ callbacks \in Seq([class : AllClasses, del : BOOLEAN, target : BOOLEAN,
                          allocated : BOOLEAN])
    /\ holder \in [Callbacks -> {"maker", "runner", "argument", "nobody"}]
    /\ place \in [Callbacks -> [of : 0..Len(callbacks), member : Range(P) \cup {"none"}]]
    /\ runs \in [Callbacks -> Nat]
    /\ stack \in Seq(Callbacks)
    /\ pointers \in [Pointers -> 0..Len(callbacks)]
    /\ object \in BOOLEAN
    /\ ended \in {"no", "fatal", "segfault", "undefined"}

(* Callbacks run by those who hold them only are never run or freed once   *)
(* they are freed, nor run without their object, although a keeper may     *)
(* drop, move or give one back while it runs, a call may destroy its       *)
(* object, and callbacks of both kinds look alike to those they are given  *)
(* to.                                                                     *)
NoUseAfterFree == manner = "owners" => ended \notin {"segfault", "undefined"}

(* Memory is not lost: what nobody holds any more and does not run, is     *)
(* freed; and what is bound as an argument is bound in a callback that is  *)
(* still there and has not been run, whatever block that is of.            *)
NoLeak ==
    manner = "owners" =>
        \A c \in Callbacks :
            /\ holder[c] = "nobody" /\ ~Kept(c) /\ ~Running(c) => Freed(c)
            /\ holder[c] = "argument" => ~Freed(place[c].of) /\ runs[place[c].of] = 0

(* "You should never have the same object owned by two different           *)
(* scoped_ptrs", nor by one and by somebody else.                          *)
OneOwner ==
    \A s \in Pointers :
        pointers[s] # 0 =>
            /\ holder[pointers[s]] = "nobody"
            /\ \A t \in Pointers : pointers[s] = pointers[t] => s = t

(* The pointer of a one-shot callback is zeroed to make sure that using it *)
(* again crashes: its target is called once at most.                       *)
SegfaultsIfUsedAgain == \A c \in Callbacks : callbacks[c].del => runs[c] <= 1
=============================================================================
