--------------------------- MODULE MockingProofs ---------------------------
(* Theorems about Mocking, for every value of its constants: what its      *)
(* searches find, and that it implements MockContract.                     *)
EXTENDS Mocking, TLAPS, SequenceTheorems, FiniteSetTheorems

(* The frames of the stack: the test at the bottom and nowhere else, the   *)
(* search that asked it below every predicate, and every search within the *)
(* list of its mock function.                                              *)
FrameOK(f) ==
    /\ stack[f].role = "test" <=> f = 1
    /\ stack[f].role = "predicate" => stack[f - 1].role = "call"
    /\ stack[f].role = "call" =>
          /\ stack[f].call \in 1..Len(calls)
          /\ stack[f].next <= Len(lists[calls[stack[f].call].mock])

StackOK ==
    /\ phase = "running" <=> Len(stack) > 0
    /\ \A f \in 1..Len(stack) : FrameOK(f)

(* The list of a mock function holds that function's expectations, all of  *)
(* them, oldest first.                                                     *)
ListsOK ==
    /\ \A m \in Mocks : \A i \in 1..Len(lists[m]) :
          /\ lists[m][i] \in 1..Len(expectations)
          /\ expectations[lists[m][i]].mock = m
          /\ \A j \in 1..(i - 1) : lists[m][j] < lists[m][i]
    /\ \A k \in 1..Len(expectations) :
          \E i \in 1..Len(lists[expectations[k].mock]) :
              lists[expectations[k].mock][i] = k

Shape == TypeOK /\ StackOK /\ ListsOK

-----------------------------------------------------------------------------

LEMMA PopProperties ==
    ASSUME NEW S, NEW s \in Seq(S), Len(s) > 0
    PROVE  /\ Pop(s) \in Seq(S)
           /\ Len(Pop(s)) = Len(s) - 1
           /\ \A i \in 1..(Len(s) - 1) : Pop(s)[i] = s[i]
<1> DEFINE n == Len(s) - 1
           t == SubSeq(s, 1, n)
<1>1. n \in Nat /\ \A i \in 1..n : s[i] \in S
  OBVIOUS
<1>2. /\ t \in Seq(S)
      /\ Len(t) = IF 1 <= n THEN n - 1 + 1 ELSE 0
      /\ \A i \in 1..(n - 1 + 1) : t[i] = s[1 + i - 1]
  <2> HIDE DEF n
  <2> QED BY <1>1, SubSeqProperties
<1>3. Len(t) = n /\ \A i \in 1..n : t[i] = s[i]
  <2> HIDE DEF n, t
  <2> QED BY <1>1, <1>2
<1> QED
  BY <1>2, <1>3, Zenon DEF Pop


LEMMA ShapeInit == Init => Shape
<1> SUFFICES ASSUME Init PROVE Shape
  OBVIOUS
<1>1. TypeOK
  <2>1. Frame("test", 0, 0) \in Frames
    BY DEF Frame, Frames, UserRoles
  <2>2. stack \in Seq(Frames)
    BY <2>1 DEF Init
  <2>3. lists \in [Mocks -> Seq(Nat)]
    BY DEF Init
  <2>4. /\ expectations \in Seq(ExpectationOf(Mocks, MatcherLists))
        /\ registered \in Seq(Nat)
        /\ calls \in Seq(Calls)
        /\ credits \in Seq(Credits)
    BY DEF Init
  <2>5. failures \in Nat /\ threw \in BOOLEAN /\ phase \in {"running", "verifying", "done"}
    BY DEF Init
  <2> QED
    BY <2>2, <2>3, <2>4, <2>5, Zenon DEF TypeOK
<1>2. StackOK
  BY DEF Init, StackOK, FrameOK, Frame
<1>3. ListsOK
  BY DEF Init, ListsOK
<1> QED
  BY <1>1, <1>2, <1>3 DEF Shape

(* A search under way serves a call, and has come to an expectation of the *)
(* mock function that was called.                                          *)
LEMMA SearchFacts ==
    ASSUME Shape, Searching
    PROVE  /\ Len(stack) \in Nat /\ Len(stack) > 1
           /\ Top \in Frames
           /\ Top.call \in 1..Len(calls)
           /\ Call \in Calls
           /\ Top.next > 0 =>
                 /\ Candidate \in 1..Len(expectations)
                 /\ expectations[Candidate] \in
                       ExpectationOf(Mocks, MatcherLists)
                 /\ expectations[Candidate].mock = Call.mock
<1>1. Len(stack) \in Nat /\ Len(stack) > 1 /\ Top \in Frames
  BY DEF Shape, TypeOK, StackOK, FrameOK, Searching, Top
<1>2. Top.call \in 1..Len(calls) /\ Call \in Calls
  BY <1>1 DEF Shape, TypeOK, StackOK, FrameOK, Searching, Top, Call
<1>3. Top.next <= Len(lists[Call.mock]) /\ Top.next \in Nat /\ Call.mock \in Mocks
  BY <1>1, <1>2 DEF Shape, StackOK, FrameOK, Searching, Top, Call, Calls, Frames
<1>4. ASSUME Top.next > 0
      PROVE  /\ Candidate \in 1..Len(expectations)
             /\ expectations[Candidate].mock = Call.mock
  <2>1. lists[Call.mock] \in Seq(Nat)
    BY <1>3 DEF Shape, TypeOK
  <2>2. Top.next \in 1..Len(lists[Call.mock])
    BY <1>3, <1>4, <2>1
  <2> QED
    BY <1>3, <2>2 DEF Shape, ListsOK, Candidate
<1>5. ASSUME Top.next > 0
      PROVE  expectations[Candidate] \in ExpectationOf(Mocks, MatcherLists)
  BY <1>4, <1>5 DEF Shape, TypeOK
<1> QED
  BY <1>1, <1>2, <1>4, <1>5

-----------------------------------------------------------------------------
(* What steps have in common.                                              *)

(* The calls are the same, except for how they were resolved. *)
CallsKept ==
    /\ calls' \in Seq(Calls)
    /\ Len(calls') = Len(calls)
    /\ \A i \in 1..Len(calls) :
          /\ calls'[i].mock = calls[i].mock
          /\ calls'[i].args = calls[i].args
          /\ calls'[i].born = calls[i].born

(* The expectations are the same, except for their configuration, their    *)
(* count and their actions.                                                *)
ExpectationsKept ==
    /\ expectations' \in Seq(ExpectationOf(Mocks, MatcherLists))
    /\ Len(expectations') = Len(expectations)
    /\ \A k \in 1..Len(expectations) :
          /\ expectations'[k].mock = expectations[k].mock
          /\ expectations'[k].argMatchers = expectations[k].argMatchers

LEMMA ResolveKeeps ==
    ASSUME calls \in Seq(Calls), NEW c \in 1..Len(calls),
           NEW status \in Statuses, NEW k \in Nat,
           calls' = Resolve(c, status, k)
    PROVE  CallsKept
<1> DEFINE r == [mock   |-> calls[c].mock,
                 args   |-> calls[c].args,
                 born   |-> calls[c].born,
                 status |-> status,
                 by     |-> k]
<1>1. calls' = [calls EXCEPT ![c] = r]
  BY DEF Resolve
<1>2. r \in Calls
  <2>1. calls[c] \in Calls
    OBVIOUS
  <2> QED
    BY <2>1 DEF Calls
<1>3. calls' \in Seq(Calls) /\ Len(calls') = Len(calls)
  BY <1>1, <1>2
<1>4. ASSUME NEW i \in 1..Len(calls)
      PROVE  /\ calls'[i].mock = calls[i].mock
             /\ calls'[i].args = calls[i].args
             /\ calls'[i].born = calls[i].born
  <2>1. CASE i = c
    BY <1>1, <2>1 DEF Calls
  <2>2. CASE i # c
    BY <1>1, <2>2
  <2> QED BY <2>1, <2>2
<1> QED
  BY <1>3, <1>4 DEF CallsKept

LEMMA UnchangedCallsKept == TypeOK /\ UNCHANGED calls => CallsKept
  BY DEF CallsKept, TypeOK

LEMMA UnchangedExpectationsKept ==
    TypeOK /\ UNCHANGED expectations => ExpectationsKept
  BY DEF ExpectationsKept, TypeOK

LEMMA ListsKept ==
    ASSUME Shape, ExpectationsKept, UNCHANGED lists
    PROVE  ListsOK'
<1>1. ASSUME NEW m \in Mocks, NEW i \in 1..Len(lists'[m])
      PROVE  /\ lists'[m][i] \in 1..Len(expectations')
             /\ expectations'[lists'[m][i]].mock = m
             /\ \A j \in 1..(i - 1) : lists'[m][j] < lists'[m][i]
  <2>1. /\ lists[m][i] \in 1..Len(expectations)
        /\ expectations[lists[m][i]].mock = m
        /\ \A j \in 1..(i - 1) : lists[m][j] < lists[m][i]
    BY <1>1 DEF Shape, ListsOK
  <2> QED
    BY <2>1 DEF ExpectationsKept
<1>2. ASSUME NEW k \in 1..Len(expectations')
      PROVE  \E i \in 1..Len(lists'[expectations'[k].mock]) :
                lists'[expectations'[k].mock][i] = k
  BY <1>2 DEF Shape, ListsOK, ExpectationsKept
<1> QED
  BY <1>1, <1>2, Zenon DEF ListsOK

(* A frame stays as it was, and so does the one that called it. *)
LEMMA FrameKept ==
    ASSUME Shape, CallsKept, UNCHANGED lists, NEW f \in 1..Len(stack),
           stack'[f] = stack[f], f = 1 \/ stack'[f - 1] = stack[f - 1]
    PROVE  FrameOK(f)'
<1>1. FrameOK(f)
  BY DEF Shape, StackOK
<1>2. stack'[f].role = "test" <=> f = 1
  BY <1>1 DEF FrameOK
<1>3. stack'[f].role = "predicate" => stack'[f - 1].role = "call"
  BY <1>1, <1>2 DEF FrameOK
<1>4. ASSUME stack'[f].role = "call"
      PROVE  /\ stack'[f].call \in 1..Len(calls')
             /\ stack'[f].next <= Len(lists'[calls'[stack'[f].call].mock])
  <2>1. /\ stack[f].call \in 1..Len(calls)
        /\ stack[f].next <= Len(lists[calls[stack[f].call].mock])
    BY <1>1, <1>4 DEF FrameOK
  <2>2. calls'[stack[f].call].mock = calls[stack[f].call].mock
    BY <2>1 DEF CallsKept
  <2> QED
    BY <2>1, <2>2 DEF CallsKept
<1> QED
  BY <1>2, <1>3, <1>4 DEF FrameOK

(* Leaving the innermost frame, which is not the test's. *)
LEMMA PopKeepsStackOK ==
    ASSUME Shape, Len(stack) > 1, stack' = Pop(stack), CallsKept,
           UNCHANGED << lists, phase >>
    PROVE  stack' \in Seq(Frames) /\ StackOK'
<1>1. /\ stack' \in Seq(Frames)
      /\ Len(stack) \in Nat
      /\ Len(stack') = Len(stack) - 1
      /\ \A i \in 1..Len(stack') : stack'[i] = stack[i]
  <2>1. stack \in Seq(Frames) /\ Len(stack) > 0
    BY DEF Shape, TypeOK
  <2>2. /\ Pop(stack) \in Seq(Frames)
        /\ Len(Pop(stack)) = Len(stack) - 1
        /\ \A i \in 1..(Len(stack) - 1) : Pop(stack)[i] = stack[i]
    BY <2>1, PopProperties
  <2> QED BY <2>1, <2>2
<1>2. phase' = "running" <=> Len(stack') > 0
  BY <1>1 DEF Shape, StackOK, FrameOK
<1>3. ASSUME NEW f \in 1..Len(stack')
      PROVE  FrameOK(f)'
  <2>1. /\ f \in 1..Len(stack) /\ stack'[f] = stack[f]
        /\ f = 1 \/ stack'[f - 1] = stack[f - 1]
    BY <1>1
  <2> QED
    BY <2>1, FrameKept
<1> QED
  BY <1>1, <1>2, <1>3, Zenon DEF StackOK

LEMMA PopShape ==
    ASSUME Shape, Len(stack) > 1, stack' = Pop(stack),
           CallsKept, ExpectationsKept,
           failures' \in Nat, credits' \in Seq(Credits),
           UNCHANGED << lists, registered, threw, phase >>
    PROVE  Shape'
<1>1. stack' \in Seq(Frames) /\ StackOK'
  BY PopKeepsStackOK
<1>2. TypeOK'
  BY <1>1 DEF Shape, TypeOK, CallsKept, ExpectationsKept
<1>3. ListsOK'
  BY ListsKept
<1> QED
  BY <1>1, <1>2, <1>3 DEF Shape

(* The search moves to an older expectation or gives way to an action. *)
LEMMA SetTopShape ==
    ASSUME Shape, Searching, NEW f \in Frames, stack' = SetTop(f),
           \/ f.role = "action"
           \/ f.role = "call" /\ f.call = Top.call /\ f.next <= Top.next,
           CallsKept, ExpectationsKept, credits' \in Seq(Credits),
           UNCHANGED << lists, registered, failures, threw, phase >>
    PROVE  Shape'
<1>1. Len(stack) \in Nat /\ Len(stack) > 1 /\ stack \in Seq(Frames)
  BY SearchFacts DEF Shape, TypeOK
<1>2. /\ stack' \in Seq(Frames)
      /\ Len(stack') = Len(stack)
      /\ stack'[Len(stack)] = f
      /\ \A i \in 1..(Len(stack) - 1) : stack'[i] = stack[i]
  BY <1>1 DEF SetTop
<1>3. TypeOK'
  BY <1>2 DEF Shape, TypeOK, CallsKept, ExpectationsKept
<1>4. ASSUME NEW i \in 1..Len(stack')
      PROVE  FrameOK(i)'
  <2>1. CASE i = Len(stack)
    <3>1. f.role # "test" /\ f.role # "predicate" /\ i # 1 /\ stack'[i] = f
      BY <1>1, <1>2, <2>1
    <3>2. ASSUME f.role = "call"
          PROVE  /\ f.call \in 1..Len(calls')
                 /\ f.next <= Len(lists'[calls'[f.call].mock])
      <4>1. f.call = Top.call /\ f.next <= Top.next
        BY <3>2
      <4>2. /\ Top.call \in 1..Len(calls)
            /\ Top.next <= Len(lists[calls[Top.call].mock])
        BY <1>1, <2>1 DEF Shape, StackOK, FrameOK, Searching, Top
      <4>3. calls[Top.call].mock \in Mocks
        BY SearchFacts DEF Call, Calls
      <4>4. Len(lists[calls[Top.call].mock]) \in Nat
        BY <4>3 DEF Shape, TypeOK
      <4>5. calls'[Top.call].mock = calls[Top.call].mock /\ Len(calls') = Len(calls)
        BY <4>2 DEF CallsKept
      <4>6. Top.next \in Nat /\ f.next \in Nat
        BY SearchFacts DEF Frames
      <4> QED
        BY <4>1, <4>2, <4>4, <4>5, <4>6
    <3> QED
      BY <3>1, <3>2 DEF FrameOK
  <2>2. CASE i # Len(stack)
    <3>1. /\ i \in 1..(Len(stack) - 1) /\ stack'[i] = stack[i]
          /\ i \in 1..Len(stack)
      BY <1>1, <1>2, <2>2
    <3>2. i = 1 \/ stack'[i - 1] = stack[i - 1]
      BY <1>1, <1>2, <3>1
    <3> QED
      BY <3>1, <3>2, FrameKept
  <2> QED
    BY <2>1, <2>2
<1>5. StackOK'
  <2>1. phase' = "running" <=> Len(stack') > 0
    BY <1>1, <1>2 DEF Shape, StackOK, FrameOK
  <2> QED
    BY <2>1, <1>4, Zenon DEF StackOK
<1>6. ListsOK'
  BY ListsKept
<1> QED
  BY <1>3, <1>5, <1>6 DEF Shape

-----------------------------------------------------------------------------
(* One lemma per action. *)

LEMMA RaiseShape == ASSUME Shape, UserRunning, Raise PROVE Shape'
<1>1. /\ Len(stack) \in Nat /\ Len(stack) > 0 /\ stack \in Seq(Frames)
      /\ Top \in Frames
  BY DEF Shape, TypeOK, StackOK, FrameOK, UserRunning, Top
<1>2. CASE RaiseFromTest
  <2>1. TypeOK'
    BY <1>2 DEF RaiseFromTest, Shape, TypeOK
  <2>2. StackOK'
    BY <1>2 DEF RaiseFromTest, StackOK
  <2>3. ListsOK'
    BY <1>2, ListsKept, UnchangedExpectationsKept DEF RaiseFromTest, Shape
  <2> QED
    BY <2>1, <2>2, <2>3 DEF Shape
<1>3. CASE RaiseFromAction
  <2>1. Len(stack) > 1
    BY <1>1, <1>3 DEF RaiseFromAction, Shape, StackOK, FrameOK, Top
  <2>2. CallsKept /\ ExpectationsKept
    BY <1>3, UnchangedCallsKept, UnchangedExpectationsKept
       DEF RaiseFromAction, Shape
  <2> QED
    BY <1>3, <2>1, <2>2, PopShape DEF RaiseFromAction, Shape, TypeOK
<1>4. CASE RaiseFromPredicate
  <2> DEFINE s == Pop(stack)
             c == stack[Len(stack) - 1].call
  <2>1. /\ Len(stack) # 1
        /\ stack[Len(stack) - 1].role = "call"
        /\ Len(stack) - 1 \in 1..Len(stack)
    BY <1>1, <1>4 DEF RaiseFromPredicate, Shape, StackOK, FrameOK, Top
  <2>2. Len(stack) > 2 /\ c \in 1..Len(calls)
    BY <1>1, <2>1 DEF Shape, StackOK, FrameOK
  <2>3. s \in Seq(Frames) /\ Len(s) = Len(stack) - 1
        /\ \A i \in 1..(Len(stack) - 1) : s[i] = stack[i]
    BY <1>1, PopProperties
  <2>4. /\ Pop(s) \in Seq(Frames) /\ Len(Pop(s)) = Len(s) - 1
        /\ \A i \in 1..(Len(s) - 1) : Pop(s)[i] = s[i]
    <3> HIDE DEF s
    <3>1. Len(s) > 0
      BY <1>1, <2>2, <2>3
    <3> QED BY <2>3, <3>1, PopProperties, Zenon
  <2>5. /\ stack' \in Seq(Frames) /\ Len(stack') = Len(stack) - 2
        /\ \A i \in 1..Len(stack') : stack'[i] = stack[i]
    <3>1. stack' = Pop(s)
      BY <1>4 DEF RaiseFromPredicate
    <3> HIDE DEF s
    <3> QED BY <1>1, <2>2, <2>3, <2>4, <3>1, SMTT(20)
  <2>6. CallsKept
    <3>1. calls' = Resolve(c, "aborted", 0) /\ calls \in Seq(Calls)
      BY <1>4 DEF RaiseFromPredicate, Shape, TypeOK
    <3>2. "aborted" \in Statuses /\ 0 \in Nat
      BY DEF Statuses
    <3> QED
      BY <2>2, <3>1, <3>2, ResolveKeeps
  <2>7. ExpectationsKept /\ UNCHANGED << lists, registered, failures, threw, phase, credits >>
    BY <1>4, UnchangedExpectationsKept DEF RaiseFromPredicate, Shape
  <2>8. TypeOK'
    BY <2>5, <2>6, <2>7 DEF Shape, TypeOK, CallsKept, ExpectationsKept
  <2>9. ASSUME NEW f \in 1..Len(stack')
        PROVE  FrameOK(f)'
    <3>1. /\ f \in 1..Len(stack) /\ stack'[f] = stack[f]
          /\ f = 1 \/ stack'[f - 1] = stack[f - 1]
      BY <1>1, <2>5
    <3> QED
      BY <2>6, <2>7, <3>1, FrameKept
  <2>10. StackOK'
    <3>1. phase' = "running" <=> Len(stack') > 0
      BY <1>1, <2>2, <2>5, <2>7 DEF UserRunning
    <3> QED
      BY <2>9, <3>1, Zenon DEF StackOK
  <2>11. ListsOK'
    BY <2>7, ListsKept
  <2> QED
    BY <2>8, <2>10, <2>11 DEF Shape
<1> QED
  BY <1>2, <1>3, <1>4 DEF Raise

LEMMA ExpectCallShape ==
    ASSUME Shape, NEW m \in Mocks, NEW ms \in MatcherLists, ExpectCall(m, ms)
    PROVE  Shape'
<1> DEFINE k == Len(expectations) + 1
           e == NewExpectation(m, ms)
<1>1. e \in ExpectationOf(Mocks, MatcherLists)
  BY DEF NewExpectation, ExpectationOf
<1>2. /\ Len(expectations) \in Nat
      /\ expectations' \in Seq(ExpectationOf(Mocks, MatcherLists))
      /\ Len(expectations') = k
      /\ expectations'[k] = e
      /\ \A j \in 1..Len(expectations) : expectations'[j] = expectations[j]
  <2>1. expectations' = Append(expectations, e)
    BY DEF ExpectCall
  <2>2. expectations \in Seq(ExpectationOf(Mocks, MatcherLists))
    BY DEF Shape, TypeOK
  <2> HIDE DEF e
  <2> QED
    BY <1>1, <2>1, <2>2, AppendProperties
<1>3. /\ lists[m] \in Seq(Nat) /\ Len(lists[m]) \in Nat
      /\ lists' \in [Mocks -> Seq(Nat)]
      /\ Len(lists'[m]) = Len(lists[m]) + 1
      /\ lists'[m][Len(lists[m]) + 1] = k
      /\ \A i \in 1..Len(lists[m]) : lists'[m][i] = lists[m][i]
      /\ \A n \in Mocks \ {m} : lists'[n] = lists[n]
  <2>1. lists' = [lists EXCEPT ![m] = Append(lists[m], k)]
    BY DEF ExpectCall
  <2>2. lists \in [Mocks -> Seq(Nat)] /\ lists[m] \in Seq(Nat) /\ k \in Nat
    BY <1>2 DEF Shape, TypeOK
  <2>3. lists'[m] = Append(lists[m], k) /\ \A n \in Mocks \ {m} : lists'[n] = lists[n]
    BY <2>1, <2>2
  <2>4. Append(lists[m], k) \in Seq(Nat)
    BY <2>2
  <2>5. lists' \in [Mocks -> Seq(Nat)]
    BY <2>1, <2>2, <2>4
  <2> HIDE DEF k
  <2> QED
    BY <2>2, <2>3, <2>4, <2>5, AppendProperties
<1>4. UNCHANGED << stack, failures, threw, phase, calls, credits >>
  BY DEF ExpectCall
<1>8. ASSUME NEW n \in Mocks
      PROVE  /\ Len(lists[n]) \in Nat /\ Len(lists'[n]) \in Nat
             /\ Len(lists[n]) <= Len(lists'[n])
             /\ \A i \in 1..Len(lists[n]) : lists'[n][i] = lists[n][i]
  <2>1. lists[n] \in Seq(Nat) /\ lists'[n] \in Seq(Nat)
    BY <1>3 DEF Shape, TypeOK
  <2>2. CASE n = m
    BY <1>3, <2>1, <2>2
  <2>3. CASE n # m
    BY <1>3, <2>1, <2>3
  <2> QED BY <2>2, <2>3
<1>5. TypeOK'
  <2>1. registered' = Append(registered, k) /\ registered \in Seq(Nat) /\ k \in Nat
    BY <1>2 DEF ExpectCall, Shape, TypeOK
  <2>2. registered' \in Seq(Nat)
    BY <2>1
  <2> QED
    BY <1>2, <1>3, <1>4, <2>2 DEF Shape, TypeOK
<1>6. StackOK'
  <2>1. ASSUME NEW f \in 1..Len(stack')
        PROVE  FrameOK(f)'
    <3>1. FrameOK(f) /\ stack'[f] = stack[f] /\ stack'[f - 1] = stack[f - 1]
      BY <1>4 DEF Shape, StackOK
    <3>2. ASSUME stack[f].role = "call"
          PROVE  stack[f].next <= Len(lists'[calls[stack[f].call].mock])
      <4> DEFINE n == calls[stack[f].call].mock
      <4>1. stack[f].call \in 1..Len(calls) /\ stack[f].next <= Len(lists[n])
        BY <3>1, <3>2 DEF FrameOK
      <4>2. n \in Mocks
        <5>1. calls[stack[f].call] \in Calls
          BY <4>1 DEF Shape, TypeOK
        <5> QED BY <5>1 DEF Calls
      <4>3. stack[f].next \in Nat
        <5>1. stack[f] \in Frames
          BY <1>4, <2>1 DEF Shape, TypeOK
        <5> QED BY <5>1 DEF Frames
      <4>4. /\ Len(lists[n]) \in Nat /\ Len(lists'[n]) \in Nat
            /\ Len(lists[n]) <= Len(lists'[n])
        BY <1>8, <4>2
      <4> HIDE DEF n
      <4>6. stack[f].next <= Len(lists'[n])
        BY <4>1, <4>3, <4>4
      <4> QED BY <4>6 DEF n
    <3> QED
      BY <1>4, <3>1, <3>2 DEF FrameOK
  <2> QED
    BY <1>4, <2>1 DEF Shape, StackOK
<1>7. ListsOK'
  <2>1. ASSUME NEW n \in Mocks, NEW i \in 1..Len(lists'[n])
        PROVE  /\ lists'[n][i] \in 1..Len(expectations')
               /\ expectations'[lists'[n][i]].mock = n
               /\ \A j \in 1..(i - 1) : lists'[n][j] < lists'[n][i]
    <3>1. CASE i \in 1..Len(lists[n])
      <4>1. \A j \in 1..i : lists'[n][j] = lists[n][j]
        BY <1>8, <3>1
      <4>2. /\ lists[n][i] \in 1..Len(expectations)
            /\ expectations[lists[n][i]].mock = n
            /\ \A j \in 1..(i - 1) : lists[n][j] < lists[n][i]
        BY <3>1 DEF Shape, ListsOK
      <4>3. lists'[n][i] = lists[n][i] /\ i \in Nat
        BY <3>1, <4>1
      <4>4. \A j \in 1..(i - 1) : lists'[n][j] < lists'[n][i]
        BY <4>1, <4>2, <4>3
      <4>5. expectations'[lists'[n][i]].mock = n
        BY <1>2, <4>2, <4>3
      <4> QED
        BY <1>2, <4>2, <4>3, <4>4, <4>5
    <3>2. CASE i \notin 1..Len(lists[n])
      <4>1. n = m
        <5> HIDE DEF k, e
        <5>1. n # m => lists'[n] = lists[n]
          BY <1>3, Zenon
        <5> QED BY <5>1, <2>1, <3>2, Zenon
      <4>6. i = Len(lists[m]) + 1
        <5> DEFINE l == Len(lists[m])
        <5>1. l \in Nat /\ Len(lists'[n]) = l + 1
          BY <1>3, <4>1, Zenon
        <5>2. i \in 1..(l + 1) /\ i \notin 1..l
          BY <3>2, <4>1, <5>1, Zenon
        <5> HIDE DEF l
        <5>3. i = l + 1
          BY <5>1, <5>2
        <5> QED BY <5>3 DEF l
      <4>2. lists'[n][i] = k
        BY <1>3, <4>1, <4>6
      <4>3. \A j \in 1..(i - 1) : lists'[n][j] < k
        <5>1. \A j \in 1..(i - 1) : lists'[n][j] = lists[n][j] /\ lists[n][j] \in 1..Len(expectations)
          BY <1>3, <4>1, <4>6 DEF Shape, ListsOK
        <5>2. \A x \in 1..Len(expectations) : x < k
          BY <1>2
        <5> QED BY <5>1, <5>2, Zenon
      <4>4. e.mock = m
        BY DEF NewExpectation
      <4> HIDE DEF e
      <4> QED
        BY <1>2, <4>1, <4>6, <4>2, <4>3, <4>4
    <3> QED BY <3>1, <3>2
  <2>2. ASSUME NEW j \in 1..Len(expectations')
        PROVE  \E i \in 1..Len(lists'[expectations'[j].mock]) :
                  lists'[expectations'[j].mock][i] = j
    <3>1. CASE j = k
      <4>1. expectations'[j].mock = m
        BY <1>2, <3>1 DEF NewExpectation
      <4>2. Len(lists[m]) + 1 \in 1..Len(lists'[m])
        <5> HIDE DEF k
        <5> QED BY <1>3
      <4>3. lists'[m][Len(lists[m]) + 1] = j
        BY <1>3, <3>1, Zenon
      <4> QED
        BY <4>1, <4>2, <4>3, Zenon
    <3>2. CASE j # k
      <4>1. j \in 1..Len(expectations) /\ expectations'[j] = expectations[j]
        BY <1>2, <3>2
      <4>2. PICK i \in 1..Len(lists[expectations[j].mock]) :
                    lists[expectations[j].mock][i] = j
        BY <4>1 DEF Shape, ListsOK
      <4>3. expectations[j].mock \in Mocks
        <5>1. expectations[j] \in ExpectationOf(Mocks, MatcherLists)
          BY <4>1 DEF Shape, TypeOK
        <5> QED BY <5>1 DEF ExpectationOf
      <4>4. i \in 1..Len(lists'[expectations[j].mock])
            /\ lists'[expectations[j].mock][i] = j
        BY <1>8, <4>2, <4>3
      <4> QED BY <4>1, <4>4
    <3> QED BY <3>1, <3>2
  <2> QED
    BY <2>1, <2>2, Zenon DEF ListsOK
<1> QED
  BY <1>5, <1>6, <1>7 DEF Shape

(* Replacing an expectation by one with the same mock function and matchers. *)
LEMMA ReplaceKeeps ==
    ASSUME TypeOK, NEW k \in 1..Len(expectations),
           NEW e \in ExpectationOf(Mocks, MatcherLists),
           e.mock = expectations[k].mock,
           e.argMatchers = expectations[k].argMatchers,
           expectations' = [expectations EXCEPT ![k] = e]
    PROVE  ExpectationsKept
  BY DEF TypeOK, ExpectationsKept

(* A wrapper method replaces the configuration of an expectation, or throws. *)
ConfigurationStep ==
    /\ ExpectationsKept
    /\ UNCHANGED << lists, registered, stack, failures, threw, phase, calls, credits >>

LEMMA ConfigureEffect ==
    ASSUME Shape, NEW k \in 1..Len(expectations), NEW misused \in BOOLEAN,
           NEW e \in ExpectationOf(Mocks, MatcherLists),
           e.mock = expectations[k].mock,
           e.argMatchers = expectations[k].argMatchers,
           Configure(k, misused, e)
    PROVE  Throw \/ ConfigurationStep
<1>1. CASE misused
  BY <1>1 DEF Configure, Throw
<1>2. CASE ~misused
  <2>1. /\ expectations' = [expectations EXCEPT ![k] = e]
        /\ UNCHANGED << lists, registered, stack, failures, threw, phase, calls,
                        credits >>
    BY <1>2 DEF Configure
  <2>2. ExpectationsKept
    BY <2>1, ReplaceKeeps DEF Shape
  <2> QED
    BY <2>1, <2>2 DEF ConfigurationStep
<1> QED
  BY <1>1, <1>2

LEMMA WrapperEffect ==
    ASSUME Shape, NEW k \in 1..Len(expectations),
           \/ \E n \in 0..MaxTimes : Times(k, n)
           \/ WillOnce(k)
           \/ WillRepeatedly(k)
    PROVE  Throw \/ ConfigurationStep
<1> DEFINE e == expectations[k]
<1>1. e \in ExpectationOf(Mocks, MatcherLists)
  BY DEF Shape, TypeOK
<1>2. ASSUME NEW n \in 0..MaxTimes, Times(k, n)
      PROVE  Throw \/ ConfigurationStep
  <2> DEFINE d == [e EXCEPT !.expectedNumMatches = n]
  <2>1. /\ d \in ExpectationOf(Mocks, MatcherLists)
        /\ d.mock = e.mock /\ d.argMatchers = e.argMatchers
    <3> HIDE DEF e
    <3> QED BY <1>1 DEF ExpectationOf
  <2>2. TimesMisused(e) \in BOOLEAN
    BY <1>1 DEF TimesMisused, ExpectationOf
  <2>3. Configure(k, TimesMisused(e), d)
    BY <1>2 DEF Times
  <2> HIDE DEF d
  <2> QED BY <2>1, <2>2, <2>3, ConfigureEffect
<1>3. ASSUME WillOnce(k)
      PROVE  Throw \/ ConfigurationStep
  <2> DEFINE d == [e EXCEPT !.oneTimeActions = Append(@, FALSE)]
  <2>1. /\ d \in ExpectationOf(Mocks, MatcherLists)
        /\ d.mock = e.mock /\ d.argMatchers = e.argMatchers
    <3> HIDE DEF e
    <3>1. Append(e.oneTimeActions, FALSE) \in Seq(BOOLEAN)
      <4>1. e.oneTimeActions \in Seq(BOOLEAN)
        BY <1>1 DEF ExpectationOf
      <4> QED BY <4>1, AppendProperties
    <3> QED BY <1>1, <3>1 DEF ExpectationOf
  <2>2. OnceMisused(e) \in BOOLEAN
    BY <1>1 DEF OnceMisused, ExpectationOf
  <2>3. Configure(k, OnceMisused(e), d)
    BY <1>3 DEF WillOnce
  <2> HIDE DEF d
  <2> QED BY <2>1, <2>2, <2>3, ConfigureEffect
<1>4. ASSUME WillRepeatedly(k)
      PROVE  Throw \/ ConfigurationStep
  <2> DEFINE d == [e EXCEPT !.fallbackAction = TRUE]
  <2>1. /\ d \in ExpectationOf(Mocks, MatcherLists)
        /\ d.mock = e.mock /\ d.argMatchers = e.argMatchers
    <3> HIDE DEF e
    <3> QED BY <1>1 DEF ExpectationOf
  <2>2. e.fallbackAction \in BOOLEAN
    BY <1>1 DEF ExpectationOf
  <2>3. Configure(k, e.fallbackAction, d)
    BY <1>4 DEF WillRepeatedly
  <2> HIDE DEF d
  <2> QED BY <2>1, <2>2, <2>3, ConfigureEffect
<1> QED
  BY <1>2, <1>3, <1>4

LEMMA ConfigurationShape == ASSUME Shape, ConfigurationStep PROVE Shape'
<1>1. TypeOK'
  BY DEF ConfigurationStep, Shape, TypeOK, ExpectationsKept
<1>2. StackOK'
  BY DEF ConfigurationStep, Shape, StackOK, FrameOK
<1>3. ListsOK'
  BY ListsKept DEF ConfigurationStep
<1> QED
  BY <1>1, <1>2, <1>3 DEF Shape

LEMMA CallMockShape ==
    ASSUME Shape, NEW m \in Mocks, NEW args \in ArgLists, CallMock(m, args)
    PROVE  Shape'
<1> DEFINE c == [mock |-> m, args |-> args, born |-> Len(expectations),
                 status |-> "searching", by |-> 0]
           f == Frame("call", Len(calls) + 1, Len(lists[m]))
<1>1. c \in Calls
  BY DEF Shape, TypeOK, Calls, Statuses
<1>2. f \in Frames
  <2>1. Len(calls) + 1 \in Nat /\ Len(lists[m]) \in Nat
    BY DEF Shape, TypeOK
  <2> QED BY <2>1 DEF Frame, Frames
<1>3. /\ calls' \in Seq(Calls) /\ Len(calls) \in Nat
      /\ Len(calls') = Len(calls) + 1 /\ calls'[Len(calls) + 1] = c
      /\ \A i \in 1..Len(calls) : calls'[i] = calls[i]
  <2>1. calls' = Append(calls, c) /\ calls \in Seq(Calls)
    BY DEF CallMock, Shape, TypeOK
  <2> HIDE DEF c
  <2> QED BY <1>1, <2>1, AppendProperties
<1>4. /\ stack' \in Seq(Frames) /\ Len(stack) \in Nat
      /\ Len(stack') = Len(stack) + 1 /\ stack'[Len(stack) + 1] = f
      /\ \A i \in 1..Len(stack) : stack'[i] = stack[i]
  <2>1. stack' = Append(stack, f) /\ stack \in Seq(Frames)
    BY DEF CallMock, Shape, TypeOK
  <2> HIDE DEF f
  <2> QED BY <1>2, <2>1, AppendProperties
<1>5. UNCHANGED << expectations, lists, registered, failures, threw, phase, credits >>
  BY DEF CallMock
<1>6. TypeOK'
  BY <1>3, <1>4, <1>5 DEF Shape, TypeOK
<1>7. phase = "running" /\ Len(stack) > 0
  BY DEF CallMock, UserRunning, Shape, StackOK
<1>8. ASSUME NEW i \in 1..Len(stack')
      PROVE  FrameOK(i)'
  <2>1. CASE i = Len(stack) + 1
    <3>1. f.role = "call" /\ f.call = Len(calls) + 1 /\ f.next = Len(lists[m])
      BY DEF Frame
    <3>2. c.mock = m
      OBVIOUS
    <3>3. stack'[i] = f /\ i # 1
      BY <1>4, <1>7, <2>1
    <3>4. Len(lists[m]) \in Nat
      BY DEF Shape, TypeOK
    <3> HIDE DEF f, c
    <3> QED
      BY <1>3, <1>5, <3>1, <3>2, <3>3, <3>4 DEF FrameOK
  <2>2. CASE i # Len(stack) + 1
    <3>1. /\ i \in 1..Len(stack) /\ stack'[i] = stack[i]
          /\ i = 1 \/ stack'[i - 1] = stack[i - 1]
      BY <1>4, <2>2
    <3>2. FrameOK(i)
      BY <3>1 DEF Shape, StackOK
    <3>3. stack[i].role = "call" => calls'[stack[i].call] = calls[stack[i].call]
                                      /\ stack[i].call \in 1..Len(calls')
      BY <1>3, <3>2 DEF FrameOK
    <3> HIDE DEF f, c
    <3> QED
      BY <1>5, <3>1, <3>2, <3>3 DEF FrameOK
  <2> QED BY <2>1, <2>2
<1>9. StackOK'
  <2>1. phase' = "running" <=> Len(stack') > 0
    BY <1>4, <1>5, <1>7
  <2> QED
    BY <1>8, <2>1, Zenon DEF StackOK
<1>10. ListsOK'
  BY <1>5, ListsKept, UnchangedExpectationsKept DEF Shape
<1> QED
  BY <1>6, <1>9, <1>10 DEF Shape

LEMMA ReturnShape == ASSUME Shape, Return PROVE Shape'
<1>1. /\ Len(stack) \in Nat /\ Len(stack) > 0 /\ stack \in Seq(Frames)
      /\ FrameOK(Len(stack)) /\ phase = "running"
  BY DEF Shape, TypeOK, StackOK, Return, UserRunning
<1>2. /\ UNCHANGED << expectations, lists, registered, failures, threw, calls,
                      credits >>
      /\ stack' = Pop(stack)
      /\ phase' = IF Top.role = "test" THEN "verifying" ELSE phase
  BY DEF Return
<1>3. CallsKept /\ ExpectationsKept
  BY <1>2, UnchangedCallsKept, UnchangedExpectationsKept DEF Shape
<1>4. CASE Top.role = "test"
  <2>1. Len(stack) = 1
    BY <1>1, <1>4 DEF FrameOK, Top
  <2>2. stack' \in Seq(Frames) /\ Len(stack') = 0
    <3>1. Pop(stack) \in Seq(Frames) /\ Len(Pop(stack)) = Len(stack) - 1
      BY <1>1, PopProperties
    <3> QED BY <1>2, <2>1, <3>1
  <2>3. TypeOK'
    BY <1>2, <1>4, <2>2 DEF Shape, TypeOK
  <2>4. StackOK'
    BY <1>2, <1>4, <2>2 DEF StackOK
  <2>5. ListsOK'
    BY <1>2, <1>3, ListsKept
  <2> QED
    BY <2>3, <2>4, <2>5 DEF Shape
<1>5. CASE Top.role # "test"
  <2>1. Len(stack) > 1
    <3>1. Len(stack) # 1
      BY <1>1, <1>5, Zenon DEF FrameOK, Top
    <3>2. \A n \in Nat : n > 0 /\ n # 1 => n > 1
      OBVIOUS
    <3> QED BY <1>1, <3>1, <3>2, Zenon
  <2>2. UNCHANGED phase
    BY <1>2, <1>5
  <2> QED
    BY <1>2, <1>3, <2>1, <2>2, PopShape DEF Shape, TypeOK
<1> QED
  BY <1>4, <1>5

LEMMA AskPredicateShape == ASSUME Shape, AskPredicate PROVE Shape'
<1> DEFINE n == Len(stack)
           t == [Top EXCEPT !.asked = TRUE]
           p == Frame("predicate", 0, 0)
<1>1. /\ n \in Nat /\ n > 1 /\ stack \in Seq(Frames) /\ Top \in Frames
      /\ Top = stack[n] /\ Top.role = "call" /\ phase = "running"
  BY SearchFacts DEF Shape, TypeOK, AskPredicate, Searching, Top
<1>2. /\ UNCHANGED << expectations, lists, registered, failures, threw, phase,
                      calls, credits >>
      /\ stack' = Append(SetTop(t), p)
  BY DEF AskPredicate
<1>3. /\ t \in Frames /\ t.role = Top.role /\ t.call = Top.call
      /\ t.next = Top.next
  <2> HIDE DEF n
  <2> QED BY <1>1 DEF Frames
<1>4. p \in Frames /\ p.role = "predicate"
  BY DEF Frame, Frames, UserRoles
<1>5. /\ SetTop(t) \in Seq(Frames) /\ Len(SetTop(t)) = n /\ SetTop(t)[n] = t
      /\ \A i \in 1..(n - 1) : SetTop(t)[i] = stack[i]
  <2> HIDE DEF t
  <2> QED BY <1>1, <1>3 DEF SetTop
<1> HIDE DEF n, t, p
<1>6. /\ stack' \in Seq(Frames) /\ Len(stack') = n + 1
      /\ stack'[n + 1] = p /\ stack'[n] = t
      /\ \A i \in 1..(n - 1) : stack'[i] = stack[i]
  <2>1. /\ Append(SetTop(t), p) \in Seq(Frames)
        /\ Len(Append(SetTop(t), p)) = Len(SetTop(t)) + 1
        /\ \A i \in 1..Len(SetTop(t)) : Append(SetTop(t), p)[i] = SetTop(t)[i]
        /\ Append(SetTop(t), p)[Len(SetTop(t)) + 1] = p
    BY <1>4, <1>5, AppendProperties
  <2> QED BY <1>1, <1>2, <1>5, <2>1
<1>7. TypeOK'
  BY <1>2, <1>6 DEF Shape, TypeOK
<1>8. CallsKept /\ ExpectationsKept
  BY <1>2, UnchangedCallsKept, UnchangedExpectationsKept DEF Shape
<1>9. ASSUME NEW i \in 1..Len(stack')
      PROVE  FrameOK(i)'
  <2>1. CASE i = n + 1
    BY <1>1, <1>3, <1>4, <1>6, <2>1 DEF FrameOK
  <2>2. CASE i = n
    <3>1. FrameOK(n)
      BY <1>1 DEF n, Shape, StackOK
    <3>2. stack'[i] = t /\ i # 1
      BY <1>1, <1>6, <2>2
    <3> QED
      BY <1>1, <1>2, <1>3, <2>2, <3>1, <3>2 DEF FrameOK
  <2>3. CASE i \in 1..(n - 1)
    <3>1. /\ i \in 1..Len(stack) /\ stack'[i] = stack[i]
          /\ i = 1 \/ stack'[i - 1] = stack[i - 1]
      BY <1>1, <1>6, <2>3 DEF n
    <3> QED
      BY <1>2, <1>8, <3>1, FrameKept
  <2> QED
    BY <1>1, <1>6, <2>1, <2>2, <2>3
<1>10. StackOK'
  <2>1. phase' = "running" <=> Len(stack') > 0
    BY <1>1, <1>2, <1>6
  <2> QED
    BY <1>9, <2>1, Zenon DEF StackOK
<1>11. ListsOK'
  BY <1>2, <1>8, ListsKept
<1> QED
  BY <1>7, <1>10, <1>11 DEF Shape

LEMMA PopSearchShape ==
    ASSUME Shape, PredicateError \/ Unexpected \/ UnexpectedThrows
    PROVE  Shape'
<1>1. Len(stack) > 1 /\ Top.call \in 1..Len(calls)
  BY SearchFacts DEF PredicateError, Answered, Unexpected, UnexpectedThrows
<1>2. /\ UNCHANGED << expectations, lists, registered, threw, phase, credits >>
      /\ stack' = Pop(stack)
      /\ failures' \in Nat
      /\ credits' \in Seq(Credits)
  BY DEF PredicateError, Unexpected, UnexpectedThrows, Shape, TypeOK
<1>3. CallsKept
  <2>1. \E status \in Statuses : calls' = Resolve(Top.call, status, 0)
    BY DEF PredicateError, Unexpected, UnexpectedThrows, Statuses
  <2> QED
    BY <1>1, <2>1, ResolveKeeps DEF Shape, TypeOK
<1>4. ExpectationsKept
  BY <1>2, UnchangedExpectationsKept DEF Shape
<1> QED
  BY <1>1, <1>2, <1>3, <1>4, PopShape

LEMMA NoMatchShape == ASSUME Shape, NoMatch PROVE Shape'
<1> DEFINE f == Frame("call", Top.call, Older(Top.next))
<1>1. Searching /\ Top.next > 0 /\ Top \in Frames
  BY SearchFacts DEF NoMatch, Answered
<1>2. f \in Frames /\ f.role = "call" /\ f.call = Top.call /\ f.next <= Top.next
  <2>1. Top.next \in Nat /\ Top.call \in Nat
    BY <1>1 DEF Frames
  <2> QED
    BY <1>1, <2>1 DEF Frame, Frames, Older
<1>3. /\ UNCHANGED << expectations, lists, registered, failures, threw, phase,
                      calls, credits >>
      /\ stack' = SetTop(f)
  BY DEF NoMatch
<1>4. CallsKept /\ ExpectationsKept /\ credits' \in Seq(Credits)
  BY <1>3, UnchangedCallsKept, UnchangedExpectationsKept DEF Shape, TypeOK
<1> HIDE DEF f
<1> QED
  BY <1>1, <1>2, <1>3, <1>4, SetTopShape

(* What a match leaves of the expectation that matched. *)
LEMMA CountedProperties ==
    ASSUME NEW e \in ExpectationOf(Mocks, MatcherLists)
    PROVE  /\ Counted(e) \in ExpectationOf(Mocks, MatcherLists)
           /\ Counted(e).mock = e.mock /\ Counted(e).argMatchers = e.argMatchers
           /\ Counted(e).oneTimeActions = e.oneTimeActions
           /\ Counted(e).fallbackAction = e.fallbackAction
           /\ Counted(e).expectedNumMatches = e.expectedNumMatches
           /\ Counted(e).numMatches = e.numMatches + 1
<1>1. e.numMatches \in Nat
  BY DEF ExpectationOf
<1> QED
  BY <1>1 DEF ExpectationOf, Counted

LEMMA ExpireProperties ==
    ASSUME NEW e \in ExpectationOf(Mocks, MatcherLists),
           NEW i \in DOMAIN e.oneTimeActions
    PROVE  /\ Expire(e, i) \in ExpectationOf(Mocks, MatcherLists)
           /\ Expire(e, i).mock = e.mock
           /\ Expire(e, i).argMatchers = e.argMatchers
           /\ Expire(e, i).oneTimeActions = [e.oneTimeActions EXCEPT ![i] = TRUE]
           /\ Expire(e, i).fallbackAction = e.fallbackAction
           /\ Expire(e, i).expectedNumMatches = e.expectedNumMatches
           /\ Expire(e, i).numMatches = e.numMatches
<1>1. e.oneTimeActions \in Seq(BOOLEAN)
  BY DEF ExpectationOf
<1>2. [e.oneTimeActions EXCEPT ![i] = TRUE] \in Seq(BOOLEAN)
  BY <1>1
<1> QED
  BY <1>2 DEF ExpectationOf, Expire

LEMMA MatchesKeep ==
    ASSUME Shape, MatchOnce \/ MatchFallback \/ MatchEmpty
    PROVE  /\ ExpectationsKept
           /\ credits' \in Seq(Credits)
           /\ calls' = Resolve(Top.call, "credited", Candidate)
           /\ \/ stack' = SetTop(Frame("action", 0, 0))
              \/ stack' = Pop(stack)
           /\ UNCHANGED << lists, registered, failures, threw, phase >>
<1> DEFINE e == expectations[Candidate]
<1>1. /\ Answered /\ Searching /\ Top.call \in Nat
      /\ Candidate \in 1..Len(expectations)
      /\ e \in ExpectationOf(Mocks, MatcherLists)
  BY SearchFacts DEF MatchOnce, MatchFallback, MatchEmpty, Answered
<1>2. Len(e.oneTimeActions) \in Nat /\ DOMAIN e.oneTimeActions \subseteq Nat
  <2>1. e.oneTimeActions \in Seq(BOOLEAN)
    BY <1>1 DEF ExpectationOf
  <2> QED BY <2>1
<1>3. ASSUME NEW took \in {"once", "fallback", "empty"}, NEW slot \in Nat,
             NEW d \in ExpectationOf(Mocks, MatcherLists),
             d.mock = e.mock, d.argMatchers = e.argMatchers,
             Match(took, slot, d)
      PROVE  /\ ExpectationsKept
             /\ credits' \in Seq(Credits)
             /\ calls' = Resolve(Top.call, "credited", Candidate)
             /\ UNCHANGED << lists, registered, failures, threw, phase >>
  <2> DEFINE c == [call  |-> Top.call,
                   by    |-> Candidate,
                   took  |-> took,
                   slot  |-> slot,
                   slots |-> Len(e.oneTimeActions)]
  <2>1. /\ expectations' = [expectations EXCEPT ![Candidate] = d]
        /\ calls' = Resolve(Top.call, "credited", Candidate)
        /\ credits' = Append(credits, c)
        /\ UNCHANGED << lists, registered, failures, threw, phase >>
    BY <1>3 DEF Match
  <2>2. ExpectationsKept
    BY <1>1, <1>3, <2>1, ReplaceKeeps DEF Shape
  <2>3. c \in Credits /\ credits \in Seq(Credits)
    BY <1>1, <1>2 DEF Credits, Shape, TypeOK
  <2>4. credits' \in Seq(Credits)
    <3> HIDE DEF c
    <3> QED BY <2>1, <2>3, AppendProperties
  <2> QED
    BY <2>1, <2>2, <2>4
<1>4. /\ Counted(e) \in ExpectationOf(Mocks, MatcherLists)
      /\ Counted(e).mock = e.mock /\ Counted(e).argMatchers = e.argMatchers
      /\ Counted(e).oneTimeActions = e.oneTimeActions
  BY <1>1, CountedProperties
<1>5. CASE MatchOnce
  <2>1. PICK i \in DOMAIN e.oneTimeActions :
           /\ Match("once", i, Expire(Counted(e), i))
           /\ stack' = SetTop(Frame("action", 0, 0))
    BY <1>5 DEF MatchOnce
  <2>2. /\ Expire(Counted(e), i) \in ExpectationOf(Mocks, MatcherLists)
        /\ Expire(Counted(e), i).mock = e.mock
        /\ Expire(Counted(e), i).argMatchers = e.argMatchers
    BY <1>4, <2>1, ExpireProperties
  <2> QED
    BY <1>2, <1>3, <2>1, <2>2
<1>6. CASE MatchFallback \/ MatchEmpty
  <2>1. \E took \in {"fallback", "empty"} :
           /\ Match(took, 0, Counted(e))
           /\ \/ stack' = SetTop(Frame("action", 0, 0))
              \/ stack' = Pop(stack)
    BY <1>6 DEF MatchFallback, MatchEmpty
  <2> QED
    BY <1>3, <1>4, <2>1
<1> QED
  BY <1>5, <1>6

LEMMA MatchesShape ==
    ASSUME Shape, MatchOnce \/ MatchFallback \/ MatchEmpty
    PROVE  Shape'
<1> DEFINE f == Frame("action", 0, 0)
<1>1. /\ ExpectationsKept
      /\ credits' \in Seq(Credits)
      /\ calls' = Resolve(Top.call, "credited", Candidate)
      /\ stack' = SetTop(f) \/ stack' = Pop(stack)
      /\ UNCHANGED << lists, registered, failures, threw, phase >>
  BY MatchesKeep
<1>2. /\ Searching /\ Len(stack) > 1 /\ Top.call \in 1..Len(calls)
      /\ Candidate \in Nat
  BY SearchFacts DEF MatchOnce, MatchFallback, MatchEmpty, Answered
<1>3. CallsKept
  <2>1. "credited" \in Statuses /\ calls \in Seq(Calls)
    BY DEF Statuses, Shape, TypeOK
  <2> QED
    BY <1>1, <1>2, <2>1, ResolveKeeps
<1>4. f \in Frames /\ f.role = "action"
  BY DEF Frame, Frames, UserRoles
<1>5. failures' \in Nat
  BY <1>1 DEF Shape, TypeOK
<1> HIDE DEF f
<1>6. CASE stack' = SetTop(f)
  BY <1>1, <1>2, <1>3, <1>4, <1>6, SetTopShape
<1>7. CASE stack' = Pop(stack)
  BY <1>1, <1>2, <1>3, <1>5, <1>7, PopShape
<1> QED
  BY <1>1, <1>6, <1>7

LEMMA VerifyShape == ASSUME Shape, Verify PROVE Shape'
<1>1. IsFiniteSet(Unsatisfied)
  <2>1. Unsatisfied \subseteq 1..Len(registered)
    BY DEF Unsatisfied, Shape, TypeOK
  <2>2. IsFiniteSet(1..Len(registered))
    BY FS_Interval DEF Shape, TypeOK
  <2> QED
    BY <2>1, <2>2, FS_Subset
<1>2. Cardinality(Unsatisfied) \in Nat
  BY <1>1, FS_CardinalityType
<1>3. TypeOK'
  BY <1>2 DEF Verify, Shape, TypeOK
<1>4. StackOK'
  BY DEF Verify, Shape, StackOK, FrameOK
<1>5. ListsOK'
  BY ListsKept, UnchangedExpectationsKept DEF Verify, Shape
<1> QED
  BY <1>3, <1>4, <1>5 DEF Shape

(* The inductive invariant of the types. *)
LEMMA ShapeInductive == Shape /\ [Next]_vars => Shape'
<1> SUFFICES ASSUME Shape, [Next]_vars PROVE Shape'
  OBVIOUS
<1>1. CASE AuthorStep
  <2>1. CASE Throw
    BY <2>1, RaiseShape DEF Throw
  <2>2. CASE Return
    BY <2>2, ReturnShape
  <2>3. CASE \E m \in Mocks, ms \in MatcherLists : ExpectCall(m, ms)
    BY <2>3, ExpectCallShape
  <2>4. CASE \E k \in DOMAIN expectations :
                (\E n \in 0..MaxTimes : Times(k, n)) \/ WillOnce(k) \/ WillRepeatedly(k)
    <3>1. DOMAIN expectations = 1..Len(expectations)
      BY DEF Shape, TypeOK
    <3>2. Throw \/ ConfigurationStep
      BY <2>4, <3>1, WrapperEffect
    <3> QED BY <3>2, RaiseShape, ConfigurationShape DEF Throw
  <2>5. CASE \E m \in Mocks, args \in ArgLists : CallMock(m, args)
    BY <2>5, CallMockShape
  <2> QED
    BY <1>1, <2>1, <2>2, <2>3, <2>4, <2>5 DEF AuthorStep
<1>2. CASE SearchStep
  BY <1>2, AskPredicateShape, PopSearchShape, NoMatchShape, MatchesShape
     DEF SearchStep
<1>3. CASE Verify
  BY <1>3, VerifyShape
<1>4. CASE Terminated \/ UNCHANGED vars
  <2>1. UNCHANGED vars
    BY <1>4 DEF Terminated
  <2>2. CallsKept /\ ExpectationsKept
    BY <2>1, UnchangedCallsKept, UnchangedExpectationsKept DEF Shape, vars
  <2>3. TypeOK'
    BY <2>1 DEF vars, Shape, TypeOK
  <2>4. StackOK'
    BY <2>1 DEF vars, Shape, StackOK, FrameOK
  <2>5. ListsOK'
    BY <2>1, <2>2, ListsKept DEF vars
  <2> QED
    BY <2>3, <2>4, <2>5 DEF Shape
<1> QED
  BY <1>1, <1>2, <1>3, <1>4 DEF Next

(* Every reachable state has the types of TypeOK, frames that fit together *)
(* and lists that hold every expectation of their mock function in order:  *)
(* what mock_function.js and mocking.js rely on without checking.          *)
THEOREM ShapeCorrect == Spec => [](TypeOK /\ StackOK /\ ListsOK)
<1> QED
  BY ShapeInit, ShapeInductive, PTL DEF Spec, Shape

(* The same, for the type invariant the runs check. *)
THEOREM TypeCorrect == Spec => []TypeOK
<1> QED
  BY ShapeCorrect, PTL

-----------------------------------------------------------------------------
(* The newest match wins. *)

(* The expectation k of es does not take the call c. *)
RejectedIn(es, c, k) ==
    es[k].mock = c.mock => ~CheckArgs(c.args, es[k].argMatchers)

(* The conjunct of NewestMatchWins about one call. *)
WonIn(es, c) ==
    /\ c.status = "credited" =>
          /\ c.by \in 1..c.born
          /\ es[c.by].mock = c.mock
          /\ CheckArgs(c.args, es[c.by].argMatchers)
          /\ \A k \in (c.by + 1)..c.born : RejectedIn(es, c, k)
    /\ c.status = "unexpected" => \A k \in 1..c.born : RejectedIn(es, c, k)

(* What a search knows when its frame has come to position `next': the     *)
(* positions left to try hold expectations that existed when the call was  *)
(* made, and every other such expectation of the function was rejected.    *)
KnowsIn(es, ls, c, next) ==
    /\ \A i \in 1..next : ls[c.mock][i] <= c.born
    /\ \A k \in 1..c.born :
          \/ RejectedIn(es, c, k)
          \/ \E i \in 1..next : ls[c.mock][i] = k

BornOK == \A i \in 1..Len(calls) : calls[i].born <= Len(expectations)

SearchOK ==
    /\ BornOK
    /\ \A f \in 1..Len(stack) :
          stack[f].role = "call" =>
              KnowsIn(expectations, lists, calls[stack[f].call], stack[f].next)

SearchInv == Shape /\ SearchOK /\ NewestMatchWins

LEMMA NewestMatchWinsByCall ==
    TypeOK => (NewestMatchWins <=> \A i \in 1..Len(calls) : WonIn(expectations, calls[i]))
<1> SUFFICES ASSUME TypeOK
             PROVE  NewestMatchWins <=>
                      \A i \in 1..Len(calls) : WonIn(expectations, calls[i])
  OBVIOUS
<1>1. DOMAIN calls = 1..Len(calls)
  BY DEF TypeOK
<1> QED
  BY <1>1, Zenon DEF NewestMatchWins, WonIn, Rejected, RejectedIn

(* Expectations and lists only grow, and what is there keeps its mock      *)
(* function, its matchers and its place.                                   *)
Growth ==
    /\ Len(expectations) <= Len(expectations')
    /\ \A k \in 1..Len(expectations) :
          /\ expectations'[k].mock = expectations[k].mock
          /\ expectations'[k].argMatchers = expectations[k].argMatchers
    /\ \A m \in Mocks : \A i \in 1..Len(lists[m]) : lists'[m][i] = lists[m][i]

(* Every search of the new stack was under way before, at the same place.  *)
SearchesFrom ==
    \A f \in 1..Len(stack') :
        stack'[f].role = "call" =>
            \E g \in 1..Len(stack) :
                /\ stack[g].role = "call"
                /\ stack'[f].call = stack[g].call
                /\ stack'[f].next = stack[g].next

LEMMA WonKept ==
    ASSUME Growth, NEW c, c.born \in Nat, c.born <= Len(expectations),
           c.by \in Nat, Len(expectations) \in Nat, WonIn(expectations, c)
    PROVE  WonIn(expectations', c)
<1>1. \A k \in 1..c.born :
          RejectedIn(expectations, c, k) => RejectedIn(expectations', c, k)
  BY DEF Growth, RejectedIn
<1>2. ASSUME c.status = "credited"
      PROVE  /\ c.by \in 1..c.born
             /\ expectations'[c.by].mock = c.mock
             /\ CheckArgs(c.args, expectations'[c.by].argMatchers)
             /\ \A k \in (c.by + 1)..c.born : RejectedIn(expectations', c, k)
  <2>1. c.by \in 1..c.born /\ c.by \in 1..Len(expectations)
    BY <1>2 DEF WonIn
  <2>2. /\ expectations'[c.by].mock = c.mock
        /\ CheckArgs(c.args, expectations'[c.by].argMatchers)
    BY <1>2, <2>1 DEF WonIn, Growth
  <2>3. \A k \in (c.by + 1)..c.born : RejectedIn(expectations', c, k)
    BY <1>1, <1>2, <2>1 DEF WonIn
  <2> QED BY <2>1, <2>2, <2>3
<1>3. c.status = "unexpected" => \A k \in 1..c.born : RejectedIn(expectations', c, k)
  BY <1>1 DEF WonIn
<1> QED
  BY <1>2, <1>3 DEF WonIn

LEMMA KnowsKept ==
    ASSUME Growth, NEW c, c.mock \in Mocks, c.born \in Nat,
           Len(expectations) \in Nat, c.born <= Len(expectations),
           NEW next \in Nat, Len(lists[c.mock]) \in Nat,
           next <= Len(lists[c.mock]),
           KnowsIn(expectations, lists, c, next)
    PROVE  KnowsIn(expectations', lists', c, next)
<1>1. \A i \in 1..next : lists'[c.mock][i] = lists[c.mock][i]
  BY DEF Growth
<1>2. \A k \in 1..c.born :
          RejectedIn(expectations, c, k) => RejectedIn(expectations', c, k)
  BY DEF Growth, RejectedIn
<1> QED
  BY <1>1, <1>2 DEF KnowsIn

LEMMA CallFacts ==
    ASSUME Shape, NEW i \in 1..Len(calls)
    PROVE  /\ calls[i] \in Calls
           /\ calls[i].mock \in Mocks /\ calls[i].born \in Nat
           /\ calls[i].by \in Nat
           /\ Len(lists[calls[i].mock]) \in Nat
           /\ Len(expectations) \in Nat
<1>1. calls[i] \in Calls
  BY DEF Shape, TypeOK
<1>2. calls[i].mock \in Mocks /\ calls[i].born \in Nat /\ calls[i].by \in Nat
  BY <1>1 DEF Calls
<1>3. lists[calls[i].mock] \in Seq(Nat) /\ Len(expectations) \in Nat
  BY <1>2 DEF Shape, TypeOK
<1> QED
  BY <1>1, <1>2, <1>3

(* A search that stays where it is still knows what it knew. *)
LEMMA SearchKept ==
    ASSUME SearchInv, Growth, CallsKept,
           NEW g \in 1..Len(stack), stack[g].role = "call"
    PROVE  KnowsIn(expectations', lists', calls'[stack[g].call], stack[g].next)
<1> DEFINE n == stack[g].call
           c == calls'[n]
<1>1. /\ n \in 1..Len(calls) /\ stack[g].next \in Nat
      /\ stack[g].next <= Len(lists[calls[n].mock])
  <2>1. FrameOK(g) /\ stack[g] \in Frames
    BY DEF SearchInv, Shape, StackOK, TypeOK
  <2> QED BY <2>1 DEF FrameOK, Frames
<1>2. KnowsIn(expectations, lists, calls[n], stack[g].next)
  BY DEF SearchInv, SearchOK
<1>3. c.mock = calls[n].mock /\ c.args = calls[n].args /\ c.born = calls[n].born
  BY <1>1 DEF CallsKept
<1>4. KnowsIn(expectations, lists, c, stack[g].next)
  BY <1>2, <1>3 DEF KnowsIn, RejectedIn
<1>5. /\ calls[n].mock \in Mocks /\ calls[n].born \in Nat
      /\ calls[n].born <= Len(expectations)
      /\ Len(lists[calls[n].mock]) \in Nat /\ Len(expectations) \in Nat
  BY <1>1, CallFacts DEF SearchInv, SearchOK, BornOK
<1>6. /\ c.mock \in Mocks /\ c.born \in Nat /\ c.born <= Len(expectations)
      /\ Len(lists[c.mock]) \in Nat /\ stack[g].next <= Len(lists[c.mock])
  BY <1>1, <1>3, <1>5
<1> HIDE DEF n, c
<1>7. KnowsIn(expectations', lists', c, stack[g].next)
  BY <1>1, <1>4, <1>5, <1>6, KnowsKept
<1> QED
  BY <1>7 DEF n, c

(* The calls of a step that starts none are as they should be, if those it *)
(* resolves are.                                                           *)
LEMMA ResolvedRightly ==
    ASSUME SearchInv, Shape', Growth, CallsKept,
           \A i \in 1..Len(calls) :
               calls'[i] = calls[i] \/ WonIn(expectations', calls'[i])
    PROVE  BornOK' /\ NewestMatchWins'
<1>1. ASSUME NEW i \in 1..Len(calls)
      PROVE  WonIn(expectations', calls'[i])
  <2>1. CASE calls'[i] = calls[i]
    <3> DEFINE c == calls[i]
    <3>1. WonIn(expectations, c)
      BY NewestMatchWinsByCall DEF SearchInv, Shape
    <3>2. /\ c.born \in Nat /\ c.born <= Len(expectations) /\ c.by \in Nat
          /\ Len(expectations) \in Nat
      BY CallFacts DEF SearchInv, SearchOK, BornOK
    <3> HIDE DEF c
    <3>3. WonIn(expectations', c)
      BY <3>1, <3>2, WonKept
    <3> QED
      BY <2>1, <3>3 DEF c
  <2> QED
    BY <2>1
<1>2. NewestMatchWins'
  <2>1. DOMAIN calls' = 1..Len(calls)
    BY DEF CallsKept
  <2> QED
    BY <1>1, <2>1, Zenon DEF NewestMatchWins, WonIn, Rejected, RejectedIn
<1>3. ASSUME NEW i \in 1..Len(calls)
      PROVE  calls'[i].born <= Len(expectations')
  <2>1. calls'[i].born = calls[i].born /\ calls[i].born <= Len(expectations)
    BY DEF CallsKept, SearchInv, SearchOK, BornOK
  <2>2. calls[i].born \in Nat /\ Len(expectations) \in Nat
    BY CallFacts DEF SearchInv
  <2>3. Len(expectations') \in Nat /\ Len(expectations) <= Len(expectations')
    BY DEF Growth, Shape, TypeOK
  <2> QED BY <2>1, <2>2, <2>3
<1> QED
  BY <1>2, <1>3 DEF BornOK, CallsKept

(* A step that starts no call and moves no search. *)
LEMMA ResolvingStep ==
    ASSUME SearchInv, Shape', Growth, SearchesFrom, CallsKept,
           \A i \in 1..Len(calls) :
               calls'[i] = calls[i] \/ WonIn(expectations', calls'[i])
    PROVE  SearchInv'
<1>1. BornOK' /\ NewestMatchWins'
  BY ResolvedRightly
<1>2. ASSUME NEW f \in 1..Len(stack'), stack'[f].role = "call"
      PROVE  KnowsIn(expectations', lists', calls'[stack'[f].call], stack'[f].next)
  <2>1. PICK g \in 1..Len(stack) : /\ stack[g].role = "call"
                                   /\ stack'[f].call = stack[g].call
                                   /\ stack'[f].next = stack[g].next
    BY <1>2 DEF SearchesFrom
  <2> QED
    BY <2>1, SearchKept
<1> QED
  BY <1>1, <1>2 DEF SearchInv, SearchOK

(* Frames that leave the stack, or change into author's code. *)
LEMMA PopSearches ==
    ASSUME stack \in Seq(Frames), Len(stack) > 0, stack' = Pop(stack)
    PROVE  SearchesFrom
<1>1. /\ Len(stack) \in Nat /\ Len(stack') = Len(stack) - 1
      /\ \A i \in 1..(Len(stack) - 1) : stack'[i] = stack[i]
  <2>1. /\ Len(Pop(stack)) = Len(stack) - 1
        /\ \A i \in 1..(Len(stack) - 1) : Pop(stack)[i] = stack[i]
    BY PopProperties
  <2> QED BY <2>1
<1>2. \A f \in 1..Len(stack') : f \in 1..Len(stack) /\ stack'[f] = stack[f]
  BY <1>1
<1> QED
  BY <1>2, Zenon DEF SearchesFrom

LEMMA PopPopSearches ==
    ASSUME stack \in Seq(Frames), Len(stack) > 1, stack' = Pop(Pop(stack))
    PROVE  SearchesFrom
<1> DEFINE s == Pop(stack)
<1>1. /\ s \in Seq(Frames) /\ Len(stack) \in Nat /\ Len(s) = Len(stack) - 1
      /\ \A i \in 1..(Len(stack) - 1) : s[i] = stack[i]
  BY PopProperties
<1>2. stack' = Pop(s)
  OBVIOUS
<1> HIDE DEF s
<1>3. /\ Len(stack') = Len(s) - 1
      /\ \A i \in 1..(Len(s) - 1) : stack'[i] = s[i]
  <2>1. /\ Len(Pop(s)) = Len(s) - 1
        /\ \A i \in 1..(Len(s) - 1) : Pop(s)[i] = s[i]
    BY <1>1, PopProperties
  <2> QED BY <1>2, <2>1
<1>4. \A f \in 1..Len(stack') : f \in 1..Len(stack) /\ stack'[f] = stack[f]
  BY <1>1, <1>3
<1> QED
  BY <1>4, Zenon DEF SearchesFrom

LEMMA SetTopSearches ==
    ASSUME stack \in Seq(Frames), Len(stack) > 0, NEW f \in Frames,
           f.role # "call", stack' = SetTop(f)
    PROVE  SearchesFrom
<1>1. /\ Len(stack) \in Nat /\ Len(stack') = Len(stack) /\ stack'[Len(stack)] = f
      /\ \A i \in 1..(Len(stack) - 1) : stack'[i] = stack[i]
  BY DEF SetTop
<1>2. ASSUME NEW i \in 1..Len(stack'), stack'[i].role = "call"
      PROVE  i \in 1..Len(stack) /\ stack'[i] = stack[i]
  <2>1. i # Len(stack)
    BY <1>1, <1>2
  <2> QED BY <1>1, <1>2, <2>1
<1> QED
  BY <1>2, Zenon DEF SearchesFrom

LEMMA NoNewFrames == ASSUME UNCHANGED stack PROVE SearchesFrom
  BY Zenon DEF SearchesFrom

LEMMA KeptGrows ==
    ASSUME Shape, ExpectationsKept, UNCHANGED lists
    PROVE  Growth
<1>1. Len(expectations) \in Nat
  BY DEF Shape, TypeOK
<1> QED
  BY <1>1 DEF ExpectationsKept, Growth

(* A step that leaves the calls alone. *)
LEMMA QuietStep ==
    ASSUME SearchInv, Shape', Growth, SearchesFrom, UNCHANGED calls
    PROVE  SearchInv'
<1>1. CallsKept
  BY UnchangedCallsKept DEF SearchInv, Shape
<1> QED
  BY <1>1, ResolvingStep

(* A step that leaves the expectations alone and resolves a call that the  *)
(* search gives up.                                                        *)
LEMMA ResolveStep ==
    ASSUME SearchInv, Shape', Growth, SearchesFrom,
           NEW c \in 1..Len(calls), NEW status \in Statuses, NEW k \in Nat,
           calls' = Resolve(c, status, k), WonIn(expectations', calls'[c])
    PROVE  SearchInv'
<1>1. CallsKept
  BY ResolveKeeps DEF SearchInv, Shape, TypeOK
<1>2. \A i \in 1..Len(calls) : i # c => calls'[i] = calls[i]
  BY DEF Resolve, SearchInv, Shape, TypeOK
<1> QED
  BY <1>1, <1>2, ResolvingStep

LEMMA ResolvedCall ==
    ASSUME Shape, NEW c \in 1..Len(calls), NEW status, NEW k,
           calls' = Resolve(c, status, k)
    PROVE  /\ calls'[c].mock = calls[c].mock /\ calls'[c].args = calls[c].args
           /\ calls'[c].born = calls[c].born
           /\ calls'[c].status = status /\ calls'[c].by = k
<1>1. calls'[c] = [mock |-> calls[c].mock, args |-> calls[c].args,
                   born |-> calls[c].born, status |-> status, by |-> k]
  BY DEF Resolve, Shape, TypeOK
<1> QED
  BY <1>1

LEMMA AbortedWon ==
    ASSUME NEW es, NEW c, c.status = "aborted"
    PROVE  WonIn(es, c)
  BY DEF WonIn

LEMMA ThrowKeepsSearches == ASSUME SearchInv, Shape', Throw PROVE SearchInv'
<1>1. stack \in Seq(Frames) /\ Len(stack) > 0 /\ Shape
  BY DEF SearchInv, Shape, TypeOK, StackOK, Throw, UserRunning
<1>2. Growth
  BY <1>1, KeptGrows, UnchangedExpectationsKept
     DEF Throw, Raise, RaiseFromTest, RaiseFromAction, RaiseFromPredicate, Shape
<1>3. CASE RaiseFromTest
  <2>1. SearchesFrom
    BY <1>3 DEF RaiseFromTest, SearchesFrom
  <2> QED
    BY <1>2, <1>3, <2>1, QuietStep DEF RaiseFromTest
<1>4. CASE RaiseFromAction
  BY <1>1, <1>2, <1>4, PopSearches, QuietStep DEF RaiseFromAction
<1>5. CASE RaiseFromPredicate
  <2> DEFINE c == stack[Len(stack) - 1].call
  <2>1. Len(stack) > 1 /\ c \in 1..Len(calls)
    <3>1. FrameOK(Len(stack)) /\ stack[Len(stack)].role = "predicate"
      BY <1>1, <1>5 DEF RaiseFromPredicate, Top, Shape, StackOK
    <3>2. Len(stack) # 1 /\ stack[Len(stack) - 1].role = "call"
      BY <3>1 DEF FrameOK
    <3>3. Len(stack) - 1 \in 1..Len(stack)
      <4>1. \A n \in Nat : n > 0 /\ n # 1 => n - 1 \in 1..n
        OBVIOUS
      <4>2. Len(stack) \in Nat
        BY <1>1
      <4> QED BY <1>1, <3>2, <4>1, <4>2, Zenon
    <3>4. FrameOK(Len(stack) - 1)
      BY <1>1, <3>3 DEF Shape, StackOK
    <3> QED
      BY <1>1, <3>2, <3>3, <3>4 DEF FrameOK
  <2>2. SearchesFrom /\ calls' = Resolve(c, "aborted", 0)
    BY <1>1, <1>5, <2>1, PopPopSearches DEF RaiseFromPredicate
  <2>3. WonIn(expectations', calls'[c])
    <3>1. calls'[c].status = "aborted"
      BY <1>1, <2>1, <2>2, ResolvedCall
    <3> QED BY <3>1, AbortedWon
  <2>4. "aborted" \in Statuses /\ 0 \in Nat
    BY DEF Statuses
  <2> HIDE DEF c
  <2> QED
    BY <1>2, <2>1, <2>2, <2>3, <2>4, ResolveStep
<1> QED
  BY <1>3, <1>4, <1>5 DEF Throw, Raise

LEMMA ReturnKeepsSearches == ASSUME SearchInv, Shape', Return PROVE SearchInv'
<1>1. stack \in Seq(Frames) /\ Len(stack) > 0 /\ Shape
  BY DEF SearchInv, Shape, TypeOK, StackOK, Return, UserRunning
<1>2. Growth /\ SearchesFrom
  BY <1>1, KeptGrows, UnchangedExpectationsKept, PopSearches DEF Return, Shape
<1> QED
  BY <1>2, QuietStep DEF Return

LEMMA ExpectCallKeepsSearches ==
    ASSUME SearchInv, Shape', NEW m \in Mocks, NEW ms \in MatcherLists,
           ExpectCall(m, ms)
    PROVE  SearchInv'
<1> DEFINE e == NewExpectation(m, ms)
           k == Len(expectations) + 1
<1>1. /\ expectations' = Append(expectations, e)
      /\ lists' = [lists EXCEPT ![m] = Append(lists[m], k)]
      /\ UNCHANGED << stack, calls >>
  BY DEF ExpectCall
<1>2. e \in ExpectationOf(Mocks, MatcherLists)
  BY DEF NewExpectation, ExpectationOf
<1>3. /\ expectations \in Seq(ExpectationOf(Mocks, MatcherLists))
      /\ lists \in [Mocks -> Seq(Nat)] /\ lists[m] \in Seq(Nat) /\ k \in Nat
  BY DEF SearchInv, Shape, TypeOK
<1> HIDE DEF e, k
<1>4. /\ Len(expectations) <= Len(expectations')
      /\ \A j \in 1..Len(expectations) : expectations'[j] = expectations[j]
  BY <1>1, <1>2, <1>3, AppendProperties
<1>5. ASSUME NEW n \in Mocks, NEW i \in 1..Len(lists[n])
      PROVE  lists'[n][i] = lists[n][i]
  <2>1. CASE n = m
    <3>1. lists'[n] = Append(lists[m], k)
      BY <1>1, <1>3, <2>1
    <3> QED BY <1>3, <2>1, <3>1, AppendProperties
  <2>2. CASE n # m
    BY <1>1, <1>3, <2>2
  <2> QED BY <2>1, <2>2
<1>6. Growth
  BY <1>4, <1>5 DEF Growth
<1>7. SearchesFrom
  BY <1>1, NoNewFrames
<1> QED
  BY <1>1, <1>6, <1>7, QuietStep

LEMMA CallMockKeepsSearches ==
    ASSUME SearchInv, Shape', NEW m \in Mocks, NEW args \in ArgLists,
           CallMock(m, args)
    PROVE  SearchInv'
<1> DEFINE c == [mock |-> m, args |-> args, born |-> Len(expectations),
                 status |-> "searching", by |-> 0]
           n == Len(lists[m])
           f == Frame("call", Len(calls) + 1, n)
<1>1. /\ UNCHANGED << expectations, lists >>
      /\ calls' = Append(calls, c) /\ stack' = Append(stack, f)
  BY DEF CallMock
<1>2. /\ c \in Calls /\ f \in Frames /\ Len(expectations) \in Nat
      /\ Len(calls) \in Nat /\ Len(stack) \in Nat
  BY DEF SearchInv, Shape, TypeOK, Calls, Statuses, Frame, Frames
<1>3. /\ c.mock = m /\ c.args = args /\ c.born = Len(expectations)
      /\ c.status = "searching" /\ f.call = Len(calls) + 1 /\ f.next = n
  BY DEF Frame
<1> HIDE DEF c, f
<1>4. /\ Len(calls') = Len(calls) + 1 /\ calls'[Len(calls) + 1] = c
      /\ \A i \in 1..Len(calls) : calls'[i] = calls[i]
  BY <1>1, <1>2, AppendProperties DEF SearchInv, Shape, TypeOK
<1>5. /\ Len(stack') = Len(stack) + 1 /\ stack'[Len(stack) + 1] = f
      /\ \A i \in 1..Len(stack) : stack'[i] = stack[i]
  BY <1>1, <1>2, AppendProperties DEF SearchInv, Shape, TypeOK
<1>6. \A i \in 1..Len(calls') : i \in 1..Len(calls) \/ i = Len(calls) + 1
  BY <1>2, <1>4
<1>7. BornOK'
  BY <1>1, <1>2, <1>3, <1>4, <1>6 DEF BornOK, SearchInv, SearchOK
<1>8. NewestMatchWins'
  <2>1. \A i \in 1..Len(calls) : WonIn(expectations, calls[i])
    BY NewestMatchWinsByCall DEF SearchInv, Shape
  <2>2. WonIn(expectations, c)
    BY <1>3 DEF WonIn
  <2>3. \A i \in 1..Len(calls') : WonIn(expectations', calls'[i])
    BY <1>1, <1>4, <1>6, <2>1, <2>2
  <2>4. DOMAIN calls' = 1..Len(calls')
    BY DEF Shape, TypeOK
  <2> QED
    BY <2>3, <2>4, Zenon DEF NewestMatchWins, WonIn, Rejected, RejectedIn
<1>9. KnowsIn(expectations, lists, c, n)
  <2>1. \A i \in 1..n : lists[m][i] <= Len(expectations)
    BY DEF SearchInv, Shape, ListsOK
  <2>2. ASSUME NEW k \in 1..Len(expectations)
        PROVE  \/ RejectedIn(expectations, c, k)
               \/ \E i \in 1..n : lists[m][i] = k
    <3>1. CASE expectations[k].mock = m
      BY <3>1 DEF SearchInv, Shape, ListsOK
    <3>2. CASE expectations[k].mock # m
      BY <1>3, <3>2 DEF RejectedIn
    <3> QED BY <3>1, <3>2
  <2> QED
    BY <1>3, <2>1, <2>2 DEF KnowsIn
<1>10. ASSUME NEW g \in 1..Len(stack'), stack'[g].role = "call"
       PROVE  KnowsIn(expectations', lists', calls'[stack'[g].call], stack'[g].next)
  <2>1. CASE g = Len(stack) + 1
    BY <1>1, <1>3, <1>4, <1>5, <1>9, <2>1
  <2>2. CASE g \in 1..Len(stack)
    <3>1. stack'[g] = stack[g] /\ FrameOK(g)
      BY <1>5, <2>2 DEF SearchInv, Shape, StackOK
    <3>2. calls'[stack[g].call] = calls[stack[g].call]
      BY <1>4, <1>10, <3>1 DEF FrameOK
    <3>3. KnowsIn(expectations, lists, calls[stack[g].call], stack[g].next)
      BY <1>10, <2>2, <3>1 DEF SearchInv, SearchOK
    <3> QED
      BY <1>1, <3>1, <3>2, <3>3
  <2> QED
    BY <1>2, <1>5, <2>1, <2>2
<1> QED
  BY <1>7, <1>8, <1>10 DEF SearchInv, SearchOK

LEMMA AskKeepsSearches == ASSUME SearchInv, Shape', AskPredicate PROVE SearchInv'
<1> DEFINE n == Len(stack)
           t == [Top EXCEPT !.asked = TRUE]
           p == Frame("predicate", 0, 0)
<1>1. /\ n \in Nat /\ n > 1 /\ stack \in Seq(Frames) /\ Top \in Frames
      /\ Top = stack[n] /\ Shape
  BY SearchFacts DEF SearchInv, Shape, TypeOK, AskPredicate, Searching, Top
<1>2. stack' = Append(SetTop(t), p) /\ UNCHANGED << expectations, lists, calls >>
  BY DEF AskPredicate
<1>3. /\ t \in Frames /\ t.role = Top.role /\ t.call = Top.call
      /\ t.next = Top.next /\ p \in Frames /\ p.role = "predicate"
  <2> HIDE DEF n
  <2> QED BY <1>1 DEF Frames, Frame, UserRoles
<1> HIDE DEF t, p
<1>4. /\ SetTop(t) \in Seq(Frames) /\ Len(SetTop(t)) = n /\ SetTop(t)[n] = t
      /\ \A i \in 1..(n - 1) : SetTop(t)[i] = stack[i]
  BY <1>1, <1>3 DEF SetTop
<1>5. /\ Len(stack') = n + 1 /\ stack'[n + 1] = p /\ stack'[n] = t
      /\ \A i \in 1..(n - 1) : stack'[i] = stack[i]
  <2>1. /\ Len(Append(SetTop(t), p)) = Len(SetTop(t)) + 1
        /\ \A i \in 1..Len(SetTop(t)) : Append(SetTop(t), p)[i] = SetTop(t)[i]
        /\ Append(SetTop(t), p)[Len(SetTop(t)) + 1] = p
    BY <1>3, <1>4, AppendProperties
  <2> QED BY <1>1, <1>2, <1>4, <2>1
<1>6. ASSUME NEW f \in 1..Len(stack'), stack'[f].role = "call"
      PROVE  \E g \in 1..Len(stack) : /\ stack[g].role = "call"
                                       /\ stack'[f].call = stack[g].call
                                       /\ stack'[f].next = stack[g].next
  <2>1. f # n + 1
    BY <1>3, <1>5, <1>6
  <2>2. f \in 1..Len(stack)
    BY <1>1, <1>5, <2>1
  <2>3. /\ stack[f].role = stack'[f].role /\ stack[f].call = stack'[f].call
        /\ stack[f].next = stack'[f].next
    <3>1. CASE f = n
      BY <1>1, <1>3, <1>5, <3>1
    <3>2. CASE f # n
      BY <1>1, <1>5, <2>2, <3>2
    <3> QED BY <3>1, <3>2
  <2> QED
    BY <1>6, <2>2, <2>3
<1>7. SearchesFrom
  BY <1>6 DEF SearchesFrom
<1>8. Growth
  BY <1>1, <1>2, KeptGrows, UnchangedExpectationsKept DEF Shape
<1> QED
  BY <1>2, <1>7, <1>8, QuietStep

LEMMA GiveUpKeepsSearches ==
    ASSUME SearchInv, Shape', PredicateError \/ Unexpected \/ UnexpectedThrows
    PROVE  SearchInv'
<1> DEFINE c == Top.call
<1>1. /\ Shape /\ stack \in Seq(Frames) /\ Len(stack) > 1 /\ c \in 1..Len(calls)
      /\ Top.role = "call" /\ Top = stack[Len(stack)]
  BY SearchFacts DEF PredicateError, Answered, Unexpected, UnexpectedThrows,
                     Searching, Top, SearchInv, Shape, TypeOK
<1>2. stack' = Pop(stack) /\ UNCHANGED << expectations, lists >>
  BY DEF PredicateError, Unexpected, UnexpectedThrows
<1>3. Growth /\ SearchesFrom
  BY <1>1, <1>2, KeptGrows, UnchangedExpectationsKept, PopSearches DEF Shape
<1>4. CASE Unexpected
  <2>1. /\ calls' = Resolve(c, "unexpected", 0) /\ Top.next = 0
        /\ "unexpected" \in Statuses /\ 0 \in Nat
    BY <1>4 DEF Unexpected, Statuses
  <2>2. KnowsIn(expectations, lists, calls[c], 0)
    BY <1>1, <2>1 DEF SearchInv, SearchOK
  <2>3. \A k \in 1..calls[c].born : RejectedIn(expectations, calls[c], k)
    BY <2>2 DEF KnowsIn
  <2>4. /\ calls'[c].mock = calls[c].mock /\ calls'[c].args = calls[c].args
        /\ calls'[c].born = calls[c].born /\ calls'[c].status = "unexpected"
    BY <1>1, <2>1, ResolvedCall
  <2>5. WonIn(expectations', calls'[c])
    BY <1>2, <2>3, <2>4 DEF WonIn, RejectedIn
  <2> HIDE DEF c
  <2> QED
    BY <1>1, <1>3, <2>1, <2>5, ResolveStep
<1>5. CASE PredicateError \/ UnexpectedThrows
  <2>1. /\ calls' = Resolve(c, "aborted", 0)
        /\ "aborted" \in Statuses /\ 0 \in Nat
    BY <1>5 DEF PredicateError, UnexpectedThrows, Statuses
  <2>2. calls'[c].status = "aborted"
    BY <1>1, <2>1, ResolvedCall
  <2>3. WonIn(expectations', calls'[c])
    BY <2>2, AbortedWon
  <2> HIDE DEF c
  <2> QED
    BY <1>1, <1>3, <2>1, <2>3, ResolveStep
<1> QED
  BY <1>4, <1>5

LEMMA MatchKeepsSearches ==
    ASSUME SearchInv, Shape', MatchOnce \/ MatchFallback \/ MatchEmpty
    PROVE  SearchInv'
<1> DEFINE c == Top.call
           k == Candidate
<1>1. /\ Shape /\ stack \in Seq(Frames) /\ Len(stack) > 1 /\ c \in 1..Len(calls)
      /\ Top.role = "call" /\ Top = stack[Len(stack)] /\ Top.next > 0
      /\ k \in 1..Len(expectations) /\ Call = calls[c]
      /\ expectations[k].mock = calls[c].mock /\ Top.next \in Nat
  BY SearchFacts DEF MatchOnce, MatchFallback, MatchEmpty, Answered, Searching,
                     Top, Call, SearchInv, Shape, TypeOK, Frames
<1>2. /\ ExpectationsKept /\ UNCHANGED lists
      /\ calls' = Resolve(c, "credited", k)
      /\ stack' = SetTop(Frame("action", 0, 0)) \/ stack' = Pop(stack)
  BY <1>1, MatchesKeep
<1>3. CheckArgs(calls[c].args, expectations[k].argMatchers)
  BY <1>1 DEF MatchOnce, MatchFallback, MatchEmpty, Match
<1>4. Growth
  BY <1>1, <1>2, KeptGrows
<1>5. SearchesFrom
  <2>1. Frame("action", 0, 0) \in Frames /\ Frame("action", 0, 0).role = "action"
    BY DEF Frame, Frames, UserRoles
  <2>2. Frame("action", 0, 0).role # "call"
    BY <2>1
  <2> QED
    BY <1>1, <1>2, <2>1, <2>2, SetTopSearches, PopSearches
<1>6. /\ calls'[c].mock = calls[c].mock /\ calls'[c].args = calls[c].args
      /\ calls'[c].born = calls[c].born /\ calls'[c].status = "credited"
      /\ calls'[c].by = k
  BY <1>1, <1>2, ResolvedCall
<1>7. KnowsIn(expectations, lists, calls[c], Top.next)
  BY <1>1 DEF SearchInv, SearchOK
<1>8. /\ calls[c].mock \in Mocks /\ calls[c].born \in Nat
      /\ calls[c].born <= Len(expectations) /\ Len(expectations) \in Nat
  BY <1>1, CallFacts DEF SearchInv, SearchOK, BornOK
<1>9. /\ Top.next \in 1..Len(lists[calls[c].mock])
      /\ k = lists[calls[c].mock][Top.next]
  <2>1. FrameOK(Len(stack))
    BY <1>1 DEF Shape, StackOK
  <2>2. Top.next <= Len(lists[calls[c].mock])
    BY <1>1, <2>1 DEF FrameOK
  <2>3. Len(lists[calls[c].mock]) \in Nat
    BY <1>1, CallFacts
  <2>4. \A x, y \in Nat : x > 0 /\ x <= y => x \in 1..y
    OBVIOUS
  <2>5. Top.next \in 1..Len(lists[calls[c].mock])
    BY <1>1, <2>2, <2>3, <2>4, Zenon
  <2>6. k = lists[calls[c].mock][Top.next]
    BY <1>1, Zenon DEF Candidate
  <2> QED
    BY <2>5, <2>6, Zenon
<1>10. k \in 1..calls[c].born
  <2>1. Top.next \in 1..Top.next
    <3>1. \A n \in Nat : n > 0 => n \in 1..n
      OBVIOUS
    <3> QED BY <1>1, <3>1, Zenon
  <2>2. \A i \in 1..Top.next : lists[calls[c].mock][i] <= calls[c].born
    BY <1>7 DEF KnowsIn
  <2>3. k <= calls[c].born
    BY <1>9, <2>1, <2>2, Zenon
  <2>4. \A n, b \in Nat : \A i \in 1..n : i <= b => i \in 1..b
    OBVIOUS
  <2> QED
    BY <1>1, <1>8, <2>3, <2>4, Zenon
<1>11. ASSUME NEW j \in (k + 1)..calls[c].born
       PROVE  RejectedIn(expectations, calls[c], j)
  <2>1. j \in 1..calls[c].born /\ j > k
    BY <1>1, <1>8, <1>11
  <2>2. ASSUME NEW i \in 1..Top.next, lists[calls[c].mock][i] = j
        PROVE  FALSE
    <3>1. CASE i = Top.next
      BY <1>9, <2>1, <2>2, <3>1
    <3>2. CASE i \in 1..(Top.next - 1)
      <4>1. lists[calls[c].mock][i] < lists[calls[c].mock][Top.next]
        BY <1>1, <1>8, <1>9, <3>2 DEF Shape, ListsOK
      <4> QED BY <1>9, <1>10, <2>1, <2>2, <4>1
    <3> QED BY <1>1, <2>2, <3>1, <3>2
  <2> QED
    BY <1>7, <2>1, <2>2 DEF KnowsIn
<1>12. WonIn(expectations', calls'[c])
  <2>1. /\ expectations'[k].mock = expectations[k].mock
        /\ expectations'[k].argMatchers = expectations[k].argMatchers
    BY <1>1 , <1>2 DEF ExpectationsKept
  <2>2. \A j \in (k + 1)..calls[c].born : RejectedIn(expectations', calls'[c], j)
    <3>1. ASSUME NEW j \in (k + 1)..calls[c].born
          PROVE  RejectedIn(expectations', calls'[c], j)
      <4>1. j \in 1..Len(expectations)
        BY <1>1, <1>8, <3>1
      <4> QED
        BY <1>2, <1>6, <1>11, <3>1, <4>1 DEF RejectedIn, ExpectationsKept
    <3> QED BY <3>1
  <2> QED
    BY <1>1, <1>3, <1>6, <1>10, <2>1, <2>2 DEF WonIn
<1>13. "credited" \in Statuses /\ k \in Nat
  BY <1>1 DEF Statuses
<1> HIDE DEF c, k
<1> QED
  BY <1>1, <1>2, <1>4, <1>5, <1>12, <1>13, ResolveStep

LEMMA SetTopProperties ==
    ASSUME stack \in Seq(Frames), Len(stack) > 0, NEW f
    PROVE  /\ Len(SetTop(f)) = Len(stack) /\ SetTop(f)[Len(stack)] = f
           /\ \A i \in 1..(Len(stack) - 1) : SetTop(f)[i] = stack[i]
<1>1. /\ Len(stack) \in Nat /\ DOMAIN stack = 1..Len(stack)
      /\ SetTop(f) = [stack EXCEPT ![Len(stack)] = f]
  BY DEF SetTop
<1>2. \A i \in 1..Len(stack) :
          SetTop(f)[i] = IF i = Len(stack) THEN f ELSE stack[i]
  BY <1>1
<1>3. Len(SetTop(f)) = Len(stack)
  BY <1>1
<1>4. \A x \in Nat : /\ x > 0 => x \in 1..x
                      /\ \A i \in 1..(x - 1) : i \in 1..x /\ i # x
  OBVIOUS
<1>5. SetTop(f)[Len(stack)] = f
  BY <1>1, <1>2, <1>4, Zenon
<1>6. \A i \in 1..(Len(stack) - 1) : SetTop(f)[i] = stack[i]
  BY <1>1, <1>2, <1>4, Zenon
<1> QED
  BY <1>3, <1>5, <1>6

LEMMA NoMatchKeepsSearches == ASSUME SearchInv, Shape', NoMatch PROVE SearchInv'
<1> DEFINE n == Len(stack)
           c == Top.call
           next == Top.next
           f == Frame("call", c, Older(next))
<1>1. /\ Shape /\ stack \in Seq(Frames) /\ n \in Nat /\ n > 1
      /\ c \in 1..Len(calls) /\ Top.role = "call" /\ Top = stack[n]
      /\ next \in Nat /\ next > 0 /\ Call = calls[c]
      /\ Candidate \in 1..Len(expectations)
      /\ expectations[Candidate].mock = calls[c].mock
      /\ Candidate = lists[calls[c].mock][next]
  BY SearchFacts DEF NoMatch, Answered, Searching, Top, Call, Candidate,
                     SearchInv, Shape, TypeOK, Frames
<1>2. /\ UNCHANGED << expectations, lists, calls >> /\ stack' = SetTop(f)
      /\ ~CheckArgs(calls[c].args, expectations[Candidate].argMatchers)
  BY <1>1 DEF NoMatch
<1>3. f.call = c /\ f.next = next - 1
  BY DEF Frame, Older
<1>4. /\ Len(stack') = n /\ stack'[n] = f
      /\ \A i \in 1..(n - 1) : stack'[i] = stack[i]
  <2>1. \A x \in Nat : x > 1 => x > 0
    OBVIOUS
  <2>2. Len(stack) > 0
    BY <1>1, <2>1, Zenon
  <2>3. /\ Len(SetTop(f)) = Len(stack) /\ SetTop(f)[Len(stack)] = f
        /\ \A i \in 1..(Len(stack) - 1) : SetTop(f)[i] = stack[i]
    BY <1>1, <2>2, SetTopProperties, Zenon
  <2> QED
    BY <1>2, <2>3, Zenon
<1>5. KnowsIn(expectations, lists, calls[c], next)
  <2>1. n \in 1..n
    <3>1. \A x \in Nat : x > 1 => x \in 1..x
      OBVIOUS
    <3> QED BY <1>1, <3>1, Zenon
  <2> QED
    BY <1>1, <2>1, Zenon DEF SearchInv, SearchOK
<1>6. KnowsIn(expectations, lists, calls[c], next - 1)
  <2>1. RejectedIn(expectations, calls[c], Candidate)
    BY <1>2 DEF RejectedIn
  <2>2. \A i \in 1..next : i \in 1..(next - 1) \/ i = next
    <3>1. \A x \in Nat : \A i \in 1..x : i \in 1..(x - 1) \/ i = x
      OBVIOUS
    <3> QED BY <1>1, <3>1, Zenon
  <2>3. 1..(next - 1) \subseteq 1..next
    <3>1. \A x \in Nat : 1..(x - 1) \subseteq 1..x
      OBVIOUS
    <3> QED BY <1>1, <3>1, Zenon
  <2>4. ASSUME NEW k \in 1..calls[c].born
        PROVE  \/ RejectedIn(expectations, calls[c], k)
               \/ \E i \in 1..(next - 1) : lists[calls[c].mock][i] = k
    <3> HIDE DEF c, next
    <3> QED BY <1>1, <1>5, <2>1, <2>2, Zenon DEF KnowsIn
  <2> HIDE DEF c, next
  <2> QED
    BY <1>5, <2>3, <2>4, Zenon DEF KnowsIn
<1>7. Growth
  BY <1>1, <1>2, KeptGrows, UnchangedExpectationsKept DEF Shape
<1>8. CallsKept
  BY <1>1, <1>2, UnchangedCallsKept DEF Shape
<1>9. BornOK' /\ NewestMatchWins'
  BY <1>2, <1>7, <1>8, ResolvedRightly
<1>10. ASSUME NEW g \in 1..Len(stack'), stack'[g].role = "call"
       PROVE  KnowsIn(expectations', lists', calls'[stack'[g].call], stack'[g].next)
  <2>1. CASE g = n
    <3>1. stack'[g].call = c /\ stack'[g].next = next - 1
      BY <1>3, <1>4, <2>1
    <3> QED BY <1>2, <1>6, <3>1
  <2>2. CASE g # n
    <3>1. \A x \in Nat : \A y \in 1..x : y # x => y \in 1..(x - 1)
      OBVIOUS
    <3>2. g \in 1..n
      BY <1>4
    <3>3. g \in 1..Len(stack) /\ stack'[g] = stack[g]
      BY <1>1, <1>4, <2>2, <3>1, <3>2, Zenon
    <3> QED
      BY <1>7, <1>8, <1>10, <3>3, SearchKept
  <2> QED
    BY <2>1, <2>2
<1> QED
  BY <1>9, <1>10 DEF SearchInv, SearchOK

LEMMA ConfigurationKeepsSearches ==
    ASSUME SearchInv, Shape', ConfigurationStep PROVE SearchInv'
<1>1. Growth
  BY KeptGrows DEF SearchInv, ConfigurationStep
<1>2. SearchesFrom /\ UNCHANGED calls
  BY NoNewFrames DEF ConfigurationStep
<1> QED
  BY <1>1, <1>2, QuietStep

(* A step that touches neither expectations, searches nor calls. *)
LEMMA UnrelatedKeepsSearches ==
    ASSUME SearchInv, Shape', UNCHANGED << expectations, lists, stack, calls >>
    PROVE  SearchInv'
<1>1. Growth
  BY KeptGrows, UnchangedExpectationsKept DEF SearchInv, Shape
<1>2. SearchesFrom
  BY NoNewFrames
<1> QED
  BY <1>1, <1>2, QuietStep

LEMMA SearchInit == Init => SearchInv
<1> SUFFICES ASSUME Init PROVE SearchInv
  OBVIOUS
<1>1. Shape
  BY ShapeInit
<1>2. /\ calls = << >> /\ Len(stack) = 1
      /\ stack[1] = Frame("test", 0, 0)
  BY DEF Init
<1>3. SearchOK
  <2>1. stack[1].role # "call"
    BY <1>2 DEF Frame
  <2>2. BornOK
    BY <1>2 DEF BornOK
  <2> QED
    BY <1>2, <2>1, <2>2 DEF SearchOK
<1>4. NewestMatchWins
  BY <1>2 DEF NewestMatchWins
<1> QED
  BY <1>1, <1>3, <1>4 DEF SearchInv

LEMMA SearchInductive == SearchInv /\ [Next]_vars => SearchInv'
<1> SUFFICES ASSUME SearchInv, [Next]_vars PROVE SearchInv'
  OBVIOUS
<1>1. Shape'
  BY ShapeInductive DEF SearchInv
<1>2. CASE AuthorStep
  <2>1. CASE Throw
    BY <1>1, <2>1, ThrowKeepsSearches
  <2>2. CASE Return
    BY <1>1, <2>2, ReturnKeepsSearches
  <2>3. CASE \E m \in Mocks, ms \in MatcherLists : ExpectCall(m, ms)
    BY <1>1, <2>3, ExpectCallKeepsSearches
  <2>4. CASE \E k \in DOMAIN expectations :
                (\E n \in 0..MaxTimes : Times(k, n)) \/ WillOnce(k) \/ WillRepeatedly(k)
    <3>1. DOMAIN expectations = 1..Len(expectations)
      BY DEF SearchInv, Shape, TypeOK
    <3>2. Throw \/ ConfigurationStep
      BY <2>4, <3>1, WrapperEffect DEF SearchInv
    <3> QED BY <1>1, <3>2, ThrowKeepsSearches, ConfigurationKeepsSearches
  <2>5. CASE \E m \in Mocks, args \in ArgLists : CallMock(m, args)
    BY <1>1, <2>5, CallMockKeepsSearches
  <2> QED
    BY <1>2, <2>1, <2>2, <2>3, <2>4, <2>5 DEF AuthorStep
<1>3. CASE SearchStep
  BY <1>1, <1>3, AskKeepsSearches, GiveUpKeepsSearches, NoMatchKeepsSearches,
     MatchKeepsSearches DEF SearchStep
<1>4. CASE Verify
  BY <1>1, <1>4, UnrelatedKeepsSearches DEF Verify
<1>5. CASE Terminated \/ UNCHANGED vars
  <2>1. UNCHANGED vars
    BY <1>5 DEF Terminated
  <2> QED
    BY <1>1, <2>1, UnrelatedKeepsSearches DEF vars
<1> QED
  BY <1>2, <1>3, <1>4, <1>5 DEF Next

(* Whatever predicates and actions do while a search is under way, the     *)
(* backwards loop of mock_function.js credits a call to the newest         *)
(* expectation that existed when the call was made and takes its           *)
(* arguments, and reports it as unexpected only if there is none.          *)
THEOREM NewestMatchWinsCorrect == Spec => []NewestMatchWins
<1>1. SearchInv => NewestMatchWins
  BY DEF SearchInv
<1> QED
  BY <1>1, SearchInit, SearchInductive, PTL DEF Spec

(* What checkArgsAgainstExpectation accepts has no surplus argument, and   *)
(* leaves out only those that the matchers can do without.                 *)
LEMMA CheckArgsArity ==
    ASSUME NEW args \in ArgLists, NEW ms \in MatcherLists, CheckArgs(args, ms)
    PROVE  /\ Len(args) <= Len(ms)
           /\ \A j \in (Len(args) + 1)..Len(ms) : ms[j].understandsMissing
<1>1. Len(args) \in Nat /\ Len(ms) \in Nat
  BY ListsAssumption
<1>2. ASSUME NEW j \in (Len(args) + 1)..Len(ms)
      PROVE  ms[j].understandsMissing
  <2>1. j \in 1..Len(ms) /\ ~(j <= Len(args))
    BY <1>1, <1>2
  <2>2. ArgMatches(args, ms, j)
    BY <2>1 DEF CheckArgs
  <2> QED
    BY <2>1, <2>2 DEF ArgMatches, SentinelPassed, Consulted, ArgAt
<1> QED
  BY <1>2 DEF CheckArgs

(* No call is credited to an expectation that has too few matchers for its *)
(* arguments, or a matcher that cannot do without the argument it lacks.   *)
THEOREM ArityRespectedCorrect == Spec => []ArityRespected
<1>1. ASSUME SearchInv PROVE ArityRespected
  <2>1. DOMAIN calls = 1..Len(calls)
    BY <1>1 DEF SearchInv, Shape, TypeOK
  <2>2. ASSUME NEW i \in 1..Len(calls), calls[i].status = "credited"
        PROVE  LET ms == expectations[calls[i].by].argMatchers
                   n  == Len(calls[i].args)
               IN  /\ n <= Len(ms)
                   /\ \A j \in (n + 1)..Len(ms) : ms[j].understandsMissing
    <3>1. WonIn(expectations, calls[i])
      BY <1>1, NewestMatchWinsByCall DEF SearchInv, Shape
    <3>2. /\ calls[i].by \in 1..Len(expectations) /\ calls[i].args \in ArgLists
          /\ CheckArgs(calls[i].args, expectations[calls[i].by].argMatchers)
      <4>1. /\ calls[i].born \in Nat /\ calls[i].born <= Len(expectations)
            /\ Len(expectations) \in Nat /\ calls[i] \in Calls
        BY <1>1, CallFacts DEF SearchInv, SearchOK, BornOK
      <4>2. calls[i].args \in ArgLists
        BY <4>1 DEF Calls
      <4> QED
        BY <2>2, <3>1, <4>1, <4>2 DEF WonIn
    <3>3. expectations[calls[i].by].argMatchers \in MatcherLists
      <4>1. expectations[calls[i].by] \in ExpectationOf(Mocks, MatcherLists)
        BY <1>1, <3>2 DEF SearchInv, Shape, TypeOK
      <4> QED
        BY <4>1 DEF ExpectationOf
    <3> QED
      BY <3>2, <3>3, CheckArgsArity
  <2> QED
    BY <2>1, <2>2, Zenon DEF ArityRespected
<1> QED
  BY <1>1, SearchInit, SearchInductive, PTL DEF Spec

-----------------------------------------------------------------------------
(* That mock functions take their actions in order.  What consumeAction_   *)
(* goes by is the flag `expired' of each action; it agrees with what has   *)
(* been taken, as calls nest.                                              *)

Used(k, s) == UsedBefore(Len(credits) + 1, k, s)
Expired(e, s) == e.oneTimeActions[s] = TRUE

CreditOK(c) ==
    /\ c.by \in 1..Len(expectations)
    /\ c.took = "once" => c.slot \in 1..Len(expectations[c.by].oneTimeActions)
    /\ c.took = "fallback" =>
          /\ expectations[c.by].fallbackAction = TRUE
          /\ c.slots = Len(expectations[c.by].oneTimeActions)

(* An action is marked as expired if and only if it was taken. *)
FlagsOK ==
    \A k \in 1..Len(expectations) :
        \A s \in 1..Len(expectations[k].oneTimeActions) :
            Expired(expectations[k], s) <=> Used(k, s)

InOrder(j) ==
    LET c == credits[j] IN
    /\ c.took = "once" =>
          /\ \A s \in 1..(c.slot - 1) : UsedBefore(j, c.by, s)
          /\ ~UsedBefore(j, c.by, c.slot)
    /\ c.took # "once" => \A s \in 1..c.slots : UsedBefore(j, c.by, s)

Order ==
    /\ FlagsOK
    /\ \A j \in 1..Len(credits) : CreditOK(credits[j]) /\ InOrder(j)

LEMMA OrderGivesActionOrder == ASSUME Shape, Order PROVE ActionOrder
<1>1. DOMAIN credits = 1..Len(credits)
  BY DEF Shape, TypeOK
<1>2. ASSUME NEW j \in 1..Len(credits)
      PROVE  LET c == credits[j] IN
             /\ c.took = "once" =>
                   /\ \A s \in 1..(c.slot - 1) : UsedBefore(j, c.by, s)
                   /\ ~UsedBefore(j, c.by, c.slot)
             /\ c.took # "once" => \A s \in 1..c.slots : UsedBefore(j, c.by, s)
             /\ c.took = "fallback" =>
                   c.slots = Len(expectations[c.by].oneTimeActions)
  BY <1>2 DEF Order, InOrder, CreditOK
<1> QED
  BY <1>1, <1>2, Zenon DEF ActionOrder

-----------------------------------------------------------------------------
(* Steps that take no action.                                              *)

LEMMA ExpectationFacts ==
    ASSUME Shape, NEW k \in 1..Len(expectations)
    PROVE  /\ expectations[k] \in ExpectationOf(Mocks, MatcherLists)
           /\ expectations[k].oneTimeActions \in Seq(BOOLEAN)
           /\ Len(expectations[k].oneTimeActions) \in Nat
<1>1. expectations[k] \in ExpectationOf(Mocks, MatcherLists)
  BY DEF Shape, TypeOK
<1>2. expectations[k].oneTimeActions \in Seq(BOOLEAN)
  BY <1>1 DEF ExpectationOf
<1> QED
  BY <1>1, <1>2

(* What a configuration may do to an expectation: its actions stay, at     *)
(* most a further one, not expired, comes behind them; none does once it   *)
(* has its fallback, which stays.                                          *)
Extended(e, d) ==
    /\ Len(e.oneTimeActions) <= Len(d.oneTimeActions)
    /\ Len(d.oneTimeActions) \in Nat
    /\ \A s \in 1..Len(e.oneTimeActions) : d.oneTimeActions[s] = e.oneTimeActions[s]
    /\ \A s \in (Len(e.oneTimeActions) + 1)..Len(d.oneTimeActions) : ~Expired(d, s)
    /\ e.fallbackAction = TRUE =>
          /\ d.fallbackAction = TRUE
          /\ Len(d.oneTimeActions) = Len(e.oneTimeActions)

LEMMA ExtendedKeepsOrder ==
    ASSUME Shape, Order, UNCHANGED credits,
           Len(expectations') \in Nat, Len(expectations) <= Len(expectations'),
           \A k \in 1..Len(expectations) : Extended(expectations[k], expectations'[k]),
           \A k \in (Len(expectations) + 1)..Len(expectations') :
               expectations'[k].oneTimeActions = << >>
    PROVE  Order'
<1>1. Len(expectations) \in Nat /\ Len(credits) \in Nat /\ Len(credits') = Len(credits)
  BY DEF Shape, TypeOK
<1>2. \A j, k, s : UsedBefore(j, k, s)' <=> UsedBefore(j, k, s)
  BY DEF UsedBefore
<1>3. \A k, s : Used(k, s)' <=> Used(k, s)
  BY <1>2, Zenon DEF Used
<1>4. ASSUME NEW j \in 1..Len(credits)
      PROVE  CreditOK(credits[j])' /\ InOrder(j)'
  <2> DEFINE c == credits[j]
             e == expectations[c.by]
  <2>1. CreditOK(c) /\ InOrder(j)
    BY DEF Order
  <2>2. /\ c.by \in 1..Len(expectations') /\ c.by \in 1..Len(expectations)
        /\ Extended(e, expectations'[c.by])
        /\ Len(e.oneTimeActions) \in Nat
    BY <1>1, <2>1, ExpectationFacts DEF CreditOK
  <2>3. CreditOK(credits[j])'
    <3>1. PICK d : d = expectations'[c.by]
      OBVIOUS
    <3>2. PICK a : a = e /\ Extended(a, d) /\ Len(a.oneTimeActions) \in Nat
      BY <2>2, <3>1
    <3>3. /\ c.took = "once" => c.slot \in 1..Len(a.oneTimeActions)
          /\ c.took = "fallback" => a.fallbackAction = TRUE /\ c.slots = Len(a.oneTimeActions)
      BY <2>1, <3>2 DEF CreditOK
    <3>4. /\ c.took = "once" => c.slot \in 1..Len(d.oneTimeActions)
          /\ c.took = "fallback" => d.fallbackAction = TRUE /\ c.slots = Len(d.oneTimeActions)
      <4> HIDE DEF c
      <4> QED
        BY <3>2, <3>3 DEF Extended
    <3>5. credits'[j] = c
      OBVIOUS
    <3> HIDE DEF c
    <3>6. /\ c.by \in 1..Len(expectations')
          /\ c.took = "once" => c.slot \in 1..Len(expectations'[c.by].oneTimeActions)
          /\ c.took = "fallback" => /\ expectations'[c.by].fallbackAction = TRUE
                                    /\ c.slots = Len(expectations'[c.by].oneTimeActions)
      BY <2>2, <3>1, <3>4
    <3> QED
      BY <3>5, <3>6 DEF CreditOK
  <2>4. InOrder(j)'
    BY <1>2, <2>1 DEF InOrder
  <2> QED
    BY <2>3, <2>4
<1>5. ASSUME NEW k \in 1..Len(expectations'), NEW s \in 1..Len(expectations'[k].oneTimeActions)
      PROVE  Expired(expectations'[k], s) <=> Used(k, s)
  <2>1. CASE k \in 1..Len(expectations)
    <3>1. /\ Extended(expectations[k], expectations'[k])
          /\ Len(expectations[k].oneTimeActions) \in Nat
      BY <2>1, ExpectationFacts
    <3>2. CASE s \in 1..Len(expectations[k].oneTimeActions)
      BY <2>1, <3>1, <3>2 DEF Extended, Order, FlagsOK, Expired
    <3>3. CASE s \notin 1..Len(expectations[k].oneTimeActions)
      <4>1. ~Expired(expectations'[k], s)
        <5> DEFINE m == Len(expectations[k].oneTimeActions)
                   n == Len(expectations'[k].oneTimeActions)
        <5>1. m \in Nat /\ n \in Nat /\ s \in 1..n /\ ~(s \in 1..m)
          BY <1>5, <3>1, <3>3 DEF Extended
        <5>2. \A t \in (m + 1)..n : ~Expired(expectations'[k], t)
          BY <3>1 DEF Extended
        <5> HIDE DEF m, n
        <5>3. s \in (m + 1)..n
          BY <5>1
        <5> QED
          BY <5>2, <5>3
      <4>2. ~Used(k, s)
        BY <1>1, <3>3 DEF Used, UsedBefore, Order, CreditOK
      <4> QED
        BY <4>1, <4>2
    <3> QED
      BY <3>2, <3>3
  <2>2. CASE k \notin 1..Len(expectations)
    BY <1>1, <1>5, <2>2
  <2> QED
    BY <2>1, <2>2
<1>6. FlagsOK'
  BY <1>3, <1>5 DEF FlagsOK, Expired
<1> QED
  BY <1>1, <1>4, <1>6 DEF Order

LEMMA UnchangedOrder ==
    ASSUME Shape, Order, UNCHANGED << expectations, credits >>
    PROVE  Order'
BY DEF Order, FlagsOK, Used, UsedBefore, CreditOK, InOrder, Expired

(* times, willOnce and willRepeatedly on expectation k. *)
LEMMA ConfigureExtends ==
    ASSUME Shape, NEW k \in 1..Len(expectations), NEW misused \in BOOLEAN,
           NEW d \in ExpectationOf(Mocks, MatcherLists),
           ~misused => Extended(expectations[k], d),
           Configure(k, misused, d), Order
    PROVE  Order'
<1>1. CASE misused
  BY <1>1, UnchangedOrder DEF Configure, Raise, RaiseFromTest, RaiseFromAction,
     RaiseFromPredicate
<1>2. CASE ~misused
  <2>1. /\ expectations' = [expectations EXCEPT ![k] = d]
        /\ UNCHANGED credits /\ Extended(expectations[k], d)
    BY <1>2 DEF Configure
  <2>2. /\ expectations \in Seq(ExpectationOf(Mocks, MatcherLists))
        /\ Len(expectations) \in Nat /\ Len(expectations') = Len(expectations)
        /\ expectations'[k] = d
        /\ \A i \in 1..Len(expectations) : i # k => expectations'[i] = expectations[i]
    BY <2>1 DEF Shape, TypeOK
  <2>3. ASSUME NEW i \in 1..Len(expectations), i # k
        PROVE  Extended(expectations[i], expectations'[i])
    <3>1. Len(expectations[i].oneTimeActions) \in Nat
      BY ExpectationFacts
    <3> QED
      BY <2>2, <2>3, <3>1 DEF Extended
  <2>4. \A i \in 1..Len(expectations) : Extended(expectations[i], expectations'[i])
    BY <2>1, <2>2, <2>3
  <2> QED
    BY <2>1, <2>2, <2>4, ExtendedKeepsOrder
<1> QED
  BY <1>1, <1>2

LEMMA WrapperOrder ==
    ASSUME Shape, Order, NEW k \in 1..Len(expectations),
           \/ \E n \in 0..MaxTimes : Times(k, n)
           \/ WillOnce(k)
           \/ WillRepeatedly(k)
    PROVE  Order'
<1> DEFINE e == expectations[k]
           actions == e.oneTimeActions
<1>1. /\ e \in ExpectationOf(Mocks, MatcherLists) /\ actions \in Seq(BOOLEAN)
      /\ Len(actions) \in Nat
  BY ExpectationFacts
<1>2. ASSUME NEW n \in 0..MaxTimes, Times(k, n) PROVE Order'
  <2> DEFINE d == [e EXCEPT !.expectedNumMatches = n]
  <2>1. d \in ExpectationOf(Mocks, MatcherLists) /\ Extended(e, d)
    BY <1>1, <1>2 DEF ExpectationOf, Extended
  <2>2. Configure(k, TimesMisused(e), d) /\ TimesMisused(e) \in BOOLEAN
    BY <1>1, <1>2 DEF Times, TimesMisused, ExpectationOf
  <2> HIDE DEF d
  <2> QED
    BY <2>1, <2>2, ConfigureExtends
<1>3. ASSUME WillOnce(k) PROVE Order'
  <2> DEFINE longer == Append(actions, FALSE)
             d == [e EXCEPT !.oneTimeActions = longer]
  <2>1. /\ longer \in Seq(BOOLEAN) /\ Len(longer) = Len(actions) + 1
        /\ \A s \in 1..Len(actions) : longer[s] = actions[s]
        /\ longer[Len(actions) + 1] = FALSE
    <3> HIDE DEF actions
    <3>1. FALSE \in BOOLEAN /\ actions \in Seq(BOOLEAN)
      BY <1>1
    <3> QED
      BY <3>1, AppendProperties
  <2>2. Configure(k, e.fallbackAction, d) /\ e.fallbackAction \in BOOLEAN
    BY <1>1, <1>3 DEF WillOnce, OnceMisused, ExpectationOf
  <2>3. /\ d \in ExpectationOf(Mocks, MatcherLists)
        /\ d.oneTimeActions = longer /\ d.fallbackAction = e.fallbackAction
    <3> HIDE DEF longer
    <3> QED
      BY <1>1, <2>1 DEF ExpectationOf
  <2>4. ~e.fallbackAction => Extended(e, d)
    <3>1. \A s \in (Len(actions) + 1)..(Len(actions) + 1) : ~Expired(d, s)
      BY <1>1, <2>1, <2>3 DEF Expired
    <3> HIDE DEF longer, d
    <3> QED
      BY <1>1, <2>1, <2>3, <3>1 DEF Extended
  <2> HIDE DEF d
  <2> QED
    BY <2>2, <2>3, <2>4, ConfigureExtends
<1>4. ASSUME WillRepeatedly(k) PROVE Order'
  <2> DEFINE d == [e EXCEPT !.fallbackAction = TRUE]
  <2>1. /\ d \in ExpectationOf(Mocks, MatcherLists)
        /\ d.oneTimeActions = actions /\ d.fallbackAction = TRUE
    <3> HIDE DEF e
    <3> QED
      BY <1>1 DEF ExpectationOf
  <2>3. Extended(e, d)
    <3> HIDE DEF d
    <3> QED
      BY <1>1, <2>1 DEF Extended
  <2>2. Configure(k, e.fallbackAction, d) /\ e.fallbackAction \in BOOLEAN
    BY <1>1, <1>4 DEF WillRepeatedly, ExpectationOf
  <2> HIDE DEF d
  <2> QED
    BY <2>1, <2>2, <2>3, ConfigureExtends
<1> QED
  BY <1>2, <1>3, <1>4

(* expectCall: a new expectation comes behind the others, without actions. *)
LEMMA ExpectCallOrder ==
    ASSUME Shape, Order, NEW m \in Mocks, NEW ms \in MatcherLists, ExpectCall(m, ms)
    PROVE  Order'
<1> DEFINE e == NewExpectation(m, ms)
<1>1. e.oneTimeActions = << >>
  BY DEF NewExpectation
<1>2. expectations' = Append(expectations, e) /\ UNCHANGED credits
  BY DEF ExpectCall
<1> HIDE DEF e
<1>3. /\ Len(expectations) \in Nat /\ Len(expectations') = Len(expectations) + 1
      /\ expectations'[Len(expectations) + 1] = e
      /\ \A k \in 1..Len(expectations) : expectations'[k] = expectations[k]
  BY <1>2 DEF Shape, TypeOK
<1>4. ASSUME NEW k \in 1..Len(expectations)
      PROVE  Extended(expectations[k], expectations'[k])
  <2>1. Len(expectations[k].oneTimeActions) \in Nat
    BY ExpectationFacts
  <2> QED
    BY <1>3, <2>1 DEF Extended
<1>5. \A k \in (Len(expectations) + 1)..Len(expectations') :
          expectations'[k].oneTimeActions = << >>
  BY <1>1, <1>3
<1> QED
  BY <1>2, <1>3, <1>4, <1>5, ExtendedKeepsOrder

-----------------------------------------------------------------------------
(* Steps that take one.                                                    *)

(* Expectation k serves a call: which action is taken, and what becomes of *)
(* the flags.                                                              *)
Takes(k, took, slot, d) ==
    LET e == expectations[k] IN
    /\ k \in 1..Len(expectations)
    /\ expectations' = [expectations EXCEPT ![k] = d]
    /\ d.fallbackAction = e.fallbackAction
    /\ \E call \in Nat :
          credits' = Append(credits, [call |-> call, by |-> k, took |-> took, slot |-> slot,
                                      slots |-> Len(e.oneTimeActions)])
    /\ IF took = "once"
       THEN /\ slot \in 1..Len(e.oneTimeActions)
            /\ ~Expired(e, slot)
            /\ \A s \in 1..(slot - 1) : Expired(e, s)
            /\ d.oneTimeActions = [e.oneTimeActions EXCEPT ![slot] = TRUE]
       ELSE /\ \A s \in 1..Len(e.oneTimeActions) : Expired(e, s)
            /\ d.oneTimeActions = e.oneTimeActions
            /\ took = "fallback" => e.fallbackAction = TRUE

LEMMA MatchTakes ==
    ASSUME Shape, MatchOnce \/ MatchFallback \/ MatchEmpty
    PROVE  \E took \in {"once", "fallback", "empty"}, slot \in Nat,
              d \in ExpectationOf(Mocks, MatcherLists) : Takes(Candidate, took, slot, d)
<1> DEFINE k == Candidate
           e == expectations[k]
           actions == e.oneTimeActions
<1>1. /\ k \in 1..Len(expectations) /\ e \in ExpectationOf(Mocks, MatcherLists)
      /\ Top.call \in Nat
  BY SearchFacts DEF MatchOnce, MatchFallback, MatchEmpty, Answered
<1>2. /\ actions \in Seq(BOOLEAN) /\ Len(actions) \in Nat
      /\ DOMAIN actions = 1..Len(actions) /\ e.fallbackAction \in BOOLEAN
  <2>1. actions \in Seq(BOOLEAN) /\ e.fallbackAction \in BOOLEAN
    BY <1>1 DEF ExpectationOf
  <2> QED
    BY <2>1
<1>3. /\ Counted(e) \in ExpectationOf(Mocks, MatcherLists)
      /\ Counted(e).oneTimeActions = actions
      /\ Counted(e).fallbackAction = e.fallbackAction
  BY <1>1, CountedProperties
<1>4. CASE MatchOnce
  <2>1. PICK i \in DOMAIN actions : FirstUnexpired(e, i) /\ Match("once", i, Expire(Counted(e), i))
    BY <1>4 DEF MatchOnce
  <2> DEFINE d == Expire(Counted(e), i)
  <2>2. /\ d \in ExpectationOf(Mocks, MatcherLists)
        /\ d.oneTimeActions = [actions EXCEPT ![i] = TRUE]
        /\ d.fallbackAction = e.fallbackAction
    BY <1>3, <2>1, ExpireProperties
  <2>3. i \in Nat /\ ~Expired(e, i) /\ \A s \in 1..(i - 1) : Expired(e, s)
    BY <1>2, <2>1 DEF FirstUnexpired, Expired
  <2>4. Takes(k, "once", i, d)
    BY <1>1, <1>2, <2>1, <2>2, <2>3 DEF Takes, Match
  <2> HIDE DEF d, k
  <2> QED
    BY <2>2, <2>3, <2>4 DEF k
<1>5. CASE MatchFallback \/ MatchEmpty
  <2>1. PICK took \in {"fallback", "empty"} :
            /\ AllExpired(e) /\ Match(took, 0, Counted(e))
            /\ took = "fallback" => e.fallbackAction = TRUE
    BY <1>2, <1>5 DEF MatchFallback, MatchEmpty
  <2>2. \A s \in 1..Len(actions) : Expired(e, s)
    BY <1>2, <2>1 DEF AllExpired, Expired
  <2>3. Takes(k, took, 0, Counted(e))
    BY <1>1, <1>3, <2>1, <2>2 DEF Takes, Match
  <2> QED
    BY <1>3, <2>1, <2>3
<1> QED
  BY <1>4, <1>5

LEMMA TakesOrder ==
    ASSUME Shape, Order, NEW k, NEW took \in {"once", "fallback", "empty"},
           NEW slot \in Nat, NEW d \in ExpectationOf(Mocks, MatcherLists),
           Takes(k, took, slot, d)
    PROVE  Order'
<1> DEFINE e == expectations[k]
           actions == e.oneTimeActions
<1>0. PICK n \in Nat : n = Len(credits) + 1
  <2>1. credits \in Seq(Credits)
    BY DEF Shape, TypeOK
  <2>2. Len(credits) \in Nat
    BY <2>1
  <2> QED
    BY <2>2
<1>1. /\ k \in 1..Len(expectations) /\ Len(expectations) \in Nat
      /\ actions \in Seq(BOOLEAN) /\ Len(actions) \in Nat
      /\ credits \in Seq(Credits) /\ Len(credits) \in Nat
  BY ExpectationFacts, SMTT(20) DEF Takes, Shape, TypeOK
<1>2. /\ expectations' = [expectations EXCEPT ![k] = d]
      /\ Len(expectations') = Len(expectations) /\ expectations'[k] = d
      /\ \A i \in 1..Len(expectations) : i # k => expectations'[i] = expectations[i]
  BY <1>1 DEF Takes, Shape, TypeOK
<1>3. PICK c : /\ c.by = k /\ c.took = took /\ c.slot = slot /\ c.slots = Len(actions)
               /\ credits' = Append(credits, c)
  BY DEF Takes
<1>4. /\ Len(credits') = n /\ credits'[n] = c
      /\ \A j \in 1..Len(credits) : credits'[j] = credits[j]
  BY <1>0, <1>1, <1>3
<1>5. Len(d.oneTimeActions) = Len(actions) /\ d.fallbackAction = e.fallbackAction
  BY <1>1 DEF Takes
<1>6. ASSUME NEW j \in 1..n, NEW i, NEW s
      PROVE  UsedBefore(j, i, s)' <=> UsedBefore(j, i, s)
  <2>1. \A x \in 1..(j - 1) : x \in 1..Len(credits) /\ credits'[x] = credits[x]
    BY <1>0, <1>1, <1>4, <1>6
  <2> QED
    BY <2>1, Zenon DEF UsedBefore
<1>7. ASSUME NEW i, NEW s
      PROVE  Used(i, s)' <=> Used(i, s) \/ (i = k /\ took = "once" /\ s = slot)
  BY <1>0, <1>1, <1>3, <1>4, SMTT(20) DEF Used, UsedBefore
<1>8. ASSUME NEW j \in 1..Len(credits)
      PROVE  CreditOK(credits[j])' /\ InOrder(j)'
  <2>1. CreditOK(credits[j]) /\ InOrder(j) /\ credits'[j] = credits[j] /\ j \in 1..n
    BY <1>0, <1>1, <1>4 DEF Order
  <2>2. CreditOK(credits[j])'
    BY <1>2, <1>5, <2>1 DEF CreditOK
  <2>3. InOrder(j)'
    BY <1>6, <2>1 DEF InOrder
  <2> QED
    BY <2>2, <2>3
<1>9. FlagsOK'
  <2> SUFFICES ASSUME NEW i \in 1..Len(expectations),
                      NEW s \in 1..Len(expectations'[i].oneTimeActions)
               PROVE  Expired(expectations'[i], s) <=> Used(i, s)'
    BY <1>2 DEF FlagsOK, Expired
  <2>1. CASE i # k
    BY <1>2, <1>7, <2>1 DEF Order, FlagsOK, Expired
  <2>2. CASE i = k
    <3>1. s \in 1..Len(actions) /\ (Expired(e, s) <=> Used(k, s))
      BY <1>1, <1>2, <1>5, <2>2 DEF Order, FlagsOK
    <3>2. CASE took = "once"
      <4>1. d.oneTimeActions = [actions EXCEPT ![slot] = TRUE]
        BY <3>2 DEF Takes
      <4> QED
        BY <1>1, <1>2, <1>7, <2>2, <3>1, <3>2, <4>1 DEF Expired
    <3>3. CASE took # "once"
      <4>1. d.oneTimeActions = actions
        BY <3>3 DEF Takes
      <4> QED
        BY <1>2, <1>7, <2>2, <3>1, <3>3, <4>1 DEF Expired
    <3> QED
      BY <3>2, <3>3
  <2> QED
    BY <2>1, <2>2
<1>10. CreditOK(c)' /\ InOrder(n)'
  <2>1. ASSUME NEW s \in 1..Len(actions) PROVE Expired(e, s) <=> UsedBefore(n, k, s)
    BY <1>0, <1>1, <2>1 DEF Order, FlagsOK, Used
  <2>2. CASE took = "once"
    <3>1. slot \in 1..Len(actions) /\ ~Expired(e, slot) /\ \A s \in 1..(slot - 1) : Expired(e, s)
      BY <2>2 DEF Takes
    <3>2. \A s \in 1..(slot - 1) : s \in 1..Len(actions)
      BY <1>1, <3>1
    <3>3. ~UsedBefore(n, k, slot) /\ \A s \in 1..(slot - 1) : UsedBefore(n, k, s)
      BY <2>1, <3>1, <3>2
    <3>4. CreditOK(c)'
      BY <1>1, <1>2, <1>3, <1>5, <2>2, <3>1 DEF CreditOK
    <3>5. InOrder(n)'
      BY <1>0, <1>1, <1>3, <1>4, <1>6, <2>2, <3>3 DEF InOrder
    <3> QED
      BY <3>4, <3>5
  <2>3. CASE took # "once"
    <3>1. /\ \A s \in 1..Len(actions) : Expired(e, s)
          /\ took = "fallback" => e.fallbackAction = TRUE
      BY <2>3 DEF Takes
    <3>2. CreditOK(c)'
      BY <1>1, <1>2, <1>3, <1>5, <2>3, <3>1 DEF CreditOK
    <3>3. InOrder(n)'
      BY <1>0, <1>1, <1>3, <1>4, <1>6, <2>1, <2>3, <3>1 DEF InOrder
    <3> QED
      BY <3>2, <3>3
  <2> QED
    BY <2>2, <2>3
<1>11. ASSUME NEW j \in 1..Len(credits') PROVE CreditOK(credits[j])' /\ InOrder(j)'
  <2>1. j \in 1..Len(credits) \/ j = n
    BY <1>0, <1>1, <1>4
  <2> QED
    BY <1>3, <1>4, <1>8, <1>10, <2>1
<1> QED
  BY <1>9, <1>11 DEF Order

-----------------------------------------------------------------------------
LEMMA OrderInit == Init => Order
BY DEF Init, Order, FlagsOK

LEMMA OrderInductive == Shape /\ Order /\ [Next]_vars => Order'
<1> SUFFICES ASSUME Shape, Order, [Next]_vars PROVE Order'
  OBVIOUS
<1>1. CASE AuthorStep
  <2>1. CASE Throw \/ Return
    BY <2>1, UnchangedOrder DEF Throw, Raise, RaiseFromTest, RaiseFromAction,
       RaiseFromPredicate, Return
  <2>2. CASE \E m \in Mocks, ms \in MatcherLists : ExpectCall(m, ms)
    BY <2>2, ExpectCallOrder
  <2>3. CASE \E k \in DOMAIN expectations :
                (\E n \in 0..MaxTimes : Times(k, n)) \/ WillOnce(k) \/ WillRepeatedly(k)
    <3>1. DOMAIN expectations = 1..Len(expectations)
      BY DEF Shape, TypeOK
    <3> QED
      BY <2>3, <3>1, WrapperOrder
  <2>4. CASE \E m \in Mocks, args \in ArgLists : CallMock(m, args)
    BY <2>4, UnchangedOrder DEF CallMock
  <2> QED
    BY <1>1, <2>1, <2>2, <2>3, <2>4 DEF AuthorStep
<1>2. CASE SearchStep
  <2>1. CASE MatchOnce \/ MatchFallback \/ MatchEmpty
    BY <2>1, MatchTakes, TakesOrder
  <2>2. CASE ~(MatchOnce \/ MatchFallback \/ MatchEmpty)
    BY <1>2, <2>2, UnchangedOrder
       DEF SearchStep, AskPredicate, PredicateError, NoMatch, Unexpected, UnexpectedThrows
  <2> QED
    BY <2>1, <2>2
<1>3. CASE Verify \/ Terminated \/ UNCHANGED vars
  BY <1>3, UnchangedOrder DEF Verify, Terminated, vars
<1> QED
  BY <1>1, <1>2, <1>3 DEF Next

(* The actions of an expectation are taken in the order they were set up,  *)
(* each once, the fallback only behind all of them, and nothing is ever    *)
(* set up behind a fallback that was taken: however calls nest in actions  *)
(* and predicates, throw, and are configured between.                      *)
THEOREM ActionOrderCorrect == Spec => []ActionOrder
<1>1. Init => Shape /\ Order
  BY ShapeInit, OrderInit
<1>2. Shape /\ Order /\ [Next]_vars => (Shape /\ Order)'
  BY ShapeInductive, OrderInductive
<1>3. Shape /\ Order => ActionOrder
  BY OrderGivesActionOrder
<1> QED
  BY <1>1, <1>2, <1>3, PTL DEF Spec

-----------------------------------------------------------------------------
(* That Mocking implements MockContract, for every value of its constants: *)
(* each step of the mock functions is a step of the contract or none, and  *)
(* the verdict of a test is what the contract says of its promises.        *)

(* Each search under way has a call of its own, newer than those of the    *)
(* searches below it, which is not resolved.                               *)
Waiting ==
    \A f \in 1..Len(stack) :
        stack[f].role = "call" =>
            /\ calls[stack[f].call].status = "searching"
            /\ \A g \in 1..(f - 1) :
                  stack[g].role = "call" => stack[g].call < stack[f].call

(* Every expectation is registered until the test is verified, and the     *)
(* failures counted so far are exceptions and unexpected calls.            *)
Tally ==
    phase # "done" =>
        /\ Len(registered) = Len(expectations)
        /\ \A i \in 1..Len(registered) : registered[i] = i
        /\ failures = 0 <=> ~threw /\ ~AnyUnexpected

Accounts == Shape /\ Waiting /\ Tally /\ Verdict

-----------------------------------------------------------------------------
(* The searches under way.                                                 *)

(* Frames of searches stay where they are, or are gone. *)
FewerSearches ==
    \A f \in 1..Len(stack') :
        stack'[f].role = "call" =>
            /\ f \in 1..Len(stack)
            /\ stack[f].role = "call"
            /\ stack'[f].call = stack[f].call

(* What is resolved has no frame any more. *)
ResolvedLeave ==
    \A f \in 1..Len(stack') :
        stack'[f].role = "call" =>
            calls'[stack'[f].call].status = calls[stack'[f].call].status

LEMMA WaitingKept ==
    ASSUME Shape, Waiting, FewerSearches, ResolvedLeave, Len(stack') \in Nat
    PROVE  Waiting'
<1> SUFFICES ASSUME NEW f \in 1..Len(stack'), stack'[f].role = "call"
             PROVE  /\ calls'[stack'[f].call].status = "searching"
                    /\ \A g \in 1..(f - 1) :
                          stack'[g].role = "call" => stack'[g].call < stack'[f].call
  BY DEF Waiting
<1>1. /\ f \in 1..Len(stack) /\ stack[f].role = "call" /\ stack'[f].call = stack[f].call
      /\ calls'[stack'[f].call].status = calls[stack'[f].call].status
  BY DEF FewerSearches, ResolvedLeave
<1>2. ASSUME NEW g \in 1..(f - 1), stack'[g].role = "call"
      PROVE  stack'[g].call < stack'[f].call
  <2>1. g \in 1..Len(stack')
    BY <1>2
  <2>2. g \in 1..(f - 1) /\ stack[g].role = "call" /\ stack'[g].call = stack[g].call
    BY <1>2, <2>1 DEF FewerSearches
  <2> QED
    BY <1>1, <2>2 DEF Waiting
<1> QED
  BY <1>1, <1>2 DEF Waiting

(* The stack loses its upper frames. *)
LEMMA PopFewer ==
    ASSUME Shape, NEW n \in Nat, n <= Len(stack), Len(stack') = n,
           \A f \in 1..n : stack'[f] = stack[f]
    PROVE  FewerSearches
<1>1. Len(stack) \in Nat
  BY DEF Shape, TypeOK
<1> QED
  BY <1>1 DEF FewerSearches

(* The innermost search is resolved, and its frame leaves the stack.       *)
LEMMA ResolveWaiting ==
    ASSUME Shape, Waiting, FewerSearches, Len(stack') \in Nat,
           NEW t \in 1..Len(stack), stack[t].role = "call",
           NEW status \in Statuses, NEW k \in Nat,
           calls' = Resolve(stack[t].call, status, k),
           \A f \in 1..Len(stack') : stack'[f].role = "call" => f < t
    PROVE  /\ Waiting'
           /\ AnyUnexpected' <=> AnyUnexpected \/ status = "unexpected"
<1> DEFINE c == stack[t].call
<1>1. /\ calls \in Seq(Calls) /\ c \in 1..Len(calls) /\ calls[c].status = "searching"
      /\ Len(calls) \in Nat
  BY DEF Shape, TypeOK, StackOK, FrameOK, Waiting
<1>2. /\ DOMAIN calls' = DOMAIN calls /\ DOMAIN calls = 1..Len(calls)
      /\ calls'[c].status = status
      /\ \A i \in 1..Len(calls) : i # c => calls'[i] = calls[i]
  BY <1>1 DEF Resolve
<1>3. ResolvedLeave
  <2> SUFFICES ASSUME NEW f \in 1..Len(stack'), stack'[f].role = "call"
               PROVE  calls'[stack'[f].call].status = calls[stack'[f].call].status
    BY DEF ResolvedLeave
  <2>1. /\ f \in 1..Len(stack) /\ stack[f].role = "call" /\ stack'[f].call = stack[f].call
        /\ f < t
    BY DEF FewerSearches
  <2>2. stack[f].call < c /\ stack[f].call \in 1..Len(calls)
    <3>1. f \in 1..(t - 1)
      BY <2>1
    <3> QED
      BY <2>1, <3>1 DEF Waiting, Shape, StackOK, FrameOK
  <2> QED
    BY <1>1, <1>2, <2>1, <2>2
<1>4. Waiting'
  BY <1>3, WaitingKept
<1>5. AnyUnexpected' <=> AnyUnexpected \/ status = "unexpected"
  BY <1>1, <1>2 DEF AnyUnexpected
<1> QED
  BY <1>4, <1>5

-----------------------------------------------------------------------------
(* A promise and what checkExpectationSatisfied makes of it.               *)

LEMMA EmptyActions ==
    ASSUME NEW s \in Seq(BOOLEAN)
    PROVE  s # << >> <=> Len(s) # 0
BY EmptySeq

LEMMA SatisfiedIfKept ==
    ASSUME NEW e \in ExpectationOf(Mocks, MatcherLists)
    PROVE  CheckExpectationSatisfied(e) <=> Contract!Kept(PromiseOf(e), e.numMatches)
<1>1. /\ e.oneTimeActions \in Seq(BOOLEAN) /\ e.fallbackAction \in BOOLEAN
      /\ e.numMatches \in Nat /\ e.expectedNumMatches \in Nat \cup {NoCount}
  BY DEF ExpectationOf
<1>2. Len(e.oneTimeActions) \in Nat /\ (e.oneTimeActions # << >> <=> Len(e.oneTimeActions) # 0)
  BY <1>1, EmptyActions
<1> HIDE DEF PromiseOf
<1>3. CASE e.expectedNumMatches # NoCount
  BY <1>1, <1>2, <1>3 DEF CheckExpectationSatisfied, Decide, Contract!Kept, PromiseOf
<1>4. CASE e.expectedNumMatches = NoCount
  <2> DEFINE n == Len(e.oneTimeActions)
  <2>1. CASE e.fallbackAction
    <3>1. /\ PromiseOf(e).least = n
          /\ PromiseOf(e).exact = FALSE
      BY <1>1, <1>2, <1>4, <2>1 DEF PromiseOf
    <3>2. Contract!Kept(PromiseOf(e), e.numMatches) <=> e.numMatches >= n
      BY <1>1, <1>2, <3>1 DEF Contract!Kept
    <3>3. CheckExpectationSatisfied(e) <=> e.numMatches >= n
      BY <1>1, <1>2, <1>4, <2>1 DEF CheckExpectationSatisfied, Decide
    <3> QED
      BY <3>2, <3>3
  <2>2. CASE ~e.fallbackAction
    <3>1. /\ PromiseOf(e).least = IF n = 0 THEN 1 ELSE n
          /\ PromiseOf(e).exact = TRUE
      BY <1>1, <1>2, <1>4, <2>2 DEF PromiseOf
    <3>2. Contract!Kept(PromiseOf(e), e.numMatches) <=> e.numMatches = IF n = 0 THEN 1 ELSE n
      BY <3>1 DEF Contract!Kept
    <3>3. CheckExpectationSatisfied(e) <=> e.numMatches = IF n = 0 THEN 1 ELSE n
      BY <1>1, <1>2, <1>4, <2>2 DEF CheckExpectationSatisfied, Decide
    <3> QED
      BY <3>2, <3>3
  <2> QED
    BY <2>1, <2>2
<1> QED
  BY <1>3, <1>4

-----------------------------------------------------------------------------
(* The steps of Mocking as steps of the contract.                          *)

Promises == [k \in DOMAIN expectations |-> PromiseOf(expectations[k])]
Credited == [k \in DOMAIN expectations |-> expectations[k].numMatches]
Failed   == threw \/ AnyUnexpected
VerdictNow == IF phase # "done" THEN "none" ELSE IF failures = 0 THEN "pass" ELSE "fail"

ContractStep == [Contract!Next]_(Contract!vars)

(* What the contract does not see. *)
Silent ==
    /\ UNCHANGED << expectations, registered, failures, threw >>
    /\ phase = "running" /\ phase' # "done"
    /\ AnyUnexpected' <=> AnyUnexpected

(* A failure while the test runs. *)
Failing ==
    /\ UNCHANGED << expectations, registered >>
    /\ phase = "running" /\ phase' # "done"
    /\ failures' = failures + 1
    /\ threw' \/ AnyUnexpected'

(* An expectation changes, and nothing else that the contract sees.        *)
Changing(k, d) ==
    /\ k \in 1..Len(expectations)
    /\ expectations' = [expectations EXCEPT ![k] = d]
    /\ UNCHANGED << registered, failures, threw, phase >>
    /\ phase = "running"
    /\ AnyUnexpected' <=> AnyUnexpected

(* The promise of an expectation is amended, or not even that. *)
Amended(e, d) ==
    LET p == PromiseOf(e)
        q == PromiseOf(d)
    IN  /\ d.numMatches = e.numMatches
        /\ \/ q = p
           \/ ~p.settled /\ (Contract!Fixed(p, q) \/ Contract!Raised(p, q) \/ Contract!Relaxed(p, q))

(* A call is credited to it. *)
CreditedWith(e, d) ==
    PromiseOf(d) = PromiseOf(e) /\ d.numMatches = e.numMatches + 1

LEMMA SilentStep == ASSUME Accounts, Silent PROVE Tally' /\ Verdict' /\ ContractStep
<1>1. Tally'
  BY DEF Silent, Accounts, Tally
<1>2. Verdict'
  BY DEF Silent, Verdict
<1>3. UNCHANGED Contract!vars
  <2>1. Failed' = Failed
    BY DEF Silent, Failed, Accounts, Shape, TypeOK
  <2>2. Promises' = Promises /\ Credited' = Credited /\ VerdictNow' = VerdictNow
    BY DEF Silent, Promises, Credited, VerdictNow
  <2> QED
    BY <2>1, <2>2 DEF Contract!vars, Promises, Credited, Failed, VerdictNow
<1> QED
  BY <1>1, <1>2, <1>3 DEF ContractStep

LEMMA FailingStep == ASSUME Accounts, Failing PROVE Tally' /\ Verdict' /\ ContractStep
<1>1. failures \in Nat
  BY DEF Accounts, Shape, TypeOK
<1>2. Tally'
  BY <1>1 DEF Failing, Accounts, Tally
<1>3. Verdict'
  BY DEF Failing, Verdict
<1>4. Contract!Fail
  BY DEF Failing, Contract!Fail
<1> QED
  BY <1>2, <1>3, <1>4 DEF ContractStep, Contract!Next

LEMMA ChangingStep ==
    ASSUME Accounts, NEW k, NEW d \in ExpectationOf(Mocks, MatcherLists), Changing(k, d),
           Amended(expectations[k], d) \/ CreditedWith(expectations[k], d)
    PROVE  Tally' /\ Verdict' /\ ContractStep
<1> DEFINE e == expectations[k]
           p == PromiseOf(e)
           q == PromiseOf(d)
<1>1. /\ expectations \in Seq(ExpectationOf(Mocks, MatcherLists))
      /\ DOMAIN expectations = 1..Len(expectations) /\ k \in DOMAIN expectations
      /\ DOMAIN expectations' = DOMAIN expectations /\ Len(expectations') = Len(expectations)
      /\ expectations'[k] = d
      /\ \A i \in DOMAIN expectations : i # k => expectations'[i] = expectations[i]
  BY DEF Accounts, Shape, TypeOK, Changing
<1>2. Tally'
  BY <1>1 DEF Changing, Accounts, Tally
<1>3. Verdict'
  BY DEF Changing, Verdict
<1>4. /\ Promises' = [Promises EXCEPT ![k] = q]
      /\ Promises'[k] = q /\ Promises[k] = p /\ k \in DOMAIN Promises
      /\ q = p => Promises' = Promises
  <2> HIDE DEF e, q
  <2>1. q = PromiseOf(expectations'[k]) /\ p = PromiseOf(expectations[k])
    BY <1>1 DEF q, e
  <2> HIDE DEF p
  <2> QED
    BY <1>1, <2>1 DEF Promises
<1>5. /\ d.numMatches = e.numMatches => Credited' = Credited
      /\ Credited' = [Credited EXCEPT ![k] = d.numMatches]
      /\ Credited[k] = e.numMatches
  BY <1>1 DEF Credited
<1>6. Failed' = Failed /\ VerdictNow' = VerdictNow /\ VerdictNow = "none"
  BY DEF Changing, Failed, VerdictNow, Accounts, Shape, TypeOK
<1> HIDE DEF e, p, q
<1>7. CASE Amended(e, d)
  <2>1. /\ Credited' = Credited
        /\ \/ q = p
           \/ ~p.settled /\ (Contract!Fixed(p, q) \/ Contract!Raised(p, q) \/ Contract!Relaxed(p, q))
    BY <1>5, <1>7 DEF Amended, p, q
  <2>2. CASE q = p
    <3>1. UNCHANGED << Promises, Credited, Failed, VerdictNow >>
      BY <1>4, <1>6, <2>1, <2>2
    <3> QED
      BY <1>2, <1>3, <3>1
         DEF ContractStep, Contract!vars, Promises, Credited, Failed, VerdictNow
  <2>3. CASE q # p
    <3>1. /\ Promises' = [Promises EXCEPT ![k] = Promises'[k]]
          /\ ~Promises[k].settled
          /\ \/ Contract!Fixed(Promises[k], Promises'[k])
             \/ Contract!Raised(Promises[k], Promises'[k])
             \/ Contract!Relaxed(Promises[k], Promises'[k])
      BY <1>4, <2>1, <2>3
    <3>2. Contract!Amend(k)
      BY <1>6, <2>1, <3>1 DEF Contract!Amend, Promises, Credited, Failed, VerdictNow
    <3> QED
      BY <1>1, <1>2, <1>3, <1>4, <3>2 DEF ContractStep, Contract!Next, Promises
  <2> QED
    BY <2>2, <2>3
<1>8. CASE CreditedWith(e, d)
  <2>1. /\ Promises' = Promises
        /\ Credited' = [Credited EXCEPT ![k] = Credited[k] + 1]
    BY <1>4, <1>5, <1>8 DEF CreditedWith, p, q
  <2>2. Contract!Credit(k)
    BY <1>6, <2>1 DEF Contract!Credit, Promises, Credited, Failed, VerdictNow
  <2> QED
    BY <1>1, <1>2, <1>3, <1>4, <2>2 DEF ContractStep, Contract!Next, Promises
<1> QED
  BY <1>7, <1>8 DEF e

LEMMA AppendIs ==
    ASSUME NEW S, NEW s \in Seq(S), NEW e \in S
    PROVE  [k \in 1..(Len(s) + 1) |-> IF k = Len(s) + 1 THEN e ELSE s[k]] = Append(s, e)
<1> DEFINE n == Len(s) + 1
           t == [k \in 1..n |-> IF k = n THEN e ELSE s[k]]
<1>1. /\ Append(s, e) \in Seq(S) /\ Len(Append(s, e)) = n
      /\ \A k \in 1..Len(s) : Append(s, e)[k] = s[k]
      /\ Append(s, e)[n] = e
  BY AppendProperties
<1>2. n \in Nat /\ Len(s) \in Nat /\ n = Len(s) + 1
  OBVIOUS
<1> HIDE DEF n
<1>3. /\ DOMAIN t = 1..n
      /\ \A k \in 1..n : t[k] = Append(s, e)[k]
  BY <1>1, <1>2
<1>4. Append(s, e) \in [1..n -> S]
  BY <1>1, LenProperties
<1>5. t \in [1..n -> S]
  BY <1>2, <1>3, <1>4
<1> HIDE DEF t
<1>6. t \in Seq(S) /\ Len(t) = n
  BY <1>2, <1>5
<1>7. t = Append(s, e)
  BY <1>1, <1>3, <1>6, SeqEqual
<1> QED
  BY <1>7 DEF t, n

(* A new expectation makes the default promise. *)
LEMMA ExpectCallStep ==
    ASSUME Accounts, NEW m \in Mocks, NEW ms \in MatcherLists, ExpectCall(m, ms)
    PROVE  Waiting' /\ Tally' /\ Verdict' /\ ContractStep
<1> DEFINE n == Len(expectations)
           e == NewExpectation(m, ms)
<1>1. /\ expectations \in Seq(ExpectationOf(Mocks, MatcherLists)) /\ n \in Nat
      /\ DOMAIN expectations = 1..n
      /\ registered \in Seq(Nat) /\ Len(registered) \in Nat
      /\ threw \in BOOLEAN
  BY DEF Accounts, Shape, TypeOK
<1>2. /\ expectations' = Append(expectations, e) /\ registered' = Append(registered, n + 1)
      /\ UNCHANGED << stack, failures, threw, phase, calls >> /\ phase = "running"
  BY DEF ExpectCall, UserRunning
<1>3. PromiseOf(e) = Contract!Default /\ e.numMatches = 0
  <2>1. e.oneTimeActions = << >> /\ e.expectedNumMatches = NoCount /\ e.fallbackAction = FALSE
        /\ e.numMatches = 0
    BY DEF NewExpectation
  <2> HIDE DEF e
  <2> QED
    BY <2>1 DEF PromiseOf, Contract!Default
<1> HIDE DEF e
<1>4. /\ Len(expectations') = n + 1 /\ DOMAIN expectations' = 1..(n + 1)
      /\ expectations'[n + 1] = e
      /\ \A k \in 1..n : expectations'[k] = expectations[k]
  BY <1>1, <1>2
<1>5. Waiting'
  BY <1>2 DEF Accounts, Waiting
<1>6. AnyUnexpected' <=> AnyUnexpected
  BY <1>2 DEF AnyUnexpected
<1>7. Tally'
  <2>1. /\ Len(registered) = n /\ \A i \in 1..n : registered[i] = i
        /\ failures = 0 <=> ~threw /\ ~AnyUnexpected
    BY <1>2 DEF Accounts, Tally
  <2>2. /\ Len(registered') = n + 1 /\ registered'[n + 1] = n + 1
        /\ \A i \in 1..n : registered'[i] = registered[i]
    BY <1>1, <1>2, <2>1
  <2>3. \A i \in 1..(n + 1) : registered'[i] = i
    BY <1>1, <2>1, <2>2
  <2> QED
    BY <1>2, <1>4, <1>6, <2>1, <2>2, <2>3 DEF Tally
<1>8. Verdict'
  BY <1>2 DEF Verdict
<1>9. /\ Promises' = Append(Promises, Contract!Default)
      /\ Credited' = Append(Credited, 0)
  <2> DEFINE S == {PromiseOf(expectations[k]) : k \in 1..n} \cup {Contract!Default}
             T == {expectations[k].numMatches : k \in 1..n} \cup {0}
  <2>1. /\ Promises = [k \in 1..n |-> PromiseOf(expectations[k])]
        /\ Credited = [k \in 1..n |-> expectations[k].numMatches]
    BY <1>1 DEF Promises, Credited
  <2>2. /\ Promises' = [k \in 1..(n + 1) |-> IF k = n + 1 THEN Contract!Default
                                               ELSE Promises[k]]
        /\ Credited' = [k \in 1..(n + 1) |-> IF k = n + 1 THEN 0 ELSE Credited[k]]
    <3>1. \A k \in 1..(n + 1) : k # n + 1 => k \in 1..n
      BY <1>1
    <3> HIDE DEF n
    <3> QED
      BY <1>3, <1>4, <2>1, <3>1, Zenon DEF Promises, Credited
  <2>3. Promises \in Seq(S) /\ Len(Promises) = n /\ Credited \in Seq(T) /\ Len(Credited) = n
    <3> HIDE DEF n
    <3>1. \A k \in 1..n : PromiseOf(expectations[k]) \in S /\ expectations[k].numMatches \in T
      OBVIOUS
    <3> HIDE DEF S, T
    <3>2. Promises \in [1..n -> S] /\ Credited \in [1..n -> T]
      BY <2>1, <3>1
    <3> QED
      BY <1>1, <3>2
  <2>4. Contract!Default \in S /\ 0 \in T
    OBVIOUS
  <2> HIDE DEF S, T
  <2>5. Promises' = Append(Promises, Contract!Default)
    BY <2>2, <2>3, <2>4, AppendIs
  <2>6. Credited' = Append(Credited, 0)
    BY <2>2, <2>3, <2>4, AppendIs
  <2> QED
    BY <2>5, <2>6
<1>10. Failed' = Failed /\ VerdictNow' = VerdictNow /\ VerdictNow = "none"
  BY <1>1, <1>2, <1>6 DEF Failed, VerdictNow
<1>11. Contract!Promise
  BY <1>9, <1>10 DEF Contract!Promise, Promises, Credited, Failed, VerdictNow
<1> QED
  BY <1>5, <1>7, <1>8, <1>11 DEF ContractStep, Contract!Next

LEMMA VerifyStep ==
    ASSUME Accounts, Verify
    PROVE  Waiting' /\ Tally' /\ Verdict' /\ ContractStep
<1>1. /\ Len(expectations) \in Nat /\ DOMAIN expectations = 1..Len(expectations)
      /\ DOMAIN registered = 1..Len(expectations)
      /\ \A i \in 1..Len(expectations) : registered[i] = i
      /\ failures = 0 <=> ~threw /\ ~AnyUnexpected
      /\ failures \in Nat /\ threw \in BOOLEAN /\ phase = "verifying"
  BY DEF Accounts, Shape, TypeOK, Tally, Verify
<1> DEFINE AllKept == \A k \in DOMAIN expectations :
                          Contract!Kept(PromiseOf(expectations[k]), expectations[k].numMatches)
<1>2. Unsatisfied = {} <=> AllKept
  <2>1. \A k \in DOMAIN expectations :
            CheckExpectationSatisfied(expectations[k])
              <=> Contract!Kept(PromiseOf(expectations[k]), expectations[k].numMatches)
    BY SatisfiedIfKept DEF Accounts, Shape, TypeOK
  <2> QED
    BY <1>1, <2>1, Zenon DEF Unsatisfied
<1>3. /\ Cardinality(Unsatisfied) \in Nat
      /\ Cardinality(Unsatisfied) = 0 <=> Unsatisfied = {}
  <2>1. Unsatisfied \subseteq 1..Len(expectations)
    BY <1>1 DEF Unsatisfied
  <2>3. IsFiniteSet(1..Len(expectations))
    BY <1>1, FS_Interval
  <2>2. IsFiniteSet(Unsatisfied)
    BY <2>1, <2>3, FS_Subset
  <2> QED
    BY <2>2, FS_CardinalityType, FS_EmptySet
<1>4. /\ phase' = "done" /\ registered' = << >>
      /\ failures' = IF threw THEN failures ELSE failures + Cardinality(Unsatisfied)
      /\ UNCHANGED << expectations, stack, threw, calls >>
  BY DEF Verify
<1>5. /\ failures' = 0 <=> ~threw /\ ~AnyUnexpected /\ AllKept
  BY <1>1, <1>2, <1>3, <1>4
<1>6. Waiting'
  BY <1>4 DEF Accounts, Waiting
<1>7. Tally'
  BY <1>4 DEF Tally
<1>8. /\ AnyUnexpected' <=> AnyUnexpected
      /\ AllKept' <=> AllKept
  BY <1>4 DEF AnyUnexpected
<1>9. Verdict'
  BY <1>4, <1>5, <1>8 DEF Verdict
<1>10. UNCHANGED << Promises, Credited, Failed >>
  BY <1>1, <1>4, <1>8 DEF Promises, Credited, Failed
<1>11. /\ DOMAIN Promises = DOMAIN expectations
       /\ \A k \in DOMAIN expectations :
             Promises[k] = PromiseOf(expectations[k]) /\ Credited[k] = expectations[k].numMatches
  BY DEF Promises, Credited
<1>12. /\ VerdictNow = "none"
       /\ VerdictNow' = IF ~Failed /\ \A k \in DOMAIN Promises : Contract!Kept(Promises[k], Credited[k])
                         THEN "pass" ELSE "fail"
  <2>1. AllKept <=> \A k \in DOMAIN Promises : Contract!Kept(Promises[k], Credited[k])
    BY <1>11, Zenon
  <2> HIDE DEF AllKept
  <2> QED
    BY <1>1, <1>4, <1>5, <2>1 DEF VerdictNow, Failed
<1>13. Contract!Finish
  BY <1>10, <1>12, Zenon DEF Contract!Finish, Promises, Credited, Failed, VerdictNow
<1> QED
  BY <1>6, <1>7, <1>9, <1>13 DEF ContractStep, Contract!Next

-----------------------------------------------------------------------------
(* The actions, one after the other.                                       *)

Goal == Waiting' /\ Tally' /\ Verdict' /\ ContractStep

LEMMA SilentGoal == ASSUME Accounts, Waiting', Silent PROVE Goal
BY SilentStep DEF Goal

LEMMA StackFacts ==
    ASSUME Shape
    PROVE  /\ stack \in Seq(Frames) /\ Len(stack) \in Nat
           /\ calls \in Seq(Calls) /\ Len(calls) \in Nat
           /\ \A f \in 1..Len(stack) : FrameOK(f)
           /\ phase = "running" => Len(stack) > 0
BY DEF Shape, TypeOK, StackOK

(* An upper frame leaves, and what it searched for is resolved or there is *)
(* no such thing.                                                          *)
LEMMA PopWaiting ==
    ASSUME Shape, Waiting, Len(stack) > 0, stack' = Pop(stack), UNCHANGED calls
    PROVE  Waiting'
<1> DEFINE n == Len(stack) - 1
<1>1. stack \in Seq(Frames) /\ n \in Nat /\ n <= Len(stack)
  BY StackFacts
<1>2. Len(stack') = n /\ \A f \in 1..n : stack'[f] = stack[f]
  BY <1>1, PopProperties
<1> HIDE DEF n
<1>3. FewerSearches
  BY <1>1, <1>2, PopFewer
<1> QED
  BY <1>1, <1>2, <1>3, WaitingKept DEF ResolvedLeave

LEMMA PopSearchWaiting ==
    ASSUME Shape, Waiting, Searching, stack' = Pop(stack),
           NEW status \in Statuses, NEW k \in Nat, calls' = Resolve(Top.call, status, k)
    PROVE  Waiting' /\ (AnyUnexpected' <=> AnyUnexpected \/ status = "unexpected")
<1> DEFINE t == Len(stack)
<1>1. t \in Nat /\ t > 1 /\ stack \in Seq(Frames) /\ Top = stack[t] /\ Top.role = "call"
  BY SearchFacts, StackFacts DEF Searching, Top
<1>2. /\ Len(stack') \in Nat /\ Len(stack') = t - 1
      /\ \A f \in 1..Len(stack') : stack'[f] = stack[f]
  BY <1>1, PopProperties
<1>3. FewerSearches
  <2>1. Len(stack') <= Len(stack)
    BY <1>1, <1>2
  <2> QED
    BY <1>2, <2>1, PopFewer
<1>4. \A f \in 1..Len(stack') : f < t
  BY <1>1, <1>2
<1>5. t \in 1..Len(stack) /\ stack[t].role = "call" /\ calls' = Resolve(stack[t].call, status, k)
  BY <1>1
<1> HIDE DEF t
<1> QED
  BY <1>2, <1>3, <1>4, <1>5, ResolveWaiting

LEMMA SetTopWaiting ==
    ASSUME Shape, Waiting, Searching, stack' = SetTop(Frame("action", 0, 0)),
           NEW status \in Statuses, NEW k \in Nat, calls' = Resolve(Top.call, status, k)
    PROVE  Waiting' /\ (AnyUnexpected' <=> AnyUnexpected \/ status = "unexpected")
<1> DEFINE t == Len(stack)
<1>1. t \in Nat /\ t > 1 /\ stack \in Seq(Frames) /\ Top = stack[t] /\ Top.role = "call"
  BY SearchFacts, StackFacts DEF Searching, Top
<1>2. /\ Len(stack') = t /\ stack'[t].role = "action"
      /\ \A f \in 1..t : f # t => stack'[f] = stack[f]
  BY <1>1 DEF SetTop, Frame
<1>3. FewerSearches
  BY <1>1, <1>2 DEF FewerSearches
<1>4. \A f \in 1..Len(stack') : stack'[f].role = "call" => f < t
  BY <1>1, <1>2
<1>5. /\ t \in 1..Len(stack) /\ stack[t].role = "call" /\ calls' = Resolve(stack[t].call, status, k)
      /\ Len(stack') \in Nat
  BY <1>1, <1>2
<1> HIDE DEF t
<1> QED
  BY <1>3, <1>4, <1>5, ResolveWaiting

LEMMA RaiseGoal == ASSUME Accounts, UserRunning, Raise PROVE Goal
<1>1. /\ stack \in Seq(Frames) /\ Len(stack) \in Nat /\ Len(stack) > 0
      /\ FrameOK(Len(stack)) /\ Top = stack[Len(stack)] /\ phase = "running"
      /\ Shape /\ Waiting
  BY StackFacts DEF Accounts, UserRunning, Top
<1>2. CASE RaiseFromTest
  <2>1. Waiting'
    BY <1>2 DEF RaiseFromTest, Waiting
  <2>2. Failing
    BY <1>1, <1>2 DEF RaiseFromTest, Failing
  <2> QED
    BY <2>1, <2>2, FailingStep DEF Goal
<1>3. CASE RaiseFromAction
  <2>1. Waiting'
    BY <1>1, <1>3, PopWaiting DEF RaiseFromAction
  <2>2. Silent
    BY <1>1, <1>3 DEF RaiseFromAction, Silent, AnyUnexpected
  <2> QED
    BY <2>1, <2>2, SilentGoal
<1>4. CASE RaiseFromPredicate
  <2> DEFINE t == Len(stack) - 1
  <2>1. stack[t].role = "call" /\ t \in 1..Len(stack)
    <3>1. stack[Len(stack)].role = "predicate"
      BY <1>1, <1>4 DEF RaiseFromPredicate
    <3>2. Len(stack) # 1
      BY <1>1, <3>1 DEF FrameOK
    <3>3. stack[t].role = "call"
      BY <1>1, <3>1 DEF FrameOK
    <3>4. t \in 1..Len(stack)
      <4>1. Len(stack) \in Nat /\ Len(stack) > 0
        BY <1>1
      <4> QED
        BY <3>2, <4>1
    <3> QED
      BY <3>3, <3>4
  <2>2. /\ Pop(stack) \in Seq(Frames) /\ Len(Pop(stack)) = t
        /\ \A f \in 1..t : Pop(stack)[f] = stack[f]
    BY <1>1, PopProperties
  <2>3. /\ stack' = Pop(Pop(stack)) /\ Len(stack') = t - 1
        /\ \A f \in 1..(t - 1) : stack'[f] = Pop(stack)[f]
    <3>1. stack' = Pop(Pop(stack)) /\ Len(Pop(stack)) > 0
      BY <1>1, <1>4, <2>1, <2>2 DEF RaiseFromPredicate
    <3> HIDE DEF t
    <3> QED
      BY <2>2, <3>1, PopProperties
  <2>4. /\ Len(stack') \in Nat /\ Len(stack') <= Len(stack)
        /\ \A f \in 1..Len(stack') : stack'[f] = stack[f] /\ f < t
    BY <1>1, <2>1, <2>2, <2>3
  <2>5. FewerSearches
    BY <1>1, <2>4, PopFewer
  <2>6. calls' = Resolve(stack[t].call, "aborted", 0) /\ "aborted" \in Statuses
    BY <1>4 DEF RaiseFromPredicate, Statuses
  <2> HIDE DEF t
  <2>7. Waiting' /\ (AnyUnexpected' <=> AnyUnexpected)
    BY <1>1, <2>1, <2>4, <2>5, <2>6, ResolveWaiting
  <2>8. Silent
    BY <1>1, <1>4, <2>7 DEF RaiseFromPredicate, Silent
  <2> QED
    BY <2>7, <2>8, SilentGoal
<1> QED
  BY <1>2, <1>3, <1>4 DEF Raise

LEMMA ReturnGoal == ASSUME Accounts, Return PROVE Goal
<1>1. phase = "running" /\ Len(stack) > 0 /\ Shape /\ Waiting
  BY StackFacts DEF Accounts, Return, UserRunning
<1>2. Waiting'
  BY <1>1, PopWaiting DEF Return
<1>3. Silent
  BY <1>1 DEF Return, Silent, AnyUnexpected
<1> QED
  BY <1>2, <1>3, SilentGoal

LEMMA CallMockGoal ==
    ASSUME Accounts, NEW m \in Mocks, NEW args \in ArgLists, CallMock(m, args)
    PROVE  Goal
<1> DEFINE t == Len(stack) + 1
           n == Len(calls) + 1
           c == [mock |-> m, args |-> args, born |-> Len(expectations),
                 status |-> "searching", by |-> 0]
           f == Frame("call", n, Len(lists[m]))
<1>1. /\ stack \in Seq(Frames) /\ calls \in Seq(Calls) /\ Len(stack) \in Nat /\ Len(calls) \in Nat
      /\ \A g \in 1..Len(stack) : FrameOK(g)
  BY StackFacts DEF Accounts
<1>2. /\ calls' = Append(calls, c) /\ stack' = Append(stack, f) /\ phase = "running"
      /\ UNCHANGED << expectations, registered, failures, threw, phase >>
  BY DEF CallMock, UserRunning
<1>3. c.status = "searching" /\ f.role = "call" /\ f.call = n
  BY DEF Frame
<1> HIDE DEF c, f
<1>4. /\ Len(calls') = n /\ calls'[n] = c /\ \A i \in 1..Len(calls) : calls'[i] = calls[i]
      /\ DOMAIN calls' = 1..n /\ DOMAIN calls = 1..Len(calls)
      /\ Len(stack') = t /\ stack'[t] = f /\ \A g \in 1..Len(stack) : stack'[g] = stack[g]
  BY <1>1, <1>2
<1>5. ASSUME NEW g \in 1..Len(stack), stack[g].role = "call"
      PROVE  stack[g].call \in 1..Len(calls) /\ stack[g].call < n
  <2>1. stack[g].call \in 1..Len(calls)
    BY <1>1, <1>5 DEF FrameOK
  <2> QED
    BY <1>1, <2>1
<1>6. Waiting'
  <2> SUFFICES ASSUME NEW g \in 1..Len(stack'), stack'[g].role = "call"
               PROVE  /\ calls'[stack'[g].call].status = "searching"
                      /\ \A h \in 1..(g - 1) :
                            stack'[h].role = "call" => stack'[h].call < stack'[g].call
    BY DEF Waiting
  <2>1. CASE g = t
    BY <1>1, <1>3, <1>4, <1>5, <2>1
  <2>2. CASE g # t
    <3>1. g \in 1..Len(stack) /\ \A h \in 1..(g - 1) : h \in 1..Len(stack)
      BY <1>1, <1>4, <2>2
    <3> QED
      BY <1>4, <1>5, <3>1 DEF Accounts, Waiting
  <2> QED
    BY <2>1, <2>2
<1>7. AnyUnexpected' <=> AnyUnexpected
  <2>1. \A i \in 1..n : i \in 1..Len(calls) \/ i = n
    BY <1>1
  <2> QED
    BY <1>1, <1>3, <1>4, <2>1 DEF AnyUnexpected
<1>8. Silent
  BY <1>2, <1>7 DEF Silent
<1> QED
  BY <1>6, <1>8, SilentGoal

(* The methods of the wrapper amend a promise that is not settled. *)
LEMMA ConfigureGoal ==
    ASSUME Accounts, NEW k \in 1..Len(expectations), NEW misused,
           NEW d \in ExpectationOf(Mocks, MatcherLists),
           ~misused => Amended(expectations[k], d),
           Configure(k, misused, d)
    PROVE  Goal
<1>1. CASE misused
  BY <1>1, RaiseGoal DEF Configure
<1>2. CASE ~misused
  <2>1. /\ expectations' = [expectations EXCEPT ![k] = d]
        /\ UNCHANGED << registered, stack, failures, threw, phase, calls >>
        /\ phase = "running"
    BY <1>2 DEF Configure, UserRunning
  <2>2. Waiting'
    BY <2>1 DEF Accounts, Waiting
  <2>3. Changing(k, d)
    BY <2>1 DEF Changing, AnyUnexpected
  <2> QED
    BY <1>2, <2>2, <2>3, ChangingStep DEF Goal
<1> QED
  BY <1>1, <1>2

LEMMA TimesAmends ==
    ASSUME NEW e \in ExpectationOf(Mocks, MatcherLists), NEW n \in Nat,
           ~TimesMisused(e)
    PROVE  /\ [e EXCEPT !.expectedNumMatches = n] \in ExpectationOf(Mocks, MatcherLists)
           /\ Amended(e, [e EXCEPT !.expectedNumMatches = n])
<1> DEFINE d == [e EXCEPT !.expectedNumMatches = n]
<1>1. /\ d \in ExpectationOf(Mocks, MatcherLists)
      /\ d.expectedNumMatches = n /\ d.numMatches = e.numMatches
  BY DEF ExpectationOf
<1> HIDE DEF d
<1>2. e.expectedNumMatches = NoCount /\ ~e.fallbackAction
  BY DEF TimesMisused
<1>3. n # NoCount
  BY NoCountAssumption
<1>4. PromiseOf(e).settled = FALSE
  BY <1>2 DEF PromiseOf
<1>5. PromiseOf(d).exact = TRUE /\ PromiseOf(d).settled = TRUE
  BY <1>1, <1>3 DEF PromiseOf
<1>6. Amended(e, d)
  BY <1>1, <1>4, <1>5 DEF Amended, Contract!Fixed
<1> QED
  BY <1>1, <1>6 DEF d

LEMMA WillOnceAmends ==
    ASSUME NEW e \in ExpectationOf(Mocks, MatcherLists), ~OnceMisused(e)
    PROVE  Amended(e, [e EXCEPT !.oneTimeActions = Append(@, FALSE)])
<1> DEFINE d == [e EXCEPT !.oneTimeActions = Append(@, FALSE)]
           s == Append(e.oneTimeActions, FALSE)
<1>1. /\ e.oneTimeActions \in Seq(BOOLEAN) /\ e.fallbackAction = FALSE
      /\ e.expectedNumMatches \in Nat \cup {NoCount}
  BY DEF ExpectationOf, OnceMisused
<1>2. s \in Seq(BOOLEAN) /\ Len(s) = Len(e.oneTimeActions) + 1 /\ Len(e.oneTimeActions) \in Nat
  BY <1>1, AppendProperties
<1>3. d = [e EXCEPT !.oneTimeActions = s]
  OBVIOUS
<1> HIDE DEF d, s
<1>4. /\ d \in ExpectationOf(Mocks, MatcherLists)
      /\ d.oneTimeActions = s /\ d.numMatches = e.numMatches
      /\ d.fallbackAction = e.fallbackAction /\ d.expectedNumMatches = e.expectedNumMatches
  BY <1>2, <1>3 DEF ExpectationOf
<1>5. ASSUME e.expectedNumMatches # NoCount PROVE Amended(e, d)
  <2>1. PromiseOf(d) = PromiseOf(e)
    BY <1>1, <1>4, <1>5 DEF PromiseOf
  <2> QED
    BY <1>4, <2>1 DEF Amended
<1>6. ASSUME e.expectedNumMatches = NoCount PROVE Amended(e, d)
  <2> DEFINE n == Len(e.oneTimeActions)
  <2>1. /\ PromiseOf(e).settled = FALSE
        /\ PromiseOf(e).least = IF n = 0 THEN 1 ELSE n
    BY <1>1, <1>6 DEF PromiseOf
  <2>2. /\ PromiseOf(d).exact = TRUE /\ PromiseOf(d).settled = FALSE
        /\ PromiseOf(d).least = n + 1
    <3>1. Len(d.oneTimeActions) = n + 1 /\ n + 1 # 0
      BY <1>2, <1>4
    <3> HIDE DEF n
    <3> QED
      BY <1>1, <1>4, <1>6, <3>1 DEF PromiseOf
  <2>3. Contract!Raised(PromiseOf(e), PromiseOf(d))
    <3>1. PromiseOf(d).least \in {PromiseOf(e).least, PromiseOf(e).least + 1}
      <4>1. CASE n = 0
        BY <2>1, <2>2, <4>1
      <4>2. CASE n # 0
        BY <2>1, <2>2, <4>2
      <4> QED BY <4>1, <4>2
    <3> QED
      BY <2>2, <3>1 DEF Contract!Raised
  <2> QED
    BY <1>4, <2>1, <2>3 DEF Amended
<1>7. Amended(e, d)
  BY <1>5, <1>6
<1> QED
  BY <1>7 DEF d

LEMMA WillRepeatedlyAmends ==
    ASSUME NEW e \in ExpectationOf(Mocks, MatcherLists), ~e.fallbackAction
    PROVE  Amended(e, [e EXCEPT !.fallbackAction = TRUE])
<1> DEFINE d == [e EXCEPT !.fallbackAction = TRUE]
           n == Len(e.oneTimeActions)
<1>1. e.oneTimeActions \in Seq(BOOLEAN) /\ e.fallbackAction = FALSE
  BY DEF ExpectationOf
<1>2. n \in Nat
  BY <1>1
<1>3. /\ d \in ExpectationOf(Mocks, MatcherLists)
      /\ d.oneTimeActions = e.oneTimeActions /\ d.numMatches = e.numMatches
      /\ d.fallbackAction = TRUE /\ d.expectedNumMatches = e.expectedNumMatches
  BY DEF ExpectationOf
<1> HIDE DEF d
<1>4. ASSUME e.expectedNumMatches # NoCount PROVE Amended(e, d)
  <2>1. PromiseOf(d) = PromiseOf(e)
    BY <1>3, <1>4 DEF PromiseOf
  <2> QED
    BY <1>3, <2>1 DEF Amended
<1>5. ASSUME e.expectedNumMatches = NoCount PROVE Amended(e, d)
  <2>1. /\ PromiseOf(e).settled = FALSE
        /\ PromiseOf(e).least = IF n = 0 THEN 1 ELSE n
    BY <1>1, <1>5 DEF PromiseOf
  <2>2. /\ PromiseOf(d).exact = FALSE /\ PromiseOf(d).settled = TRUE
        /\ PromiseOf(d).least = n
    BY <1>3, <1>5 DEF PromiseOf
  <2>3. Contract!Relaxed(PromiseOf(e), PromiseOf(d))
    <3>1. PromiseOf(d).least \in {0, PromiseOf(e).least}
      BY <2>1, <2>2
    <3> QED
      BY <2>2, <3>1 DEF Contract!Relaxed
  <2> QED
    BY <1>3, <2>1, <2>3 DEF Amended
<1>6. Amended(e, d)
  BY <1>4, <1>5
<1> QED
  BY <1>6 DEF d

LEMMA WrapperGoal ==
    ASSUME Accounts, NEW k \in 1..Len(expectations),
           (\E n \in 0..MaxTimes : Times(k, n)) \/ WillOnce(k) \/ WillRepeatedly(k)
    PROVE  Goal
<1> DEFINE e == expectations[k]
<1>1. e \in ExpectationOf(Mocks, MatcherLists)
  BY DEF Accounts, Shape, TypeOK
<1>2. ASSUME NEW n \in 0..MaxTimes, Times(k, n) PROVE Goal
  <2> DEFINE d == [e EXCEPT !.expectedNumMatches = n]
  <2>1. Configure(k, TimesMisused(e), d)
    BY <1>2 DEF Times
  <2>2. n \in Nat
    OBVIOUS
  <2>3. d \in ExpectationOf(Mocks, MatcherLists)
    <3> HIDE DEF e
    <3> QED
      BY <1>1, <2>2 DEF ExpectationOf
  <2>4. ~TimesMisused(e) => Amended(e, d)
    BY <1>1, <2>2, TimesAmends
  <2> HIDE DEF d
  <2> QED
    BY <2>1, <2>3, <2>4, ConfigureGoal
<1>3. ASSUME WillOnce(k) PROVE Goal
  <2> DEFINE d == [e EXCEPT !.oneTimeActions = Append(@, FALSE)]
  <2>1. Configure(k, OnceMisused(e), d)
    BY <1>3 DEF WillOnce
  <2>2. d \in ExpectationOf(Mocks, MatcherLists)
    <3> HIDE DEF e
    <3>1. e.oneTimeActions \in Seq(BOOLEAN)
      BY <1>1 DEF ExpectationOf
    <3>2. Append(e.oneTimeActions, FALSE) \in Seq(BOOLEAN)
      BY <3>1, AppendProperties
    <3> QED
      BY <1>1, <3>2 DEF ExpectationOf
  <2>3. ~OnceMisused(e) => Amended(e, d)
    BY <1>1, WillOnceAmends
  <2> HIDE DEF d
  <2> QED
    BY <2>1, <2>2, <2>3, ConfigureGoal
<1>4. ASSUME WillRepeatedly(k) PROVE Goal
  <2> DEFINE d == [e EXCEPT !.fallbackAction = TRUE]
  <2>1. Configure(k, e.fallbackAction, d)
    BY <1>4 DEF WillRepeatedly
  <2>2. d \in ExpectationOf(Mocks, MatcherLists)
    <3> HIDE DEF e
    <3> QED
      BY <1>1 DEF ExpectationOf
  <2>3. ~e.fallbackAction => Amended(e, d)
    BY <1>1, WillRepeatedlyAmends
  <2> HIDE DEF d
  <2> QED
    BY <2>1, <2>2, <2>3, ConfigureGoal
<1> QED
  BY <1>2, <1>3, <1>4

-----------------------------------------------------------------------------
(* The steps of a search.                                                  *)

LEMMA AskPredicateGoal == ASSUME Accounts, AskPredicate PROVE Goal
<1> DEFINE t == Len(stack)
           f == [Top EXCEPT !.asked = TRUE]
           p == Frame("predicate", 0, 0)
<1>1. /\ Searching /\ phase = "running" /\ stack' = Append(SetTop(f), p)
      /\ UNCHANGED << expectations, registered, failures, threw, phase, calls >>
  BY DEF AskPredicate, Searching
<1>2. t \in Nat /\ t > 1 /\ stack \in Seq(Frames) /\ Top = stack[t] /\ Top \in Frames
  BY <1>1, SearchFacts, StackFacts DEF Accounts, Top
<1>3. f \in Frames /\ f.role = Top.role /\ f.call = Top.call
  BY <1>2 DEF Frames
<1>4. p \in Frames /\ p.role = "predicate"
  BY DEF Frame, Frames, UserRoles
<1> HIDE DEF f, p
<1>5. /\ SetTop(f) \in Seq(Frames) /\ Len(SetTop(f)) = t /\ SetTop(f)[t] = f
      /\ \A g \in 1..t : g # t => SetTop(f)[g] = stack[g]
  BY <1>2, <1>3 DEF SetTop
<1>6. /\ Len(stack') = t + 1 /\ stack'[t + 1] = p
      /\ \A g \in 1..t : stack'[g] = SetTop(f)[g]
  BY <1>1, <1>4, <1>5, AppendProperties
<1>7. FewerSearches
  <2> SUFFICES ASSUME NEW g \in 1..Len(stack'), stack'[g].role = "call"
               PROVE  g \in 1..t /\ stack[g].role = "call" /\ stack'[g].call = stack[g].call
    BY DEF FewerSearches
  <2>1. g # t + 1
    BY <1>4, <1>6
  <2>2. g \in 1..t
    BY <1>2, <1>6, <2>1
  <2> QED
    BY <1>2, <1>3, <1>5, <1>6, <2>2
<1>8. Waiting'
  BY <1>1, <1>2, <1>6, <1>7, WaitingKept DEF Accounts, ResolvedLeave
<1>9. Silent
  BY <1>1 DEF Silent, AnyUnexpected
<1> QED
  BY <1>8, <1>9, SilentGoal

LEMMA NoMatchGoal == ASSUME Accounts, NoMatch PROVE Goal
<1> DEFINE t == Len(stack)
           f == Frame("call", Top.call, Older(Top.next))
<1>1. /\ Searching /\ phase = "running" /\ stack' = SetTop(f)
      /\ UNCHANGED << expectations, registered, failures, threw, phase, calls >>
      /\ Top.role = "call"
  BY DEF NoMatch, Answered, Searching
<1>2. t \in Nat /\ t > 1 /\ stack \in Seq(Frames) /\ Top = stack[t]
  BY <1>1, SearchFacts, StackFacts DEF Accounts, Top
<1>3. f.call = Top.call
  BY DEF Frame
<1> HIDE DEF f
<1>4. /\ Len(stack') = t /\ stack'[t] = f
      /\ \A g \in 1..t : g # t => stack'[g] = stack[g]
  BY <1>1, <1>2 DEF SetTop
<1>5. FewerSearches
  BY <1>1, <1>2, <1>3, <1>4 DEF FewerSearches
<1>6. Waiting'
  BY <1>1, <1>2, <1>4, <1>5, WaitingKept DEF Accounts, ResolvedLeave
<1>7. Silent
  BY <1>1 DEF Silent, AnyUnexpected
<1> QED
  BY <1>6, <1>7, SilentGoal

(* A search that is given up leaves nothing the contract sees. *)
LEMMA GiveUpGoal == ASSUME Accounts, PredicateError \/ UnexpectedThrows PROVE Goal
<1>1. /\ Searching /\ phase = "running" /\ stack' = Pop(stack)
      /\ calls' = Resolve(Top.call, "aborted", 0)
      /\ UNCHANGED << expectations, registered, failures, threw, phase >>
  BY DEF PredicateError, UnexpectedThrows, Answered, Searching
<1>2. Waiting' /\ (AnyUnexpected' <=> AnyUnexpected)
  <2>1. "aborted" \in Statuses /\ 0 \in Nat /\ "aborted" # "unexpected"
    BY DEF Statuses
  <2> QED
    BY <1>1, <2>1, PopSearchWaiting DEF Accounts
<1>3. Silent
  BY <1>1, <1>2 DEF Silent
<1> QED
  BY <1>2, <1>3, SilentGoal

LEMMA UnexpectedGoal == ASSUME Accounts, Unexpected PROVE Goal
<1>1. /\ Searching /\ phase = "running" /\ stack' = Pop(stack)
      /\ calls' = Resolve(Top.call, "unexpected", 0)
      /\ failures' = failures + 1
      /\ UNCHANGED << expectations, registered, threw, phase >>
  BY DEF Unexpected, Searching
<1>2. Waiting' /\ AnyUnexpected'
  <2>1. "unexpected" \in Statuses /\ 0 \in Nat
    BY DEF Statuses
  <2> QED
    BY <1>1, <2>1, PopSearchWaiting DEF Accounts
<1>3. Failing
  BY <1>1, <1>2 DEF Failing
<1> QED
  BY <1>2, <1>3, FailingStep DEF Goal

(* What a match leaves of a promise: itself, with one more call credited.  *)
LEMMA CountedCredits ==
    ASSUME NEW e \in ExpectationOf(Mocks, MatcherLists)
    PROVE  CreditedWith(e, Counted(e))
BY CountedProperties DEF CreditedWith, PromiseOf

LEMMA ExpiredCredits ==
    ASSUME NEW e \in ExpectationOf(Mocks, MatcherLists), NEW i \in DOMAIN e.oneTimeActions
    PROVE  CreditedWith(e, Expire(Counted(e), i))
<1> DEFINE c == Counted(e)
           d == Expire(c, i)
<1>1. /\ c \in ExpectationOf(Mocks, MatcherLists)
      /\ c.oneTimeActions = e.oneTimeActions /\ c.fallbackAction = e.fallbackAction
      /\ c.expectedNumMatches = e.expectedNumMatches /\ c.numMatches = e.numMatches + 1
  BY CountedProperties
<1> HIDE DEF c
<1>2. /\ d.oneTimeActions = [c.oneTimeActions EXCEPT ![i] = TRUE]
      /\ d.fallbackAction = c.fallbackAction
      /\ d.expectedNumMatches = c.expectedNumMatches /\ d.numMatches = c.numMatches
  BY <1>1, ExpireProperties
<1> HIDE DEF d
<1>3. Len(d.oneTimeActions) = Len(e.oneTimeActions)
  <2>1. e.oneTimeActions \in Seq(BOOLEAN)
    BY DEF ExpectationOf
  <2> QED
    BY <1>1, <1>2, <2>1
<1>4. PromiseOf(d) = PromiseOf(e) /\ d.numMatches = e.numMatches + 1
  BY <1>1, <1>2, <1>3 DEF PromiseOf
<1> QED
  BY <1>4 DEF CreditedWith, d, c

(* A match credits its candidate. *)
LEMMA MatchCredits ==
    ASSUME Accounts, MatchOnce \/ MatchFallback \/ MatchEmpty
    PROVE  \E d \in ExpectationOf(Mocks, MatcherLists) :
              /\ CreditedWith(expectations[Candidate], d)
              /\ expectations' = [expectations EXCEPT ![Candidate] = d]
<1> DEFINE e == expectations[Candidate]
<1>1. e \in ExpectationOf(Mocks, MatcherLists)
  BY SearchFacts DEF Accounts, MatchOnce, MatchFallback, MatchEmpty, Answered
<1>2. Counted(e) \in ExpectationOf(Mocks, MatcherLists)
      /\ Counted(e).oneTimeActions = e.oneTimeActions
  BY <1>1, CountedProperties
<1>3. CASE MatchOnce
  <2>1. PICK i \in DOMAIN e.oneTimeActions : Match("once", i, Expire(Counted(e), i))
    BY <1>3 DEF MatchOnce
  <2>2. Expire(Counted(e), i) \in ExpectationOf(Mocks, MatcherLists)
    BY <1>2, ExpireProperties
  <2>3. CreditedWith(e, Expire(Counted(e), i))
    BY <1>1, ExpiredCredits
  <2>4. expectations' = [expectations EXCEPT ![Candidate] = Expire(Counted(e), i)]
    BY <2>1 DEF Match
  <2> QED
    BY <2>2, <2>3, <2>4
<1>4. CASE MatchFallback \/ MatchEmpty
  <2>1. expectations' = [expectations EXCEPT ![Candidate] = Counted(e)]
    BY <1>4 DEF MatchFallback, MatchEmpty, Match
  <2>2. CreditedWith(e, Counted(e))
    BY <1>1, CountedCredits
  <2> QED
    BY <1>2, <2>1, <2>2
<1> QED
  BY <1>3, <1>4

LEMMA MatchGoal ==
    ASSUME Accounts, MatchOnce \/ MatchFallback \/ MatchEmpty
    PROVE  Goal
<1> DEFINE e == expectations[Candidate]
<1>1. /\ Searching /\ phase = "running"
      /\ Candidate \in 1..Len(expectations)
      /\ e \in ExpectationOf(Mocks, MatcherLists)
  BY SearchFacts DEF Accounts, MatchOnce, MatchFallback, MatchEmpty, Answered, Searching
<1>2. /\ calls' = Resolve(Top.call, "credited", Candidate)
      /\ stack' = SetTop(Frame("action", 0, 0)) \/ stack' = Pop(stack)
      /\ UNCHANGED << registered, failures, threw, phase >>
  BY MatchesKeep DEF Accounts
<1>3. Waiting' /\ (AnyUnexpected' <=> AnyUnexpected)
  <2>1. "credited" \in Statuses /\ Candidate \in Nat /\ "credited" # "unexpected"
    BY <1>1 DEF Statuses
  <2> QED
    BY <1>1, <1>2, <2>1, PopSearchWaiting, SetTopWaiting DEF Accounts
<1>4. PICK d \in ExpectationOf(Mocks, MatcherLists) :
         CreditedWith(e, d) /\ expectations' = [expectations EXCEPT ![Candidate] = d]
  BY MatchCredits
<1>5. Changing(Candidate, d)
  BY <1>1, <1>2, <1>3, <1>4 DEF Changing
<1> QED
  BY <1>3, <1>4, <1>5, ChangingStep DEF Goal

-----------------------------------------------------------------------------

LEMMA AccountsInit == Init => Accounts
<1> SUFFICES ASSUME Init PROVE Accounts
  OBVIOUS
<1>1. Waiting
  BY DEF Init, Waiting, Frame
<1>2. Tally
  BY DEF Init, Tally, AnyUnexpected
<1>3. Verdict
  BY DEF Init, Verdict
<1> QED
  BY <1>1, <1>2, <1>3, ShapeInit DEF Accounts

LEMMA AccountsInductive == Accounts /\ [Next]_vars => Accounts' /\ ContractStep
<1> SUFFICES ASSUME Accounts, [Next]_vars PROVE Accounts' /\ ContractStep
  OBVIOUS
<1>1. Goal
  <2>1. CASE AuthorStep
    <3>1. CASE Throw
      BY <3>1, RaiseGoal DEF Throw
    <3>2. CASE Return
      BY <3>2, ReturnGoal
    <3>3. CASE \E m \in Mocks, ms \in MatcherLists : ExpectCall(m, ms)
      BY <3>3, ExpectCallStep DEF Goal
    <3>4. CASE \E k \in DOMAIN expectations :
                  (\E n \in 0..MaxTimes : Times(k, n)) \/ WillOnce(k) \/ WillRepeatedly(k)
      <4>1. DOMAIN expectations = 1..Len(expectations)
        BY DEF Accounts, Shape, TypeOK
      <4> QED
        BY <3>4, <4>1, WrapperGoal
    <3>5. CASE \E m \in Mocks, args \in ArgLists : CallMock(m, args)
      BY <3>5, CallMockGoal
    <3> QED
      BY <2>1, <3>1, <3>2, <3>3, <3>4, <3>5 DEF AuthorStep
  <2>2. CASE SearchStep
    BY <2>2, AskPredicateGoal, NoMatchGoal, GiveUpGoal, UnexpectedGoal, MatchGoal
       DEF SearchStep
  <2>3. CASE Verify
    BY <2>3, VerifyStep DEF Goal
  <2>4. CASE Terminated \/ UNCHANGED vars
    <3>1. UNCHANGED vars
      BY <2>4 DEF Terminated
    <3>2. Waiting' /\ Tally' /\ Verdict'
      BY <3>1 DEF vars, Accounts, Waiting, Tally, Verdict, AnyUnexpected
    <3>3. UNCHANGED << Promises, Credited, Failed, VerdictNow >>
      BY <3>1 DEF vars, Promises, Credited, Failed, VerdictNow, AnyUnexpected
    <3> QED
      BY <3>2, <3>3
         DEF Goal, ContractStep, Contract!vars, Promises, Credited, Failed, VerdictNow
  <2> QED
    BY <2>1, <2>2, <2>3, <2>4 DEF Next
<1>2. Shape'
  BY ShapeInductive DEF Accounts
<1> QED
  BY <1>1, <1>2 DEF Goal, Accounts

(* The verdict of runTest agrees with what happened: the test passes iff   *)
(* no exception left it, no call of a mock function was unexpected and     *)
(* every expectation got a number of calls its configuration allows.       *)
THEOREM VerdictCorrect == Spec => []Verdict
<1>1. Init => Accounts
  BY AccountsInit
<1>2. Accounts /\ [Next]_vars => Accounts'
  BY AccountsInductive
<1>3. Accounts => Verdict
  BY DEF Accounts
<1> QED
  BY <1>1, <1>2, <1>3, PTL DEF Spec

(* Mocking implements the contract: whatever the author's code does inside *)
(* searches, promises are amended only until they are settled, calls are   *)
(* credited one by one, and the verdict is the one the promises call for.  *)
THEOREM ImplementsContract == Spec => ContractSpec
<1>1. Init => Accounts
  BY AccountsInit
<1>2. Accounts /\ [Next]_vars => Accounts' /\ ContractStep
  BY AccountsInductive
<1>3. Init => Contract!Init
  BY DEF Init, Contract!Init, AnyUnexpected
<1> QED
  BY <1>1, <1>2, <1>3, PTL DEF Spec, ContractSpec, Contract!Spec, ContractStep

-----------------------------------------------------------------------------
(* That every call of a mock function is accounted for once: the count of  *)
(* an expectation is the number of calls credited to it.                   *)

CreditedTo(k) == { i \in DOMAIN calls : calls[i].status = "credited" /\ calls[i].by = k }

(* The calls that a frame of the stack searches for. *)
SearchedFor == { stack[f].call : f \in { g \in DOMAIN stack : stack[g].role = "call" } }

(* Calls are credited to expectations that exist. *)
CreditsExist ==
    \A i \in DOMAIN calls :
        calls[i].status = "credited" => calls[i].by \in DOMAIN expectations

Books == Accounts /\ CreditsExist /\ CallsAccounted

-----------------------------------------------------------------------------

LEMMA BookFacts ==
    ASSUME Accounts
    PROVE  /\ stack \in Seq(Frames) /\ Len(stack) \in Nat /\ DOMAIN stack = 1..Len(stack)
           /\ calls \in Seq(Calls) /\ Len(calls) \in Nat /\ DOMAIN calls = 1..Len(calls)
           /\ expectations \in Seq(ExpectationOf(Mocks, MatcherLists))
           /\ Len(expectations) \in Nat /\ DOMAIN expectations = 1..Len(expectations)
           /\ \A k : IsFiniteSet(CreditedTo(k))
<1>1. /\ stack \in Seq(Frames) /\ calls \in Seq(Calls)
      /\ expectations \in Seq(ExpectationOf(Mocks, MatcherLists))
  BY DEF Accounts, Shape, TypeOK
<1>2. \A k : IsFiniteSet(CreditedTo(k))
  <2> SUFFICES ASSUME NEW k PROVE IsFiniteSet(CreditedTo(k))
    OBVIOUS
  <2>1. CreditedTo(k) \subseteq 1..Len(calls) /\ Len(calls) \in Nat
    BY <1>1 DEF CreditedTo
  <2>2. IsFiniteSet(1..Len(calls))
    BY <2>1, FS_Interval
  <2> QED
    BY <2>1, <2>2, FS_Subset
<1> QED
  BY <1>1, <1>2

LEMMA AccountedAs ==
    CallsAccounted <=>
        /\ \A k \in DOMAIN expectations :
              expectations[k].numMatches = Cardinality(CreditedTo(k))
        /\ \A i \in DOMAIN calls : calls[i].status = "searching" <=> i \in SearchedFor
BY DEF CallsAccounted, CreditedTo, SearchedFor

(* The counts do not change, nor do the searches. *)
LEMMA QuietBooks ==
    ASSUME Books, UNCHANGED calls, SearchedFor' = SearchedFor,
           DOMAIN expectations' = DOMAIN expectations,
           \A k \in DOMAIN expectations :
               expectations'[k].numMatches = expectations[k].numMatches
    PROVE  CreditsExist' /\ CallsAccounted'
<1>1. CreditsExist'
  BY DEF Books, CreditsExist
<1>2. \A k : CreditedTo(k)' = CreditedTo(k)
  BY DEF CreditedTo
<1>3. /\ \A k \in DOMAIN expectations' :
            expectations'[k].numMatches = Cardinality(CreditedTo(k)')
      /\ \A i \in DOMAIN calls' : calls'[i].status = "searching" <=> i \in SearchedFor'
  BY <1>2, AccountedAs DEF Books
<1>4. CallsAccounted'
  BY <1>3 DEF CallsAccounted, CreditedTo, SearchedFor
<1> QED
  BY <1>1, <1>4

(* A search is over.  If its call is credited, one expectation counts it.  *)
LEMMA ResolvedBooks ==
    ASSUME Books, NEW c \in DOMAIN calls, calls[c].status = "searching",
           NEW status \in Statuses, status # "searching", NEW k \in Nat,
           calls' = Resolve(c, status, k), SearchedFor' = SearchedFor \ {c},
           DOMAIN expectations' = DOMAIN expectations,
           status = "credited" => k \in DOMAIN expectations,
           \A j \in DOMAIN expectations :
               expectations'[j].numMatches =
                   IF status = "credited" /\ j = k THEN expectations[j].numMatches + 1
                   ELSE expectations[j].numMatches
    PROVE  CreditsExist' /\ CallsAccounted'
<1>1. /\ DOMAIN calls' = DOMAIN calls
      /\ calls'[c].status = status /\ calls'[c].by = k
      /\ \A i \in DOMAIN calls : i # c => calls'[i] = calls[i]
  BY DEF Resolve
<1>2. CreditsExist'
  BY <1>1 DEF Books, CreditsExist
<1>3. \A j : /\ CreditedTo(j)' = IF status = "credited" /\ j = k THEN CreditedTo(j) \cup {c}
                                 ELSE CreditedTo(j)
             /\ c \notin CreditedTo(j)
             /\ IsFiniteSet(CreditedTo(j))
  <2>1. \A j : IsFiniteSet(CreditedTo(j))
    BY BookFacts DEF Books
  <2>2. \A j : c \notin CreditedTo(j)
    BY DEF CreditedTo
  <2>3. \A j : CreditedTo(j)' = IF status = "credited" /\ j = k THEN CreditedTo(j) \cup {c}
                                ELSE CreditedTo(j)
    BY <1>1 DEF CreditedTo
  <2> QED
    BY <2>1, <2>2, <2>3
<1>4. ASSUME NEW j \in DOMAIN expectations
      PROVE  expectations'[j].numMatches = Cardinality(CreditedTo(j)')
  <2>1. expectations[j].numMatches = Cardinality(CreditedTo(j))
    BY AccountedAs DEF Books
  <2>2. Cardinality(CreditedTo(j) \cup {c}) = Cardinality(CreditedTo(j)) + 1
    BY <1>3, FS_AddElement
  <2> QED
    BY <1>3, <2>1, <2>2
<1>5. \A i \in DOMAIN calls : calls'[i].status = "searching" <=> i \in SearchedFor'
  BY <1>1, AccountedAs DEF Books
<1>6. CallsAccounted'
  BY <1>1, <1>4, <1>5 DEF CallsAccounted, CreditedTo, SearchedFor
<1> QED
  BY <1>2, <1>6

-----------------------------------------------------------------------------
(* The searches that are left.                                             *)

(* The frames from m on leave the stack, and none of them is a search.     *)
LEMMA OthersLeave ==
    ASSUME Accounts, NEW m \in 0..Len(stack), Len(stack') = m, DOMAIN stack' = 1..m,
           \A f \in 1..m : stack'[f] = stack[f],
           \A f \in (m + 1)..Len(stack) : stack[f].role # "call"
    PROVE  SearchedFor' = SearchedFor
<1>1. Len(stack) \in Nat /\ DOMAIN stack = 1..Len(stack)
  BY BookFacts
<1>2. { g \in DOMAIN stack' : stack'[g].role = "call" } = { g \in DOMAIN stack : stack[g].role = "call" }
  <2>1. \A g \in 1..Len(stack) : g \in 1..m \/ g \in (m + 1)..Len(stack)
    BY <1>1
  <2>2. \A g \in 1..m : g \in 1..Len(stack)
    BY <1>1
  <2> QED
    BY <1>1, <2>1, <2>2
<1>3. \A g \in { h \in DOMAIN stack' : stack'[h].role = "call" } : stack'[g] = stack[g]
  OBVIOUS
<1> QED
  BY <1>2, <1>3 DEF SearchedFor

(* The innermost search leaves, and what is above it. *)
LEMMA SearchLeaves ==
    ASSUME Accounts, NEW t \in 1..Len(stack), stack[t].role = "call",
           NEW m \in Nat, m <= Len(stack), DOMAIN stack' = 1..m,
           \A f \in 1..m : stack'[f].role = "call" => f # t /\ stack'[f] = stack[f],
           \A f \in 1..Len(stack) :
               stack[f].role = "call" => f = t \/ (f < t /\ f \in 1..m /\ stack'[f] = stack[f])
    PROVE  SearchedFor' = SearchedFor \ {stack[t].call}
<1>1. Len(stack) \in Nat /\ DOMAIN stack = 1..Len(stack)
  BY BookFacts
<1>2. ASSUME NEW f \in 1..Len(stack), stack[f].role = "call", f # t
      PROVE  stack[f].call # stack[t].call
  <2>1. f \in 1..(t - 1) /\ stack[f].call \in Nat /\ stack[t].call \in Nat
    <3>1. f \in 1..(t - 1)
      BY <1>1, <1>2
    <3>2. stack[f] \in Frames /\ stack[t] \in Frames
      BY BookFacts
    <3> QED
      BY <3>1, <3>2 DEF Frames
  <2>2. stack[f].call < stack[t].call
    BY <1>2, <2>1 DEF Accounts, Waiting
  <2> QED
    BY <2>1, <2>2
<1>3. ASSUME NEW x \in SearchedFor' PROVE x \in SearchedFor \ {stack[t].call}
  <2>1. PICK f \in 1..m : stack'[f].role = "call" /\ x = stack'[f].call
    BY DEF SearchedFor
  <2>2. /\ f \in 1..Len(stack) /\ stack[f].role = "call" /\ x = stack[f].call /\ f # t
    BY <1>1, <2>1
  <2> QED
    BY <1>1, <1>2, <2>2 DEF SearchedFor
<1>4. ASSUME NEW x \in SearchedFor, x # stack[t].call PROVE x \in SearchedFor'
  <2>1. PICK f \in 1..Len(stack) : stack[f].role = "call" /\ x = stack[f].call
    BY <1>1 DEF SearchedFor
  <2>2. f \in 1..m /\ stack'[f] = stack[f]
    BY <1>4, <2>1
  <2> QED
    BY <2>1, <2>2 DEF SearchedFor
<1> QED
  BY <1>3, <1>4

-----------------------------------------------------------------------------
(* The actions, one after the other.                                       *)

Balanced == CreditsExist' /\ CallsAccounted'

(* The innermost frame leaves, and it is no search. *)
LEMMA PopOtherBalanced ==
    ASSUME Books, Len(stack) > 0, Top.role # "call", stack' = Pop(stack),
           UNCHANGED << calls, expectations >>
    PROVE  Balanced
<1> DEFINE n == Len(stack)
           m == n - 1
<1>1. stack \in Seq(Frames) /\ n \in Nat /\ m \in 0..n /\ stack[n].role # "call"
  BY BookFacts DEF Books, Top
<1>2. stack' \in Seq(Frames) /\ Len(stack') = m /\ \A f \in 1..m : stack'[f] = stack[f]
  BY <1>1, PopProperties
<1>3. DOMAIN stack' = 1..m /\ \A f \in (m + 1)..n : f = n
  BY <1>1, <1>2
<1> HIDE DEF m
<1>4. SearchedFor' = SearchedFor
  BY <1>1, <1>2, <1>3, OthersLeave DEF Books
<1> QED
  BY <1>4, QuietBooks DEF Books, Balanced

(* The innermost frame is a search, which leaves or makes way for the      *)
(* frame of an action.                                                     *)
LEMMA TopSearchLeaves ==
    ASSUME Accounts, Searching,
           stack' = Pop(stack) \/ stack' = SetTop(Frame("action", 0, 0))
    PROVE  /\ SearchedFor' = SearchedFor \ {Top.call}
           /\ Top.call \in DOMAIN calls /\ calls[Top.call].status = "searching"
<1> DEFINE t == Len(stack)
<1>1. /\ t \in Nat /\ t > 1 /\ stack \in Seq(Frames) /\ Top = stack[t]
      /\ stack[t].role = "call" /\ t \in 1..Len(stack) /\ Top.call \in DOMAIN calls
  BY SearchFacts, BookFacts DEF Accounts, Searching, Top
<1>2. calls[Top.call].status = "searching"
  BY <1>1 DEF Accounts, Waiting
<1>3. CASE stack' = Pop(stack)
  <2>1. stack' \in Seq(Frames) /\ Len(stack') = t - 1 /\ \A f \in 1..(t - 1) : stack'[f] = stack[f]
    BY <1>1, <1>3, PopProperties
  <2>2. /\ t - 1 \in Nat /\ t - 1 <= t /\ DOMAIN stack' = 1..(t - 1)
        /\ \A f \in 1..(t - 1) : f # t
        /\ \A f \in 1..t : f = t \/ (f < t /\ f \in 1..(t - 1))
    BY <1>1, <2>1
  <2>3. SearchedFor' = SearchedFor \ {stack[t].call}
    <3> HIDE DEF t
    <3> QED
      BY <1>1, <2>1, <2>2, SearchLeaves DEF t
  <2> QED
    BY <1>1, <1>2, <2>3
<1>4. CASE stack' = SetTop(Frame("action", 0, 0))
  <2>1. /\ Len(stack') = t /\ stack'[t].role = "action" /\ DOMAIN stack' = 1..t
        /\ \A f \in 1..t : f # t => stack'[f] = stack[f]
    BY <1>1, <1>4 DEF SetTop, Frame
  <2>2. \A f \in 1..t : f = t \/ (f < t /\ f \in 1..t)
    BY <1>1
  <2>3. /\ \A f \in 1..t : stack'[f].role = "call" => f # t /\ stack'[f] = stack[f]
        /\ \A f \in 1..t :
              stack[f].role = "call" => f = t \/ (f < t /\ f \in 1..t /\ stack'[f] = stack[f])
        /\ t <= t
    <3>1. "action" # "call" /\ t <= t
      BY <1>1
    <3>2. \A f \in 1..t : stack'[f].role = "call" => f # t
      BY <2>1, <3>1
    <3> QED
      BY <2>1, <2>2, <3>1, <3>2, Zenon
  <2>4. SearchedFor' = SearchedFor \ {stack[t].call}
    BY <1>1, <2>1, <2>3, SearchLeaves
  <2> QED
    BY <1>1, <1>2, <2>4
<1> QED
  BY <1>3, <1>4

LEMMA RaiseBalanced == ASSUME Books, UserRunning, Raise PROVE Balanced
<1>1. /\ stack \in Seq(Frames) /\ Len(stack) \in Nat /\ Len(stack) > 0
      /\ DOMAIN stack = 1..Len(stack)
      /\ FrameOK(Len(stack)) /\ Top = stack[Len(stack)]
  BY StackFacts, BookFacts DEF Books, Accounts, UserRunning, Top
<1>2. CASE RaiseFromTest
  <2>1. Len(stack) = 1 /\ stack' = << >> /\ UNCHANGED << calls, expectations >>
    BY <1>1, <1>2 DEF RaiseFromTest, FrameOK
  <2>2. stack[1].role # "call"
    BY <1>1, <1>2, <2>1 DEF RaiseFromTest
  <2>3. \A f \in 1..Len(stack) : f = 1
    BY <2>1
  <2>4. SearchedFor = {}
    BY <1>1, <2>2, <2>3 DEF SearchedFor
  <2>5. SearchedFor' = {}
    BY <2>1 DEF SearchedFor
  <2> QED
    BY <2>1, <2>4, <2>5, QuietBooks DEF Balanced
<1>3. CASE RaiseFromAction
  BY <1>1, <1>3, PopOtherBalanced DEF RaiseFromAction
<1>4. CASE RaiseFromPredicate
  <2> DEFINE n == Len(stack)
             t == n - 1
             m == t - 1
  <2>1. stack[n].role = "predicate" /\ stack[t].role = "call" /\ n # 1
    BY <1>1, <1>4 DEF RaiseFromPredicate, FrameOK
  <2>2. /\ t \in 1..Len(stack) /\ m \in Nat /\ m <= Len(stack)
        /\ \A f \in 1..m : f # t /\ f \in 1..t
        /\ \A f \in 1..Len(stack) : f = n \/ f = t \/ (f < t /\ f \in 1..m)
    <3>1. n \in Nat /\ n > 1 /\ Len(stack) = n
      BY <1>1, <2>1
    <3> HIDE DEF n
    <3> QED
      BY <3>1
  <2>3. /\ Pop(stack) \in Seq(Frames) /\ Len(Pop(stack)) = t
        /\ \A f \in 1..t : Pop(stack)[f] = stack[f]
    BY <1>1, PopProperties
  <2>4. /\ stack' = Pop(Pop(stack)) /\ calls' = Resolve(stack[t].call, "aborted", 0)
        /\ UNCHANGED expectations
    BY <1>4 DEF RaiseFromPredicate
  <2>5. /\ stack' \in Seq(Frames) /\ Len(stack') = m
        /\ \A f \in 1..m : stack'[f] = Pop(stack)[f]
    <3>1. Len(Pop(stack)) > 0
      BY <2>2, <2>3
    <3> HIDE DEF t
    <3> QED
      BY <2>3, <2>4, <3>1, PopProperties
  <2>6. DOMAIN stack' = 1..m
    BY <2>5
  <2> HIDE DEF m, t, n
  <2>7. \A f \in 1..m : stack'[f] = stack[f]
    BY <2>2, <2>3, <2>5
  <2>8. SearchedFor' = SearchedFor \ {stack[t].call}
    BY <2>1, <2>2, <2>6, <2>7, SearchLeaves DEF Books
  <2>9. stack[t].call \in DOMAIN calls /\ calls[stack[t].call].status = "searching"
    BY <2>1, <2>2, BookFacts DEF Books, Accounts, Waiting, Shape, StackOK, FrameOK
  <2>10. "aborted" \in Statuses
    BY DEF Statuses
  <2> QED
    BY <2>4, <2>8, <2>9, <2>10, ResolvedBooks DEF Balanced
<1> QED
  BY <1>2, <1>3, <1>4 DEF Raise

LEMMA ReturnBalanced == ASSUME Books, Return PROVE Balanced
<1>1. Len(stack) > 0 /\ Top.role # "call"
  BY StackFacts DEF Books, Accounts, Return, UserRunning, UserRoles
<1> QED
  BY <1>1, PopOtherBalanced DEF Return

(* A new expectation has no call credited to it. *)
LEMMA ExpectCallBalanced ==
    ASSUME Books, NEW m \in Mocks, NEW ms \in MatcherLists, ExpectCall(m, ms)
    PROVE  Balanced
<1> DEFINE n == Len(expectations) + 1
           e == NewExpectation(m, ms)
<1>1. /\ expectations' = Append(expectations, e) /\ UNCHANGED << stack, calls >>
  BY DEF ExpectCall
<1>2. e.numMatches = 0
  BY DEF NewExpectation
<1> HIDE DEF e
<1>3. /\ DOMAIN expectations = 1..Len(expectations) /\ Len(expectations) \in Nat
      /\ DOMAIN expectations' = 1..n /\ expectations'[n] = e
      /\ \A k \in DOMAIN expectations : expectations'[k] = expectations[k]
  BY <1>1, BookFacts DEF Books
<1>4. /\ n \notin DOMAIN expectations
      /\ \A k \in 1..n : k = n \/ k \in DOMAIN expectations
      /\ DOMAIN expectations \subseteq DOMAIN expectations'
  BY <1>3
<1> HIDE DEF n
<1>5. CreditsExist'
  BY <1>1, <1>4 DEF Books, CreditsExist
<1>6. (\A k : CreditedTo(k)' = CreditedTo(k)) /\ SearchedFor' = SearchedFor
  BY <1>1 DEF CreditedTo, SearchedFor
<1>7. CreditedTo(n) = {}
  BY <1>4 DEF Books, CreditsExist, CreditedTo
<1>8. \A k \in DOMAIN expectations' :
          expectations'[k].numMatches = Cardinality(CreditedTo(k)')
  <2>1. \A k \in DOMAIN expectations : expectations[k].numMatches = Cardinality(CreditedTo(k))
    BY AccountedAs DEF Books
  <2> QED
    BY <1>2, <1>3, <1>4, <1>6, <1>7, <2>1, FS_EmptySet
<1>9. \A i \in DOMAIN calls' : calls'[i].status = "searching" <=> i \in SearchedFor'
  BY <1>1, <1>6, AccountedAs DEF Books
<1>10. CallsAccounted'
  BY <1>8, <1>9 DEF CallsAccounted, CreditedTo, SearchedFor
<1> QED
  BY <1>5, <1>10 DEF Balanced

LEMMA WrapperBalanced ==
    ASSUME Books, NEW k \in 1..Len(expectations),
           (\E n \in 0..MaxTimes : Times(k, n)) \/ WillOnce(k) \/ WillRepeatedly(k)
    PROVE  Balanced
<1> DEFINE e == expectations[k]
<1>1. e \in ExpectationOf(Mocks, MatcherLists)
  BY BookFacts DEF Books
<1>2. ASSUME NEW misused, NEW d, d.numMatches = e.numMatches, Configure(k, misused, d)
      PROVE  Balanced
  <2>1. CASE misused
    BY <1>2, <2>1, RaiseBalanced DEF Configure
  <2>2. CASE ~misused
    <3>1. /\ expectations' = [expectations EXCEPT ![k] = d]
          /\ UNCHANGED << stack, calls >>
      BY <1>2, <2>2 DEF Configure
    <3>2. DOMAIN expectations = 1..Len(expectations)
      BY BookFacts DEF Books
    <3>3. /\ DOMAIN expectations' = DOMAIN expectations
          /\ \A j \in DOMAIN expectations :
                expectations'[j].numMatches = expectations[j].numMatches
      BY <1>2, <3>1, <3>2
    <3>4. SearchedFor' = SearchedFor
      BY <3>1 DEF SearchedFor
    <3> QED
      BY <3>1, <3>3, <3>4, QuietBooks DEF Balanced
  <2> QED
    BY <2>1, <2>2
<1>3. ASSUME NEW n \in 0..MaxTimes, Times(k, n) PROVE Balanced
  <2>1. [e EXCEPT !.expectedNumMatches = n].numMatches = e.numMatches
    <3> HIDE DEF e
    <3> QED
      BY <1>1 DEF ExpectationOf
  <2>2. Configure(k, TimesMisused(e), [e EXCEPT !.expectedNumMatches = n])
    BY <1>3 DEF Times
  <2> QED
    BY <1>2, <2>1, <2>2
<1>4. ASSUME WillOnce(k) PROVE Balanced
  <2>1. [e EXCEPT !.oneTimeActions = Append(@, FALSE)].numMatches = e.numMatches
    <3> HIDE DEF e
    <3> QED
      BY <1>1 DEF ExpectationOf
  <2>2. Configure(k, OnceMisused(e), [e EXCEPT !.oneTimeActions = Append(@, FALSE)])
    BY <1>4 DEF WillOnce
  <2> QED
    BY <1>2, <2>1, <2>2
<1>5. ASSUME WillRepeatedly(k) PROVE Balanced
  <2>1. [e EXCEPT !.fallbackAction = TRUE].numMatches = e.numMatches
    <3> HIDE DEF e
    <3> QED
      BY <1>1 DEF ExpectationOf
  <2>2. Configure(k, e.fallbackAction, [e EXCEPT !.fallbackAction = TRUE])
    BY <1>5 DEF WillRepeatedly
  <2> QED
    BY <1>2, <2>1, <2>2
<1> QED
  BY <1>3, <1>4, <1>5

LEMMA CallMockBalanced ==
    ASSUME Books, NEW m \in Mocks, NEW args \in ArgLists, CallMock(m, args)
    PROVE  Balanced
<1> DEFINE t == Len(stack) + 1
           n == Len(calls) + 1
           c == [mock |-> m, args |-> args, born |-> Len(expectations),
                 status |-> "searching", by |-> 0]
           f == Frame("call", n, Len(lists[m]))
<1>1. /\ calls' = Append(calls, c) /\ stack' = Append(stack, f) /\ UNCHANGED expectations
  BY DEF CallMock
<1>2. c.status = "searching" /\ f.role = "call" /\ f.call = n
  BY DEF Frame
<1> HIDE DEF c, f
<1>3. /\ DOMAIN calls' = 1..n /\ calls'[n] = c
      /\ DOMAIN calls = 1..Len(calls) /\ Len(calls) \in Nat
      /\ \A i \in DOMAIN calls : calls'[i] = calls[i]
  BY <1>1, BookFacts DEF Books
<1>4. /\ DOMAIN stack' = 1..t /\ stack'[t] = f
      /\ DOMAIN stack = 1..Len(stack) /\ Len(stack) \in Nat
      /\ \A g \in DOMAIN stack : stack'[g] = stack[g]
  BY <1>1, BookFacts DEF Books
<1>5. /\ n \notin DOMAIN calls /\ n \in 1..n /\ t \in 1..t
      /\ \A i \in 1..n : i = n \/ i \in DOMAIN calls
      /\ \A g \in 1..t : g = t \/ g \in DOMAIN stack
      /\ DOMAIN calls \subseteq 1..n /\ DOMAIN stack \subseteq 1..t
  BY <1>3, <1>4
<1> HIDE DEF n, t
<1>6. SearchedFor' = SearchedFor \cup {n}
  <2>1. ASSUME NEW x \in SearchedFor' PROVE x \in SearchedFor \cup {n}
    <3>1. PICK g \in 1..t : stack'[g].role = "call" /\ x = stack'[g].call
      BY <1>4 DEF SearchedFor
    <3> QED
      BY <1>2, <1>4, <1>5, <3>1 DEF SearchedFor
  <2>2. ASSUME NEW x \in SearchedFor PROVE x \in SearchedFor'
    <3>1. PICK g \in DOMAIN stack : stack[g].role = "call" /\ x = stack[g].call
      BY DEF SearchedFor
    <3> QED
      BY <1>4, <1>5, <3>1 DEF SearchedFor
  <2>3. n \in SearchedFor'
    BY <1>2, <1>4, <1>5 DEF SearchedFor
  <2> QED
    BY <2>1, <2>2, <2>3
<1>7. \A k : CreditedTo(k)' = CreditedTo(k)
  BY <1>2, <1>3, <1>5 DEF CreditedTo
<1>8. CreditsExist'
  BY <1>1, <1>2, <1>3, <1>5 DEF Books, CreditsExist
<1>9. \A i \in DOMAIN calls' : calls'[i].status = "searching" <=> i \in SearchedFor'
  BY <1>2, <1>3, <1>5, <1>6, AccountedAs DEF Books
<1>10. \A k \in DOMAIN expectations' :
           expectations'[k].numMatches = Cardinality(CreditedTo(k)')
  BY <1>1, <1>7, AccountedAs DEF Books
<1>11. CallsAccounted'
  BY <1>9, <1>10 DEF CallsAccounted, CreditedTo, SearchedFor
<1> QED
  BY <1>8, <1>11 DEF Balanced

LEMMA AskPredicateBalanced == ASSUME Books, AskPredicate PROVE Balanced
<1> DEFINE t == Len(stack)
           f == [Top EXCEPT !.asked = TRUE]
           p == Frame("predicate", 0, 0)
<1>1. Searching /\ stack' = Append(SetTop(f), p) /\ UNCHANGED << calls, expectations >>
  BY DEF AskPredicate
<1>2. /\ t \in Nat /\ t > 1 /\ stack \in Seq(Frames) /\ Top = stack[t] /\ Top \in Frames
      /\ DOMAIN stack = 1..t
  BY <1>1, SearchFacts, BookFacts DEF Books, Accounts, Top
<1>3. f \in Frames /\ f.role = Top.role /\ f.call = Top.call
  BY <1>2 DEF Frames
<1>4. p \in Frames /\ p.role = "predicate"
  BY DEF Frame, Frames, UserRoles
<1> HIDE DEF f, p
<1>5. /\ SetTop(f) \in Seq(Frames) /\ Len(SetTop(f)) = t /\ SetTop(f)[t] = f
      /\ \A g \in 1..t : g # t => SetTop(f)[g] = stack[g]
  BY <1>2, <1>3 DEF SetTop
<1>6. /\ stack' \in Seq(Frames) /\ Len(stack') = t + 1 /\ stack'[t + 1] = p
      /\ \A g \in 1..t : stack'[g] = SetTop(f)[g]
  BY <1>1, <1>4, <1>5, AppendProperties
<1>7. /\ DOMAIN stack' = 1..(t + 1)
      /\ \A g \in 1..(t + 1) : g = t + 1 \/ g \in 1..t
      /\ 1..t \subseteq 1..(t + 1)
  BY <1>2, <1>6
<1>8. \A g \in 1..t : stack'[g].role = stack[g].role /\ stack'[g].call = stack[g].call
  BY <1>2, <1>3, <1>5, <1>6
<1> HIDE DEF t
<1>9. SearchedFor' = SearchedFor
  <2>1. { g \in DOMAIN stack' : stack'[g].role = "call" } = { g \in DOMAIN stack : stack[g].role = "call" }
    BY <1>2, <1>4, <1>6, <1>7, <1>8
  <2>2. \A g \in { h \in DOMAIN stack : stack[h].role = "call" } : stack'[g].call = stack[g].call
    BY <1>2, <1>8
  <2> QED
    BY <2>1, <2>2 DEF SearchedFor
<1> QED
  BY <1>1, <1>9, QuietBooks DEF Balanced

LEMMA NoMatchBalanced == ASSUME Books, NoMatch PROVE Balanced
<1> DEFINE t == Len(stack)
           f == Frame("call", Top.call, Older(Top.next))
<1>1. /\ Searching /\ stack' = SetTop(f) /\ UNCHANGED << calls, expectations >>
      /\ Top.role = "call"
  BY DEF NoMatch, Answered, Searching
<1>2. t \in Nat /\ t > 1 /\ stack \in Seq(Frames) /\ Top = stack[t] /\ DOMAIN stack = 1..t
  BY <1>1, SearchFacts, BookFacts DEF Books, Accounts, Top
<1>3. f.call = Top.call /\ f.role = Top.role
  BY <1>1 DEF Frame
<1> HIDE DEF f
<1>4. /\ DOMAIN stack' = 1..t
      /\ \A g \in 1..t : stack'[g].role = stack[g].role /\ stack'[g].call = stack[g].call
  BY <1>1, <1>2, <1>3 DEF SetTop
<1>5. SearchedFor' = SearchedFor
  <2>1. { g \in DOMAIN stack' : stack'[g].role = "call" } = { g \in DOMAIN stack : stack[g].role = "call" }
    BY <1>2, <1>4
  <2>2. \A g \in { h \in DOMAIN stack : stack[h].role = "call" } : stack'[g].call = stack[g].call
    BY <1>2, <1>4
  <2> QED
    BY <2>1, <2>2 DEF SearchedFor
<1> QED
  BY <1>1, <1>5, QuietBooks DEF Balanced

LEMMA UnmatchedBalanced ==
    ASSUME Books, PredicateError \/ Unexpected \/ UnexpectedThrows
    PROVE  Balanced
<1>1. /\ Searching /\ stack' = Pop(stack) /\ UNCHANGED expectations
      /\ \E status \in {"aborted", "unexpected"} : calls' = Resolve(Top.call, status, 0)
  BY DEF PredicateError, Unexpected, UnexpectedThrows, Answered
<1>2. /\ SearchedFor' = SearchedFor \ {Top.call}
      /\ Top.call \in DOMAIN calls /\ calls[Top.call].status = "searching"
  BY <1>1, TopSearchLeaves DEF Books
<1>3. PICK status \in Statuses :
         /\ status # "searching" /\ status # "credited"
         /\ calls' = Resolve(Top.call, status, 0)
  BY <1>1 DEF Statuses
<1> QED
  BY <1>1, <1>2, <1>3, ResolvedBooks DEF Balanced

LEMMA MatchBalanced ==
    ASSUME Books, MatchOnce \/ MatchFallback \/ MatchEmpty
    PROVE  Balanced
<1> DEFINE e == expectations[Candidate]
<1>1. /\ Searching /\ Candidate \in DOMAIN expectations /\ Candidate \in Nat
      /\ e \in ExpectationOf(Mocks, MatcherLists)
  BY SearchFacts, BookFacts
     DEF Books, Accounts, MatchOnce, MatchFallback, MatchEmpty, Answered
<1>2. /\ calls' = Resolve(Top.call, "credited", Candidate)
      /\ stack' = SetTop(Frame("action", 0, 0)) \/ stack' = Pop(stack)
  BY MatchesKeep DEF Books, Accounts
<1>3. /\ SearchedFor' = SearchedFor \ {Top.call}
      /\ Top.call \in DOMAIN calls /\ calls[Top.call].status = "searching"
  BY <1>1, <1>2, TopSearchLeaves DEF Books
<1>4. \E d : /\ d.numMatches = e.numMatches + 1
             /\ expectations' = [expectations EXCEPT ![Candidate] = d]
  BY <1>1, MatchCredits DEF Books, CreditedWith
<1>5. /\ DOMAIN expectations' = DOMAIN expectations
      /\ \A j \in DOMAIN expectations :
            expectations'[j].numMatches =
                IF j = Candidate THEN expectations[j].numMatches + 1
                ELSE expectations[j].numMatches
  BY <1>1, <1>4
<1>6. "credited" \in Statuses /\ "credited" # "searching"
  BY DEF Statuses
<1> QED
  BY <1>1, <1>2, <1>3, <1>5, <1>6, ResolvedBooks DEF Balanced

-----------------------------------------------------------------------------

LEMMA BooksInit == Init => Books
<1> SUFFICES ASSUME Init PROVE Books
  OBVIOUS
<1>1. CreditsExist /\ CallsAccounted
  BY DEF Init, Frame, CreditsExist, CallsAccounted
<1> QED
  BY <1>1, AccountsInit DEF Books

LEMMA BooksInductive == Books /\ [Next]_vars => Books'
<1> SUFFICES ASSUME Books, [Next]_vars PROVE Books'
  OBVIOUS
<1>1. Balanced
  <2>1. CASE AuthorStep
    <3>1. CASE Throw
      BY <3>1, RaiseBalanced DEF Throw
    <3>2. CASE Return
      BY <3>2, ReturnBalanced
    <3>3. CASE \E m \in Mocks, ms \in MatcherLists : ExpectCall(m, ms)
      BY <3>3, ExpectCallBalanced
    <3>4. CASE \E k \in DOMAIN expectations :
                  (\E n \in 0..MaxTimes : Times(k, n)) \/ WillOnce(k) \/ WillRepeatedly(k)
      <4>1. DOMAIN expectations = 1..Len(expectations)
        BY BookFacts DEF Books
      <4> QED
        BY <3>4, <4>1, WrapperBalanced
    <3>5. CASE \E m \in Mocks, args \in ArgLists : CallMock(m, args)
      BY <3>5, CallMockBalanced
    <3> QED
      BY <2>1, <3>1, <3>2, <3>3, <3>4, <3>5 DEF AuthorStep
  <2>2. CASE SearchStep
    BY <2>2, AskPredicateBalanced, NoMatchBalanced, UnmatchedBalanced, MatchBalanced
       DEF SearchStep
  <2>3. CASE Verify \/ Terminated \/ UNCHANGED vars
    <3>1. UNCHANGED << expectations, stack, calls >>
      BY <2>3 DEF Verify, Terminated, vars
    <3>2. SearchedFor' = SearchedFor
      BY <3>1 DEF SearchedFor
    <3> QED
      BY <3>1, <3>2, QuietBooks DEF Balanced
  <2> QED
    BY <2>1, <2>2, <2>3 DEF Next
<1>2. Accounts'
  BY AccountsInductive DEF Books
<1> QED
  BY <1>1, <1>2 DEF Books, Balanced

(* Every call is accounted for once: the count of an expectation is the    *)
(* number of calls credited to it, also of those whose action threw or has *)
(* not returned, and a call still being searched for has a frame.          *)
THEOREM CallsAccountedCorrect == Spec => []CallsAccounted
<1>1. Init => Books
  BY BooksInit
<1>2. Books /\ [Next]_vars => Books'
  BY BooksInductive
<1>3. Books => CallsAccounted
  BY DEF Books
<1> QED
  BY <1>1, <1>2, <1>3, PTL DEF Spec
=============================================================================
