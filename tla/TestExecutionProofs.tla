------------------------ MODULE TestExecutionProofs ------------------------
(* Theorems about TestExecution, for every number of tests and calls.      *)
EXTENDS TestExecution, TLAPS, SequenceTheorems

MockRecords == [owner : Tests, stub : BOOLEAN]
ExpectationRecords ==
    [mock : Nat, due : Nat, hostility : 0..MaxHostility, satisfied : BOOLEAN]

(* There is an environment while a function of gjstest runs that uses it,  *)
(* and nothing runs when runTest verifies expectations.                    *)
Frames ==
    /\ \A i \in 1..Len(stack) : stack[i] # 0 => env # 0
    /\ phase = "ending" => stack = << >>
    /\ phase \in {"running", "ending", "ended"} => test \in Tests

Typed ==
    /\ TypeOK
    /\ made \in Nat
    /\ mocks \in Seq(MockRecords)
    /\ expectations \in Seq(ExpectationRecords)
    /\ registered \in Seq(Nat)
    /\ Frames

LEMMA Bounds == MaxHostility \in Nat /\ NumTests \in Nat /\ NumTests > 0
BY BoundsAssumption, NumTestsAssumption

LEMMA Popped ==
    ASSUME NEW s \in Seq(Nat), NEW n \in 1..2, Len(s) >= n
    PROVE  /\ Pop(s, n) \in Seq(Nat)
           /\ Len(Pop(s, n)) = Len(s) - n
           /\ \A i \in 1..Len(Pop(s, n)) : i \in 1..Len(s) /\ Pop(s, n)[i] = s[i]
<1> DEFINE m == Len(s) - n
<1>1. Len(s) \in Nat /\ m \in Nat /\ \A i \in 1..m : s[i] \in Nat
  BY ElementOfSeq
<1>2. /\ SubSeq(s, 1, m) \in Seq(Nat)
      /\ Len(SubSeq(s, 1, m)) = IF 1 <= m THEN m - 1 + 1 ELSE 0
      /\ \A i \in 1..(m - 1 + 1) : SubSeq(s, 1, m)[i] = s[1 + i - 1]
  <2> HIDE DEF m
  <2> QED BY <1>1, SubSeqProperties
<1>3. Len(SubSeq(s, 1, m)) = m /\ \A i \in 1..m : SubSeq(s, 1, m)[i] = s[i]
  <2> HIDE DEF m
  <2> QED BY <1>1, <1>2
<1>4. \A i \in 1..m : i \in 1..Len(s)
  BY <1>1
<1>5. Pop(s, n) = SubSeq(s, 1, m)
  BY DEF Pop
<1> QED
  <2> HIDE DEF m
  <2>1. Len(s) - n = m
    BY DEF m
  <2> QED BY <1>2, <1>3, <1>4, <1>5, <2>1

LEMMA TypedInit == Init => Typed
<1> SUFFICES ASSUME Init PROVE Typed
  OBVIOUS
<1>1. /\ stack \in Seq(Nat) /\ mocks \in Seq(MockRecords)
      /\ expectations \in Seq(ExpectationRecords) /\ registered \in Seq(Nat)
  BY DEF Init
<1> QED
  BY <1>1, Bounds DEF Init, Typed, TypeOK, Frames, Tests

(* What is thrown has the type of an exception, and is not none. *)
LEMMA Thrown ==
    ASSUME NEW through \in SUBSET Nat,
           NEW x \in Values(MaxHostility) \cup Values(MaxHostility - 1) \cup Exceptions
    PROVE  /\ Exception(x, through) \in Exceptions
           /\ Exception(x, through) # None
           /\ Exception(x, through).through = through
<1>1. x.hostility \in 0..MaxHostility /\ x.nullish \in BOOLEAN
  BY Bounds DEF Values, Exceptions
<1>2. Exception(x, through) \in Exceptions
  BY <1>1 DEF Exception, Exceptions
<1> QED
  BY <1>2, NoneAssumption DEF Exception

LEMMA ErrorThrown ==
    ASSUME NEW through \in SUBSET Nat
    PROVE  /\ Error(through) \in Exceptions
           /\ Error(through) # None
           /\ Error(through).through = through
<1>1. [hostility |-> 0, nullish |-> FALSE] \in Values(MaxHostility)
  BY Bounds DEF Values
<1> QED
  BY <1>1, Thrown DEF Error

(* The author's code is left, or an exception goes through it. *)
LEMMA LeaveTyped ==
    ASSUME Typed, stack # << >>, NEW e, e = None \/ e \in Exceptions, Leave(e), LeaveUnchanged
    PROVE  Typed'
<1>1. /\ stack \in Seq(Nat) /\ Len(stack) \in Nat \ {0}
      /\ \A i \in 1..Len(stack) : stack[i] \in Nat
  BY EmptySeq, ElementOfSeq DEF Typed, TypeOK
<1>2. UNCHANGED << host, test, env, userStack, escaped, results, made, mocks, expectations,
                   registered, failed, reports >>
  BY DEF LeaveUnchanged, mocking, verdicts
<1>3. CASE Len(stack) > 1
  <2>1. PICK n \in 1..2 : stack' = Pop(stack, n)
    BY <1>3 DEF Leave
  <2>2. /\ stack' \in Seq(Nat)
        /\ \A i \in 1..Len(stack') : i \in 1..Len(stack) /\ stack'[i] = stack[i]
    <3>1. Len(stack) >= n
      BY <1>1, <1>3
    <3> QED
      BY <1>1, <2>1, <3>1, Popped
  <2>3. pending' = None \/ pending' \in Exceptions
    <3>1. stack[Len(stack) - 1] \in Nat
      BY <1>1, <1>3
    <3>2. ASSUME e # None
          PROVE  Exception(e, e.through \cup {stack[Len(stack) - 1]}) \in Exceptions
      <4>1. e \in Exceptions /\ e.through \cup {stack[Len(stack) - 1]} \in SUBSET Nat
        BY <3>1, <3>2 DEF Exceptions
      <4> QED
        BY <4>1, Thrown
    <3> QED
      BY <1>3, <3>2 DEF Leave
  <2>4. phase' = phase /\ phase # "ending"
    BY <1>1, <1>3 DEF Leave, Typed, Frames
  <2> QED
    BY <1>2, <2>2, <2>3, <2>4 DEF Typed, TypeOK, Frames
<1>4. CASE ~(Len(stack) > 1)
  <2>1. /\ stack' = << >>
        /\ pending' = None \/ pending' \in Exceptions
        /\ phase' = IF phase = "running" THEN "ending" ELSE phase
    BY <1>4 DEF Leave
  <2>2. stack' \in Seq(Nat) /\ Len(stack') = 0
    BY <2>1
  <2> QED
    BY <1>2, <2>1, <2>2 DEF Typed, TypeOK, Frames
<1> QED
  BY <1>3, <1>4

(* A failure is reported to tests there are. *)
LEMMA ReportTyped ==
    ASSUME TypeOK, NEW rs, Report(rs), \A r \in rs : r.to \in Tests
    PROVE  failed' \in [Tests -> BOOLEAN] /\ \A r \in reports' : r.to \in Tests
BY DEF TypeOK, Report

(* The end of runTest: what CleanUp and Escape make of the environment. *)
LEMMA EndTyped ==
    ASSUME Typed, phase = "ending", phase' = "ended",
           \/ CleanUp
           \/ \E h \in 0..MaxHostility : Escape(h),
           pending' = None,
           UNCHANGED << host, test, userStack, stack, mocks, expectations, made, results >>,
           failed' \in [Tests -> BOOLEAN], \A r \in reports' : r.to \in Tests
    PROVE  Typed'
<1>1. stack = << >> /\ Len(stack) = 0
  BY DEF Typed, Frames
<1>2. CASE CleanUp
  <2>1. registered' = << >> /\ env' = 0 /\ escaped' = escaped
    BY <1>2 DEF CleanUp, RegisteredCleared, EnvironmentReset
  <2>2. registered' \in Seq(Nat) /\ DOMAIN registered' = {}
    BY <2>1
  <2> QED
    BY <1>1, <2>1, <2>2, Bounds DEF Typed, TypeOK, Frames
<1>3. CASE \E h \in 0..MaxHostility : Escape(h)
  <2>1. registered' = registered /\ env' = env
    BY <1>3 DEF Escape
  <2>2. escaped' \in Exceptions
    BY <1>3 DEF Escape, Exception, Exceptions
  <2> QED
    BY <1>1, <2>1, <2>2 DEF Typed, TypeOK, Frames
<1> QED
  BY <1>2, <1>3

(* Calls that leave the stack and the mocks alone. *)
LEMMA AuthorTyped ==
    ASSUME Typed,
           CallWithoutEnvironment \/ CallMisused \/ Swallow
              \/ \E m \in DOMAIN mocks, x \in Values(MaxHostility - 1) : CallIndescribable(m, x)
    PROVE  Typed'
<1>1. /\ UNCHANGED << stack, host, phase, test, env, escaped, results, mocks, expectations,
                      registered, failed, reports >>
      /\ made' \in Nat
  BY DEF Typed, CallWithoutEnvironment, CallMisused, Swallow, CallIndescribable, Calls, runner,
         mocking, verdicts
<1>2. userStack' \in [Tests -> Nat]
  <2>1. CASE CallMisused
    <3>1. Call \in Nat /\ userStack' = [userStack EXCEPT ![env] = Call]
      BY <2>1 DEF CallMisused, RecordUserStack, Call, Typed
    <3> QED
      BY <3>1 DEF Typed, TypeOK
  <2>2. CASE ~CallMisused
    BY <2>2 DEF Typed, TypeOK, CallWithoutEnvironment, Swallow, CallIndescribable
  <2> QED
    BY <2>1, <2>2
<1>3. pending' = None \/ pending' \in Exceptions
  <2>1. CASE CallWithoutEnvironment \/ CallMisused
    BY <2>1, ErrorThrown DEF Typed, CallWithoutEnvironment, CallMisused, Call
  <2>2. CASE \E m \in DOMAIN mocks, x \in Values(MaxHostility - 1) : CallIndescribable(m, x)
    BY <2>2, Thrown DEF CallIndescribable
  <2> QED
    BY <2>1, <2>2 DEF Swallow
<1> QED
  BY <1>1, <1>2, <1>3 DEF Typed, TypeOK, Frames

LEMMA StartsTyped ==
    ASSUME Typed, StartTest \/ LateCallback
    PROVE  Typed'
<1>1. /\ stack' = << 0 >>
      /\ stack' \in Seq(Nat)
      /\ Len(stack') = 1 /\ stack'[1] = 0
  <2>1. stack' = << 0 >>
    BY DEF StartTest, LateCallback
  <2> QED
    BY <2>1
<1>2. /\ UNCHANGED << host, userStack, pending, escaped, results, mocks, expectations,
                      registered, failed, reports >>
      /\ made' \in Nat
  BY DEF Typed, StartTest, LateCallback, runner, mocking, verdicts
<1>3. /\ test' \in 0..NumTests /\ env' \in 0..NumTests
      /\ phase' \in {"idle", "running", "ended"}
      /\ phase' \in {"running", "ended"} => test' \in Tests
  <2>1. CASE StartTest
    BY <2>1, Bounds DEF Typed, TypeOK, StartTest, MoreTests, Tests
  <2>2. CASE LateCallback
    BY <2>2 DEF Typed, TypeOK, LateCallback, Frames, runner
  <2> QED
    BY <2>1, <2>2
<1> QED
  BY <1>1, <1>2, <1>3 DEF Typed, TypeOK, Frames

(* An assertion has an environment, also when its matcher has run code. *)
LEMMA AssertionEnvironment ==
    ASSUME Typed, AssertionStep
    PROVE  /\ stack \in Seq(Nat) /\ Len(stack) \in Nat \ {0}
           /\ Top \in Nat \ {0}
           /\ env \in Tests
<1>1. stack \in Seq(Nat) /\ stack # << >> /\ Top # 0
  BY DEF AssertionStep, AssertionHolds, AssertionFails, AssertionIndescribable, Asserting,
         Typed, TypeOK
<1>2. Len(stack) \in Nat \ {0}
  BY <1>1, EmptySeq
<1>3. Top \in Nat /\ Len(stack) \in 1..Len(stack)
  BY <1>1, <1>2, ElementOfSeq DEF Top
<1>4. env # 0
  BY <1>1, <1>3 DEF Top, Typed, Frames
<1> QED
  BY <1>1, <1>2, <1>3, <1>4, Bounds DEF Typed, TypeOK, Tests

LEMMA AssertionTyped ==
    ASSUME Typed, AssertionStep
    PROVE  Typed'
<1>1. /\ stack \in Seq(Nat) /\ Len(stack) \in Nat \ {0}
      /\ Top \in Nat \ {0}
      /\ env \in Tests
  BY AssertionEnvironment
<1>2. stack' = Pop(stack, 1)
  BY DEF AssertionStep, AssertionHolds, AssertionFails, AssertionIndescribable
<1>3. /\ stack' \in Seq(Nat)
      /\ \A i \in 1..Len(stack') : i \in 1..Len(stack) /\ stack'[i] = stack[i]
  BY <1>1, <1>2, Popped
<1>4. UNCHANGED << host, phase, test, env, escaped, results, mocks, expectations, registered,
                   made >>
  BY DEF AssertionStep, AssertionHolds, AssertionFails, AssertionIndescribable, runner, mocking
<1>5. pending' = None \/ pending' \in Exceptions
  <2>1. CASE \E x \in Values(MaxHostility - 1) : AssertionIndescribable(x)
    BY <1>1, <2>1, Thrown DEF AssertionIndescribable
  <2> QED
    BY <2>1 DEF AssertionStep, AssertionHolds, AssertionFails, Typed, TypeOK
<1>6. userStack' \in [Tests -> Nat]
  BY DEF AssertionStep, AssertionHolds, AssertionFails, AssertionIndescribable, ClearUserStack,
     Typed, TypeOK
<1>7. failed' \in [Tests -> BOOLEAN] /\ \A r \in reports' : r.to \in Tests
  <2>1. CASE UNCHANGED verdicts
    BY <2>1 DEF verdicts, Typed, TypeOK
  <2>2. CASE AssertionFails
    BY <1>1, <2>2, ReportTyped DEF AssertionFails, Reported, ReportedAt, Typed
  <2> QED
    BY <2>1, <2>2 DEF AssertionStep, AssertionHolds, AssertionIndescribable
<1>8. phase # "ending"
  BY <1>1 DEF Typed, Frames
<1> QED
  BY <1>3, <1>4, <1>5, <1>6, <1>7, <1>8 DEF Typed, TypeOK, Frames

LEMMA ExpectThatTyped ==
    ASSUME Typed, NEW asks \in BOOLEAN, ExpectThat(asks)
    PROVE  Typed'
<1>1. /\ Call \in Nat \ {0} /\ made' \in Nat /\ env # 0
      /\ UNCHANGED << host, phase, test, env, escaped, results, mocks, expectations, registered,
                      pending, failed, reports >>
  BY DEF Typed, ExpectThat, Calls, Call, runner, mocking, verdicts
<1>2. userStack' \in [Tests -> Nat]
  BY <1>1 DEF ExpectThat, RecordUserStack, Typed, TypeOK
<1>3. stack' \in Seq(Nat)
  <2>1. PICK frames : /\ frames = IF asks THEN << Call, 0 >> ELSE << Call >>
                      /\ stack' = stack \o frames
    BY DEF ExpectThat
  <2>2. frames \in Seq(Nat)
    BY <1>1, <2>1
  <2> QED
    BY <2>1, <2>2, ConcatProperties DEF Typed, TypeOK
<1>4. phase # "ending"
  BY DEF ExpectThat, Calls, AuthorRuns, Typed, Frames
<1> QED
  BY <1>1, <1>2, <1>3, <1>4 DEF Typed, TypeOK, Frames

LEMMA MocksTyped ==
    ASSUME Typed, CreateMockFunction \/ \E m \in DOMAIN mocks : ExpectCall(m)
    PROVE  Typed'
<1>1. /\ made' \in Nat /\ env \in Tests
      /\ UNCHANGED << stack, pending, host, phase, test, env, escaped, results, expectations,
                      registered, failed, reports >>
  BY Bounds DEF Typed, TypeOK, CreateMockFunction, ExpectCall, Calls, runner, verdicts, Tests
<1>2. userStack' \in [Tests -> Nat]
  <2>1. ClearUserStack
    BY DEF CreateMockFunction, ExpectCall
  <2> QED
    BY <2>1 DEF ClearUserStack, Typed, TypeOK
<1>3. mocks \in Seq(MockRecords)
  BY DEF Typed
<1>4. mocks' \in Seq(MockRecords)
  <2>1. CASE CreateMockFunction
    <3>1. PICK mock \in MockRecords : mocks' = Append(mocks, mock)
      BY <1>1, <2>1 DEF CreateMockFunction, MockRecords
    <3> QED
      BY <1>3, <3>1, AppendProperties
  <2>2. ASSUME NEW m \in DOMAIN mocks, ExpectCall(m)
        PROVE  mocks' \in Seq(MockRecords)
    <3>1. m \in 1..Len(mocks)
      BY <1>3, LenProperties
    <3>2. mocks[m] \in MockRecords
      BY <1>3, <3>1, ElementOfSeq
    <3>3. PICK mock : mock = [mocks[m] EXCEPT !.stub = TRUE]
      OBVIOUS
    <3>4. mock \in MockRecords
      BY <3>2, <3>3 DEF MockRecords
    <3>5. mocks' = [mocks EXCEPT ![m] = mock]
      BY <2>2, <3>3 DEF ExpectCall
    <3> QED
      BY <1>3, <3>1, <3>4, <3>5, ExceptSeq
  <2> QED
    BY <2>1, <2>2
<1>5. \A m \in DOMAIN mocks' : mocks'[m].owner \in Tests
  <2>1. \A m \in 1..Len(mocks') : mocks'[m] \in MockRecords
    BY <1>4, ElementOfSeq
  <2> QED
    BY <1>4, <2>1, LenProperties DEF MockRecords
<1> QED
  BY <1>1, <1>2, <1>4, <1>5 DEF Typed, TypeOK, Frames

LEMMA StubTyped ==
    ASSUME Typed, NEW h \in 0..MaxHostility, NEW m \in DOMAIN mocks, Stub(m, h)
    PROVE  Typed'
<1>1. /\ made' \in Nat
      /\ UNCHANGED << userStack, stack, pending, mocks, host, phase, test, env, escaped, results,
                      failed, reports >>
  BY DEF Typed, Stub, Calls, runner, verdicts
<1>2. /\ expectations \in Seq(ExpectationRecords) /\ registered \in Seq(Nat)
      /\ mocks \in Seq(MockRecords)
      /\ \A i \in 1..Len(registered) : registered[i] \in 1..Len(expectations)
  BY LenProperties DEF Typed, TypeOK
<1>3. Len(expectations) \in Nat /\ m \in Nat
  BY <1>2, LenProperties
<1>4. PICK expectation \in ExpectationRecords : expectations' = Append(expectations, expectation)
  <2>1. Due \in Nat
    BY Bounds DEF Due, Typed, TypeOK
  <2> QED
    BY <1>3, <2>1 DEF Stub, ExpectationRecords
<1>5. /\ expectations' \in Seq(ExpectationRecords)
      /\ Len(expectations') = Len(expectations) + 1
  BY <1>2, <1>4, AppendProperties
<1>6. PICK new \in Nat : new = Len(expectations) + 1
  BY <1>3
<1>7. registered' = Append(registered, new)
  BY <1>6 DEF Stub
<1>8. /\ registered' \in Seq(Nat)
      /\ Len(registered') = Len(registered) + 1
      /\ \A i \in 1..Len(registered) : registered'[i] = registered[i]
      /\ registered'[Len(registered) + 1] = new
  BY <1>2, <1>6, <1>7, AppendProperties
<1>9. \A i \in DOMAIN registered' : registered'[i] \in DOMAIN expectations'
  <2>1. /\ DOMAIN registered' = 1..(Len(registered) + 1) /\ Len(registered) \in Nat
        /\ DOMAIN expectations' = 1..(Len(expectations) + 1)
    BY <1>2, <1>5, <1>8, LenProperties
  <2>2. \A i \in 1..Len(registered) : registered'[i] \in 1..Len(expectations)
    BY <1>2, <1>8
  <2>3. new \in DOMAIN expectations' /\ \A j \in 1..Len(expectations) : j \in DOMAIN expectations'
    BY <1>3, <1>6, <2>1
  <2>4. \A i \in DOMAIN registered' : i \in 1..Len(registered) \/ i = Len(registered) + 1
    BY <2>1
  <2> QED
    BY <1>8, <2>2, <2>3, <2>4
<1> QED
  BY <1>1, <1>5, <1>8, <1>9 DEF Typed, TypeOK, Frames

LEMMA CallTakenTyped ==
    ASSUME Typed, NEW k \in DOMAIN expectations, CallTaken(k)
    PROVE  Typed'
<1>1. /\ made' \in Nat
      /\ UNCHANGED << userStack, stack, pending, mocks, registered, host, phase, test, env,
                      escaped, results, failed, reports >>
  BY DEF Typed, CallTaken, Calls, runner, verdicts
<1>2. expectations \in Seq(ExpectationRecords) /\ k \in 1..Len(expectations)
  BY LenProperties DEF Typed
<1>3. PICK s \in BOOLEAN : expectations' = [expectations EXCEPT ![k].satisfied = s]
  BY DEF CallTaken
<1>4. PICK e : e = [expectations[k] EXCEPT !.satisfied = s]
  OBVIOUS
<1>5. e \in ExpectationRecords
  <2>1. expectations[k] \in ExpectationRecords
    BY <1>2, ElementOfSeq
  <2> QED
    BY <1>4, <2>1 DEF ExpectationRecords
<1>6. expectations' = [expectations EXCEPT ![k] = e]
  BY <1>3, <1>4
<1>7. expectations' \in Seq(ExpectationRecords) /\ DOMAIN expectations' = DOMAIN expectations
  BY <1>2, <1>5, <1>6, ExceptSeq
<1> QED
  BY <1>1, <1>7 DEF Typed, TypeOK, Frames

LEMMA CallUnexpectedTyped ==
    ASSUME Typed, NEW m \in DOMAIN mocks, CallUnexpected(m) \/ CallbackUsedAfterwards(m)
    PROVE  Typed'
<1>1. CASE CallUnexpected(m)
  <2>1. /\ made' \in Nat
        /\ UNCHANGED << userStack, stack, pending, host, phase, test, env, escaped, results,
                        mocks, expectations, registered >>
    BY <1>1 DEF Typed, CallUnexpected, Calls, runner, mocking
  <2>2. failed' \in [Tests -> BOOLEAN] /\ \A r \in reports' : r.to \in Tests
    BY <1>1, ReportTyped DEF CallUnexpected, Reported, ReportedAt, Reporter, Typed, TypeOK
  <2> QED
    BY <2>1, <2>2 DEF Typed, TypeOK, Frames
<1>2. CASE CallbackUsedAfterwards(m)
  <2>1. /\ made' \in Nat /\ phase' = "undefined" /\ stack' = << >>
        /\ UNCHANGED << userStack, pending, host, test, env, escaped, results, mocks,
                        expectations, registered, failed, reports >>
    BY <1>2 DEF Typed, CallbackUsedAfterwards, Calls, mocking, verdicts
  <2>2. stack' \in Seq(Nat) /\ Len(stack') = 0
    BY <2>1
  <2> QED
    BY <2>1, <2>2 DEF Typed, TypeOK, Frames
<1> QED
  BY <1>1, <1>2

(* The three ways in which runTest ends with an exception. *)
LEMMA CatchCases ==
    ASSUME Typed, CatchException
    PROVE  /\ pending \in Exceptions /\ pending # None /\ pending' = None
           /\ phase = "ending" /\ phase' = "ended" /\ test \in Tests
           /\ UNCHANGED << host, test, userStack, stack, mocks, expectations, made, results,
                           unsaid >>
           /\ left' = left \cup pending.through
           /\ \/ Report({Reported("exception", test, pending.through, 0)}) /\ CleanUp
              \/ UNCHANGED verdicts /\ \E h \in 0..MaxHostility : Escape(h)
<1>1. test \in Tests /\ pending \in Exceptions /\ pending # None
  BY DEF CatchException, Typed, TypeOK, Frames
<1>2. pending.hostility \in 0..MaxHostility
  BY <1>1 DEF Exceptions
<1>3. 0 \in 0..MaxHostility /\ (pending.hostility > 0 => pending.hostility - 1 \in 0..MaxHostility)
  BY <1>2, Bounds
<1>4. \/ Report({Reported("exception", test, pending.through, 0)}) /\ CleanUp
      \/ UNCHANGED verdicts /\ \E h \in 0..MaxHostility : Escape(h)
  BY <1>3 DEF CatchException
<1> QED
  BY <1>1, <1>4 DEF CatchException, Over

LEMMA CatchTyped ==
    ASSUME Typed, CatchException
    PROVE  Typed'
<1>1. failed' \in [Tests -> BOOLEAN] /\ \A r \in reports' : r.to \in Tests
  <2>1. CASE Report({Reported("exception", test, pending.through, 0)})
    BY <2>1, CatchCases, ReportTyped DEF Reported, ReportedAt, Typed
  <2>2. CASE UNCHANGED verdicts
    BY <2>2 DEF verdicts, Typed, TypeOK
  <2> QED
    BY <2>1, <2>2, CatchCases
<1> QED
  BY <1>1, CatchCases, EndTyped

LEMMA HostileEnough ==
    ASSUME Typed, NEW i \in Indescribable
    PROVE  expectations[registered[i]].hostility - 1 \in 0..MaxHostility
<1>1. /\ expectations \in Seq(ExpectationRecords)
      /\ registered[i] \in DOMAIN expectations
      /\ expectations[registered[i]].hostility > 0
  BY DEF Typed, TypeOK, Indescribable, Unsatisfied
<1>2. expectations[registered[i]] \in ExpectationRecords
  BY <1>1, ElementOfSeq, LenProperties
<1> QED
  BY <1>1, <1>2, Bounds DEF ExpectationRecords

LEMMA VerifyTyped ==
    ASSUME Typed, VerifyExpectations
    PROVE  Typed'
<1>1. test \in Tests
  BY DEF VerifyExpectations, Typed, Frames
<1>2. failed' \in [Tests -> BOOLEAN] /\ \A r \in reports' : r.to \in Tests
  BY <1>1, ReportTyped DEF VerifyExpectations, Reported, ReportedAt, Typed
<1>3. CleanUp \/ \E h \in 0..MaxHostility : Escape(h)
  <2>1. CASE Indescribable = {}
    BY <2>1 DEF VerifyExpectations
  <2>2. CASE Indescribable # {}
    <3>1. PICK i \in Indescribable : Escape(expectations[registered[i]].hostility - 1)
      BY <2>2 DEF VerifyExpectations
    <3> QED
      BY <3>1, HostileEnough
  <2> QED
    BY <2>1, <2>2
<1> QED
  BY <1>2, <1>3, EndTyped DEF VerifyExpectations

LEMMA ConcludeTyped ==
    ASSUME Typed, Conclude
    PROVE  Typed'
<1>1. /\ stack = << >> /\ stack' = stack /\ escaped' = None /\ test \in Tests
      /\ UNCHANGED << host, test, env, userStack, pending, made, mocks, expectations, registered >>
      /\ phase' \in {"idle", "stuck"}
  BY DEF Conclude, mocking, Typed, Frames
<1>2. /\ results' \in [Tests -> {"none", "passed", "failed"}]
      /\ failed' \in [Tests -> BOOLEAN]
      /\ \A r \in reports' : r.to \in Tests
  <2>1. CASE EscapeFatal
    BY <2>1 DEF Conclude, verdicts, Typed, TypeOK
  <2>2. CASE ~EscapeFatal
    <3>1. /\ Report(IF escaped = None THEN {} ELSE {ReportedAt(EscapeSite, "escaped", test, {}, 0)})
          /\ results' = [results EXCEPT ![test] = IF failed'[test] THEN "failed" ELSE "passed"]
      BY <2>2 DEF Conclude
    <3>2. failed' \in [Tests -> BOOLEAN] /\ \A r \in reports' : r.to \in Tests
      BY <1>1, <3>1, ReportTyped DEF ReportedAt, Typed
    <3> QED
      BY <3>1, <3>2 DEF Typed, TypeOK
  <2> QED
    BY <2>1, <2>2
<1> QED
  BY <1>1, <1>2 DEF Typed, TypeOK, Frames

LEMMA TypedNext == Typed /\ [Next]_vars => Typed'
<1> SUFFICES ASSUME Typed, [Next]_vars PROVE Typed'
  OBVIOUS
<1>1. CASE UNCHANGED vars
  BY <1>1 DEF vars, Typed, TypeOK, Frames
<1>2. CASE AuthorStep
  <2>0. /\ None = None \/ None \in Exceptions
        /\ \A x \in Values(MaxHostility) : Exception(x, {}) \in Exceptions
    BY Thrown
  <2>1. CASE LateCallback
    BY <2>1, StartsTyped
  <2>2. CASE Return
    BY <2>0, <2>2, LeaveTyped DEF Return, AuthorRuns
  <2>3. CASE Propagate
    BY <2>3, LeaveTyped DEF Propagate, Typed, TypeOK
  <2>4. ASSUME NEW x \in Values(MaxHostility), Throw(x)
        PROVE  Typed'
    BY <2>0, <2>4, LeaveTyped DEF Throw, AuthorRuns
  <2>5. CASE Swallow \/ CallWithoutEnvironment \/ CallMisused
    BY <2>5, AuthorTyped
  <2>6. ASSUME NEW asks \in BOOLEAN, ExpectThat(asks)
        PROVE  Typed'
    BY <2>6, ExpectThatTyped
  <2>7. CASE CreateMockFunction
    BY <2>7, MocksTyped
  <2>8. ASSUME NEW m \in DOMAIN mocks,
               ExpectCall(m) \/ CallUnexpected(m) \/ CallbackUsedAfterwards(m)
        PROVE  Typed'
    BY <2>8, MocksTyped, CallUnexpectedTyped
  <2>9. ASSUME NEW m \in DOMAIN mocks, NEW h \in 0..MaxHostility, Stub(m, h)
        PROVE  Typed'
    BY <2>9, StubTyped
  <2>10. CASE \E m \in DOMAIN mocks, x \in Values(MaxHostility - 1) : CallIndescribable(m, x)
    BY <2>10, AuthorTyped
  <2>11. ASSUME NEW k \in DOMAIN expectations, CallTaken(k)
         PROVE  Typed'
    BY <2>11, CallTakenTyped
  <2> QED
    BY <1>2, <2>1, <2>2, <2>3, <2>4, <2>5, <2>6, <2>7, <2>8, <2>9, <2>10, <2>11 DEF AuthorStep
<1>3. CASE AssertionStep
  BY <1>3, AssertionTyped
<1>4. CASE RunnerStep
  BY <1>4, StartsTyped, CatchTyped, VerifyTyped, ConcludeTyped DEF RunnerStep
<1>5. CASE Terminated
  BY <1>1, <1>5 DEF Terminated
<1> QED
  BY <1>1, <1>2, <1>3, <1>4, <1>5 DEF Next

LEMMA TypedInvariant == Spec => []Typed
BY TypedInit, TypedNext, PTL DEF Spec

(* In every reachable state each variable has its type, for any number of  *)
(* tests, hosts, calls and hostile values; in particular an assertion      *)
(* reports to an environment there is, also when what its matcher calls    *)
(* does whatever it likes.                                                 *)
THEOREM TypeCorrect == Spec => []TypeOK
<1>1. Typed => TypeOK
  BY DEF Typed
<1> QED
  BY <1>1, TypedInvariant, PTL

-----------------------------------------------------------------------------
(* Frames and exceptions                                                   *)

(* The author's code and assertions alternate on the stack. *)
Alternating ==
    /\ Len(stack) > 0 => stack[1] = 0
    /\ \A i \in 1..(Len(stack) - 1) : stack[i] = 0 <=> stack[i + 1] # 0

(* An exception in flight is in the author's code, or has left it.  *)
Nested ==
    /\ Alternating
    /\ pending # None /\ stack # << >> => Top = 0
    /\ stack = << >> /\ phase # "ending" => pending = None

(* The innermost assertion. *)
Inner ==
    IF Len(stack) = 0 THEN 0
    ELSE IF Top # 0 THEN Top
    ELSE IF Len(stack) > 1 THEN stack[Len(stack) - 1] ELSE 0

LEMMA InnerFacts ==
    ASSUME Typed, Alternating, stack # << >>
    PROVE  /\ Len(stack) \in Nat \ {0} /\ stack \in Seq(Nat)
           /\ Top \in Nat
           /\ Top # 0 => Inner = Top /\ Len(stack) > 1 /\ stack[Len(stack) - 1] = 0
           /\ Top = 0 /\ Len(stack) > 1 =>
                 /\ Inner = stack[Len(stack) - 1] /\ stack[Len(stack) - 1] \in Nat \ {0}
                 /\ Len(stack) > 2 /\ stack[Len(stack) - 2] = 0
           /\ Top = 0 /\ ~(Len(stack) > 1) => Inner = 0
<1>1. stack \in Seq(Nat) /\ Len(stack) \in Nat \ {0}
  BY EmptySeq DEF Typed, TypeOK
<1>2. Top \in Nat
  BY <1>1, ElementOfSeq DEF Top
<1>3. ASSUME NEW i \in 1..(Len(stack) - 1)
      PROVE  stack[i] \in Nat /\ (stack[i] = 0 <=> stack[i + 1] # 0)
  BY <1>1, <1>3, ElementOfSeq DEF Alternating
<1>4. stack[1] = 0
  BY <1>1 DEF Alternating
<1>5. ASSUME Top # 0
      PROVE  Len(stack) > 1 /\ stack[Len(stack) - 1] = 0
  <2>1. Len(stack) > 1
    BY <1>1, <1>4, <1>5 DEF Top
  <2>2. PICK i \in 1..(Len(stack) - 1) : i = Len(stack) - 1 /\ i + 1 = Len(stack)
    BY <1>1, <2>1
  <2> QED
    BY <1>3, <1>5, <2>1, <2>2 DEF Top
<1>6. ASSUME Top = 0, Len(stack) > 1
      PROVE  /\ stack[Len(stack) - 1] \in Nat \ {0}
             /\ Len(stack) > 2 /\ stack[Len(stack) - 2] = 0
  <2>1. PICK i \in 1..(Len(stack) - 1) : i = Len(stack) - 1 /\ i + 1 = Len(stack)
    BY <1>1, <1>6
  <2>2. stack[i] \in Nat \ {0}
    BY <1>3, <1>6, <2>1 DEF Top
  <2>3. Len(stack) > 2
    BY <1>1, <1>4, <1>6, <2>1, <2>2
  <2>4. PICK j \in 1..(Len(stack) - 1) : j = Len(stack) - 2 /\ j + 1 = i
    BY <1>1, <2>1, <2>3
  <2>5. stack[j] = 0
    BY <1>3, <2>2, <2>4
  <2> QED
    BY <2>1, <2>2, <2>3, <2>4, <2>5
<1> QED
  BY <1>1, <1>2, <1>5, <1>6 DEF Inner

LEMMA PoppedAlternates ==
    ASSUME Typed, Alternating, NEW n \in 1..2, Len(stack) >= n, stack' = Pop(stack, n)
    PROVE  /\ Alternating'
           /\ Len(stack') = Len(stack) - n
           /\ \A i \in 1..Len(stack') : stack'[i] = stack[i]
<1>1. stack \in Seq(Nat) /\ Len(stack) \in Nat
  BY LenProperties DEF Typed, TypeOK
<1>2. /\ Len(stack') = Len(stack) - n
      /\ \A i \in 1..Len(stack') : i \in 1..Len(stack) /\ stack'[i] = stack[i]
  BY <1>1, Popped
<1>3. Len(stack') > 0 => stack'[1] = 0
  BY <1>1, <1>2 DEF Alternating
<1>4. ASSUME NEW i \in 1..(Len(stack') - 1)
      PROVE  stack'[i] = 0 <=> stack'[i + 1] # 0
  <2>1. i \in 1..Len(stack') /\ i + 1 \in 1..Len(stack') /\ i \in 1..(Len(stack) - 1)
    BY <1>1, <1>2
  <2> QED
    BY <1>2, <2>1 DEF Alternating
<1> QED
  BY <1>2, <1>3, <1>4 DEF Alternating

(* An assertion is left for the author's code that called it. *)
LEMMA AssertionPops ==
    ASSUME Typed, Nested, AssertionStep
    PROVE  /\ Nested' /\ stack' # << >> /\ Inner = Top
           /\ pending = None /\ UNCHANGED << phase, test, env, escaped, results >>
<1>1. /\ stack # << >> /\ Top # 0 /\ pending = None /\ stack' = Pop(stack, 1)
      /\ UNCHANGED << phase, test, env, escaped, results >>
  BY DEF AssertionStep, AssertionHolds, AssertionFails, AssertionIndescribable, Asserting, runner
<1>2. /\ Len(stack) \in Nat \ {0} /\ Len(stack) > 1 /\ stack[Len(stack) - 1] = 0
      /\ Inner = Top
  BY <1>1, InnerFacts DEF Nested
<1>3. /\ Alternating'
      /\ Len(stack') = Len(stack) - 1
      /\ \A i \in 1..Len(stack') : stack'[i] = stack[i]
  <2>1. 1 \in 1..2 /\ Len(stack) >= 1
    BY <1>2
  <2> QED
    BY <1>1, <2>1, PoppedAlternates DEF Nested
<1>4. Len(stack') \in 1..Len(stack') /\ Len(stack') # 0
  BY <1>2, <1>3
<1>5. stack'[Len(stack')] = 0
  BY <1>2, <1>3, <1>4
<1>6. stack' # << >>
  <2>1. Len(<< >>) = 0
    OBVIOUS
  <2> QED
    BY <1>4, <2>1
<1> QED
  BY <1>1, <1>2, <1>3, <1>5, <1>6 DEF Nested, Top

(* Which frame and which exception come after the author's code is left. *)
LEMMA LeaveNested ==
    ASSUME Typed, Nested, stack # << >>, Top = 0, NEW e, e = None \/ e \in Exceptions, Leave(e)
    PROVE  /\ Nested'
           /\ \/ /\ stack' # << >> /\ phase' = phase /\ UNCHANGED history
                 /\ e = None => Inner' = Inner /\ pending' = None
                 /\ e # None => /\ pending' # None
                                /\ pending'.through = e.through \cup {Inner}
              \/ /\ stack' = << >> /\ phase = "running" /\ phase' = "ending"
                 /\ Inner = 0 /\ pending' = e /\ UNCHANGED history
              \/ /\ stack' = << >> /\ phase # "running" /\ phase' = phase
                 /\ Inner = 0 /\ pending' = None
                 /\ IF e = None THEN UNCHANGED history ELSE Swallowed(e)
<1>1. /\ Len(stack) \in Nat \ {0}
      /\ Len(stack) > 1 => /\ Inner = stack[Len(stack) - 1] /\ Inner \in Nat \ {0}
                           /\ Len(stack) > 2 /\ stack[Len(stack) - 2] = 0
      /\ ~(Len(stack) > 1) => Inner = 0
  BY InnerFacts DEF Nested
<1>2. Len(<< >>) = 0
  OBVIOUS
<1>3. CASE Len(stack) > 1
  <2>1. /\ stack' = Pop(stack, IF e = None THEN 1 ELSE 2)
        /\ pending' = IF e = None THEN None ELSE Exception(e, e.through \cup {Inner})
        /\ phase' = phase /\ UNCHANGED history
    BY <1>1, <1>3 DEF Leave
  <2>2. PICK n \in 1..2 : n = IF e = None THEN 1 ELSE 2
    OBVIOUS
  <2>3. /\ Alternating'
        /\ Len(stack') = Len(stack) - n
        /\ \A i \in 1..Len(stack') : stack'[i] = stack[i]
    <3>1. Len(stack) >= n /\ stack' = Pop(stack, n)
      BY <1>1, <1>3, <2>1, <2>2
    <3> QED
      BY <3>1, PoppedAlternates DEF Nested
  <2>4. Len(stack') \in 1..Len(stack') /\ Len(stack') # 0
    BY <1>1, <1>3, <2>3
  <2>5. stack' # << >>
    BY <1>2, <2>4
  <2>6. CASE e = None
    <3>1. Len(stack') = Len(stack) - 1
      BY <2>2, <2>3, <2>6
    <3>2. stack'[Len(stack')] = Inner /\ Inner # 0
      BY <1>1, <1>3, <2>3, <2>4, <3>1
    <3>3. Inner' = Inner
      BY <2>4, <3>2 DEF Inner, Top
    <3> QED
      BY <2>1, <2>3, <2>5, <2>6, <3>3 DEF Nested
  <2>7. CASE e # None
    <3>1. Len(stack') = Len(stack) - 2
      BY <2>2, <2>3, <2>7
    <3>2. stack'[Len(stack')] = 0
      BY <1>1, <1>3, <2>3, <2>4, <3>1
    <3>3. pending' # None /\ pending'.through = e.through \cup {Inner}
      <4>1. e \in Exceptions /\ e.through \cup {Inner} \in SUBSET Nat
        BY <1>1, <1>3, <2>7 DEF Exceptions
      <4> QED
        BY <2>1, <2>7, <4>1, Thrown
    <3> QED
      BY <2>1, <2>3, <2>5, <2>7, <3>2, <3>3 DEF Nested, Top
  <2> QED
    BY <2>6, <2>7
<1>4. CASE ~(Len(stack) > 1)
  <2>1. /\ stack' = << >>
        /\ pending' = IF phase = "running" THEN e ELSE None
        /\ phase' = IF phase = "running" THEN "ending" ELSE phase
        /\ IF phase = "running" \/ e = None THEN UNCHANGED history ELSE Swallowed(e)
    BY <1>4 DEF Leave
  <2>2. Len(stack') = 0
    BY <2>1
  <2>3. Alternating'
    BY <2>2 DEF Alternating
  <2> QED
    BY <1>1, <1>4, <2>1, <2>3 DEF Nested
<1> QED
  BY <1>3, <1>4

(* The exception, if any, with which the author's code is left. *)
LEMMA LeavingSteps ==
    ASSUME Typed, Nested, Return \/ Propagate \/ \E x \in Values(MaxHostility) : Throw(x)
    PROVE  /\ stack # << >> /\ Top = 0 /\ LeaveUnchanged
           /\ \E e : /\ e = None \/ e \in Exceptions
                     /\ Leave(e)
                     /\ \/ e = pending
                        \/ pending = None /\ e # None /\ e.through = {}
<1>1. CASE Return
  BY <1>1 DEF Return, AuthorRuns
<1>2. CASE Propagate
  BY <1>2 DEF Propagate, Typed, TypeOK, Nested
<1>3. ASSUME NEW x \in Values(MaxHostility), Throw(x)
      PROVE  /\ Leave(Exception(x, {})) /\ LeaveUnchanged /\ stack # << >> /\ Top = 0
             /\ Exception(x, {}) \in Exceptions /\ Exception(x, {}) # None
             /\ pending = None /\ Exception(x, {}).through = {}
  BY <1>3, Thrown DEF Throw, AuthorRuns
<1> QED
  BY <1>1, <1>2, <1>3

LEMMA ExpectThatNested ==
    ASSUME Typed, Nested, NEW asks \in BOOLEAN, ExpectThat(asks)
    PROVE  Nested' /\ Inner' = Call /\ stack' # << >>
<1>1. /\ UNCHANGED << phase, test, env, pending >> /\ pending = None
      /\ stack # << >> /\ Top = 0
      /\ Call \in Nat \ {0}
  BY DEF ExpectThat, Calls, AuthorRuns, runner, Call, Typed
<1>2. stack \in Seq(Nat) /\ Len(stack) \in Nat \ {0}
  BY <1>1, InnerFacts DEF Nested
<1>3. PICK call \in Nat \ {0} : call = Call
  BY <1>1
<1>4. PICK frames : frames = IF asks THEN << call, 0 >> ELSE << call >>
  OBVIOUS
<1>5. /\ frames \in Seq(Nat) /\ Len(frames) = (IF asks THEN 2 ELSE 1)
      /\ frames[1] = call /\ (asks => frames[2] = 0)
  BY <1>3, <1>4
<1>6. stack' = stack \o frames
  BY <1>3, <1>4 DEF ExpectThat
<1>7. /\ stack' \in Seq(Nat)
      /\ Len(stack') = Len(stack) + Len(frames)
      /\ \A i \in 1..Len(stack') :
            stack'[i] = IF i <= Len(stack) THEN stack[i] ELSE frames[i - Len(stack)]
  <2> HIDE <1>4
  <2>1. stack \in Seq(Nat) /\ frames \in Seq(Nat)
    BY <1>2, <1>5
  <2> QED
    BY <1>6, <2>1, ConcatProperties
<1>8. /\ \A i \in 1..Len(stack) : stack'[i] = stack[i]
      /\ stack'[Len(stack) + 1] = call
      /\ asks => stack'[Len(stack) + 2] = 0
      /\ Len(stack') = Len(stack) + (IF asks THEN 2 ELSE 1)
  <2>1. PICK n \in Nat, l \in 1..2 : n = Len(stack) /\ l = Len(frames) /\ (asks <=> l = 2)
    BY <1>2, <1>5
  <2>2. /\ Len(stack') = n + l
        /\ \A i \in 1..(n + l) : stack'[i] = IF i <= n THEN stack[i] ELSE frames[i - n]
    BY <1>7, <2>1
  <2>3. \A i \in 1..n : stack'[i] = stack[i]
    BY <2>2
  <2>4. stack'[n + 1] = frames[1]
    <3>1. n + 1 \in 1..(n + l) /\ ~(n + 1 <= n) /\ n + 1 - n = 1
      OBVIOUS
    <3> QED
      BY <2>2, <3>1
  <2>5. asks => stack'[n + 2] = frames[2]
    <3>1. asks => n + 2 \in 1..(n + l) /\ ~(n + 2 <= n) /\ n + 2 - n = 2
      BY <2>1
    <3> QED
      BY <2>2, <3>1
  <2> QED
    BY <1>5, <2>1, <2>2, <2>3, <2>4, <2>5
<1>9. stack[Len(stack)] = 0
  BY <1>1 DEF Top
<1>10. Alternating'
  <2>1. stack'[1] = 0
    BY <1>2, <1>8 DEF Nested, Alternating
  <2>2. ASSUME NEW i \in 1..(Len(stack') - 1)
        PROVE  stack'[i] = 0 <=> stack'[i + 1] # 0
    <3>1. CASE i < Len(stack)
      <4>1. i \in 1..(Len(stack) - 1) /\ i \in 1..Len(stack) /\ i + 1 \in 1..Len(stack)
        BY <1>2, <3>1
      <4> QED
        BY <1>8, <4>1 DEF Nested, Alternating
    <3>2. CASE i = Len(stack)
      BY <1>2, <1>3, <1>8, <1>9, <3>2
    <3>3. CASE i > Len(stack)
      <4>1. asks /\ i = Len(stack) + 1
        BY <1>2, <1>8, <3>3
      <4> QED
        BY <1>2, <1>3, <1>8, <4>1
    <3> QED
      BY <1>2, <3>1, <3>2, <3>3
  <2> QED
    BY <2>1, <2>2 DEF Alternating
<1>11. Inner' = call
  <2>1. CASE asks
    <3>1. Len(stack') = Len(stack) + 2
      BY <1>8, <2>1
    <3>2. stack'[Len(stack')] = 0 /\ Len(stack') > 1 /\ stack'[Len(stack') - 1] = call
      BY <1>2, <1>8, <2>1, <3>1
    <3> QED
      BY <1>2, <3>1, <3>2 DEF Inner, Top
  <2>2. CASE ~asks
    <3>1. stack'[Len(stack')] = call /\ Len(stack') # 0
      BY <1>2, <1>8, <2>2
    <3> QED
      BY <1>3, <3>1 DEF Inner, Top
  <2> QED
    BY <2>1, <2>2
<1>12. stack' # << >>
  <2>1. Len(stack') # 0 /\ Len(<< >>) = 0
    BY <1>2, <1>8
  <2> QED
    BY <2>1
<1> QED
  BY <1>1, <1>3, <1>10, <1>11, <1>12 DEF Nested

(* Calls of gjstest's functions that neither enter nor leave a frame. *)
PlainCall ==
    \/ CallWithoutEnvironment \/ CallMisused \/ CreateMockFunction
    \/ \E m \in DOMAIN mocks : ExpectCall(m) \/ CallUnexpected(m)
    \/ \E m \in DOMAIN mocks, h \in 0..MaxHostility : Stub(m, h)
    \/ \E m \in DOMAIN mocks, x \in Values(MaxHostility - 1) : CallIndescribable(m, x)
    \/ \E k \in DOMAIN expectations : CallTaken(k)

Leaving == Return \/ Propagate \/ \E x \in Values(MaxHostility) : Throw(x)

LEMMA AuthorSteps ==
    ASSUME AuthorStep
    PROVE  \/ LateCallback \/ Leaving \/ Swallow \/ PlainCall
           \/ \E asks \in BOOLEAN : ExpectThat(asks)
           \/ \E m \in DOMAIN mocks : CallbackUsedAfterwards(m)
BY DEF AuthorStep, Leaving, PlainCall

LEMMA PlainCallKeeps ==
    ASSUME PlainCall
    PROVE  /\ UNCHANGED << stack, host, phase, test, env, escaped, results >>
           /\ stack # << >> /\ Top = 0 /\ pending = None
BY DEF PlainCall, CallWithoutEnvironment, CallMisused, CreateMockFunction, ExpectCall,
       CallUnexpected, Stub, CallIndescribable, CallTaken, Calls, AuthorRuns, runner

LEMMA OneFrame ==
    ASSUME Typed, Nested, StartTest \/ LateCallback
    PROVE  Nested' /\ stack' = << 0 >> /\ stack' # << >> /\ Inner' = 0 /\ pending = None
<1>1. stack' = << 0 >> /\ stack = << >> /\ phase # "ending" /\ pending' = pending
  BY DEF StartTest, LateCallback
<1>2. Len(stack') = 1 /\ stack'[1] = 0 /\ stack' # << >>
  BY <1>1
<1>3. stack'[Len(stack')] = 0
  BY <1>2
<1> QED
  BY <1>1, <1>2, <1>3 DEF Nested, Alternating, Inner, Top

LEMMA NestedNext == Typed /\ Nested /\ [Next]_vars => Nested'
<1> SUFFICES ASSUME Typed, Nested, [Next]_vars PROVE Nested'
  OBVIOUS
<1>1. CASE UNCHANGED vars \/ Terminated
  BY <1>1 DEF vars, Terminated, Nested, Alternating, Top
<1>2. CASE LateCallback \/ StartTest
  BY <1>2, OneFrame
<1>3. CASE Leaving
  BY <1>3, LeavingSteps, LeaveNested DEF Leaving
<1>4. CASE Swallow \/ PlainCall
  <2>1. UNCHANGED << stack, phase >> /\ stack # << >>
    BY <1>4, PlainCallKeeps DEF Swallow, runner
  <2>2. Top = 0 \/ pending' = None
    BY <1>4, PlainCallKeeps DEF Swallow
  <2> QED
    BY <2>1, <2>2 DEF Nested, Alternating, Top
<1>5. CASE \E asks \in BOOLEAN : ExpectThat(asks)
  BY <1>5, ExpectThatNested
<1>6. CASE \E m \in DOMAIN mocks : CallbackUsedAfterwards(m)
  <2>1. stack' = << >> /\ pending' = None
    BY <1>6 DEF CallbackUsedAfterwards, Calls, AuthorRuns
  <2>2. Len(stack') = 0
    BY <2>1
  <2> QED
    BY <2>1, <2>2 DEF Nested, Alternating
<1>7. CASE AssertionStep
  BY <1>7, AssertionPops
<1>8. CASE CatchException \/ VerifyExpectations
  <2>1. stack' = stack /\ pending' = None
    BY <1>8 DEF CatchException, VerifyExpectations
  <2> QED
    BY <2>1 DEF Nested, Alternating, Top
<1>9. CASE Conclude
  <2>1. UNCHANGED << stack, pending >> /\ phase = "ended"
    BY <1>9 DEF Conclude
  <2> QED
    BY <2>1 DEF Nested, Alternating, Top
<1> QED
  BY <1>1, <1>2, <1>3, <1>4, <1>5, <1>6, <1>7, <1>8, <1>9, AuthorSteps DEF Next, RunnerStep

LEMMA NestedInit == Init => Nested
BY DEF Init, Nested, Alternating

-----------------------------------------------------------------------------
(* What the steps report                                                   *)

Active == phase \in {"running", "ending", "ended"}

(* The author's steps and assertions leave the environment alone, and end  *)
(* the test at most.                                                       *)
LEMMA AuthorKeeps ==
    ASSUME AuthorStep \/ AssertionStep
    PROVE  /\ UNCHANGED << host, test, env, escaped, results >>
           /\ \/ phase' = phase
              \/ phase = "running" /\ phase' = "ending"
              \/ phase' = "undefined" /\ \E m \in DOMAIN mocks : CallbackUsedAfterwards(m)
<1>1. CASE LateCallback
  BY <1>1 DEF LateCallback, runner
<1>2. CASE Leaving
  BY <1>2 DEF Leaving, Return, Propagate, Throw, Leave, LeaveUnchanged
<1>3. CASE Swallow \/ PlainCall
  BY <1>3, PlainCallKeeps DEF Swallow, runner
<1>4. CASE \E asks \in BOOLEAN : ExpectThat(asks)
  BY <1>4 DEF ExpectThat, runner
<1>5. CASE \E m \in DOMAIN mocks : CallbackUsedAfterwards(m)
  BY <1>5 DEF CallbackUsedAfterwards
<1>6. CASE AssertionStep
  BY <1>6 DEF AssertionStep, AssertionHolds, AssertionFails, AssertionIndescribable, runner
<1> QED
  BY <1>1, <1>2, <1>3, <1>4, <1>5, <1>6, AuthorSteps

(* What an author's step reports, if anything. *)
LEMMA AuthorReports ==
    ASSUME AuthorStep \/ AssertionStep
    PROVE  \/ UNCHANGED verdicts
           \/ \E m \in DOMAIN mocks : CallUnexpected(m)
           \/ AssertionFails
<1>1. CASE LateCallback \/ Swallow \/ Leaving
  BY <1>1 DEF LateCallback, Leaving, Return, Propagate, Throw, Swallow, LeaveUnchanged
<1>2. CASE PlainCall
  BY <1>2 DEF PlainCall, CallWithoutEnvironment, CallMisused, CreateMockFunction, ExpectCall,
     Stub, CallIndescribable, CallTaken
<1>3. CASE \/ \E asks \in BOOLEAN : ExpectThat(asks)
           \/ \E m \in DOMAIN mocks : CallbackUsedAfterwards(m)
  BY <1>3 DEF ExpectThat, CallbackUsedAfterwards
<1>4. CASE AssertionStep
  BY <1>4 DEF AssertionStep, AssertionHolds, AssertionIndescribable
<1> QED
  BY <1>1, <1>2, <1>3, <1>4, AuthorSteps

(* Reports are kept, and author's steps add none of the end of runTest. *)
LEMMA ReportsKept ==
    ASSUME [Next]_vars
    PROVE  /\ reports \subseteq reports'
           /\ \A t \in Tests : failed[t] => failed'[t]
           /\ AuthorStep \/ AssertionStep =>
                 \A r \in reports' : r \in reports \/ r.cause \notin {"escaped", "unsatisfied"}
<1>1. ASSUME NEW rs, Report(rs)
      PROVE  reports \subseteq reports' /\ \A t \in Tests : failed[t] => failed'[t]
  BY <1>1 DEF Report
<1>2. CASE UNCHANGED verdicts \/ UNCHANGED vars \/ Terminated
  BY <1>2 DEF vars, verdicts, Terminated
<1>3. ASSUME NEW m \in DOMAIN mocks, CallUnexpected(m)
      PROVE  /\ reports \subseteq reports' /\ \A t \in Tests : failed[t] => failed'[t]
             /\ \A r \in reports' : r \in reports \/ r.cause = "unexpected"
  <2>1. PICK rs : rs = {Reported("unexpected", Reporter(m),
                                 { stack[i] : i \in DOMAIN stack } \ {0}, 0)}
    OBVIOUS
  <2>2. Report(rs)
    BY <1>3, <2>1 DEF CallUnexpected
  <2>3. \A r \in rs : r.cause = "unexpected"
    BY <2>1 DEF Reported, ReportedAt
  <2>4. reports' = reports \cup rs
    BY <2>2 DEF Report
  <2> QED
    BY <1>1, <2>2, <2>3, <2>4
<1>4. CASE AssertionFails
  <2>1. \A r \in reports' : r \in reports \/ r.cause = "assertion"
    BY <1>4 DEF AssertionFails, Report, Reported, ReportedAt
  <2> QED
    BY <1>1, <1>4, <2>1 DEF AssertionFails
<1>5. CASE RunnerStep
  <2>1. UNCHANGED verdicts \/ \E rs : Report(rs)
    BY <1>5 DEF RunnerStep, StartTest, CatchException, VerifyExpectations, Conclude
  <2>2. ~(AuthorStep \/ AssertionStep) \/ UNCHANGED verdicts
           \/ (\E m \in DOMAIN mocks : CallUnexpected(m)) \/ AssertionFails
    BY AuthorReports
  <2> QED
    BY <1>1, <1>2, <1>3, <1>4, <2>1, <2>2
<1> QED
  BY <1>2, <1>3, <1>4, <1>5, AuthorReports DEF Next

-----------------------------------------------------------------------------
(* No false pass                                                           *)

MocksOfOthersOnlyNative == \A h \in Hosts : h.sharesMocks => h.runner = "native"

(* What could not be described is still in flight, or has left runTest, or *)
(* the test has failed otherwise.                                          *)
Said ==
    /\ Active /\ test \in unsaid => pending # None \/ escaped # None \/ failed[test]
    /\ \A t \in unsaid : t \in 0..test

(* Steps of authors and assertions after which a failure may be unsaid. *)
LEMMA UnsaidGrows ==
    ASSUME Typed, Nested, AuthorStep \/ AssertionStep
    PROVE  \/ UNCHANGED << unsaid, pending >>
           \/ unsaid' \subseteq unsaid \ {During}
           \/ unsaid' \subseteq unsaid \cup {During} /\ pending' # None
<1>1. CASE LateCallback
  BY <1>1 DEF LateCallback, history
<1>2. CASE Leaving
  <2>1. PICK e : /\ e = None \/ e \in Exceptions
                 /\ Leave(e)
                 /\ \/ e = pending
                    \/ pending = None /\ e # None /\ e.through = {}
    BY <1>2, LeavingSteps DEF Leaving
  <2>2. stack # << >> /\ Top = 0
    BY <1>2, LeavingSteps DEF Leaving
  <2> QED
    BY <2>1, <2>2, LeaveNested DEF history, Swallowed
<1>3. CASE Swallow
  BY <1>3 DEF Swallow, Swallowed
<1>4. CASE PlainCall
  <2>1. CASE \E m \in DOMAIN mocks, x \in Values(MaxHostility - 1) : CallIndescribable(m, x)
    BY <2>1, Thrown DEF CallIndescribable
  <2>2. CASE CallWithoutEnvironment \/ CallMisused
    <3>1. {Call} \in SUBSET Nat
      BY DEF Call, Typed
    <3> QED
      BY <2>2, <3>1, ErrorThrown DEF CallWithoutEnvironment, CallMisused, history
  <2>3. CASE UNCHANGED << unsaid, pending >>
    BY <2>3
  <2> QED
    BY <1>4, <2>1, <2>2, <2>3
       DEF PlainCall, CreateMockFunction, ExpectCall, CallUnexpected, Stub, CallTaken, history
<1>5. CASE \/ \E asks \in BOOLEAN : ExpectThat(asks)
           \/ \E m \in DOMAIN mocks : CallbackUsedAfterwards(m)
  BY <1>5 DEF ExpectThat, CallbackUsedAfterwards, history
<1>6. CASE AssertionStep
  <2>1. {Top} \in SUBSET Nat
    BY <1>6, AssertionEnvironment
  <2>2. CASE \E x \in Values(MaxHostility - 1) : AssertionIndescribable(x)
    BY <2>1, <2>2, Thrown DEF AssertionIndescribable
  <2> QED
    BY <1>6, <2>2 DEF AssertionStep, AssertionHolds, AssertionFails
<1> QED
  BY <1>1, <1>2, <1>3, <1>4, <1>5, <1>6, AuthorSteps

LEMMA DuringTest ==
    ASSUME Typed
    PROVE  /\ During = IF Active THEN test ELSE 0
           /\ Active => test \in Tests /\ test # 0
           /\ 0 \in 0..test /\ test \in Nat /\ test \in 0..test
BY Bounds DEF Typed, TypeOK, Frames, During, Active, Tests

LEMMA SaidNext == Typed /\ Nested /\ Said /\ [Next]_vars => Said'
<1> SUFFICES ASSUME Typed, Nested, Said, [Next]_vars PROVE Said'
  OBVIOUS
<1>0. \A t \in Tests : failed[t] => failed'[t]
  BY ReportsKept
<1>1. CASE UNCHANGED vars \/ Terminated
  BY <1>1 DEF vars, Terminated, Said, Active
<1>2. CASE AuthorStep \/ AssertionStep
  <2>1. UNCHANGED << test, escaped >> /\ (Active' => Active)
    BY <1>2, AuthorKeeps DEF Active
  <2> QED
    BY <1>0, <1>2, <2>1, UnsaidGrows, DuringTest DEF Said
<1>3. CASE StartTest
  <2>1. test' = test + 1 /\ unsaid' = unsaid /\ test \in Nat
    BY <1>3, DuringTest DEF StartTest
  <2>2. test + 1 \notin unsaid /\ \A t \in unsaid : t \in 0..(test + 1)
    BY <2>1 DEF Said
  <2> QED
    BY <2>1, <2>2 DEF Said
<1>4. CASE CatchException
  <2>1. /\ UNCHANGED << test, unsaid >> /\ phase = "ending" /\ test \in Tests
        /\ \/ Report({Reported("exception", test, pending.through, 0)})
           \/ \E h \in 0..MaxHostility : Escape(h)
    BY <1>4, CatchCases
  <2>2. ASSUME Report({Reported("exception", test, pending.through, 0)})
        PROVE  failed'[test]
    BY <2>1, <2>2 DEF Report, Reported, ReportedAt
  <2>3. ASSUME NEW h \in 0..MaxHostility, Escape(h)
        PROVE  escaped' # None
    <3>1. [hostility |-> h, nullish |-> FALSE] \in Exceptions \cup Values(MaxHostility)
                                                  \/ h \notin 0..MaxHostility
      BY DEF Values
    <3> QED
      BY <2>3, <3>1, Thrown DEF Escape
  <2> QED
    BY <2>1, <2>2, <2>3 DEF Said
<1>5. CASE VerifyExpectations
  <2>1. UNCHANGED << test, unsaid, pending >> /\ phase = "ending" /\ test \in Tests
    BY <1>5 DEF VerifyExpectations, history, Typed, Frames
  <2>2. escaped' = escaped \/ escaped' # None
    <3>1. CASE Indescribable = {}
      BY <1>5, <3>1 DEF VerifyExpectations, CleanUp
    <3>2. CASE Indescribable # {}
      <4>1. PICK i \in Indescribable : Escape(expectations[registered[i]].hostility - 1)
        BY <1>5, <3>2 DEF VerifyExpectations
      <4>2. expectations[registered[i]].hostility - 1 \in 0..MaxHostility
        BY <4>1, HostileEnough
      <4>3. [hostility |-> expectations[registered[i]].hostility - 1, nullish |-> FALSE]
                \in Values(MaxHostility)
        BY <4>2 DEF Values
      <4> QED
        BY <4>1, <4>3, Thrown DEF Escape
    <3> QED
      BY <3>1, <3>2
  <2> QED
    BY <1>0, <2>1, <2>2 DEF Said, Active
<1>6. CASE Conclude
  <2>1. UNCHANGED << test, unsaid >> /\ phase' \in {"idle", "stuck"}
    BY <1>6 DEF Conclude, history
  <2> QED
    BY <2>1 DEF Said, Active
<1> QED
  BY <1>1, <1>2, <1>3, <1>4, <1>5, <1>6 DEF Next, RunnerStep

(* Failures of the test being run are reported to it, and it has no result *)
(* before it ends.                                                         *)
Answered ==
    /\ \A r \in reports : failed[r.to] /\ (r.during # 0 => r.to = r.during)
    /\ NoFalsePass
Pending ==
    /\ Active /\ env # 0 => env = test
    /\ Active => results[test] = "none"
    /\ \A t \in Tests : t > test => results[t] = "none"

Honest == Answered /\ Pending

LEMMA SameHonest ==
    ASSUME Typed, Honest, UNCHANGED << test, env, failed, results, reports >>, Active' => Active,
           unsaid' \subseteq unsaid \cup {During}
    PROVE  Honest'
BY DuringTest DEF Honest, Answered, Pending, NoFalsePass

LEMMA ReportHonest ==
    ASSUME Typed, Honest, NEW rs, Report(rs), UNCHANGED << results, unsaid >>,
           \A r \in rs : r.to \in Tests /\ (r.during # 0 => Active /\ r.during = test /\ r.to = test)
    PROVE  Answered'
<1>1. reports' = reports \cup rs /\ test \in Tests \cup {0}
  BY Bounds DEF Report, Typed, TypeOK, Tests
<1>2. \A t \in Tests : failed'[t] <=> (failed[t] \/ \E r \in rs : r.to = t)
  BY DEF Report
<1>3. \A r \in reports : r.to \in Tests
  BY DEF Typed, TypeOK
<1>4. \A r \in reports' : failed'[r.to] /\ (r.during # 0 => r.to = r.during)
  BY <1>1, <1>2, <1>3 DEF Honest, Answered
<1>5. NoFalsePass'
  BY <1>1 DEF Honest, Answered, Pending, NoFalsePass
<1> QED
  BY <1>4, <1>5 DEF Answered

LEMMA ConcludeHonest ==
    ASSUME Typed, Nested, Said, Honest, Conclude
    PROVE  Honest'
<1>1. /\ phase = "ended" /\ stack = << >> /\ test \in Tests /\ UNCHANGED << test, env, unsaid >>
      /\ phase' \in {"idle", "stuck"}
  BY DEF Conclude, Typed, Frames, history
<1>2. CASE EscapeFatal
  BY <1>1, <1>2, SameHonest DEF Conclude, verdicts, Active
<1>3. CASE ~EscapeFatal
  <2> DEFINE rs == IF escaped = None THEN {} ELSE {ReportedAt(EscapeSite, "escaped", test, {}, 0)}
  <2>1. /\ reports' = reports \cup rs
        /\ \A t \in Tests : failed'[t] <=> (failed[t] \/ \E r \in rs : r.to = t)
        /\ results' = [results EXCEPT ![test] = IF failed'[test] THEN "failed" ELSE "passed"]
    BY <1>3 DEF Conclude, Report
  <2>2. \A r \in rs : r.to = test /\ r.during = test
    BY <1>1 DEF ReportedAt, During
  <2>3. /\ results'[test] = IF failed'[test] THEN "failed" ELSE "passed"
        /\ \A t \in Tests : t # test => results'[t] = results[t]
    BY <1>1, <2>1 DEF Typed, TypeOK
  <2>4. test \in unsaid => failed'[test]
    <3>1. pending = None
      BY <1>1 DEF Nested
    <3>2. escaped # None => \E r \in rs : r.to = test
      BY <2>2
    <3> HIDE DEF rs
    <3> QED
      BY <1>1, <2>1, <3>1, <3>2 DEF Said, Active
  <2> HIDE DEF rs
  <2>5. \A r \in reports' : failed'[r.to] /\ (r.during # 0 => r.to = r.during)
    BY <1>1, <2>1, <2>2 DEF Typed, TypeOK, Honest, Answered
  <2>6. NoFalsePass'
    <3>1. ASSUME NEW r \in reports', r.during = test
          PROVE  results'[r.during] # "passed"
      BY <1>1, <2>3, <2>5, <3>1, Bounds DEF Tests
    <3>2. ASSUME NEW r \in reports', r.during # test, r.during # 0
          PROVE  results'[r.during] # "passed"
      BY <2>1, <2>2, <2>3, <3>2 DEF Typed, TypeOK, Honest, Answered, NoFalsePass
    <3>3. ASSUME NEW t \in unsaid, t # 0
          PROVE  results'[t] # "passed"
      <4>1. t \in Tests
        BY <1>1, <3>3, Bounds DEF Said, Typed, TypeOK, Tests
      <4> QED
        BY <1>1, <2>3, <2>4, <3>3, <4>1 DEF Honest, Answered, NoFalsePass
    <3> QED
      BY <1>1, <3>1, <3>2, <3>3 DEF NoFalsePass
  <2>7. Pending'
    BY <1>1, <2>3 DEF Honest, Pending, Active, Tests
  <2> QED
    BY <2>5, <2>6, <2>7 DEF Honest, Answered
<1> QED
  BY <1>2, <1>3

LEMMA UnexpectedHonest ==
    ASSUME Typed, Honest, MocksOfOthersOnlyNative, NEW m \in DOMAIN mocks, CallUnexpected(m)
    PROVE  Honest'
<1>2. PICK rs : rs = {Reported("unexpected", Reporter(m), { stack[i] : i \in DOMAIN stack } \ {0}, 0)}
  OBVIOUS
<1>3. /\ Report(rs)
      /\ UNCHANGED << phase, test, env, results, unsaid >>
      /\ Usable(m) /\ ~CallbackGone(Reporter(m))
  BY <1>2 DEF CallUnexpected, runner, history
<1>4. Reporter(m) \in Tests /\ Reporter(m) = test
  BY <1>3, HostsAssumption
     DEF Reporter, Usable, CallbackGone, Typed, TypeOK, MocksOfOthersOnlyNative, AllHosts
<1>5. \A r \in rs : r.to \in Tests /\ (r.during # 0 => Active /\ r.during = test /\ r.to = test)
  BY <1>2, <1>4 DEF Reported, ReportedAt, During, Active
<1>6. Answered'
  BY <1>3, <1>5, ReportHonest
<1> QED
  BY <1>3, <1>6 DEF Honest, Pending, Active

LEMMA AssertionFailsHonest ==
    ASSUME Typed, Honest, AssertionFails
    PROVE  Honest'
<1>1. UNCHANGED << phase, test, env, results, unsaid >> /\ env \in Tests
  BY AssertionEnvironment DEF AssertionStep, AssertionFails, runner
<1>2. PICK rs : rs = {Reported("assertion", env, {Top}, 0)}
  OBVIOUS
<1>3. Report(rs)
  BY <1>2 DEF AssertionFails
<1>4. \A r \in rs : r.to \in Tests /\ (r.during # 0 => Active /\ r.during = test /\ r.to = test)
  BY <1>1, <1>2, Bounds DEF Reported, ReportedAt, During, Active, Honest, Pending, Tests
<1>5. Answered'
  BY <1>1, <1>3, <1>4, ReportHonest
<1> QED
  BY <1>1, <1>5 DEF Honest, Pending, Active

LEMMA AuthorHonest ==
    ASSUME Typed, Nested, Honest, MocksOfOthersOnlyNative, AuthorStep \/ AssertionStep
    PROVE  Honest'
<1>1. CASE (\E m \in DOMAIN mocks : CallUnexpected(m)) \/ AssertionFails
  BY <1>1, UnexpectedHonest, AssertionFailsHonest
<1>2. CASE UNCHANGED verdicts
  <2>1. UNCHANGED << test, env, failed, results, reports >> /\ (Active' => Active)
    BY <1>2, AuthorKeeps DEF verdicts, Active
  <2>2. unsaid' \subseteq unsaid \cup {During}
    BY UnsaidGrows
  <2> QED
    BY <2>1, <2>2, SameHonest
<1> QED
  BY <1>1, <1>2, AuthorReports

LEMMA CatchHonest ==
    ASSUME Typed, Honest, CatchException
    PROVE  Honest'
<1>1. /\ phase = "ending" /\ phase' = "ended" /\ test \in Tests /\ pending \in Exceptions
      /\ UNCHANGED << test, results, unsaid >>
  BY CatchCases
<1>2. Answered'
  <2>1. CASE Report({Reported("exception", test, pending.through, 0)})
    <3>1. PICK rs : rs = {Reported("exception", test, pending.through, 0)}
      OBVIOUS
    <3>2. Report(rs)
      BY <2>1, <3>1
    <3>3. \A r \in rs : r.to \in Tests /\ (r.during # 0 => Active /\ r.during = test /\ r.to = test)
      BY <1>1, <3>1 DEF Reported, ReportedAt, During, Active
    <3> QED
      BY <1>1, <3>2, <3>3, ReportHonest
  <2>2. CASE UNCHANGED verdicts
    BY <1>1, <2>2 DEF verdicts, Honest, Answered, NoFalsePass
  <2> QED
    BY <2>1, <2>2, CatchCases
<1>3. CleanUp \/ env' = env
  BY CatchCases DEF Escape
<1> QED
  BY <1>1, <1>2, <1>3 DEF Honest, Pending, Active, CleanUp, EnvironmentReset

LEMMA VerifyHonest ==
    ASSUME Typed, Honest, VerifyExpectations
    PROVE  Honest'
<1>1. /\ phase = "ending" /\ phase' = "ended" /\ test \in Tests
      /\ UNCHANGED << test, results, unsaid >>
  BY DEF VerifyExpectations, Typed, Frames, history
<1>2. PICK rs : /\ Report(rs)
                /\ \A r \in rs : r.to = test /\ r.during = test
  BY <1>1 DEF VerifyExpectations, Reported, ReportedAt, During
<1>3. Answered'
  BY <1>1, <1>2, ReportHonest DEF Active
<1>4. CleanUp \/ env' = env
  BY DEF VerifyExpectations, Escape
<1> QED
  BY <1>1, <1>3, <1>4 DEF Honest, Pending, Active, CleanUp, EnvironmentReset

LEMMA StartHonest ==
    ASSUME Typed, Honest, StartTest
    PROVE  Honest'
<1>1. /\ test' = test + 1 /\ env' = test + 1 /\ test + 1 \in Tests /\ test \in Nat
      /\ UNCHANGED << results, failed, reports, unsaid >>
  BY Bounds DEF StartTest, MoreTests, verdicts, Typed, TypeOK, Tests
<1> QED
  BY <1>1 DEF Honest, Answered, Pending, NoFalsePass, Tests

LEMMA HonestNext ==
    MocksOfOthersOnlyNative /\ Typed /\ Nested /\ Said /\ Honest /\ [Next]_vars => Honest'
<1> SUFFICES ASSUME MocksOfOthersOnlyNative, Typed, Nested, Said, Honest, [Next]_vars
             PROVE  Honest'
  OBVIOUS
<1>1. CASE UNCHANGED vars \/ Terminated
  BY <1>1, SameHonest DEF vars, Terminated, Active
<1>2. CASE AuthorStep \/ AssertionStep
  BY <1>2, AuthorHonest
<1>3. CASE RunnerStep
  BY <1>3, StartHonest, CatchHonest, VerifyHonest, ConcludeHonest DEF RunnerStep
<1> QED
  BY <1>1, <1>2, <1>3 DEF Next

(* If mock functions are used in other tests only where the native runner  *)
(* would notice, no test passes during which something failed, unless what *)
(* the failure itself threw was caught by the author or ignored: whatever  *)
(* the tests throw, leave behind or cannot be described, in both runners.  *)
THEOREM NoFalsePassCorrect == MocksOfOthersOnlyNative => (Spec => []NoFalsePass)
<1> SUFFICES ASSUME MocksOfOthersOnlyNative PROVE Spec => []NoFalsePass
  OBVIOUS
<1>1. Init => Nested /\ Said /\ Honest
  BY NestedInit, Bounds
     DEF Init, Said, Honest, Answered, Pending, NoFalsePass, Tests, Active
<1>2. Typed /\ Nested /\ Said /\ Honest /\ [Next]_vars => Nested' /\ Said' /\ Honest'
  BY NestedNext, SaidNext, HonestNext
<1>3. Honest => NoFalsePass
  BY DEF Honest, Answered
<1> QED
  BY <1>1, <1>2, <1>3, TypedInvariant, PTL DEF Spec

-----------------------------------------------------------------------------
(* The environment                                                         *)

(* What leaves runTest is reported, if not in any other way, and a test    *)
(* that has not begun has not been left.                                   *)
Escapes ==
    /\ escaped # None => phase \in {"ended", "undefined"}
    /\ Active => ~WasLeft(test)
    /\ \A t \in Tests : t > test => ~WasLeft(t)

LEMMA EscapeSet ==
    ASSUME NEW h \in 0..MaxHostility, Escape(h)
    PROVE  escaped' # None /\ UNCHANGED << registered, env >>
<1>1. [hostility |-> h, nullish |-> FALSE] \in Values(MaxHostility)
  BY DEF Values
<1> QED
  BY <1>1, Thrown DEF Escape

(* How runTest ends: it cleans up, or an exception leaves it. *)
LEMMA HowItEnds ==
    ASSUME Typed, CatchException \/ VerifyExpectations
    PROVE  /\ phase = "ending" /\ phase' = "ended" /\ test \in Tests /\ stack = << >>
           /\ UNCHANGED << host, test, userStack, stack, expectations, results >>
           /\ \/ CleanUp
              \/ escaped' # None /\ UNCHANGED << registered, env >>
           /\ \A r \in reports' : r \in reports \/ r.cause # "escaped"
<1>1. CASE CatchException
  <2>1. \A r \in reports' : r \in reports \/ r.cause # "escaped"
    BY <1>1, CatchCases DEF Report, Reported, ReportedAt, verdicts
  <2> QED
    BY <1>1, <2>1, CatchCases, EscapeSet DEF Typed, Frames
<1>2. CASE VerifyExpectations
  <2>1. \A r \in reports' : r \in reports \/ r.cause # "escaped"
    BY <1>2 DEF VerifyExpectations, Report, Reported, ReportedAt
  <2>2. CleanUp \/ \E h \in 0..MaxHostility : Escape(h)
    BY <1>2, HostileEnough DEF VerifyExpectations
  <2> QED
    BY <1>2, <2>1, <2>2, EscapeSet DEF VerifyExpectations, Typed, Frames
<1> QED
  BY <1>1, <1>2

(* What the host reports of an exception that left runTest. *)
LEMMA HowItConcludes ==
    ASSUME Typed, Escapes, Conclude
    PROVE  /\ phase = "ended" /\ phase' \in {"idle", "stuck"} /\ test \in Tests
           /\ stack = << >> /\ escaped' = None
           /\ UNCHANGED << host, test, env, userStack, stack, pending, mocking, history >>
           /\ phase' = "idle" => (WasLeft(test)' <=> escaped # None)
           /\ \A t \in Tests : t # test => (WasLeft(t)' <=> WasLeft(t))
           /\ \A r \in reports' : \/ r \in reports
                                  \/ /\ r.cause = "escaped" /\ r.to = test
                                     /\ r.site = EscapeSite /\ r.within = {} /\ r.left = left
<1>1. /\ phase = "ended" /\ phase' \in {"idle", "stuck"} /\ test \in Tests
      /\ stack = << >> /\ escaped' = None /\ ~WasLeft(test)
      /\ UNCHANGED << host, test, env, userStack, stack, pending, mocking, history >>
  BY DEF Conclude, Typed, Frames, Escapes, Active
<1>2. CASE phase' = "stuck"
  <2>1. UNCHANGED reports
    BY <1>2 DEF Conclude, verdicts
  <2> QED
    BY <1>1, <1>2, <2>1 DEF WasLeft
<1>3. CASE phase' = "idle"
  <2>1. reports' = reports \cup IF escaped = None THEN {}
                                ELSE {ReportedAt(EscapeSite, "escaped", test, {}, 0)}
    BY <1>3 DEF Conclude, Report
  <2>2. PICK new : new = ReportedAt(EscapeSite, "escaped", test, {}, 0)
    OBVIOUS
  <2>3. /\ new.cause = "escaped" /\ new.to = test /\ new.site = EscapeSite /\ new.within = {}
        /\ new.left = left
    BY <2>2 DEF ReportedAt
  <2>4. reports' = reports \cup IF escaped = None THEN {} ELSE {new}
    BY <2>1, <2>2
  <2> HIDE <2>2
  <2> QED
    BY <1>1, <1>3, <2>3, <2>4 DEF WasLeft
<1> QED
  BY <1>1, <1>2, <1>3

LEMMA EscapesNext ==
    Typed /\ Nested /\ Escapes /\ EnvironmentOfRunningTest /\ [Next]_vars
        => Escapes' /\ EnvironmentOfRunningTest'
<1> SUFFICES ASSUME Typed, Nested, Escapes, EnvironmentOfRunningTest, [Next]_vars
             PROVE  Escapes' /\ EnvironmentOfRunningTest'
  OBVIOUS
<1>1. CASE UNCHANGED vars \/ Terminated
  BY <1>1 DEF vars, Terminated, Escapes, EnvironmentOfRunningTest, WasLeft, Active
<1>2. CASE AuthorStep \/ AssertionStep
  <2>1. \A t : WasLeft(t)' <=> WasLeft(t)
    BY <1>2, ReportsKept DEF WasLeft
  <2>2. UNCHANGED << test, env, escaped >> /\ phase' \in {phase, "ending", "undefined"}
        /\ (phase' = "ending" => phase \in {"running", "ending"})
    BY <1>2, AuthorKeeps
  <2> QED
    BY <1>2, <2>1, <2>2, AuthorKeeps DEF Escapes, EnvironmentOfRunningTest, Active
<1>3. CASE StartTest
  <2>1. /\ test' = test + 1 /\ env' = test + 1 /\ phase = "idle" /\ phase' = "running"
        /\ test \in Nat /\ test + 1 \in Tests
        /\ UNCHANGED << escaped, reports >>
    BY <1>3, Bounds DEF StartTest, MoreTests, verdicts, Typed, TypeOK, Tests
  <2> QED
    BY <2>1 DEF Escapes, EnvironmentOfRunningTest, WasLeft, Active, Tests
<1>4. CASE CatchException \/ VerifyExpectations
  <2>1. \A t : WasLeft(t)' <=> WasLeft(t)
    BY <1>4, HowItEnds, ReportsKept DEF WasLeft
  <2>2. /\ UNCHANGED test /\ phase = "ending" /\ phase' = "ended" /\ env = test /\ escaped = None
        /\ \/ env' = 0 /\ escaped' = escaped
           \/ env' = env /\ escaped' # None
    BY <1>4, HowItEnds DEF EnvironmentOfRunningTest, CleanUp, EnvironmentReset, Escapes
  <2> QED
    BY <2>1, <2>2 DEF Escapes, EnvironmentOfRunningTest, Active
<1>5. CASE Conclude
  BY <1>5, HowItConcludes, Bounds DEF Escapes, EnvironmentOfRunningTest, Active, Tests
<1> QED
  BY <1>1, <1>2, <1>3, <1>4, <1>5 DEF Next, RunnerStep

EnvironmentInv == Typed /\ Nested /\ Escapes /\ EnvironmentOfRunningTest

LEMMA EnvironmentInvariant == Spec => []EnvironmentInv
<1>1. Init => EnvironmentInv
  BY TypedInit, NestedInit
     DEF Init, EnvironmentInv, Escapes, EnvironmentOfRunningTest, WasLeft, Active
<1>2. EnvironmentInv /\ [Next]_vars => EnvironmentInv'
  BY TypedNext, NestedNext, EscapesNext DEF EnvironmentInv
<1> QED
  BY <1>1, <1>2, PTL DEF Spec

(* The environment a test finds, and callbacks that come late, is its own; *)
(* and it outlives its runTest exactly if an exception left that: whatever *)
(* tests throw, catch, leave behind or share, in both runners.             *)
THEOREM EnvironmentCorrect == Spec => []EnvironmentOfRunningTest
<1>1. EnvironmentInv => EnvironmentOfRunningTest
  BY DEF EnvironmentInv
<1> QED
  BY <1>1, EnvironmentInvariant, PTL
-----------------------------------------------------------------------------
(* Expectations that wait for the end of a later test                      *)

DueAt(i) == expectations[registered[i]].due

(* An expectation due in test d can still be registered. *)
MayWait(d) ==
    /\ d \in Nat /\ d <= test + 1
    /\ \A t \in d..(test - 1) : WasLeft(t)
    /\ phase \in {"running", "ending"} => d <= test
    /\ phase = "ended" /\ d <= test => escaped # None
    /\ phase = "idle" /\ d <= test => WasLeft(test)
Waiting == \A i \in DOMAIN registered : MayWait(DueAt(i))

LEMMA LeftKept ==
    ASSUME [Next]_vars, NEW t, WasLeft(t)
    PROVE  WasLeft(t)'
BY ReportsKept DEF WasLeft

LEMMA StubWaits ==
    ASSUME Typed, Waiting, NEW m \in DOMAIN mocks, NEW h \in 0..MaxHostility, Stub(m, h)
    PROVE  Waiting'
<1>1. /\ expectations \in Seq(ExpectationRecords) /\ registered \in Seq(Nat)
      /\ mocks \in Seq(MockRecords)
      /\ \A i \in 1..Len(registered) : registered[i] \in 1..Len(expectations)
      /\ DOMAIN registered = 1..Len(registered)
  BY LenProperties DEF Typed, TypeOK
<1>2. m \in Nat /\ Len(expectations) \in Nat /\ Len(registered) \in Nat
  BY <1>1, LenProperties
<1>3. PICK d \in Nat : d = Due
  BY Bounds DEF Due, Typed, TypeOK
<1>4. PICK e \in ExpectationRecords : expectations' = Append(expectations, e) /\ e.due = d
  <2>1. PICK e : e = [mock |-> m, due |-> d, hostility |-> h, satisfied |-> FALSE]
    OBVIOUS
  <2>2. e \in ExpectationRecords /\ e.due = d
    BY <1>2, <2>1 DEF ExpectationRecords
  <2>3. expectations' = Append(expectations, e)
    BY <1>3, <2>1 DEF Stub
  <2> QED
    BY <2>2, <2>3
<1>5. PICK new \in Nat : new = Len(expectations) + 1 /\ registered' = Append(registered, new)
  BY <1>2 DEF Stub
<1>6. /\ \A k \in 1..Len(expectations) : expectations'[k] = expectations[k]
      /\ expectations'[new] = e
  BY <1>1, <1>4, <1>5, AppendProperties
<1>7. PICK last \in Nat :
          /\ last = Len(registered) + 1
          /\ registered' \in Seq(Nat) /\ Len(registered') = last
          /\ \A i \in 1..Len(registered) : registered'[i] = registered[i]
          /\ registered'[last] = new
  BY <1>1, <1>2, <1>5, AppendProperties
<1>8. \A i \in DOMAIN registered' : i \in 1..Len(registered) \/ i = last
  <2>1. DOMAIN registered' = 1..last
    BY <1>7, LenProperties
  <2> QED
    BY <1>2, <1>7, <2>1
<1>9. \A i \in 1..Len(registered) : DueAt(i)' = DueAt(i)
  BY <1>1, <1>6, <1>7 DEF DueAt
<1>10. DueAt(last)' = d
  BY <1>4, <1>6, <1>7 DEF DueAt
<1>11. UNCHANGED << phase, test, escaped, reports >> /\ phase # "ending" /\ test \in 0..NumTests
  <2>1. UNCHANGED << phase, test, escaped, reports >> /\ stack # << >>
    BY DEF Stub, Calls, AuthorRuns, runner, verdicts
  <2> QED
    BY <2>1 DEF Typed, TypeOK, Frames
<1>12. \A n : MayWait(n) => MayWait(n)'
  BY <1>11 DEF MayWait, WasLeft
<1>13. MayWait(d)'
  <2>1. d = IF phase = "running" THEN test ELSE test + 1
    BY <1>3 DEF Due
  <2>2. test \in Nat
    BY <1>11, Bounds
  <2> QED
    BY <1>11, <2>1, <2>2 DEF MayWait
<1>14. ASSUME NEW i \in DOMAIN registered'
       PROVE  MayWait(DueAt(i))'
  <2>1. CASE i \in 1..Len(registered)
    <3>1. PICK n : n = DueAt(i)
      OBVIOUS
    <3>2. MayWait(n)' /\ DueAt(i)' = n
      BY <1>1, <1>9, <1>12, <2>1, <3>1 DEF Waiting
    <3> QED
      BY <3>2 DEF MayWait
  <2>2. CASE i = last
    <3>1. DueAt(i)' = d
      BY <1>10, <2>2
    <3> QED
      BY <1>13, <3>1 DEF MayWait
  <2> QED
    BY <1>8, <2>1, <2>2
<1> QED
  BY <1>14 DEF Waiting

LEMMA CallTakenWaits ==
    ASSUME Typed, NEW k \in DOMAIN expectations, CallTaken(k)
    PROVE  UNCHANGED registered /\ \A i \in DOMAIN registered : DueAt(i)' = DueAt(i)
<1>1. UNCHANGED registered
  BY DEF CallTaken
<1>2. /\ expectations \in Seq(ExpectationRecords) /\ k \in 1..Len(expectations)
      /\ \A i \in DOMAIN registered : registered[i] \in 1..Len(expectations)
  BY LenProperties DEF Typed, TypeOK
<1>3. PICK s \in BOOLEAN : expectations' = [expectations EXCEPT ![k].satisfied = s]
  BY DEF CallTaken
<1>4. PICK e : e = [expectations[k] EXCEPT !.satisfied = s]
  OBVIOUS
<1>5. e \in ExpectationRecords /\ e.due = expectations[k].due
  <2>1. expectations[k] \in ExpectationRecords
    BY <1>2, ElementOfSeq
  <2> QED
    BY <1>4, <2>1 DEF ExpectationRecords
<1>6. expectations' = [expectations EXCEPT ![k] = e]
  BY <1>3, <1>4
<1>7. \A j \in 1..Len(expectations) : expectations'[j] = IF j = k THEN e ELSE expectations[j]
  BY <1>2, <1>5, <1>6, ExceptSeq
<1>8. \A i \in DOMAIN registered : DueAt(i)' = DueAt(i)
  BY <1>1, <1>2, <1>5, <1>7 DEF DueAt
<1> QED
  BY <1>1, <1>8

(* Which steps of authors touch the registered expectations. *)
LEMMA AuthorRegisters ==
    ASSUME Typed, AuthorStep \/ AssertionStep
    PROVE  \/ \E m \in DOMAIN mocks, h \in 0..MaxHostility : Stub(m, h)
           \/ UNCHANGED registered /\ \A i \in DOMAIN registered : DueAt(i)' = DueAt(i)
<1>1. CASE LateCallback \/ Swallow \/ Leaving
  BY <1>1 DEF LateCallback, Leaving, Return, Propagate, Throw, Swallow, LeaveUnchanged, mocking,
     DueAt
<1>2. CASE PlainCall
  <2>1. \/ \E m \in DOMAIN mocks, h \in 0..MaxHostility : Stub(m, h)
        \/ \E k \in DOMAIN expectations : CallTaken(k)
        \/ UNCHANGED << registered, expectations >>
    BY <1>2 DEF PlainCall, CallWithoutEnvironment, CallMisused, CreateMockFunction, ExpectCall,
       CallUnexpected, CallIndescribable, mocking
  <2> QED
    BY <2>1, CallTakenWaits DEF DueAt
<1>3. CASE \/ \E asks \in BOOLEAN : ExpectThat(asks)
           \/ \E m \in DOMAIN mocks : CallbackUsedAfterwards(m)
  BY <1>3 DEF ExpectThat, CallbackUsedAfterwards, mocking, DueAt
<1>4. CASE AssertionStep
  BY <1>4 DEF AssertionStep, AssertionHolds, AssertionFails, AssertionIndescribable, mocking, DueAt
<1> QED
  BY <1>1, <1>2, <1>3, <1>4, AuthorSteps

LEMMA WaitingNext ==
    EnvironmentInv /\ Waiting /\ [Next]_vars => Waiting'
<1> SUFFICES ASSUME EnvironmentInv, Waiting, [Next]_vars PROVE Waiting'
  OBVIOUS
<1>0. Typed /\ Escapes /\ test \in Nat
  BY Bounds DEF EnvironmentInv, Typed, TypeOK
<1>1. \A t : WasLeft(t) => WasLeft(t)'
  BY LeftKept
<1>2. CASE UNCHANGED vars \/ Terminated
  BY <1>2 DEF vars, Terminated, Waiting, MayWait, DueAt, WasLeft
<1>3. CASE AuthorStep \/ AssertionStep
  <2>1. CASE \E m \in DOMAIN mocks, h \in 0..MaxHostility : Stub(m, h)
    BY <1>0, <2>1, StubWaits
  <2>2. CASE UNCHANGED registered /\ \A i \in DOMAIN registered : DueAt(i)' = DueAt(i)
    <3>1. UNCHANGED << test, escaped >> /\ phase' \in {phase, "ending", "undefined"}
          /\ (phase' = "ending" => phase \in {"running", "ending"})
      BY <1>3, AuthorKeeps
    <3>2. \A n : MayWait(n) => MayWait(n)'
      BY <1>1, <3>1 DEF MayWait
    <3> QED
      BY <2>2, <3>2 DEF Waiting
  <2> QED
    BY <1>0, <1>3, <2>1, <2>2, AuthorRegisters
<1>4. CASE StartTest
  <2>1. /\ test' = test + 1 /\ phase = "idle" /\ phase' = "running"
        /\ UNCHANGED << registered, expectations >>
    BY <1>4 DEF StartTest, mocking
  <2>2. ASSUME NEW n, MayWait(n)
        PROVE  MayWait(n)'
    <3>1. n \in Nat /\ n <= test + 1 /\ (n <= test => WasLeft(test))
          /\ \A t \in n..(test - 1) : WasLeft(t)
      BY <2>1, <2>2 DEF MayWait
    <3>2. ASSUME NEW t \in n..(test' - 1)
          PROVE  WasLeft(t)'
      <4>1. t \in n..(test - 1) \/ (t = test /\ n <= test)
        BY <1>0, <2>1, <3>1
      <4> QED
        BY <1>1, <3>1, <4>1
    <3> QED
      BY <1>0, <2>1, <3>1, <3>2 DEF MayWait
  <2> QED
    BY <2>1, <2>2 DEF Waiting, DueAt
<1>5. CASE CatchException \/ VerifyExpectations
  <2>1. CASE CleanUp
    <3>1. registered' = << >>
      BY <2>1 DEF CleanUp, RegisteredCleared
    <3>2. DOMAIN registered' = {}
      BY <3>1
    <3> QED
      BY <3>2 DEF Waiting
  <2>2. CASE escaped' # None /\ UNCHANGED << registered, env >>
    <3>1. UNCHANGED << test, expectations >> /\ phase' = "ended"
      BY <1>0, <1>5, HowItEnds
    <3>2. \A n : MayWait(n) => MayWait(n)'
      BY <1>1, <2>2, <3>1 DEF MayWait
    <3> QED
      BY <2>2, <3>1, <3>2 DEF Waiting, DueAt
  <2> QED
    BY <1>0, <1>5, <2>1, <2>2, HowItEnds
<1>6. CASE Conclude
  <2>1. /\ UNCHANGED << test, registered, expectations >> /\ phase = "ended"
        /\ phase' \in {"idle", "stuck"}
        /\ phase' = "idle" => (WasLeft(test)' <=> escaped # None)
    BY <1>0, <1>6, HowItConcludes DEF mocking
  <2>2. \A n : MayWait(n) => MayWait(n)'
    BY <1>1, <2>1 DEF MayWait
  <2> QED
    BY <2>1, <2>2 DEF Waiting, DueAt
<1> QED
  BY <1>2, <1>3, <1>4, <1>5, <1>6 DEF Next, RunnerStep

LEMMA PassedOnNext ==
    EnvironmentInv /\ Waiting /\ PassedOnByEscapes /\ [Next]_vars => PassedOnByEscapes'
<1> SUFFICES ASSUME EnvironmentInv, Waiting, PassedOnByEscapes, [Next]_vars
             PROVE  PassedOnByEscapes'
  OBVIOUS
<1>0. Typed /\ Escapes /\ test \in Nat
  BY Bounds DEF EnvironmentInv, Typed, TypeOK
<1>1. \A t : WasLeft(t) => WasLeft(t)'
  BY LeftKept
<1>2. \A r \in reports' : \/ r \in reports \/ r.cause # "unsatisfied"
                          \/ r.to = test /\ \E i \in DOMAIN registered :
                                               MayWait(DueAt(i)) /\ r.due = DueAt(i)
                                               /\ phase = "ending"
  <2>1. CASE VerifyExpectations
    <3>1. PICK described \in SUBSET Unsatisfied :
              Report({ Reported("unsatisfied", test, {}, DueAt(i)) : i \in described })
      BY <2>1 DEF VerifyExpectations, DueAt
    <3>2. \A r \in reports' : \/ r \in reports
                              \/ r.to = test /\ \E i \in described : r.due = DueAt(i)
      BY <3>1 DEF Report, Reported, ReportedAt
    <3>3. \A i \in described : i \in DOMAIN registered /\ MayWait(DueAt(i)) /\ phase = "ending"
      BY <2>1, <3>1 DEF Waiting, Unsatisfied, VerifyExpectations
    <3> QED
      BY <3>2, <3>3
  <2>2. CASE CatchException
    <3>1. \A r \in reports' : r \in reports \/ r.cause = "exception"
      BY <1>0, <2>2, CatchCases DEF Report, Reported, ReportedAt, verdicts
    <3> QED
      BY <3>1
  <2>3. CASE Conclude
    BY <1>0, <2>3, HowItConcludes
  <2>4. CASE AuthorStep \/ AssertionStep
    BY <2>4, ReportsKept
  <2>5. CASE StartTest \/ Terminated \/ UNCHANGED vars
    BY <2>5 DEF StartTest, Terminated, vars, verdicts
  <2> QED
    BY <2>1, <2>2, <2>3, <2>4, <2>5 DEF Next, RunnerStep
<1>3. ASSUME NEW r \in reports', r.cause = "unsatisfied"
      PROVE  r.due <= r.to /\ \A t \in r.due..(r.to - 1) : WasLeft(t)'
  <2>1. CASE r \in reports
    BY <1>1, <1>3, <2>1 DEF PassedOnByEscapes
  <2>2. CASE r \notin reports
    BY <1>1, <1>2, <1>3, <2>2 DEF MayWait
  <2> QED
    BY <2>1, <2>2
<1> QED
  BY <1>3 DEF PassedOnByEscapes

(* Expectations wait for the end of a later test only as long as one test  *)
(* after the other is left by an exception: neither callbacks that come    *)
(* late, nor mock functions shared by tests, nor what is thrown and        *)
(* described otherwise carry one over, in both runners.                    *)
THEOREM PassedOnByEscapesCorrect == Spec => []PassedOnByEscapes
<1> DEFINE Inv == EnvironmentInv /\ Waiting /\ PassedOnByEscapes
<1>1. Init => Waiting /\ PassedOnByEscapes
  BY DEF Init, Waiting, PassedOnByEscapes
<1>2. EnvironmentInv /\ Waiting /\ PassedOnByEscapes /\ [Next]_vars
          => Waiting' /\ PassedOnByEscapes'
  BY WaitingNext, PassedOnNext
<1> QED
  BY <1>1, <1>2, EnvironmentInvariant, PTL DEF Spec
-----------------------------------------------------------------------------
(* The place of a failure                                                  *)

(* The calls whose place the environment may have recorded. *)
Places == {0, Inner} \cup left \cup (IF pending = None THEN {} ELSE pending.through)

Recorded ==
    /\ env \in {0, test}
    /\ Active => userStack[test] \in Places
    /\ \A t \in Tests : t > test => userStack[t] = 0

(* Places stay possible as long as what is recorded does. *)
LEMMA PlacesKept ==
    ASSUME Recorded, UNCHANGED << test, env, userStack >>, Active' => Active, Places \subseteq Places'
    PROVE  Recorded'
BY DEF Recorded

(* A call records its place, or none, for the current environment. *)
LEMMA PlaceRecorded ==
    ASSUME Typed, Recorded, env # 0, UNCHANGED << test, env >>, Active' => Active,
           NEW call, userStack' = [userStack EXCEPT ![env] = call], Active' => call \in Places'
    PROVE  Recorded'
<1>1. env = test /\ test \in Tests
  BY Bounds DEF Typed, TypeOK, Recorded, Tests
<1>2. /\ userStack'[test] = call
      /\ \A t \in Tests : t > test => userStack'[t] = userStack[t]
  BY <1>1 DEF Typed, TypeOK, Tests
<1> QED
  BY <1>1, <1>2 DEF Recorded

LEMMA NoFrame ==
    ASSUME stack = << >>
    PROVE  Inner = 0
<1>1. Len(stack) = 0
  BY DEF Inner
<1> QED
  BY <1>1 DEF Inner

LEMMA SameInner ==
    ASSUME UNCHANGED stack
    PROVE  Inner' = Inner
BY DEF Inner, Top

LEMMA LeavingRecorded ==
    ASSUME Typed, Nested, Recorded, Leaving
    PROVE  Recorded'
<1>1. PICK e : /\ e = None \/ e \in Exceptions
               /\ Leave(e)
               /\ \/ e = pending
                  \/ pending = None /\ e # None /\ e.through = {}
  BY LeavingSteps DEF Leaving
<1>2. stack # << >> /\ Top = 0 /\ UNCHANGED << test, env, userStack >>
  BY LeavingSteps DEF Leaving, LeaveUnchanged
<1>3. Active' => Active
  BY AuthorKeeps DEF AuthorStep, Leaving, Active
<1>4. Places \subseteq Places'
  <2>1. CASE /\ stack' # << >> /\ phase' = phase /\ UNCHANGED history
             /\ e = None => Inner' = Inner /\ pending' = None
             /\ e # None => pending' # None /\ pending'.through = e.through \cup {Inner}
    BY <1>1, <2>1 DEF Places, history
  <2>2. CASE /\ stack' = << >> /\ phase = "running" /\ phase' = "ending"
             /\ Inner = 0 /\ pending' = e /\ UNCHANGED history
    BY <1>1, <2>2 DEF Places, history
  <2>3. CASE /\ stack' = << >> /\ phase # "running" /\ phase' = phase
             /\ Inner = 0 /\ pending' = None
             /\ IF e = None THEN UNCHANGED history ELSE Swallowed(e)
    BY <1>1, <2>3 DEF Places, history, Swallowed, Over
  <2> QED
    BY <1>1, <1>2, <2>1, <2>2, <2>3, LeaveNested
<1> QED
  BY <1>2, <1>3, <1>4, PlacesKept

LEMMA PlainRecorded ==
    ASSUME Typed, Recorded, PlainCall
    PROVE  Recorded'
<1>1. /\ UNCHANGED << stack, phase, test, env >> /\ pending = None /\ Inner' = Inner
      /\ (Active' => Active)
  BY PlainCallKeeps, SameInner DEF Active
<1>2. {Call} \in SUBSET Nat
  BY DEF Call, Typed
<1>3. CASE CallMisused
  <2>1. /\ env # 0 /\ userStack' = [userStack EXCEPT ![env] = Call]
        /\ pending' # None /\ pending'.through = {Call}
    BY <1>2, <1>3, ErrorThrown DEF CallMisused, RecordUserStack
  <2>2. Call \in Places'
    BY <2>1 DEF Places
  <2> QED
    BY <1>1, <2>1, <2>2, PlaceRecorded
<1>4. CASE CreateMockFunction \/ \E m \in DOMAIN mocks : ExpectCall(m)
  <2>1. env # 0 /\ userStack' = [userStack EXCEPT ![env] = 0]
    BY <1>4 DEF CreateMockFunction, ExpectCall, ClearUserStack
  <2>2. 0 \in Places'
    BY DEF Places
  <2> QED
    BY <1>1, <2>1, <2>2, PlaceRecorded
<1>5. CASE \/ CallWithoutEnvironment \/ \E m \in DOMAIN mocks : CallUnexpected(m)
           \/ \E m \in DOMAIN mocks, h \in 0..MaxHostility : Stub(m, h)
           \/ \E m \in DOMAIN mocks, x \in Values(MaxHostility - 1) : CallIndescribable(m, x)
           \/ \E k \in DOMAIN expectations : CallTaken(k)
  <2>1. UNCHANGED << userStack, left >>
    BY <1>5 DEF CallWithoutEnvironment, CallUnexpected, Stub, CallIndescribable, CallTaken, history
  <2>2. Places \subseteq Places'
    BY <1>1, <2>1 DEF Places
  <2> QED
    BY <1>1, <2>1, <2>2, PlacesKept
<1> QED
  BY <1>3, <1>4, <1>5 DEF PlainCall

LEMMA AssertionRecorded ==
    ASSUME Typed, Nested, Recorded, AssertionStep
    PROVE  Recorded'
<1>1. /\ UNCHANGED << test, env >> /\ pending = None /\ Inner = Top /\ (Active' => Active)
      /\ env # 0 /\ Top \in Nat
  BY AssertionPops, AssertionEnvironment, Bounds DEF Active, Tests
<1>2. CASE AssertionHolds \/ AssertionFails
  <2>1. userStack' = [userStack EXCEPT ![env] = 0] /\ 0 \in Places'
    BY <1>2 DEF AssertionHolds, AssertionFails, ClearUserStack, Places
  <2> QED
    BY <1>1, <2>1, PlaceRecorded
<1>3. CASE \E x \in Values(MaxHostility - 1) : AssertionIndescribable(x)
  <2>1. /\ UNCHANGED << userStack, left >>
        /\ pending' # None /\ pending'.through = {Top}
    BY <1>1, <1>3, Thrown DEF AssertionIndescribable
  <2>2. Places \subseteq Places'
    BY <1>1, <2>1 DEF Places
  <2> QED
    BY <1>1, <2>1, <2>2, PlacesKept
<1> QED
  BY <1>2, <1>3 DEF AssertionStep

LEMMA RecordedNext == EnvironmentInv /\ Recorded /\ [Next]_vars => Recorded'
<1> SUFFICES ASSUME EnvironmentInv, Recorded, [Next]_vars PROVE Recorded'
  OBVIOUS
<1>0. Typed /\ Nested /\ EnvironmentOfRunningTest
  BY DEF EnvironmentInv
<1>1. CASE UNCHANGED vars \/ Terminated
  <2>1. UNCHANGED << test, env, userStack, left, pending, stack, phase >>
    BY <1>1 DEF vars, Terminated
  <2> QED
    BY <2>1, PlacesKept, SameInner DEF Places, Active
<1>2. CASE LateCallback
  <2>1. UNCHANGED << test, env, userStack, left, pending, phase >> /\ stack = << >>
    BY <1>2 DEF LateCallback, runner, history
  <2> QED
    BY <1>0, <1>2, <2>1, PlacesKept, NoFrame, OneFrame DEF Places, Active
<1>3. CASE Leaving
  BY <1>0, <1>3, LeavingRecorded
<1>4. CASE Swallow
  <2>1. UNCHANGED << test, env, userStack, stack, phase >> /\ left' = left \cup pending.through
    BY <1>4 DEF Swallow, runner, Swallowed, Over
  <2> QED
    BY <2>1, PlacesKept, SameInner DEF Places, Active
<1>5. CASE PlainCall
  BY <1>0, <1>5, PlainRecorded
<1>6. ASSUME NEW asks \in BOOLEAN, ExpectThat(asks)
      PROVE  Recorded'
  <2>1. /\ UNCHANGED << test, env, phase >> /\ env # 0
        /\ userStack' = [userStack EXCEPT ![env] = Call] /\ Inner' = Call
    BY <1>0, <1>6, ExpectThatNested DEF ExpectThat, RecordUserStack, runner
  <2>2. Call \in Places'
    BY <2>1 DEF Places
  <2> QED
    BY <1>0, <2>1, <2>2, PlaceRecorded DEF Active
<1>7. CASE \E m \in DOMAIN mocks : CallbackUsedAfterwards(m)
  BY <1>7 DEF CallbackUsedAfterwards, Recorded, Active
<1>8. CASE AssertionStep
  BY <1>0, <1>8, AssertionRecorded
<1>9. CASE StartTest
  <2>1. /\ test' = test + 1 /\ env' = test + 1 /\ userStack' = userStack
        /\ test \in Nat /\ test + 1 \in Tests
    BY <1>0, <1>9, Bounds DEF StartTest, MoreTests, Typed, TypeOK, Tests
  <2>2. userStack[test + 1] = 0 /\ \A t \in Tests : t > test + 1 => userStack[t] = 0
    BY <2>1 DEF Recorded, Tests
  <2> QED
    BY <2>1, <2>2 DEF Recorded, Places
<1>10. CASE CatchException
  <2>1. /\ UNCHANGED << test, userStack, stack >> /\ left' = left \cup pending.through
        /\ phase = "ending" /\ (env' = env \/ env' = 0)
    BY <1>0, <1>10, CatchCases DEF CleanUp, EnvironmentReset, Escape
  <2>2. Places \subseteq Places'
    BY <2>1, SameInner DEF Places
  <2> QED
    BY <2>1, <2>2 DEF Recorded, Active
<1>11. CASE VerifyExpectations
  <2>1. /\ UNCHANGED << test, userStack, stack, pending, left >>
        /\ phase = "ending" /\ (env' = env \/ env' = 0)
    BY <1>11 DEF VerifyExpectations, CleanUp, EnvironmentReset, Escape, history
  <2>2. Places \subseteq Places'
    BY <2>1, SameInner DEF Places
  <2> QED
    BY <2>1, <2>2 DEF Recorded, Active
<1>12. CASE Conclude
  BY <1>12 DEF Conclude, Recorded, Active
<1> QED
  BY <1>1, <1>2, <1>3, <1>4, <1>5, <1>6, <1>7, <1>8, <1>9, <1>10, <1>11, <1>12, AuthorSteps
     DEF Next, RunnerStep

LEMMA BlamesNext ==
    EnvironmentInv /\ Recorded /\ BlamesRightCall /\ [Next]_vars => BlamesRightCall'
<1> SUFFICES ASSUME EnvironmentInv, Recorded, BlamesRightCall, [Next]_vars
             PROVE  BlamesRightCall'
  OBVIOUS
<1>0. Typed /\ Nested /\ Escapes
  BY DEF EnvironmentInv
<1>1. ASSUME NEW rs, Report(rs), \A r \in rs : r.to = r.during => r.site \in r.within \cup r.left \cup {0}
      PROVE  BlamesRightCall'
  BY <1>1 DEF Report, BlamesRightCall
<1>2. CASE UNCHANGED verdicts \/ UNCHANGED vars \/ Terminated
  BY <1>2 DEF verdicts, vars, Terminated, BlamesRightCall
<1>3. ASSUME NEW m \in DOMAIN mocks, CallUnexpected(m)
      PROVE  BlamesRightCall'
  <2>1. stack # << >> /\ pending = None /\ Reporter(m) \in Tests
    BY <1>0, <1>3 DEF CallUnexpected, Calls, AuthorRuns, Reporter, Typed, TypeOK
  <2>2. PICK within : within = { stack[i] : i \in DOMAIN stack } \ {0}
    OBVIOUS
  <2>3. PICK r : r = Reported("unexpected", Reporter(m), within, 0)
    OBVIOUS
  <2>4. Report({r})
    BY <1>3, <2>2, <2>3 DEF CallUnexpected
  <2>5. /\ r.to = Reporter(m) /\ r.during = During /\ r.site = userStack[Reporter(m)]
        /\ r.within = within /\ r.left = left
    BY <2>3 DEF Reported, ReportedAt
  <2>6. Inner \in within \cup {0}
    <3>1. stack \in Seq(Nat) /\ Len(stack) \in Nat \ {0}
      BY <1>0, <2>1, InnerFacts DEF Nested
    <3>2. \A i \in 1..Len(stack) : stack[i] \in { stack[j] : j \in DOMAIN stack }
      BY <3>1, LenProperties
    <3>3. Inner = 0 \/ Inner \in { stack[i] : i \in DOMAIN stack }
      BY <3>1, <3>2 DEF Inner, Top
    <3> QED
      BY <2>2, <3>3
  <2>7. ASSUME r.to = r.during
        PROVE  r.site \in r.within \cup r.left \cup {0}
    <3>1. Active /\ Reporter(m) = test
      BY <2>1, <2>5, <2>7, Bounds DEF During, Active, Tests
    <3>2. userStack[test] \in {0, Inner} \cup left
      BY <2>1, <3>1 DEF Recorded, Places
    <3> QED
      BY <2>5, <2>6, <3>1, <3>2
  <2> QED
    BY <1>1, <2>4, <2>7
<1>4. CASE AssertionFails
  <2>1. pending = None /\ Inner = Top /\ env \in Tests
    BY <1>0, <1>4, AssertionPops, AssertionEnvironment DEF AssertionStep
  <2>2. PICK r : r = Reported("assertion", env, {Top}, 0)
    OBVIOUS
  <2>3. Report({r})
    BY <1>4, <2>2 DEF AssertionFails
  <2>4. /\ r.to = env /\ r.during = During /\ r.site = userStack[env]
        /\ r.within = {Top} /\ r.left = left
    BY <2>2 DEF Reported, ReportedAt
  <2>5. ASSUME r.to = r.during
        PROVE  r.site \in r.within \cup r.left \cup {0}
    <3>1. Active /\ env = test
      BY <2>1, <2>4, <2>5, Bounds DEF During, Active, Tests
    <3> QED
      BY <2>1, <2>4, <3>1 DEF Recorded, Places
  <2> QED
    BY <1>1, <2>3, <2>5
<1>5. CASE CatchException
  <2>1. pending # None /\ Inner = 0 /\ phase = "ending"
    BY <1>0, <1>5, CatchCases, HowItEnds, NoFrame
  <2>2. userStack[test] \in {0} \cup left \cup pending.through
    BY <2>1 DEF Recorded, Places, Active
  <2>3. CASE Report({Reported("exception", test, pending.through, 0)})
    <3>1. PICK r : r = Reported("exception", test, pending.through, 0)
      OBVIOUS
    <3>2. r.site = userStack[test] /\ r.within = pending.through /\ r.left = left
      BY <3>1 DEF Reported, ReportedAt
    <3>3. Report({r})
      BY <2>3, <3>1
    <3> QED
      BY <1>1, <2>2, <3>2, <3>3
  <2> QED
    BY <1>0, <1>2, <1>5, <2>3, CatchCases
<1>6. CASE VerifyExpectations
  <2>1. pending = None /\ Inner = 0 /\ phase = "ending"
    BY <1>0, <1>6, HowItEnds, NoFrame DEF VerifyExpectations
  <2>2. userStack[test] \in {0} \cup left
    BY <2>1 DEF Recorded, Places, Active
  <2>3. PICK rs : Report(rs) /\ \A r \in rs : r.site = userStack[test] /\ r.left = left
    BY <1>6 DEF VerifyExpectations, Reported, ReportedAt
  <2> QED
    BY <1>1, <2>2, <2>3
<1>7. CASE Conclude
  <2>1. Inner = 0 /\ pending = None /\ phase = "ended"
    BY <1>0, <1>7, HowItConcludes, NoFrame DEF Nested
  <2>2. userStack[test] \in {0} \cup left /\ EscapeSite \in {0, userStack[test]}
    BY <2>1 DEF Recorded, Places, Active, EscapeSite
  <2>3. \A r \in reports' : r \in reports \/ r.site \in r.left \cup {0}
    BY <1>0, <1>7, <2>2, HowItConcludes
  <2> QED
    BY <2>3 DEF BlamesRightCall
<1>8. CASE StartTest
  BY <1>2, <1>8 DEF StartTest
<1> QED
  BY <1>2, <1>3, <1>4, <1>5, <1>6, <1>7, <1>8, AuthorReports DEF Next, RunnerStep

(* A failure of the test being run is reported at the place of a call of   *)
(* gjstest it happened in, or at none, or at that of a call which an       *)
(* exception has left since: however calls nest in matchers, whatever they *)
(* throw and whoever catches it, in both runners.                          *)
THEOREM BlamesRightCallCorrect == Spec => []BlamesRightCall
<1>1. Init => Recorded /\ BlamesRightCall
  BY DEF Init, Recorded, BlamesRightCall, Active
<1>2. EnvironmentInv /\ Recorded /\ BlamesRightCall /\ [Next]_vars => Recorded' /\ BlamesRightCall'
  BY RecordedNext, BlamesNext
<1> QED
  BY <1>1, <1>2, EnvironmentInvariant, PTL DEF Spec
=============================================================================
