--------------------------- MODULE TestExecution ---------------------------
(***************************************************************************)
(* The tests of a run, one after the other in one JavaScript context:      *)
(* gjstest/internal/js/run_test.js with the test environment, assertions   *)
(* and the list of registered expectations, inside the two things that     *)
(* call it: TestCase::Run of internal/cpp/test_case.cc ("native") and      *)
(* TestCase.run of internal/js/browser/run_tests.js ("browser").           *)
(*                                                                         *)
(* What the tests share is global: the current environment, the registered *)
(* expectations, and every mock function or stub one of them has kept.     *)
(* `stack' holds 0 for code of a test's author, and the number of the call *)
(* for expectThat, which calls such code in the predicate of its matcher.  *)
(* How a mock function picks an expectation is left to Mocking; here a     *)
(* call matches or does not.                                               *)
(*                                                                         *)
(* Describing a value can throw: '' + x does for a Symbol, for an object   *)
(* without prototype, or if toString() throws.  The hostility of a value   *)
(* is 0 if it can be described, and otherwise describing it throws a value *)
(* of one less.  null and undefined can be described, but reading their    *)
(* property `stack' throws.                                                *)
(***************************************************************************)
EXTENDS Integers, Sequences

CONSTANTS
    NumTests,       \* the number of tests
    Hosts,          \* what calls runTest, and how its tests behave
    Swallows,       \* may tests catch what gjstest's functions throw?
    None,           \* no exception
    MaxHostility, MaxCalls, MaxDepth     \* bounds

(* Whose runner it is, and whether tests use mock functions of others. *)
AllHosts == [runner : {"native", "browser"}, sharesMocks : BOOLEAN]
ASSUME HostsAssumption == Hosts \subseteq AllHosts
ASSUME NumTestsAssumption == NumTests \in Nat \ {0}
ASSUME BoundsAssumption == {MaxHostility, MaxCalls, MaxDepth} \subseteq Nat

VARIABLES
    host,           \* which of Hosts this is
    phase,          \* how far the runner is with the current test
    test,           \* the test last started
    env,            \* gjstest.internal.currentTestEnvironment, 0 for null
    userStack,      \* test -> the call that recorded its userStack, 0 if empty
    stack,          \* the JavaScript stack, innermost frame last
    pending,        \* the exception in flight
    escaped,        \* the exception that left runTest
    mocks,          \* every mock function
    expectations,   \* every CallExpectation
    registered,     \* gjstest.internal.registeredCallExpectations
    made,           \* number of calls of gjstest's functions so far
    failed,         \* test -> was its reportFailure called?
    results,        \* test -> what the runner says of it
    reports,        \* history: every failure reported
    left,           \* history: the calls an exception, which is over, has left
                    \*   since a userStack was recorded or cleared
    unsaid          \* history: the tests whose last failure that could not be
                    \*   described has not been swallowed since

vars == << host, phase, test, env, userStack, stack, pending, escaped, mocks,
           expectations, registered, made, failed, results, reports, left, unsaid >>

runner == << host, phase, test, env, escaped, results >>
mocking == << mocks, expectations, registered >>
verdicts == << failed, reports >>
history == << left, unsaid >>

Tests == 1..NumTests
Top == stack[Len(stack)]
Pop(s, n) == SubSeq(s, 1, Len(s) - n)

(* What can be thrown, or given to gjstest to describe. *)
Values(n) ==
    { x \in [hostility : 0..n, nullish : BOOLEAN] : x.nullish => x.hostility = 0 }

(* The value thrown, and the calls of gjstest it has left. *)
Exception(x, through) ==
    [hostility |-> x.hostility, nullish |-> x.nullish, through |-> through]
Exceptions == [hostility : 0..MaxHostility, nullish : BOOLEAN, through : SUBSET Nat]

(* An Error, as gjstest and JavaScript itself throw it. *)
Error(through) == Exception([hostility |-> 0, nullish |-> FALSE], through)
ASSUME NoneAssumption == None \notin Exceptions

-----------------------------------------------------------------------------
(* TestEnvironment *)

RecordUserStack(call) ==
    /\ userStack' = [userStack EXCEPT ![env] = call]
    /\ left' = {}

ClearUserStackNever == UNCHANGED userStack /\ left' = {}      \* mutant
ClearUserStack ==
    /\ userStack' = [userStack EXCEPT ![env] = 0]
    /\ left' = {}

(* The test that is being run, for the history. *)
During == IF phase \in {"running", "ending", "ended"} THEN test ELSE 0

(* A report to test t.  `site' is the call whose place the wrapped         *)
(* reportFailure of its environment adds, `within' are the calls of        *)
(* gjstest the failure happened in, `due' is the test in which an          *)
(* expectation had to be satisfied.                                        *)
ReportedAt(site, cause, t, within, due) ==
    [cause |-> cause, to |-> t, during |-> During, site |-> site,
     within |-> within, left |-> left, due |-> due]
Reported(cause, t, within, due) == ReportedAt(userStack[t], cause, t, within, due)

Report(rs) ==
    /\ reports' = reports \cup rs
    /\ failed' = [t \in Tests |-> failed[t] \/ \E r \in rs : r.to = t]

-----------------------------------------------------------------------------
Init ==
    /\ host \in Hosts
    /\ phase = "idle"
    /\ test = 0
    /\ env = 0
    /\ userStack = [t \in Tests |-> 0]
    /\ stack = << >>
    /\ pending = None
    /\ escaped = None
    /\ mocks = << >>
    /\ expectations = << >>
    /\ registered = << >>
    /\ made = 0
    /\ failed = [t \in Tests |-> FALSE]
    /\ results = [t \in Tests |-> "none"]
    /\ reports = {}
    /\ left = {}
    /\ unsaid = {}

MoreTestsOffByOne == test <= NumTests                         \* mutant
MoreTests == test < NumTests

StartTest ==
    /\ phase = "idle"
    /\ stack = << >>
    /\ MoreTests
    /\ phase' = "running"
    /\ test' = test + 1
    /\ env' = test + 1
    /\ stack' = << 0 >>
    /\ left' = {}
    /\ UNCHANGED << host, userStack, pending, escaped, results, made, mocking,
                    verdicts, unsaid >>

(* A callback a test left behind: a promise's, which v8 runs before the    *)
(* call of runTest returns to C++, or in a browser also a timer's.         *)
LateCallback ==
    /\ phase = IF host.runner = "native" THEN "ended" ELSE "idle"
    /\ test > 0
    /\ stack = << >>
    /\ made < MaxCalls
    /\ stack' = << 0 >>
    /\ made' = made + 1
    /\ UNCHANGED << userStack, pending, runner, mocking, verdicts, history >>

(***************************************************************************)
(* Code of a test's author                                                 *)
(***************************************************************************)

AuthorRuns == stack # << >> /\ Top = 0 /\ pending = None

(* It calls a function of gjstest, which is call number Call. *)
Calls == AuthorRuns /\ made < MaxCalls /\ made' = made + 1
Call == made + 1

(* An exception is over: caught, ignored or reported. *)
Over(e) == left' = left \cup e.through

Swallowed(e) == Over(e) /\ unsaid' = unsaid \ {During}

(* The frame of the author's code is left: to the expectThat that asked    *)
(* its predicate, to runTest, or to the host, which ignores exceptions.    *)
Leave(e) ==
    IF Len(stack) > 1
      THEN /\ stack' = Pop(stack, IF e = None THEN 1 ELSE 2)
           /\ pending' = IF e = None THEN None
                         ELSE Exception(e, e.through \cup {stack[Len(stack) - 1]})
           /\ UNCHANGED << phase, history >>
      ELSE /\ stack' = << >>
           /\ pending' = IF phase = "running" THEN e ELSE None
           /\ phase' = IF phase = "running" THEN "ending" ELSE phase
           /\ IF phase = "running" \/ e = None THEN UNCHANGED history ELSE Swallowed(e)

LeaveUnchanged == UNCHANGED << host, test, env, userStack, escaped, results, made,
                               mocking, verdicts >>

Return == AuthorRuns /\ Leave(None) /\ LeaveUnchanged

Throw(x) == AuthorRuns /\ Leave(Exception(x, {})) /\ LeaveUnchanged

Propagate ==
    /\ pending # None
    /\ stack # << >>
    /\ Leave(pending)
    /\ LeaveUnchanged

Swallow ==
    /\ Swallows
    /\ pending # None
    /\ stack # << >>
    /\ pending' = None
    /\ Swallowed(pending)
    /\ UNCHANGED << userStack, stack, made, runner, mocking, verdicts >>

(* expectThat, createMockFunction and expectCall between two tests. *)
CallWithoutEnvironment ==
    /\ Calls
    /\ env = 0
    /\ pending' = Error({Call})
    /\ UNCHANGED << userStack, stack, runner, mocking, verdicts, history >>

(* expectCall of what is no mock, createMockInstance of what is no class:  *)
(* they throw before they clear the stack they recorded.                   *)
CallMisused ==
    /\ Calls
    /\ env # 0
    /\ RecordUserStack(Call)
    /\ pending' = Error({Call})
    /\ UNCHANGED << stack, runner, mocking, verdicts, unsaid >>

(* expectThat and its relatives, up to the matcher's predicate. *)
ExpectThat(asksAuthor) ==
    /\ Calls
    /\ env # 0
    /\ Len(stack) < MaxDepth
    /\ RecordUserStack(Call)
    /\ stack' = stack \o IF asksAuthor THEN << Call, 0 >> ELSE << Call >>
    /\ UNCHANGED << pending, runner, mocking, verdicts, unsaid >>

Asserting == stack # << >> /\ Top # 0 /\ pending = None

AssertionHolds ==
    /\ Asserting
    /\ ClearUserStack
    /\ stack' = Pop(stack, 1)
    /\ UNCHANGED << pending, made, runner, mocking, verdicts, unsaid >>

AssertionFails ==
    /\ Asserting
    /\ Report({Reported("assertion", env, {Top}, 0)})
    /\ ClearUserStack
    /\ stack' = Pop(stack, 1)
    /\ UNCHANGED << pending, made, runner, mocking, unsaid >>

(* It fails, but describing the value or the matcher throws x: nothing is  *)
(* reported.                                                               *)
AssertionIndescribable(x) ==
    /\ Asserting
    /\ pending' = Exception(x, {Top})
    /\ stack' = Pop(stack, 1)
    /\ unsaid' = unsaid \cup {During}
    /\ UNCHANGED << userStack, made, runner, mocking, verdicts, left >>

CreateMockFunction ==
    /\ Calls
    /\ env # 0
    /\ mocks' = Append(mocks, [owner |-> env, stub |-> FALSE])
    /\ ClearUserStack
    /\ UNCHANGED << stack, pending, runner, expectations, registered, verdicts, unsaid >>

Usable(m) == host.sharesMocks \/ mocks[m].owner = test

(* expectCall(m) returns a stub, which can be kept and called later. *)
ExpectCall(m) ==
    /\ Calls
    /\ env # 0
    /\ Usable(m)
    /\ mocks' = [mocks EXCEPT ![m].stub = TRUE]
    /\ ClearUserStack
    /\ UNCHANGED << stack, pending, runner, expectations, registered, verdicts, unsaid >>

(* The test whose end verifies an expectation made now. *)
Due == IF phase = "running" THEN test ELSE test + 1

(* The stub makes an expectation; h is the hostility of its description.   *)
Stub(m, h) ==
    /\ Calls
    /\ Usable(m)
    /\ mocks[m].stub
    /\ expectations' = Append(expectations, [mock      |-> m,
                                             due       |-> Due,
                                             hostility |-> h,
                                             satisfied |-> FALSE])
    /\ registered' = Append(registered, Len(expectations) + 1)
    /\ UNCHANGED << userStack, stack, pending, mocks, runner, verdicts, history >>

(* A call that an expectation takes, or a method of its wrapper, after     *)
(* which the expectation is satisfied or is not.                           *)
CallTaken(k) ==
    /\ Calls
    /\ Usable(expectations[k].mock)
    /\ \E s \in BOOLEAN :
          expectations' = [expectations EXCEPT ![k].satisfied = s]
    /\ UNCHANGED << userStack, stack, pending, mocks, registered, runner, verdicts,
                    history >>

ReporterShared(m) == 1                                        \* mutant
Reporter(m) == mocks[m].owner

(* TestCase::Run keeps the C++ callbacks that log and reportFailure of its *)
(* environment call on its stack: they are gone when it has returned.      *)
CallbackGone(t) == host.runner = "native" /\ t # test

CallUnexpected(m) ==
    /\ Calls
    /\ Usable(m)
    /\ ~CallbackGone(Reporter(m))
    /\ Report({Reported("unexpected", Reporter(m),
                        { stack[i] : i \in DOMAIN stack } \ {0}, 0)})
    /\ UNCHANGED << userStack, stack, pending, runner, mocking, history >>

(* What happens then is undefined. *)
CallbackUsedAfterwards(m) ==
    /\ Calls
    /\ Usable(m)
    /\ CallbackGone(Reporter(m))
    /\ phase' = "undefined"
    /\ stack' = << >>
    /\ UNCHANGED << host, test, env, escaped, results, userStack, pending,
                    mocking, verdicts, history >>

(* It is unexpected, but describing its arguments throws x. *)
CallIndescribable(m, x) ==
    /\ Calls
    /\ Usable(m)
    /\ pending' = Exception(x, {})
    /\ unsaid' = unsaid \cup {During}
    /\ UNCHANGED << userStack, stack, runner, mocking, verdicts, left >>

(***************************************************************************)
(* The end of runTest                                                      *)
(***************************************************************************)

Unsatisfied ==
    { i \in DOMAIN registered : ~expectations[registered[i]].satisfied }
Indescribable ==
    { i \in Unsatisfied : expectations[registered[i]].hostility > 0 }

RegisteredKept == registered                                  \* mutant
RegisteredCleared == << >>

EnvironmentKept == env                                        \* mutant
EnvironmentReset == 0

(* The last lines, reached unless something throws before. *)
CleanUp ==
    /\ registered' = RegisteredCleared
    /\ env' = EnvironmentReset
    /\ UNCHANGED escaped

(* An exception leaves runTest. *)
Escape(h) ==
    /\ escaped' = Exception([hostility |-> h, nullish |-> FALSE], {})
    /\ UNCHANGED << registered, env >>

(* The message has the stack of the exception, unless there is a recorded  *)
(* one: getErrorStack reads error.stack.                                   *)
ReadsStack == userStack[test] = 0

CatchException ==
    /\ phase = "ending"
    /\ pending # None
    /\ \/ /\ pending.hostility = 0
          /\ ~(pending.nullish /\ ReadsStack)
          /\ Report({Reported("exception", test, pending.through, 0)})
          /\ CleanUp
       \/ /\ pending.hostility > 0
          /\ Escape(pending.hostility - 1)
          /\ UNCHANGED verdicts
       \/ /\ pending.nullish /\ ReadsStack          \* a TypeError
          /\ Escape(0)
          /\ UNCHANGED verdicts
    /\ pending' = None
    /\ Over(pending)
    /\ phase' = "ended"
    /\ UNCHANGED << host, test, userStack, stack, mocks, expectations, made,
                    results, unsaid >>

VerifyExpectations ==
    LET described == { i \in Unsatisfied : \A j \in Indescribable : i < j }
        due(i) == expectations[registered[i]].due
    IN
    /\ phase = "ending"
    /\ pending = None
    /\ Report({ Reported("unsatisfied", test, {}, due(i)) : i \in described })
    /\ IF Indescribable = {}
         THEN CleanUp
         ELSE \E i \in Indescribable :
                 /\ \A j \in Indescribable : i <= j
                 /\ Escape(expectations[registered[i]].hostility - 1)
    /\ phase' = "ended"
    /\ UNCHANGED << host, test, userStack, stack, pending, mocks, expectations,
                    made, results, history >>

(***************************************************************************)
(* What called runTest                                                     *)
(***************************************************************************)

EscapeFatalAlways == escaped # None                           \* mutant
(* The browser's handler describes the exception; when that throws, the    *)
(* timer's callback ends and no further test is scheduled.                 *)
EscapeFatal == host.runner = "browser" /\ escaped # None /\ escaped.hostility > 0

(* Only the browser's handler reports it through the environment. *)
EscapeSite == IF host.runner = "browser" THEN userStack[test] ELSE 0

Conclude ==
    /\ phase = "ended"
    /\ stack = << >>
    /\ IF EscapeFatal
         THEN /\ phase' = "stuck"
              /\ UNCHANGED << results, verdicts >>
         ELSE /\ phase' = "idle"
              /\ Report(IF escaped = None THEN {}
                        ELSE {ReportedAt(EscapeSite, "escaped", test, {}, 0)})
              /\ results' = [results EXCEPT ![test] =
                                IF failed'[test] THEN "failed" ELSE "passed"]
    /\ escaped' = None
    /\ UNCHANGED << host, test, env, userStack, stack, pending, made, mocking, history >>

Finished == phase \in {"stuck", "undefined"} \/ (phase = "idle" /\ ~MoreTests /\ stack = << >>)
Terminated == Finished /\ UNCHANGED vars

-----------------------------------------------------------------------------
AuthorStep ==
    \/ LateCallback \/ Return \/ Propagate \/ Swallow
    \/ \E x \in Values(MaxHostility) : Throw(x)
    \/ CallWithoutEnvironment \/ CallMisused
    \/ \E asks \in BOOLEAN : ExpectThat(asks)
    \/ CreateMockFunction
    \/ \E m \in DOMAIN mocks : ExpectCall(m) \/ CallUnexpected(m) \/ CallbackUsedAfterwards(m)
    \/ \E m \in DOMAIN mocks, h \in 0..MaxHostility : Stub(m, h)
    \/ \E m \in DOMAIN mocks, x \in Values(MaxHostility - 1) : CallIndescribable(m, x)
    \/ \E k \in DOMAIN expectations : CallTaken(k)

AssertionStep ==
    \/ AssertionHolds \/ AssertionFails
    \/ \E x \in Values(MaxHostility - 1) : AssertionIndescribable(x)

RunnerStep == StartTest \/ CatchException \/ VerifyExpectations \/ Conclude

Next == AuthorStep \/ AssertionStep \/ RunnerStep \/ Terminated

(* Tests, callbacks and the runner are one thread of JavaScript, which     *)
(* takes its next step as long as there is one.                            *)
Spec == Init /\ [][Next]_vars /\ WF_vars(Next)

-----------------------------------------------------------------------------
(***************************************************************************)
(* Properties                                                              *)
(***************************************************************************)

(* Every variable keeps to its type; in particular the user stack is only  *)
(* ever recorded and reported to in an environment that exists.            *)
TypeOK ==
    /\ host \in Hosts
    /\ phase \in {"idle", "running", "ending", "ended", "stuck", "undefined"}
    /\ test \in 0..NumTests
    /\ env \in 0..NumTests
    /\ userStack \in [Tests -> Nat]
    /\ stack \in Seq(Nat)
    /\ pending = None \/ pending \in Exceptions
    /\ escaped = None \/ escaped \in Exceptions
    /\ \A m \in DOMAIN mocks : mocks[m].owner \in Tests
    /\ \A i \in DOMAIN registered : registered[i] \in DOMAIN expectations
    /\ failed \in [Tests -> BOOLEAN]
    /\ results \in [Tests -> {"none", "passed", "failed"}]
    /\ \A r \in reports : r.to \in Tests

(* An exception left the runTest of test t, whose last lines were not      *)
(* reached.                                                                *)
WasLeft(t) == \E r \in reports : r.cause = "escaped" /\ r.to = t

(* The current environment is that of the test being run, from its first   *)
(* line until its expectations are verified, and it is still set when the  *)
(* test is over exactly if an exception left its runTest: other callbacks  *)
(* that come late find no environment to use.                              *)
EnvironmentOfRunningTest ==
    /\ phase \in {"running", "ending"} => env = test
    /\ phase = "ended" => env = IF escaped = None THEN 0 ELSE test
    /\ phase = "idle" => env = IF WasLeft(test) THEN test ELSE 0

(* A test is blamed for an expectation that had to be satisfied in an      *)
(* earlier one only if an exception left runTest in that one and in all    *)
(* tests in between; and never for one that is due later.                  *)
PassedOnByEscapes ==
    \A r \in reports : r.cause = "unsatisfied" =>
        /\ r.due <= r.to
        /\ \A t \in r.due..(r.to - 1) : WasLeft(t)

(* No test is blamed for an expectation of another test. *)
Isolation ==
    \A r \in reports : r.cause = "unsatisfied" => r.due = r.to

(* A failure of the test being run is reported at the place of a call of   *)
(* gjstest it happened in, or of none, or of a call that an exception has  *)
(* left since that place was recorded; never at that of a call which came  *)
(* to its end before.                                                      *)
BlamesRightCall ==
    \A r \in reports :
        r.to = r.during => r.site \in r.within \cup r.left \cup {0}

(* A test during which something failed is not said to have passed,        *)
(* whether the failure was reported, to the test itself or another, or     *)
(* could not be described; unless then what describing it threw was caught *)
(* by the author, or ignored by the host.                                  *)
NoFalsePass ==
    /\ \A r \in reports : r.during # 0 => results[r.during] # "passed"
    /\ \A t \in unsaid : t # 0 => results[t] # "passed"

(* An exception that was not thrown from within a function of gjstest is   *)
(* reported with its stack trace: the user stack is empty then.            *)
TraceOfForeignException ==
    \A r \in reports :
        r.cause = "exception" /\ r.within = {} => r.site = 0

(* Every test gets its result from the native runner: whatever a test      *)
(* throws or leaves behind, it goes on to the next one, as long as no mock *)
(* function is used in a test that did not create it.                      *)
AllTestsConclude ==
    host.runner = "native" /\ ~host.sharesMocks =>
        <>(\A t \in Tests : results[t] # "none")

(* The callback of a function made for JavaScript exists for as long as    *)
(* the function may be called.                                             *)
CallbackExists == phase # "undefined"

=============================================================================
