------------------------------ MODULE Mocking ------------------------------
(***************************************************************************)
(* One test that uses mock functions: gjstest/public/mocking.js,           *)
(* gjstest/internal/js/mock_function.js and the part of run_test.js that   *)
(* verifies the expectations.                                              *)
(*                                                                         *)
(* JavaScript runs one frame at a time, but the search a mock function     *)
(* makes through its expectations calls code of the test's author twice:   *)
(* in a matcher's predicate, halfway through the search, and in the action *)
(* of the expectation that matches.  That code may do whatever a test may: *)
(* call mocks again, set up further expectations, configure existing ones, *)
(* throw.  `stack' holds the frames that matter: "test" for the body of    *)
(* the test, "call" for a mock function searching its expectations, and    *)
(* "predicate" and "action" for the author's code it calls.                *)
(*                                                                         *)
(* Expectations are objects shared by the list of their mock function and  *)
(* the global list, so both hold indices into `expectations'.              *)
(***************************************************************************)
EXTENDS CallExpectations, FiniteSets

CONSTANTS
    Mocks,          \* the mock functions of the test
    ArgLists,       \* the argument lists calls are made with
    MatcherLists,   \* the matcher lists expectations are made with
    Undescribable,  \* argument lists that stringify() throws on
    MaxExpectations, MaxCalls, MaxDepth, MaxTimes, MaxOneTime   \* bounds

ASSUME ListsAssumption ==
    /\ \A args \in ArgLists : Len(args) \in Nat
    /\ \A ms \in MatcherLists : Len(ms) \in Nat

VARIABLES
    expectations,   \* every CallExpectation object, in order of creation
    lists,          \* mock function -> its callExpectations
    registered,     \* gjstest.internal.registeredCallExpectations
    stack,          \* the JavaScript stack, innermost frame last
    failures,       \* number of calls of testEnvironment.reportFailure
    threw,          \* threwException
    phase,          \* how far runTest is
    calls,          \* history: every call made to a mock function
    credits         \* history: every match, in order, with the action taken

vars == << expectations, lists, registered, stack, failures, threw, phase,
           calls, credits >>

-----------------------------------------------------------------------------

UserRoles == {"test", "predicate", "action"}

Frame(role, call, next) ==
    [role |-> role, call |-> call, next |-> next, asked |-> FALSE]

Top == stack[Len(stack)]
Pop(s) == SubSeq(s, 1, Len(s) - 1)
SetTop(f) == [stack EXCEPT ![Len(stack)] = f]

UserRunning == phase = "running" /\ Top.role \in UserRoles
Searching   == phase = "running" /\ Top.role = "call"

(* The call being served, and the expectation its search has come to. *)
Call      == calls[Top.call]
CandidateOldestFirst ==                                       \* mutant
    lists[Call.mock][Len(lists[Call.mock]) + 1 - Top.next]
Candidate == lists[Call.mock][Top.next]
OlderForgotten(next) == next                                  \* mutant
Older(next) == next - 1

Resolve(c, status, k) ==
    [calls EXCEPT ![c] = [mock   |-> @.mock,
                          args   |-> @.args,
                          born   |-> @.born,
                          status |-> status,
                          by     |-> k]]

-----------------------------------------------------------------------------

Init ==
    /\ expectations = << >>
    /\ lists = [m \in Mocks |-> << >>]
    /\ registered = << >>
    /\ stack = << Frame("test", 0, 0) >>
    /\ failures = 0
    /\ threw = FALSE
    /\ phase = "running"
    /\ calls = << >>
    /\ credits = << >>

(***************************************************************************)
(* What the author's code does                                             *)
(***************************************************************************)

(* An exception leaves the innermost frame of the author's code.  runTest  *)
(* catches it at the bottom; a mock function catches nothing, so a frame   *)
(* that ran inside a search takes the search with it, and its caller is    *)
(* next to choose between catching and throwing on.  (An exception, or an  *)
(* unsatisfied expectation, that runTest cannot describe: TestExecution.)  *)
RaiseFromTest ==
    /\ Top.role = "test"
    /\ stack' = << >>
    /\ failures' = failures + 1
    /\ threw' = TRUE
    /\ phase' = "verifying"
    /\ UNCHANGED << expectations, lists, registered, calls, credits >>

RaiseFromAction ==
    /\ Top.role = "action"
    /\ stack' = Pop(stack)
    /\ UNCHANGED << expectations, lists, registered, failures, threw, phase,
                    calls, credits >>

RaiseFromPredicate ==
    /\ Top.role = "predicate"
    /\ stack' = Pop(Pop(stack))
    /\ calls' = Resolve(stack[Len(stack) - 1].call, "aborted", 0)
    /\ UNCHANGED << expectations, lists, registered, failures, threw, phase,
                    credits >>

Raise == RaiseFromTest \/ RaiseFromAction \/ RaiseFromPredicate

Throw == UserRunning /\ Raise

(* expectCall(mock)(matchers...) *)
ExpectCall(mock, matchers) ==
    LET k == Len(expectations) + 1 IN
    /\ UserRunning
    /\ k <= MaxExpectations
    /\ expectations' = Append(expectations, NewExpectation(mock, matchers))
    /\ lists' = [lists EXCEPT ![mock] = Append(@, k)]
    /\ registered' = Append(registered, k)
    /\ UNCHANGED << stack, failures, threw, phase, calls, credits >>

(* A method of the wrapper of expectation k: it throws when `misused' and  *)
(* otherwise replaces the expectation by e.                                *)
Configure(k, misused, e) ==
    /\ UserRunning
    /\ IF misused
         THEN Raise
         ELSE /\ expectations' = [expectations EXCEPT ![k] = e]
              /\ UNCHANGED << lists, registered, stack, failures, threw,
                              phase, calls, credits >>

TimesMisusedAfterOnce(e) ==                                   \* mutant
    e.expectedNumMatches # NoCount \/ e.oneTimeActions # << >>
TimesMisused(e) ==
    \/ e.expectedNumMatches # NoCount
    \/ e.oneTimeActions # << >>
    \/ e.fallbackAction

Times(k, n) ==
    LET e == expectations[k] IN
    Configure(k, TimesMisused(e), [e EXCEPT !.expectedNumMatches = n])

WillRepeatedly(k) ==
    LET e == expectations[k] IN
    Configure(k, e.fallbackAction, [e EXCEPT !.fallbackAction = TRUE])

OnceMisusedNever(e) == FALSE                                  \* mutant
OnceMisused(e) == e.fallbackAction

WillOnce(k) ==
    LET e == expectations[k] IN
    /\ Len(e.oneTimeActions) < MaxOneTime
    /\ Configure(k, OnceMisused(e),
                 [e EXCEPT !.oneTimeActions = Append(@, FALSE)])

CallMock(mock, args) ==
    /\ UserRunning
    /\ Len(calls) < MaxCalls
    /\ Len(stack) < MaxDepth
    /\ calls' = Append(calls, [mock   |-> mock,
                               args   |-> args,
                               born   |-> Len(expectations),
                               status |-> "searching",
                               by     |-> 0])
    /\ stack' = Append(stack, Frame("call", Len(calls) + 1, Len(lists[mock])))
    /\ UNCHANGED << expectations, lists, registered, failures, threw, phase,
                    credits >>

(* The frame returns: the test is over, the mock function's caller goes on *)
(* after an action, the search goes on after a predicate.                  *)
Return ==
    /\ UserRunning
    /\ stack' = Pop(stack)
    /\ phase' = IF Top.role = "test" THEN "verifying" ELSE phase
    /\ UNCHANGED << expectations, lists, registered, failures, threw, calls,
                    credits >>

(***************************************************************************)
(* The search of a mock function, newest expectation first                 *)
(***************************************************************************)

(* The predicate of a matcher of the candidate is code of the author's.    *)
AskPredicate ==
    /\ Searching
    /\ Top.next > 0
    /\ ~Top.asked
    /\ AsksUser(Call.args, expectations[Candidate].argMatchers)
    /\ stack' = Append(SetTop([Top EXCEPT !.asked = TRUE]),
                       Frame("predicate", 0, 0))
    /\ UNCHANGED << expectations, lists, registered, failures, threw, phase,
                    calls, credits >>

(* checkArgs is about to give its answer about the candidate. *)
Answered ==
    /\ Searching
    /\ Top.next > 0
    /\ AsksUser(Call.args, expectations[Candidate].argMatchers) => Top.asked

(* isMissingArgSentinel was asked about another value: the exception goes  *)
(* through the search to the caller.                                       *)
PredicateError ==
    /\ Answered
    /\ AsksSentinelMatcher(Call.args, expectations[Candidate].argMatchers)
    /\ stack' = Pop(stack)
    /\ calls' = Resolve(Top.call, "aborted", 0)
    /\ UNCHANGED << expectations, lists, registered, failures, threw, phase,
                    credits >>

NoMatch ==
    /\ Answered
    /\ ~AsksSentinelMatcher(Call.args, expectations[Candidate].argMatchers)
    /\ ~CheckArgs(Call.args, expectations[Candidate].argMatchers)
    /\ stack' = SetTop(Frame("call", Top.call, Older(Top.next)))
    /\ UNCHANGED << expectations, lists, registered, failures, threw, phase,
                    calls, credits >>

(* The candidate matches: it is counted and an action is consumed before   *)
(* any of the action's code runs.  Nothing of the search is left to do, so *)
(* the action's frame, if it has one, takes the place of the search's.     *)
Match(took, slot, e) ==
    /\ Answered
    /\ CheckArgs(Call.args, expectations[Candidate].argMatchers)
    /\ expectations' = [expectations EXCEPT ![Candidate] = e]
    /\ calls' = Resolve(Top.call, "credited", Candidate)
    /\ credits' = Append(credits,
                         [call  |-> Top.call,
                          by    |-> Candidate,
                          took  |-> took,
                          slot  |-> slot,
                          slots |-> Len(expectations[Candidate].oneTimeActions)])
    /\ UNCHANGED << lists, registered, failures, threw, phase >>

CountedUpToTimes(e) ==                                        \* mutant
    IF e.numMatches = e.expectedNumMatches THEN e
    ELSE [e EXCEPT !.numMatches = @ + 1]
Counted(e) == [e EXCEPT !.numMatches = @ + 1]
Expire(e, i) == [e EXCEPT !.oneTimeActions[i] = TRUE]

FirstUnexpired(e, i) ==
    /\ ~e.oneTimeActions[i]
    /\ \A j \in 1..(i - 1) : e.oneTimeActions[j]

AllExpired(e) == \A i \in DOMAIN e.oneTimeActions : e.oneTimeActions[i]

MatchOnce ==
    /\ Answered
    /\ LET e == expectations[Candidate] IN
       \E i \in DOMAIN e.oneTimeActions :
          /\ FirstUnexpired(e, i)
          /\ Match("once", i, Expire(Counted(e), i))
          /\ stack' = SetTop(Frame("action", 0, 0))

MatchFallback ==
    /\ Answered
    /\ LET e == expectations[Candidate] IN
          /\ AllExpired(e)
          /\ e.fallbackAction
          /\ Match("fallback", 0, Counted(e))
          /\ stack' = SetTop(Frame("action", 0, 0))

(* No action is left: the empty function runs, no code of the author's. *)
MatchEmpty ==
    /\ Answered
    /\ LET e == expectations[Candidate] IN
          /\ AllExpired(e)
          /\ ~e.fallbackAction
          /\ Match("empty", 0, Counted(e))
          /\ stack' = Pop(stack)

(* Every expectation was tried.  The report describes the arguments, which *)
(* throws where stringify() does; nothing is reported then.                *)
Unexpected ==
    /\ Searching
    /\ Top.next = 0
    /\ Call.args \notin Undescribable
    /\ failures' = failures + 1
    /\ stack' = Pop(stack)
    /\ calls' = Resolve(Top.call, "unexpected", 0)
    /\ UNCHANGED << expectations, lists, registered, threw, phase, credits >>

UnexpectedThrows ==
    /\ Searching
    /\ Top.next = 0
    /\ Call.args \in Undescribable
    /\ stack' = Pop(stack)
    /\ calls' = Resolve(Top.call, "aborted", 0)
    /\ UNCHANGED << expectations, lists, registered, failures, threw, phase,
                    credits >>

(***************************************************************************)
(* The end of runTest                                                      *)
(***************************************************************************)

Unsatisfied ==
    { i \in DOMAIN registered :
        ~CheckExpectationSatisfied(expectations[registered[i]]) }

Verify ==
    /\ phase = "verifying"
    /\ phase' = "done"
    /\ failures' = IF threw THEN failures
                   ELSE failures + Cardinality(Unsatisfied)
    /\ registered' = << >>
    /\ UNCHANGED << expectations, lists, stack, threw, calls, credits >>

Terminated == phase = "done" /\ UNCHANGED vars

-----------------------------------------------------------------------------

AuthorStep ==
    \/ Throw
    \/ Return
    \/ \E m \in Mocks, ms \in MatcherLists : ExpectCall(m, ms)
    \/ \E k \in DOMAIN expectations, n \in 0..MaxTimes : Times(k, n)
    \/ \E k \in DOMAIN expectations : WillOnce(k)
    \/ \E k \in DOMAIN expectations : WillRepeatedly(k)
    \/ \E m \in Mocks, args \in ArgLists : CallMock(m, args)

SearchStep ==
    \/ AskPredicate \/ PredicateError \/ NoMatch
    \/ MatchOnce \/ MatchFallback \/ MatchEmpty
    \/ Unexpected \/ UnexpectedThrows

Next == AuthorStep \/ SearchStep \/ Verify \/ Terminated

(* A test is one run of a JavaScript program: the engine takes the next    *)
(* step as long as there is one, and the author's code is taken to be      *)
(* finite (it makes at most MaxCalls calls).                               *)
Spec == Init /\ [][Next]_vars /\ WF_vars(Next)

-----------------------------------------------------------------------------
(***************************************************************************)
(* Properties                                                              *)
(***************************************************************************)

Statuses == {"searching", "credited", "unexpected", "aborted"}

Frames == [role  : UserRoles \cup {"call"},
           call  : Nat,
           next  : Nat,
           asked : BOOLEAN]

Calls == [mock   : Mocks,
          args   : ArgLists,
          born   : Nat,
          status : Statuses,
          by     : Nat]

Credits == [call  : Nat,
            by    : Nat,
            took  : {"once", "fallback", "empty"},
            slot  : Nat,
            slots : Nat]

(* Each variable keeps to its type: counts and indices never become null   *)
(* or undefined, and expectations, lists and frames keep their form.       *)
TypeOK ==
    /\ expectations \in Seq(ExpectationOf(Mocks, MatcherLists))
    /\ lists \in [Mocks -> Seq(Nat)]
    /\ registered \in Seq(Nat)
    /\ stack \in Seq(Frames)
    /\ failures \in Nat
    /\ threw \in BOOLEAN
    /\ phase \in {"running", "verifying", "done"}
    /\ calls \in Seq(Calls)
    /\ credits \in Seq(Credits)

(* A call is credited to the newest expectation of its mock function that  *)
(* existed when the call was made and accepts its arguments, and is an     *)
(* unexpected call only if there was none: whatever predicates do to the   *)
(* lists while the search is under way, and whatever is already satisfied. *)
Rejected(c, k) ==
    expectations[k].mock = c.mock
        => ~CheckArgs(c.args, expectations[k].argMatchers)

NewestMatchWins ==
    \A i \in DOMAIN calls :
        LET c == calls[i] IN
        /\ c.status = "credited" =>
              /\ c.by \in 1..c.born
              /\ expectations[c.by].mock = c.mock
              /\ CheckArgs(c.args, expectations[c.by].argMatchers)
              /\ \A k \in (c.by + 1)..c.born : Rejected(c, k)
        /\ c.status = "unexpected" => \A k \in 1..c.born : Rejected(c, k)

(* A call is never credited to an expectation with fewer matchers than it  *)
(* has arguments, nor to one that has a matcher that cannot do without its *)
(* argument beyond the arguments of the call.                              *)
ArityRespected ==
    \A i \in DOMAIN calls :
        calls[i].status = "credited" =>
            LET ms == expectations[calls[i].by].argMatchers
                n  == Len(calls[i].args)
            IN  /\ n <= Len(ms)
                /\ \A j \in (n + 1)..Len(ms) : ms[j].understandsMissing

(* The actions of an expectation are taken in the order they were set up,  *)
(* each one-time action once, and the fallback (or nothing) only when all  *)
(* the one-time actions set up by then are used; after the fallback was    *)
(* taken no one-time action is ever set up behind it.                      *)
UsedBefore(j, k, s) ==
    \E i \in 1..(j - 1) :
        credits[i].by = k /\ credits[i].took = "once" /\ credits[i].slot = s

ActionOrder ==
    \A j \in DOMAIN credits :
        LET c == credits[j] IN
        /\ c.took = "once" =>
              /\ \A s \in 1..(c.slot - 1) : UsedBefore(j, c.by, s)
              /\ ~UsedBefore(j, c.by, c.slot)
        /\ c.took # "once" => \A s \in 1..c.slots : UsedBefore(j, c.by, s)
        /\ c.took = "fallback" =>
              c.slots = Len(expectations[c.by].oneTimeActions)

(* Every call is accounted for once: the count of an expectation is the    *)
(* number of calls credited to it, also of those whose action threw or has *)
(* not returned, and a call still being searched for has a frame.          *)
CallsAccounted ==
    /\ \A k \in DOMAIN expectations :
          expectations[k].numMatches =
              Cardinality({ i \in DOMAIN calls :
                              calls[i].status = "credited" /\ calls[i].by = k })
    /\ \A i \in DOMAIN calls :
          calls[i].status = "searching" <=>
              \E f \in DOMAIN stack :
                  stack[f].role = "call" /\ stack[f].call = i

AnyUnexpected == \E i \in DOMAIN calls : calls[i].status = "unexpected"

PromiseOf(e) ==
    LET onces == Len(e.oneTimeActions)
        fixed == e.expectedNumMatches # NoCount
    IN  [least   |-> IF fixed THEN e.expectedNumMatches
                     ELSE IF onces = 0 /\ ~e.fallbackAction THEN 1
                     ELSE onces,
         exact   |-> fixed \/ ~e.fallbackAction,
         settled |-> fixed \/ e.fallbackAction]

Contract == INSTANCE MockContract WITH
    promises <- [k \in DOMAIN expectations |-> PromiseOf(expectations[k])],
    credited <- [k \in DOMAIN expectations |-> expectations[k].numMatches],
    failed   <- threw \/ AnyUnexpected,
    verdict  <- IF phase # "done" THEN "none"
                ELSE IF failures = 0 THEN "pass" ELSE "fail"

(* The test passes iff no exception left it, no call was unexpected, and   *)
(* every expectation ever made on any mock function got a number of calls  *)
(* its configuration allows; the registered list is empty again by then.   *)
Verdict ==
    phase = "done" =>
        /\ registered = << >>
        /\ failures = 0 <=>
              /\ ~threw
              /\ ~AnyUnexpected
              /\ \A k \in DOMAIN expectations :
                    Contract!Kept(PromiseOf(expectations[k]),
                                  expectations[k].numMatches)

(* Mocking implements the contract. *)
ContractSpec == Contract!Spec

(* The test is over some day: every search of a mock function comes to an  *)
(* end, whatever its predicates and actions do within their bounds.        *)
TestEnds == <>(phase = "done")

=============================================================================
