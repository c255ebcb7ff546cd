-------------------------- MODULE CallExpectations --------------------------
(***************************************************************************)
(* The expectation a mock function keeps for each expectCall(...)(...):    *)
(* gjstest/internal/js/call_expectation.js.  A matcher is abstracted to    *)
(* what the argument check tells apart: the values its predicate accepts,  *)
(* whether it understands a missing argument, and whether asking it runs   *)
(* code of the test's author ("user"), for instance through throwsError or *)
(* an overridden gjstestEquals.  A MockAction is the flag `expired' alone: *)
(* its function is code of the test's author, which Mocking runs.          *)
(***************************************************************************)
EXTENDS Naturals, Sequences

CONSTANTS
    Missing,        \* gjstest.missingArgSentinel
    SentinelMatcher, \* the matcher gjstest.isMissingArgSentinel
    NoCount         \* null, as a value of expectedNumMatches

ASSUME NoCountAssumption == NoCount \notin Nat

-----------------------------------------------------------------------------
(* new CallExpectation(argMatchers, stackFrame), for the mock function whose *)
(* list it is pushed to.                                                   *)
NewExpectationUncounted(mock, matchers) ==                    \* mutant
    [mock               |-> mock,
     argMatchers        |-> matchers,
     expectedNumMatches |-> NoCount,
     oneTimeActions     |-> << >>,
     fallbackAction     |-> FALSE,
     numMatches         |-> NoCount]

NewExpectation(mock, matchers) ==
    [mock               |-> mock,
     argMatchers        |-> matchers,
     expectedNumMatches |-> NoCount,
     oneTimeActions     |-> << >>,
     fallbackAction     |-> FALSE,
     numMatches         |-> 0]

ExpectationOf(Mocks, Matchers) ==
    [mock               : Mocks,
     argMatchers        : Matchers,
     expectedNumMatches : Nat \cup {NoCount},
     oneTimeActions     : Seq(BOOLEAN),       \* the flag `expired' of each
     fallbackAction     : BOOLEAN,
     numMatches         : Nat]

-----------------------------------------------------------------------------
(* checkExpectationSatisfied *)

DecideAtLeast(e, count, lowerBound) == e.numMatches >= count  \* mutant
Decide(e, count, lowerBound) ==
    e.numMatches = count \/ (lowerBound /\ e.numMatches > count)

CheckExpectationSatisfied(e) ==
    IF e.expectedNumMatches # NoCount
      THEN Decide(e, e.expectedNumMatches, FALSE)
    ELSE IF e.oneTimeActions # << >>
      THEN Decide(e, Len(e.oneTimeActions), e.fallbackAction)
    ELSE e.fallbackAction \/ Decide(e, 1, FALSE)

-----------------------------------------------------------------------------
(* checkArgsAgainstExpectation, against the list of matchers `ms' *)

ArgAt(args, i) == IF i <= Len(args) THEN args[i] ELSE Missing

(* The special case of the sentinel itself passed to isMissingArgSentinel. *)
SentinelPassed(args, ms, i) ==
    /\ i <= Len(args)
    /\ args[i] = Missing
    /\ ms[i] = SentinelMatcher

(* The predicate of the i-th matcher is called. *)
Consulted(args, ms, i) ==
    /\ ~SentinelPassed(args, ms, i)
    /\ ArgAt(args, i) = Missing => ms[i].understandsMissing

ArgMatches(args, ms, i) ==
    \/ SentinelPassed(args, ms, i)
    \/ Consulted(args, ms, i) /\ ArgAt(args, i) \in ms[i].accepts

CheckArgsSurplusIgnored(args, ms) ==                          \* mutant
    \A i \in 1..Len(ms) : ArgMatches(args, ms, i)
CheckArgs(args, ms) ==
    /\ Len(args) <= Len(ms)
    /\ \A i \in 1..Len(ms) : ArgMatches(args, ms, i)

(* The loop over the matchers gets as far as calling the i-th predicate. *)
Asks(args, ms, i) ==
    /\ Len(args) <= Len(ms)
    /\ i \in 1..Len(ms)
    /\ \A j \in 1..(i - 1) : ArgMatches(args, ms, j)
    /\ Consulted(args, ms, i)

AsksUser(args, ms) == \E i \in 1..Len(ms) : Asks(args, ms, i) /\ ms[i].user

(* isMissingArgSentinel's own predicate "should never be called" and throws. *)
AsksSentinelMatcher(args, ms) ==
    \E i \in 1..Len(ms) : Asks(args, ms, i) /\ ms[i] = SentinelMatcher

=============================================================================
