--------------------------- MODULE BrowserRunner ----------------------------
(***************************************************************************)
(* The page the command line writes with --html_output_file, in a browser: *)
(* internal/js/browser/run_tests.js.  The page loads the scripts one after *)
(* the other; its onload handler collects the tests of the suites they     *)
(* registered, renders a header for each, and runs one test in each        *)
(* callback of a timer.  An exception that leaves the handler or a         *)
(* callback is the end of it, and the rest of the page works on without.   *)
(***************************************************************************)
EXTENDS Registration, FiniteSets

CONSTANTS
    NumScripts,     \* number of the author's scripts
    Filters,        \* for each URL explored, the names its filter matches
    Malformed,      \* that of a URL whose filter cannot be decoded or compiled
    MaxSteps        \* bound of what scripts and tests register

VARIABLES
    stage,          \* "closed", "loading", "waiting" for the timer,
                    \* in a "test", "over", or "stuck" after an exception
    loaded,         \* the author's scripts executed
    filter,         \* filterFromUrlParams_
    cases,          \* the test cases in order, before allCases shrinks
    taken,          \* how many were taken off allCases
    header,         \* the class of the header of each, "none" without one
    failure,        \* of the current test
    status,         \* the line at the top: its class and its two numbers
    steps,          \* what has been registered, for the bound
    undescribed,    \* history: was there an exception that has no text?
    flawed          \* history: the tests that reported a failure or escaped

registration == << testSuites, prototypes, steps >>
history == << undescribed, flawed >>
page == << stage, loaded, filter, cases, taken, header, failure, status, history >>
vars == << registration, page >>

Init ==
    /\ RegistrationInit
    /\ stage = "closed"
    /\ loaded = 0
    /\ filter = {}
    /\ cases = << >>
    /\ taken = 0
    /\ header = << >>
    /\ failure = FALSE
    /\ status = [class |-> "none", run |-> 0, passed |-> 0]
    /\ steps = 0
    /\ undescribed = FALSE
    /\ flawed = {}

-----------------------------------------------------------------------------
(* The page is opened, with a filter in its URL or without. *)
Open ==
    /\ stage = "closed"
    /\ stage' = "loading"
    /\ filter' \in Filters
    /\ UNCHANGED << registration, loaded, cases, taken, header, failure, status,
                    history >>

(* Scripts, and the tests when they run: only what is there when the page  *)
(* has been loaded will be run.                                            *)
Registers ==
    /\ stage = "test" \/ (stage = "loading" /\ loaded < NumScripts)
    /\ steps < MaxSteps
    /\ steps' = steps + 1
    /\ \/ \E s \in Suites : RegisterTestSuite(s)
       \/ \E s \in Suites, k \in Keys : AddTest(s, k)
    /\ UNCHANGED page

(* By itself or by an exception: the browser goes on to the next. *)
ScriptEnds ==
    /\ stage = "loading"
    /\ loaded < NumScripts
    /\ loaded' = loaded + 1
    /\ UNCHANGED << registration, stage, filter, cases, taken, header, failure,
                    status, history >>

(* runTestsInBrowser: a suite that is registered after another of the same *)
(* name takes its place on the page, but not that of its tests in the list.*)
OnPage(s) ==
    \A i, j \in DOMAIN testSuites :
        testSuites[i] = s /\ NameOf[testSuites[j]] = NameOf[s] => j <= i
TestCase(s, p) == [suite |-> s, key |-> p.key, enabled |-> p.key \in filter]
CasesOf(s) ==
    LET tests == GetTestFunctions(s) IN [i \in DOMAIN tests |-> TestCase(s, tests[i])]
AllCases == Together([n \in DOMAIN testSuites |-> CasesOf(testSuites[n])])

(* runOneTest takes the next test off the list, if there is one. *)
RunOneTestForgetsLast(n) ==                                   \* mutant
    IF taken + 1 < n THEN taken' = taken + 1 /\ stage' = "waiting"
    ELSE UNCHANGED taken /\ stage' = "over"
RunOneTest(n) ==
    IF taken < n THEN taken' = taken + 1 /\ stage' = "waiting"
    ELSE UNCHANGED taken /\ stage' = "over"

Stuck == stage' = "stuck" /\ UNCHANGED << registration, loaded, filter, cases, taken,
                                          header, failure, status >>

(* The filter is read first: RegExp or decodeURIComponent may throw.  Then *)
(* Object.keys does for the prototype of an arrow function.                *)
CannotCollect ==
    filter = Malformed \/ Elements(testSuites) \cap NoPrototype # {}

RunTestsInBrowser ==
    /\ stage = "loading"
    /\ loaded = NumScripts
    /\ IF CannotCollect
       THEN Stuck /\ UNCHANGED history
       ELSE /\ cases' = AllCases
            /\ header' = [i \in DOMAIN AllCases |->
                             IF OnPage(AllCases[i].suite) THEN "plain" ELSE "none"]
            /\ status' = [class |-> "running", run |-> 0, passed |-> 0]
            /\ RunOneTest(Len(AllCases))
            /\ UNCHANGED << registration, loaded, filter, failure, history >>

-----------------------------------------------------------------------------
(* updateStatus, after a test. *)
DoneBeforeLast == taken + 1 >= Len(cases)                     \* mutant
Done == taken = Len(cases)
UpdateStatus(run, passed) ==
    [class |-> IF ~Done THEN status.class ELSE IF run = passed THEN "pass" ELSE "fail",
     run |-> run, passed |-> passed]

(* The rest of the callback, with what TestCase.run returns. *)
Concluded(class) ==
    /\ header' = [header EXCEPT ![taken] = class]
    /\ status' = UpdateStatus(status.run + 1,
                              IF class = "fail" THEN status.passed ELSE status.passed + 1)
    /\ RunOneTest(Len(cases))
    /\ UNCHANGED << registration, loaded, filter, cases, undescribed >>

(* TestCase.run up to the test; there may be no header to mark. *)
SkipTest ==
    /\ stage = "waiting"
    /\ ~cases[taken].enabled
    /\ header[taken] # "none"
    /\ Concluded("skip")
    /\ UNCHANGED << failure, flawed >>

StartTest ==
    /\ stage = "waiting"
    /\ cases[taken].enabled
    /\ header[taken] # "none"
    /\ header' = [header EXCEPT ![taken] = "running"]
    /\ failure' = FALSE
    /\ stage' = "test"
    /\ UNCHANGED << registration, loaded, filter, cases, taken, status, history >>

NoHeader ==
    /\ stage = "waiting"
    /\ header[taken] = "none"
    /\ Stuck
    /\ UNCHANGED history

ReportFailure ==
    /\ stage = "test"
    /\ failure' = TRUE
    /\ flawed' = flawed \cup {taken}
    /\ UNCHANGED << registration, stage, loaded, filter, cases, taken, header,
                    status, undescribed >>

(* runTest returns, or what leaves it is described and reported. *)
TestReturns ==
    /\ stage = "test"
    /\ Concluded(IF failure THEN "fail" ELSE "pass")
    /\ UNCHANGED << failure, flawed >>

TestEscapes ==
    /\ stage = "test"
    /\ failure' = TRUE
    /\ flawed' = flawed \cup {taken}
    /\ Concluded("fail")

(* gjstest.stringify throws in the catch clause. *)
EscapesUndescribed ==
    /\ stage = "test"
    /\ Stuck
    /\ undescribed' = TRUE
    /\ UNCHANGED flawed

Next ==
    \/ Open \/ Registers \/ ScriptEnds \/ RunTestsInBrowser
    \/ SkipTest \/ StartTest \/ NoHeader
    \/ ReportFailure \/ TestReturns \/ TestEscapes \/ EscapesUndescribed

(* Timers fire, scripts and tests come to an end. *)
Spec == Init /\ [][Next]_vars /\ WF_vars(Next)

-----------------------------------------------------------------------------
TypeOK ==
    /\ stage \in {"closed", "loading", "waiting", "test", "over", "stuck"}
    /\ loaded \in 0..NumScripts
    /\ Elements(header) \subseteq {"none", "plain", "running", "skip", "pass", "fail"}
    /\ Len(header) = Len(cases)
    /\ taken \in 0..Len(cases)
    /\ stage \in {"waiting", "test"} => taken > 0
    /\ status.class \in {"none", "running", "pass", "fail"}

(* Each header tells what became of its test, in the order they are taken, *)
(* and of no other: skip of one the filter does not match, fail of one     *)
(* that reported a failure or let an exception escape.  The failures that  *)
(* the line at the top counts are those of the headers; and it says pass   *)
(* or fail only when all tests have a verdict: fail, if one of them has.   *)
(* How many tests were run and passed it does not tell: those skipped are  *)
(* counted in both numbers.                                                *)
Verdict(i) ==
    IF ~cases[i].enabled THEN "skip" ELSE IF i \in flawed THEN "fail" ELSE "pass"
Verdicts == {"skip", "fail", "pass"}
FailedHeaders == {i \in DOMAIN header : header[i] = "fail"}
PageHonest ==
    /\ \A i \in DOMAIN header :
          /\ i < taken \/ status.class \in {"pass", "fail"} => header[i] = Verdict(i)
          /\ header[i] \in Verdicts => header[i] = Verdict(i)
    /\ status.run - status.passed = Cardinality(FailedHeaders)
    /\ status.class = "fail" => FailedHeaders # {}
    /\ status.class = "pass" => FailedHeaders = {}

(* The page comes to its pass or fail but for five reasons: the filter in  *)
(* the URL is malformed, there are no tests, one of the suites is an arrow *)
(* function, the current test's suite has lost its place on the page, or   *)
(* an exception has no text.                                               *)
NotFiltered == stage = "stuck" /\ taken = 0 /\ filter = Malformed
NoTests == stage = "over" /\ cases = << >>
Arrow == stage = "stuck" /\ taken = 0 /\ Elements(testSuites) \cap NoPrototype # {}
PlaceLost ==
    stage = "stuck" /\ taken > 0 /\ ~OnPage(cases[taken].suite)
Settled ==
    \/ status.class \in {"pass", "fail"}
    \/ NotFiltered \/ NoTests \/ Arrow \/ PlaceLost \/ undescribed
=============================================================================
