---------------------------- MODULE NativeRunner ----------------------------
(***************************************************************************)
(* The command-line runner: main and Run of internal/cpp/gjstest.cc, the   *)
(* suites of run_tests.cc and the log and failures of a TestCase.  It      *)
(* reads the scripts and executes them, runs the tests of every suite they *)
(* registered, and then prints its output, writes its files and exits.     *)
(* What it keeps of the tests is keyed by their full names.  A CHECK that  *)
(* fails kills the process, with whatever it had not printed yet.          *)
(*                                                                         *)
(* Scripts and tests register suites and tests (Registration); tests log,  *)
(* report failures, return or are left by an exception (TestExecution says *)
(* how).  Files are written piece by piece.                                *)
(***************************************************************************)
EXTENDS Registration, Integers, FiniteSets

CONSTANTS
    NumScripts,     \* number of the author's scripts
    Flags,          \* the command lines explored
    MaxSteps,       \* bound of what scripts and tests register
    MaxMessages     \* bound of the messages of a test

FullNames == {FullName(s, k) : s \in Suites, k \in Keys}
CommandLines ==
    [html : BOOLEAN, xmlFile : BOOLEAN, coverageFile : BOOLEAN,
     instrumented : BOOLEAN,            \* are the scripts?
     filter : SUBSET FullNames]         \* --filter: what it matches
ASSUME FlagsAssumption == Flags \subseteq CommandLines
ASSUME BoundsAssumption == {NumScripts, MaxSteps, MaxMessages} \subseteq Nat

VARIABLES
    phase,          \* how far Run() is
    flags,
    script,         \* the author's scripts executed, the current one included
    suite,          \* the suites processed, the current one included
    tests,          \* the tests of the current suite, as they were then
    index,          \* how many of them are done or skipped
    test,           \* the current TestCase
    testsRun, failures, durations,      \* tests_run and the two maps
    success,
    output, xml,    \* what RunTests gives back
    printed,        \* standard output
    files,          \* file -> its contents and how much of them is written
    exit,           \* "no", the exit status "0" or "1", or "died"
    steps,          \* what has been registered, for the bound
    broken,         \* history: did a script fail?
    planned,        \* history: the tests there were when all scripts had run
    visited,        \* history: the suites processed
    verdicts        \* history: the tests run, and whether they passed

command == << flags, steps >>
registration == << testSuites, prototypes >>
report == << testsRun, failures, durations, success >>
results == << output, xml, printed >>
position == << script, suite, tests, index >>
history == << broken, planned, visited, verdicts >>
vars == << command, registration, phase, position, test, report, results,
           files, exit, history >>

Files == {"html", "xml", "coverage"}
NoFile == [contents |-> "none", written |-> 0]
NoTest == [suite |-> 0, key |-> 0, succeeded |-> TRUE, output |-> << >>,
           failureOutput |-> 0]
Empty == [failures |-> 0, cases |-> << >>, written |-> FALSE]
Line(kind, name) == [kind |-> kind, name |-> name]

Init ==
    /\ RegistrationInit
    /\ phase = "start"
    /\ flags \in Flags
    /\ script = 0
    /\ suite = 0
    /\ tests = << >>
    /\ index = 0
    /\ test = NoTest
    /\ testsRun = << >>
    /\ failures = << >>
    /\ durations = {}
    /\ success = TRUE
    /\ output = << >>
    /\ xml = Empty
    /\ printed = << >>
    /\ files = [f \in Files |-> NoFile]
    /\ exit = "no"
    /\ steps = 0
    /\ broken = FALSE
    /\ planned = {}
    /\ visited = {}
    /\ verdicts = << >>

-----------------------------------------------------------------------------
(* A failed CHECK, PCHECK, ToLocalChecked or a crash. *)
Die ==
    /\ exit' = "died"
    /\ UNCHANGED << command, registration, phase, position, test, report,
                    results, files, history >>

-----------------------------------------------------------------------------
(* Scripts *)

(* Run: a page for the browser, or the scripts. *)
GenerateHtml ==
    /\ phase = "start"
    /\ flags.html
    /\ phase' = "write_html"
    /\ UNCHANGED << command, registration, position, test, report, results,
                    files, exit, history >>

LoadScripts ==
    /\ phase = "start"
    /\ ~flags.html
    /\ phase' = "scripts"
    /\ UNCHANGED << command, registration, position, test, report, results,
                    files, exit, history >>

(* ReadFileOrDie of a script that cannot be opened or read. *)
ScriptUnreadable == phase = "start" /\ ~flags.html /\ Die

ExecuteScript ==
    /\ phase = "scripts"
    /\ script < NumScripts
    /\ script' = script + 1
    /\ phase' = "script"
    /\ UNCHANGED << command, registration, suite, tests, index, test, report,
                    results, files, exit, history >>

ScriptEnds ==
    /\ phase = "script"
    /\ phase' = "scripts"
    /\ UNCHANGED << command, registration, position, test, report, results,
                    files, exit, history >>

(* It does not compile, or an exception leaves it: RunTests gives up. *)
ScriptFails ==
    /\ phase = "script"
    /\ phase' = "print"
    /\ success' = FALSE
    /\ output' = Append(output, Line("error", << >>))
    /\ broken' = TRUE
    /\ UNCHANGED << command, registration, position, test, testsRun, failures,
                    durations, xml, printed, files, exit, planned, visited,
                    verdicts >>

(* What scripts do, and tests too; a call that throws is the end of both   *)
(* unless they catch it.                                                   *)
Registers ==
    /\ phase \in {"script", "test"}
    /\ steps < MaxSteps
    /\ steps' = steps + 1
    /\ \/ \E s \in Suites : RegisterTestSuite(s)
       \/ \E s \in Suites, k \in Keys : AddTest(s, k)
       \/ /\ phase = "script"
          /\ \E s \in Suites, k \in Keys, isFunction \in BOOLEAN :
                Assign(s, k, isFunction)
    /\ UNCHANGED << flags, phase, position, test, report, results, files, exit,
                    history >>

StartTests ==
    /\ phase = "scripts"
    /\ script = NumScripts
    /\ phase' = "suites"
    /\ planned' = UNION {{<< s, p.key >> : p \in Elements(GetTestFunctions(s))} :
                            s \in Elements(testSuites)}
    /\ UNCHANGED << command, registration, position, test, report, results,
                    files, exit, broken, visited, verdicts >>

-----------------------------------------------------------------------------
(* Suites and tests *)

(* The list of suites may have grown while tests ran. *)
MoreSuitesThanAtFirst == suite < Cardinality({p[1] : p \in planned})    \* mutant
MoreSuites == suite < Len(testSuites)

(* Object.keys of a prototype there is not throws, and nothing comes back. *)
NextSuite ==
    /\ phase = "suites"
    /\ MoreSuites
    /\ LET s == testSuites[suite + 1] IN
       IF s \in NoPrototype THEN Die
       ELSE /\ suite' = suite + 1
            /\ tests' = GetTestFunctions(s)
            /\ index' = 0
            /\ phase' = "suite"
            /\ visited' = visited \cup {s}
            /\ UNCHANGED << command, registration, script, test, report, results,
                            files, exit, broken, planned, verdicts >>

Current == testSuites[suite]
NextName == FullName(Current, tests[index + 1].key)
FullMatch(name) == name \in flags.filter

SkipTestForever ==                                            \* mutant
    /\ phase = "suite"
    /\ index < Len(tests)
    /\ ~FullMatch(NextName)
    /\ UNCHANGED vars
SkipTest ==
    /\ phase = "suite"
    /\ index < Len(tests)
    /\ ~FullMatch(NextName)
    /\ index' = index + 1
    /\ UNCHANGED << command, registration, phase, script, suite, tests, test,
                    report, results, files, exit, history >>

StartTest ==
    /\ phase = "suite"
    /\ index < Len(tests)
    /\ FullMatch(NextName)
    /\ index' = index + 1
    /\ phase' = "test"
    /\ test' = [NoTest EXCEPT !.suite = Current, !.key = tests[index + 1].key]
    /\ testsRun' = Append(testsRun, NextName)
    /\ UNCHANGED << command, registration, script, suite, tests, failures,
                    durations, success, results, files, exit, history >>

Name == FullName(test.suite, test.key)

LogString ==
    /\ phase = "test"
    /\ Len(test.output) < MaxMessages
    /\ test' = [test EXCEPT !.output = Append(@, Line("log", Name))]
    /\ UNCHANGED << command, registration, phase, position, report, results,
                    files, exit, history >>

FailedWithoutMessage(t) ==                                    \* mutant
    [t EXCEPT !.succeeded = FALSE, !.output = Append(@, Line("message", Name))]
FailedBy(t) ==
    [t EXCEPT !.succeeded = FALSE,
              !.output = Append(@, Line("message", Name)),
              !.failureOutput = @ + 1]

RecordFailure ==
    /\ phase = "test"
    /\ Len(test.output) < MaxMessages
    /\ test' = FailedBy(test)
    /\ UNCHANGED << command, registration, phase, position, report, results,
                    files, exit, history >>

(* InsertOrDie and InsertOrUpdate of util/gtl/map_util.h. *)
InsertAnyway(map, key) == TRUE                                \* mutant
MayInsert(map, key) == key \notin map

(* The rest of ProcessTestCase, after runTest has returned or thrown. *)
ProcessTestCase(t) ==
    LET failed == ~t.succeeded
        status == IF failed THEN "FAILED" ELSE "OK"
    IN  IF (failed => MayInsert(DOMAIN failures, Name)) /\ MayInsert(durations, Name)
        THEN /\ success' = (success /\ ~failed)
             /\ failures' = IF failed
                    THEN [n \in DOMAIN failures \cup {Name} |->
                             IF n = Name THEN t.failureOutput ELSE failures[n]]
                    ELSE failures
             /\ durations' = durations \cup {Name}
             /\ output' = (output \o << Line("RUN", Name) >> \o t.output)
                              \o << Line(status, Name) >>
             /\ verdicts' = Append(verdicts,
                    [suite |-> t.suite, key |-> t.key, passed |-> ~failed])
             /\ phase' = "suite"
             /\ test' = NoTest
             /\ UNCHANGED << command, registration, position, testsRun, xml,
                             printed, files, exit, broken, planned, visited >>
        ELSE Die

TestReturns == phase = "test" /\ ProcessTestCase(test)
(* An exception leaves runTest and is described in its place. *)
TestEscapes == phase = "test" /\ ProcessTestCase(FailedBy(test))

SuiteEnds ==
    /\ phase = "suite"
    /\ index = Len(tests)
    /\ phase' = "suites"
    /\ UNCHANGED << command, registration, position, test, report, results,
                    files, exit, history >>

-----------------------------------------------------------------------------
(* The report *)

(* MakeXml: an element for each test run, in order. *)
Cases ==
    LET ran == Only(testsRun, durations)
    IN  [i \in DOMAIN ran |-> [name |-> ran[i], failed |-> ran[i] \in DOMAIN failures]]
MakeXml ==
    [failures |-> Cardinality(DOMAIN failures), cases |-> Cases, written |-> TRUE]

CanExtractCoverage == ~flags.coverageFile \/ flags.instrumented

(* The end of RunTests. *)
NoTestsFoundUnnoticed == FALSE                                \* mutant
NoTestsFound == durations = {}

EndTests ==
    /\ phase = "suites"
    /\ ~MoreSuites
    /\ IF NoTestsFound
       THEN /\ output' = << Line("none_found", << >>) >>
            /\ success' = FALSE
            /\ phase' = "print"
            /\ UNCHANGED << command, registration, position, test, testsRun,
                            failures, durations, xml, printed, files, exit, history >>
       ELSE IF CanExtractCoverage
       THEN /\ output' = Append(output, Line(IF success THEN "all_passed" ELSE "some_failed", << >>))
            /\ xml' = MakeXml
            /\ phase' = "print"
            /\ UNCHANGED << command, registration, position, test, report, printed,
                            files, exit, history >>
       ELSE Die

(* std::cout << output; the file to write next is that of the XML. *)
PrintOutput ==
    /\ phase = "print"
    /\ printed' = output
    /\ phase' = "write_xml"
    /\ UNCHANGED << command, registration, position, test, report, output, xml,
                    files, exit, history >>

-----------------------------------------------------------------------------
(* WriteStringToFileOrDie *)

Writing == phase \in {"write_html", "write_xml", "write_coverage"}
File == CASE phase = "write_html" -> "html"
          [] phase = "write_xml" -> "xml"
          [] phase = "write_coverage" -> "coverage"
Wanted == flags.html \/ (File = "xml" /\ flags.xmlFile)
                     \/ (File = "coverage" /\ flags.coverageFile)
Contents ==
    CASE File = "html" -> "page"
      [] File = "xml" -> IF xml.written THEN "report" ELSE "empty"
      [] File = "coverage" -> IF xml.written /\ flags.instrumented THEN "lines" ELSE "empty"
(* In pieces of which fwrite takes one or more at a time. *)
Size(contents) ==
    CASE contents \in {"page", "report"} -> 2
      [] contents = "lines" -> 1
      [] contents \in {"none", "empty"} -> 0

OpenFile ==
    /\ Writing
    /\ Wanted
    /\ files[File] = NoFile
    /\ files' = [files EXCEPT ![File] = [contents |-> Contents, written |-> 0]]
    /\ UNCHANGED << command, registration, phase, position, test, report, results,
                    exit, history >>

WritePiece ==
    /\ Writing
    /\ files[File].written < Size(files[File].contents)
    /\ \E n \in 1..Size(files[File].contents) - files[File].written :
          files' = [files EXCEPT ![File].written = @ + n]
    /\ UNCHANGED << command, registration, phase, position, test, report, results,
                    exit, history >>

(* fopen fails, fwrite takes nothing, or fclose fails. *)
WriteFails == Writing /\ Wanted /\ Die

WrittenAfterOnePiece ==                                       \* mutant
    files[File].written > 0 \/ Size(files[File].contents) = 0
Written == files[File].written = Size(files[File].contents)

ExitStatus == IF flags.html \/ success THEN "0" ELSE "1"

CloseFile ==
    /\ Writing
    /\ Wanted => files[File] # NoFile /\ Written
    /\ IF File = "xml" THEN phase' = "write_coverage" /\ UNCHANGED exit
       ELSE phase' = "done" /\ exit' = ExitStatus
    /\ UNCHANGED << command, registration, position, test, report, results, files,
                    history >>

-----------------------------------------------------------------------------
Running ==
    \/ GenerateHtml \/ LoadScripts \/ ScriptUnreadable
    \/ ExecuteScript \/ ScriptEnds \/ ScriptFails \/ Registers
    \/ StartTests \/ NextSuite \/ SkipTest \/ StartTest
    \/ LogString \/ RecordFailure \/ TestReturns \/ TestEscapes \/ SuiteEnds
    \/ EndTests \/ PrintOutput
    \/ OpenFile \/ WritePiece \/ WriteFails \/ CloseFile
Next == exit = "no" /\ Running

(* The process goes on until it ends; scripts and tests come to an end. *)
Spec == Init /\ [][Next]_vars /\ WF_vars(Next)
-----------------------------------------------------------------------------
(***************************************************************************)
(* Properties                                                              *)
(***************************************************************************)

TypeOK ==
    /\ Elements(testSuites) \subseteq Suites
    /\ phase \in {"start", "scripts", "script", "suites", "suite", "test", "print",
                  "write_html", "write_xml", "write_coverage", "done"}
    /\ script \in 0..NumScripts
    /\ suite \in 0..Len(testSuites)
    /\ index \in 0..Len(tests)
    /\ DOMAIN failures \subseteq durations
    /\ durations \subseteq FullNames
    /\ Elements(testsRun) \subseteq FullNames
    /\ \A n \in DOMAIN failures : failures[n] \in Nat \ {0}
    /\ exit \in {"no", "0", "1", "died"}

RanTests == exit \in {"0", "1"} /\ ~flags.html

(* "Returning true iff they all pass": the exit status is 0 if and only if *)
(* every script was executed, a test was run and none failed.              *)
ExitStatusHonest ==
    RanTests =>
        (exit = "0" <=> ~broken /\ verdicts # << >>
                              /\ \A i \in DOMAIN verdicts : verdicts[i].passed)

(* What is printed, what the XML says and what happened are the same: each *)
(* test that was run has one verdict in both, its own, in order, although  *)
(* the maps they come from know full names only, and two suites may have   *)
(* one name.                                                               *)
VerdictOf(v) == [name |-> FullName(v.suite, v.key), failed |-> ~v.passed]
ReportsAgree ==
    RanTests /\ verdicts # << >> /\ ~broken =>
        LET happened == [i \in DOMAIN verdicts |-> VerdictOf(verdicts[i])]
            lines == Only(printed, {l \in Elements(printed) : l.kind \in {"OK", "FAILED"}})
        IN  /\ xml.cases = happened
            /\ xml.failures = Cardinality({i \in DOMAIN happened : happened[i].failed})
            /\ [i \in DOMAIN lines |-> [name |-> lines[i].name,
                                        failed |-> lines[i].kind = "FAILED"]] = happened

(* No suite and no test is forgotten: if the process exits by itself, each *)
(* suite registered in time, also by a test, was visited, and each test    *)
(* the scripts had left in a suite has been run if its name matches.       *)
NothingForgotten ==
    RanTests /\ ~broken =>
        /\ Elements(testSuites) = visited
        /\ \A p \in planned :
              FullMatch(FullName(p[1], p[2])) =>
                  \E i \in DOMAIN verdicts :
                      verdicts[i].suite = p[1] /\ verdicts[i].key = p[2]

(* When the process exits by itself, the files that were asked for, and no *)
(* others, are there and complete, each with what belongs in it: the page, *)
(* or the XML and the coverage of the tests that were run, which are empty *)
(* files if there were none or a script failed.                            *)
AskedFor ==
    IF flags.html THEN {"html"}
    ELSE (IF flags.xmlFile THEN {"xml"} ELSE {})
             \cup (IF flags.coverageFile THEN {"coverage"} ELSE {})
Expected(f) ==
    CASE f = "html" -> "page"
      [] f = "xml" -> IF broken \/ verdicts = << >> THEN "empty" ELSE "report"
      [] f = "coverage" -> IF broken \/ verdicts = << >> THEN "empty" ELSE "lines"
FilesComplete ==
    exit \in {"0", "1"} =>
        \A f \in Files :
            IF f \in AskedFor
            THEN files[f] = [contents |-> Expected(f), written |-> Size(Expected(f))]
            ELSE files[f] = NoFile

(* The process ends, although tests may register further suites. *)
Ends == <>(exit # "no")
=============================================================================
