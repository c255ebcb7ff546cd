---------------------------- MODULE RunnersProofs ----------------------------
(* Theorems about NativeRunner and Runners, for every value of their       *)
(* constants: any number of scripts, suites and tests, any names and       *)
(* command lines; and the process and the page together, whatever the page *)
(* registers for itself.                                                   *)
EXTENDS Runners, SelectionProofs, FiniteSetTheorems

AllPassed == \A i \in DOMAIN verdicts : verdicts[i].passed
NoneRun == verdicts = << >>

(* The phases before the result is known, and those after.                 *)
Undecided == phase \in {"start", "scripts", "script", "suites", "suite", "test"}
Decided == phase \in {"print", "write_xml", "write_coverage", "done"}

(* What ties `success' and the map of durations, which Run() goes by, to   *)
(* what happened.                                                          *)
Result ==
    /\ verdicts \in Seq(Elements(verdicts))
    /\ Undecided =>
          /\ ~broken
          /\ success <=> AllPassed
          /\ durations = {} <=> NoneRun
    /\ Decided /\ ~flags.html => (success <=> ~broken /\ ~NoneRun /\ AllPassed)
    /\ flags.html => phase \in {"start", "write_html", "done"}
    /\ phase = "write_html" => flags.html
    /\ exit \in {"0", "1"} => phase = "done" /\ exit = ExitStatus

(* Only one step adds a verdict. *)
LEMMA VerdictAdded ==
    ASSUME NEW v, verdicts \in Seq(Elements(verdicts)), verdicts' = Append(verdicts, v)
    PROVE  /\ verdicts' \in Seq(Elements(verdicts'))
           /\ ~NoneRun'
           /\ AllPassed' <=> AllPassed /\ v.passed
<1> DEFINE S == Elements(verdicts) \cup {v}
<1>1. verdicts \in Seq(S) /\ v \in S
  <2>1. \A i \in 1..Len(verdicts) : verdicts[i] \in S
    BY ElementOfSeq
  <2> QED
    BY <2>1
<1>2. /\ verdicts' \in Seq(S)
      /\ Len(verdicts') = Len(verdicts) + 1
      /\ \A i \in 1..Len(verdicts) : verdicts'[i] = verdicts[i]
      /\ verdicts'[Len(verdicts) + 1] = v
  <2> HIDE DEF S
  <2> QED BY <1>1, AppendProperties
<1>3. /\ DOMAIN verdicts = 1..Len(verdicts) /\ Len(verdicts) \in Nat
      /\ DOMAIN verdicts' = 1..Len(verdicts) + 1
  <2> HIDE DEF S
  <2> QED BY <1>1, <1>2, LenProperties
<1>4. verdicts' \in Seq(Elements(verdicts'))
  <2>1. \A i \in 1..Len(verdicts') : verdicts'[i] \in Elements(verdicts')
    BY <1>2, <1>3 DEF Elements
  <2> HIDE DEF S
  <2> QED
    BY <1>2, <2>1
<1>5. ~NoneRun'
  <2> HIDE DEF S
  <2> QED BY <1>2, <1>3, EmptySeq DEF NoneRun
<1>6. AllPassed' <=> AllPassed /\ v.passed
  BY <1>2, <1>3 DEF AllPassed
<1> QED
  BY <1>4, <1>5, <1>6

(* What the result hangs on; most steps leave it alone. *)
frame == << flags, broken, verdicts, success, durations >>

LEMMA SameResult ==
    ASSUME Result, exit = "no", exit' \notin {"0", "1"}, UNCHANGED frame,
           Undecided' => Undecided,
           Decided' /\ ~flags.html => Decided,
           flags.html => phase' \in {"start", "write_html", "done"},
           phase' = "write_html" => flags.html
    PROVE  Result'
BY DEF Result, frame, AllPassed, NoneRun, Elements, Undecided, Decided

LEMMA DieKeepsResult == Result /\ exit = "no" /\ Die => Result'
BY SameResult DEF Die, frame, command, report, history, Result, Undecided, Decided

LEMMA ProcessKeepsResult ==
    ASSUME Result, exit = "no", phase = "test", NEW t, ProcessTestCase(t)
    PROVE  Result'
<1>1. ~flags.html
  BY DEF Result
<1>2. CASE Die
  BY <1>2, DieKeepsResult
<1>3. CASE ~Die
  <2>1. PICK v : v = [suite |-> t.suite, key |-> t.key, passed |-> ~~t.succeeded]
    OBVIOUS
  <2>2. /\ verdicts' = Append(verdicts, v)
        /\ success' = (success /\ ~~t.succeeded)
        /\ durations' = durations \cup {Name}
        /\ phase' = "suite"
        /\ UNCHANGED << flags, broken, exit >>
    BY <1>3, <2>1 DEF ProcessTestCase, command
  <2>3. /\ verdicts' \in Seq(Elements(verdicts'))
        /\ ~NoneRun'
        /\ AllPassed' <=> AllPassed /\ v.passed
    BY <2>2, VerdictAdded DEF Result
  <2>4. success' <=> AllPassed'
    BY <2>1, <2>2, <2>3 DEF Result, Undecided
  <2>5. durations' # {}
    BY <2>2
  <2> QED
    BY <1>1, <2>2, <2>3, <2>4, <2>5 DEF Result, Undecided, Decided
<1> QED
  BY <1>2, <1>3

LEMMA ResultNext == Result /\ [Next]_vars => Result'
<1> SUFFICES ASSUME Result, [Next]_vars PROVE Result'
  OBVIOUS
<1>1. CASE UNCHANGED vars
  BY <1>1 DEF vars, command, report, history, Result, AllPassed, NoneRun, Elements,
              Undecided, Decided, ExitStatus
<1>2. CASE Next
  <2>0. exit = "no"
    BY <1>2 DEF Next
  <2>1. CASE GenerateHtml
    BY <2>0, <2>1, SameResult
       DEF GenerateHtml, frame, command, report, history, Undecided, Decided
  <2>2. CASE \/ LoadScripts \/ ExecuteScript \/ ScriptEnds \/ StartTests
             \/ StartTest \/ SuiteEnds
    <3>1. /\ UNCHANGED << frame, exit >> /\ Undecided /\ Undecided' /\ ~flags.html
          /\ phase' # "write_html"
      BY <2>2 DEF LoadScripts, ExecuteScript, ScriptEnds, StartTests, StartTest, SuiteEnds,
                  frame, command, report, history, Undecided, Result
    <3> QED
      BY <2>0, <3>1, SameResult DEF Undecided, Decided
  <2>3. CASE ScriptUnreadable \/ WriteFails
    BY <2>0, <2>3, DieKeepsResult DEF ScriptUnreadable, WriteFails
  <2>4. CASE ScriptFails
    BY <2>0, <2>4 DEF ScriptFails, command, Result, AllPassed, NoneRun, Elements,
                      Undecided, Decided
  <2>5. CASE Registers \/ SkipTest \/ LogString \/ RecordFailure
    BY <2>0, <2>5, SameResult
       DEF Registers, SkipTest, LogString, RecordFailure, frame, command, report, history, Result,
           Undecided, Decided
  <2>6. CASE NextSuite
    <3>1. CASE Die
      BY <2>0, <3>1, DieKeepsResult
    <3>2. CASE ~Die
      BY <2>0, <2>6, <3>2, SameResult
         DEF NextSuite, frame, command, report, history, Result, Undecided, Decided
    <3> QED
      BY <3>1, <3>2
  <2>7. CASE TestReturns
    BY <2>0, <2>7, ProcessKeepsResult DEF TestReturns
  <2>8. CASE TestEscapes
    BY <2>0, <2>8, ProcessKeepsResult DEF TestEscapes
  <2>9. CASE EndTests
    <3>1. CASE Die
      BY <2>0, <3>1, DieKeepsResult
    <3>2. CASE ~Die
      BY <2>0, <2>9, <3>2
         DEF EndTests, NoTestsFound, command, report, history, Result, AllPassed, NoneRun,
             Elements, Undecided, Decided
    <3> QED
      BY <3>1, <3>2
  <2>10. CASE PrintOutput \/ OpenFile \/ WritePiece
    BY <2>0, <2>10, SameResult
       DEF PrintOutput, OpenFile, WritePiece, frame, command, report, history, Result,
           Undecided, Decided
  <2>11. CASE CloseFile
    BY <2>0, <2>11
       DEF CloseFile, Writing, File, ExitStatus, command, report, history, Result, AllPassed,
           NoneRun, Elements, Undecided, Decided
  <2> QED
    BY <1>2, <2>1, <2>2, <2>3, <2>4, <2>5, <2>6, <2>7, <2>8, <2>9, <2>10, <2>11
       DEF Next, Running
<1> QED
  BY <1>1, <1>2

LEMMA ResultInit == Init => Result
<1>1. Init => verdicts \in Seq(Elements(verdicts)) /\ AllPassed
  BY EmptySeq DEF Init, AllPassed
<1> QED
  BY <1>1 DEF Init, Result, Undecided, Decided, NoneRun

LEMMA ResultInvariant == Spec => []Result
BY ResultInit, ResultNext, PTL DEF Spec

LEMMA ResultGivesExitStatus == Result => ExitStatusHonest
BY DEF Result, ExitStatusHonest, RanTests, ExitStatus, Decided, AllPassed, NoneRun

(* The exit status of a process that ran tests and was not killed is 0 if  *)
(* and only if no script failed, a test was run and every test passed:     *)
(* whatever scripts and tests register while others run, whatever their    *)
(* names and whatever the filter lets through.                             *)
THEOREM ExitStatusCorrect == Spec => []ExitStatusHonest
BY ResultGivesExitStatus, ResultInvariant, PTL

-----------------------------------------------------------------------------
(* Files *)

Texts == {"none", "page", "report", "lines", "empty"}
FileRecords == [contents : Texts, written : Nat]
Opened(f) == files[f].contents # "none"
Complete(f) == files[f].written = Size(files[f].contents)
(* Only the file being written may be incomplete; what is written into it  *)
(* depends on whether there is XML by then.                                *)
Writes ==
    /\ files \in [Files -> FileRecords]
    /\ Undecided => \A f \in Files : ~Opened(f)
    /\ \A f \in Files : Complete(f) \/ (Writing /\ Wanted /\ f = File)
    /\ \A f \in Files : Opened(f) => f \in AskedFor /\ files[f].contents = Expected(f)
    /\ Undecided => ~xml.written
    /\ Decided /\ ~flags.html => (xml.written <=> ~broken /\ ~NoneRun)
    /\ xml.written => CanExtractCoverage
    /\ phase = "done" => \A f \in AskedFor : Opened(f)
    /\ phase = "write_coverage" /\ "xml" \in AskedFor => Opened("xml")

LEMMA WritesInit == Init => Writes
BY DEF Init, Writes, NoFile, Files, FileRecords, Texts, Opened, Complete, Size, Empty,
       Undecided, Decided, Writing

(* Steps that leave the files alone, and are not about to write. *)
LEMMA SameWrites ==
    ASSUME Writes, UNCHANGED << flags, files >>,
           phase \notin {"write_html", "write_xml", "write_coverage", "done"},
           phase' \notin {"write_coverage", "done"},
           Undecided' =>
               Undecided /\ xml'.written = xml.written,
           Decided' /\ ~flags.html => (xml'.written <=> ~broken' /\ ~NoneRun'),
           Undecided \/ UNCHANGED << broken, verdicts >>,
           xml'.written => CanExtractCoverage
    PROVE  Writes'
<1>1. \A f \in Files : (Opened(f)' <=> Opened(f)) /\ Complete(f)' /\ Complete(f)
  <2>1. \A f \in Files : Complete(f)
    BY DEF Writes, Writing
  <2> QED
    BY <2>1 DEF Opened, Complete
<1>2. UNCHANGED AskedFor /\ (CanExtractCoverage' <=> CanExtractCoverage)
  BY Zenon DEF AskedFor, CanExtractCoverage
<1>3. \A f \in Files : Opened(f)' => f \in AskedFor' /\ files'[f].contents = Expected(f)'
  <2>1. CASE Undecided
    BY <1>1, <2>1 DEF Writes
  <2>2. CASE UNCHANGED << broken, verdicts >>
    <3>1. \A f : Expected(f)' = Expected(f)
      BY <2>2, Zenon DEF Expected
    <3> QED
      BY <1>1, <1>2, <3>1 DEF Writes
  <2> QED
    BY <2>1, <2>2
<1>4. Undecided' => \A f \in Files : ~Opened(f)'
  BY <1>1 DEF Writes
<1> QED
  BY <1>1, <1>2, <1>3, <1>4 DEF Writes

(* All that Writes speaks of. *)
scope == << flags, files, phase, xml, broken, verdicts >>

LEMMA UnchangedWrites == Writes /\ UNCHANGED scope => Writes'
<1> SUFFICES ASSUME Writes, UNCHANGED scope PROVE Writes'
  OBVIOUS
<1>1. UNCHANGED << flags, files, phase, xml, broken, verdicts >>
  BY DEF scope
<1>2. /\ File' = File /\ (Writing' <=> Writing) /\ UNCHANGED AskedFor
      /\ \A f \in Files : Expected(f)' = Expected(f)
      /\ CanExtractCoverage' <=> CanExtractCoverage
  BY <1>1, Zenon DEF File, Writing, AskedFor, Expected, CanExtractCoverage
<1>3. Wanted' <=> Wanted
  BY <1>1, <1>2 DEF Wanted
<1>4. \A f \in Files : (Opened(f)' <=> Opened(f)) /\ (Complete(f)' <=> Complete(f))
  BY <1>1 DEF Opened, Complete
<1> QED
  BY <1>1, <1>2, <1>3, <1>4 DEF Writes, Undecided, Decided, NoneRun, Files, AskedFor

LEMMA DieKeepsWrites == Writes /\ Die => Writes'
BY UnchangedWrites DEF Die, scope, command, results, history

LEMMA OpenKeepsWrites ==
    ASSUME Result, Writes, OpenFile
    PROVE  Writes'
<1>1. /\ Writing /\ Wanted /\ File \in Files
      /\ Contents \in Texts \ {"none"}
  BY DEF OpenFile, Writing, File, Files, Contents, Texts
<1>2. File \in AskedFor /\ Contents = Expected(File)
  <2>1. CASE phase = "write_html"
    BY <2>1 DEF Result, File, AskedFor, Contents, Expected
  <2>2. CASE phase = "write_xml"
    <3>1. ~flags.html /\ flags.xmlFile /\ (xml.written <=> ~broken /\ ~NoneRun)
      BY <1>1, <2>2 DEF Result, Writes, Decided, Wanted, File
    <3> QED
      BY <2>2, <3>1 DEF File, AskedFor, Contents, Expected, NoneRun
  <2>3. CASE phase = "write_coverage"
    <3>1. ~flags.html /\ flags.coverageFile /\ (xml.written <=> ~broken /\ ~NoneRun)
      BY <1>1, <2>3 DEF Result, Writes, Decided, Wanted, File
    <3>2. xml.written => flags.instrumented
      BY <3>1 DEF Writes, CanExtractCoverage
    <3> QED
      BY <2>3, <3>1, <3>2 DEF File, AskedFor, Contents, Expected, NoneRun
  <2> QED
    BY <1>1, <2>1, <2>2, <2>3 DEF Writing
<1>3. PICK opened : opened = File
  OBVIOUS
<1>4. PICK d : d = [contents |-> Contents, written |-> 0]
  OBVIOUS
<1>5. files' = [files EXCEPT ![opened] = d] /\ d \in FileRecords
  BY <1>1, <1>3, <1>4 DEF OpenFile, FileRecords
<1>6. UNCHANGED << flags, phase, xml, broken, verdicts >>
  BY DEF OpenFile, command, results, history
<1>7. /\ Writing' /\ Wanted' /\ File' = opened
      /\ UNCHANGED AskedFor /\ \A f \in Files : Expected(f)' = Expected(f)
      /\ CanExtractCoverage' <=> CanExtractCoverage
  BY <1>1, <1>3, <1>6, Zenon DEF Writing, Wanted, File, AskedFor, Expected, CanExtractCoverage
<1>8. /\ files' \in [Files -> FileRecords]
      /\ files'[opened] = d
      /\ \A f \in Files : f # opened => files'[f] = files[f]
  BY <1>1, <1>3, <1>5 DEF Writes
<1>9. ~Undecided
  BY <1>1 DEF Writing, Undecided
<1>10. d.contents \in Texts \ {"none"} /\ d.contents = Contents
  BY <1>1, <1>4
<1>11. \A f \in Files : Opened(f)' <=> (Opened(f) \/ f = opened)
  BY <1>8, <1>10 DEF Opened
<1>12. \A f \in Files : Complete(f)' \/ (Writing' /\ Wanted' /\ f = File')
  <2>1. \A f \in Files : f # opened => Complete(f)
    BY <1>3 DEF Writes
  <2>2. \A f \in Files : f # opened => Complete(f)'
    BY <1>8, <2>1 DEF Complete
  <2> QED
    BY <1>7, <2>2
<1>13. \A f \in Files : Opened(f)' => f \in AskedFor' /\ files'[f].contents = Expected(f)'
  <2>1. opened \in AskedFor /\ files'[opened].contents = Expected(opened)
    BY <1>2, <1>3, <1>8, <1>10
  <2>2. \A f \in Files : f # opened /\ Opened(f)' => f \in AskedFor /\ files'[f].contents = Expected(f)
    BY <1>8, <1>11 DEF Writes
  <2> QED
    BY <1>7, <2>1, <2>2
<1>14. phase' \notin {"done"} /\ (phase' = "write_coverage" /\ "xml" \in AskedFor' => Opened("xml")')
  BY <1>1, <1>6, <1>7, <1>11 DEF Writes, Writing, Files
<1> QED
  BY <1>6, <1>7, <1>8, <1>9, <1>12, <1>13, <1>14 DEF Writes, Undecided, Decided, NoneRun

LEMMA PieceKeepsWrites ==
    ASSUME Result, Writes, WritePiece
    PROVE  Writes'
<1>0. Writing /\ File \in Files /\ files[File].written \in Nat /\ Size(files[File].contents) \in Nat
  <2>1. Writing /\ File \in Files
    BY DEF WritePiece, Writing, File, Files
  <2> QED
    BY <2>1 DEF Writes, FileRecords, Texts, Size
<1>1. PICK opened \in Files, n \in Nat :
          /\ opened = File
          /\ files' = [files EXCEPT ![opened].written = @ + n]
  <2>1. PICK n \in 1..Size(files[File].contents) - files[File].written :
            files' = [files EXCEPT ![File].written = @ + n]
    BY DEF WritePiece
  <2>2. n \in Nat
    BY <1>0, <2>1
  <2> HIDE DEF Size, File
  <2> QED
    BY <1>0, <2>1, <2>2
<1>2. Writing /\ ~Complete(opened)
  BY <1>0, <1>1 DEF WritePiece, Complete
<1>3. Wanted
  BY <1>1, <1>2 DEF Writes
<1>4. UNCHANGED << flags, phase, xml, broken, verdicts >>
  BY DEF WritePiece, command, results, history
<1>5. /\ Writing' /\ Wanted' /\ File' = opened
      /\ UNCHANGED AskedFor /\ \A f \in Files : Expected(f)' = Expected(f)
      /\ CanExtractCoverage' <=> CanExtractCoverage
  BY <1>1, <1>2, <1>3, <1>4, Zenon
     DEF Writing, Wanted, File, AskedFor, Expected, CanExtractCoverage
<1>6. /\ files' \in [Files -> FileRecords]
      /\ \A f \in Files : files'[f].contents = files[f].contents
      /\ \A f \in Files : f # opened => files'[f] = files[f]
  <2>1. PICK d : d = [files[opened] EXCEPT !.written = @ + n]
    OBVIOUS
  <2>2. files[opened] \in FileRecords
    BY <1>1 DEF Writes
  <2>3. d \in FileRecords /\ d.contents = files[opened].contents
    BY <1>1, <2>1, <2>2 DEF FileRecords
  <2>4. files' = [files EXCEPT ![opened] = d]
    BY <1>1, <2>1
  <2> QED
    BY <1>1, <2>3, <2>4 DEF Writes
<1>7. ~Undecided
  BY <1>2 DEF Writing, Undecided
<1>8. \A f \in Files : /\ Opened(f)' <=> Opened(f)
                       /\ Complete(f)' \/ (Writing' /\ Wanted' /\ f = File')
  BY <1>1, <1>5, <1>6 DEF Writes, Opened, Complete
<1>9. \A f \in Files : Opened(f)' => f \in AskedFor' /\ files'[f].contents = Expected(f)'
  BY <1>5, <1>6, <1>8 DEF Writes
<1>10. phase' # "done" /\ (phase' = "write_coverage" /\ "xml" \in AskedFor' => Opened("xml")')
  BY <1>2, <1>4, <1>5, <1>8 DEF Writes, Writing, Files
<1> QED
  BY <1>4, <1>5, <1>6, <1>7, <1>8, <1>9, <1>10 DEF Writes, Undecided, Decided, NoneRun

LEMMA CloseKeepsWrites ==
    ASSUME Result, Writes, CloseFile
    PROVE  Writes'
<1>1. UNCHANGED << flags, files, xml, broken, verdicts >>
  BY DEF CloseFile, command, results, history
<1>2. Writing /\ (Wanted => files[File] # NoFile /\ Complete(File)) /\ File \in Files
  BY DEF CloseFile, Written, Complete, Writing, File, Files
<1>3. Wanted => Opened(File)
  BY <1>2 DEF Writes, FileRecords, Opened, Complete, NoFile, Size
<1>4. \A f \in Files : Complete(f)
  BY <1>2 DEF Writes
<1>5. \A f \in Files : Complete(f)' /\ (Opened(f)' <=> Opened(f))
  BY <1>1, <1>4 DEF Complete, Opened
<1>6. /\ phase' = IF File = "xml" THEN "write_coverage" ELSE "done"
      /\ ~Undecided'
  BY DEF CloseFile, Undecided
<1>7. flags.html => File = "html"
  BY <1>2 DEF Result, Writing, File
<1>8. UNCHANGED AskedFor /\ (\A f \in Files : Expected(f)' = Expected(f))
      /\ (CanExtractCoverage' <=> CanExtractCoverage)
  BY <1>1, Zenon DEF AskedFor, Expected, CanExtractCoverage
<1>9. File \in AskedFor => Opened(File)
  BY <1>2, <1>3 DEF Wanted, AskedFor
<1>10. /\ phase' = "done" => \A f \in AskedFor' : Opened(f)'
       /\ phase' = "write_coverage" /\ "xml" \in AskedFor' => Opened("xml")'
  <2>1. CASE phase = "write_html"
    BY <1>1, <1>5, <1>6, <1>8, <1>9, <2>1 DEF Result, AskedFor, Files, File
  <2>2. CASE phase = "write_xml"
    BY <1>1, <1>5, <1>6, <1>8, <1>9, <2>2 DEF File, Files
  <2>3. CASE phase = "write_coverage"
    <3>1. ~flags.html /\ File = "coverage" /\ phase' = "done"
      BY <1>6, <2>3 DEF Result, File
    <3>2. \A f \in AskedFor : f = "xml" \/ f = File
      BY <3>1 DEF AskedFor
    <3>3. "xml" \in AskedFor => Opened("xml")
      BY <2>3 DEF Writes
    <3>4. AskedFor \subseteq Files
      BY DEF AskedFor, Files
    <3> QED
      BY <1>5, <1>8, <1>9, <3>1, <3>2, <3>3, <3>4
  <2> QED
    BY <1>2, <2>1, <2>2, <2>3 DEF Writing
<1>11. Decided' /\ ~flags'.html => (xml'.written <=> ~broken' /\ ~NoneRun')
  BY <1>1, <1>2 DEF Result, Writes, Writing, Decided, NoneRun
<1>12. \A f \in Files : Opened(f)' => f \in AskedFor' /\ files'[f].contents = Expected(f)'
  BY <1>1, <1>5, <1>8 DEF Writes
<1> QED
  BY <1>1, <1>5, <1>6, <1>8, <1>10, <1>11, <1>12 DEF Writes

LEMMA WritesNext == Result /\ Writes /\ [Next]_vars => Writes'
<1> SUFFICES ASSUME Result, Writes, [Next]_vars PROVE Writes'
  OBVIOUS
<1>1. CASE UNCHANGED vars
  BY <1>1, UnchangedWrites DEF vars, command, results, history, scope
<1>2. CASE Die
  BY <1>2, DieKeepsWrites
<1>3. CASE Next /\ ~Die
  <2>1. CASE GenerateHtml
    <3>1. ~xml.written
      BY <2>1 DEF Writes, GenerateHtml, Undecided
    <3> QED
      BY <2>1, <3>1, SameWrites
         DEF GenerateHtml, command, results, history, Undecided, Decided
  <2>2. CASE \/ LoadScripts \/ ExecuteScript \/ ScriptEnds \/ Registers \/ StartTests
             \/ NextSuite \/ SkipTest \/ StartTest \/ LogString \/ RecordFailure \/ SuiteEnds
    <3>1. UNCHANGED << flags, files, xml >> /\ Undecided /\ Undecided' /\ ~xml.written
      BY <1>3, <2>2
         DEF LoadScripts, ExecuteScript, ScriptEnds, Registers, StartTests, NextSuite, SkipTest,
             StartTest, LogString, RecordFailure, SuiteEnds, command, results, history, Undecided,
             Writes
    <3> QED
      BY <3>1, SameWrites DEF Undecided, Decided
  <2>3. CASE \E t : phase = "test" /\ ProcessTestCase(t)
    <3>1. /\ UNCHANGED << flags, files, xml >>
          /\ phase' = "suite" /\ phase = "test" /\ ~xml.written
      BY <1>3, <2>3 DEF ProcessTestCase, command, Writes, Undecided
    <3> QED
      BY <3>1, SameWrites DEF Undecided, Decided
  <2>4. CASE ScriptFails
    BY <2>4, SameWrites
       DEF ScriptFails, command, Writes, Undecided, Decided, NoneRun
  <2>5. CASE EndTests
    <3>1. /\ UNCHANGED << flags, files, broken, verdicts >>
          /\ Undecided /\ phase' = "print"
          /\ xml' = IF durations = {} THEN xml ELSE MakeXml
      BY <1>3, <2>5 DEF EndTests, NoTestsFound, command, report, history, Undecided
    <3>2. /\ xml'.written <=> ~NoneRun
          /\ xml'.written => CanExtractCoverage
      BY <1>3, <2>5, <3>1 DEF Result, Writes, MakeXml, EndTests, NoTestsFound
    <3> QED
      BY <3>1, <3>2, SameWrites DEF Result, Undecided, Decided, NoneRun
  <2>6. CASE PrintOutput
    BY <2>6, SameWrites
       DEF PrintOutput, command, history, Writes, Undecided, Decided, NoneRun
  <2>7. CASE OpenFile
    BY <2>7, OpenKeepsWrites
  <2>8. CASE WritePiece
    BY <2>8, PieceKeepsWrites
  <2>9. CASE CloseFile
    BY <2>9, CloseKeepsWrites
  <2> QED
    BY <1>3, <2>1, <2>2, <2>3, <2>4, <2>5, <2>6, <2>7, <2>8, <2>9
       DEF Next, Running, TestReturns, TestEscapes, ScriptUnreadable, WriteFails
<1> QED
  BY <1>1, <1>2, <1>3

LEMMA WritesInvariant == Spec => []Writes
BY WritesInit, WritesNext, ResultInvariant, PTL DEF Spec

LEMMA WritesGiveFiles == Result /\ Writes => FilesComplete
<1> SUFFICES ASSUME Result, Writes, exit \in {"0", "1"} PROVE FilesComplete
  BY DEF FilesComplete
<1>1. phase = "done"
  BY DEF Result
<1>2. \A f \in Files : Complete(f)
  BY <1>1 DEF Writes, Writing
<1>3. ASSUME NEW f \in AskedFor
      PROVE  f \in Files /\ files[f] = [contents |-> Expected(f), written |-> Size(Expected(f))]
  <2>1. f \in Files
    BY DEF AskedFor, Files
  <2>2. files[f] \in FileRecords /\ files[f].contents = Expected(f) /\ Complete(f)
    BY <1>1, <1>2, <2>1 DEF Writes
  <2>3. files[f] = [contents |-> files[f].contents, written |-> files[f].written]
    BY <2>2 DEF FileRecords
  <2> QED
    BY <2>1, <2>2, <2>3 DEF Complete
<1>4. ASSUME NEW f \in Files, f \notin AskedFor
      PROVE  files[f] = NoFile
  <2>1. files[f] \in FileRecords /\ files[f].contents = "none" /\ Complete(f)
    BY <1>2, <1>4 DEF Writes, Opened
  <2>2. files[f] = [contents |-> files[f].contents, written |-> files[f].written]
    BY <2>1 DEF FileRecords
  <2>3. files[f].written = 0
    BY <2>1 DEF Complete, Size
  <2> QED
    BY <2>1, <2>2, <2>3 DEF NoFile
<1> QED
  BY <1>3, <1>4 DEF FilesComplete

(* When the process exits by itself, exactly the files that were asked for *)
(* are there, that with the coverage included, each complete and with what *)
(* belongs in it, however the operating system cut the writes into pieces: *)
(* empty if no test was run or a script failed, and otherwise the report   *)
(* and the lines covered.                                                  *)
THEOREM FilesCompleteCorrect == Spec => []FilesComplete
BY WritesGiveFiles, ResultInvariant, WritesInvariant, PTL

-----------------------------------------------------------------------------
(* Types                                                                   *)

Properties == [key : Keys, isFunction : BOOLEAN]
Verdicts == [suite : Suites, key : Keys, passed : BOOLEAN]
Kinds == {"error", "RUN", "log", "message", "OK", "FAILED",
          "none_found", "all_passed", "some_failed"}
Lines == [kind : Kinds, name : FullNames \cup {<< >>}]
TestLines == {l \in Lines : l.kind \in {"log", "message"}}
TestCases ==
    [suite : Suites, key : Keys, succeeded : BOOLEAN, output : Seq(TestLines),
     failureOutput : Nat]
Phases == {"start", "scripts", "script", "suites", "suite", "test", "print",
           "write_html", "write_xml", "write_coverage", "done"}

(* What was registered; a page may register more when the process is done. *)
RegistrationTypes ==
    /\ testSuites \in Seq(Suites)
    /\ phase # "done" => prototypes \in [Suites -> Seq(Properties)]

PositionTypes ==
    /\ phase \in Phases
    /\ script \in 0..NumScripts
    /\ suite \in 0..Len(testSuites)
    /\ tests \in Seq(Properties)
    /\ index \in 0..Len(tests)
    /\ phase \in {"suite", "test"} => suite > 0

(* A test that failed has said so. *)
TestTypes ==
    phase = "test" => /\ test \in TestCases
                      /\ ~test.succeeded => test.failureOutput > 0

ReportTypes ==
    /\ durations \subseteq FullNames
    /\ failures \in [DOMAIN failures -> Nat \ {0}]
    /\ DOMAIN failures \subseteq durations
    /\ testsRun \in Seq(FullNames)
    /\ verdicts \in Seq(Verdicts)
    /\ output \in Seq(Lines)
    /\ printed \in Seq(Lines)
    /\ exit \in {"no", "0", "1", "died"}

Types == RegistrationTypes /\ PositionTypes /\ TestTypes /\ ReportTypes

LEMMA TypesGiveTypeOK == Types => TypeOK
<1> SUFFICES ASSUME Types PROVE TypeOK
  OBVIOUS
<1>1. Elements(testSuites) \subseteq Suites /\ Elements(testsRun) \subseteq FullNames
  BY ElementsIn DEF Types, RegistrationTypes, ReportTypes
<1>2. \A n \in DOMAIN failures : failures[n] \in Nat \ {0}
  BY DEF Types, ReportTypes
<1> QED
  BY <1>1, <1>2 DEF TypeOK, Types, RegistrationTypes, PositionTypes, ReportTypes, Phases

LEMMA TypesInit == Init => Types
<1> SUFFICES ASSUME Init PROVE Types
  OBVIOUS
<1>1. RegistrationTypes
  BY DEF Init, RegistrationInit, RegistrationTypes
<1>2. PositionTypes
  <2>1. NumScripts \in Nat
    BY BoundsAssumption
  <2>2. << >> \in Seq(Properties) /\ Len(<< >>) = 0
    OBVIOUS
  <2> QED
    BY <2>1, <2>2 DEF Init, RegistrationInit, PositionTypes, Phases
<1>3. TestTypes
  BY DEF Init, TestTypes
<1>4. ReportTypes
  BY DEF Init, ReportTypes
<1> QED
  BY <1>1, <1>2, <1>3, <1>4 DEF Types

(* The tests of a suite. *)
LEMMA TestFunctions ==
    ASSUME NEW s \in Suites, NEW K,
           prototypes \in [Suites -> Seq([key : K, isFunction : BOOLEAN])]
    PROVE  /\ GetTestFunctions(s) \in Seq([key : K, isFunction : BOOLEAN])
           /\ Elements(GetTestFunctions(s)) = {p \in Elements(prototypes[s]) : IsTest(p)}
<1> DEFINE P == [key : K, isFunction : BOOLEAN]
           T == {p \in Elements(prototypes[s]) : IsTest(p)}
<1>1. prototypes[s] \in Seq(P)
  OBVIOUS
<1> HIDE DEF P
<1>2. Elements(prototypes[s]) \subseteq P
  BY <1>1, ElementsIn
<1>3. /\ Only(prototypes[s], T) \in Seq({e \in Elements(prototypes[s]) : e \in T})
      /\ Elements(Only(prototypes[s], T)) = {e \in Elements(prototypes[s]) : e \in T}
  <2> HIDE DEF T
  <2> QED BY <1>1, OnlyElements
<1>4. {e \in Elements(prototypes[s]) : e \in T} = T /\ T \subseteq P
  BY <1>2
<1>5. Only(prototypes[s], T) \in Seq(P)
  <2> HIDE DEF T
  <2> QED BY <1>3, <1>4, SeqMonotonic
<1> QED
  BY <1>3, <1>4, <1>5 DEF GetTestFunctions, P

(* Registering appends, and an assignment keeps the length. *)
LEMMA RegisterTypes ==
    ASSUME RegistrationTypes, phase # "done", Registers
    PROVE  /\ RegistrationTypes'
           /\ Len(testSuites) <= Len(testSuites')
           /\ \A i \in 1..Len(testSuites) : testSuites'[i] = testSuites[i]
<1> DEFINE n == Len(testSuites)
<1>0. n \in Nat /\ phase' = phase /\ testSuites \in Seq(Suites) /\ prototypes \in [Suites -> Seq(Properties)]
  BY LenProperties DEF Registers, RegistrationTypes
<1>1. ASSUME NEW s \in Suites, RegisterTestSuite(s)
      PROVE  /\ testSuites' \in Seq(Suites) /\ Len(testSuites') = n + 1
             /\ \A i \in 1..n : testSuites'[i] = testSuites[i]
             /\ UNCHANGED prototypes
  BY <1>0, <1>1, AppendProperties DEF RegisterTestSuite
<1>2. ASSUME NEW s \in Suites, NEW k \in Keys, AddTest(s, k)
      PROVE  UNCHANGED testSuites /\ prototypes' \in [Suites -> Seq(Properties)]
  <2>1. PICK q : q = Append(prototypes[s], Property(k, TRUE))
    OBVIOUS
  <2>2. q \in Seq(Properties)
    BY <1>0, <2>1, AppendProperties DEF Properties, Property
  <2>3. prototypes' = [prototypes EXCEPT ![s] = q] /\ UNCHANGED testSuites
    BY <1>2, <2>1 DEF AddTest
  <2> QED
    BY <1>0, <2>2, <2>3
<1>3. ASSUME NEW s \in Suites, NEW k \in Keys, NEW b \in BOOLEAN, Assign(s, k, b)
      PROVE  UNCHANGED testSuites /\ prototypes' \in [Suites -> Seq(Properties)]
  <2> DEFINE p == prototypes[s]
             changed == [i \in DOMAIN p |-> IF p[i].key = k THEN Property(k, b) ELSE p[i]]
  <2>1. PICK q : q = IF Has(s, k) THEN changed ELSE Append(p, Property(k, b))
    OBVIOUS
  <2>2. Property(k, b) \in Properties /\ p \in Seq(Properties)
    BY <1>0 DEF Properties, Property
  <2>3. changed \in Seq(Properties)
    <3>1. DOMAIN p = 1..Len(p) /\ Len(p) \in Nat /\ \A i \in 1..Len(p) : p[i] \in Properties
      <4> HIDE DEF p
      <4> QED BY <2>2, LenProperties, ElementOfSeq
    <3> HIDE DEF p
    <3> QED BY <2>2, <3>1
  <2>4. q \in Seq(Properties)
    <3> HIDE DEF p, changed
    <3> QED BY <2>1, <2>2, <2>3, AppendProperties
  <2>5. prototypes' = [prototypes EXCEPT ![s] = q] /\ UNCHANGED testSuites
    BY <1>3, <2>1 DEF Assign
  <2> HIDE DEF p, changed
  <2> QED
    BY <1>0, <2>4, <2>5
<1> HIDE DEF n
<1>4. CASE \E s \in Suites : RegisterTestSuite(s)
  BY <1>0, <1>1, <1>4 DEF RegistrationTypes, n
<1>5. CASE ~\E s \in Suites : RegisterTestSuite(s)
  <2>1. UNCHANGED testSuites /\ prototypes' \in [Suites -> Seq(Properties)]
    BY <1>2, <1>3, <1>5 DEF Registers
  <2> QED
    BY <1>0, <2>1 DEF RegistrationTypes, n
<1> QED
  BY <1>4, <1>5

(* What each step leaves alone. *)
LEMMA OnlyRegistersRegisters == Next => Registers \/ UNCHANGED registration
BY DEF Next, Running, GenerateHtml, LoadScripts, ScriptUnreadable, ExecuteScript, ScriptEnds,
       ScriptFails, StartTests, NextSuite, SkipTest, StartTest, LogString, RecordFailure,
       TestReturns, TestEscapes, ProcessTestCase, SuiteEnds, EndTests, PrintOutput, OpenFile,
       WritePiece, WriteFails, CloseFile, Die

LEMMA NothingAfterDone == Next => phase # "done"
BY DEF Next, Running, GenerateHtml, LoadScripts, ScriptUnreadable, ExecuteScript, ScriptEnds,
       ScriptFails, Registers, StartTests, NextSuite, SkipTest, StartTest, LogString,
       RecordFailure, TestReturns, TestEscapes, SuiteEnds, EndTests, PrintOutput, OpenFile,
       WritePiece, WriteFails, CloseFile, Writing

LEMMA DieSame ==
    Die => UNCHANGED << command, registration, phase, position, test, report, results, files,
                        history >>
BY DEF Die

LEMMA RegistrationNext == RegistrationTypes /\ Next => RegistrationTypes'
BY OnlyRegistersRegisters, NothingAfterDone, RegisterTypes DEF RegistrationTypes, registration

LEMMA PositionNext == Types /\ Next => PositionTypes'
<1> SUFFICES ASSUME Types, Next PROVE PositionTypes'
  OBVIOUS
<1> USE DEF Phases
<1>0. PositionTypes /\ RegistrationTypes /\ Len(testSuites) \in Nat /\ Len(tests) \in Nat
  <2>1. PositionTypes /\ RegistrationTypes
    BY DEF Types
  <2> QED
    BY <2>1, LenProperties DEF PositionTypes, RegistrationTypes
<1>1. CASE Die
  BY <1>0, <1>1 DEF Die, PositionTypes, position, registration
<1>2. CASE Registers
  <2>1. RegistrationTypes' /\ Len(testSuites) <= Len(testSuites')
    BY <1>0, <1>2, NothingAfterDone, RegisterTypes
  <2>2. Len(testSuites') \in Nat
    BY <2>1, LenProperties DEF RegistrationTypes
  <2>3. UNCHANGED << phase, script, suite, tests, index >>
    BY <1>2 DEF Registers, position
  <2>4. suite' \in 0..Len(testSuites')
    <3>1. PICK n \in Nat, m \in Nat : n = Len(testSuites) /\ m = Len(testSuites')
      BY <1>0, <2>2
    <3>2. suite \in 0..n /\ n <= m
      BY <1>0, <2>1, <3>1 DEF PositionTypes
    <3> QED
      BY <2>3, <3>1, <3>2
  <2> QED
    BY <1>0, <2>3, <2>4 DEF PositionTypes
<1>3. CASE GenerateHtml \/ LoadScripts \/ ScriptEnds \/ ScriptFails \/ StartTests \/ SuiteEnds
           \/ LogString \/ RecordFailure \/ EndTests \/ PrintOutput \/ OpenFile \/ WritePiece
           \/ CloseFile
  <2>1. CASE Die
    BY <1>1, <2>1
  <2>2. CASE ~Die
    <3>1. UNCHANGED << position, registration >>
      BY <1>3, <2>2
         DEF GenerateHtml, LoadScripts, ScriptEnds, ScriptFails, StartTests, SuiteEnds, LogString,
             RecordFailure, EndTests, PrintOutput, OpenFile, WritePiece, CloseFile
    <3>2. /\ phase' \in Phases
          /\ phase' \in {"suite", "test"} => phase \in {"suite", "test"}
      BY <1>0, <1>3, <2>2
         DEF GenerateHtml, LoadScripts, ScriptEnds, ScriptFails, StartTests, SuiteEnds, LogString,
             RecordFailure, EndTests, PrintOutput, OpenFile, WritePiece, CloseFile, PositionTypes
    <3> QED
      BY <1>0, <3>1, <3>2 DEF PositionTypes, position, registration
  <2> QED
    BY <2>1, <2>2
<1>4. CASE ExecuteScript
  <2>1. NumScripts \in Nat
    BY BoundsAssumption
  <2> QED
    BY <1>0, <1>4, <2>1 DEF ExecuteScript, PositionTypes, registration
<1>5. CASE NextSuite /\ ~Die
  <2> DEFINE s == testSuites[suite + 1]
  <2>1. /\ suite < Len(testSuites) /\ suite' = suite + 1 /\ phase' = "suite" /\ index' = 0
        /\ tests' = GetTestFunctions(s) /\ phase = "suites"
        /\ UNCHANGED << registration, script >>
    BY <1>5 DEF NextSuite, MoreSuites
  <2>2. s \in Suites
    BY <1>0, <2>1, ElementOfSeq DEF PositionTypes, RegistrationTypes
  <2>3. tests' \in Seq(Properties)
    BY <1>0, <2>1, <2>2, TestFunctions DEF RegistrationTypes, Properties
  <2>4. Len(tests') \in Nat
    BY <2>3, LenProperties
  <2> HIDE DEF s
  <2> QED
    BY <1>0, <2>1, <2>3, <2>4 DEF PositionTypes, registration
<1>6. CASE SkipTest \/ StartTest
  <2>1. /\ UNCHANGED << script, suite, tests, testSuites >> /\ phase = "suite"
        /\ phase' \in {"suite", "test"} /\ index < Len(tests) /\ index' = index + 1
    BY <1>6 DEF SkipTest, StartTest, registration
  <2>2. index' \in 0..Len(tests)
    BY <1>0, <2>1 DEF PositionTypes
  <2> QED
    BY <1>0, <2>1, <2>2 DEF PositionTypes
<1>7. ASSUME NEW t, phase = "test", ProcessTestCase(t), ~Die PROVE PositionTypes'
  BY <1>0, <1>7 DEF ProcessTestCase, PositionTypes, position, registration
<1> QED
  BY <1>1, <1>2, <1>3, <1>4, <1>5, <1>6, <1>7
     DEF Next, Running, ScriptUnreadable, TestReturns, TestEscapes, WriteFails

LEMMA FailedByTypes ==
    ASSUME Types, phase = "test"
    PROVE  /\ FailedBy(test) \in TestCases /\ ~FailedBy(test).succeeded
           /\ FailedBy(test).failureOutput > 0
           /\ FailedBy(test).suite = test.suite /\ FailedBy(test).key = test.key
           /\ Name \in FullNames
<1>1. test \in TestCases
  BY DEF Types, TestTypes
<1>2. Name \in FullNames
  BY <1>1 DEF TestCases, Name, FullNames
<1>3. PICK o : o = Append(test.output, Line("message", Name))
  OBVIOUS
<1>4. Line("message", Name) \in TestLines
  BY <1>2 DEF Line, TestLines, Lines, Kinds
<1>5. o \in Seq(TestLines)
  BY <1>1, <1>3, <1>4, AppendProperties DEF TestCases
<1>6. FailedBy(test) = [test EXCEPT !.succeeded = FALSE, !.output = o,
                                    !.failureOutput = test.failureOutput + 1]
  BY <1>3 DEF FailedBy
<1>7. PICK n \in Nat : n = test.failureOutput + 1 /\ n > 0
  BY <1>1 DEF TestCases
<1>8. FailedBy(test) = [suite |-> test.suite, key |-> test.key, succeeded |-> FALSE,
                        output |-> o, failureOutput |-> n]
  BY <1>1, <1>6, <1>7 DEF TestCases
<1> QED
  BY <1>1, <1>2, <1>5, <1>7, <1>8 DEF TestCases

LEMMA TestNext == Types /\ Next => TestTypes'
<1> SUFFICES ASSUME Types, Next, phase' = "test" PROVE TestTypes'
  BY DEF TestTypes
<1>0. PositionTypes /\ RegistrationTypes /\ TestTypes
  BY DEF Types
<1>1. CASE StartTest
  <2>1. tests[index + 1] \in Properties
    BY <1>0, <1>1, LenProperties, ElementOfSeq DEF StartTest, PositionTypes
  <2>2. Current \in Suites
    BY <1>0, <1>1, LenProperties, ElementOfSeq DEF StartTest, PositionTypes, RegistrationTypes, Current
  <2>3. test' = [suite |-> Current, key |-> tests[index + 1].key, succeeded |-> TRUE,
                 output |-> << >>, failureOutput |-> 0]
    BY <1>1 DEF StartTest, NoTest
  <2>4. << >> \in Seq(TestLines)
    OBVIOUS
  <2> QED
    BY <2>1, <2>2, <2>3, <2>4 DEF TestTypes, TestCases, Properties
<1>2. CASE LogString
  <2>1. phase = "test" /\ test \in TestCases /\ Name \in FullNames
    BY <1>0, <1>2, FailedByTypes DEF LogString, TestTypes
  <2>2. PICK o : o = Append(test.output, Line("log", Name))
    OBVIOUS
  <2>3. Line("log", Name) \in TestLines
    BY <2>1 DEF Line, TestLines, Lines, Kinds
  <2>4. o \in Seq(TestLines)
    BY <2>1, <2>2, <2>3, AppendProperties DEF TestCases
  <2>5. test' = [test EXCEPT !.output = o]
    BY <1>2, <2>2 DEF LogString
  <2>6. test' \in TestCases /\ test'.succeeded = test.succeeded
        /\ test'.failureOutput = test.failureOutput
    BY <2>1, <2>4, <2>5 DEF TestCases
  <2> QED
    BY <1>0, <2>1, <2>6 DEF TestTypes
<1>3. CASE RecordFailure
  <2>1. phase = "test" /\ test' = FailedBy(test)
    BY <1>3 DEF RecordFailure
  <2> QED
    BY <2>1, FailedByTypes DEF TestTypes
<1>4. CASE UNCHANGED << phase, test >>
  BY <1>0, <1>4 DEF TestTypes
<1>5. CASE Registers \/ Die \/ OpenFile \/ WritePiece \/ SkipTest
  BY <1>4, <1>5 DEF Registers, Die, OpenFile, WritePiece, SkipTest
<1>6. CASE ~Registers /\ ~Die /\ ~OpenFile /\ ~WritePiece /\ ~SkipTest
  BY <1>1, <1>2, <1>3, <1>6
     DEF Next, Running, GenerateHtml, LoadScripts, ScriptUnreadable, ExecuteScript, ScriptEnds,
         ScriptFails, StartTests, NextSuite, TestReturns, TestEscapes, ProcessTestCase, SuiteEnds,
         EndTests, PrintOutput, WriteFails, CloseFile
<1> QED
  BY <1>5, <1>6

(* What ProcessTestCase makes of a test. *)
LEMMA ProcessTypes ==
    ASSUME Types, phase = "test", NEW t \in TestCases, t.suite = test.suite, t.key = test.key,
           ~t.succeeded => t.failureOutput > 0,
           ProcessTestCase(t), ~Die
    PROVE  ReportTypes'
<1>0. ReportTypes /\ test \in TestCases
  BY DEF Types, TestTypes
<1>1. Name \in FullNames /\ Name \in FullNames \cup {<< >>}
  BY <1>0 DEF TestCases, Name, FullNames
<1>2. PICK v : v = [suite |-> t.suite, key |-> t.key, passed |-> ~~t.succeeded]
  OBVIOUS
<1>3. v \in Verdicts
  BY <1>2 DEF Verdicts, TestCases
<1>4. PICK run, ended :
          run = Line("RUN", Name) /\ ended = Line(IF ~t.succeeded THEN "FAILED" ELSE "OK", Name)
  OBVIOUS
<1>5. run \in Lines /\ ended \in Lines
  BY <1>1, <1>4 DEF Line, Lines, Kinds
<1>6. /\ verdicts' = Append(verdicts, v)
      /\ output' = (output \o << run >> \o t.output) \o << ended >>
      /\ durations' = durations \cup {Name}
      /\ failures' = IF ~t.succeeded
             THEN [n \in DOMAIN failures \cup {Name} |->
                      IF n = Name THEN t.failureOutput ELSE failures[n]]
             ELSE failures
      /\ UNCHANGED << testsRun, printed, exit >>
  BY <1>2, <1>4 DEF ProcessTestCase
<1>7. verdicts' \in Seq(Verdicts)
  BY <1>0, <1>3, <1>6, AppendProperties DEF ReportTypes
<1>8. output' \in Seq(Lines)
  <2>1. << run >> \in Seq(Lines) /\ << ended >> \in Seq(Lines) /\ output \in Seq(Lines)
    BY <1>0, <1>5 DEF ReportTypes
  <2>2. t.output \in Seq(Lines)
    <3>1. t.output \in Seq(TestLines) /\ TestLines \subseteq Lines
      BY DEF TestCases, TestLines
    <3> QED
      BY <3>1, SeqMonotonic
  <2> QED
    BY <1>6, <2>1, <2>2, ConcatProperties
<1>9. durations' \subseteq FullNames
  BY <1>0, <1>1, <1>6 DEF ReportTypes
<1>10. failures' \in [DOMAIN failures' -> Nat \ {0}] /\ DOMAIN failures' \subseteq durations'
  <2>1. t.failureOutput \in Nat /\ (~t.succeeded => t.failureOutput \in Nat \ {0})
    BY DEF TestCases
  <2> QED
    BY <1>0, <1>6, <2>1 DEF ReportTypes
<1> QED
  BY <1>0, <1>6, <1>7, <1>8, <1>9, <1>10 DEF ReportTypes

(* Lines that are not about a test. *)
LEMMA OtherLines ==
    \A kind \in {"error", "none_found", "all_passed", "some_failed"} :
        Line(kind, << >>) \in Lines
BY DEF Line, Lines, Kinds

LEMMA ReportNext == Types /\ Next => ReportTypes'
<1> SUFFICES ASSUME Types, Next PROVE ReportTypes'
  OBVIOUS
<1>0. ReportTypes /\ PositionTypes /\ RegistrationTypes /\ TestTypes
  BY DEF Types
<1>1. CASE UNCHANGED << testsRun, failures, durations, verdicts, output, printed, exit >>
  BY <1>0, <1>1 DEF ReportTypes
<1>2. CASE Die
  BY <1>0, <1>2 DEF Die, report, results, history, ReportTypes
<1>3. CASE GenerateHtml \/ LoadScripts \/ ExecuteScript \/ ScriptEnds \/ Registers \/ StartTests
           \/ (NextSuite /\ ~Die) \/ SkipTest \/ LogString \/ RecordFailure \/ SuiteEnds
           \/ OpenFile \/ WritePiece
  BY <1>1, <1>3
     DEF GenerateHtml, LoadScripts, ExecuteScript, ScriptEnds, Registers, StartTests, NextSuite,
         SkipTest, LogString, RecordFailure, SuiteEnds, OpenFile, WritePiece, report, results,
         history
<1>4. CASE ScriptFails
  <2>1. output' = Append(output, Line("error", << >>))
        /\ UNCHANGED << testsRun, failures, durations, verdicts, printed, exit >>
    BY <1>4 DEF ScriptFails
  <2>2. output' \in Seq(Lines)
    BY <1>0, <2>1, OtherLines, AppendProperties DEF ReportTypes
  <2> QED
    BY <1>0, <2>1, <2>2 DEF ReportTypes
<1>5. CASE StartTest
  <2>1. testsRun' = Append(testsRun, NextName)
        /\ UNCHANGED << failures, durations, verdicts, output, printed, exit >>
    BY <1>5 DEF StartTest, results, history
  <2>2. tests[index + 1] \in Properties /\ Current \in Suites
    BY <1>0, <1>5, LenProperties, ElementOfSeq
       DEF StartTest, PositionTypes, RegistrationTypes, Current
  <2>3. NextName \in FullNames
    BY <2>2 DEF NextName, FullNames, Properties
  <2>4. testsRun' \in Seq(FullNames)
    BY <1>0, <2>1, <2>3, AppendProperties DEF ReportTypes
  <2> QED
    BY <1>0, <2>1, <2>4 DEF ReportTypes
<1>6. CASE TestReturns /\ ~Die
  BY <1>0, <1>6, ProcessTypes DEF TestReturns, TestTypes
<1>7. CASE TestEscapes /\ ~Die
  BY <1>0, <1>7, ProcessTypes, FailedByTypes DEF TestEscapes, TestTypes
<1>8. CASE EndTests /\ ~Die
  <2>1. UNCHANGED << testsRun, failures, durations, verdicts, printed, exit >>
    BY <1>8 DEF EndTests, report, history
  <2>2. output' \in Seq(Lines)
    <3>1. CASE NoTestsFound
      <4>1. output' = << Line("none_found", << >>) >>
        BY <1>8, <3>1 DEF EndTests
      <4>2. PICK l \in Lines : l = Line("none_found", << >>)
        BY OtherLines
      <4>3. << l >> \in Seq(Lines)
        OBVIOUS
      <4> QED
        BY <4>1, <4>2, <4>3
    <3>2. CASE ~NoTestsFound
      <4>1. output' = Append(output, Line(IF success THEN "all_passed" ELSE "some_failed", << >>))
        BY <1>8, <3>2 DEF EndTests
      <4>2. Line(IF success THEN "all_passed" ELSE "some_failed", << >>) \in Lines
        BY OtherLines
      <4> QED
        BY <1>0, <4>1, <4>2, AppendProperties DEF ReportTypes
    <3> QED
      BY <3>1, <3>2
  <2> QED
    BY <1>0, <2>1, <2>2 DEF ReportTypes
<1>9. CASE PrintOutput
  BY <1>0, <1>9 DEF PrintOutput, report, history, ReportTypes
<1>10. CASE CloseFile
  <2>1. UNCHANGED << testsRun, failures, durations, verdicts, output, printed >>
    BY <1>10 DEF CloseFile, report, results, history
  <2>2. exit' \in {"no", "0", "1", "died"}
    BY <1>0, <1>10 DEF CloseFile, ExitStatus, ReportTypes
  <2> QED
    BY <1>0, <2>1, <2>2 DEF ReportTypes
<1> QED
  BY <1>2, <1>3, <1>4, <1>5, <1>6, <1>7, <1>8, <1>9, <1>10
     DEF Next, Running, ScriptUnreadable, WriteFails

LEMMA TypesUnchanged == Types /\ UNCHANGED vars => Types'
BY DEF Types, RegistrationTypes, PositionTypes, TestTypes, ReportTypes, vars, registration, position,
       report, results, history

LEMMA TypesNext == Types /\ [Next]_vars => Types'
<1> SUFFICES ASSUME Types, [Next]_vars PROVE Types'
  OBVIOUS
<1>1. CASE UNCHANGED vars
  BY <1>1, TypesUnchanged
<1>2. CASE Next
  BY <1>2, RegistrationNext, PositionNext, TestNext, ReportNext DEF Types
<1> QED
  BY <1>1, <1>2

LEMMA TypesInvariant == Spec => []Types
BY TypesInit, TypesNext, PTL DEF Spec

-----------------------------------------------------------------------------
(* Reports                                                                 *)

VName(i) == FullName(verdicts[i].suite, verdicts[i].key)
Ran == 1..Len(verdicts)
Fails == {i \in Ran : ~verdicts[i].passed}
Marks == {l \in Lines : l.kind \in {"OK", "FAILED"}}
Happened == [i \in DOMAIN verdicts |-> VerdictOf(verdicts[i])]

(* Among the lines o those that tell a result are those of the verdicts. *)
Agrees(o) ==
    /\ Len(Only(o, Marks)) = Len(verdicts)
    /\ \A i \in Ran : /\ Only(o, Marks)[i].name = VName(i)
                      /\ Only(o, Marks)[i].kind = "FAILED" <=> i \in Fails

(* The maps, keyed by full names, know every verdict, as no two tests that *)
(* were run have the same name.                                            *)
Maps ==
    /\ \A i, j \in Ran : i # j => VName(i) # VName(j)
    /\ durations = {VName(i) : i \in Ran}
    /\ DOMAIN failures = {VName(i) : i \in Fails}

TestsRun ==
    /\ Len(testsRun) = Len(verdicts) + IF phase = "test" THEN 1 ELSE 0
    /\ \A i \in Ran : testsRun[i] = VName(i)
    /\ phase = "test" => testsRun[Len(verdicts) + 1] = Name

Outputs ==
    /\ Agrees(output)
    /\ phase \in {"write_xml", "write_coverage", "done"} /\ ~flags.html => printed = output
    /\ xml.written => xml.cases = Happened /\ xml.failures = Cardinality(Fails)

Reports == Maps /\ TestsRun /\ Outputs

LEMMA ReportsInit == Init => Reports
<1> SUFFICES ASSUME Init PROVE Reports
  OBVIOUS
<1>1. verdicts = << >> /\ output = << >> /\ testsRun = << >> /\ failures = << >> /\ durations = {}
      /\ phase = "start" /\ ~xml.written
  BY DEF Init, Empty
<1>2. Len(verdicts) = 0 /\ Len(testsRun) = 0 /\ Ran = {} /\ Fails = {} /\ DOMAIN failures = {}
  BY <1>1 DEF Ran, Fails
<1>3. Only(output, Marks) = << >>
  BY <1>1, OnlyEmpty
<1>4. Maps
  BY <1>1, <1>2 DEF Maps
<1>5. TestsRun
  BY <1>1, <1>2 DEF TestsRun
<1>6. Agrees(output)
  BY <1>2, <1>3 DEF Agrees
<1> QED
  BY <1>1, <1>4, <1>5, <1>6 DEF Reports, Outputs

(* One more verdict. *)
LEMMA VerdictsExtended ==
    ASSUME Types, NEW v \in Verdicts, verdicts' = Append(verdicts, v)
    PROVE  \E n \in Nat :
               /\ Len(verdicts) = n /\ Ran = 1..n
               /\ Len(verdicts') = n + 1 /\ Ran' = Ran \cup {n + 1} /\ n + 1 \notin Ran
               /\ \A i \in Ran : VName(i)' = VName(i)
               /\ VName(n + 1)' = FullName(v.suite, v.key)
               /\ Fails' = Fails \cup IF v.passed THEN {} ELSE {n + 1}
               /\ Fails \subseteq Ran
<1>1. verdicts \in Seq(Verdicts)
  BY DEF Types, ReportTypes
<1>2. PICK n \in Nat : n = Len(verdicts)
  BY <1>1, LenProperties
<1>3. /\ Len(verdicts') = n + 1
      /\ \A i \in 1..n : verdicts'[i] = verdicts[i]
      /\ verdicts'[n + 1] = v
  BY <1>1, <1>2, AppendProperties
<1>4. 1..n + 1 = 1..n \cup {n + 1} /\ n + 1 \notin 1..n
  OBVIOUS
<1>5. Ran = 1..n /\ Ran' = 1..n + 1
  BY <1>2, <1>3 DEF Ran
<1>6. Fails' = Fails \cup IF v.passed THEN {} ELSE {n + 1}
  BY <1>3, <1>4, <1>5 DEF Fails
<1>7. (\A i \in Ran : VName(i)' = VName(i)) /\ VName(n + 1)' = FullName(v.suite, v.key)
  BY <1>3, <1>5 DEF VName
<1>8. Fails \subseteq Ran
  BY DEF Fails
<1> QED
  BY <1>2, <1>3, <1>4, <1>5, <1>6, <1>7, <1>8

LEMMA MapsExtended ==
    ASSUME Types, Maps, NEW v \in Verdicts, verdicts' = Append(verdicts, v),
           NEW name, name = FullName(v.suite, v.key), name \notin durations,
           durations' = durations \cup {name},
           DOMAIN failures' = DOMAIN failures \cup IF v.passed THEN {} ELSE {name}
    PROVE  Maps'
<1>1. PICK n \in Nat :
          /\ Ran' = Ran \cup {n + 1} /\ n + 1 \notin Ran
          /\ \A i \in Ran : VName(i)' = VName(i)
          /\ VName(n + 1)' = name
          /\ Fails' = Fails \cup IF v.passed THEN {} ELSE {n + 1}
          /\ Fails \subseteq Ran
  BY VerdictsExtended
<1>2. \A i \in Ran : VName(i) # name
  BY DEF Maps
<1>3. ASSUME NEW i \in Ran', NEW j \in Ran', i # j PROVE VName(i)' # VName(j)'
  BY <1>1, <1>2, <1>3 DEF Maps
<1>4. durations' = {VName(i)' : i \in Ran'}
  BY <1>1 DEF Maps
<1>5. DOMAIN failures' = {VName(i)' : i \in Fails'}
  BY <1>1 DEF Maps
<1> QED
  BY <1>3, <1>4, <1>5 DEF Maps

(* What a test prints tells one result, its own. *)
LEMMA AgreesExtended ==
    ASSUME Types, Agrees(output), NEW v \in Verdicts, verdicts' = Append(verdicts, v),
           NEW run \in Lines, run.kind = "RUN", NEW told \in Seq(TestLines),
           NEW mark \in Lines, mark.name = FullName(v.suite, v.key),
           mark.kind = IF v.passed THEN "OK" ELSE "FAILED",
           output' = Join(Join(Join(output, << run >>), told), << mark >>)
    PROVE  Agrees(output)'
<1>1. output \in Seq(Lines)
  BY DEF Types, ReportTypes
<1>2. run \in Lines \ Marks /\ mark \in Lines \cap Marks /\ Lines \cap Marks = Marks
  BY DEF Marks
<1>3. told \in Seq(Lines \ Marks)
  <2>1. TestLines \subseteq Lines \ Marks
    BY DEF TestLines, Marks
  <2> QED
    BY <2>1, SeqMonotonic
<1>4. PICK q, r : q = Only(output, Marks) /\ r = Only(output', Marks)
  OBVIOUS
<1>5. q \in Seq(Marks) /\ r = Append(q, mark)
  <2>1. q \in Seq(Lines \cap Marks)
    BY <1>1, <1>4, OnlyIn
  <2>2. r = Append(q, mark)
    <3>1. PICK a : a = Join(output, << run >>)
      OBVIOUS
    <3>2. PICK b : b = Join(a, told)
      OBVIOUS
    <3>3. << run >> \in Seq(Lines \ Marks)
      BY <1>2
    <3>4. a \in Seq(Lines) /\ Only(a, Marks) = q
      BY <1>1, <1>4, <3>1, <3>3, OnlyJoin
    <3>5. b \in Seq(Lines) /\ Only(b, Marks) = q
      BY <1>3, <3>2, <3>4, OnlyJoin
    <3>6. output' = Append(b, mark)
      BY <3>1, <3>2, <3>5, AppendIsConcat DEF Join
    <3>7. mark \in Marks /\ mark \in Lines
      BY <1>2
    <3>8. Only(Append(b, mark), Marks) = Append(Only(b, Marks), mark)
      BY <3>5, <3>7, OnlyAppend
    <3> QED
      BY <1>4, <3>5, <3>6, <3>8
  <2> QED
    BY <1>2, <2>1, <2>2
<1>6. PICK n \in Nat :
          /\ Len(verdicts) = n /\ Ran = 1..n
          /\ Len(verdicts') = n + 1 /\ Ran' = Ran \cup {n + 1} /\ n + 1 \notin Ran
          /\ \A i \in Ran : VName(i)' = VName(i)
          /\ VName(n + 1)' = FullName(v.suite, v.key)
          /\ Fails' = Fails \cup IF v.passed THEN {} ELSE {n + 1}
          /\ Fails \subseteq Ran
  BY VerdictsExtended
<1>7. /\ Len(q) = n
      /\ \A i \in Ran : q[i].name = VName(i) /\ (q[i].kind = "FAILED" <=> i \in Fails)
  BY <1>4, <1>6 DEF Agrees
<1>8. /\ Len(r) = n + 1 /\ (\A i \in 1..n : r[i] = q[i]) /\ r[n + 1] = mark
  <2>1. mark \in Marks
    BY <1>2
  <2> QED
    BY <1>5, <1>7, <2>1, AppendProperties
<1>9. ASSUME NEW i \in Ran'
      PROVE  r[i].name = VName(i)' /\ (r[i].kind = "FAILED" <=> i \in Fails')
  <2>1. CASE i \in Ran
    BY <1>6, <1>7, <1>8, <2>1
  <2>2. CASE i = n + 1
    BY <1>6, <1>8, <2>2
  <2> QED
    BY <1>6, <2>1, <2>2
<1> QED
  BY <1>4, <1>6, <1>8, <1>9 DEF Agrees

(* A verdict and what goes with it. *)
LEMMA ProcessReports ==
    ASSUME Types, Writes, Reports, phase = "test",
           NEW t \in TestCases, t.suite = test.suite, t.key = test.key,
           ProcessTestCase(t), ~Die
    PROVE  Reports'
<1>0. ReportTypes /\ test \in TestCases /\ Maps /\ TestsRun /\ Outputs
  BY DEF Types, TestTypes, Reports
<1>1. PICK name : name = Name /\ name = FullName(t.suite, t.key)
  BY DEF Name
<1>2. name \in FullNames
  BY <1>1 DEF TestCases, FullNames
<1>3. PICK v : v = [suite |-> t.suite, key |-> t.key, passed |-> ~~t.succeeded]
  OBVIOUS
<1>4. v \in Verdicts /\ name = FullName(v.suite, v.key) /\ (v.passed <=> t.succeeded)
  BY <1>1, <1>3 DEF Verdicts, TestCases
<1>5. PICK run, mark :
          run = Line("RUN", name) /\ mark = Line(IF ~t.succeeded THEN "FAILED" ELSE "OK", name)
  OBVIOUS
<1>6. /\ run \in Lines /\ run.kind = "RUN"
      /\ mark \in Lines /\ mark.name = name /\ mark.kind = IF v.passed THEN "OK" ELSE "FAILED"
  BY <1>2, <1>4, <1>5 DEF Line, Lines, Kinds
<1>7. /\ MayInsert(durations, Name)
      /\ verdicts' = Append(verdicts, v)
      /\ output' = (output \o << run >> \o t.output) \o << mark >>
      /\ durations' = durations \cup {name}
      /\ failures' = IF ~t.succeeded
             THEN [n \in DOMAIN failures \cup {name} |->
                      IF n = name THEN t.failureOutput ELSE failures[n]]
             ELSE failures
      /\ phase' = "suite"
      /\ UNCHANGED << testsRun, printed, xml, flags >>
  BY <1>1, <1>3, <1>5 DEF ProcessTestCase, command
<1>8. name \notin durations
  BY <1>1, <1>7 DEF MayInsert
<1>9. DOMAIN failures' = DOMAIN failures \cup IF v.passed THEN {} ELSE {name}
  BY <1>4, <1>7
<1>10. Maps'
  BY <1>0, <1>4, <1>7, <1>8, <1>9, MapsExtended
<1>11. Agrees(output)'
  <2>1. output' = Join(Join(Join(output, << run >>), t.output), << mark >>)
    BY <1>7 DEF Join
  <2>2. t.output \in Seq(TestLines) /\ Agrees(output)
    BY <1>0 DEF TestCases, Outputs
  <2> QED
    BY <1>4, <1>6, <1>7, <2>1, <2>2, AgreesExtended
<1>12. TestsRun'
  <2>1. PICK n \in Nat :
            /\ Len(verdicts) = n /\ Ran = 1..n
            /\ Len(verdicts') = n + 1 /\ Ran' = Ran \cup {n + 1} /\ n + 1 \notin Ran
            /\ \A i \in Ran : VName(i)' = VName(i)
            /\ VName(n + 1)' = name
    BY <1>4, <1>7, VerdictsExtended
  <2>2. Len(testsRun) = n + 1 /\ (\A i \in Ran : testsRun[i] = VName(i)) /\ testsRun[n + 1] = name
    BY <1>0, <1>1, <2>1 DEF TestsRun
  <2>3. Len(testsRun') = Len(verdicts')
    BY <1>7, <2>1, <2>2
  <2>4. ASSUME NEW i \in Ran' PROVE testsRun'[i] = VName(i)'
    BY <1>7, <2>1, <2>2
  <2> QED
    BY <1>7, <2>1, <2>3, <2>4 DEF TestsRun
<1>13. ~xml'.written
  BY <1>7 DEF Writes, Undecided
<1> QED
  BY <1>7, <1>10, <1>11, <1>12, <1>13 DEF Reports, Outputs

(* Steps that say nothing new of tests. *)
LEMMA SameReports ==
    ASSUME Reports, UNCHANGED << verdicts, durations, failures, testsRun, output, xml >>,
           phase' = "test" <=> phase = "test", phase = "test" => Name' = Name,
           \/ phase' \notin {"write_xml", "write_coverage", "done"}
           \/ flags'.html
           \/ printed' = output
    PROVE  Reports'
<1>1. Maps' /\ Agrees(output)'
  BY DEF Reports, Maps, Outputs, Agrees, Ran, Fails, VName
<1>2. TestsRun'
  BY DEF Reports, TestsRun, Ran, VName
<1>3. Happened' = Happened /\ Fails' = Fails
  BY DEF Happened, Fails, Ran
<1> QED
  BY <1>1, <1>2, <1>3 DEF Reports, Outputs

(* A line that is not about a test. *)
LEMMA OtherLineAgrees ==
    ASSUME Types, Agrees(output), UNCHANGED verdicts,
           NEW kind \in {"error", "all_passed", "some_failed"},
           output' = Append(output, Line(kind, << >>))
    PROVE  Agrees(output)'
<1>1. PICK l \in Lines : l = Line(kind, << >>)
  BY OtherLines
<1>2. l \notin Marks
  BY <1>1 DEF Line, Marks
<1>3. output \in Seq(Lines) /\ output' = Append(output, l)
  BY <1>1 DEF Types, ReportTypes
<1>4. Only(Append(output, l), Marks) = Only(output, Marks)
  BY <1>2, <1>3, OnlyAppend
<1> QED
  BY <1>3, <1>4 DEF Agrees, Ran, Fails, VName

(* The elements of the report are the verdicts, and it counts the failures. *)
LEMMA MakesReport ==
    ASSUME Types, Maps, TestsRun, phase # "test"
    PROVE  MakeXml.cases = Happened /\ MakeXml.failures = Cardinality(Fails)
<1>1. testsRun \in Seq(FullNames) /\ verdicts \in Seq(Verdicts)
  BY DEF Types, ReportTypes
<1>2. DOMAIN testsRun = Ran /\ DOMAIN verdicts = Ran
  BY <1>1, LenProperties DEF TestsRun, Ran
<1>3. \A i \in Ran : testsRun[i] = VName(i)
  BY DEF TestsRun
<1>4. Elements(testsRun) \subseteq durations
  BY <1>2, <1>3 DEF Elements, Maps
<1>5. Only(testsRun, durations) = testsRun
  BY <1>1, <1>4, OnlyAll
<1>6. ASSUME NEW i \in Ran
      PROVE  [name |-> testsRun[i], failed |-> testsRun[i] \in DOMAIN failures]
                = VerdictOf(verdicts[i])
  <2>1. testsRun[i] \in DOMAIN failures <=> i \in Fails
    BY <1>3 DEF Maps, Fails
  <2>2. i \in Fails <=> ~verdicts[i].passed
    BY DEF Fails
  <2>3. testsRun[i] = FullName(verdicts[i].suite, verdicts[i].key)
    BY <1>3 DEF VName
  <2> QED
    BY <2>1, <2>2, <2>3 DEF VerdictOf
<1>7. Cases = [i \in Ran |-> VerdictOf(verdicts[i])]
  BY <1>2, <1>5, <1>6 DEF Cases
<1>8. MakeXml.cases = Happened
  BY <1>2, <1>7 DEF MakeXml, Happened
<1>9. Cardinality(DOMAIN failures) = Cardinality(Fails)
  <2>1. IsFiniteSet(Fails)
    <3>1. PICK n \in Nat : Ran = 1..n
      BY <1>1, LenProperties DEF Ran
    <3>2. IsFiniteSet(Ran)
      BY <3>1, FS_Interval
    <3> QED
      BY <3>2, FS_Subset DEF Fails
  <2>2. PICK f : f = [i \in Fails |-> VName(i)]
    OBVIOUS
  <2>3. f \in Bijection(Fails, DOMAIN failures)
    <3>1. f \in [Fails -> DOMAIN failures]
      BY <2>2 DEF Maps
    <3>2. \A i, j \in Fails : f[i] = f[j] => i = j
      BY <2>2 DEF Maps, Fails
    <3>3. \A n \in DOMAIN failures : \E i \in Fails : f[i] = n
      BY <2>2 DEF Maps
    <3> QED
      BY <3>1, <3>2, <3>3 DEF Bijection, Injection, Surjection, IsInjective
  <2>4. ExistsBijection(Fails, DOMAIN failures)
    BY <2>3 DEF ExistsBijection
  <2> QED
    BY <2>1, <2>4, FS_Bijection
<1> QED
  BY <1>8, <1>9 DEF MakeXml

LEMMA ReportsNext == Result /\ Types /\ Writes /\ Reports /\ [Next]_vars => Reports'
<1> SUFFICES ASSUME Result, Types, Writes, Reports, [Next]_vars PROVE Reports'
  OBVIOUS
<1>0. Maps /\ TestsRun /\ Outputs /\ TestTypes
  BY DEF Reports, Types
<1>1. CASE UNCHANGED << phase, flags, test, report, results, verdicts >>
  BY <1>0, <1>1, SameReports DEF report, results, Name, Outputs
<1>2. CASE Die \/ UNCHANGED vars
  BY <1>1, <1>2 DEF Die, vars, command, history
<1>3. CASE Registers \/ SkipTest \/ OpenFile \/ WritePiece
  BY <1>1, <1>3 DEF Registers, SkipTest, OpenFile, WritePiece, command, history
<1>4. CASE GenerateHtml \/ LoadScripts \/ ExecuteScript \/ ScriptEnds \/ StartTests
           \/ (NextSuite /\ ~Die) \/ SuiteEnds
  <2>1. /\ UNCHANGED << verdicts, durations, failures, testsRun, output, xml >>
        /\ phase # "test" /\ phase' # "test"
        /\ phase' \notin {"write_xml", "write_coverage", "done"}
    BY <1>4 DEF GenerateHtml, LoadScripts, ExecuteScript, ScriptEnds, StartTests, NextSuite,
                SuiteEnds, report, results, history
  <2> QED
    BY <2>1, SameReports
<1>5. CASE ScriptFails
  <2>1. /\ output' = Append(output, Line("error", << >>)) /\ phase = "script" /\ phase' = "print"
        /\ UNCHANGED << verdicts, durations, failures, testsRun, xml, flags >>
    BY <1>5 DEF ScriptFails, command
  <2>2. Agrees(output)'
    BY <1>0, <2>1, OtherLineAgrees DEF Outputs
  <2>3. Maps' /\ TestsRun'
    BY <1>0, <2>1 DEF Maps, TestsRun, Ran, Fails, VName
  <2>4. Happened' = Happened /\ Fails' = Fails
    BY <2>1 DEF Happened, Fails, Ran
  <2> QED
    BY <1>0, <2>1, <2>2, <2>3, <2>4 DEF Reports, Outputs
<1>6. CASE StartTest
  <2>1. /\ testsRun' = Append(testsRun, NextName) /\ phase = "suite" /\ phase' = "test"
        /\ UNCHANGED << verdicts, durations, failures, output, xml, flags >>
    BY <1>6 DEF StartTest, command, results, history
  <2>2. NextName = Name'
    BY <1>6 DEF StartTest, NextName, Name, NoTest
  <2>3. Maps' /\ Agrees(output)'
    BY <1>0, <2>1 DEF Maps, Outputs, Agrees, Ran, Fails, VName
  <2>4. TestsRun'
    <3>1. PICK n \in Nat : n = Len(verdicts) /\ n = Len(verdicts') /\ n = Len(testsRun)
      BY <1>0, <2>1, LenProperties DEF TestsRun, Types, ReportTypes
    <3>2. Len(testsRun') = n + 1 /\ (\A i \in 1..n : testsRun'[i] = testsRun[i])
          /\ testsRun'[n + 1] = Name'
      <4>1. tests[index + 1] \in Properties /\ Current \in Suites
        BY <1>6, LenProperties, ElementOfSeq
           DEF StartTest, Types, PositionTypes, RegistrationTypes, Current
      <4>2. NextName \in FullNames
        BY <4>1 DEF NextName, FullNames, Properties
      <4> QED
        BY <2>1, <2>2, <3>1, <4>2, AppendProperties DEF Types, ReportTypes
    <3>3. \A i \in 1..n : testsRun'[i] = VName(i)'
      BY <1>0, <2>1, <3>1, <3>2 DEF TestsRun, Ran, VName
    <3> QED
      BY <2>1, <3>1, <3>2, <3>3 DEF TestsRun, Ran
  <2>5. Happened' = Happened /\ Fails' = Fails
    BY <2>1 DEF Happened, Fails, Ran
  <2> QED
    BY <1>0, <2>1, <2>3, <2>4, <2>5 DEF Reports, Outputs
<1>7. CASE LogString \/ RecordFailure
  <2>1. /\ UNCHANGED << verdicts, durations, failures, testsRun, output, xml, phase >>
        /\ phase = "test" /\ Name' = Name
    <3>1. test \in TestCases
      BY <1>0, <1>7 DEF TestTypes, LogString, RecordFailure
    <3> QED
      BY <1>7, <3>1 DEF LogString, RecordFailure, FailedBy, Name, TestCases, report, results, history
  <2> QED
    BY <2>1, SameReports
<1>8. CASE TestReturns /\ ~Die
  BY <1>0, <1>8, ProcessReports DEF TestReturns, TestTypes
<1>9. CASE TestEscapes /\ ~Die
  BY <1>0, <1>9, ProcessReports, FailedByTypes DEF TestEscapes
<1>10. CASE EndTests /\ ~Die
  <2>1. /\ UNCHANGED << verdicts, durations, failures, testsRun, flags >>
        /\ phase = "suites" /\ phase' = "print"
    BY <1>10 DEF EndTests, command, report, history
  <2>2. Maps' /\ TestsRun'
    BY <1>0, <2>1 DEF Maps, TestsRun, Ran, Fails, VName
  <2>3. CASE NoTestsFound
    <3>1. output' = << Line("none_found", << >>) >> /\ xml' = xml
      BY <1>10, <2>3 DEF EndTests
    <3>2. verdicts = << >>
      BY <2>1, <2>3 DEF NoTestsFound, Result, Undecided, NoneRun
    <3>3. PICK l \in Lines : l = Line("none_found", << >>)
      BY OtherLines
    <3>4. l \notin Marks
      BY <3>3 DEF Line, Marks
    <3>5. output' = << l >> /\ << l >> \in Seq(Lines \ Marks)
      <4>1. output' = << l >>
        BY <3>1, <3>3
      <4>2. l \in Lines \ Marks
        BY <3>4
      <4>3. << l >> \in Seq(Lines \ Marks)
        BY <4>2
      <4> QED
        BY <4>1, <4>3
    <3>6. Only(<< l >>, Marks) = << >>
      <4>1. (Lines \ Marks) \cap Marks = {}
        OBVIOUS
      <4> QED
        BY <3>5, <4>1, OnlyNone
    <3>7. verdicts' = << >> /\ Ran' = {}
      BY <2>1, <3>2 DEF Ran
    <3>8. Agrees(output)'
      BY <3>5, <3>6, <3>7 DEF Agrees
    <3>9. ~xml'.written
      BY <2>1, <3>1 DEF Writes, Undecided
    <3> QED
      BY <2>1, <2>2, <3>8, <3>9 DEF Reports, Outputs
  <2>4. CASE ~NoTestsFound
    <3>1. /\ output' = Append(output, Line(IF success THEN "all_passed" ELSE "some_failed", << >>))
          /\ xml' = MakeXml
      BY <1>10, <2>4 DEF EndTests
    <3>2. Agrees(output)'
      BY <1>0, <2>1, <3>1, OtherLineAgrees DEF Outputs
    <3>3. xml'.cases = Happened /\ xml'.failures = Cardinality(Fails)
      BY <1>0, <2>1, <3>1, MakesReport
    <3>4. Happened' = Happened /\ Fails' = Fails
      BY <2>1 DEF Happened, Fails, Ran
    <3> QED
      BY <2>1, <2>2, <3>2, <3>3, <3>4 DEF Reports, Outputs
  <2> QED
    BY <2>3, <2>4
<1>11. CASE PrintOutput
  BY <1>11, SameReports DEF PrintOutput, report, history
<1>12. CASE CloseFile
  <2>1. /\ UNCHANGED << verdicts, durations, failures, testsRun, output, xml, printed, flags >>
        /\ phase # "test" /\ phase' # "test"
        /\ phase \in {"write_xml", "write_coverage"} \/ flags.html
    BY <1>12 DEF CloseFile, Writing, Result, command, report, results, history
  <2> QED
    BY <1>0, <2>1, SameReports DEF Outputs
<1> QED
  BY <1>2, <1>3, <1>4, <1>5, <1>6, <1>7, <1>8, <1>9, <1>10, <1>11, <1>12
     DEF Next, Running, ScriptUnreadable, WriteFails

LEMMA ReportsInvariant == Spec => []Reports
<1>1. Result /\ Types /\ Writes /\ Reports /\ [Next]_vars => Reports'
  BY ReportsNext
<1> QED
  BY <1>1, ReportsInit, ResultInvariant, TypesInvariant, WritesInvariant, PTL DEF Spec

LEMMA ReportsGiveAgreement == Result /\ Types /\ Writes /\ Reports => ReportsAgree
<1> SUFFICES ASSUME Result, Types, Writes, Reports, RanTests, verdicts # << >>, ~broken
             PROVE  ReportsAgree
  BY DEF ReportsAgree
<1>1. phase = "done" /\ ~flags.html
  BY DEF Result, RanTests
<1>2. Outputs /\ printed = output /\ xml.written
  BY <1>1 DEF Reports, Outputs, Writes, Decided, NoneRun
<1>3. xml.cases = Happened /\ xml.failures = Cardinality(Fails)
  BY <1>2 DEF Outputs
<1>4. PICK lines : lines = Only(printed, {l \in Elements(printed) : l.kind \in {"OK", "FAILED"}})
  OBVIOUS
<1>5. lines = Only(printed, Marks)
  <2>1. printed \in Seq(Lines)
    BY DEF Types, ReportTypes
  <2>2. \A e \in Elements(printed) :
           e \in {l \in Elements(printed) : l.kind \in {"OK", "FAILED"}} <=> e \in Marks
    BY <2>1, ElementsIn DEF Marks
  <2>3. Only(printed, {l \in Elements(printed) : l.kind \in {"OK", "FAILED"}}) = Only(printed, Marks)
    BY <2>1, <2>2, OnlySame
  <2> QED
    BY <1>4, <2>3
<1>6. DOMAIN verdicts = Ran /\ DOMAIN lines = Ran
  <2>1. printed \in Seq(Lines) /\ verdicts \in Seq(Verdicts)
    BY DEF Types, ReportTypes
  <2>2. lines \in Seq(Lines \cap Marks)
    BY <1>5, <2>1, OnlyIn
  <2>3. Len(lines) = Len(verdicts)
    BY <1>2, <1>5 DEF Outputs, Agrees
  <2> QED
    BY <2>1, <2>2, <2>3, LenProperties DEF Ran
<1>7. ASSUME NEW i \in Ran
      PROVE  [name |-> lines[i].name, failed |-> lines[i].kind = "FAILED"] = Happened[i]
  <2>1. lines[i].name = VName(i) /\ (lines[i].kind = "FAILED" <=> i \in Fails)
    BY <1>2, <1>5 DEF Outputs, Agrees
  <2>2. i \in Fails <=> ~verdicts[i].passed
    BY DEF Fails
  <2> QED
    BY <1>6, <2>1, <2>2 DEF Happened, VerdictOf, VName
<1>8. [i \in DOMAIN lines |-> [name |-> lines[i].name, failed |-> lines[i].kind = "FAILED"]]
         = Happened
  BY <1>6, <1>7 DEF Happened
<1>9. {i \in DOMAIN Happened : Happened[i].failed} = Fails
  BY <1>6 DEF Happened, VerdictOf, Fails
<1> QED
  BY <1>3, <1>4, <1>8, <1>9 DEF ReportsAgree, Happened

(* What is printed, what the XML says and what happened are the same for   *)
(* every number of suites and tests, whatever their names: two tests of    *)
(* one name end the process before anything is printed.                    *)
THEOREM ReportsAgreeCorrect == Spec => []ReportsAgree
BY ReportsGiveAgreement, ResultInvariant, TypesInvariant, WritesInvariant, ReportsInvariant, PTL

(* The state has its type whatever the scripts register and the tests do.  *)
THEOREM TypeCorrect == Spec => []TypeOK
BY TypesInvariant, TypesGiveTypeOK, PTL

-----------------------------------------------------------------------------
(* No test forgotten                                                       *)

InTest == phase \in {"suite", "test"}
HasRun(p) == \E i \in DOMAIN verdicts : verdicts[i].suite = p[1] /\ verdicts[i].key = p[2]
Runs(p) == phase = "test" /\ test.suite = p[1] /\ test.key = p[2]
IsAhead(p) ==
    InTest /\ Current = p[1] /\ \E i \in 1..Len(tests) : i > index /\ tests[i].key = p[2]
Standing(p) ==
    /\ p \in Suites \X Keys
    /\ p[1] \in Elements(testSuites)
    /\ \E q \in Elements(prototypes[p[1]]) : IsTest(q) /\ q.key = p[2]
Wanting(p) == p[1] \in visited /\ FullMatch(FullName(p[1], p[2]))

(* The suites are visited in order; what the scripts had left in one is    *)
(* still there when it is visited, as tests only add, and from then on is  *)
(* ahead, runs, or has run.                                                *)
Covered ==
    /\ visited = {testSuites[j] : j \in 1..suite}
    /\ phase \in {"start", "scripts", "script"} => planned = {} /\ suite = 0
    /\ flags.html => planned = {} /\ suite = 0
    /\ Decided /\ ~broken /\ ~flags.html => suite = Len(testSuites)
    /\ \A p \in planned : Standing(p)
    /\ \A p \in planned : Wanting(p) => HasRun(p) \/ Runs(p) \/ IsAhead(p)

LEMMA CoveredInit == Init => Covered
BY DEF Init, Covered, Decided

(* Steps within a suite or a test that do not get on with it.              *)
LEMMA CoveredSame ==
    ASSUME Covered,
           UNCHANGED << registration, suite, tests, index, flags, phase, broken, planned, visited,
                        verdicts >>,
           phase = "test" => test'.suite = test.suite /\ test'.key = test.key
    PROVE  Covered'
BY DEF Covered, Decided, Standing, Wanting, HasRun, Runs, IsAhead, InTest, Current, registration,
       FullMatch

(* Steps outside of suites and tests.                                      *)
LEMMA CoveredOutside ==
    ASSUME Covered, UNCHANGED << registration, suite, tests, index, flags, planned, visited, verdicts >>,
           phase \notin {"suite", "test"}, phase' \notin {"suite", "test"},
           phase' \in {"start", "scripts", "script"} => phase \in {"start", "scripts", "script"},
           Decided' /\ ~broken' /\ ~flags'.html => suite' = Len(testSuites')
    PROVE  Covered'
<1>1. \A p \in planned' : Standing(p)'
  BY DEF Covered, Standing, registration
<1>2. \A p \in planned' : Wanting(p)' => HasRun(p)'
  BY DEF Covered, Wanting, HasRun, Runs, IsAhead, InTest, FullMatch
<1> QED
  BY <1>1, <1>2 DEF Covered, registration

(* What was there when the tests began is not taken away.                  *)
LEMMA TestsOnlyAdd ==
    ASSUME RegistrationTypes, phase = "test", Registers
    PROVE  \A s \in Suites : Elements(prototypes[s]) \subseteq Elements(prototypes'[s])
<1>0. prototypes \in [Suites -> Seq(Properties)]
  BY DEF RegistrationTypes
<1>1. ASSUME NEW s \in Suites, NEW k \in Keys, AddTest(s, k)
      PROVE  \A r \in Suites : Elements(prototypes[r]) \subseteq Elements(prototypes'[r])
  <2>1. PICK q : q = Append(prototypes[s], Property(k, TRUE))
    OBVIOUS
  <2>2. Property(k, TRUE) \in Properties /\ prototypes[s] \in Seq(Properties)
    BY <1>0 DEF Property, Properties
  <2>3. Elements(prototypes[s]) \subseteq Elements(q)
    <3>1. PICK old, new : old = prototypes[s] /\ new = Property(k, TRUE)
      OBVIOUS
    <3>2. old \in Seq(Properties) /\ new \in Properties
      BY <2>2, <3>1
    <3>3. Elements(Append(old, new)) = Elements(old) \cup {new}
      BY <3>2, ElementsAppend
    <3> QED
      BY <2>1, <3>1, <3>3
  <2>4. prototypes' = [prototypes EXCEPT ![s] = q]
    BY <1>1, <2>1 DEF AddTest
  <2> QED
    BY <1>0, <2>3, <2>4
<1>2. CASE \E s \in Suites, k \in Keys : AddTest(s, k)
  BY <1>1, <1>2
<1>3. CASE UNCHANGED prototypes
  BY <1>3
<1> QED
  BY <1>2, <1>3 DEF Registers, RegisterTestSuite

LEMMA CoveredRegisters ==
    ASSUME Types, Covered, phase # "done", Registers
    PROVE  Covered'
<1>0. RegistrationTypes /\ PositionTypes /\ phase \in {"script", "test"}
  BY DEF Types, Registers
<1>1. UNCHANGED << flags, phase, position, test, history >>
  BY DEF Registers
<1>2. PICK n \in Nat, m \in Nat :
         /\ n = Len(testSuites) /\ m = Len(testSuites') /\ n <= m
         /\ DOMAIN testSuites = 1..n /\ DOMAIN testSuites' = 1..m
  <2>1. RegistrationTypes' /\ Len(testSuites) <= Len(testSuites')
    BY <1>0, RegisterTypes
  <2> QED
    BY <1>0, <2>1, LenProperties DEF RegistrationTypes
<1>3. \A i \in 1..n : testSuites'[i] = testSuites[i]
  BY <1>0, <1>2, RegisterTypes
<1>4. suite \in 0..n /\ suite' = suite
  BY <1>0, <1>1, <1>2 DEF PositionTypes, position
<1>5. visited' = {testSuites'[j] : j \in 1..suite'}
  BY <1>1, <1>3, <1>4 DEF Covered, history
<1>6. Elements(testSuites) \subseteq Elements(testSuites')
  BY <1>2, <1>3 DEF Elements
<1>7. CASE phase = "script"
  BY <1>1, <1>5, <1>7 DEF Covered, Decided, history, position
<1>8. CASE phase = "test"
  <2>1. \A s \in Suites : Elements(prototypes[s]) \subseteq Elements(prototypes'[s])
    BY <1>0, <1>8, TestsOnlyAdd
  <2>2. ASSUME NEW p \in planned PROVE Standing(p)'
    BY <1>6, <2>1 DEF Covered, Standing
  <2>3. suite > 0
    BY <1>0, <1>8 DEF PositionTypes
  <2>4. Current' = Current
    BY <1>3, <1>4, <2>3 DEF Current
  <2>5. ASSUME NEW p \in planned, Wanting(p)' PROVE (HasRun(p) \/ Runs(p) \/ IsAhead(p))'
    BY <1>1, <2>4, <2>5
       DEF Covered, Wanting, HasRun, Runs, IsAhead, InTest, FullMatch, position, history
  <2> QED
    BY <1>1, <1>5, <1>8, <2>2, <2>5 DEF Covered, Decided, history, position
<1> QED
  BY <1>0, <1>7, <1>8

LEMMA CoveredStartTests ==
    ASSUME Result, Types, Covered, StartTests PROVE Covered'
<1>0. RegistrationTypes /\ phase = "scripts" /\ phase' = "suites" /\ planned = {}
  BY DEF Types, StartTests, Covered
<1>1. /\ UNCHANGED << registration, position, flags, visited, verdicts >>
      /\ planned' = UNION {{<< s, p.key >> : p \in Elements(GetTestFunctions(s))} :
                              s \in Elements(testSuites)}
  BY DEF StartTests, command
<1>2. ASSUME NEW p \in planned' PROVE Standing(p)
  <2>1. PICK s \in Elements(testSuites) : \E q \in Elements(GetTestFunctions(s)) : p = << s, q.key >>
    BY <1>1
  <2>2. PICK q \in Elements(GetTestFunctions(s)) : p = << s, q.key >>
    BY <2>1
  <2>3. s \in Suites
    BY <1>0, ElementsIn DEF RegistrationTypes
  <2>4. prototypes \in [Suites -> Seq([key : Keys, isFunction : BOOLEAN])]
    BY <1>0 DEF RegistrationTypes, Properties
  <2>5. q \in Elements(prototypes[s]) /\ IsTest(q)
    BY <2>3, <2>4, TestFunctions
  <2>6. q.key \in Keys
    <3>1. prototypes[s] \in Seq(Properties)
      BY <2>3, <2>4 DEF Properties
    <3>2. q \in Properties
      BY <2>5, <3>1, ElementsIn
    <3> QED
      BY <3>2 DEF Properties
  <2> QED
    BY <2>2, <2>3, <2>5, <2>6 DEF Standing
<1>3. \A p \in planned' : Standing(p)'
  BY <1>1, <1>2 DEF Standing, registration
<1>4. ~flags.html /\ suite = 0 /\ visited = {}
  <2>1. ~flags.html
    BY <1>0 DEF Result
  <2>2. suite = 0 /\ visited = {testSuites[j] : j \in 1..suite}
    BY <1>0 DEF Covered
  <2>3. 1..0 = {}
    OBVIOUS
  <2> QED
    BY <2>1, <2>2, <2>3
<1> QED
  BY <1>0, <1>1, <1>3, <1>4 DEF Covered, Decided, registration, position, Wanting

LEMMA CoveredNextSuite ==
    ASSUME Result, Types, Covered, NextSuite, ~Die PROVE Covered'
<1>0. RegistrationTypes /\ PositionTypes /\ phase = "suites"
  BY DEF Types, NextSuite
<1>1. PICK s : s = testSuites[suite + 1]
  OBVIOUS
<1>2. /\ suite < Len(testSuites) /\ suite' = suite + 1 /\ phase' = "suite" /\ index' = 0
      /\ tests' = GetTestFunctions(s) /\ visited' = visited \cup {s}
      /\ UNCHANGED << registration, flags, broken, planned, verdicts >>
  BY <1>1 DEF NextSuite, MoreSuites, command
<1>3. suite \in Nat /\ Len(testSuites) \in Nat /\ 1..suite + 1 = 1..suite \cup {suite + 1}
  BY <1>0, LenProperties DEF PositionTypes, RegistrationTypes
<1>4. s \in Suites /\ Current' = s
  BY <1>0, <1>1, <1>2, <1>3, ElementOfSeq DEF RegistrationTypes, Current, registration
<1>5. visited' = {testSuites'[j] : j \in 1..suite'}
  BY <1>1, <1>2, <1>3 DEF Covered, registration
<1>6. prototypes \in [Suites -> Seq([key : Keys, isFunction : BOOLEAN])]
  BY <1>0 DEF RegistrationTypes, Properties
<1>7. /\ tests' \in Seq([key : Keys, isFunction : BOOLEAN])
      /\ Elements(tests') = {q \in Elements(prototypes[s]) : IsTest(q)}
  BY <1>2, <1>4, <1>6, TestFunctions
<1>8. ASSUME NEW p \in planned, p[1] = s PROVE IsAhead(p)'
  <2>1. \E q \in Elements(tests') : q.key = p[2]
    BY <1>7, <1>8 DEF Covered, Standing
  <2>2. \E i \in 1..Len(tests') : tests'[i].key = p[2]
    BY <1>7, <2>1, LenProperties DEF Elements
  <2> QED
    BY <1>2, <1>4, <1>8, <2>2 DEF IsAhead, InTest
<1>9. ASSUME NEW p \in planned, Wanting(p)', p[1] # s PROVE HasRun(p)'
  BY <1>0, <1>2, <1>9 DEF Covered, Wanting, HasRun, Runs, IsAhead, InTest, FullMatch
<1>10. \A p \in planned : Standing(p)'
  BY <1>2 DEF Covered, Standing, registration
<1>11. ~flags.html
  BY <1>0 DEF Result
<1> QED
  BY <1>2, <1>5, <1>8, <1>9, <1>10, <1>11 DEF Covered, Decided

(* The next test is taken or does not match the filter.                    *)
LEMMA CoveredNextTest ==
    ASSUME Types, Covered, SkipTest \/ StartTest PROVE Covered'
<1>0. RegistrationTypes /\ PositionTypes /\ phase = "suite"
  BY DEF Types, SkipTest, StartTest
<1>1. /\ index < Len(tests) /\ index' = index + 1
      /\ UNCHANGED << registration, suite, tests, flags, broken, planned, visited, verdicts >>
  BY DEF SkipTest, StartTest, command, history
<1>2. \/ ~FullMatch(NextName) /\ phase' = "suite"
      \/ phase' = "test" /\ test'.suite = Current /\ test'.key = tests[index + 1].key
  BY <1>0 DEF SkipTest, StartTest, NoTest
<1>3. Current' = Current
  BY <1>1 DEF Current, registration
<1>4. index \in Nat
  BY <1>0 DEF PositionTypes
<1>5. ASSUME NEW p \in planned, Wanting(p)', ~HasRun(p)' PROVE Runs(p)' \/ IsAhead(p)'
  <2>1. Wanting(p) /\ ~HasRun(p) /\ ~Runs(p)
    BY <1>0, <1>1, <1>5 DEF Wanting, HasRun, Runs, FullMatch
  <2>2. PICK i \in 1..Len(tests) : i > index /\ tests[i].key = p[2]
    BY <2>1 DEF Covered, IsAhead
  <2>3. Current = p[1]
    BY <2>1 DEF Covered, IsAhead
  <2>4. CASE i = index + 1
    <3>1. FullMatch(NextName)
      BY <2>1, <2>2, <2>3, <2>4 DEF NextName, Wanting
    <3> QED
      BY <1>2, <2>2, <2>3, <2>4, <3>1 DEF Runs
  <2>5. CASE i > index + 1
    <3>1. InTest'
      BY <1>2 DEF InTest
    <3> QED
      BY <1>1, <1>3, <2>2, <2>3, <2>5, <3>1 DEF IsAhead
  <2> QED
    BY <1>4, <2>2, <2>4, <2>5
<1>6. \A p \in planned : Standing(p)'
  BY <1>1 DEF Covered, Standing, registration
<1> QED
  BY <1>0, <1>1, <1>2, <1>5, <1>6 DEF Covered, Decided, registration

LEMMA CoveredProcess ==
    ASSUME Types, Covered, phase = "test", NEW t, t.suite = test.suite, t.key = test.key,
           ProcessTestCase(t), ~Die
    PROVE  Covered'
<1>1. PICK v : v = [suite |-> t.suite, key |-> t.key, passed |-> ~~t.succeeded]
  OBVIOUS
<1>2. /\ verdicts' = Append(verdicts, v) /\ phase' = "suite"
      /\ UNCHANGED << registration, suite, tests, index, flags, broken, planned, visited >>
  BY <1>1 DEF ProcessTestCase, command, position
<1>3. v \in Verdicts
  BY <1>1 DEF Types, TestTypes, TestCases, Verdicts
<1>4. verdicts \in Seq(Verdicts)
  BY DEF Types, ReportTypes
<1>5. PICK n \in Nat :
         /\ DOMAIN verdicts = 1..n /\ DOMAIN verdicts' = 1..n + 1
         /\ \A i \in 1..n : verdicts'[i] = verdicts[i]
         /\ verdicts'[n + 1] = v
  <2>1. PICK n \in Nat : n = Len(verdicts)
    BY <1>4, LenProperties
  <2>2. /\ Len(verdicts') = n + 1 /\ verdicts' \in Seq(Verdicts)
        /\ \A i \in 1..n : verdicts'[i] = verdicts[i]
        /\ verdicts'[n + 1] = v
    BY <1>2, <1>3, <1>4, <2>1, AppendProperties
  <2> QED
    BY <1>4, <2>1, <2>2, LenProperties
<1>6. Current' = Current
  BY <1>2 DEF Current, registration
<1>7. ASSUME NEW p \in planned, Wanting(p)' PROVE HasRun(p)' \/ IsAhead(p)'
  <2>1. Wanting(p)
    BY <1>2, <1>7 DEF Wanting, FullMatch
  <2>2. CASE HasRun(p)
    BY <1>5, <2>2 DEF HasRun
  <2>3. CASE Runs(p)
    BY <1>1, <1>5, <2>3 DEF HasRun, Runs
  <2>4. CASE IsAhead(p)
    BY <1>2, <1>6, <2>4 DEF IsAhead, InTest
  <2> QED
    BY <2>1, <2>2, <2>3, <2>4 DEF Covered
<1>8. \A p \in planned : Standing(p)'
  BY <1>2 DEF Covered, Standing, registration
<1> QED
  BY <1>2, <1>7, <1>8 DEF Covered, Decided, registration

LEMMA CoveredSuiteEnds ==
    ASSUME Types, Covered, SuiteEnds PROVE Covered'
<1>1. /\ phase = "suite" /\ phase' = "suites" /\ index = Len(tests)
      /\ UNCHANGED << registration, suite, tests, index, flags, broken, planned, visited, verdicts >>
  BY DEF SuiteEnds, command, position, history
<1>2. index \in Nat
  BY DEF Types, PositionTypes
<1>3. ASSUME NEW p \in planned, Wanting(p)' PROVE HasRun(p)'
  BY <1>1, <1>2, <1>3 DEF Covered, Wanting, HasRun, Runs, IsAhead, FullMatch
<1>4. \A p \in planned : Standing(p)'
  BY <1>1 DEF Covered, Standing, registration
<1> QED
  BY <1>1, <1>3, <1>4 DEF Covered, Decided, registration

LEMMA CoveredNext == Result /\ Types /\ Covered /\ [Next]_vars => Covered'
<1> SUFFICES ASSUME Result, Types, Covered, [Next]_vars PROVE Covered'
  OBVIOUS
<1>1. CASE Die \/ UNCHANGED vars \/ LogString \/ RecordFailure \/ OpenFile \/ WritePiece
  <2>1. UNCHANGED << registration, suite, tests, index, flags, phase, broken, planned, visited,
                     verdicts >>
    BY <1>1 DEF Die, vars, LogString, RecordFailure, OpenFile, WritePiece, command, position, history
  <2>2. phase = "test" => test'.suite = test.suite /\ test'.key = test.key
    <3>1. phase = "test" => test \in TestCases
      BY DEF Types, TestTypes
    <3> QED
      BY <1>1, <3>1 DEF Die, vars, LogString, RecordFailure, FailedBy, OpenFile, WritePiece, TestCases
  <2> QED
    BY <2>1, <2>2, CoveredSame
<1>2. CASE GenerateHtml \/ LoadScripts \/ ExecuteScript \/ ScriptEnds
  BY <1>2, CoveredOutside
     DEF GenerateHtml, LoadScripts, ExecuteScript, ScriptEnds, Decided, command, position, history
<1>3. CASE ScriptFails
  BY <1>3, CoveredOutside DEF ScriptFails, Decided, command, position
<1>4. CASE EndTests /\ ~Die
  <2>1. /\ phase = "suites" /\ phase' = "print" /\ ~MoreSuites
        /\ UNCHANGED << registration, suite, tests, index, flags, planned, visited, verdicts >>
    BY <1>4 DEF EndTests, command, position, history
  <2>2. suite = Len(testSuites)
    <3>1. PICK n \in Nat : n = Len(testSuites)
      BY LenProperties DEF Types, RegistrationTypes
    <3> QED
      BY <2>1, <3>1 DEF MoreSuites, Types, PositionTypes
  <2> QED
    BY <2>1, <2>2, CoveredOutside DEF registration
<1>5. CASE PrintOutput \/ CloseFile
  <2>1. /\ phase \in {"print", "write_html", "write_xml", "write_coverage"}
        /\ phase' \in {"write_xml", "write_coverage", "done"}
        /\ UNCHANGED << registration, suite, tests, index, flags, broken, planned, visited, verdicts >>
    BY <1>5 DEF PrintOutput, CloseFile, Writing, command, position, history
  <2>2. phase = "write_html" => flags.html
    BY DEF Result
  <2>3. Decided' /\ ~broken' /\ ~flags'.html => suite' = Len(testSuites')
    BY <2>1, <2>2 DEF Covered, Decided, registration
  <2> QED
    BY <2>1, <2>3, CoveredOutside
<1>6. CASE Registers
  BY <1>6, CoveredRegisters DEF Registers
<1>7. CASE TestReturns /\ ~Die
  BY <1>7, CoveredProcess DEF TestReturns
<1>8. CASE TestEscapes /\ ~Die
  BY <1>8, CoveredProcess, FailedByTypes DEF TestEscapes
<1> QED
  BY <1>1, <1>2, <1>3, <1>4, <1>5, <1>6, <1>7, <1>8, CoveredStartTests, CoveredNextSuite,
     CoveredNextTest, CoveredSuiteEnds
     DEF Next, Running, ScriptUnreadable, WriteFails

LEMMA CoveredInvariant == Spec => []Covered
<1>1. Result /\ Types /\ Covered /\ [Next]_vars => Covered'
  BY CoveredNext
<1> QED
  BY <1>1, CoveredInit, ResultInvariant, TypesInvariant, PTL DEF Spec

LEMMA CoveredGivesAll == Result /\ Types /\ Covered => NothingForgotten
<1> SUFFICES ASSUME Result, Types, Covered, RanTests, ~broken PROVE NothingForgotten
  BY DEF NothingForgotten
<1>1. phase = "done" /\ ~flags.html
  BY DEF Result, RanTests
<1>2. suite = Len(testSuites)
  BY <1>1 DEF Covered, Decided
<1>3. DOMAIN testSuites = 1..suite
  BY <1>2, LenProperties DEF Types, RegistrationTypes
<1>4. Elements(testSuites) = visited
  BY <1>3 DEF Elements, Covered
<1>5. ASSUME NEW p \in planned, FullMatch(FullName(p[1], p[2])) PROVE HasRun(p)
  BY <1>1, <1>4, <1>5 DEF Covered, Standing, Wanting, Runs, IsAhead, InTest
<1> QED
  BY <1>4, <1>5 DEF NothingForgotten, HasRun

(* No suite and no test is forgotten, though the list of suites may grow   *)
(* while the tests run.                                                    *)
THEOREM NothingForgottenCorrect == Spec => []NothingForgotten
BY CoveredGivesAll, ResultInvariant, TypesInvariant, CoveredInvariant, PTL

-----------------------------------------------------------------------------
(* The process and the page.                                               *)

(* The page's keys may be other ones than those of the process.            *)
AllKeys == Keys \cup PageKeys
AllProperties == [key : AllKeys, isFunction : BOOLEAN]
AnyRegistration ==
    /\ testSuites \in Seq(Suites)
    /\ prototypes \in [Suites -> Seq(AllProperties)]

-----------------------------------------------------------------------------
(* What scripts register                                                   *)

LEMMA InstanceElements == \A s : Browser!Elements(s) = Elements(s)
BY DEF Browser!Elements, Elements

LEMMA PageRegisters ==
    ASSUME AnyRegistration, Browser!Registers
    PROVE  AnyRegistration' /\ Len(testSuites) <= Len(testSuites')
<1>0. Len(testSuites) \in Nat /\ testSuites \in Seq(Suites)
      /\ prototypes \in [Suites -> Seq(AllProperties)]
  BY LenProperties DEF AnyRegistration
<1>1. ASSUME NEW s \in Suites, Browser!RegisterTestSuite(s)
      PROVE  AnyRegistration' /\ Len(testSuites) <= Len(testSuites')
  <2>1. testSuites' = Append(testSuites, s) /\ UNCHANGED prototypes
    BY <1>1 DEF Browser!RegisterTestSuite
  <2>2. testSuites' \in Seq(Suites) /\ Len(testSuites') = Len(testSuites) + 1
    BY <1>0, <2>1, AppendProperties
  <2> QED
    BY <1>0, <2>1, <2>2 DEF AnyRegistration
<1>2. ASSUME NEW s \in Suites, NEW k \in PageKeys, Browser!AddTest(s, k)
      PROVE  AnyRegistration' /\ Len(testSuites) <= Len(testSuites')
  <2>1. PICK old, new : old = prototypes[s] /\ new = Browser!Property(k, TRUE)
    OBVIOUS
  <2>2. old \in Seq(AllProperties) /\ new \in AllProperties
    BY <1>0, <2>1 DEF AllProperties, AllKeys, Browser!Property
  <2>3. Append(old, new) \in Seq(AllProperties)
    BY <2>2, AppendProperties
  <2>4. prototypes' = [prototypes EXCEPT ![s] = Append(old, new)] /\ UNCHANGED testSuites
    BY <1>2, <2>1 DEF Browser!AddTest
  <2> QED
    BY <1>0, <2>3, <2>4 DEF AnyRegistration
<1> QED
  BY <1>1, <1>2 DEF Browser!Registers

(* The process registers what it registers.                                *)
LEMMA NativeRegisters ==
    ASSUME AnyRegistration, Types, Next
    PROVE  AnyRegistration'
<1>1. CASE Registers
  <2>1. RegistrationTypes' /\ phase' # "done"
    BY <1>1, RegisterTypes, NothingAfterDone DEF Types, Registers
  <2>2. Properties \subseteq AllProperties
    BY DEF Properties, AllProperties, AllKeys
  <2>3. Seq(Properties) \subseteq Seq(AllProperties)
    BY <2>2, SeqMonotonic
  <2> QED
    BY <2>1, <2>3 DEF RegistrationTypes, AnyRegistration
<1>2. CASE UNCHANGED registration
  BY <1>2 DEF registration, AnyRegistration
<1> QED
  BY <1>1, <1>2, OnlyRegistersRegisters

(* Nothing else on the page does.                                          *)
LEMMA OnlyPageRegisters == Browser!Next => Browser!Registers \/ UNCHANGED << testSuites, prototypes >>
BY DEF Browser!Next, Browser!Open, Browser!ScriptEnds, Browser!RunTestsInBrowser, Browser!Stuck,
       Browser!SkipTest, Browser!StartTest, Browser!NoHeader, Browser!ReportFailure,
       Browser!TestReturns, Browser!TestEscapes, Browser!EscapesUndescribed, Browser!Concluded,
       Browser!registration

-----------------------------------------------------------------------------
(* The process while the page runs                                         *)

(* The process has exited by then, without running a test itself.          *)
PageStep == PageWritten /\ Browser!Next /\ UNCHANGED native

Process == Result /\ Types /\ Writes /\ Reports /\ Covered

LEMMA ProcessInit == Init => Process
BY ResultInit, TypesInit, WritesInit, ReportsInit, CoveredInit DEF Process

LEMMA ProcessNext == Process /\ [Next]_vars => Process'
BY ResultNext, TypesNext, WritesNext, ReportsNext, CoveredNext DEF Process

LEMMA ProcessUnderPage ==
    ASSUME Process, AnyRegistration, PageStep
    PROVE  Process'
<1>0. /\ UNCHANGED << flags, phase, position, test, report, results, files, exit, history >>
      /\ flags.html /\ phase = "done"
  BY DEF PageStep, native, PageWritten, Process, Result
<1>1. AnyRegistration' /\ Len(testSuites) <= Len(testSuites')
  <2>1. Len(testSuites) <= Len(testSuites)
    BY LenProperties DEF AnyRegistration
  <2> QED
    BY <2>1, PageRegisters, OnlyPageRegisters DEF PageStep, AnyRegistration
<1>2. Result'
  BY <1>0 DEF Process, Result, Undecided, Decided, AllPassed, NoneRun, ExitStatus, position,
              report, results, history
<1>3. Types'
  <2>1. RegistrationTypes'
    BY <1>0, <1>1 DEF AnyRegistration, RegistrationTypes
  <2>2. PositionTypes'
    <3>1. PICK n \in Nat, m \in Nat : n = Len(testSuites) /\ m = Len(testSuites') /\ n <= m
      BY <1>1, LenProperties DEF AnyRegistration
    <3>2. suite' \in 0..m
      BY <1>0, <3>1 DEF Process, Types, PositionTypes, position
    <3> QED
      BY <1>0, <3>1, <3>2 DEF Process, Types, PositionTypes, position
  <2>3. TestTypes' /\ ReportTypes'
    BY <1>0 DEF Process, Types, TestTypes, ReportTypes, report, results, history
  <2> QED
    BY <2>1, <2>2, <2>3 DEF Types
<1>4. Writes'
  BY <1>0 DEF Process, Writes, Undecided, Decided, Opened, Complete, Writing, Wanted, File, NoneRun,
              AskedFor, Expected, CanExtractCoverage, results, history
<1>5. Reports'
  BY <1>0, SameReports DEF Process, report, results, history
<1>6. Covered'
  <2>1. planned' = {} /\ suite' = 0 /\ visited' = visited
    BY <1>0 DEF Process, Covered, position, history
  <2>2. visited = {}
    <3>1. visited = {testSuites[j] : j \in 1..suite} /\ suite = 0
      BY <1>0 DEF Process, Covered
    <3>2. 1..0 = {}
      OBVIOUS
    <3> QED
      BY <3>1, <3>2
  <2>3. {testSuites'[j] : j \in 1..suite'} = {}
    BY <2>1
  <2> QED
    BY <1>0, <2>1, <2>2, <2>3 DEF Covered
<1> QED
  BY <1>2, <1>3, <1>4, <1>5, <1>6 DEF Process

-----------------------------------------------------------------------------
(* Headers                                                                 *)

Classes == {"none", "plain", "running", "skip", "pass", "fail"}
Told == {"pass", "fail", "skip"}
Having(h, C) == {i \in DOMAIN h : h[i] \in C}
Marked(h, n, c) == [h EXCEPT ![n] = c]

LEMMA HavingFinite ==
    ASSUME NEW h \in Seq(Classes), NEW C
    PROVE  IsFiniteSet(Having(h, C)) /\ Cardinality(Having(h, C)) \in Nat
<1>1. PICK n \in Nat : DOMAIN h = 1..n
  BY LenProperties
<1>2. IsFiniteSet(1..n)
  BY FS_Interval
<1>3. Having(h, C) \subseteq 1..n
  BY <1>1 DEF Having
<1>4. IsFiniteSet(Having(h, C))
  BY <1>2, <1>3, FS_Subset
<1> QED
  BY <1>4, FS_CardinalityType

(* A header that is given another class.                                   *)
LEMMA HavingChanges ==
    ASSUME NEW h \in Seq(Classes), NEW n \in DOMAIN h, NEW c \in Classes, NEW C, h[n] \notin C
    PROVE  Cardinality(Having(Marked(h, n, c), C))
             = IF c \in C THEN Cardinality(Having(h, C)) + 1 ELSE Cardinality(Having(h, C))
<1> DEFINE g == Marked(h, n, c)
<1>1. DOMAIN g = DOMAIN h /\ g[n] = c /\ \A i \in DOMAIN h : i # n => g[i] = h[i]
  BY DEF Marked
<1> HIDE DEF g
<1>2. n \notin Having(h, C)
  BY DEF Having
<1>3. CASE c \in C
  <2>1. Having(g, C) = Having(h, C) \cup {n}
    BY <1>1, <1>3 DEF Having
  <2>2. IsFiniteSet(Having(h, C))
    BY HavingFinite
  <2>3. Cardinality(Having(h, C) \cup {n}) = Cardinality(Having(h, C)) + 1
    BY <1>2, <2>2, FS_AddElement
  <2> QED
    BY <1>3, <2>1, <2>3 DEF g
<1>4. CASE c \notin C
  <2>1. Having(g, C) = Having(h, C)
    BY <1>1, <1>4 DEF Having
  <2> QED
    BY <1>4, <2>1 DEF g
<1> QED
  BY <1>3, <1>4

LEMMA ChangedHeader ==
    ASSUME NEW h \in Seq(Classes), NEW n \in DOMAIN h, NEW c \in Classes
    PROVE  [h EXCEPT ![n] = c] \in Seq(Classes) /\ Len([h EXCEPT ![n] = c]) = Len(h)
BY ExceptSeq, LenProperties

(* As many tests were run as passed if and only if none failed.            *)
LEMMA NoneFailed ==
    ASSUME NEW h \in Seq(Classes)
    PROVE  Cardinality(Having(h, Told)) = Cardinality(Having(h, {"pass", "skip"}))
             <=> ~\E i \in DOMAIN h : h[i] = "fail"
<1>1. IsFiniteSet(Having(h, Told))
  BY HavingFinite
<1>2. Having(h, {"pass", "skip"}) \subseteq Having(h, Told)
  BY DEF Having, Told
<1>3. Cardinality(Having(h, Told)) = Cardinality(Having(h, {"pass", "skip"}))
        => Having(h, Told) = Having(h, {"pass", "skip"})
  BY <1>1, <1>2, FS_Subset
<1>4. Having(h, Told) = Having(h, {"pass", "skip"}) <=> ~\E i \in DOMAIN h : h[i] = "fail"
  BY DEF Having, Told
<1> QED
  BY <1>3, <1>4

(* The tests with a verdict are those that passed or were skipped, and     *)
(* those that failed.                                                      *)
LEMMA FailedCounted ==
    ASSUME NEW h \in Seq(Classes)
    PROVE  Cardinality(Having(h, Told))
             = Cardinality(Having(h, {"pass", "skip"})) + Cardinality(Having(h, {"fail"}))
<1> DEFINE P == Having(h, {"pass", "skip"})
           F == Having(h, {"fail"})
<1>1. IsFiniteSet(P) /\ Cardinality(P) \in Nat /\ IsFiniteSet(F) /\ Cardinality(F) \in Nat
  BY HavingFinite
<1>2. Having(h, Told) = P \cup F /\ P \cap F = {}
  BY DEF Having, Told
<1> HIDE DEF P, F
<1>3. Cardinality(P \cup F) = Cardinality(P) + Cardinality(F) - Cardinality(P \cap F)
  BY <1>1, FS_Union
<1>4. Cardinality(P \cap F) = 0
  BY <1>2, FS_EmptySet
<1> QED
  BY <1>1, <1>2, <1>3, <1>4 DEF P, F

-----------------------------------------------------------------------------
(* The page                                                                *)

PageCases == [suite : Suites, key : AllKeys, enabled : BOOLEAN]

PageTypes ==
    /\ stage \in {"closed", "loading", "waiting", "test", "over", "stuck"}
    /\ loaded \in 0..NumScripts
    /\ cases \in Seq(PageCases)
    /\ header \in Seq(Classes)
    /\ Len(header) = Len(cases)
    /\ taken \in 0..Len(cases)
    /\ stage \in {"waiting", "test"} => taken > 0
    /\ status \in [class : {"none", "running", "pass", "fail"}, run : Nat, passed : Nat]

VerdictAt(i) == Browser!Verdict(i)

(* The tests taken off the list before the current one have their verdict  *)
(* in their headers, and the others have none and reported no failure; the *)
(* numbers count those verdicts.                                           *)
Headers ==
    /\ \A i \in DOMAIN header :
          /\ i < taken => header[i] = VerdictAt(i)
          /\ i > taken => header[i] \in {"plain", "none"} /\ i \notin flawed
          /\ i = taken /\ stage # "over" => header[i] \notin Told
    /\ stage \in {"closed", "loading"} => header = << >> /\ flawed = {}
    /\ stage = "waiting" => header[taken] \in {"plain", "none"} /\ taken \notin flawed
    /\ stage = "test" => /\ header[taken] = "running"
                         /\ cases[taken].enabled
                         /\ failure <=> taken \in flawed
    /\ stage = "over" => \A i \in DOMAIN header : header[i] = VerdictAt(i)
    /\ status.run = Cardinality(Having(header, Told))
    /\ status.passed = Cardinality(Having(header, {"pass", "skip"}))
    /\ status.class \in {"pass", "fail"} =>
          stage = "over" /\ (status.class = "fail" <=> \E i \in DOMAIN header : header[i] = "fail")

LEMMA InstanceCardinality == \A S : Browser!Cardinality(S) = Cardinality(S)
BY Zenon DEF Browser!Cardinality, Cardinality

LEMMA PageGivesTypeOK == PageTypes => Browser!TypeOK
<1> SUFFICES ASSUME PageTypes PROVE Browser!TypeOK
  OBVIOUS
<1>1. Browser!Elements(header) \subseteq Classes
  BY InstanceElements, ElementsIn DEF PageTypes
<1> QED
  BY <1>1 DEF PageTypes, Browser!TypeOK, Classes

LEMMA VerdictTold == \A i : VerdictAt(i) \in Told
BY DEF VerdictAt, Browser!Verdict, Told

LEMMA HeadersGiveHonesty == PageTypes /\ Headers => PageHonest
<1> SUFFICES ASSUME PageTypes, Headers PROVE PageHonest
  OBVIOUS
<1>1. Browser!FailedHeaders = Having(header, {"fail"})
  BY DEF Browser!FailedHeaders, Having
<1>2. status.run - status.passed = Browser!Cardinality(Browser!FailedHeaders)
  <2>1. PICK h : h = header /\ h \in Seq(Classes)
    BY DEF PageTypes
  <2>2. PICK run \in Nat, passed \in Nat, failed \in Nat :
          /\ run = Cardinality(Having(h, Told))
          /\ passed = Cardinality(Having(h, {"pass", "skip"}))
          /\ failed = Cardinality(Having(h, {"fail"}))
    BY <2>1, HavingFinite
  <2>3. run = passed + failed
    BY <2>1, <2>2, FailedCounted
  <2>4. status.run = run /\ status.passed = passed
    BY <2>1, <2>2 DEF Headers
  <2>5. Browser!Cardinality(Browser!FailedHeaders) = failed
    BY <1>1, <2>1, <2>2, InstanceCardinality
  <2> QED
    BY <2>3, <2>4, <2>5
<1>3. ASSUME status.class \in {"pass", "fail"}
      PROVE  /\ \A i \in DOMAIN header : header[i] = VerdictAt(i)
             /\ status.class = "fail" <=> Browser!FailedHeaders # {}
  BY <1>1, <1>3 DEF Headers, Having
<1>4. ASSUME NEW i \in DOMAIN header
      PROVE  /\ i < taken \/ status.class \in {"pass", "fail"} => header[i] = VerdictAt(i)
             /\ header[i] \in Told => header[i] = VerdictAt(i)
  <2>1. i \in Nat /\ taken \in Nat
    BY LenProperties DEF PageTypes
  <2>2. i < taken \/ i = taken \/ i > taken
    BY <2>1
  <2> QED
    BY <1>3, <2>2 DEF Headers, Told
<1>5. Browser!Verdicts = Told
  BY DEF Browser!Verdicts, Told
<1> QED
  BY <1>2, <1>3, <1>4, <1>5 DEF PageHonest, Browser!PageHonest, VerdictAt

LEMMA PageInit == Browser!Init => PageTypes /\ Headers
<1> SUFFICES ASSUME Browser!Init PROVE PageTypes /\ Headers
  OBVIOUS
<1>1. NumScripts \in Nat
  BY BoundsAssumption
<1>2. header = << >> /\ cases = << >> /\ taken = 0 /\ stage = "closed" /\ loaded = 0
      /\ status = [class |-> "none", run |-> 0, passed |-> 0] /\ flawed = {}
  BY DEF Browser!Init
<1>3. \A C : Having(header, C) = {}
  BY <1>2 DEF Having
<1>4. Cardinality({}) = 0
  BY FS_EmptySet
<1>5. Len(<< >>) = 0 /\ << >> \in Seq(Classes) /\ << >> \in Seq(PageCases)
  OBVIOUS
<1>6. PageTypes
  BY <1>1, <1>2, <1>5 DEF PageTypes
<1>7. \A i \in DOMAIN header : FALSE
  BY <1>2
<1>8. Cardinality(Having(header, Told)) = 0 /\ Cardinality(Having(header, {"pass", "skip"})) = 0
  BY <1>3, <1>4
<1>9. Headers
  BY <1>2, <1>7, <1>8 DEF Headers
<1> QED
  BY <1>6, <1>9

LEMMA AllCasesTypes ==
    ASSUME AnyRegistration
    PROVE  Browser!AllCases \in Seq(PageCases)
<1>0. testSuites \in Seq(Suites) /\ prototypes \in [Suites -> Seq(AllProperties)]
  BY DEF AnyRegistration
<1>1. ASSUME NEW s, NEW T PROVE Browser!Only(s, T) = Only(s, T)
  BY DEF Browser!Only, Only
<1>2. ASSUME NEW s \in Suites PROVE Browser!GetTestFunctions(s) \in Seq(AllProperties)
  <2>1. PICK p, T : /\ p = prototypes[s]
                    /\ Browser!GetTestFunctions(s) = Browser!Only(p, T)
    BY DEF Browser!GetTestFunctions
  <2>2. p \in Seq(AllProperties)
    BY <1>0, <2>1
  <2>3. Only(p, T) \in Seq(AllProperties \cap T)
    BY <2>2, OnlyIn
  <2>4. Only(p, T) \in Seq(AllProperties)
    BY <2>3, SeqMonotonic
  <2> QED
    BY <1>1, <2>1, <2>4
<1>3. ASSUME NEW s \in Suites PROVE Browser!CasesOf(s) \in Seq(PageCases)
  <2>1. PICK t : t = Browser!GetTestFunctions(s)
    OBVIOUS
  <2>2. t \in Seq(AllProperties)
    BY <1>2, <2>1
  <2>3. PICK n \in Nat : n = Len(t) /\ DOMAIN t = 1..n
    BY <2>2, LenProperties
  <2>4. \A i \in 1..n : t[i] \in AllProperties
    BY <2>2, <2>3, ElementOfSeq
  <2>5. \A i \in 1..n : Browser!TestCase(s, t[i]) \in PageCases
    BY <2>4 DEF Browser!TestCase, PageCases, AllProperties
  <2>6. Browser!CasesOf(s) = [i \in 1..n |-> Browser!TestCase(s, t[i])]
    BY <2>1, <2>3 DEF Browser!CasesOf
  <2> QED
    BY <2>5, <2>6
<1>4. PICK n \in Nat : n = Len(testSuites) /\ DOMAIN testSuites = 1..n
  BY <1>0, LenProperties
<1>5. PICK lists : lists = [i \in 1..n |-> Browser!CasesOf(testSuites[i])]
  OBVIOUS
<1>6. \A i \in 1..n : testSuites[i] \in Suites
  BY <1>0, <1>4, ElementOfSeq
<1>7. \A i \in 1..n : lists[i] \in Seq(PageCases)
  BY <1>3, <1>5, <1>6
<1>8. Len(lists) = n
  <2>1. lists \in Seq(Seq(PageCases))
    BY <1>5, <1>7
  <2>2. DOMAIN lists = 1..n /\ DOMAIN lists = 1..Len(lists) /\ Len(lists) \in Nat
    BY <1>5, <2>1, LenProperties
  <2> QED
    BY <2>2
<1>9. Together(lists) \in Seq(PageCases)
  BY <1>7, <1>8, TogetherIn
<1>10. Browser!Together(lists) = Together(lists)
  BY DEF Browser!Together, Together
<1>11. Browser!AllCases = Browser!Together(lists)
  BY <1>4, <1>5 DEF Browser!AllCases
<1> QED
  BY <1>9, <1>10, <1>11

(* Steps that leave the headers alone.                                     *)
LEMMA PageSame ==
    ASSUME PageTypes, Headers,
           UNCHANGED << cases, taken, header, failure, status, flawed >>,
           loaded' \in 0..NumScripts,
           stage \in {"closed", "loading", "waiting", "test"},
           \/ stage' = "stuck"
           \/ stage' = stage
           \/ stage = "closed" /\ stage' = "loading"
    PROVE  PageTypes' /\ Headers'
<1>1. PageTypes'
  BY DEF PageTypes
<1>2. \A i : VerdictAt(i)' = VerdictAt(i)
  BY DEF VerdictAt, Browser!Verdict
<1>3. Headers'
  BY <1>2 DEF Headers
<1> QED
  BY <1>1, <1>3

LEMMA PageStarts ==
    ASSUME AnyRegistration, PageTypes, Headers, stage = "loading",
           cases' = Browser!AllCases,
           header' = [i \in DOMAIN Browser!AllCases |->
                         IF Browser!OnPage(Browser!AllCases[i].suite) THEN "plain" ELSE "none"],
           status' = [class |-> "running", run |-> 0, passed |-> 0],
           Browser!RunOneTest(Len(Browser!AllCases)), UNCHANGED << loaded, flawed >>
    PROVE  PageTypes' /\ Headers'
<1>1. PICK n \in Nat : n = Len(cases') /\ DOMAIN cases' = 1..n /\ cases' \in Seq(PageCases)
  BY AllCasesTypes, LenProperties
<1>2. taken = 0
  <2>1. header = << >> /\ Len(header) = 0
    BY DEF Headers
  <2> QED
    BY <2>1 DEF PageTypes
<1>3. /\ DOMAIN header' = 1..n
      /\ \A i \in 1..n : header'[i] \in {"plain", "none"}
  BY <1>1
<1>4. header' \in Seq(Classes) /\ Len(header') = n
  <2>1. PICK h : h = header'
    OBVIOUS
  <2>2. h = [i \in 1..n |-> h[i]] /\ \A i \in 1..n : h[i] \in Classes
    BY <1>1, <1>3, <2>1 DEF Classes
  <2>3. h \in Seq(Classes)
    BY <2>2
  <2>4. DOMAIN h = 1..Len(h) /\ Len(h) \in Nat
    BY <2>3, LenProperties
  <2> QED
    BY <1>3, <2>1, <2>3, <2>4
<1>5. Having(header', Told) = {} /\ Having(header', {"pass", "skip"}) = {} /\ Cardinality({}) = 0
  BY <1>3, FS_EmptySet DEF Having, Told
<1>6. \/ 0 < n /\ taken' = 1 /\ stage' = "waiting"
      \/ n = 0 /\ taken' = 0 /\ stage' = "over"
  BY <1>1, <1>2 DEF Browser!RunOneTest
<1>7. PageTypes'
  BY <1>1, <1>4, <1>6 DEF PageTypes
<1>8. /\ status'.run = 0 /\ status'.passed = 0 /\ status'.class = "running"
      /\ \A i \in 1..n : i \notin flawed' /\ header'[i] \notin Told
  BY <1>3 DEF Headers, Told
<1>9. CASE 0 < n /\ taken' = 1 /\ stage' = "waiting"
  <2>1. \A i \in 1..n : ~(i < taken')
    BY <1>9
  <2>2. header'[taken'] \in {"plain", "none"}
    BY <1>3, <1>9
  <2> QED
    BY <1>3, <1>5, <1>7, <1>8, <1>9, <2>1, <2>2 DEF Headers
<1>10. CASE n = 0 /\ taken' = 0 /\ stage' = "over"
  <2>1. \A i \in DOMAIN header' : FALSE
    BY <1>3, <1>10
  <2> QED
    BY <1>5, <1>7, <1>8, <1>10, <2>1 DEF Headers
<1> QED
  BY <1>6, <1>9, <1>10

(* The test is taken, and its header marked.                               *)
LEMMA HeaderMarked ==
    ASSUME PageTypes, Headers, stage = "waiting", stage' = "test",
           cases[taken].enabled, ~failure',
           header' = [header EXCEPT ![taken] = "running"],
           UNCHANGED << loaded, cases, taken, status, flawed >>
    PROVE  PageTypes' /\ Headers'
<1>1. PICK n \in Nat : n = Len(header) /\ n = Len(cases) /\ DOMAIN header = 1..n
  BY LenProperties DEF PageTypes
<1>2. header \in Seq(Classes) /\ taken \in 1..n /\ taken \in DOMAIN header
  BY <1>1 DEF PageTypes
<1>3. header' \in Seq(Classes) /\ Len(header') = n
  BY <1>1, <1>2, ChangedHeader DEF Classes
<1>4. DOMAIN header' = 1..n /\ header'[taken] = "running"
      /\ \A i \in 1..n : i # taken => header'[i] = header[i]
  BY <1>1, <1>2
<1>5. header[taken] \notin Told /\ header[taken] \notin {"pass", "skip"}
  BY DEF Headers, Told
<1>6. /\ Having(header', Told) = Having(header, Told)
      /\ Having(header', {"pass", "skip"}) = Having(header, {"pass", "skip"})
  BY <1>1, <1>4, <1>5 DEF Having, Told
<1>7. PageTypes'
  BY <1>1, <1>2, <1>3 DEF PageTypes
<1>8. \A i \in 1..n : /\ VerdictAt(i)' = VerdictAt(i)
                      /\ i < taken => header'[i] = VerdictAt(i)
                      /\ i > taken => header'[i] \in {"plain", "none"} /\ i \notin flawed
                      /\ i = taken => header'[i] \notin Told
  BY <1>1, <1>2, <1>4 DEF Headers, VerdictAt, Browser!Verdict, Told
<1>9. taken \notin flawed /\ status.class \notin {"pass", "fail"}
  BY DEF Headers
<1>10. Headers'
  BY <1>1, <1>2, <1>4, <1>6, <1>8, <1>9 DEF Headers
<1> QED
  BY <1>7, <1>10

(* The test has its result, and the next one is taken.                     *)
LEMMA PageConcluded ==
    ASSUME PageTypes, Headers, stage \in {"waiting", "test"}, NEW c \in Told,
           flawed' = flawed \/ flawed' = flawed \cup {taken},
           c = IF ~cases[taken].enabled THEN "skip"
               ELSE IF taken \in flawed' THEN "fail" ELSE "pass",
           Browser!Concluded(c)
    PROVE  PageTypes' /\ Headers'
<1>1. PICK n \in Nat : n = Len(header) /\ n = Len(cases) /\ DOMAIN header = 1..n
  BY LenProperties DEF PageTypes
<1>2. header \in Seq(Classes) /\ taken \in 1..n /\ taken \in DOMAIN header /\ c \in Classes
  BY <1>1 DEF PageTypes, Told, Classes
<1>3. /\ header' = [header EXCEPT ![taken] = c]
      /\ UNCHANGED << loaded, cases >>
      /\ \/ taken < n /\ taken' = taken + 1 /\ stage' = "waiting"
         \/ taken = n /\ taken' = taken /\ stage' = "over"
  BY <1>1, <1>2 DEF Browser!Concluded, Browser!RunOneTest
<1>4. header' \in Seq(Classes) /\ Len(header') = n
  BY <1>1, <1>2, <1>3, ChangedHeader
<1>5. DOMAIN header' = 1..n /\ header'[taken] = c
      /\ \A i \in 1..n : i # taken => header'[i] = header[i]
  BY <1>1, <1>2, <1>3
<1>6. header[taken] \notin Told /\ header[taken] \notin {"pass", "skip"}
  BY DEF Headers, Told
<1>7. PICK h, g : h = header /\ g = header'
  OBVIOUS
<1>8. Cardinality(Having(header', Told)) = status.run + 1
  <2>1. Cardinality(Having(g, Told)) = Cardinality(Having(h, Told)) + 1
    <3>1. /\ h \in Seq(Classes) /\ taken \in DOMAIN h /\ c \in Classes /\ h[taken] \notin Told
          /\ g = Marked(h, taken, c)
      BY <1>2, <1>3, <1>6, <1>7 DEF Marked
    <3> QED
      BY <3>1, HavingChanges
  <2> QED
    BY <1>7, <2>1 DEF Headers
<1>9. Cardinality(Having(header', {"pass", "skip"}))
        = IF c = "fail" THEN status.passed ELSE status.passed + 1
  <2>1. Cardinality(Having(g, {"pass", "skip"}))
          = IF c \in {"pass", "skip"} THEN Cardinality(Having(h, {"pass", "skip"})) + 1
            ELSE Cardinality(Having(h, {"pass", "skip"}))
    <3>1. /\ h \in Seq(Classes) /\ taken \in DOMAIN h /\ c \in Classes
          /\ h[taken] \notin {"pass", "skip"}
          /\ g = Marked(h, taken, c)
      BY <1>2, <1>3, <1>6, <1>7 DEF Marked
    <3> QED
      BY <3>1, HavingChanges
  <2> QED
    BY <1>7, <2>1 DEF Headers, Told
<1>10. PICK run \in Nat, passed \in Nat :
         /\ run = status.run + 1
         /\ passed = IF c = "fail" THEN status.passed ELSE status.passed + 1
  BY DEF PageTypes
<1>11. /\ status' = [class |-> IF taken # n THEN status.class
                               ELSE IF run = passed THEN "pass" ELSE "fail",
                     run |-> run, passed |-> passed]
  BY <1>1, <1>10 DEF Browser!Concluded, Browser!UpdateStatus, Browser!Done
<1>12. \A i \in 1..n :
          /\ i <= taken => header'[i] = VerdictAt(i)'
          /\ i > taken => header'[i] \in {"plain", "none"} /\ i \notin flawed'
  <2>1. \A i \in 1..n : i # taken => VerdictAt(i)' = VerdictAt(i)
    BY <1>3 DEF VerdictAt, Browser!Verdict
  <2>2. \A i \in 1..n : i = taken => VerdictAt(i)' = c
    BY <1>3 DEF VerdictAt, Browser!Verdict
  <2>3. \A i \in 1..n :
           /\ i < taken => header'[i] = VerdictAt(i)'
           /\ i > taken => header'[i] \in {"plain", "none"} /\ i \notin flawed'
    BY <1>1, <1>2, <1>5, <2>1 DEF Headers
  <2>4. \A i \in 1..n : i <= taken => i < taken \/ i = taken
    BY <1>2
  <2> QED
    BY <1>5, <2>2, <2>3, <2>4
<1>13. PageTypes'
  <2>1. status' \in [class : {"none", "running", "pass", "fail"}, run : Nat, passed : Nat]
    BY <1>10, <1>11 DEF PageTypes
  <2>2. taken' \in 0..n /\ taken' > 0
    BY <1>2, <1>3
  <2>3. Len(cases') = n /\ cases' \in Seq(PageCases) /\ loaded' \in 0..NumScripts
    <3>1. cases' = cases /\ loaded' = loaded
      BY <1>3
    <3>2. Len(cases) = n /\ cases \in Seq(PageCases) /\ loaded \in 0..NumScripts
      BY <1>1, Zenon DEF PageTypes
    <3> QED
      BY <3>1, <3>2, Zenon
  <2>4. stage' \in {"waiting", "over"}
    BY <1>3
  <2> QED
    BY <1>4, <2>1, <2>2, <2>3, <2>4 DEF PageTypes
<1>14. status'.run = Cardinality(Having(header', Told))
       /\ status'.passed = Cardinality(Having(header', {"pass", "skip"}))
  BY <1>8, <1>9, <1>10, <1>11
<1>15. CASE taken < n
  <2>1. taken' = taken + 1 /\ stage' = "waiting" /\ taken' \in 1..n
    BY <1>2, <1>3, <1>15
  <2>2. \A i \in 1..n :
           /\ i < taken' => header'[i] = VerdictAt(i)'
           /\ i >= taken' => header'[i] \in {"plain", "none"} /\ i \notin flawed'
    BY <1>2, <1>12, <2>1
  <2>3. status'.class \notin {"pass", "fail"}
    BY <1>2, <1>11, <1>15 DEF Headers
  <2>4. \A i \in 1..n :
           /\ i > taken' => header'[i] \in {"plain", "none"} /\ i \notin flawed'
           /\ i = taken' => header'[i] \in {"plain", "none"} /\ header'[i] \notin Told
    BY <2>1, <2>2 DEF Told
  <2>5. header'[taken'] \in {"plain", "none"} /\ taken' \notin flawed'
    BY <2>1, <2>2
  <2>6. Headers'
    BY <1>5, <1>14, <2>1, <2>2, <2>3, <2>4, <2>5 DEF Headers
  <2> QED
    BY <1>13, <2>6
<1>16. CASE taken = n
  <2>1. taken' = n /\ stage' = "over"
    BY <1>2, <1>3, <1>16
  <2>2. \A i \in 1..n : i <= taken /\ header'[i] = VerdictAt(i)'
    BY <1>2, <1>12, <1>16
  <2>3. status'.class = "fail" <=> \E i \in DOMAIN header' : header'[i] = "fail"
    <3>1. run = passed <=> ~\E i \in DOMAIN header' : header'[i] = "fail"
      BY <1>4, <1>11, <1>14, NoneFailed
    <3> QED
      BY <1>11, <1>16, <3>1
  <2>4. \A i \in 1..n : /\ i < taken' => header'[i] = VerdictAt(i)'
                        /\ ~(i > taken')
    BY <1>2, <2>1, <2>2
  <2>5. Headers'
    BY <1>5, <1>14, <2>1, <2>2, <2>3, <2>4 DEF Headers
  <2> QED
    BY <1>13, <2>5
<1> QED
  BY <1>2, <1>15, <1>16

LEMMA PageNext ==
    ASSUME AnyRegistration, PageTypes, Headers, Browser!Next
    PROVE  PageTypes' /\ Headers'
<1>1. CASE Browser!Registers
  BY <1>1, PageSame DEF Browser!Registers, Browser!page, Browser!history, PageTypes
<1>2. CASE Browser!Open \/ Browser!ScriptEnds
  <2>1. /\ UNCHANGED << cases, taken, header, failure, status, flawed >>
        /\ stage \in {"closed", "loading"}
        /\ stage' = stage \/ (stage = "closed" /\ stage' = "loading")
    BY <1>2 DEF Browser!Open, Browser!ScriptEnds, Browser!history
  <2>2. loaded' \in 0..NumScripts
    <3>1. NumScripts \in Nat
      BY BoundsAssumption
    <3> QED
      BY <1>2, <3>1 DEF Browser!Open, Browser!ScriptEnds, PageTypes
  <2> QED
    BY <2>1, <2>2, PageSame
<1>3. CASE Browser!ReportFailure
  <2>1. /\ stage = "test" /\ failure' = TRUE /\ flawed' = flawed \cup {taken}
        /\ UNCHANGED << stage, loaded, cases, taken, header, status >>
    BY <1>3 DEF Browser!ReportFailure
  <2>2. PageTypes'
    BY <2>1 DEF PageTypes
  <2>3. \A i \in DOMAIN header :
           /\ i < taken => VerdictAt(i)' = VerdictAt(i)
           /\ i > taken => (i \in flawed' <=> i \in flawed)
    <3>1. \A i \in DOMAIN header : i < taken \/ i > taken => i # taken
      BY LenProperties DEF PageTypes
    <3> QED
      BY <2>1, <3>1 DEF VerdictAt, Browser!Verdict
  <2>4. Headers'
    BY <2>1, <2>3 DEF Headers
  <2> QED
    BY <2>2, <2>4
<1>4. CASE Browser!Stuck /\ UNCHANGED flawed /\ stage \in {"loading", "waiting", "test"}
  <2>1. /\ UNCHANGED << cases, taken, header, failure, status, flawed >> /\ stage' = "stuck"
        /\ loaded' \in 0..NumScripts
    BY <1>4 DEF Browser!Stuck, PageTypes
  <2> QED
    BY <1>4, <2>1, PageSame
<1>5. CASE Browser!RunTestsInBrowser
  BY <1>4, <1>5, PageStarts DEF Browser!RunTestsInBrowser, Browser!history
<1>6. CASE Browser!StartTest
  BY <1>6, HeaderMarked DEF Browser!StartTest, Browser!history
<1>7. CASE Browser!SkipTest
  BY <1>7, PageConcluded DEF Browser!SkipTest, Told
<1>8. CASE Browser!TestReturns
  <2>1. PICK c : c = IF failure THEN "fail" ELSE "pass"
    OBVIOUS
  <2>2. stage = "test" /\ Browser!Concluded(c) /\ flawed' = flawed
    BY <1>8, <2>1 DEF Browser!TestReturns
  <2>3. cases[taken].enabled /\ (failure <=> taken \in flawed)
    BY <2>2 DEF Headers
  <2> QED
    BY <2>1, <2>2, <2>3, PageConcluded DEF Told
<1>9. CASE Browser!TestEscapes
  <2>1. stage = "test" /\ Browser!Concluded("fail") /\ flawed' = flawed \cup {taken}
    BY <1>9 DEF Browser!TestEscapes
  <2>2. cases[taken].enabled
    BY <2>1 DEF Headers
  <2> QED
    BY <2>1, <2>2, PageConcluded DEF Told
<1>10. CASE Browser!NoHeader \/ Browser!EscapesUndescribed
  BY <1>4, <1>10 DEF Browser!NoHeader, Browser!EscapesUndescribed, Browser!history
<1> QED
  BY <1>1, <1>2, <1>5, <1>6, <1>7, <1>10, <1>3, <1>8, <1>9 DEF Browser!Next

-----------------------------------------------------------------------------
(* Both                                                                    *)

Both == Process /\ AnyRegistration /\ PageTypes /\ Headers

LEMMA BothInit == RunnersInit => Both
<1> SUFFICES ASSUME RunnersInit PROVE Both
  OBVIOUS
<1>1. Process /\ PageTypes /\ Headers
  BY ProcessInit, PageInit DEF RunnersInit
<1>2. testSuites = << >> /\ prototypes = [s \in Suites |-> << >>]
  BY DEF RunnersInit, Init, RegistrationInit
<1>3. AnyRegistration
  BY <1>2 DEF AnyRegistration
<1> QED
  BY <1>1, <1>3 DEF Both

LEMMA BothNext == Both /\ [RunnersNext]_all => Both'
<1> SUFFICES ASSUME Both, [RunnersNext]_all PROVE Both'
  OBVIOUS
<1>1. ASSUME UNCHANGED page PROVE PageTypes' /\ Headers'
  BY <1>1 DEF page, Both, PageTypes, Headers, VerdictAt, Browser!Verdict
<1>2. CASE Next /\ UNCHANGED page
  BY <1>1, <1>2, ProcessNext, NativeRegisters DEF Both, Process
<1>3. CASE PageStep
  <2>1. Process'
    BY <1>3, ProcessUnderPage DEF Both
  <2>2. PageTypes' /\ Headers'
    BY <1>3, PageNext DEF Both, PageStep
  <2>3. AnyRegistration'
    BY <1>3, PageRegisters, OnlyPageRegisters DEF Both, PageStep, AnyRegistration
  <2> QED
    BY <2>1, <2>2, <2>3 DEF Both
<1>4. CASE UNCHANGED all
  <2>1. UNCHANGED vars /\ UNCHANGED page
    BY <1>4 DEF all
  <2>2. AnyRegistration'
    BY <2>1 DEF vars, registration, Both, AnyRegistration
  <2> QED
    BY <1>1, <2>1, <2>2, ProcessNext DEF Both
<1> QED
  BY <1>2, <1>3, <1>4 DEF RunnersNext, PageStep

LEMMA BothInvariant == RunnersSpec => []Both
BY BothInit, BothNext, PTL DEF RunnersSpec

(* The process and the page keep their types, whatever is registered in    *)
(* either.                                                                 *)
THEOREM RunnersTypeCorrect == RunnersSpec => []RunnersTypeOK
<1>1. Both => RunnersTypeOK
  BY TypesGiveTypeOK, PageGivesTypeOK DEF Both, Process, RunnersTypeOK
<1> QED
  BY <1>1, BothInvariant, PTL

(* Each header of the page shows what became of its own test, after any    *)
(* number of tests that returned, threw, registered others or were skipped; *)
(* the line at the top counts the failures among them, and says pass or    *)
(* fail only when each has its verdict.                                    *)
THEOREM PageIsHonest == RunnersSpec => []PageHonest
<1>1. Both => PageHonest
  BY HeadersGiveHonesty DEF Both
<1> QED
  BY <1>1, BothInvariant, PTL

(* What is proved of the command line alone holds with a page beside it:   *)
(* its exit status, its reports, its files, and that nothing is forgotten. *)
THEOREM CommandLineCorrect ==
    RunnersSpec => [](ExitStatusHonest /\ ReportsAgree /\ NothingForgotten /\ FilesComplete)
<1>1. Both => ExitStatusHonest /\ ReportsAgree /\ NothingForgotten /\ FilesComplete
  BY ResultGivesExitStatus, ReportsGiveAgreement, CoveredGivesAll, WritesGiveFiles
     DEF Both, Process
<1> QED
  BY <1>1, BothInvariant, PTL
=============================================================================
