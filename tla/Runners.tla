------------------------------ MODULE Runners -------------------------------
(***************************************************************************)
(* The two runners: the command line, and a browser that opens the page it *)
(* wrote if it was asked for one.  The page and the process register what  *)
(* the scripts do in the same way, each for itself.                        *)
(***************************************************************************)
EXTENDS NativeRunner

CONSTANTS
    PageKeys,       \* names of tests in the browser
    PageSteps,      \* MaxSteps there
    Filters, Malformed

VARIABLES stage, loaded, filter, cases, taken, header, failure, status, undescribed, flawed

Browser == INSTANCE BrowserRunner WITH
    Keys <- PageKeys, Skipped <- {}, MaxSteps <- PageSteps

native == << flags, phase, position, test, report, results, files, exit, history >>
page == << stage, loaded, filter, cases, taken, header, failure, status, undescribed,
           flawed >>
all == << vars, page >>

RunnersInit == Init /\ Browser!Init

(* The page is in its file, and somebody opens it. *)
PageWritten == flags.html /\ exit = "0"

RunnersNext ==
    \/ Next /\ UNCHANGED page
    \/ PageWritten /\ Browser!Next /\ UNCHANGED native

(* The process goes on until it ends, and timers fire; scripts and tests   *)
(* come to an end.                                                         *)
RunnersSpec == RunnersInit /\ [][RunnersNext]_all /\ WF_all(RunnersNext)
-----------------------------------------------------------------------------
RunnersTypeOK == TypeOK /\ Browser!TypeOK

(* What the page says is what happened: see BrowserRunner. *)
PageHonest == Browser!PageHonest

(* A page that was written and opened comes to its pass or fail, but for   *)
(* the five reasons BrowserRunner names.                                   *)
PageConcludes == PageWritten ~> Browser!Settled
=============================================================================
