# A model of gjstest

gjstest runs unit tests written in JavaScript. A test registers with a suite,
makes mock functions, states what calls it expects, and is run by a native
program on top of V8 or by a page in a browser. These modules model what is hard
about that: code of the test's author runs in the middle of the framework's own
loops, exceptions cross the framework on their way out, and everything the
framework remembers is global to all the tests of a run.

## The system and its parts

| Part | Source | State | Operations |
|---|---|---|---|
| Mocking | `public/mocking.js`, `internal/js/mock_function.js`, `internal/js/call_expectation.js` | expectations; one list per mock function; the global list | `expectCall`, `times`, `willOnce`, `willRepeatedly`, a call, verification |
| Test execution | `internal/js/run_test.js`, `test_environment.js`, `expect_that.js`, `public/assertions.js` | the current environment, its user stack, the registered expectations | `runTest`, `expectThat`, `recordUserStack`, `clearUserStack`, `reportFailure` |
| Test cases | `internal/cpp/test_case.cc`, `internal/js/browser/run_tests.js` | success flag, result | `TestCase::Run`, `TestCase.run`, `runOneTest` |
| Registration | `public/register.js` | list of suites, prototypes | `registerTestSuite`, `addTest`, `getTestFunctions` |
| Native runner | `internal/cpp/run_tests.cc`, `gjstest.cc`, `file/file_utils.cc` | maps from test name to failure and duration; output; files | read and execute the scripts, run the suites, write XML, page and coverage, exit status |
| Browser page | `internal/js/browser/` | cases left to run, nodes by suite and test, status line | build the page, run a test per timer, update the page |
| V8 glue | `internal/cpp/v8_utils.cc` | none, except callbacks held by functions | execute a script, describe an error, make a function |
| Callbacks, scoped pointers | `base/callback.h`, `base/scoped_ptr.h` | the pointer of a one-shot callback; an owned pointer | make, run, destroy; reset, release, swap |
| Matchers | `public/matchers/`, `public/matcher_types.js` | none, except the objects on the path of a comparison | predicates, descriptions |
| Stringification | `public/stringify.js` | marks on the objects being described | `stringify` |
| Mock instances | `internal/js/mock_instance.js` | none | walk the prototype chain |
| XML writer | `webutil/xml/xml_writer.cc` | open elements, prefixes in scope, a flag for attributes | elements, attributes, namespaces, content |
| Strings | `strings/strutil.cc`, `base/stringprintf.cc` | none | escapes, splitting, joining, numbers |
| Slices, timers | `internal/js/slice.js`, `base/timer.cc` | buffers, a clock | copy, start and stop |

How they interact: a runner calls `runTest` for each registered test; `runTest`
sets the current environment and calls the author's code; that code calls
assertions and mock functions, which call back into it through matchers'
predicates and mocks' actions; failures go through the environment's
`reportFailure` to the runner; `runTest` verifies the registered expectations and
resets the globals. Mock functions keep the `reportFailure` of the test that
created them.

What makes each part correct, and what is hard about it:

* *Mocking*: a call goes to the newest expectation that takes it, is counted
  once, gets the right action; the verdict is what the configuration promised.
  Hard: predicates run in the middle of the search and actions before it
  returns; they may call the same mock, add expectations, or throw.
* *Test execution*: tests do not interfere; a failure is blamed on the right
  test and the right place; no failure is lost. Hard: exceptions that skip the
  clean-up, nested calls that share one user stack, callbacks that come late.
* *Runners*: every test gets a result; what is printed, written and returned
  tells what happened. Hard: duplicate names, suites without a prototype, tests
  that register tests, an empty run, a process that dies halfway, exceptions out
  of `runTest` in a timer's callback.
* *Callbacks*: nothing is run or freed twice, nothing is lost. Hard: one-shot and
  permanent ones have the same type, and what one calls may drop its owner.
* *Matchers, stringification*: they end on any object graph and leave the
  objects as they found them. Hard: cycles, exceptions halfway.
* *XML writer*: every name is read as what the caller meant. Hard: made-up
  prefixes against chosen ones, what libxml2 drops without a word.
* *Strings*: what is printed is read back as the same, on every platform and in
  every locale. Hard: boundaries of number of digits, widths and buffers.

## The modules

| Module | Models | Composes |
|---|---|---|
| `CallExpectations` | `call_expectation.js`: the record, the check of the count, the check of the arguments, as operators | |
| `Mocking` | one test with mock functions: configuration, search, actions, verification | extends `CallExpectations`, refines `MockContract` |
| `MockContract` | what mocking promises: ranges of counts, and a verdict | |
| `TestExecution` | a sequence of tests: `runTest`, environments, assertions, late callbacks, the case wrapper of either runner | |
| `Selections` | selecting from lists, and putting lists one behind the other, as functions that come without parameters of operators | |
| `Registration` | suites and the properties of their prototypes | extends `Selections` |
| `NativeRunner` | the command-line program from its flags to its exit status | extends `Registration` |
| `BrowserRunner` | the page from its onload handler to its status | extends `Registration` |
| `Runners` | the program writes a page, the page is opened | extends `NativeRunner`, instantiates `BrowserRunner` |
| `CallbackBlocks` | the generated classes of `callback.h`: what each stores, takes and passes | |
| `Callbacks` | the life of callbacks and of the `scoped_ptr`s that own them | extends `CallbackBlocks` |
| `PrefixNames` | the numerals of made-up prefixes | |
| `PrefixMapper` | which prefix a namespace has, as operators on a mapper | |
| `XmlWriter` | documents, elements, attributes, namespaces | extends `PrefixMapper` |
| `Strutil` | replacing, splitting, joining, stripping, C escapes | |
| `Numerals` | numbers to text and back, the locale's radix mark, the growing buffer | |
| `ObjectGraphs` | cycles, recursive equality, the marks of `stringify`, on heaps | |
| `ArraySlice` | the bounds of `slice()` | |
| `MCMocking`, `MCTestExecution`, `MCRunners`, `MCCallbacks`, `MCXmlWriter`, `MCLibrary` | values for the runs; `MCLibrary` also generates the inputs of the algorithms and states what they should compute | extend the modules they check |
| `MockingProofs`, `TestExecutionProofs`, `RunnersProofs`, `CallbackProofs`, `XmlWriterProofs` | theorems | extend the modules they are about |
| `LibraryProofs`, `GraphProofs` | theorems about the algorithms: on numbers, texts and buffers; on heaps | extend `MCLibrary` |
| `SelectionProofs` | induction over lists, and lemmas about `Selections` | extended by `RunnersProofs`, `LibraryProofs` and `GraphProofs` |

### Mocking

`stack` holds the JavaScript frames that matter. A mock function's frame
(`role = "call"`) carries the position of its loop (`next` is `i + 1`, 0 when the
loop is over). `AskPredicate` pushes a frame of the author's on top of it, in
which every author's action is possible. `NoMatch` is one turn of the loop. `MatchOnce`,
`MatchFallback` and `MatchEmpty` are the three exits of `consumeAction_`,
each with the increment of the count before it; since the code does nothing
after `actionFunc.apply`, the action's frame replaces the search's. `Unexpected`
is the end of the loop. An exception (`Throw`) leaves the author's frame
and the search it interrupts, then the next author's frame decides whether to throw
on; for the test's own frame this is the `catch` of `runTest`. `Verify` is
`runTest` from the verification on.

A matcher is a record: the values it accepts, whether it understands missing
arguments, and whether it runs code of the author's. Its answer about a value is
always the same; predicates with a memory are left out. `calls` and `credits` are
history variables, which no guard reads except the bound on calls and
`Top.call`, through which a search finds its own arguments.

`MockContract` has no lists and no search. A promise about the number of calls
may be amended by a further one-time action or a fallback until it is settled; each call is
credited to at most one promise; the test passes iff nothing failed and all
promises are kept. `ContractSpec` maps an expectation's fields to its promise.

### TestExecution

`runTest` is `StartTest`, then the author's steps, then `CatchException` or
`VerifyExpectations`, then `Conclude` for the runner's part. An exception is a
record: how often in a row describing it throws (its *hostility*), whether it is
`null` or `undefined` (*nullish*), and the calls of gjstest it came through. A nullish
value can be described, but `getErrorStack` reads its `stack`, which throws a `TypeError`; that is
done only if no user stack is recorded (`ReadsStack`). So there are two ways out of `runTest` before
its last lines: a hostile value, and a nullish one. `userStack` of an environment is the number of the
call that recorded it. `expectThat` records, asks the predicate (which may be
the author's code and call gjstest again), reports and clears; an exception
skips the rest, as in the code. `AssertionIndescribable` and `CallIndescribable` are failures
that report nothing, since describing them throws. `Stub` is the second half of
`expectCall(f)(...)`: it needs no environment, so it can run late. `LateCallback`
is a promise's callback, which V8 runs before the call of `runTest` returns to
C++, or, in a browser, any callback between two tests. That V8 runs
promise callbacks then is taken from its default policy: the repository does
not set another one. `failed` is the flag of the test case. Three histories serve the properties: `reports`;
`left`, the calls that an exception, which is over, has left since a user stack was recorded or cleared; and
`unsaid`, the tests in which a failure could not be described and what that threw has not been swallowed.
`Hosts` says which runner calls `runTest` and whether tests use the mock
functions of others; `Init` takes one of them. In the native runner a mock
function of an earlier test holds a `reportFailure` whose `std::function` was a
local variable of an earlier `TestCase::Run`; `CallbackGone` is when that has
returned.

### Runners

`NativeRunner` follows `main` and `Run` through `phase`: the scripts are read and
executed, the suites and their tests run, then the output is printed, the XML and the
coverage written, and the process exits. Full names are apart from identities:
`NameOf` may give two suites one name, and then two tests have one full name,
which the maps of failures and durations refuse. A process that
dies (`Die`, `exit = "died"`) has lost what it had not printed. Scripts and tests
may register suites and add tests at any time, scripts also assign to prototypes (`Registers`), within `MaxSteps`.
The loop over suites asks for the length of the list each turn; the functions of a
suite are read before its first test. What a test does to its environment is in
`TestExecution`; here it reports failures, returns, or is left by an exception.
`WritePiece` is one `fwrite`, which may take a part of what it was given.
`broken`, `planned`, `visited` and `verdicts` are history variables.

`BrowserRunner` has the list of cases, off which `runOneTest` takes the next one before
the timer runs it; the header of each case by its class; the counts and the status. A
suite that registers under the name of another takes the other's place on the page, so the
header of the first one's cases is `"none"` and marking it throws.
`undescribed` remembers that the exception that left `runTest` could not be
described, which ends the timer's callback and with it the run.
`Malformed` is the filter of a URL that cannot be decoded or is no regular expression:
reading it throws before any suite is collected, as `getTestFunctions` does of an arrow function (`CannotCollect`).

`Runners` puts the page where the program wrote it: it may be opened
once `exit = "0"`, with a filter in its URL or without, and registers on its own.

### Callbacks

`CallbackBlocks` has one operator for each block of the generated header, by its numbers of
bound and of given arguments: its value is the set of the six classes of the block (a constant method, a method or a
function, each with a result or without), a class being what it stores, what `Run` takes, and
what it passes. One-shot or permanent is a template argument (`del`). `Callbacks` is about
what happens to the objects. A callback records its class, `del`, whether
its pointer to the target is set (a one-shot
callback zeroes it only after the call, then deletes itself), and whether it is still allocated.
An argument may be a callback itself: `place` says in which callback, and in which member of it, one is bound; `Run` hands
what the block passes to the function that is called, and what a block does not pass belongs to
nobody then. `Return` may give one back as the result. `object` is whether the object whose methods are called is still there.
`holder` is the owner outside of `scoped_ptr`s; `manner` is how callers behave: they run
only what they hold (and keep the object as long as one of its methods may be called), or whatever they have seen but never nested, or anything at
any time. Two of the properties hold for the first manner, and one for the first
two; the header promises no more. The run leaves the third manner out: a target that runs its own one-shot
callback again, before that has zeroed its pointer, is called twice.

### XML writer

`elements` is what libxml2 knows of the open elements, as a reader will see it: prefixes
declared, whether the start tag is open, and names with the namespace the caller gave.
The mapper is a record: the namespaces in scope by depth, their prefixes, those fixed or reserved, and a counter
whose numerals are `PrefixAt` (in the runs a short sequence with `"xml"` among
them; the numerals themselves are `PrefixNames`). `died` says why the writer killed the process: a string that could not be converted, or an attribute that came
too late (`TooLate`). So `NothingDropped` says that this guard comes
before what libxml2 would lose. `xml_writer.cc:342` says of it "Don't die in prod"; `LOG_IF(FATAL)` dies in
every build, and the model follows it. `SharedBindings = FALSE` keeps callers from binding two
namespaces to one prefix, which the code does not refuse: then a name has two meanings.

### Algorithms

The modules of the sequential code have operators and no state. `MCLibrary` types texts byte by
byte, counts numbers and builds heaps object by object, so that each state is one
input, and its invariants compare the code's answer with a definition that says what should come out.
Escapes are read back by the code's own reader and by a definition of the grammar;
numerals are compared with arithmetic; `StringReplace`, splitting, joining, stripping and slices with
the positions they should keep; `strto32`, `NoLocaleStrtod` and
`StringAppendV` with what a platform of the other kind gives. `ObjectGraphs` has
heaps of plain objects and arrays, which may also refer to matchers and to objects of other kinds. Recursive equality is compared with
there being a relation under which both objects unfold to one tree, the search for cycles with reachability,
and the marks of `stringify` with what was written. `Takes` says what a matcher's predicate, or an object's `gjstestEquals`, takes:
they are the author's code, and are assumed to answer alike when asked again and to leave the objects alone.
`Vsnprintf` says that a text does not fit as either kind of library does; an error that is reported
for a buffer of any size is left out (`StringAppendV` would then grow its buffer until memory ends).

## What the runs show

| Run | Bounds | Shows |
|---|---|---|
| `mocking_search` | 2 mocks, 2 argument lists, 3 matcher lists, 2 expectations, 2 calls, 3 frames | `TypeOK`, `NewestMatchWins` |
| `mocking_actions` | 1 mock, 2 expectations, 3 calls, 4 frames, times up to 1, 2 one-time actions | `ActionOrder`, `CallsAccounted`, `Verdict`, `ContractSpec` |
| `mocking_args` | 4 argument lists (none, one, the sentinel, two) against 5 matcher lists, 2 expectations, 2 calls, one indescribable argument list | `ArityRespected`, `TestEnds` |
| `execution` | 2 tests, a browser, and the native runner with shared mocks and without, 4 calls of gjstest, 4 frames, hostility up to 2, nullish values, swallowed exceptions | `TypeOK`, `EnvironmentOfRunningTest`, `PassedOnByEscapes`, `BlamesRightCall`, `NoFalsePass`, `AllTestsConclude` |
| `runners` | 2 scripts, suites S, S, T and an arrow function, 2 names of tests, 5 command lines, 4 registrations by scripts and tests, 6 on the page, 2 filters and a malformed one | `RunnersTypeOK`, `ExitStatusHonest`, `ReportsAgree`, `NothingForgotten`, `FilesComplete`, `PageHonest`, `Ends`, `PageConcludes` |
| `callback_owners` | 2 callbacks, the second of any of the 42 blocks, and of any class of one of them, 2 pointers, 3 runs, 2 deep, two manners | `TypeOK`, `NoUseAfterFree`, `NoLeak`, `OneOwner`, `SegfaultsIfUsedAgain` |
| `xml_names` | 3 namespaces, 2 bindable prefixes, 4 made-up ones, 2 open elements | `TypeOK`, `NamesResolve`, `DeclaredOnce`, `OnePrefixPerNamespace`, `NothingDropped` |
| `algorithms` | texts of up to 4 of 8 bytes, numbers to 1100 and at 14 edges, heaps of 6 objects (2 plain, an array, 2 of a kind with `gjstestEquals`, a matcher) | `EscapesExact`, `PiecesExact`, `NumbersReadBack`, `PlatformDoesNotShow`, `InOrder`, `EqualIfSameTree`, `EachObjectOnce` |
| `execution_leak` | 2 tests, 4 calls, hostility 1 | a violation of `Isolation` |
| `execution_trace` | 1 test, 4 calls, swallowed exceptions | a violation of `TraceOfForeignException` |
| `execution_dangling` | 2 tests, native, 2 calls, shared mocks | a violation of `CallbackExists` |
| `library_slice` | buffers of up to 6 bytes | a violation of `EndIsExclusive` |

Why the bounds are enough. A search can be disturbed by one nested call or one
added expectation; two expectations tell newest from oldest and three frames
hold a call inside a predicate of a call. Three calls take two one-time actions
and one more, four frames hold a call inside an action whose call is inside
another. That something is passed on takes two tests that follow each other. Four calls make a mock
function, an expectation by `expectCall` and its stub, and one more: a callback that comes late and uses the
stub, or an assertion inside. Two of hostility are a value that cannot be described and throws another such one. The runners need two suites of one name and one of another, a script after one
that failed, and a suite registered by a test: four registrations make two suites
with a test each. Two callbacks let one drop the other while it runs, be bound in, given to or returned by the other; two pointers swap.
Of six objects, the root and another plain one and the array may refer to each other and themselves, and the others are leaves of each kind.
Two open elements are enough for a prefix that is declared inside, dropped and
declared again beside. Four bytes hold an escape with a byte before or after
it; 1100 passes three powers of ten, and the edges are where the code
branches. Where a theorem says so, the same holds for all bounds.

The four violations are disagreements of the code with its comments.

* `execution_leak`: the comment at `run_test.js:102` says the list is cleared so
  that the next test is not interfered with. There are two ways to leave `runTest` before that with what is thrown. A value that
  cannot be described (`throw Symbol()`) makes `stringify` throw at line 39. `throw null` and `throw undefined` can be
  described, but `getErrorStack` at line 50 reads `error.stack` (`error_utils.js:53`), which throws a `TypeError`. The
  runner goes on, and the next test is blamed for the expectations of the first. An unsatisfied expectation has the same
  effect where its matchers cannot be described (line 94) or where the engine gives no
  structured stack, so that its stack frame is undefined (line 90, `mocking.js:187`).
* `execution_trace`: the comment
  at `run_test.js:41` says that a trace is added unless the exception was thrown
  from within gjstest; a test that catches the `TypeError` of `expectCall` leaves its
  user stack behind, and a later exception of the code under test is reported with that place
  and without its trace.
* `execution_dangling`: `v8_utils.h:81` says that the callback given to
  `MakeFunction` must exist for as long as the function may be called;
  `TestCase::Run` gives it local variables, and a mock function kept from an
  earlier test calls one of them after it is gone.
* `library_slice`: `slice.js:31` says that the end is exclusive, and defaults to the length of the buffer if it is missing. The code
  takes an end of 0 for a missing one (`opt_end || this.byteLength`): `slice(0, 0)` copies the whole buffer.

Two further disagreements with comments have no run of their own; the properties leave the case out, and say so.

* `strutil.h:445-447` says of `NoLocaleStrtod` that "it always behaves as if in the "C" locale (i.e. decimal points must be '.'s)". In a locale whose radix mark is
  a comma it reads `1,5` as 1.5, where the locale of C reads 1: the first call of `strtod` is the locale's, and only a text in which it stops at a point is
  read again. `PlatformDoesNotShow` is about texts with a point or without a mark, in any locale; in texts with the locale's own mark the platform does show.
* `run_tests.js:152-154` calls the numbers at the top of the page those of the tests "which have been run" and "which passed when run",
  and 211-213 a disabled case one that is not intended to be run. A case that the filter skips is counted in both numbers
  (lines 62-65 and 251-256). `PageHonest` claims of the numbers only that their difference is the number of
  headers that failed.

Some of what the runs show is not what one might expect, but no comment we know of
says otherwise. The page passes when a script failed to load or its filter matches no test, where the program says that it found no tests.
The page does not come to a verdict for five reasons (`PageConcludes` names
them): a filter in the URL that is malformed, no tests, an arrow function for a suite, a suite that lost its place to one of the same
name, an exception that cannot be described. Tests that tests register never run on the page.
The link to run one test by itself matches tests of the same name in other suites.
`recursivelyEquals` accepts expected values with shared parts, which are
not trees, and refuses only cycles. The escapes `\u` and `\U` are described in
`strutil.h` and disabled in the code. `stringify` of an object that cannot take a mark leaves
an own property `undefined` on a leaf below it. A failed assertion that cannot be described reports nothing: if the test catches what that throws,
it passes, which `NoFalsePass` says as an exception.

What the properties of `TestExecution` claim, and what they except. They hold under either runner, whatever tests throw and catch.
`EnvironmentOfRunningTest` says that the environment outlives `runTest` exactly if an exception left it, and `PassedOnByEscapes` that
an expectation is verified at the end of a later test only if an exception left the `runTest` of the test it was due in and of all
in between. An expectation is due at the end of the test that is running, and one that a late callback makes between tests, or after
a test was verified, at that of the next one: `run_test.js` knows no other test for it. `BlamesRightCall` allows, besides the calls a failure
happened in, calls that an exception has left since the place was recorded, since these never clear what they recorded;
what that costs is `execution_trace`. `NoFalsePass` needs tests to
use mock functions of their own in a browser: the code sends the failures of a
shared mock to the test that made it, which may have passed already; in the
native runner that is the freed callback of `execution_dangling`. It counts failures that could not be described as well as
those reported; excepted are those whose exception the author's code swallowed, or the host of a late callback ignored.
`AllTestsConclude` is claimed
for the native runner: the browser describes what leaves `runTest` outside any
handler, and if that throws no further test is started (`phase = "stuck"`).
Failures in callbacks after a test has its result are lost; no property says otherwise.

Fairness. `Mocking`, `TestExecution`, `NativeRunner` and `BrowserRunner` have `WF_vars(Next)`: a run is one
JavaScript thread, and the engine takes the next step as long as there is one, the
browser's timers included. No fairness of single
actions is assumed. The author's code is finite because what it calls and registers is bounded, and
a script or test that never returns is left out.
`Callbacks`, `XmlWriter` and `MCLibrary` have no fairness and no liveness: their callers
may stop at any time, so deadlock is not checked there, nor in `runners`, whose
process exits. In `Mocking` and `TestExecution` deadlock is checked; the end of a run is an explicit
stuttering step.

## What is proved

`MockingProofs` is about `Mocking` for every value of its constants, the bounds included.
The assumptions are `NoCountAssumption`, that the null of `expectedNumMatches`
is not a number, and `ListsAssumption`, that lists of arguments and of matchers have
a length.

* `ShapeCorrect`: `Spec => [](TypeOK /\ StackOK /\ ListsOK)`. `TypeOK` is not
  inductive: that `Candidate` is an expectation needs that the position of a
  search lies within the list of its mock function (`StackOK`), and that a list
  holds indices of expectations, in increasing order and all of its own mock
  function (`ListsOK`). `TypeCorrect` follows.
* `NewestMatchWinsCorrect`: `Spec => []NewestMatchWins`. The invariant of a
  search under way is `KnowsIn`: the positions it has still to try hold
  expectations older than the call, and every other such expectation was rejected. A
  search moves by `NoMatch` only; all other steps preserve it since lists and
  expectations only grow and keep what is there (`Growth`). This is why a
  predicate that adds expectations cannot change the outcome of the search it runs in.

* `ArityRespectedCorrect`: `Spec => []ArityRespected`. It follows from the same
  invariant and from `CheckArgsArity`, a lemma about what
  `checkArgsAgainstExpectation` accepts.

The rest of `MockingProofs`, the refinement of `MockContract` included, rests on `ShapeCorrect` and the same assumptions.

* `ActionOrderCorrect`: `ActionOrder`. `Order` says that the flags `expired`, by which `consumeAction_`
  goes, agree with the history of credits (`FlagsOK`), and that each credit was in order when
  it was given (`InOrder`). A fallback that was taken stays, and an expectation that has one takes no further one-time
  action, so an action list is never longer than when its fallback was used.
* `VerdictCorrect`: `Verdict`. `Waiting` says that searches on the stack are of calls of their
  own without a result, the newer above the older; `Tally` that until the
  verification all expectations are registered, and that `failures` is 0 iff nothing was thrown
  and no call was unexpected.
* `ImplementsContract`: `Spec => ContractSpec`. `Accounts`, the invariant of both theorems, makes each step
  of `Mocking` one of `MockContract` or a stutter: a match credits one promise and one call (`MatchCredits`),
  a verification compares the counts the promises have. `MockContract` has no fairness, so
  the refinement is one of safety.
* `CallsAccountedCorrect`: `CallsAccounted`. The count of an expectation is the size of the set of calls
  credited to it; `Books` adds that credits are to expectations that exist.

`TestExecutionProofs` is about `TestExecution` for any numbers of tests, calls and frames. Besides the
assumptions on these, it uses `NoneAssumption`, that `None` is no exception.

* `TypeCorrect`: `Spec => []TypeOK`. `Typed` adds that frames hold numbers of calls
  that were made, and that an assertion under way has an environment to report to.
* `NoFalsePassCorrect`: `NoFalsePass`, if shared mock functions are met in the native
  runner only. `Honest` says that each report has set the flag of the test it is about, that a report of
  the running test goes to no other (`Answered`), and that this test and those after it have no result
  yet (`Pending`), so that the flag is read after the last report. `Said` says that what is unsaid is on its way out in an exception,
  which ends in a report or is swallowed.
* `EnvironmentCorrect`: `EnvironmentOfRunningTest`, and `PassedOnByEscapesCorrect`: `PassedOnByEscapes`, with no
  hypothesis. `Escapes` says that every exception that leaves `runTest` ends in a report of its test, from which the properties tell that it did; `Waiting` that
  what is registered is due by the end of the running test, and what was due before it has waited through tests that were left.
* `BlamesRightCallCorrect`: `BlamesRightCall`, with no hypothesis. `Recorded`
  relates the user stack to the JavaScript stack: an assertion's frame and the
  author's alternate (`Alternating`), and the recorded call is that of the innermost assertion (`Inner`), or
  one the exception in flight came through, or one that an exception has left (`Places`).

`RunnersProofs` is about `NativeRunner` and about `Runners`, for any numbers of scripts, suites, flags and
registrations, and any names and filters.

* `ExitStatusCorrect`: `ExitStatusHonest`. `Result` ties `success`, by which the code goes, and the
  map of durations, whose being empty means that no test was found, to the verdicts.
* `FilesCompleteCorrect`: `FilesComplete`: every file that was asked for, the coverage included, and no other. `Writes` says that only the file being written may be incomplete,
  and what a file holds by the phase in which it was opened.
* `TypeCorrect`: the types of `NativeRunner`; `Types` adds that a loop under way lies within its list.
* `ReportsAgreeCorrect`: `ReportsAgree`. `Reports` says of the maps that their keys are the full names of the tests
  that were run, with the verdicts of those tests; of the tests run that no two have one full name, for
  the process dies at the map; and of the output that among its lines those that tell a result are those of the tests, in order.
* `NothingForgottenCorrect`: `NothingForgotten`. `Covered` says that the suites before the current one are those that were
  visited, and that of a visited suite each test the scripts had left has run, runs, or is ahead in the list
  the loop holds, if the filter matches it. Until a suite is visited its tests stay, because tests only add.
* `RunnersTypeCorrect`: `RunnersTypeOK`; `PageTypes` adds that there is a header for each case, and that a case that runs was taken.
* `PageIsHonest`: `PageHonest`. `Headers` says that the cases taken before the current one have a result in their
  headers and the others none, and that the numbers count those; what a timer's callback leaves halfway stays so.
* `CommandLineCorrect`: the properties of `NativeRunner` hold of the composition, since the page
  starts after the program's exit, and what it registers on its own is nothing the program still reads.

`SelectionProofs` has the lemmas on lists these need. The induction theorems of the library take operators as parameters;
here the induction is over sets of numbers, by their least elements (`Induction`, `LeastExists`), from which
follow that the recursive functions of `Selections` exist and what they do to a list that is appended to (`ChosenAppend`).

`CallbackProofs` is about `Callbacks` for any numbers of callbacks, pointers and runs, and any of the header's classes.

* `TypeCorrect`, and `AlwaysOneOwner`: a callback has one owner, through `reset`,
  `release`, `swap` and the destructor, whatever the manner.
* `NeverUsedAfterFree` and `NeverLeaks`: if callers run only what they hold. The
  invariant ties who holds a callback to whether it runs and whether it will
  delete itself: a one-shot callback that runs belongs to nobody; one that is an argument is bound in one
  that is there and has not been run; and while one of its methods may be called, the object is there. That nothing bound is lost rests on
  each block passing every member it stores, which goes through the blocks of the header one by one.
* `OneShotRunsOnce`: unless the manner is "reused", a one-shot callback calls its target at
  most once. The invariant: one that was called is running, or its pointer to the target is zero.

`XmlWriterProofs` is about `XmlWriter` for every set of namespaces and alphabet of prefixes, every
injective sequence of made-up ones, and any depth, if callers bind a prefix to one namespace
only (`SeparateBindings`).

* `OnePrefixPerNamespaceCorrect`. `MapperOK` says that prefixes once given are all different and never "xml", and
  that each is reserved or made from a value the counter has passed, so that the next one made is
  new (`NextIsNew`); that what is in scope has the prefix it was given, and was mapped at one
  depth. `DeclaredOK` says that what was declared in the document is what the mapper gave.
* `DeclaredOnceCorrect` and `NamesResolveCorrect`. `TreeOK` relates the open elements to the mapper's
  depths: what an element declares was mapped at its depth or is `xml`, and
  each prefix that a name bears is declared at it or around it. Since the prefixes are different, the
  innermost declaration of a prefix is for the namespace of the name.
* `NothingDroppedCorrect`. `Timely` says that the innermost start tag is open whenever
  `attribute_adding_still_ok_` is set in an open document.
* `TypesCorrect`: `TypeOK`.

`LibraryProofs` is about the algorithms of `MCLibrary`, for all numbers and any alphabet of two letters or more.
`GenerateNextPrefix` is a recursive function; that it exists, and is the only one to satisfy its equation, is shown
for all functions that call themselves with a smaller number (`Recursion`, `RecursionAgrees`).

* `InOrderCorrect`: `InOrder`: each made-up prefix is followed by the next one in the order of length, then alphabet. `NamesInOrder`
  states it without the run: for every number, not only those counted to.
* `NamesDiffer`: no two numbers have one made-up prefix. This is the assumption `PrefixAtAssumption` under
  which `XmlWriter` is proved, so that it holds of the code's own numerals.
* `NumbersReadBackCorrect`: `NumbersReadBack`, for every number of 32 bits with a sign, the smallest included. What a loop
  that writes digits backwards leaves denotes the number (`Denoted`, for any base), by induction on the quotient, so that
  its value is that of the quotient's digits, times the base, and the last. The digits of a negative number are those
  of its opposite, which the code never forms of the smallest (`NegativeDigits`). Eight places are enough
  for the hexadecimal digits of 32 bits (`EightHexDigits`), and each place the code fills by shifting
  is the digit or zero that stands there (`FilledUp`). A label of `FastUInt32ToBufferLeft` writes
  what is missing behind the quotient by its unit, which carries over from each to the next (`NextLabel`,
  `LabelsAgree`), and the label jumped to is one whose unit leaves one digit or two (`LabelOf`, `BothWays`).
  Both of these need numbers of at most 32 bits, which `NumbersAssumption` says they are.
* `PlatformDoesNotShowCorrect`: `PlatformDoesNotShow`, which leaves out texts with the locale's own mark. A number in a text is written as four parts (`Spelled`): digits, a mark,
  digits, and what follows. `strtod` of a locale whose radix is the mark reads up to the end of the second digits
  (`StrtodRadix`), of another one up to the mark (`StrtodOther`); `DelocalizeRadix` puts the point for the bytes
  of the mark (`MarkReplaced`); so that `NoLocaleStrtod`, which puts the radix for the point and reads again, comes to
  the end that it would in the locale of C (`ReadsElsewhere`). This holds for any digits and any mark of bytes that
  are of no number (`Printed`, `Read`), the run's being three.
* `CutToInt32Correct`: `strto32_adaptor` for numbers of any size and any width of `long` in which `int32` fits.
* `WholeTextAppendedCorrect`: `StringAppendV` ends with a buffer larger than its text, for texts of any length.
  The hypothesis is that twice the length stays below the largest size, a bound of the model: the code's own is that of `int`.
  A buffer only grows, so that it either holds the text or is doubled, by induction down from the largest (`UpwardsHalts`).
* `SlicesCorrect`: `slice()` for buffers of any length, any start and any end but 0: the part of `PiecesExact` about slices.
* `EscapesExactCorrect`: `EscapesExact`, for texts of any length over any alphabet of bytes (`BytesAssumption`).
  `EscapesReadBackCorrect` and `EscapesFitCorrect` say it of every sequence of bytes without the run. The loop that writes is a
  function of the place it has come to: by induction up the text, each byte adds one of five kinds of piece
  (`Piece`, `Adds`), at most four bytes, and a buffer of any size holds a prefix of what the
  largest one holds. The loop that reads goes by places as well, and by induction down the escaped text it reads from the place of each
  piece that byte and then the rest (`BackAlways`). A hexadecimal escape is the hard case: it ends where a digit
  does not follow, which is why `MustEscape` escapes a digit that does (`x` in the state of the loop).
* `PiecesExactCorrect`: `PiecesExact`, for texts of any length and the delimiters of the run, and slices up to any end but 0.
  * `SplitsIntoRunsOfAny`, for any delimiters: the loop for one and the loop for several satisfy one equation (`SplitsFrom`), so that
    all the rest is proved of both at once. The n-th piece is the run that starts n-th (`Ranked`), by induction down the text.
  * `JoinsBackOfAny`: what is split at every delimiter the pieces were joined with is those pieces (`JoinsBack`).
  * `ReplacesOfAny`: the mark is any byte that is not in the text. By induction down the text (`ReplaceCases`), what is made is
    either the rest of the text or a stretch of it, the mark and what is made behind the occurrence (`Made`). An occurrence of the old text
    cannot cross a mark, for the old text, being found in the text, does not hold it (`NoneLeft`).
  * `StripsBothSidesOfAny`.

The functions of `Strutil` are recursive functions over places, not folds or operators that call themselves: that such a function exists is
itself proved (`LinksExist`, from the places it goes on to lying further on), since a function that `CHOOSE`s itself
has no value otherwise.

`GraphProofs` is about `ObjectGraphs`, whose functions are recursive functions of objects.

* `EqualIfSameTreeCorrect`: `EqualIfSameTree`, for any finite set of objects of any kinds (`ObjectsAssumption`), any keys, any
  heap, and whatever matchers and `gjstestEquals` take. The search for cycles and the comparison are functions of what they are called with, and may call themselves
  without end; such a function exists since its equation has a least solution (`SolutionExists`).
  A node is found exactly if a cycle can be reached from it: by induction on the objects not on the path (`CycleFound`). The pairs
  found equal are themselves a relation under which both unfold alike (`EqualIsSame`), whatever the actual object refers to; and pairs
  under such a relation are found equal by induction on what can be reached, which shrinks with
  every step from an object without cycles (`ReachesLess`, `SameIsEqual`).
* `EachObjectOnceCorrect`: `EachObjectOnce`, for the same heaps. `ListFrom` is what holds of the marks between two steps: they are a list
  that starts at the root, comes by every marked object, and ends. `Insert` keeps it (`ListGrows`), wherever the parent is in
  the list, so that `Finish`, which follows the list, leaves no mark (`FinishIs`). That `Describe` has a value is by induction on the
  depth, with the types (`DescribesExists`). Then, by induction on the depth and inside it on the keys (`NextInProgress`): a call
  writes its own object and some of those it marks, which were not marked before (`VisitKept`); and if more
  depth is left than objects without a mark, it writes all of those, and marks what they refer to (`SoFar`).
  The objects written are then closed under references, so all that can be reached is among them. That no mark is left and
  nothing written twice needs no bound on depth or parts. `MarkAssumption`, that the end of the list is none of the
  author's objects, holds since the root makes a new one.

Only model-checked: `TestEnds`, `AllTestsConclude`, `Ends` and `PageConcludes`, which are liveness under fairness;
the prover cannot handle it. Every invariant that a run expects to hold is a theorem.

## Not modelled

* Mock instances: one walk along a prototype chain. The HTML builder: wrappers
  of DOM calls. The stack formatting of `error_utils.js` and `stack_utils.js`: layout;
  that describing an error can throw is in `TestExecution`. Protocol buffers: generated.
* Of the matchers, all but the check of arguments and recursive equality: predicates of one
  value. The `==` by which `anyOf` compares lies beyond the values of the model.
* Of `strutil`, the copies for 64 bits, which TLC's integers do not hold, the precision of
  floating-point numbers, and `StringPiece`.
* Frozen objects, and a `toString` that throws, in heaps: what throws while something
  is described is in `TestExecution`, without properties.
* The text of the output: wording, durations, XML escapes, the end of a CDATA section in a message.
* Files of 4 GiB and more, which `WriteStringToFileOrDie` would cut off; timers; `FindFiles`, which nothing calls.
* Threads: the process has one.

## What is left

No invariant: each is checked and proved. What could be added is under "Not modelled": heaps whose
objects are frozen or throw, and the 64-bit copies of the numerals.
