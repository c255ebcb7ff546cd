----------------------------- MODULE MCMocking -----------------------------
(* Small instances of Mocking: argument values, matchers and their lists.  *)
EXTENDS Mocking

CONSTANTS m1, m2, v, w

(* gjstest._, equals(v), notPresent, maybePresent and isMissingArgSentinel. *)
Plain(accepts) ==
    [accepts |-> accepts, understandsMissing |-> FALSE, user |-> FALSE]

Anything     == Plain({v, w})
EqualsV      == Plain({v})
NotPresent   == [Plain({Missing}) EXCEPT !.understandsMissing = TRUE]
MaybePresent == [Plain({v, w, Missing}) EXCEPT !.understandsMissing = TRUE]
MCSentinelMatcher == Plain({})

(* Matchers whose predicates call code of the test's author. *)
UserAnything == [Anything EXCEPT !.user = TRUE]
UserEqualsV  == [EqualsV EXCEPT !.user = TRUE]

OneMock  == {m1}
TwoMocks == {m1, m2}

OneArgList  == { << v >> }
TwoArgLists == { << v >>, << w >> }
OddArgLists == { << >>, << v >>, << Missing >>, << v, v >> }

None == {}
BothV == { << v, v >> }

ReentrantLists == { << EqualsV >>, << UserEqualsV >>, << UserAnything >> }
OneList        == { << UserAnything >> }
OddLists == { << >>, << UserEqualsV >>, << MaybePresent >>,
              << MCSentinelMatcher >>, << Anything, NotPresent >> }
=============================================================================
