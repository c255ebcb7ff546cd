----------------------------- MODULE MCRunners ----------------------------
(* Instances of Runners for TLC: two suites of one name, one of another,   *)
(* and an arrow function; the filter matches all tests or those of one     *)
(* name, or is malformed; coverage is asked of scripts that have it and    *)
(* not, and both files at once.                                            *)
EXTENDS Runners

MCSuites == 1..4
MCMalformed == {"malformed"}
MCFilters == {{"x", "z"}, {"x"}, MCMalformed}
MCNameOf == << "S", "S", "T", "Arrow" >>

Plain == [html |-> FALSE, xmlFile |-> TRUE, coverageFile |-> FALSE,
          instrumented |-> FALSE, filter |-> FullNames]
MCFlags ==
    {Plain,
     [Plain EXCEPT !.filter = {<< "S", "x" >>}],
     [Plain EXCEPT !.coverageFile = TRUE, !.xmlFile = FALSE],
     [Plain EXCEPT !.coverageFile = TRUE, !.instrumented = TRUE],
     [Plain EXCEPT !.html = TRUE]}
=============================================================================
