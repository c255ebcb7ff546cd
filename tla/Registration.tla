---------------------------- MODULE Registration ----------------------------
(***************************************************************************)
(* gjstest/public/register.js: the test suites that scripts register and   *)
(* the tests they add to them.  A suite is a constructor; its tests are    *)
(* the own enumerable properties of its prototype that hold functions.     *)
(* Two suites may have the same name, and then two tests the same full     *)
(* name.  A call that the code rejects throws, and changes nothing.        *)
(***************************************************************************)
EXTENDS Selections

CONSTANTS
    Suites,         \* constructors
    NameOf,         \* constructor -> ctor.name
    Keys,           \* names of properties
    Skipped,        \* those that end with an underscore, and tearDown
    NoPrototype     \* constructors without one, as arrow functions

ASSUME NameOfAssumption == DOMAIN NameOf = Suites
ASSUME SkippedAssumption == Skipped \subseteq Keys
ASSUME NoPrototypeAssumption == NoPrototype \subseteq Suites

VARIABLES
    testSuites,     \* gjstest.internal.testSuites
    prototypes      \* constructor -> its prototype's properties, in order

Property(key, isFunction) == [key |-> key, isFunction |-> isFunction]

Registered(s) == s \in Elements(testSuites)
Has(s, key) == \E p \in Elements(prototypes[s]) : p.key = key

RegistrationInit ==
    /\ testSuites = << >>
    /\ prototypes = [s \in Suites |-> << >>]

RegisterTestSuite(s) ==
    /\ ~Registered(s)
    /\ testSuites' = Append(testSuites, s)
    /\ UNCHANGED prototypes

(* ctor.prototype.key = ..., without the help of gjstest. *)
Assign(s, key, isFunction) ==
    /\ s \notin NoPrototype
    /\ prototypes' = [prototypes EXCEPT ![s] =
           IF Has(s, key)
           THEN [i \in DOMAIN @ |-> IF @[i].key = key THEN Property(key, isFunction) ELSE @[i]]
           ELSE Append(@, Property(key, isFunction))]
    /\ UNCHANGED testSuites

Legal(key) == key \notin Skipped
MayAddTest(s, key) ==
    s \notin NoPrototype /\ Registered(s) /\ Legal(key) /\ ~Has(s, key)
AddTest(s, key) ==
    /\ MayAddTest(s, key)
    /\ prototypes' = [prototypes EXCEPT ![s] = Append(@, Property(key, TRUE))]
    /\ UNCHANGED testSuites

(* The tests of a suite, in the order of its properties. *)
IsTest(p) == Legal(p.key) /\ p.isFunction
FullName(s, key) == << NameOf[s], key >>
GetTestFunctions(s) ==
    Only(prototypes[s], {p \in Elements(prototypes[s]) : IsTest(p)})
=============================================================================
