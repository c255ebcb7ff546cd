---------------------------- MODULE MockContract ----------------------------
(***************************************************************************)
(* What mocking promises the author of a test, without lists, searches or  *)
(* frames.  Every expectation carries a promise about the number of calls: *)
(* exactly `least', or at least `least' if `exact' is FALSE.  A promise    *)
(* may be amended until it is settled and never after; each call is        *)
(* credited to at most one expectation; and the test passes iff nothing    *)
(* failed and every promise was kept.                                      *)
(***************************************************************************)
EXTENDS Naturals, Sequences

VARIABLES
    promises,   \* one promise per expectation, in order of creation
    credited,   \* the calls each expectation was credited with
    failed,     \* a failure was reported during the test
    verdict     \* "none" until the test is over

vars == << promises, credited, failed, verdict >>

Default == [least |-> 1, exact |-> TRUE, settled |-> FALSE]

Kept(p, n) == n = p.least \/ (~p.exact /\ n > p.least)

Init ==
    /\ promises = << >>
    /\ credited = << >>
    /\ failed = FALSE
    /\ verdict = "none"

Promise ==
    /\ verdict = "none"
    /\ promises' = Append(promises, Default)
    /\ credited' = Append(credited, 0)
    /\ UNCHANGED << failed, verdict >>

(* An explicit count settles the promise. *)
Fixed(p, q) == q.exact /\ q.settled
(* One more one-time action asks for one more call than those before it. *)
Raised(p, q) == q.exact /\ ~q.settled /\ q.least \in {p.least, p.least + 1}
(* A fallback action takes any number of further calls, and settles. *)
Relaxed(p, q) == ~q.exact /\ q.settled /\ q.least \in {0, p.least}

Amend(k) ==
    LET p == promises[k]
        q == promises'[k]
    IN  /\ verdict = "none"
        /\ ~p.settled
        /\ promises' = [promises EXCEPT ![k] = q]
        /\ Fixed(p, q) \/ Raised(p, q) \/ Relaxed(p, q)
        /\ UNCHANGED << credited, failed, verdict >>

Credit(k) ==
    /\ verdict = "none"
    /\ credited' = [credited EXCEPT ![k] = @ + 1]
    /\ UNCHANGED << promises, failed, verdict >>

Fail ==
    /\ verdict = "none"
    /\ failed' = TRUE
    /\ UNCHANGED << promises, credited, verdict >>

Finish ==
    /\ verdict = "none"
    /\ verdict' = IF ~failed /\ \A k \in DOMAIN promises :
                                   Kept(promises[k], credited[k])
                    THEN "pass" ELSE "fail"
    /\ UNCHANGED << promises, credited, failed >>

Next ==
    \/ Promise
    \/ \E k \in DOMAIN promises : Amend(k) \/ Credit(k)
    \/ Fail
    \/ Finish

Spec == Init /\ [][Next]_vars

=============================================================================
