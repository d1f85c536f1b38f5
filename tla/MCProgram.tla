------------------------------ MODULE MCProgram ------------------------------
(***************************************************************************)
(* Policies, signatures and task functions for the run of Program.         *)
(***************************************************************************)
EXTENDS Program

\* A retryable error and a permanent one of the same class name, and one that
\* no policy names.
MCExceptions == {"api.Timeout", "db.Timeout", "Other"}
MCNamesOf(e) == CASE e = "api.Timeout" -> {"Timeout", "api.Timeout"}
                  [] e = "db.Timeout" -> {"Timeout", "db.Timeout"}
                  [] OTHER -> {e}

Policy(max, delay, backoff, cap, jitter, retry_on, ignore_on) ==
    [max_retries |-> max, retry_delay |-> delay, backoff |-> backoff, max_delay |-> cap,
     jitter |-> jitter, retry_on |-> retry_on, ignore_on |-> ignore_on]

\* No policy at all (no retries), every backoff, caps that are reached and that
\* are not, a fourth attempt whose power of two is too large in the run, a base
\* above the cap, lists that overlap and an empty one.
MCPolicies ==
    {Policy(0, 4, "exponential", 64, TRUE, AllErrors, {}),
     Policy(4, 4, "exponential", 12, FALSE, {"Timeout"}, {"db.Timeout"}),
     Policy(3, 4, "exponential", 64, TRUE, AllErrors, {}),
     Policy(3, 8, "linear", 20, FALSE, {"Other"}, {"Timeout"}),
     Policy(2, 12, "fixed", 8, TRUE, AllErrors, {"api.Timeout"}),
     Policy(2, 0, "linear", 8, TRUE, {}, {})}

\* The kinds in the order that Python has them in a signature.
KindRank ==
    [posonly |-> 1, plain |-> 2, context |-> 2, star |-> 3, keyword |-> 4, starstar |-> 5]
Param == [kind : DOMAIN KindRank, default : BOOLEAN]
Rank(s, i) == KindRank[s[i].kind]

\* Every signature of up to three parameters that Python allows: the kinds in their
\* order, at most one * and one **, no parameter without a default after one with
\* a default; a context has none.
Legal(s) ==
    /\ \A i, j \in DOMAIN s : i < j =>
        /\ Rank(s, i) <= Rank(s, j)
        /\ s[i].kind \in {"star", "starstar"} => s[i].kind # s[j].kind
        /\ Rank(s, j) <= 2 /\ s[i].default => s[j].default
    /\ \A i \in DOMAIN s : s[i].kind \in {"star", "starstar", "context"} => ~s[i].default
MCSignatures == {s \in UNION {[1..n -> Param] : n \in 0..3} : Legal(s)}

MCFunctions == <<"f", "g">>
==============================================================================
