----------------------------- MODULE TaskInputs -----------------------------
(* The arguments of a task, from task.delay(...) to the call of the function   *)
(* in the worker: _build_input_model, _validate_inputs and delay of            *)
(* src/chicory/task.py, _execute_task of worker.py, against the reference: what *)
(* Python does with the same call of the function itself.                      *)
(*                                                                             *)
(* A parameter is its position in the signature, its kind and whether it has a *)
(* default; an argument is where the caller put it.  Whether pydantic takes a  *)
(* value for a parameter's type is part of the call.                           *)
EXTENDS Naturals, Sequences, FiniteSets, Functions

CONSTANTS
    Signatures,     \* sequences of parameters [kind, default]
    MaxArgs         \* bound on the positional arguments of a call

\* The kinds of parameters are those of inspect.Parameter: "posonly", "plain",
\* "star", "keyword" and "starstar"; "context" is a plain one annotated TaskContext.
Unknown == 0        \* a keyword that names no parameter

VARIABLES sig, validates, args, keys, valid, stage, got
vars == <<sig, validates, args, keys, valid, stage, got>>

Params == 1..Len(sig)
Kind(p) == sig[p].kind
ParamKinds(K) == {p \in Params : Kind(p) \in K}

\* What a parameter receives: the i-th positional argument, a keyword, its default,
\* the context, or what is collected by a * or ** parameter.
Value(from, which) == [from |-> from, which |-> which, form |-> "object"]
Arg(i) == Value("arg", i)
Key(k) == Value("key", k)
Default == Value("default", 0)
Context == Value("context", 0)
Rest == Value("rest", 0)
Nothing == <<>>

\* What model_dump() makes of a value: data, in which an instance of a model is a
\* dictionary.  (A number is the same in both forms.)  The message itself is pickled,
\* and the objects in it come out as they went in.
AsData(value) == [value EXCEPT !.form = "data"]

\* Where a value came from, whatever its form.
Origin(value) == <<value.from, value.which>>

\* A call: so many positional arguments, these keywords, and whether their values
\* have the types that the parameters they end up at declare.
Init ==
    /\ sig \in Signatures
    /\ validates \in BOOLEAN
    /\ args \in 0..MaxArgs
    /\ keys \in SUBSET (Params \cup {Unknown})
    /\ valid \in BOOLEAN
    /\ stage = "calling"
    /\ got = Nothing

-----------------------------------------------------------------------------
(* Python: the function called with given, a sequence of values, and named, a *)
(* function from keywords to values.                                           *)

Positional == ParamKinds({"posonly", "plain", "context"})
Named == ParamKinds({"plain", "context", "keyword"})

\* The parameters that get a value by position or by keyword.
ByPosition(given) == {p \in Positional : p <= Len(given)}
ByKeyword(named) == Named \cap DOMAIN named

PythonTakes(given, named) ==
    /\ Len(given) > Cardinality(Positional) => ParamKinds({"star"}) # {}
    /\ ByPosition(given) \cap ByKeyword(named) = {}
    /\ DOMAIN named \subseteq Named \/ ParamKinds({"starstar"}) # {}
    /\ \A p \in Params \ (ByPosition(given) \cup ByKeyword(named)) :
           sig[p].default \/ Kind(p) \in {"star", "starstar"}

PythonBinds(given, named) ==
    [p \in Params |->
        CASE Kind(p) \in {"star", "starstar"} -> Rest
          [] p \in ByPosition(given) -> given[p]
          [] p \in ByKeyword(named) -> named[p]
          [] OTHER -> Default]

-----------------------------------------------------------------------------
(* chicory.                                                                    *)

\* Only the first parameter can have the context injected.
HasContext == sig # <<>> /\ Kind(1) = "context"

\* Every parameter but the contexts is a field of the input model, whatever its
\* kind; required unless it has a default.  Unknown fields are forbidden.
Fields == Params \ ParamKinds({"context"})

\* Mutant: the position counts the parameters that are no fields as well.
FieldAtCounted(i) == i

FieldAt(i) == CHOOSE p \in Fields : Cardinality({q \in Fields : q <= p}) = i

\* Arguments without a parameter are dropped, keywords overwrite arguments.  The
\* input model makes an object of the declared type of each of them.
Bound ==
    [p \in {FieldAt(i) : i \in 1..(IF args < Cardinality(Fields) THEN args ELSE Cardinality(Fields))}
           \cup keys |->
        IF p \in keys THEN Key(p)
        ELSE Arg(CHOOSE i \in 1..args : i <= Cardinality(Fields) /\ FieldAt(i) = p)]

ModelTakes ==
    /\ valid
    /\ DOMAIN Bound \subseteq Fields
    /\ \A p \in Fields \ DOMAIN Bound : sig[p].default

\* model_dump: every field as data, the defaults included.
Dumped == [p \in Fields |-> AsData(IF p \in DOMAIN Bound THEN Bound[p] ELSE Default)]

\* delay: validate, throw the result away, publish the arguments as they came.
Dispatch ==
    /\ stage = "calling"
    /\ stage' = IF validates /\ ~ModelTakes THEN "refused" ELSE "queued"
    /\ UNCHANGED <<sig, validates, args, keys, valid, got>>

\* _execute_task: validate again and pass everything by keyword; without
\* validation pass what came, as it came.  The context goes in front.
Front == IF HasContext THEN <<Context>> ELSE <<>>
Given == Front \o (IF validates THEN <<>> ELSE [i \in 1..args |-> Arg(i)])
Passed == IF validates THEN Dumped ELSE [k \in keys |-> Key(k)]

Execute ==
    /\ stage = "queued"
    /\ stage' = CASE validates /\ ~ModelTakes -> "invalid"
                  [] (validates => ModelTakes) /\ PythonTakes(Given, Passed) -> "ran"
                  [] OTHER -> "TypeError"
    /\ got' = IF stage' = "ran" THEN PythonBinds(Given, Passed) ELSE Nothing
    /\ UNCHANGED <<sig, validates, args, keys, valid>>

Next == Dispatch \/ Execute

Spec == Init /\ [][Next]_vars

-----------------------------------------------------------------------------
\* The state has its types.
TypeOK ==
    /\ sig \in Signatures /\ validates \in BOOLEAN /\ valid \in BOOLEAN
    /\ args \in 0..MaxArgs /\ keys \subseteq Params \cup {Unknown}
    /\ stage \in {"calling", "refused", "queued", "invalid", "ran", "TypeError"}
    /\ got # Nothing => DOMAIN got = Params

\* Signatures that the input model can express: the context first, the others plain
\* or keyword-only.
Ordinary ==
    \A p \in Params : Kind(p) \in {"plain", "keyword"} \/ (p = 1 /\ Kind(p) = "context")

\* The call as its author means it: the function called with these arguments, the
\* context in front.
Meant == Front \o [i \in 1..args |-> Arg(i)]
MeantKeys == [k \in keys |-> Key(k)]
PythonAgrees == PythonTakes(Meant, MeantKeys)

\* The three calls that Python refuses and the validated dispatch puts right in
\* silence: an argument too many is dropped, a keyword wins over the argument for
\* the same parameter, an argument reaches a keyword-only parameter.
TooMany == args > Cardinality(Fields)
Doubled == \E i \in 1..args : i <= Cardinality(Fields) /\ FieldAt(i) \in keys
OverTheStar == \E i \in 1..args : i <= Cardinality(Fields) /\ Kind(FieldAt(i)) = "keyword"

\* With and without validation a task that runs binds its arguments to the
\* parameters as a call of the function would, although the validated arguments
\* arrive by keyword and the others by position; a call Python refuses runs in
\* the three cases above and in no other.
BindsAsPython ==
    stage = "ran" /\ Ordinary =>
        IF PythonAgrees
        THEN \A p \in Params : Origin(got[p]) = Origin(PythonBinds(Meant, MeantKeys)[p])
        ELSE validates /\ (TooMany \/ Doubled \/ OverTheStar)

\* A task is given its values in the form its dispatch says: a task that is not
\* validated has the objects of its caller, and a validated one has data in every
\* parameter, defaults included.  (So "async def send_email(data: EmailData)" of
\* README.md:209 is given a dictionary and no EmailData.)
ArrivesInForm ==
    stage = "ran" /\ Ordinary =>
        \A p \in Fields : got[p].form = IF validates THEN "data" ELSE "object"

\* A call Python takes, with values of the right types, is not refused.
TakesWhatPythonTakes ==
    stage \in {"refused", "invalid", "TypeError"} /\ Ordinary /\ valid => ~PythonAgrees

\* Invalid calls of a validated task do not get into the queue ("Validation errors
\* are raised immediately", docs/tutorial/validation.md:97): a task that was
\* published is not found wanting by the worker, which validates once more and
\* calls the function in another way.
NothingInvalidQueued ==
    validates /\ Ordinary => stage \notin {"invalid", "TypeError"}
=============================================================================
