----------------------------- MODULE Operations -----------------------------
(***************************************************************************)
(* What the compiler knows of an operation, whatever format declared it:   *)
(* the part of the API Semantic IR (models.py) that decides something,     *)
(* what a route says about identifiers (routes.py), which values a         *)
(* composite carries from one step to the next (codegen/composite.py), and *)
(* how the arguments of a tool are composed (codegen/schema.py).           *)
(*                                                                         *)
(* A word is a string.  A route is the sequence of its segments, each with *)
(* its text and whether it is a {template}; an operation without a route,  *)
(* such as a SOAP one, is not `routed` and has an empty one.  Provenance,  *)
(* descriptions, examples and schemas are left out: a field keeps only     *)
(* what a later stage reads of it.                                         *)
(***************************************************************************)
EXTENDS Integers, Sequences, FiniteSets, SequencesExt

None == "none"

SideEffects == {"read", "write", "destructive", "unknown"}
Risks == {"read", "write", "destructive", "privileged", "unknown"}
Kinds == {"tool", "resource", "prompt", "composite", "omitted"}
Statuses == {"proposed", "approved", "rejected"}
Planners == {"baseline", "semantic"}

\* Ingestion never yields "privileged".
RiskOf == [effect \in SideEffects |-> effect]

Ambiguity(code, operation, blocking) ==
    [code |-> code, operation |-> operation, blocking |-> blocking]
When(condition, element) == IF condition THEN {element} ELSE {}

NoAuth == [declared |-> FALSE, disabled |-> FALSE, schemes |-> {}, scopes |-> {},
           alternatives |-> <<>>]

Ids(ops) == {ops[i].id : i \in DOMAIN ops}
At(ops, id) == {i \in DOMAIN ops : ops[i].id = id}
\* Of several operations with one identifier a table by identifier keeps the last, which
\* is what the gate and the policy look at; the emitters search, and find the first.
Operation(ops, id) == ops[CHOOSE i \in At(ops, id) : \A j \in At(ops, id) : j <= i]
FirstOperation(ops, id) == ops[CHOOSE i \in At(ops, id) : \A j \in At(ops, id) : i <= j]
Steps(ops, ids) == [i \in DOMAIN ids |-> Operation(ops, ids[i])]

-----------------------------------------------------------------------------
(* Routes *)

Named(route) == SelectSeq(route, LAMBDA segment : ~segment.template)
Texts(route) == [i \in DOMAIN route |-> route[i].text]

\* Whether an operation hands back an identifier: a read, or a change of a collection.
YieldsIdentifiers(op) ==
    \/ op.effect = "read"
    \/ op.effect # "destructive" /\ op.route # <<>> /\ ~Last(op.route).template

YieldedCollection(op) ==
    IF YieldsIdentifiers(op) /\ Named(op.route) # <<>>
    THEN Last(Named(op.route)).text ELSE None

\* Where a route takes an identifier of the resource named before it.
Identifiers(op) ==
    {i \in 2..Len(op.route) : op.route[i].template /\ ~op.route[i - 1].template}
RequiredResources(op) == {op.route[i - 1].text : i \in Identifiers(op)}
CallableFromAGoal(op) == Identifiers(op) = {}

IdentifierArgument(op, resource) ==
    LET at == {i \in 2..Len(op.route) :
                   op.route[i].template /\ op.route[i - 1].text = resource}
    IN op.route[CHOOSE i \in at : \A j \in at : i <= j].text

\* The argument of `writer` that `reader` supplies.
ThreadBinding(reader, writer) ==
    LET produced == YieldedCollection(reader)
    IN IF produced \in RequiredResources(writer) \ {None}
       THEN IdentifierArgument(writer, produced) ELSE None

-----------------------------------------------------------------------------
(* Composites and arguments *)

\* Which arguments of a step an earlier step can supply.
Threads(steps) ==
    {thread \in {[argument |-> ThreadBinding(steps[p[2]], steps[p[1]]),
                  step |-> p[1], from |-> p[2]] :
                     p \in {q \in (DOMAIN steps) \X (DOMAIN steps) : q[2] < q[1]}} :
        thread.argument # None}

\* Of several steps that take an argument of one name the first has it, from the first
\* that can supply it.
Foremost(threads) ==
    [argument \in {t.argument : t \in threads} |->
        CHOOSE t \in threads : t.argument = argument /\ \A u \in threads :
            u.argument = argument => \/ t.step < u.step
                                     \/ t.step = u.step /\ t.from <= u.from]
CompositeThreading(steps) == Foremost(Threads(steps))

\* The inputs of all steps, in order, under the names they have by themselves.
Fields(steps) ==
    FlattenSeq([s \in DOMAIN steps |-> [k \in DOMAIN steps[s].inputs |->
        LET field == steps[s].inputs[k] IN
        [step |-> s, of |-> steps[s].id, in |-> field.in, wire |-> field.name,
         required |-> field.required,
         bare |-> [of |-> None, name |-> IF field.in = "body" THEN "body" ELSE field.name]]]])

\* An argument is known by its name, and by its step too when the name is taken.
Arguments(fields) ==
    LET named[k \in 0..Len(fields)] ==
            IF k = 0 THEN <<>>
            ELSE LET before == named[k - 1]
                     bare == fields[k].bare
                 IN Append(before, IF bare \in ToSet(before)
                                   THEN [bare EXCEPT !.of = fields[k].of] ELSE bare)
    IN named[Len(fields)]

\* `omit` withholds optional arguments, `supplied` those a composite fills for itself.
Compose(fields, argument, single, omit, supplied) ==
    LET Taken(k) == \/ argument[k].of # None \/ argument[k].name \notin omit
                   \/ fields[k].required
        Asked(k) == Taken(k) /\ (argument[k].of # None \/ argument[k].name \notin supplied)
    IN [collision |->
            \E k \in DOMAIN fields :
                \/ single /\ argument[k] # fields[k].bare
                \/ \E j \in 1..(k - 1) : argument[j] = argument[k],
        properties |-> {argument[k] : k \in {k \in DOMAIN fields : Asked(k)}},
        required |-> {argument[k] : k \in {k \in DOMAIN fields :
                                              fields[k].required /\ Asked(k)}},
        bindings |-> {[at |-> k, argument |-> argument[k], step |-> fields[k].step,
                       in |-> fields[k].in, wire |-> fields[k].wire] :
                          k \in {k \in DOMAIN fields : Taken(k)}}]

\* The flat argument list of a tool.
ComposeInputSchema(steps, omit, supplied) ==
    LET ComposeFields(fields) ==
            Compose(fields, Arguments(fields), Len(steps) = 1, omit, supplied)
    IN ComposeFields(Fields(steps))

NoArguments == [collision |-> TRUE, properties |-> {}, required |-> {}, bindings |-> {}]
=============================================================================
