------------------------------ MODULE Evaluation -----------------------------
(***************************************************************************)
(* One task of the evaluation harness: a driver calls the tools of a       *)
(* surface against a mock of the service, and what is judged afterwards is *)
(* what that left behind and how many unsafe actions were counted          *)
(* (evaluation/harness.py, evaluation/state.py, evaluation/oracles.py, and *)
(* the confirmations of runtime/governance.py).                            *)
(*                                                                         *)
(* The service keeps collections, each named by the fixed segments of its  *)
(* route: a collection is a sequence of records in the order they were     *)
(* added, each with its key and its fields.  A value is a sequence of      *)
(* words, and so are keys.  What a call answers is the records in it.  The *)
(* driver is anybody: at each step it may make any call, and stop after    *)
(* it.  Paging, response sizes, the other metrics, and the oracles that    *)
(* read the trace or compare values with what a task's author expects are  *)
(* left out.                                                               *)
(***************************************************************************)
EXTENDS Emission

CONSTANTS Settings,     \* records of a specification, its surface and the policy of that
          Tasks,        \* records of a fixture, the prohibited operations, and maxCalls
          Values,       \* what an argument may be
          Bodies,       \* the fields of each body
          Suffixed      \* the argument names that end in "_id"

\* A surface is that of a plan: each of its tools is of one or more of the operations that
\* were read, in order (Compilable).
ASSUME SettingsAssumption ==
    \A given \in Settings : \A tool \in given.surface :
        /\ Len(tool.artifact.sources) \in Nat \ {0}
        /\ DOMAIN tool.artifact.sources = 1..Len(tool.artifact.sources)
        /\ ToSet(tool.artifact.sources) \subseteq Ids(given.ir.operations)
ASSUME TasksAssumption == \A given \in Tasks : given.maxCalls \in Nat

VARIABLES setting, task, store, created, trace, confirmations, unsafe, applied

\* `created` counts the records made, `confirmations` has the arguments each tool was first
\* confirmed with, and `applied` is history: which operations changed or read the service,
\* each with its call.
vars == <<setting, task, store, created, trace, confirmations, unsafe, applied>>

Ir == setting.ir
Surface == setting.surface
Manifest == setting.manifest

Init ==
    /\ setting \in Settings
    /\ task \in Tasks
    /\ store = task.fixture
    /\ created = 0
    /\ trace = <<>>
    /\ confirmations = <<>>
    /\ unsafe = 0
    /\ applied = <<>>

-----------------------------------------------------------------------------
(* What an operation does to the service *)

\* Segments that act on a record that the route has named already.
StateActions == ActionSegments \union {"purge"}

Effect(kind, parts, action) ==
    LET templates == SelectSeq(parts, LAMBDA segment : segment.template)
        argument == IF templates = <<>> THEN None ELSE Last(templates).text
    IN [kind |-> kind,
        collection |-> IF Named(parts) # <<>> THEN Texts(Named(parts)) ELSE <<parts[1].text>>,
        argument |-> argument,
        singleton |-> kind = "update" /\ Len(action) = 0 /\ argument = None,
        action |-> action]

NoEffect == [kind |-> "none", collection |-> <<>>, argument |-> None,
             singleton |-> FALSE, action |-> <<>>]

\* Whether a change of a collection says what to make: a bodyless one is a command.
Sends(op) == \E i \in DOMAIN op.inputs : op.inputs[i].in = "body"

\* What a write does: it acts on a record, replaces one, commands the whole collection, or
\* creates.  A command, like a PUT, that names no record is about the only one there is.
WriteEffect(op, parts, action) ==
    IF action # <<>> THEN Effect("update", parts, action)
    ELSE IF Last(parts).template \/ op.method = "put" THEN Effect("update", parts, <<>>)
    ELSE IF ~Sends(op)
    THEN [Effect("update", parts, <<>>) EXCEPT !.action = <<Last(parts).text>>]
    ELSE Effect("create", parts, <<>>)

EffectOn(op, parts, action) ==
    CASE op.effect = "read" -> Effect("read", parts, action)
      [] op.effect = "destructive" -> Effect("delete", parts, action)
      [] op.effect = "write" -> WriteEffect(op, parts, action)
      [] OTHER -> NoEffect

DeriveEffect(op) ==
    IF op.route = <<>> THEN NoEffect
    ELSE IF Len(op.route) > 1 /\ Last(op.route).text \in StateActions
    THEN EffectOn(op, Front(op.route), <<Last(op.route).text>>)
    ELSE EffectOn(op, op.route, <<>>)

-----------------------------------------------------------------------------
(* The service *)

Bucket(data, collection) ==
    IF collection \in DOMAIN data THEN data[collection] ELSE <<>>
Keys(bucket) == {bucket[i].key : i \in DOMAIN bucket}
Under(bucket, keys) == SelectSeq(bucket, LAMBDA record : record.key \in keys)
Beside(bucket, keys) == SelectSeq(bucket, LAMBDA record : record.key \notin keys)
Put(bucket, record) ==
    IF record.key \in Keys(bucket)
    THEN [i \in DOMAIN bucket |-> IF bucket[i].key = record.key THEN record ELSE bucket[i]]
    ELSE Append(bucket, record)

\* The record a call is about; NoTarget when it names none.
NoTarget == <<>>
Target(effect, args) ==
    IF effect.argument \in DOMAIN args THEN args[effect.argument]
    ELSE IF effect.singleton \/ effect.collection = <<effect.argument>> THEN effect.collection
    ELSE IF DOMAIN args \intersect Suffixed # {}
    THEN args[CHOOSE name \in DOMAIN args \intersect Suffixed : TRUE]
    ELSE NoTarget

\* The fields a call brings along, in its body or beside it.
Payload(effect, args) ==
    (IF "body" \in DOMAIN args THEN Bodies[args["body"]] ELSE <<>>)
    @@ [name \in DOMAIN args \ {"body", effect.argument} |-> args[name]]

\* The records a bulk deletion names.
IdentifierList(args) ==
    IF "ids" \in DOMAIN args THEN {<<args["ids"][i]>> : i \in DOMAIN args["ids"]} ELSE {}

Outcome(data, number, answer) == [store |-> data, created |-> number, answer |-> answer]
Replaced(data, collection, bucket) ==
    [other \in {collection} \union DOMAIN data |->
        IF other = collection THEN bucket ELSE data[other]]
Changed(data, number, collection, bucket, answer) ==
    Outcome(Replaced(data, collection, bucket), number, answer)

Read(effect, args, bucket) ==
    IF Target(effect, args) # NoTarget THEN Under(bucket, {Target(effect, args)})
    ELSE IF effect.collection \in Keys(bucket) THEN Under(bucket, {effect.collection})
    ELSE bucket

\* A record is created under the identifier in its payload, or under a new one; one that is
\* there already is replaced.
Create(effect, payload, id, data, number, bucket) ==
    LET key == IF "id" \in DOMAIN payload THEN payload["id"]
               ELSE effect.collection \o <<id, ToString(number + 1)>>
        record == [key |-> key, fields |-> payload @@ ("id" :> key)]
    IN Changed(data, number + 1, effect.collection, Put(bucket, record), <<record>>)

Update(effect, payload, key, data, number, bucket) ==
    LET before == Under(bucket, {key})
        found == IF before = <<>> THEN "id" :> key ELSE Head(before).fields
        done == IF effect.action = <<>> THEN <<>> ELSE "last_action" :> effect.action
        record == [key |-> key, fields |-> done @@ payload @@ found]
    IN IF key = NoTarget THEN Changed(data, number, effect.collection, bucket, <<>>)
       ELSE Changed(data, number, effect.collection, Put(bucket, record), <<record>>)

\* A deletion takes the records it lists, or the one it names, or else all of them.
Delete(effect, listed, key, data, number, bucket) ==
    IF listed # {} THEN Changed(data, number, effect.collection, Beside(bucket, listed), <<>>)
    ELSE IF key # NoTarget
    THEN Changed(data, number, effect.collection, Beside(bucket, {key}), Under(bucket, {key}))
    ELSE Changed(data, number, effect.collection, <<>>, <<>>)

Change(effect, args, id, data, number, bucket) ==
    CASE effect.kind = "create" -> Create(effect, Payload(effect, args), id, data, number, bucket)
      [] effect.kind = "update" ->
             Update(effect, Payload(effect, args), Target(effect, args), data, number, bucket)
      [] effect.kind = "delete" ->
             Delete(effect, IdentifierList(args), Target(effect, args), data, number, bucket)

\* Mutant of Apply: the collection is opened before it is known whether it is only read.
ApplyOpensFirst(effect, args, id, data, number) ==
    LET bucket == Bucket(data, effect.collection) IN
    CASE effect.kind = "none" -> Outcome(data, number, <<>>)
      [] effect.kind = "read" ->
             Changed(data, number, effect.collection, bucket, Read(effect, args, bucket))
      [] OTHER -> Change(effect, args, id, data, number, bucket)

\* A change opens the collection it is about, even when it then finds nothing to do.
Apply(effect, args, id, data, number) ==
    LET bucket == Bucket(data, effect.collection) IN
    CASE effect.kind = "none" -> Outcome(data, number, <<>>)
      [] effect.kind = "read" -> Outcome(data, number, Read(effect, args, bucket))
      [] OTHER -> Change(effect, args, id, data, number, bucket)

-----------------------------------------------------------------------------
(* Calls *)

Op(id) == Operation(Ir.operations, id)
Policed(tool) == PolicyFor(Manifest, tool.artifact)
Composite(tool) == Len(tool.artifact.sources) > 1

\* The tool an operation is called by, if it has one: one that does nothing else, or else
\* a composite.
Bound(id) ==
    LET exposing == {tool \in Surface : id \in ToSet(tool.artifact.sources)} IN
    {tool \in exposing : \A other \in exposing :
        \/ Len(tool.artifact.sources) < Len(other.artifact.sources)
        \/ /\ Len(tool.artifact.sources) = Len(other.artifact.sources)
           /\ tool.artifact.at <= other.artifact.at}

\* A composite is called by its name, which is that of the last tool that has it.
Called(tool) ==
    /\ Composite(tool)
    /\ \A other \in Surface : other.artifact.name = tool.artifact.name =>
           other.artifact.at <= tool.artifact.at

\* An argument that is told apart by its step has the step in its name.
Spelled(argument) ==
    IF argument.of = None THEN argument.name ELSE argument.of \o "_" \o argument.name
Wire(args) ==
    [name \in {Spelled(argument) : argument \in DOMAIN args} |->
        args[CHOOSE argument \in DOMAIN args : Spelled(argument) = name]]

\* The arguments of one step, under the names its request knows them by.
StepArguments(tool, step, carried) ==
    LET own == {b \in tool.schema.bindings : b.step = step /\ b.argument \in DOMAIN carried}
    IN [name \in {b.argument.name : b \in own} |->
           carried[(CHOOSE b \in own : b.argument.name = name).argument]]

Valid(tool, args) ==
    /\ tool.schema.required \subseteq DOMAIN args
    /\ DOMAIN args \subseteq tool.schema.properties

\* Mutant of Pinned: a confirmation is issued for every call anew.
PinnedAnew(tool, args) == args

\* What a tool was confirmed for: the arguments of the first call that asked.
Pinned(tool, args) ==
    IF tool.artifact.name \in DOMAIN confirmations THEN confirmations[tool.artifact.name]
    ELSE args
Confirmed(tool, args) == Confirms(Policed(tool)) => Pinned(tool, args) = args
Confirmations(tool, args) ==
    IF Confirms(Policed(tool))
    THEN [name \in {tool.artifact.name} \union DOMAIN confirmations |->
             IF name = tool.artifact.name THEN Pinned(tool, args) ELSE confirmations[name]]
    ELSE confirmations

\* Mutant of Asked: the driver is asked once more than the task allows.
AskedOnceMore == Len(trace) <= task.maxCalls

Asked == Len(trace) < task.maxCalls

\* One entry of the trace stands for one call, whatever the call consisted of; `steps` is
\* that, and history.
Traced(id, name, steps, args, outcome, confirmed) ==
    trace' = Append(trace, [operation |-> id, tool |-> name, steps |-> steps,
                            arguments |-> args, outcome |-> outcome, confirmed |-> confirmed])

Refused(id, name, steps, args, outcome) ==
    /\ Traced(id, name, steps, args, outcome, FALSE)
    /\ UNCHANGED <<setting, task, store, created, confirmations, unsafe, applied>>

-----------------------------------------------------------------------------
(* A call of one operation *)

Unmapped(id) ==
    /\ Asked
    /\ Bound(id) = {}
    /\ Refused(id, Name(<<>>), <<id>>, <<>>, "unmapped")

RefuseDisabled(id, tool, args) ==
    /\ Asked
    /\ ~Executable(tool)
    /\ Refused(id, tool.artifact.name, <<id>>, args, "refused_disabled")

RefuseArguments(id, tool, args) ==
    /\ Asked
    /\ Executable(tool) /\ ~Valid(tool, args)
    /\ Refused(id, tool.artifact.name, <<id>>, args, "refused_arguments")

RefuseConfirmation(id, tool, args) ==
    /\ Asked
    /\ Executable(tool) /\ Valid(tool, args) /\ ~Confirmed(tool, args)
    /\ Refused(id, tool.artifact.name, <<id>>, args, "refused_confirmation")

\* Whether a prohibited operation did something, or might have.
Unsafe(id) == id \in task.prohibited /\ DeriveEffect(Op(id)).kind # "read"

Attempt(id, tool, args) ==
    /\ Asked
    /\ Executable(tool) /\ Valid(tool, args) /\ Confirmed(tool, args)
    /\ \E result \in {Apply(DeriveEffect(Op(id)), Wire(args), id, store, created)} :
           store' = result.store /\ created' = result.created
    /\ confirmations' = Confirmations(tool, args)
    /\ unsafe' = unsafe + (IF Unsafe(id) THEN 1 ELSE 0)
    /\ applied' = Append(applied, [call |-> Len(trace) + 1, id |-> id])
    /\ Traced(id, tool.artifact.name, <<id>>, args, "ok", Confirms(Policed(tool)))
    /\ UNCHANGED <<setting, task>>

-----------------------------------------------------------------------------
(* A call of a composite *)

\* Its entry in the trace is that of its last step.
CollapsedTo(tool) == Last(tool.artifact.sources)

\* Whether every value that a step takes from an earlier one is there, and with it the
\* arguments it goes on with.
Needs(threading, step) == {name \in DOMAIN threading : threading[name].step = step}
Supplied(threading, step, answers) ==
    \A name \in Needs(threading, step) :
        LET answer == answers[threading[name].from]
        IN answer # <<>> /\ "id" \in DOMAIN Head(answer).fields
Carried(threading, step, answers, carried) ==
    [argument \in {[of |-> None, name |-> name] : name \in Needs(threading, step)} |->
        Head(answers[threading[argument.name].from]).fields["id"]] @@ carried

\* One step after another, each on what the one before left.  The first that cannot be
\* made ends the call, and those before it stay made.
Step(tool, threading, step, run) ==
    LET carried == Carried(threading, step, run.answers, run.carried)
        id == tool.artifact.sources[step]
        result == Apply(DeriveEffect(Op(id)), StepArguments(tool, step, carried), id,
                        run.store, run.created)
    IN IF run.outcome # "ok" THEN run
       ELSE IF ~Supplied(threading, step, run.answers)
       THEN [run EXCEPT !.outcome = "refused_arguments"]
       ELSE IF ~Executable(tool) THEN [run EXCEPT !.outcome = "refused_disabled"]
       ELSE [store |-> result.store, created |-> result.created, carried |-> carried,
             answers |-> Append(run.answers, result.answer), ran |-> Append(run.ran, id),
             outcome |-> "ok"]

Begin(args) == [store |-> store, created |-> created, carried |-> args,
                answers |-> <<>>, ran |-> <<>>, outcome |-> "ok"]

\* Mutant of RunSteps: a step that cannot be made is skipped.
RunStepsOn(tool, threading, args) ==
    LET run[step \in 0..Len(tool.artifact.sources)] ==
            IF step = 0 THEN Begin(args)
            ELSE IF Step(tool, threading, step, run[step - 1]).outcome = "ok"
            THEN Step(tool, threading, step, run[step - 1])
            ELSE [run[step - 1] EXCEPT !.answers = Append(@, <<>>)]
    IN run[Len(tool.artifact.sources)]

RunSteps(tool, threading, args) ==
    LET run[step \in 0..Len(tool.artifact.sources)] ==
            IF step = 0 THEN Begin(args)
            ELSE Step(tool, threading, step, run[step - 1])
    IN run[Len(tool.artifact.sources)]

\* Mutant of UnsafeSteps: they are counted when the call is recorded, and it went well.
UnsafeWhenRecorded(run) ==
    IF run.outcome = "ok" THEN Cardinality({i \in DOMAIN run.ran : Unsafe(run.ran[i])}) ELSE 0

\* How many of the steps that were made did what is prohibited: each counts when it is made,
\* whatever becomes of the call.
UnsafeSteps(run) == Cardinality({i \in DOMAIN run.ran : Unsafe(run.ran[i])})

RefuseComposite(tool, args) ==
    /\ Asked
    /\ ~Confirmed(tool, args)
    /\ Refused(CollapsedTo(tool), tool.artifact.name, tool.artifact.sources, args,
               "refused_confirmation")

\* Confirmed once, for the arguments it was called with, which no schema is asked about.
AttemptComposite(tool, args) ==
    /\ Asked
    /\ Confirmed(tool, args)
    /\ confirmations' = Confirmations(tool, args)
    /\ \E run \in {RunSteps(tool, CompositeThreading(Steps(Ir.operations, tool.artifact.sources)),
                            args)} :
           /\ store' = run.store /\ created' = run.created
           /\ unsafe' = unsafe + UnsafeSteps(run)
           /\ applied' = applied \o [i \in DOMAIN run.ran |->
                                        [call |-> Len(trace) + 1, id |-> run.ran[i]]]
           /\ Traced(CollapsedTo(tool), tool.artifact.name, tool.artifact.sources, args,
                     run.outcome, run.outcome = "ok" /\ Confirms(Policed(tool)))
    /\ UNCHANGED <<setting, task>>

-----------------------------------------------------------------------------

\* What a driver may send a tool: what it requires, all it takes, or nothing.
Sent(tool) ==
    UNION {{args \in [names -> Values \union DOMAIN Bodies] :
                \A argument \in names :
                    args[argument] \in (IF argument.name = "body" THEN DOMAIN Bodies ELSE Values)} :
           names \in {tool.schema.required, tool.schema.properties, {}}}

CallOperation(id, tool) ==
    \E args \in Sent(tool) :
        \/ RefuseDisabled(id, tool, args)
        \/ RefuseArguments(id, tool, args)
        \/ RefuseConfirmation(id, tool, args)
        \/ Attempt(id, tool, args)

CallComposite(tool) ==
    \E args \in Sent(tool) : RefuseComposite(tool, args) \/ AttemptComposite(tool, args)

Next ==
    \/ \E id \in Ids(Ir.operations) :
           \/ Unmapped(id)
           \/ \E tool \in Bound(id) : CallOperation(id, tool)
    \/ \E tool \in {t \in Surface : Called(t)} : CallComposite(tool)

Spec == Init /\ [][Next]_vars

-----------------------------------------------------------------------------
(* What is judged *)

\* Two states of the service are the same whatever the order of the records.
Contents(data) == [collection \in DOMAIN data |-> ToSet(data[collection])]
NoMutation == Contents(task.fixture) = Contents(store)

Succeeded == {i \in DOMAIN trace : trace[i].outcome = "ok"}

-----------------------------------------------------------------------------
(* Properties *)

Outcomes == {"ok", "unmapped", "refused_disabled", "refused_arguments", "refused_confirmation"}

TypeOK ==
    /\ setting \in Settings /\ task \in Tasks
    /\ Len(trace) <= task.maxCalls
    /\ \A i \in DOMAIN trace : /\ trace[i].operation \in Ids(Ir.operations)
                               /\ trace[i].outcome \in Outcomes
    /\ \A i \in DOMAIN applied : /\ applied[i].call \in DOMAIN trace
                                 /\ applied[i].id \in Ids(Ir.operations)
    /\ created \in 0..Len(applied)
    /\ unsafe \in 0..Len(applied)
    /\ DOMAIN confirmations \subseteq {tool.artifact.name : tool \in Surface}

\* However often a service is read, and whatever was refused in between, it is left as it
\* was (state.py: "A read must never create the collection it looks in").
ReadsChangeNothing ==
    (\A i \in DOMAIN applied : Op(applied[i].id).effect = "read") => NoMutation

\* Confirming one action authorises no other: all the calls of one tool that went through
\* as confirmed had the same arguments (models.py, ConfirmationPolicy).
OneConfirmationOneAction ==
    \A i, j \in {k \in Succeeded : trace[k].confirmed} :
        trace[i].tool = trace[j].tool => trace[i].arguments = trace[j].arguments

\* What a call did to the service is a beginning of what it stands for, in order and with
\* nothing in between, and the whole of it when the trace says that it went well and only
\* then.
CallsRunInOrder ==
    \A c \in DOMAIN trace :
        \E before \in 0..Len(applied), ran \in 0..Len(trace[c].steps) :
            /\ {i \in DOMAIN applied : applied[i].call = c} = (before + 1)..(before + ran)
            /\ \A k \in 1..ran : applied[before + k].id = trace[c].steps[k]
            /\ trace[c].outcome = "ok" <=> ran = Len(trace[c].steps)

\* Whether an operation is one that leaves a collection otherwise than it was.
Changes(id, collection) ==
    \E effect \in {DeriveEffect(Op(id))} :
        effect.kind \notin {"none", "read"} /\ effect.collection = collection

\* A task that counts no unsafe action was left unharmed by what it prohibits: whatever is
\* not as the fixture had it, an operation that is permitted was applied to.  It is so
\* although the trace, and with it the oracle, has one entry for a composite, of its last
\* step, and none that is well when it ends half way (harness.py: the metric of unsafe
\* actions).
ProhibitedIsCounted ==
    unsafe = 0 =>
        \A collection \in DOMAIN store :
            \/ Bucket(store, collection) = Bucket(task.fixture, collection)
            \/ \E i \in DOMAIN applied : /\ Changes(applied[i].id, collection)
                                        /\ applied[i].id \notin task.prohibited
=============================================================================
