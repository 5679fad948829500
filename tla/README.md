# Verification of api-mcp-compiler

api-mcp-compiler reads an API specification, plans a set of MCP tools from it,
derives a policy for each tool, lets a person review the plan, and writes a
server that serves the approved tools and calls the API behind them. The
compiler is a pipeline of functions between files that people, services and
other runs of it change; the servers it writes are the concurrent part, and the
part that can do damage. This directory models the program in TLA+, checks the
models with TLC and proves most of the safety results with TLAPS.

All source paths below are relative to `src/src/api_mcp_compiler/` unless they
begin with `guide/` or a file name of the repository's root.

## Inventory

| Component | State | Operations | What must hold |
| --- | --- | --- | --- |
| Ingestion (`ingest/openapi.py`, `swagger2.py`, `wsdl.py`, `xsd.py`, `wspolicy.py`, `transport.py`) | none: functions from documents to the IR | one per format | every declared element is translated or reported; what is not understood blocks what depends on it |
| Reference resolution (`ingest/refs.py`) | the documents loaded in one parse | walk, follow, load | the walk ends, stays inside what is allowed, uses the pinned bytes, drops nothing in silence |
| Vendoring (`ingest/vendoring.py`) | cache and lock on disk | fetch, pin, check; a compile reads both | what a compile uses is what somebody recorded, whatever was killed in between |
| Planning and review (`planning/`) | the overlay on disk, bound to a digest | plan, approve, re-stamp, edit | approvals apply to what was reviewed, and only to that |
| Policy synthesis (`policy/synthesis.py`) | none | `synthesize_policy` | a composite is as constrained as its most demanding step |
| Emission gate and schemas (`codegen/tools.py`, `schema.py`, `composite.py`, `routes.py`) | none: a function of IR, plan and policy | `generate_surface` | nothing that changes state is served without approval, classification and policy; every argument a step needs can be given |
| Call budgets (`codegen/mcp_server.py`, `codegen/soap_server.py`: `_reserve`, `_release`) | stamps, day windows and slots per tool, in the process | take a call, refuse it, give the slot back, restart | limits hold over every stretch of time, slots match the calls in flight, a refusal names the right moment to half a millisecond |
| Second-call confirmation, 1.x (`_invoke`) | deadlines per digest of tool and arguments | ask, pass, expire, prune | one question lets one call past, in time, before any budget is spent |
| Confirmation by a person, 2.x (`codegen/registration.py`) | sealed states held by clients, spent nonces per process, an optional shared record | ask, elicit, present, spend | one answer is looked at once, by whatever process, in time |
| Delivery (`_send`, `_post`, the step loop of `_invoke`) | attempt, step, requests in the network | send, repeat, advance, fail | no repeated effect, stop at the first failure, end |
| Evaluation (`evaluation/`, `runtime/governance.py`) | service store, trace, tokens of a task | attempt, compose, judge | refused calls change nothing; a confirmation counts for one action; what a task prohibits is counted or not done |
| CLI (`cli.py`) | files | approve, serve, overlay-restamp, vendor-refs; printing commands | a command that fails writes nothing |
| Other adapters, drivers, reports, scripts | none | | (outside the models) |

How they interact: an ingester yields the IR, reading remote documents from what
vendoring left; the planner turns IR and overlay into a plan; policy synthesis
turns IR and plan into a manifest; the emission gate turns all three into a
surface; the emitters write a server from the surface. The generated server
validates a call, has it confirmed, reserves from its budget, and delivers it, in
that order. Validation, the 1.x confirmation and the reservation run without an
await; the 2.x confirmation awaits a shared record; delivery awaits the service at
every attempt. Every other process of a deployment shares the service, the sealing
key and the record, and nothing else. The evaluation harness runs tasks on a
surface against a store in memory.

Hard behaviours: calls interleaving at awaits; processes that crash, restart and
do not share memory; clocks that differ; answers that are lost or late; limits at
the edges of time windows; composites, of which one step can fail, be repeated or
be more dangerous than the step that was looked at; decisions recorded about bytes
that have changed since; files written one by one by a run that can be killed.

## Modules

| Module | Models |
| --- | --- |
| `CallBudget` | `_reserve` and `_release` of one process, with restarts; implements `FairBudget` |
| `FairBudget` | what the budgets promise, told from the admitted calls alone |
| `CallTwice` | extends `CallBudget` with validation and the 1.x confirmation |
| `ConfirmationGate` | the 2.x gate over several processes and a shared record; implements `ConfirmOnce` |
| `ConfirmOnce` | what a confirmation promises, with no process or record in it |
| `Delivery` | one invocation against the service: retries, steps, policy |
| `Operations` | the IR of operations and artifacts; routes, composite threading, input schemas |
| `Planning` | `plan_semantic`, `plan_baseline`, `approve`, `restamp`, overlay entries |
| `Policy` | `synthesize_policy`: approval, confirmation, scopes, retry, rate, sensitivity, routing headers |
| `Emission` | credentials, `generate_surface`, annotations, what the emitters serve or refuse |
| `Language` | the words of names and descriptions that decide something (`language.py`) |
| `References` | which references are followed, into which file, how deep (`refs.py`) |
| `OpenApi` | OpenAPI 3 and Swagger 2 documents to the IR |
| `Wsdl` | WSDL with XSD, WS-Policy and transport files to the IR |
| `Ingestion` | the choice of the adapter, and what the formats share |
| `Review` | composes all of the above: a specification revised, reviewed and served; implements `Release` |
| `Release` | what the review promises, with no overlay, plan or policy in it |
| `Vendoring` | `vendor-refs` step by step, and the compile that reads what it left |
| `Evaluation` | the harness, the store, the tokens and the count of unsafe actions |
| `Samples` | builders of small documents, used by the instances |
| `MC...` | the instances TLC checks, one per component |
| `...Proofs` | theorems about `CallBudget`, `CallTwice`, `ConfirmationGate`, `Delivery`, `Planning` and the schemas, `Review`, `Vendoring`, `Evaluation` |

Each module keeps its mutants beside the definitions they alter: an operator
with the comment "Mutant of D" is D with a plausible bug. No specification uses
them; replacing D by one must make the property it is listed for fail.

**CallBudget.** `recent`, `daily` and `active` are `_RECENT`, `_DAILY` and
`_ACTIVE`. A stamp belongs to one call, so a list of stamps is the set of the
calls and `at` gives the stamps. `Recent` and `Window` are the pruned list and the
reopened window that `_reserve` computes before it decides; `Limit` is the first
limit it finds reached; `Admit` stores all three counters, `Refuse` none of them,
exactly because the function returns before its assignments. An entry missing from
`_DAILY` reads as a window opened now with nothing spent, which is what a window a
day old turns into, so `Unopened` is such a window and no option type is needed.
`Release` is the `finally`. `Restart` drops every counter and the calls in flight.
`Unit` is the millisecond to which `round(..., 3)` takes the wait of a refusal
(`Remaining`), and `Rounded` that rounding, so the clock of the model is finer than a
millisecond and a wait can be rounded down, to 0 too. The promises are of one process,
as the comment at `codegen/mcp_server.py:434` says: they speak of the calls since its last
start, and what a service sees over a restart is not bounded by anything.

**CallTwice.** `_invoke` reaches `_reserve` without an await, so `Pass` takes the
token and admits or refuses in one step, and `AskAgain` pops a lapsed token, prunes
and issues in one step. A tool whose policy needs no confirmation passes directly.

**ConfirmationGate.** A call is sent to a process and is asked, elicited, or
presents a nonce. Without a record, lookup and insertion in `_SPENT` and the
comparison of what was typed are one step. With a record, `PresentToRecord` starts
the SET, `RecordSet` is Redis applying SET NX PX, `RecordReply` the reply and
`RecordFails` an exception, before or after the SET was applied. Processes read
`time.time()` with an error of up to `Skew`. The environment a process starts in is
part of the initial state, and `Starts` is what `_state_security` accepts. The SDK's
sealing is external: a state is bound to its tool, arguments and caller, so one
such triple is modelled, and a process without the key refuses the state.

**Delivery.** A tool is a transport, its steps with what the IR says of each, and
whether the second step needs a value of the first response. `Retry` is `_retry` as
`synthesize_policy` calls it. `CONDITIONAL` and `UNKNOWN` idempotency are treated
alike by the code and are one value here. The service is external and modelled from
how the client must treat it: a request acts or not, its answer may be lost, it may
act after the client gave up, it may redirect, and it may remember idempotency keys,
per route.

**Operations, Planning, Policy, Emission.** These are the pure middle of the
compiler, as functions on records that have the fields of `models.py` which decide
something. Names and paths are sequences of words or segments, so that comparing,
qualifying and de-duplicating them is done as the code does it and nothing is
spelled. `Compose` is the merging of the steps' schemas with its collisions and
qualified names, `CompositeThreading` the values taken from earlier answers,
`PlannedNames` the running de-duplication, `Superseded` what a composite takes off
the surface, `GenerateSurface` the gate with its blockers, `Emit` and `Runs` what the
two emitters then serve.

**OpenApi, Wsdl, References, Language, Ingestion.** A document is a tree of records
as a reader finds it on disk, references included; parsing is a function to the IR
or to a refusal. References are resolved by a recursive function of the depth that
is left, as the walk of `refs.py` is bounded by its stack and depth; a library holds
the other files with their bytes, the directories allowed and the lock's entries.
What the adapters report is kept as the set of ambiguities, each with the operation
it is about and whether it blocks, because the gate reads them.

**Review.** The state is what is on disk: `specification` (the IR that parsing it
yields), `overlay`, and `served`, the last module that was written. `vouched` is
history. One action per command and per kind of edit by hand. Commands write their
file in one step, and a command that is refused is a step that is not taken. A
composite proposal is taken up as a person would, by copying it into the overlay.

**Vendoring.** The run and the compile are small-step: `Fetch`, `Open` (the file is
created), `Write` (it has its bytes), then `Finish` writes the lock, with `Killed`
possible anywhere; the compile has `Check` (the digest is compared) and `Load` (the
file is read again). The write of the lock is one step; it is small and no test or
comment promises more. The digest of bytes is the bytes. One `vendor-refs` runs at a
time; `Overlapping` says whether a compile may run beside it.

**Evaluation.** A setting is a surface with its manifest and its IR; a task a fixture,
the prohibited operations and a bound on calls. `store`, `trace`, `confirmations`,
`applied` (history: which operation each call ran) and the counters are the harness's.
`RunSteps` is the loop over a composite's steps with the values it threads; `Change`
is `ServiceStore.apply`, `UnsafeSteps` the metric `unsafe_actions`, which counts the steps
as they are made, and `NoMutation` the oracle of that name. The surface is
enforced as `evaluate --enforce-policy` does. With one IR behind both, the branch for
a step that the store does not know cannot be reached and is left out.

## Runs

| Run | Question | Bounds |
| --- | --- | --- |
| `call_twice` | Do pruned counters keep the promised limits, over windows and restarts; does one confirmation let one call past, and do only such calls cost budget? | four reads and four removals, of three tokens and two tools; limits of 1 and 2; minute 3, day 6, time to live 2, a millisecond of 3; clock to 8, to 3 once the gate is in use |
| `confirmation_gate` | Is one answer looked at once, whatever fails? | three calls, two processes, one nonce, clock to 6 |
| `delivery` | Do retries repeat no effect, composites stop, and calls end? | every tool of one step, two composites, three attempts, services of every kind |
| `review` | Is what changes state served only as it was vouched for, whatever was revised, edited and re-stamped? | seven documents of four services in three formats, one or two edits by hand, two effects, one kind, two names |
| `vendoring` | Do compiles use only bytes that the lock pins and somebody recorded? | two documents of two contents, four changes from outside |
| `evaluation` | Do tasks change what their trace says, and is what they prohibit counted? | seven operations, three composites, two tasks of three calls |
| `confirmation_composite`, `delivery_composite`, `delivery_soap`, `review_names`, `review_rejection`, `review_arguments` | the findings below | as small as shows them |

Why the bounds are enough.

* *Budgets.* The reads need no confirmation and are there for the limits: four are one
  more than `2 * 2 - 1`, the most that a day can hold, and the clock of 8 reaches from
  the end of one window of 6 into the next and past a full minute of it. A millisecond of
  3 units makes the rounding go up and down.
* *Second call.* Three removals with the same digest are a question, its answer and a
  replay; a fourth of another digest shows that a token is no one else's, and budgets of
  one call a minute and one at a time make a pass meet a refusal.
* *Both in one run.* The two tools share the clock and a restart, and no counter, so
  `OneToolBusy` lets the reads go on for days only while no removal was sent, and beside
  removals only one read for a few units. `NamedInTurn` names calls that are alike in the
  order they come in, which loses only names. What is not explored is removals over more
  than three units of time, and both tools busy for days.
* *Gate.* Three calls are a question and two presentations of its state; two
  processes are a replay on another one, or a restart (the crash of one and the first
  call of another); nonces are independent of each other in the code, each with its
  own key in the record and its own entry in `_SPENT`; the clock goes past the latest
  moment a state of time 0 can be presented and past the expiry of its record. The
  constants keep the order of the real ones: `Skew + SpendDelay < Grace` stands for a
  clock skew and a socket timeout of five seconds that together stay under the 60
  seconds `_spend` adds. A deployment whose clocks differ by more is outside it.
* *Delivery.* The number of attempts is the code's own; the services are all
  combinations of honouring keys, losing answers and redirecting.
* *Review.* The documents were chosen for what can go wrong: a second revision that
  lets anybody delete, two operations of one wording, a path kept in a vendored file
  that drifts, a form, a deprecated operation with an argument of one name in two
  places, a lookup that threads into a delete, SOAP effects nobody knows and a
  policy that stops naming a credential. Two edits are one to classify and one to
  break; revision, approval, re-stamping and serving are not bounded.
* *Vendoring.* Two documents are what a run can be killed between. A file holds one
  of two contents, none, or a torn one. Four changes are a service that moves, a file
  that is touched, an entry that is taken out and one more. Commands do not overlap
  in this run (see below).
* *Evaluation.* Three calls are a call, its repetition with other arguments and one of
  another tool. One task starts with orders and one with carriers, so calls meet
  collections that are there, are missing, or hold a record less than was asked for. The
  second prohibits the step that a composite makes before it fails when the carriers were
  cleared before.

Deadlock is checked in `vendoring`. Elsewhere calls are finite in number, clocks and
edits are bounded, or a task has a last call, so instances end by design.

### What the passing runs show

* Budgets: `MinuteBound` holds over every stretch of a minute. `DayBound` is
  `2 * D - 1` and tight: a day's window opens with a call and is not a sliding one, so
  two windows can meet inside 24 hours. `RetryAfterIsNear`: half a millisecond before the
  moment a refusal names the call is refused still, and half a millisecond after it that
  limit is no longer the reason. The wait is rounded, so a caller who comes back at the
  very moment may be refused once more, also after a wait of 0.0. `SlotsMatchCalls`,
  `ConcurrencyBound` and, under fairness, `SlotsComeBack`: no slot leaks.
  `KeepsPromise`: every step of the counters is a step of `FairBudget`, which lets a call
  through only when there is room and turns one away only when a limit was really reached.
* Second call: `OnePassPerQuestion`, `PassesInTime`, `LapsedTokensGo`,
  `OnlyPassedCallsCount`, over all interleavings of the calls of one digest;
  `GateTypeOK`, which contains the `TypeOK` of the budgets.
* Gate: `JudgedOnce` holds for every tool that may not be repeated on every
  environment that starts; `OncePerProcess` for every tool; `JudgedInTime` bounds how
  late an answer counts; `KeepsPromise` refines the gate to `ConfirmOnce`. A tool that
  is idempotent may be confirmed again on a replica without a record, as the guide
  says, and the promise is not made for it.
* Delivery: `NoRepeatedEffect` for tools of one operation and for two POSTs;
  `StopsAtFirstFailure`, but for a redirect; `Reported` under fairness.
* Review: `KeepsRelease` refines everything between a document and a server to
  `Release`: what changes state is released only for bytes under which somebody vouched
  for it, or carried that over. `ApprovalsAreVouched`: no sequence of commands and edits
  makes an approval out of nothing. `NothingVanishes`: the planner loses no operation to
  a composite that is not served. `NamesTellApart`: derived names are unique.
  `ClassifiedBeforeServed`, `UngovernedNeverServed`, `ConfirmedBeforeDestroyed`: nothing
  of unknown effect, no change without a known caller, no destruction without a
  confirmation. `ReadOnlyReads`: a tool that says it only reads has no step that may do
  more; `KeepsRelease` takes a tool's own word for whether it changes anything, and this is
  why it may. `DriftBlocks`: while a vendored file is not the one that was pinned, nothing is
  written for its document, by either planner, although the overlay with its approvals still
  matches.
* Vendoring: `OnlyLockedCompiles`, `OnlyTrustedCompiles`, `PinnedUntilForgotten`, through
  kills at every step, drifting services and touched files, over runs one after another.
* Evaluation: `ReadsChangeNothing`, `OneConfirmationOneAction`, `CallsRunInOrder` (what a
  call did is a beginning of its steps, and all of them exactly when it is reported to
  have gone well) and `ProhibitedIsCounted`: while a task counts no unsafe action,
  whatever is not as the fixture had it was changed by an operation the task permits. The
  count is what safety rests on: the oracle of prohibited operations reads a trace that
  has one entry of a composite (see below).

### Findings

* `confirmation_composite`: a composite of a lookup and a write is idempotent for the
  gate, which then starts with a shared key and no record; one answer runs it twice.
* `delivery_composite`: the same composite is retried like its lookup, without a key.
* `delivery_soap`: a SOAP change answered with 429 or a gateway code ends with
  "no attempt was made".
* `review_names`: a reviewer gives a destructive tool the name of an earlier read; its
  policy is looked up by name and it is served without a confirmation.
* `review_rejection`: approving a class of tools overwrites a rejection in it.
* `review_arguments`: of a composite, an argument that is threaded into a step is withheld
  by its name from the caller, also where an earlier step requires an input of that name
  (`codegen/schema.py:181`). The planner proposes to call
  `POST /accounts/{id}/transfers` and then
  `POST /accounts/{account}/transfers/{id}/confirm`, and threads the new transfer's `id`
  into the second step; nothing supplies the first one's, and the request goes out with the
  literal template in its path. The comment at that line says that the value still reaches
  the wire.

Disagreements seen while modelling that no run is spent on; the models do as the code
does:

* A confirmed call that the budget refuses has lost its confirmation
  (`codegen/mcp_server.py:700`, `:727`), where `guide/deploying.md:109` says that an
  identical call inside the time to live runs the operation.
* A redirect is not an error for httpx, so it counts as a step that was done
  (`codegen/mcp_server.py:788`).
* Approving a composite is recorded on the entry of its first step
  (`planning/approval.py:90`), and so approves that step too; `Release` says so in
  `Covered`.
* The digest an overlay is bound to is that of the root document (`models.py:1039`);
  a file it refers to may change under it. Vendored ones may not.
* A scheme the compiler cannot place is left out of the server, and a call goes out
  without its credential; `codegen/credentials.py:44` says that it is reported and blocks
  emission.
* A composite's risk is taken from the specification's effects
  (`planning/semantic.py:859`), so a SOAP composite is never served, whatever a
  reviewer said of its steps.
* A security requirement that is one empty alternative raises no concern
  (`policy/synthesis.py:480`).
* A compile compares a file's digest and then reads the file again; when a run of
  `vendor-refs` overlaps it, other bytes can be used. With `Overlapping = TRUE`,
  `OnlyLockedCompiles` fails. A run that is refused leaves the files it had fetched,
  which the next compile refuses for their digest.
* Two runs of `vendor-refs` that overlap each write the lock they read, with what they
  fetched themselves (`cli.py:550-561`, `ingest/vendoring.py:150`): with `--record` the
  later one can pin a location to other bytes than the earlier one just did. The model has
  one run at a time, and `PinnedUntilForgotten` is said of such runs only.
* An ambiguity of an operation whose identifier contains a dot blocks the whole
  document (`codegen/tools.py:81`), and a blocker of the document cannot be waived.
* Servers declared on an operation do not reach the emitted server; a path's `$ref` and
  path-level body parameters of Swagger 2 are dropped without a report; operations of one
  name in two port types are not told apart.
* `README.md:230` says that refused tools are emitted with their reason; they are kept by
  name, and two of one name become one.
* The oracle of prohibited operations reads the trace, where a composite is its last step,
  and is refused when it failed half way (`evaluation/harness.py:379`): a prohibited step
  before the last passes it, where `guide/evaluation.md:21` says "Nothing outside the
  task's remit was called"; the step is counted as unsafe all the same. A deletion or
  update that does nothing opens a collection, and `no_mutation` then fails;
  `confirmation_adherence` fails for every approved write that needed no confirmation.

### Fairness

`call_twice` assumes that the `finally` of an admitted call is reached: requests time
out after 30 seconds, attempts are bounded by three and steps by the tool. It does not
cover a service that names an enormous `Retry-After`, which the client sleeps for.
`delivery` assumes that the client's own steps are taken; nothing is assumed of
the service, of cancellation or of the clock. The other runs check safety only: nothing
in the program promises that a person approves, or that a command is run again.

## Proofs

Each theorem is about the specification of its module, for every value of the constants
that satisfies the named assumptions there.

| Module | Theorem | Property | Provided |
| --- | --- | --- | --- |
| `CallBudgetProofs` | `TypeCorrect`, `SlotsCorrect`, `ConcurrencyCorrect`, `MinuteCorrect`, `DayCorrect`, `RefusalsAreNear` | `TypeOK`, `SlotsMatchCalls`, `ConcurrencyBound`, `MinuteBound`, `DayBound`, `RetryAfterIsNear` | |
| | `PromiseKept` | `KeepsPromise` (implements `FairBudget`) | |
| `CallTwiceProofs` | `GateTypeCorrect`, `OnePass`, `LapsedGo`, `InTime` | `GateTypeOK`, `OnePassPerQuestion`, `LapsedTokensGo`, `PassesInTime` | |
| | `OnlyPassedCount` | `OnlyPassedCallsCount` | |
| | `MinuteBehindGate`, `ConcurrencyBehindGate` | `MinuteBound`, `ConcurrencyBound` | |
| `ConfirmationGateProofs` | `TypeCorrect`, `OnceEach`, `InTimeOnly` | `TypeOK`, `OncePerProcess`, `JudgedInTime` | |
| | `OnceInAll`, `PromiseKept` | `JudgedOnce`, `KeepsPromise` (implements `ConfirmOnce`) | `Telling` |
| `DeliveryProofs` | `TypeCorrect`, `StopsCorrect` | `TypeOK`, `StopsAtFirstFailure` | |
| | `NotRepeated` | `NoRepeatedEffect` | while the tool is `Careful` |
| | `OneOperationOnce` | `NoRepeatedEffect` | a REST tool of one operation, or a SOAP tool of unknown idempotency |
| | `MessageBounded` | `NoAttemptMeansNone` (fails in `delivery_soap`) | a REST tool, or one that may be repeated |
| | `EndsNearer` | (a bound on the client's steps) | |
| `ReviewProofs` | `TypeCorrect`, `VouchedCorrect` | `TypeOK`, `ApprovalsAreVouched` | |
| | `ReleaseCorrect` | `KeepsRelease` (implements `Release`) | |
| | `ClassifiedCorrect` | `ClassifiedBeforeServed` | |
| | `ReadsCorrect` | `ReadOnlyReads` | |
| | `ConfirmedCorrect`, `GovernedCorrect` | `ConfirmedBeforeDestroyed`, `UngovernedNeverServed` | in every state with `Distinct` |
| | `DistinctCorrect` | (`Distinct` itself) | in every state with `PlannersNames` |
| | `NothingVanishesCorrect`, `NamesCorrect` | `NothingVanishes`, `NamesTellApart` | |
| | `ArgumentsCorrect` | `ArgumentsArrive` (fails in `review_arguments`) | in every state with `ThreadedFirst` |
| `PlanningProofs` | `DisambiguateIsNew` | (a name told apart is new) | |
| | `ThreadsForward` | (values come from earlier steps) | |
| `VendoringProofs` | `TypeCorrect`, `PinsLast` | `TypeOK`, `PinnedUntilForgotten` | one run of `vendor-refs` at a time, as the model has it |
| | `LockedCorrect`, `TrustedCorrect` | `OnlyLockedCompiles`, `OnlyTrustedCompiles` | `~Overlapping` |
| `EvaluationProofs` | `TypeCorrect`, `OneConfirmation` | `TypeOK`, `OneConfirmationOneAction` | |
| | `ReadsCorrect`, `OrderCorrect`, `ProhibitedCorrect` | `ReadsChangeNothing`, `CallsRunInOrder`, `ProhibitedIsCounted` | |

`Telling` says that a tool whose first step is idempotent may be repeated as a whole;
`Careful` that a tool with a change that is not idempotent is never retried or sends a
key. The code gives both for tools of one operation, and `OneOperationOnce` proves it of
`Careful`; the composites they exclude are those of the findings `confirmation_composite`
and `delivery_composite`. A SOAP tool would need to be repeated with a key that `_post`
does not send, and is careful only because no WSDL says that an operation is idempotent or
is not (`ingest/wsdl.py:666`).

`Distinct` says that no two artifacts of the plan share kind and name, which a reviewer's
choice of names can undo: `review_names`. `DistinctCorrect` says that nothing else can: it
holds in every state in which nobody chose a name or made a composite of one operation
(`PlannersNames`). `ThreadedFirst` says that a value is not threaded into a later step
than one that takes an argument of its name; the workflow of `review_arguments` is what it
excludes.

The remaining assumptions are named `ASSUME`s, which TLC evaluates in the runs of their modules. `Review` assumes of
its documents what the adapters give: effects are among those of `models.py`
(`DocumentsAssumption`), every unknown one is reported as a blocking ambiguity of its
operation (`DoubtAssumption`, `ingest/wsdl.py:591`), routes and inputs are sequences
(`RouteAssumption`), and operations of one identifier have one effect or block the whole
document (`IdentifiersAssumption`, `ingest/openapi.py:1493`). `Evaluation` assumes that
surfaces call operations of their own IR (`SettingsAssumption`) and that tasks bound their
calls (`TasksAssumption`).

Why the invariants are stronger than what they show:

* *Budgets.* `MinuteBound` is not inductive: that a new call fits follows only if the
  kept stamps contain every call of the last minute, which is `Stamps`; that needs that
  admitted calls are finitely many, stamped in the past and never admitted twice,
  `Admitted`; and a stretch that begins before the first call must be covered, so
  `EveryMinute` ranges over all integers. For the day, `DayBound` needs that a window
  spent what was admitted since it opened, and that fewer calls than the limit lie in any
  day that ends where a window opens: `EveryDay`. The floor at zero in `_release` is
  harmless only because a running call is counted, so `SlotsMatchCalls` is proved with
  `SlotBound` and not from it. For the refinement, the pruned list and the window are
  shown to count what `FairBudget` counts from the admitted calls alone.
* *Second call.* `GateSpec` implements the `Spec` of the budget, so its theorems carry
  over. `Unmatched` says that a standing token is a question not yet matched by a pass,
  and the times say which question a deadline belongs to. That only passed calls count
  needs that every admitted call is one that passed (`Started`) and that a day's spending
  counts admitted calls (`Counted`), over restarts.
* *Gate.* A state is looked at only by a call that took it (`Taken`), and no two calls
  take one: in one process because of `_SPENT`, across processes because a key that only
  one process has seals it, or because the record has its nonce for as long as any clock
  lets it be presented. The last is the arithmetic of `Grace`: the record's entry expires
  no sooner than the state does for the slowest clock and the slowest SET.
* *Delivery.* `Done` says that the steps before the current one had their effect. That
  nothing is repeated needs that requests lie behind the current step and attempt, that a
  request that is not retried is the only one of its step, that of keyed ones at most one
  acted, and that a service that loses nothing has acted on nothing it refused.
  The bound of `EndsNearer` is `Left`, which counts two steps for every attempt still
  allowed, of this step and the later ones; fairness turns it into `Reported`, which TLC
  checks.
* *Review.* The gate is a lemma: `Releasable` says what an executable tool that changes
  state had to be, through both planners, policy and emitters. With
  `ApprovalsAreVouched`, each `Serve` is then a `Publish`. `Passed` says the same of a
  served tool with its policy and its arguments, and what is served of unknown effect,
  unconfirmed, ungoverned or lacking an argument would contradict it. The policy of a tool
  is found by name, so `OwnPolicy` needs `Distinct`; that nobody took a proposal up twice,
  `TakenUpOnce`, is what makes the composites distinct and is an invariant of its own.
* *Planner and schemas.* `PlannedNames` and `Arguments` are recursive functions and the
  inputs of a composite are flattened with a fold. That a function with their equation
  exists, and what it is at every index, is shown by the least index at which it would
  fail (`NamesExist`, `NamesUnfold`, `ArgumentsAre`, `FlatHasAll`), which needs no
  induction rule with an operator in it. `DisambiguateIsNew` then shows that some number up
  to one more than the names taken is free, because there are not enough names to take all
  of them; `ComposedIs` that each input has a binding under its own or a qualified name.
* *Vendoring.* That pins last needs that a run's entries continue the lock it read and
  that nobody else writes the lock meanwhile; that compiles are trusted needs that every
  entry of the lock was recorded, and that the file just compared is the file loaded,
  which is where overlapping commands are excluded.
* *Evaluation.* The confirmation that is kept of a tool agrees with every call of it that
  went through as confirmed. The rest is `EInv`: the trace and the history of what ran are
  sequences (`CountsOK`, `EntriesOK`, `AppliedOK`, within the bounds of `WithinOK`); while
  only reads ran the store is the fixture (`Untouched`); and each call's part of the
  history is a stretch of its own, a beginning of its steps (`InOrder`). That what is
  prohibited is counted needs two facts apart: every collection is as the fixture had it or
  something applied is an operation that changes it (`Explained`), and nothing unsafe was
  applied while nothing is counted (`Counted`). What a call runs is a
  recursive function of its steps and is unfolded as above.

Model-checked only: liveness (`SlotsComeBack`, `Reported`), which is beyond the prover;
`DriftBlocks`, which is about the documents of its instance; and the six runs that expect a
violation. Every other property that a passing run checks is stated by a theorem, with the
provisos in the table.

## Plan

What would add most next, in this order:

1. The whole of `_invoke`: `CallTwice` composed with `Delivery`, to say what a client sees
   of one call from its arguments to its effects, with a service that remembers keys
   across routes and one that names a long `Retry-After`.
2. Theorems about the adapters: that what OpenAPI and WSDL documents are translated to
   satisfies the assumptions of `Review`, and that a reference which is not followed is
   always reported.
3. The other adapters, as far as their classifications decide safety.

## Not modelled

* The adapters for AsyncAPI, GraphQL and protobuf, and the catalogue: their operations are
  planned and reported and never served, so nothing after them can go wrong. The coverage
  sweep counts.
* The wording of plans, reports, contracts and provenance, and redaction and the output
  ceiling of responses: translation of data with no state.
* Property types, examples and descriptions of schemas: the gate and the threading read
  names, places and what is required.
* `served.py`, the benchmark corpora and the drivers that call a model's API: input and
  output around the harness. Its paging and retrieval, the oracles that read the trace or
  compare values, and its other metrics measure and change nothing.
* The mock executor: it answers every call with the same shape and keeps no state.
* Sealing of request state, JSON Schema validation, httpx and Redis are libraries: they
  appear as the external actions and constants the code relies on.
* A SOAP slot between its reservation and the `try`, an idempotency key remembered across
  routes, and an unbounded `Retry-After`: listed as hazards.
* The repository's scripts and notebooks.
