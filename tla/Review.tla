------------------------------- MODULE Review -------------------------------
(***************************************************************************)
(* A specification under review: it is revised, people record decisions in *)
(* an overlay beside it, and `serve` writes the server of what was         *)
(* approved (cli.py: approve, overlay-restamp, serve;                      *)
(* planning/overlay.py).                                                   *)
(*                                                                         *)
(* `specification` is what is on disk, with the files it refers to,        *)
(* `overlay` the overlay on disk or NoOverlay, and `served` says of the    *)
(* module that was written last the digest it was written for and which of *)
(* its tools change state.  Commands write their file in one step and      *)
(* nothing when they fail.  `vouched` is history: the subjects somebody    *)
(* approved, each with the digest of the bytes it was approved for.  A     *)
(* subject is the operations of an artifact.                               *)
(*                                                                         *)
(* Reading a specification has no effect, so `specification` is the IR an  *)
(* adapter reads from it; one that no adapter can read is refused by every *)
(* command.  An overlay is edited by hand for everything `approve` does    *)
(* not do; MaxEdits bounds how often.                                      *)
(***************************************************************************)
EXTENDS Emission

CONSTANTS Documents,    \* the revisions of the specification
          MaxEdits,     \* how many edits people make by hand, by service
          Effects,      \* the effects they may record
          Kept,         \* the kinds they may record
          Chosen,       \* the names they may choose, each for an operation
          Adopting      \* whether they take up composites

\* What is enumerated is what the code can be given: ingestion yields one of the effects
\* of models.py for every operation, and a reviewer records one of them.
ASSUME DocumentsAssumption ==
    \A document \in Documents : \A i \in DOMAIN document.operations :
        document.operations[i].effect \in SideEffects
\* The one adapter that does not know what an operation does says so, of each (wsdl.py).
ASSUME DoubtAssumption ==
    \A document \in Documents :
        /\ Len(document.operations) \in Nat
        /\ DOMAIN document.operations = 1..Len(document.operations)
        /\ \A i \in DOMAIN document.operations :
               document.operations[i].effect = "unknown" =>
                   \E a \in document.ambiguities :
                       /\ a.blocking /\ a.code = "unclassified_side_effect"
                       /\ a.operation = document.operations[i].id
\* A route is the sequence of its segments, and inputs are in the order of their declaration.
ASSUME RouteAssumption ==
    \A document \in Documents : \A i \in DOMAIN document.operations :
        /\ Len(document.operations[i].route) \in Nat
        /\ DOMAIN document.operations[i].route = 1..Len(document.operations[i].route)
        /\ Len(document.operations[i].inputs) \in Nat
        /\ DOMAIN document.operations[i].inputs = 1..Len(document.operations[i].inputs)
\* Operations of one identifier do the same, as in a WSDL, of which nothing is known, or hold
\* back the whole document (openapi.py: duplicate_operation_id).
ASSUME IdentifiersAssumption ==
    \A document \in Documents : \A i, j \in DOMAIN document.operations :
        document.operations[i].id = document.operations[j].id =>
            \/ document.operations[i].effect = document.operations[j].effect
            \/ DocumentLevelBlockers(document) # {}
ASSUME EffectsAssumption == Effects \subseteq SideEffects
ASSUME MaxEditsAssumption == \A document \in Documents : MaxEdits[document.service] \in Nat

VARIABLES specification, overlay, served, vouched, edits

vars == <<specification, overlay, served, vouched, edits>>

Matching == OverlayMatches(specification, overlay)
Plan == PlanSemantic(specification, overlay)

\* The overlay a person edits: the one on disk, or a new one for the bytes on disk.
Open ==
    IF overlay = NoOverlay THEN [overlay EXCEPT !.digest = specification.digest] ELSE overlay
Edited(id, entry) ==
    [Open EXCEPT !.entries = [other \in {id} \union DOMAIN Open.entries |->
                                 IF other = id THEN entry ELSE Open.entries[other]]]

Init ==
    /\ specification \in Documents
    /\ overlay = NoOverlay
    /\ served = [digest |-> None, changes |-> {}]
    /\ vouched = {}
    /\ edits = 0

-----------------------------------------------------------------------------
(* The specification *)

Revise(new) ==
    /\ new # specification /\ new.service = specification.service
    /\ specification' = new
    /\ UNCHANGED <<overlay, served, vouched, edits>>

-----------------------------------------------------------------------------
(* Decisions *)

\* `approve`: a class of the artifacts of the current plan.  An overlay for other bytes,
\* and a selection that names nothing, are refused.
Approve(plan, risk, group, names) ==
    LET selection == Selected(plan, risk, group, names) IN
    /\ SelectionAccepted(plan, risk, group, names)
    /\ overlay' = ApprovedOverlay(plan, overlay, selection)
    /\ vouched' = vouched \union {<<plan.digest, artifact.sources>> :
                                     artifact \in selection}
    /\ UNCHANGED <<specification, served, edits>>

\* `overlay-restamp`: every decision is carried over, and whoever does it answers for them.
Restamp ==
    /\ overlay # NoOverlay /\ overlay.digest # specification.digest
    /\ overlay' = Restamped(overlay, specification.digest)
    /\ vouched' = vouched \union {<<specification.digest, v[2]>> :
                                     v \in {w \in vouched : w[1] = overlay.digest}}
    /\ UNCHANGED <<specification, served, edits>>

\* A field of the entry of one operation, changed by hand.
Edit(id, entry) ==
    /\ edits < MaxEdits[specification.service]
    /\ entry # Entry(overlay, id)
    /\ overlay' = Edited(id, entry)
    /\ edits' = edits + 1
    /\ UNCHANGED <<specification, served>>

Reject(id) ==
    /\ Edit(id, [Entry(overlay, id) EXCEPT !.status = "rejected"])
    /\ vouched' = vouched \ {<<specification.digest, <<id>>>>}
Amend(id, entry) == Edit(id, entry) /\ UNCHANGED vouched
Reclassify(id, effect) == Amend(id, [Entry(overlay, id) EXCEPT !.effect = effect])
Rekind(id, kind) == Amend(id, [Entry(overlay, id) EXCEPT !.kind = kind])
Rename(id, name) == Amend(id, [Entry(overlay, id) EXCEPT !.name = name])
Omit(id) == Amend(id, [Entry(overlay, id) EXCEPT !.omit = TRUE])

\* A proposed workflow is taken up, named after its steps, approved or not yet, and with
\* or without replacing its steps.
TakeUp(proposal, status, supersedes) ==
    /\ edits < MaxEdits[specification.service] /\ Adopting
    /\ ~proposal.applied
    /\ overlay' = [Open EXCEPT !.composites = Append(@,
           [id |-> proposal.steps, name |-> proposal.steps, steps |-> proposal.steps,
            status |-> status, supersedes |-> supersedes])]
    /\ vouched' = vouched \union When(status = "approved", <<Open.digest, proposal.steps>>)
    /\ edits' = edits + 1
    /\ UNCHANGED <<specification, served>>

-----------------------------------------------------------------------------
(* Serving *)

\* The server `serve` writes for a plan; NoServer when it is refused.
Offer(plan) ==
    LET Written(surface, manifest) ==
            IF Emittable(specification, Registered(surface))
            THEN Emit(specification, surface, manifest)
            ELSE NoServer
        Under(manifest) == Written(GenerateSurface(specification, plan, manifest), manifest)
    IN IF Compilable(specification, plan)
       THEN Under(SynthesizePolicy(specification, plan)) ELSE NoServer

\* `serve` with a planner, and with the overlay or without it.
ServeWith(plan) ==
    \E server \in {Offer(plan)} \ {NoServer} :
    /\ served' = [digest |-> specification.digest,
                  changes |-> {tool.sources : tool \in {t \in server.tools :
                                                        ~t.annotations.readOnly}}]
    /\ UNCHANGED <<specification, overlay, vouched, edits>>

ServeSemantic(given) ==
    /\ OverlayMatches(specification, given)
    /\ ServeWith(PlanSemantic(specification, given))
ServeBaseline == ServeWith(PlanBaseline(specification))

\* What people decide about the plan of a specification and an overlay that match it.
Decide(plan) ==
    \/ \E risk \in Risks \ {"privileged"} : Approve(plan, risk, None, {})
    \/ \E artifact \in plan.artifacts :
           \/ artifact.group # None /\ Approve(plan, None, artifact.group, {})
           \/ Approve(plan, None, None, {artifact.name})
    \/ \E id \in Ids(specification.operations) :
           \/ Reject(id)
           \/ Omit(id)
           \/ \E effect \in Effects : Reclassify(id, effect)
           \/ \E kind \in Kept : Rekind(id, kind)
           \/ \E choice \in Chosen : choice[1] = id /\ Rename(id, choice[2])
    \/ \E proposal \in plan.proposals, status \in {"proposed", "approved"},
          supersedes \in BOOLEAN : TakeUp(proposal, status, supersedes)

Next ==
    \/ \E new \in Documents : Revise(new)
    \/ Matching /\ Decide(Plan)
    \/ Restamp
    \/ \E given \in {overlay, NoOverlay} : ServeSemantic(given)
    \/ ServeBaseline

Spec == Init /\ [][Next]_vars

-----------------------------------------------------------------------------
(* Properties *)

TypeOK ==
    /\ specification \in Documents
    /\ edits \in 0..MaxEdits[specification.service]
    /\ served.digest \in {d.digest : d \in Documents} \union {None}
    /\ overlay = NoOverlay \/ overlay.digest \in {d.digest : d \in Documents}

\* What changes state is served only for the bytes it was approved for, through whatever
\* was revised, re-stamped, edited and re-served in between.
Promise == INSTANCE Release WITH
    current <- specification.digest,
    released <- [digest |-> served.digest, subjects |-> served.changes]
KeepsRelease == Promise!Spec

\* An approval in the overlay is somebody's, given for the bytes the overlay is for:
\* approving, editing and re-stamping in any order never produce one out of nothing.
ApprovalsAreVouched ==
    /\ \A id \in DOMAIN overlay.entries :
           overlay.entries[id].status = "approved" =>
               \E v \in vouched : v[1] = overlay.digest /\ Head(v[2]) = id
    /\ \A i \in DOMAIN overlay.composites :
           overlay.composites[i].status = "approved" =>
               <<overlay.digest, overlay.composites[i].steps>> \in vouched

\* Every operation that was read is an artifact of the plan, a step of an approved
\* composite that is one, or left out by a reviewer: the planner loses none.
NothingVanishes ==
    Matching =>
        \E artifacts \in {Plan.artifacts} : \A id \in Ids(specification.operations) :
            \/ Entry(overlay, id).omit
            \/ \E a \in artifacts : a.sources = <<id>>
            \/ \E a \in artifacts : /\ a.kind = "composite" /\ a.status = "approved"
                                    /\ id \in ToSet(a.sources)

\* A name the planner derives is never one that an earlier operation has, whether that
\* was derived too or chosen by a reviewer.
NamesTellApart ==
    Matching =>
        \E names \in {PlannedNames(specification.operations, overlay)} :
            \A i, j \in DOMAIN names :
                i < j /\ Entry(overlay, specification.operations[j].id).name = <<>> =>
                    names[i] # names[j]

\* An earlier decision is never lost by approving something else later: who approves a
\* class of tools releases none that a reviewer rejected.
RejectionStands ==
    [][\A risk \in Risks : Approve(Plan, risk, None, {}) =>
           \A id \in DOMAIN overlay.entries :
               overlay.entries[id].status = "rejected"
                   => overlay'.entries[id].status = "rejected"]_vars

\* The tools of the server that `serve` would write now.
Tools == IF Matching THEN Offer(Plan).tools ELSE {}

\* Nothing of unknown effect is served: a SOAP operation only once a reviewer said what
\* it does.
ClassifiedBeforeServed ==
    \A tool \in Tools : \A id \in ToSet(tool.sources) :
        \/ Operation(specification.operations, id).effect # "unknown"
        \/ Entry(overlay, id).effect # None

\* A tool that changes state is served only when the specification says, of each of its
\* steps, how a caller is authenticated.
UngovernedNeverServed ==
    \A tool \in Tools : \A id \in ToSet(tool.sources) :
        \/ tool.annotations.readOnly
        \/ LET auth == Operation(specification.operations, id).auth
           IN auth.declared /\ ~auth.disabled

\* A tool that says it only reads, which is called unasked and does not count as changing
\* anything, has no step that may do more: each of them reads by the specification, or by the
\* word of a reviewer.
ReadOnlyReads ==
    \A tool \in Tools : tool.annotations.readOnly =>
        \A id \in ToSet(tool.sources) :
            \/ Operation(specification.operations, id).effect = "read"
            \/ Entry(overlay, id).effect = "read"

\* A destructive tool, and a workflow of several steps, is confirmed call by call, unless
\* a reviewer made it a resource.
ConfirmedBeforeDestroyed ==
    \A tool \in Tools :
        tool.annotations.destructive \/ Len(tool.sources) > 1
            => tool.confirmed \/ tool.resource

\* What a service needs of a caller can be said: every required input of every step is an
\* argument of the tool, or is taken from the answer of an earlier step, for it or for a
\* step before it.  A threaded argument stays out of the schema "while keeping its binding,
\* so the value still reaches the wire" (schema.py); but it is withheld by its name, also
\* from a step that comes before its value does.
ArgumentsArrive ==
    \A tool \in Tools :
        \E steps \in {Steps(specification.operations, tool.sources)} :
            \A s \in DOMAIN steps : \A field \in ToSet(steps[s].inputs) :
                field.required =>
                    \E b \in tool.schema.bindings :
                        /\ b.step = s /\ b.wire = field.name /\ b.in = field.in
                        /\ \/ b.argument \in tool.schema.required
                           \/ b.argument.of = None /\ b.argument.name \in DOMAIN CompositeThreading(steps)
                              /\ CompositeThreading(steps)[b.argument.name].step <= s
=============================================================================
