------------------------------ MODULE Planning ------------------------------
(***************************************************************************)
(* From an IR and the decisions of a reviewer to a plan: planning/         *)
(* semantic.py, planning/baseline.py, and the approval of a class of       *)
(* artifacts in planning/approval.py.  All of it is functions.             *)
(*                                                                         *)
(* An IR has the `service` it is about and its `format`, `operations` in   *)
(* document order, `ambiguities`, a `digest`, `schemes` and `servers`.  An *)
(* overlay has the `digest` it was reviewed against, `entries` by          *)
(* operation identifier and `composites` in order.  A name is its words    *)
(* and the number that tells it apart, 1 when there is none.               *)
(***************************************************************************)
EXTENDS Operations

Stopwords ==
    {"a", "an", "the", "of", "for", "in", "on", "to", "by", "from", "every", "all", "its"}
MaxNameTokens == 5
ActionSegments ==
    {"approve", "confirm", "execute", "submit", "commit", "cancel", "void", "finalize"}
TransportArguments ==
    {"limit", "offset", "page", "per_page", "cursor", "after", "before", "market", "locale",
     "country", "region", "language", "include_external", "additional_types", "fields"}

Blank == [status |-> None, name |-> <<>>, kind |-> None, effect |-> None,
          omit |-> FALSE, fields |-> {}, group |-> None]
NoOverlay == [digest |-> None, entries |-> <<>>, composites |-> <<>>]

\* What the overlay says of an operation; Blank when it has no entry.
Entry(overlay, id) ==
    IF id \in DOMAIN overlay.entries THEN overlay.entries[id] ELSE Blank

-----------------------------------------------------------------------------
(* What the planner proposes for one operation *)

Name(words) == [words |-> words, number |-> 1]

\* From the summary, or from the identifier when nothing is left of it.
DeriveName(op) ==
    LET told == SelectSeq(op.intent, LAMBDA word : word \notin Stopwords)
        words == IF told # <<>> THEN told ELSE op.words
    IN Name(IF Len(words) > MaxNameTokens THEN SubSeq(words, 1, MaxNameTokens) ELSE words)

\* Mutant of Disambiguate: a name is taken as it comes.
DisambiguateNever(name, route, taken) == name

\* The first resource of the route that makes the name unclaimed qualifies it; then
\* all of them together, and then a number.
Disambiguate(name, route, taken) ==
    LET Prefixed(segment) == IF Head(name.words) = segment.text THEN name
                             ELSE Name(<<segment.text>> \o name.words)
        free == {i \in DOMAIN route : ~route[i].template /\ Prefixed(route[i]) \notin taken}
        Joined(n) == [words |-> Texts(Named(route)) \o name.words, number |-> n]
    IN IF name \notin taken THEN name
       ELSE IF free # {} THEN Prefixed(route[CHOOSE i \in free : \A j \in free : i <= j])
       ELSE Joined(CHOOSE n \in 1..(Cardinality(taken) + 1) :
                       Joined(n) \notin taken /\ \A m \in 1..(n - 1) : Joined(m) \in taken)

\* A read of which every input is in the path is addressable.
DeriveKind(op) ==
    IF op.effect = "read" /\ \A i \in DOMAIN op.inputs : op.inputs[i].in = "path"
    THEN "resource" ELSE "tool"

DeriveGroup(op) ==
    IF op.tags # <<>> THEN Head(op.tags)
    ELSE IF Named(op.route) # <<>> THEN Head(Named(op.route)).text
    ELSE IF op.portType # None THEN op.portType
    ELSE "ungrouped"

\* The optional arguments an agent need not see.
DeriveArgumentProjection(op) ==
    {op.inputs[i].name : i \in {i \in DOMAIN op.inputs :
        /\ ~op.inputs[i].required /\ op.inputs[i].in # "body"
        /\ op.inputs[i].default \/ op.inputs[i].name \in TransportArguments}}

\* The required fields of the first typed success response, unless that is all or nothing.
DeriveProjection(op) ==
    LET typed == SelectSeq(op.outputs, LAMBDA out : out.success /\ out.typed)
        kept == IF typed = <<>> THEN {}
                ELSE Head(typed).required \intersect Head(typed).properties
    IN IF kept # {} /\ kept = Head(typed).properties THEN {} ELSE kept

\* The change the rewritten description tells an agent of.
RewriteDescription(op) ==
    [told |-> IF op.effect \in {"destructive", "write"} THEN op.effect ELSE None,
     unfinished |-> op.accepted]

\* What precedes the last segment of a route, with the templates taken out.
Base(route) == [i \in DOMAIN route |->
                    IF route[i].template THEN None ELSE route[i].text]

\* A change of a resource, and an action on what it changed.
ProposeComposites(ops) ==
    {<<ops[p[1]].id, ops[p[2]].id>> : p \in {p \in (DOMAIN ops) \X (DOMAIN ops) :
        LET other == ops[p[1]]  candidate == ops[p[2]] IN
        /\ p[1] # p[2]
        /\ other.routed /\ other.effect # "read"
        /\ candidate.routed /\ candidate.effect # "read"
        /\ candidate.route # <<>> /\ Last(candidate.route).text \in ActionSegments
        /\ LET bare(r) == IF r # <<>> /\ Last(r).template THEN Front(r) ELSE r
           IN Base(bare(other.route)) = Base(bare(Front(candidate.route)))}}

\* A lookup that a goal can reach, and the operation that needs what it yields.
ProposeLookupThenUse(ops) ==
    {<<ops[p[1]].id, ops[p[2]].id>> : p \in {p \in (DOMAIN ops) \X (DOMAIN ops) :
        /\ ops[p[1]].id # ops[p[2]].id
        /\ CallableFromAGoal(ops[p[1]])
        /\ YieldedCollection(ops[p[1]]) \in RequiredResources(ops[p[2]]) \ {None}}}

BlockedOperations(ir) == {a.operation : a \in {a \in ir.ambiguities : a.blocking}} \ {None}

\* How many of the six signals of readiness an operation shows.
Suitability(op, blocked) ==
    Cardinality({signal \in 1..6 :
        <<op.summarised, op.description # {},
          \E i \in DOMAIN op.outputs : op.outputs[i].success /\ op.outputs[i].typed,
          op.effect # "unknown", ~op.deprecated, ~blocked>>[signal]})

-----------------------------------------------------------------------------
(* The plan *)

\* Mutant of Superseded: what is merely proposed replaces its steps.
SupersededByAny(overlay) ==
    UNION {ToSet(overlay.composites[i].steps) :
               i \in {i \in DOMAIN overlay.composites : overlay.composites[i].supersedes}}

\* The steps an approved composite replaces.
Superseded(overlay) ==
    UNION {ToSet(overlay.composites[i].steps) :
               i \in {i \in DOMAIN overlay.composites :
                          /\ overlay.composites[i].status = "approved"
                          /\ overlay.composites[i].supersedes}}

\* The names of all operations, in order: a reviewer's is taken as it is, a derived
\* one is told apart from every name before it.
NameOf(op, chosen, before) ==
    IF chosen # <<>> THEN Name(chosen)
    ELSE Disambiguate(DeriveName(op), op.route, ToSet(before))
PlannedNames(ops, overlay) ==
    LET names[i \in 0..Len(ops)] ==
            IF i = 0 THEN <<>>
            ELSE LET before == names[i - 1]
                 IN Append(before, NameOf(ops[i], Entry(overlay, ops[i].id).name, before))
    IN names[Len(ops)]

Planned(ops, overlay) ==
    {i \in DOMAIN ops : /\ ops[i].id \notin Superseded(overlay)
                        /\ ~Entry(overlay, ops[i].id).omit}

Artifact(at, op, entry, name, blocked) ==
    [at |-> at,
     kind |-> IF entry.kind # None THEN entry.kind ELSE DeriveKind(op),
     name |-> name,
     describes |-> RewriteDescription(op),
     sources |-> <<op.id>>,
     risk |-> RiskOf[IF entry.effect # None THEN entry.effect ELSE op.effect],
     status |-> IF entry.status # None THEN entry.status ELSE "proposed",
     confidence |-> Suitability(op, blocked),
     group |-> IF entry.group # None THEN entry.group ELSE DeriveGroup(op),
     fields |-> IF entry.fields # {} THEN entry.fields ELSE DeriveProjection(op),
     omitted |-> DeriveArgumentProjection(op)]

\* Mutant of CompositeRisk: a workflow is as safe as its first step.
CompositeRiskFirst(ops, steps) ==
    RiskOf[Operation(ops, Head(steps)).effect]

\* The most dangerous of the effects the specification gives its steps.
CompositeRisk(ops, steps) ==
    LET risks == {RiskOf[ops[i].effect] : i \in {i \in DOMAIN ops : ops[i].id \in ToSet(steps)}}
    IN IF "destructive" \in risks THEN "destructive"
       ELSE IF "write" \in risks THEN "write"
       ELSE IF "unknown" \in risks THEN "unknown"
       ELSE "read"

CompositeArtifact(at, ops, composite) ==
    [at |-> at,
     kind |-> "composite",
     name |-> Name(composite.name),
     describes |-> [told |-> None, unfinished |-> FALSE],
     sources |-> composite.steps,
     risk |-> CompositeRisk(ops, composite.steps),
     status |-> composite.status,
     confidence |-> 0,
     group |-> None,
     fields |-> {},
     omitted |-> {}]

Decision(kind, origin, target, applied) ==
    [kind |-> kind, origin |-> origin, target |-> target, applied |-> applied]

\* What the plan records of what the planner proposed and of what a reviewer decided.
\* Only the decisions that take something off the surface or let something onto it are
\* kept; names, groups, wording and projections are in the artifacts.
Decisions(ir, overlay) ==
    LET E(id) == Entry(overlay, id)
        ids == Ids(ir.operations)
        replaced == Superseded(overlay)
        deprecated == {id \in ids : Operation(ir.operations, id).deprecated}
        Human(kind, targets) == {Decision(kind, "human", id, TRUE) : id \in targets}
    IN Human("reclassify", {id \in ids : E(id).effect # None})
       \union {Decision("omit", "planner", id, E(id).omit) : id \in deprecated}
       \union Human("omit", {id \in ids : E(id).omit \/ id \in replaced})
       \union Human("approve", {id \in ids : /\ E(id).status = "approved"
                                             /\ ~E(id).omit /\ id \notin replaced})

\* The workflows the planner proposes, each with whether a reviewer took it up.
Proposals(ops, overlay) ==
    {[steps |-> steps,
      applied |-> \E i \in DOMAIN overlay.composites : overlay.composites[i].id = steps] :
         steps \in ProposeComposites(ops) \union ProposeLookupThenUse(ops)}

\* Mutant of OverlayMatches: the digest is not compared.
OverlayUnchecked(ir, overlay) == TRUE

\* An overlay reviewed against other bytes is refused before anything is planned.
OverlayMatches(ir, overlay) == overlay = NoOverlay \/ overlay.digest = ir.digest

\* Each artifact has the place of its operation in the document, and the composites come
\* after all of them.
Artifacts(ops, overlay, names, blocked) ==
    {Artifact(i, ops[i], Entry(overlay, ops[i].id), names[i], ops[i].id \in blocked) :
         i \in Planned(ops, overlay)}
    \union {CompositeArtifact(Len(ops) + i, ops, overlay.composites[i]) :
                i \in DOMAIN overlay.composites}

PlanSemantic(ir, overlay) ==
    [planner |-> "semantic",
     digest |-> ir.digest,
     artifacts |-> Artifacts(ir.operations, overlay, PlannedNames(ir.operations, overlay),
                             BlockedOperations(ir)),
     decisions |-> Decisions(ir, overlay),
     proposals |-> Proposals(ir.operations, overlay)]

\* One proposed tool per operation, named after its identifier; no overlay is read.
PlanBaseline(ir) ==
    [planner |-> "baseline",
     digest |-> ir.digest,
     artifacts |->
         {[at |-> i, kind |-> "tool", name |-> Name(<<ir.operations[i].id>>),
           describes |-> [told |-> None, unfinished |-> FALSE],
           sources |-> <<ir.operations[i].id>>, risk |-> RiskOf[ir.operations[i].effect],
           status |-> "proposed", confidence |-> 0, group |-> None, fields |-> {},
           omitted |-> {}] : i \in DOMAIN ir.operations},
     decisions |-> {},
     proposals |-> {}]

-----------------------------------------------------------------------------
(* Approving a class of artifacts *)

\* The artifacts a selection covers.  A criterion is a value or None, and names are
\* a set, empty when none was given.
Selected(plan, risk, group, names) ==
    {a \in plan.artifacts : /\ a.kind # "omitted"
                            /\ risk # None => a.risk = risk
                            /\ group # None => a.group = group
                            /\ names # {} => a.name \in names}

SelectionAccepted(plan, risk, group, names) ==
    /\ risk # None \/ group # None \/ names # {}
    /\ names \subseteq {a.name : a \in plan.artifacts}
    /\ Selected(plan, risk, group, names) # {}

\* Mutant of ApprovedOverlay: a new overlay is not bound to the bytes.
ApprovedUnbound(plan, overlay, selection) ==
    LET chosen == {a.sources[1] : a \in selection} IN
    [digest |-> overlay.digest,
     entries |-> [id \in chosen |-> [Blank EXCEPT !.status = "approved"]] @@ overlay.entries,
     composites |-> overlay.composites]

\* Mutant of ApprovedOverlay: whatever has an entry is approved along.
ApprovedAlong(plan, overlay, selection) ==
    LET chosen == {a.sources[1] : a \in selection} IN
    [digest |-> IF overlay = NoOverlay THEN plan.digest ELSE overlay.digest,
     entries |-> [id \in chosen \union DOMAIN overlay.entries |->
                     [Entry(overlay, id) EXCEPT !.status = "approved"]],
     composites |-> overlay.composites]

\* The decision is recorded on the first operation of each artifact.
ApprovedOverlay(plan, overlay, selection) ==
    LET chosen == {a.sources[1] : a \in selection} IN
    [digest |-> IF overlay = NoOverlay THEN plan.digest ELSE overlay.digest,
     entries |-> [id \in chosen \union DOMAIN overlay.entries |->
                     IF id \in chosen THEN [Entry(overlay, id) EXCEPT !.status = "approved"]
                     ELSE overlay.entries[id]],
     composites |-> overlay.composites]

Restamped(overlay, digest) == [overlay EXCEPT !.digest = digest]
=============================================================================
