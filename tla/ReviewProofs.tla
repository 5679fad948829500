---------------------------- MODULE ReviewProofs ----------------------------
(***************************************************************************)
(* What holds of a review for every specification, every decision and any  *)
(* number of edits: an approval is somebody's, what is served was released *)
(* as Release says, nothing unknown, ungoverned or unconfirmed is served,  *)
(* and the planner loses no operation and gives no name twice.             *)
(***************************************************************************)
EXTENDS Review, PlanningProofs

-----------------------------------------------------------------------------
(***************************************************************************)
(* Types: what an overlay may consist of.                                  *)
(***************************************************************************)

Digests == {document.digest : document \in Documents}
Workflows ==
    UNION {ProposeComposites(document.operations)
               \union ProposeLookupThenUse(document.operations) : document \in Documents}

EntryRecords ==
    [status : {None, "approved", "rejected"}, name : {<<>>} \union {c[2] : c \in Chosen},
     kind : Kept \union {None}, effect : Effects \union {None}, omit : BOOLEAN,
     fields : {{}}, group : {None}]
CompositeRecords ==
    [id : Workflows, name : Workflows, steps : Workflows,
     status : {"proposed", "approved"}, supersedes : BOOLEAN]

OverlayIs(it) ==
    /\ it = [digest |-> it.digest, entries |-> it.entries, composites |-> it.composites]
    /\ it.entries \in [DOMAIN it.entries -> EntryRecords]
    /\ it.composites \in Seq(CompositeRecords)
Types == TypeOK /\ OverlayIs(overlay)

LEMMA BlankIs == Blank \in EntryRecords
BY DEF Blank, EntryRecords

LEMMA NoEntries == <<>> \in [DOMAIN <<>> -> EntryRecords] /\ DOMAIN <<>> = {}
<1>1. DOMAIN <<>> = {}  OBVIOUS
<1>2. QED  BY <1>1

LEMMA NoOverlayIs == OverlayIs(NoOverlay)
BY NoEntries DEF OverlayIs, NoOverlay

LEMMA EntryIs ==
    ASSUME NEW it, OverlayIs(it), NEW id
    PROVE  Entry(it, id) \in EntryRecords
BY BlankIs DEF Entry, OverlayIs

\* What an edit by hand leaves, of the overlay on disk or of a new one.
LEMMA OpenIs ==
    ASSUME OverlayIs(overlay)
    PROVE  /\ OverlayIs(Open)
           /\ Open.entries = overlay.entries /\ Open.composites = overlay.composites
           /\ overlay # NoOverlay => Open.digest = overlay.digest
           /\ overlay = NoOverlay => Open.digest = specification.digest
<1>1. CASE overlay = NoOverlay
    <2>1. Open = [digest |-> specification.digest, entries |-> <<>>, composites |-> <<>>]
        BY <1>1 DEF Open, NoOverlay
    <2>2. overlay = [digest |-> None, entries |-> <<>>, composites |-> <<>>]
        BY <1>1 DEF NoOverlay
    <2>3. QED  BY <1>1, <2>1, <2>2, NoEntries DEF OverlayIs
<1>2. CASE overlay # NoOverlay
    BY <1>2 DEF Open
<1>3. QED  BY <1>1, <1>2

LEMMA EditedIs ==
    ASSUME OverlayIs(overlay), NEW id, NEW entry \in EntryRecords,
           overlay' = Edited(id, entry)
    PROVE  /\ OverlayIs(overlay')
           /\ overlay'.digest = Open.digest
           /\ overlay'.composites = overlay.composites
           /\ DOMAIN overlay'.entries = {id} \union DOMAIN overlay.entries
           /\ overlay'.entries[id] = entry
           /\ \A other \in DOMAIN overlay.entries \ {id} :
                  overlay'.entries[other] = overlay.entries[other]
<1> DEFINE entries == [other \in {id} \union DOMAIN overlay.entries |->
                          IF other = id THEN entry ELSE overlay.entries[other]]
<1>1. /\ DOMAIN entries = {id} \union DOMAIN overlay.entries
      /\ entries[id] = entry
      /\ \A other \in DOMAIN overlay.entries \ {id} : entries[other] = overlay.entries[other]
    OBVIOUS
<1>2. entries \in [DOMAIN entries -> EntryRecords]
    BY DEF OverlayIs
<1>3. overlay' = [Open EXCEPT !.entries = entries]
    BY OpenIs DEF Edited
<1> HIDE DEF entries
<1>4. overlay' = [digest |-> Open.digest, entries |-> entries,
                  composites |-> overlay.composites]
    BY <1>3, OpenIs DEF OverlayIs
<1>5. QED  BY <1>1, <1>2, <1>4 DEF OverlayIs

LEMMA WorkflowIs ==
    ASSUME NEW steps \in Workflows
    PROVE  \E from, to : steps = <<from, to>>
BY DEF Workflows, ProposeComposites, ProposeLookupThenUse

LEMMA ProposedIs ==
    ASSUME TypeOK, NEW proposal \in Plan.proposals
    PROVE  proposal.steps \in Workflows
BY DEF TypeOK, Plan, PlanSemantic, Proposals, Workflows

\* What the semantic planner makes artifacts of.
LEMMA PlannedIs ==
    ASSUME NEW given, NEW artifact \in PlanSemantic(specification, given).artifacts
    PROVE  \/ \E i \in DOMAIN specification.operations : \E name, blocked :
                  artifact = Artifact(i, specification.operations[i],
                                      Entry(given, specification.operations[i].id), name, blocked)
           \/ \E i \in DOMAIN given.composites :
                  artifact = CompositeArtifact(Len(specification.operations) + i,
                                               specification.operations, given.composites[i])
<1>1. \E names, blocked :
          artifact \in Artifacts(specification.operations, given, names, blocked)
    BY DEF PlanSemantic
<1>2. QED  BY <1>1 DEF Artifacts, Planned

\* An artifact of the plan stands for one operation with the status of its entry, or for
\* a composite of the overlay.
LEMMA ArtifactIs ==
    ASSUME OverlayIs(overlay), NEW artifact \in Plan.artifacts
    PROVE  \/ \E id : artifact.sources = <<id>>
           \/ artifact.sources \in Workflows
<1>1. \A composite \in CompositeRecords : composite.steps \in Workflows
    BY DEF CompositeRecords
<1>2. \A i \in DOMAIN overlay.composites : overlay.composites[i] \in CompositeRecords
    BY DEF OverlayIs
<1>3. ASSUME NEW i, NEW op, NEW entry, NEW name, NEW blocked,
             artifact = Artifact(i, op, entry, name, blocked)
      PROVE  artifact.sources = <<op.id>>
    BY <1>3 DEF Artifact
<1>4. ASSUME NEW at, NEW ops, NEW i \in DOMAIN overlay.composites,
             artifact = CompositeArtifact(at, ops, overlay.composites[i])
      PROVE  artifact.sources \in Workflows
    BY <1>1, <1>2, <1>4 DEF CompositeArtifact
<1>5. QED  BY <1>3, <1>4, PlannedIs DEF Plan

LEMMA SubjectIs ==
    ASSUME OverlayIs(overlay), NEW artifact \in Plan.artifacts
    PROVE  Head(artifact.sources) = artifact.sources[1]
BY ArtifactIs, WorkflowIs

\* Approving changes the entries of the subjects it covers, and no composite.
LEMMA ApprovedIs ==
    ASSUME OverlayIs(overlay), NEW selection,
           overlay' = ApprovedOverlay(Plan, overlay, selection)
    PROVE  /\ OverlayIs(overlay')
           /\ overlay'.composites = overlay.composites
           /\ overlay'.digest = IF overlay = NoOverlay THEN specification.digest
                                ELSE overlay.digest
           /\ \A id \in DOMAIN overlay'.entries :
                  \/ \E artifact \in selection : artifact.sources[1] = id
                  \/ /\ id \in DOMAIN overlay.entries
                     /\ overlay'.entries[id] = overlay.entries[id]
<1> DEFINE chosen == {a.sources[1] : a \in selection}
           entries == [id \in chosen \union DOMAIN overlay.entries |->
                          IF id \in chosen
                          THEN [Entry(overlay, id) EXCEPT !.status = "approved"]
                          ELSE overlay.entries[id]]
           digest == IF overlay = NoOverlay THEN specification.digest ELSE overlay.digest
<1>1. overlay' = [digest |-> digest, entries |-> entries,
                  composites |-> overlay.composites]
    BY DEF ApprovedOverlay, Plan, PlanSemantic
<1>2. \A id : [Entry(overlay, id) EXCEPT !.status = "approved"] \in EntryRecords
    BY EntryIs DEF EntryRecords
<1>3. entries \in [DOMAIN entries -> EntryRecords]
    BY <1>2 DEF OverlayIs
<1>4. \A id \in DOMAIN entries :
          \/ \E artifact \in selection : artifact.sources[1] = id
          \/ id \in DOMAIN overlay.entries /\ entries[id] = overlay.entries[id]
    OBVIOUS
<1> HIDE DEF entries, digest
<1>5. QED  BY <1>1, <1>3, <1>4 DEF OverlayIs, digest

\* What is given for an entry by hand.
LEMMA GivenIs ==
    ASSUME OverlayIs(overlay), NEW id
    PROVE  /\ [Entry(overlay, id) EXCEPT !.status = "rejected"] \in EntryRecords
           /\ [Entry(overlay, id) EXCEPT !.omit = TRUE] \in EntryRecords
           /\ \A effect \in Effects :
                  [Entry(overlay, id) EXCEPT !.effect = effect] \in EntryRecords
           /\ \A kind \in Kept : [Entry(overlay, id) EXCEPT !.kind = kind] \in EntryRecords
           /\ \A choice \in Chosen :
                  [Entry(overlay, id) EXCEPT !.name = choice[2]] \in EntryRecords
BY EntryIs DEF EntryRecords

\* An amendment is no decision: what it leaves approved was approved.
LEMMA AmendedIs ==
    ASSUME OverlayIs(overlay), NEW id
    PROVE  /\ [Entry(overlay, id) EXCEPT !.omit = TRUE].status = Entry(overlay, id).status
           /\ \A effect : [Entry(overlay, id) EXCEPT !.effect = effect].status
                            = Entry(overlay, id).status
           /\ \A kind : [Entry(overlay, id) EXCEPT !.kind = kind].status
                          = Entry(overlay, id).status
           /\ \A name : [Entry(overlay, id) EXCEPT !.name = name].status
                          = Entry(overlay, id).status
BY EntryIs DEF EntryRecords

-----------------------------------------------------------------------------
(***************************************************************************)
(* The steps.  A decision is an approval, a rejection, an amendment that   *)
(* leaves the status alone, or a workflow that is taken up.                *)
(***************************************************************************)

Amends(id, entry) == Amend(id, entry) /\ entry.status = Entry(overlay, id).status

LEMMA Decided ==
    ASSUME OverlayIs(overlay), Decide(Plan)
    PROVE  \/ \E risk, group, names : Approve(Plan, risk, group, names)
           \/ \E id : Reject(id)
           \/ \E id : \E entry \in EntryRecords : Amends(id, entry)
           \/ \E proposal \in Plan.proposals, status \in {"proposed", "approved"},
                 supersedes \in BOOLEAN : TakeUp(proposal, status, supersedes)
<1> DEFINE Amended == \E id : \E entry \in EntryRecords : Amends(id, entry)
<1>1. ASSUME NEW id, Omit(id)
      PROVE  Amended
    <2>1. /\ [Entry(overlay, id) EXCEPT !.omit = TRUE] \in EntryRecords
          /\ [Entry(overlay, id) EXCEPT !.omit = TRUE].status = Entry(overlay, id).status
        BY GivenIs, AmendedIs
    <2>2. Amends(id, [Entry(overlay, id) EXCEPT !.omit = TRUE])
        BY <1>1, <2>1 DEF Omit, Amends
    <2>3. QED  BY <2>1, <2>2
<1>2. ASSUME NEW id, NEW effect \in Effects, Reclassify(id, effect)
      PROVE  Amended
    <2>1. /\ [Entry(overlay, id) EXCEPT !.effect = effect] \in EntryRecords
          /\ [Entry(overlay, id) EXCEPT !.effect = effect].status = Entry(overlay, id).status
        BY GivenIs, AmendedIs
    <2>2. Amends(id, [Entry(overlay, id) EXCEPT !.effect = effect])
        BY <1>2, <2>1 DEF Reclassify, Amends
    <2>3. QED  BY <2>1, <2>2
<1>3. ASSUME NEW id, NEW kind \in Kept, Rekind(id, kind)
      PROVE  Amended
    <2>1. /\ [Entry(overlay, id) EXCEPT !.kind = kind] \in EntryRecords
          /\ [Entry(overlay, id) EXCEPT !.kind = kind].status = Entry(overlay, id).status
        BY GivenIs, AmendedIs
    <2>2. Amends(id, [Entry(overlay, id) EXCEPT !.kind = kind])
        BY <1>3, <2>1 DEF Rekind, Amends
    <2>3. QED  BY <2>1, <2>2
<1>4. ASSUME NEW id, NEW choice \in Chosen, Rename(id, choice[2])
      PROVE  Amended
    <2>1. /\ [Entry(overlay, id) EXCEPT !.name = choice[2]] \in EntryRecords
          /\ [Entry(overlay, id) EXCEPT !.name = choice[2]].status = Entry(overlay, id).status
        BY GivenIs, AmendedIs
    <2>2. Amends(id, [Entry(overlay, id) EXCEPT !.name = choice[2]])
        BY <1>4, <2>1 DEF Rename, Amends
    <2>3. QED  BY <2>1, <2>2
<1> HIDE DEF Amended
<1>5. QED
    <2>1. CASE \E risk, group, names : Approve(Plan, risk, group, names)
        BY <2>1
    <2>2. CASE ~\E risk, group, names : Approve(Plan, risk, group, names)
        <3>1. \/ Amended
              \/ \E id : Reject(id)
              \/ \E proposal \in Plan.proposals, status \in {"proposed", "approved"},
                    supersedes \in BOOLEAN : TakeUp(proposal, status, supersedes)
            BY <1>1, <1>2, <1>3, <1>4, <2>2, Zenon DEF Decide
        <3>2. QED  BY <3>1, Zenon DEF Amended
    <2>3. QED  BY <2>1, <2>2

LEMMA RestampedIs ==
    ASSUME OverlayIs(overlay), Restamp
    PROVE  /\ OverlayIs(overlay')
           /\ overlay'.digest = specification.digest
           /\ overlay'.entries = overlay.entries
           /\ overlay'.composites = overlay.composites
<1>1. overlay' = [digest |-> specification.digest, entries |-> overlay.entries,
                  composites |-> overlay.composites]
    BY DEF Restamp, Restamped, OverlayIs
<1>2. QED  BY <1>1 DEF OverlayIs

\* A workflow that is taken up comes after the composites there are.
LEMMA TakenUpIs ==
    ASSUME Types, NEW proposal \in Plan.proposals, NEW status \in {"proposed", "approved"},
           NEW supersedes \in BOOLEAN, TakeUp(proposal, status, supersedes)
    PROVE  /\ OverlayIs(overlay')
           /\ overlay'.digest = Open.digest
           /\ overlay'.entries = overlay.entries
           /\ \A i \in DOMAIN overlay'.composites :
                  \/ /\ i \in DOMAIN overlay.composites
                     /\ overlay'.composites[i] = overlay.composites[i]
                  \/ /\ overlay'.composites[i].steps = proposal.steps
                     /\ overlay'.composites[i].status = status
<1> DEFINE composite == [id |-> proposal.steps, name |-> proposal.steps,
                         steps |-> proposal.steps, status |-> status,
                         supersedes |-> supersedes]
<1>1. composite \in CompositeRecords
    BY ProposedIs DEF Types, CompositeRecords
<1>2. /\ composite.steps = proposal.steps
      /\ composite.status = status
    OBVIOUS
<1>3. overlay' = [Open EXCEPT !.composites = Append(Open.composites, composite)]
    BY DEF TakeUp
<1> HIDE DEF composite
<1>4. overlay' = [digest |-> Open.digest, entries |-> overlay.entries,
                  composites |-> Append(overlay.composites, composite)]
    BY <1>3, OpenIs DEF OverlayIs, Types
<1>5. QED  BY <1>1, <1>2, <1>4 DEF OverlayIs, Types

LEMMA InitTypes == Init => Types
BY NoOverlayIs, MaxEditsAssumption DEF Init, Types, TypeOK

LEMMA NextTypes ==
    ASSUME Types, [Next]_vars
    PROVE  Types'
<1> USE DEF Types
<1>1. ASSUME NEW new \in Documents, Revise(new)
      PROVE  Types'
    BY <1>1 DEF Revise, TypeOK
<1>2. CASE Matching /\ Decide(Plan)
    <2>1. ASSUME NEW risk, NEW group, NEW names, Approve(Plan, risk, group, names)
          PROVE  Types'
        BY <1>2, <2>1, ApprovedIs DEF Approve, TypeOK
    <2>2. ASSUME NEW id, NEW entry \in EntryRecords, Edit(id, entry)
          PROVE  Types'
        <3>1. OverlayIs(overlay') /\ overlay'.digest = Open.digest
            BY <2>2, EditedIs DEF Edit
        <3>2. edits' \in 0..MaxEdits[specification.service]
            BY <2>2, MaxEditsAssumption DEF Edit, TypeOK
        <3>3. QED  BY <2>2, <3>1, <3>2, OpenIs DEF Edit, TypeOK
    <2>3. ASSUME NEW proposal \in Plan.proposals, NEW status \in {"proposed", "approved"},
                 NEW supersedes \in BOOLEAN, TakeUp(proposal, status, supersedes)
          PROVE  Types'
        <3>1. OverlayIs(overlay') /\ overlay'.digest = Open.digest
            BY <2>3, TakenUpIs
        <3>2. edits' \in 0..MaxEdits[specification.service]
            BY <2>3, MaxEditsAssumption DEF TakeUp, TypeOK
        <3>3. QED  BY <2>3, <3>1, <3>2, OpenIs DEF TakeUp, TypeOK
    <2>4. QED
        BY <1>2, <2>1, <2>2, <2>3, Decided, GivenIs DEF Reject, Amends, Amend
<1>3. CASE Restamp
    BY <1>3, RestampedIs DEF Restamp, TypeOK
<1>4. ASSUME NEW plan, ServeWith(plan)
      PROVE  Types'
    BY <1>4 DEF ServeWith, TypeOK
<1>5. CASE UNCHANGED vars
    BY <1>5 DEF vars, TypeOK
<1>6. QED
    BY <1>1, <1>2, <1>3, <1>4, <1>5 DEF Next, ServeSemantic, ServeBaseline

\* What is on disk is what the code can have written, however often people edit.
THEOREM TypeCorrect == Spec => []TypeOK
<1>1. Types /\ [Next]_vars => Types'  BY NextTypes
<1>2. Types => TypeOK  BY DEF Types
<1>3. QED  BY InitTypes, <1>1, <1>2, PTL DEF Spec

-----------------------------------------------------------------------------
(***************************************************************************)
(* Approvals.  An approval is vouched for under the digest of the overlay  *)
(* it is in: an overlay that is edited is one for the bytes on disk, and   *)
(* re-stamping carries the vouching along with the decisions.              *)
(***************************************************************************)

Vouched(id) == \E v \in vouched : v[1] = overlay.digest /\ Head(v[2]) = id

LEMMA NoneApproved == DOMAIN NoOverlay.entries = {} /\ DOMAIN NoOverlay.composites = {}
BY NoEntries DEF NoOverlay

LEMMA ApproveVouched ==
    ASSUME Types, ApprovalsAreVouched, Matching,
           NEW risk, NEW group, NEW names, Approve(Plan, risk, group, names)
    PROVE  ApprovalsAreVouched'
<1> DEFINE selection == Selected(Plan, risk, group, names)
<1>1. /\ overlay' = ApprovedOverlay(Plan, overlay, selection)
      /\ vouched' = vouched \union {<<specification.digest, artifact.sources>> :
                                        artifact \in selection}
    BY DEF Approve, Plan, PlanSemantic
<1>2. selection \subseteq Plan.artifacts
    BY DEF Selected
<1>3. /\ overlay'.digest = specification.digest
      /\ overlay # NoOverlay => overlay'.digest = overlay.digest
      /\ overlay'.composites = overlay.composites
    BY <1>1, ApprovedIs DEF Types, Matching, OverlayMatches
<1> HIDE DEF selection
<1>4. ASSUME NEW id \in DOMAIN overlay'.entries,
             overlay'.entries[id].status = "approved"
      PROVE  Vouched(id)'
    <2>1. CASE \E artifact \in selection : artifact.sources[1] = id
        <3>1. PICK artifact \in selection : artifact.sources[1] = id
            BY <2>1
        <3>2. Head(artifact.sources) = id
            BY <1>2, <3>1, SubjectIs DEF Types
        <3>3. <<specification.digest, artifact.sources>> \in vouched'
            BY <1>1
        <3>4. QED  BY <1>3, <3>2, <3>3 DEF Vouched
    <2>2. CASE id \in DOMAIN overlay.entries /\ overlay'.entries[id] = overlay.entries[id]
        <3>1. Vouched(id)
            BY <1>4, <2>2 DEF ApprovalsAreVouched, Vouched
        <3>2. QED  BY <1>1, <1>3, <2>2, <3>1, NoneApproved DEF Vouched
    <2>3. QED  BY <1>1, <2>1, <2>2, ApprovedIs DEF Types
<1>5. ASSUME NEW i \in DOMAIN overlay'.composites,
             overlay'.composites[i].status = "approved"
      PROVE  <<overlay.digest, overlay.composites[i].steps>>' \in vouched'
    BY <1>1, <1>3, <1>5, NoneApproved DEF ApprovalsAreVouched
<1>6. QED  BY <1>4, <1>5 DEF ApprovalsAreVouched, Vouched

LEMMA EditVouched ==
    ASSUME Types, ApprovalsAreVouched, Matching, NEW id, NEW entry \in EntryRecords,
           Edit(id, entry),
           \/ entry.status = Entry(overlay, id).status /\ vouched' = vouched
           \/ /\ entry.status = "rejected"
              /\ vouched' = vouched \ {<<specification.digest, <<id>>>>}
    PROVE  ApprovalsAreVouched'
<1>1. /\ overlay'.composites = overlay.composites
      /\ DOMAIN overlay'.entries = {id} \union DOMAIN overlay.entries
      /\ overlay'.entries[id] = entry
      /\ \A other \in DOMAIN overlay.entries \ {id} :
             overlay'.entries[other] = overlay.entries[other]
      /\ overlay # NoOverlay => overlay'.digest = overlay.digest
    BY EditedIs, OpenIs DEF Edit, Types
<1>2. ASSUME NEW other \in DOMAIN overlay'.entries,
             overlay'.entries[other].status = "approved"
      PROVE  Vouched(other)'
    <2>1. other \in DOMAIN overlay.entries /\ overlay.entries[other].status = "approved"
        BY <1>1, <1>2 DEF Entry, Blank, None
    <2>2. overlay # NoOverlay
        BY <2>1, NoneApproved
    <2>3. PICK v \in vouched : v[1] = overlay.digest /\ Head(v[2]) = other
        BY <2>1 DEF ApprovalsAreVouched
    <2>4. v \in vouched'
        <3>1. CASE other = id
            BY <1>1, <1>2, <3>1
        <3>2. CASE other # id
            <4>1. Head(<<id>>) = id  OBVIOUS
            <4>2. v # <<specification.digest, <<id>>>>
                BY <2>3, <3>2, <4>1
            <4>3. QED  BY <4>2
        <3>3. QED  BY <3>1, <3>2
    <2>5. QED  BY <1>1, <2>2, <2>3, <2>4 DEF Vouched
<1>3. ASSUME NEW i \in DOMAIN overlay'.composites,
             overlay'.composites[i].status = "approved"
      PROVE  <<overlay.digest, overlay.composites[i].steps>>' \in vouched'
    <2>1. /\ <<overlay.digest, overlay.composites[i].steps>> \in vouched
          /\ overlay'.digest = overlay.digest
        BY <1>1, <1>3, NoneApproved DEF ApprovalsAreVouched
    <2>2. overlay.composites[i] \in CompositeRecords
        BY <1>1 DEF Types, OverlayIs
    <2>3. overlay.composites[i].steps \in Workflows
        BY <2>2 DEF CompositeRecords
    <2>4. overlay.composites[i].steps # <<id>>
        BY <2>3, WorkflowIs
    <2>5. QED  BY <1>1, <2>1, <2>4
<1>4. QED  BY <1>2, <1>3 DEF ApprovalsAreVouched, Vouched

LEMMA TakeUpVouched ==
    ASSUME Types, ApprovalsAreVouched, Matching, NEW proposal \in Plan.proposals,
           NEW status \in {"proposed", "approved"}, NEW supersedes \in BOOLEAN,
           TakeUp(proposal, status, supersedes)
    PROVE  ApprovalsAreVouched'
<1>1. vouched' = vouched \union When(status = "approved", <<Open.digest, proposal.steps>>)
    BY DEF TakeUp
<1>2. /\ overlay'.digest = Open.digest
      /\ overlay # NoOverlay => overlay'.digest = overlay.digest
      /\ overlay'.entries = overlay.entries
    BY TakenUpIs, OpenIs DEF Types
<1>3. ASSUME NEW i \in DOMAIN overlay'.composites,
             overlay'.composites[i].status = "approved"
      PROVE  <<overlay.digest, overlay.composites[i].steps>>' \in vouched'
    <2>1. CASE /\ i \in DOMAIN overlay.composites
               /\ overlay'.composites[i] = overlay.composites[i]
        BY <1>1, <1>2, <1>3, <2>1, NoneApproved DEF ApprovalsAreVouched
    <2>2. CASE /\ overlay'.composites[i].steps = proposal.steps
               /\ overlay'.composites[i].status = status
        BY <1>1, <1>2, <1>3, <2>2 DEF When
    <2>3. QED  BY <2>1, <2>2, TakenUpIs
<1>4. QED  BY <1>1, <1>2, <1>3, NoneApproved DEF ApprovalsAreVouched

LEMMA RestampVouched ==
    ASSUME Types, ApprovalsAreVouched, Restamp
    PROVE  ApprovalsAreVouched'
<1>1. /\ overlay'.digest = specification.digest
      /\ overlay'.entries = overlay.entries /\ overlay'.composites = overlay.composites
    BY RestampedIs DEF Types
<1>2. \A v \in vouched : v[1] = overlay.digest => <<specification.digest, v[2]>> \in vouched'
    BY DEF Restamp
<1>3. ASSUME NEW id \in DOMAIN overlay.entries, overlay.entries[id].status = "approved"
      PROVE  Vouched(id)'
    <2>1. PICK v \in vouched : v[1] = overlay.digest /\ Head(v[2]) = id
        BY <1>3 DEF ApprovalsAreVouched
    <2>2. <<specification.digest, v[2]>> \in vouched'
        BY <1>2, <2>1
    <2>3. QED  BY <1>1, <2>1, <2>2 DEF Vouched
<1>4. ASSUME NEW i \in DOMAIN overlay.composites,
             overlay.composites[i].status = "approved"
      PROVE  <<specification.digest, overlay.composites[i].steps>> \in vouched'
    <2>1. <<overlay.digest, overlay.composites[i].steps>> \in vouched
        BY <1>4 DEF ApprovalsAreVouched
    <2>2. QED  BY <1>2, <2>1
<1>5. QED  BY <1>1, <1>3, <1>4 DEF ApprovalsAreVouched, Vouched

LEMMA NextVouched ==
    ASSUME Types, ApprovalsAreVouched, [Next]_vars
    PROVE  ApprovalsAreVouched'
<1>1. CASE overlay' = overlay /\ vouched' = vouched
    BY <1>1 DEF ApprovalsAreVouched
<1>2. CASE Matching /\ Decide(Plan)
    <2>1. ASSUME NEW id, Reject(id)
          PROVE  ApprovalsAreVouched'
        <3> DEFINE entry == [Entry(overlay, id) EXCEPT !.status = "rejected"]
        <3>1. entry \in EntryRecords /\ entry.status = "rejected"
            BY GivenIs, EntryIs DEF Types, EntryRecords
        <3>2. QED  BY <1>2, <2>1, <3>1, EditVouched DEF Reject
    <2>2. ASSUME NEW id, NEW entry \in EntryRecords, Amends(id, entry)
          PROVE  ApprovalsAreVouched'
        BY <1>2, <2>2, EditVouched DEF Amends, Amend
    <2>3. QED
        BY <1>2, <2>1, <2>2, Decided, ApproveVouched, TakeUpVouched DEF Types
<1>3. CASE Restamp
    BY <1>3, RestampVouched
<1>4. QED
    BY <1>1, <1>2, <1>3
    DEF Next, Revise, ServeSemantic, ServeBaseline, ServeWith, vars

\* Approving, editing, revising and re-stamping in any order produce no approval that
\* nobody gave for the bytes the overlay is for.
THEOREM VouchedCorrect == Spec => []ApprovalsAreVouched
<1> DEFINE Inv == Types /\ ApprovalsAreVouched
<1>1. Init => Inv
    BY InitTypes, NoneApproved DEF Init, ApprovalsAreVouched
<1>2. Inv /\ [Next]_vars => Inv'  BY NextTypes, NextVouched
<1>3. Inv => ApprovalsAreVouched  OBVIOUS
<1>4. QED  BY <1>1, <1>2, <1>3, PTL DEF Spec

-----------------------------------------------------------------------------
(***************************************************************************)
(* Serving.  The gate lets a tool that changes state through only when its *)
(* artifact is approved, and an artifact is approved because its entry or  *)
(* its composite is.                                                       *)
(***************************************************************************)

Releasable(artifact) ==
    /\ artifact.risk # "unknown"
    /\ artifact.risk \in ApprovalRequired => artifact.status = "approved"

LEMMA DescriptorIs ==
    ASSUME NEW ir, NEW plan, NEW artifact, NEW manifest
    PROVE  LET tool == Descriptor(ir, plan, artifact, manifest) IN
           /\ tool.artifact = artifact
           /\ tool.annotations.readOnly = (artifact.risk = "read")
           /\ Executable(tool) => Releasable(artifact)
<1> DEFINE steps == Steps(ir.operations, artifact.sources)
           policy == PolicyFor(manifest, artifact)
           composed == ComposeInputSchema(steps, artifact.omitted,
                                          DOMAIN CompositeThreading(steps))
           tool == Described(ir, plan, artifact, steps, policy, composed)
<1>1. Descriptor(ir, plan, artifact, manifest) = tool
    BY DEF Descriptor
<1>2. tool.artifact = artifact /\ tool.annotations.readOnly = (artifact.risk = "read")
    BY DEF Described, Annotations
<1>3. tool.blockers = Blockers(ir, plan, artifact, steps, policy, composed)
    BY DEF Described
<1> HIDE DEF steps, policy, composed
<1>4. Blockers(ir, plan, artifact, steps, policy, composed) = {} => Releasable(artifact)
    BY DEF Blockers, When, Releasable
<1> HIDE DEF tool
<1>5. QED  BY <1>1, <1>2, <1>3, <1>4 DEF Executable

LEMMA OfferIs ==
    ASSUME NEW plan, NEW tool \in Offer(plan).tools
    PROVE  \E artifact \in plan.artifacts :
               /\ tool.sources = artifact.sources
               /\ tool.annotations.readOnly = (artifact.risk = "read")
               /\ Releasable(artifact)
<1> DEFINE manifest == SynthesizePolicy(specification, plan)
           surface == GenerateSurface(specification, plan, manifest)
<1>1. tool \in Emit(specification, surface, manifest).tools
    BY DEF Offer, NoServer
<1> HIDE DEF manifest
<1>2. PICK descriptor \in Registered(surface) :
          /\ tool.sources = descriptor.artifact.sources
          /\ tool.annotations = descriptor.annotations
    BY <1>1 DEF Emit, Registration
<1>3. PICK artifact \in plan.artifacts :
          descriptor = Descriptor(specification, plan, artifact, manifest)
    BY <1>2 DEF Registered, GenerateSurface
<1>4. Executable(descriptor)
    BY <1>2 DEF Registered
<1>5. QED  BY <1>2, <1>3, <1>4, DescriptorIs

LEMMA RiskIs ==
    /\ \A effect \in SideEffects : RiskOf[effect] = effect
    /\ SideEffects = {"read", "unknown"} \union (SideEffects \intersect ApprovalRequired)
BY DEF RiskOf, SideEffects, ApprovalRequired

\* What may be served and changes state is approved, and so somebody vouched for it.
LEMMA SemanticCovered ==
    ASSUME Types, ApprovalsAreVouched, NEW given \in {overlay, NoOverlay},
           OverlayMatches(specification, given),
           NEW artifact \in PlanSemantic(specification, given).artifacts,
           Releasable(artifact), artifact.risk # "read"
    PROVE  Promise!Covered(specification.digest, artifact.sources)
<1> DEFINE ops == specification.operations
<1>1. OverlayIs(given)
    BY NoOverlayIs DEF Types
<1>2. ASSUME NEW i \in DOMAIN ops, NEW name, NEW blocked,
             artifact = Artifact(i, ops[i], Entry(given, ops[i].id), name, blocked)
      PROVE  Promise!Covered(specification.digest, artifact.sources)
    <2> DEFINE id == ops[i].id
               entry == Entry(given, id)
    <2>1. /\ artifact.sources = <<id>>
          /\ artifact.risk = RiskOf[IF entry.effect # None THEN entry.effect ELSE ops[i].effect]
          /\ artifact.status = IF entry.status # None THEN entry.status ELSE "proposed"
        BY <1>2 DEF Artifact
    <2>2. (IF entry.effect # None THEN entry.effect ELSE ops[i].effect) \in SideEffects
        <3>1. entry \in EntryRecords
            BY <1>1, EntryIs
        <3>2. entry.effect # None => entry.effect \in SideEffects
            BY <3>1, EffectsAssumption DEF EntryRecords
        <3>3. ops[i].effect \in SideEffects
            BY DocumentsAssumption DEF Types, TypeOK
        <3>4. QED  BY <3>2, <3>3
    <2>3. artifact.risk \in ApprovalRequired
        <3>1. artifact.risk \in SideEffects
            BY <2>1, <2>2, RiskIs
        <3>2. QED  BY <3>1, RiskIs DEF Releasable
    <2>4. entry.status = "approved"
        BY <2>1, <2>3 DEF Releasable
    <2>5. id \in DOMAIN given.entries /\ given.entries[id].status = "approved"
        BY <2>4 DEF Entry, Blank, None
    <2>6. given = overlay /\ overlay.digest = specification.digest
        BY <2>5, NoneApproved DEF OverlayMatches
    <2>7. \E v \in vouched : v[1] = specification.digest /\ Head(v[2]) = id
        BY <2>5, <2>6 DEF ApprovalsAreVouched
    <2>8. Head(artifact.sources) = id
        BY <2>1
    <2>9. QED  BY <2>7, <2>8 DEF Promise!Covered
<1>3. ASSUME NEW at, NEW i \in DOMAIN given.composites,
             artifact = CompositeArtifact(at, ops, given.composites[i])
      PROVE  Promise!Covered(specification.digest, artifact.sources)
    <2>1. /\ artifact.sources = given.composites[i].steps
          /\ artifact.status = given.composites[i].status
          /\ artifact.risk = CompositeRisk(ops, given.composites[i].steps)
        BY <1>3 DEF CompositeArtifact
    <2>2. artifact.risk \in {"destructive", "write", "unknown", "read"}
        BY <2>1 DEF CompositeRisk
    <2>3. artifact.status = "approved"
        BY <2>2 DEF Releasable, ApprovalRequired
    <2>4. given = overlay /\ overlay.digest = specification.digest
        BY NoneApproved DEF OverlayMatches
    <2>5. <<specification.digest, artifact.sources>> \in vouched
        BY <2>1, <2>3, <2>4 DEF ApprovalsAreVouched
    <2>6. QED  BY <2>5 DEF Promise!Covered
<1>4. CASE \E i \in DOMAIN ops : \E name, blocked :
               artifact = Artifact(i, ops[i], Entry(given, ops[i].id), name, blocked)
    BY <1>2, <1>4
<1>5. CASE \E i \in DOMAIN given.composites :
               artifact = CompositeArtifact(Len(ops) + i, ops, given.composites[i])
    BY <1>3, <1>5
<1>6. QED  BY <1>4, <1>5, PlannedIs

\* The baseline proposes everything and approves nothing: it serves what reads.
LEMMA BaselineReads ==
    ASSUME Types, NEW artifact \in PlanBaseline(specification).artifacts,
           Releasable(artifact)
    PROVE  artifact.risk = "read"
<1>1. PICK i \in DOMAIN specification.operations :
          /\ artifact.risk = RiskOf[specification.operations[i].effect]
          /\ artifact.status = "proposed"
    <2> DEFINE Proposed(i) ==
            [at |-> i, kind |-> "tool", name |-> Name(<<specification.operations[i].id>>),
             describes |-> [told |-> None, unfinished |-> FALSE],
             sources |-> <<specification.operations[i].id>>,
             risk |-> RiskOf[specification.operations[i].effect],
             status |-> "proposed", confidence |-> 0, group |-> None, fields |-> {},
             omitted |-> {}]
    <2>1. PlanBaseline(specification).artifacts
              = {Proposed(i) : i \in DOMAIN specification.operations}
        BY DEF PlanBaseline
    <2>2. \A i : /\ Proposed(i).risk = RiskOf[specification.operations[i].effect]
                 /\ Proposed(i).status = "proposed"
        OBVIOUS
    <2> HIDE DEF Proposed
    <2>3. QED  BY <2>1, <2>2
<1>2. specification.operations[i].effect \in SideEffects
    BY DocumentsAssumption DEF Types, TypeOK
<1>3. artifact.risk \in {"read", "unknown"} \union (SideEffects \intersect ApprovalRequired)
    BY <1>1, <1>2, RiskIs
<1>4. QED  BY <1>1, <1>3 DEF Releasable

LEMMA ServePublishes ==
    ASSUME Types, ApprovalsAreVouched,
           \/ \E given \in {overlay, NoOverlay} : ServeSemantic(given)
           \/ ServeBaseline
    PROVE  Promise!Publish
<1>1. ASSUME NEW plan, ServeWith(plan),
             \A artifact \in plan.artifacts :
                 Releasable(artifact) /\ artifact.risk # "read"
                     => Promise!Covered(specification.digest, artifact.sources)
      PROVE  Promise!Publish
    <2>1. PICK server \in {Offer(plan)} :
              /\ served' = [digest |-> specification.digest,
                            changes |-> {tool.sources : tool \in {t \in server.tools :
                                                              ~t.annotations.readOnly}}]
              /\ UNCHANGED <<specification, overlay, vouched, edits>>
        BY <1>1 DEF ServeWith
    <2>2. ASSUME NEW subject \in served'.changes
          PROVE  Promise!Covered(specification.digest, subject)
        <3>1. PICK tool \in Offer(plan).tools :
                  subject = tool.sources /\ ~tool.annotations.readOnly
            BY <2>1
        <3>2. QED  BY <1>1, <3>1, OfferIs
    <2>3. QED  BY <2>1, <2>2 DEF Promise!Publish, Promise!Covered
<1>2. ASSUME NEW given \in {overlay, NoOverlay}, ServeSemantic(given)
      PROVE  Promise!Publish
    BY <1>1, <1>2, SemanticCovered DEF ServeSemantic
<1>3. CASE ServeBaseline
    BY <1>1, <1>3, BaselineReads DEF ServeBaseline
<1>4. QED  BY <1>2, <1>3

LEMMA DecidePromises ==
    ASSUME Types, Matching, Decide(Plan)
    PROVE  Promise!Vouch \/ Promise!Withdraw
<1>1. ASSUME NEW risk, NEW group, NEW names, Approve(Plan, risk, group, names)
      PROVE  Promise!Vouch
    BY <1>1 DEF Approve, Plan, PlanSemantic, Promise!Vouch
<1>2. ASSUME NEW id, Reject(id)
      PROVE  Promise!Withdraw
    BY <1>2 DEF Reject, Edit, Promise!Withdraw
<1>3. ASSUME NEW id, NEW entry \in EntryRecords, Amends(id, entry)
      PROVE  Promise!Withdraw
    BY <1>3 DEF Amends, Amend, Edit, Promise!Withdraw
<1>4. ASSUME NEW proposal \in Plan.proposals, NEW status \in {"proposed", "approved"},
             NEW supersedes \in BOOLEAN, TakeUp(proposal, status, supersedes)
      PROVE  Promise!Vouch
    <2>1. Open.digest = specification.digest
        BY OpenIs DEF Types, Matching, OverlayMatches
    <2>2. QED  BY <1>4, <2>1 DEF TakeUp, When, Promise!Vouch
<1>5. QED  BY <1>1, <1>2, <1>3, <1>4, Decided DEF Types

\* Nothing that changes state is released but for the bytes somebody vouched for it
\* under: the review, with the planner, the policy, the gate and both emitters, is an
\* implementation of Release.
THEOREM ReleaseCorrect == Spec => KeepsRelease
<1> DEFINE Inv == Types /\ ApprovalsAreVouched
<1>1. Init => Inv
    BY InitTypes, NoneApproved DEF Init, ApprovalsAreVouched
<1>2. Inv /\ [Next]_vars => Inv'  BY NextTypes, NextVouched
<1>3. Init => Promise!Init
    BY DEF Init, Promise!Init
<1>4. Inv /\ [Next]_vars => [Promise!Next]_(Promise!vars)
    <2> SUFFICES ASSUME Inv, [Next]_vars PROVE [Promise!Next]_(Promise!vars)
        OBVIOUS
    <2>1. ASSUME NEW new \in Documents, Revise(new)
          PROVE  Promise!Revise
        BY <2>1 DEF Revise, Promise!Revise
    <2>2. CASE Matching /\ Decide(Plan)
        BY <2>2, DecidePromises DEF Promise!Next
    <2>3. CASE Restamp
        BY <2>3 DEF Restamp, Promise!Vouch, Promise!Next
    <2>4. CASE \/ \E given \in {overlay, NoOverlay} : ServeSemantic(given)
               \/ ServeBaseline
        BY <2>4, ServePublishes DEF Promise!Next
    <2>5. CASE UNCHANGED vars
        BY <2>5 DEF vars, Promise!vars
    <2>6. QED  BY <2>1, <2>2, <2>3, <2>4, <2>5 DEF Next, Promise!Next
<1>5. QED  BY <1>1, <1>2, <1>3, <1>4, PTL DEF Spec, KeepsRelease, Promise!Spec

-----------------------------------------------------------------------------
(***************************************************************************)
(* What the gate lets through.                                             *)
(***************************************************************************)

\* The arguments that are composed for an artifact.
SchemaOf(artifact) ==
    LET steps == Steps(specification.operations, artifact.sources)
    IN ComposeInputSchema(steps, artifact.omitted, DOMAIN CompositeThreading(steps))

\* What is known of a served tool: its artifact, its policy, and that nothing held it back.
Passed(tool, plan, artifact, policy) ==
    /\ tool.sources = artifact.sources
    /\ tool.schema = SchemaOf(artifact)
    /\ tool.annotations.destructive <=> artifact.risk = "destructive"
    /\ tool.annotations.readOnly <=> artifact.risk = "read"
    /\ tool.confirmed \/ tool.resource \/ ~Confirms(policy)
    /\ policy # NoPolicy /\ policy.unresolved = {}
    /\ artifact.risk # "unknown" /\ DocumentLevelBlockers(specification) = {}
    /\ \A id \in ToSet(artifact.sources) :
           /\ Remaining(specification, plan, id) = {}
           /\ id \in Ids(specification.operations)

LEMMA ServedIs ==
    ASSUME NEW plan, NEW tool \in Offer(plan).tools
    PROVE  \E artifact \in plan.artifacts :
               Passed(tool, plan, artifact,
                      PolicyFor(SynthesizePolicy(specification, plan), artifact))
<1> DEFINE manifest == SynthesizePolicy(specification, plan)
           surface == GenerateSurface(specification, plan, manifest)
<1>1. /\ tool \in Emit(specification, surface, manifest).tools
      /\ Compilable(specification, plan)
    BY DEF Offer, NoServer
<1> HIDE DEF manifest
<1>2. PICK artifact \in plan.artifacts :
          \E held \in {Descriptor(specification, plan, artifact, manifest)} :
              /\ Executable(held)
              /\ \E runs : tool = Registration(specification, held,
                                               PolicyFor(manifest, held.artifact), runs)
    BY <1>1 DEF Emit, Registered, GenerateSurface
<1> DEFINE steps == Steps(specification.operations, artifact.sources)
           policy == PolicyFor(manifest, artifact)
           composed == ComposeInputSchema(steps, artifact.omitted,
                                          DOMAIN CompositeThreading(steps))
           held == Described(specification, plan, artifact, steps, policy, composed)
<1>3. Descriptor(specification, plan, artifact, manifest) = held
    BY DEF Descriptor
<1>13. composed = SchemaOf(artifact)
    BY DEF SchemaOf
<1> HIDE DEF steps, policy, composed
<1>4. /\ held.artifact = artifact
      /\ held.blockers = Blockers(specification, plan, artifact, steps, policy, composed)
      /\ held.schema = IF composed.collision THEN NoArguments ELSE composed
      /\ held.annotations.destructive = (artifact.risk = "destructive")
      /\ held.annotations.readOnly = (artifact.risk = "read")
    BY DEF Described, Annotations
<1> HIDE DEF held
<1>5. PICK runs : tool = Registration(specification, held, policy, runs)
    BY <1>2, <1>3, <1>4 DEF policy
<1>6. /\ tool.sources = artifact.sources
      /\ tool.annotations = held.annotations
      /\ tool.schema = held.schema
      /\ tool.confirmed = Gated(held, policy)
      /\ tool.resource = (held.template # <<>>)
    BY <1>4, <1>5 DEF Registration
<1>7. tool.confirmed \/ tool.resource \/ ~Confirms(policy)
    BY <1>6 DEF Gated
<1>8. Blockers(specification, plan, artifact, steps, policy, composed) = {}
    BY <1>2, <1>3, <1>4 DEF Executable
<1>9. /\ policy # NoPolicy /\ policy.unresolved = {}
      /\ artifact.risk # "unknown" /\ DocumentLevelBlockers(specification) = {}
      /\ \A id \in ToSet(artifact.sources) : Remaining(specification, plan, id) = {}
    BY <1>8 DEF Blockers, When
<1>10. \A id \in ToSet(artifact.sources) : id \in Ids(specification.operations)
    BY <1>1 DEF Compilable
<1>14. tool.schema = SchemaOf(artifact)
    <2>1. ~composed.collision
        BY <1>8 DEF Blockers, When
    <2>2. QED  BY <1>4, <1>6, <1>13, <2>1
<1>11. Passed(tool, plan, artifact, policy)
    BY <1>4, <1>6, <1>7, <1>9, <1>10, <1>14 DEF Passed
<1>12. QED  BY <1>11 DEF policy, manifest

\* Of the operations with one identifier, the gate looks at one of them.
LEMMA OperationIs ==
    ASSUME NEW document \in Documents, NEW id \in Ids(document.operations)
    PROVE  \E i \in DOMAIN document.operations :
               /\ Operation(document.operations, id) = document.operations[i]
               /\ document.operations[i].id = id
<1> DEFINE ops == document.operations
           found == At(ops, id)
           R == {pair \in Nat \X Nat : pair[1] < pair[2]}
           left == {Len(ops) - i : i \in found}
<1>1. found # {} /\ \A i \in found : i \in Nat /\ i <= Len(ops) /\ ops[i].id = id
    BY DoubtAssumption DEF Ids, At
<1>2. IsWellFoundedOn(R, Nat)
    BY NatLessThanWellFounded DEF OpToRel
<1>3. left \in SUBSET Nat /\ left # {}
    BY <1>1, DoubtAssumption
<1>4. PICK m \in left : \A k \in left : <<k, m>> \notin R
    <2> HIDE DEF R, left
    <2>1. QED  BY <1>2, <1>3, WFMin
<1>5. PICK last \in found : m = Len(ops) - last
    BY <1>4
<1>6. ASSUME NEW j \in found
      PROVE  j <= last
    <2>1. <<Len(ops) - j, m>> \notin R /\ Len(ops) - j \in Nat /\ m \in Nat
        BY <1>3, <1>4
    <2>2. ~(Len(ops) - j < m)
        BY <2>1
    <2>3. QED  BY <1>1, <1>5, <2>2, DoubtAssumption
<1>7. (CHOOSE i \in found : \A j \in found : j <= i) \in found
    BY <1>6
<1>8. QED  BY <1>7 DEF Operation, At

\* No tool of unknown effect is served that nobody classified, whatever was approved: not
\* alone, and not as a step of a workflow.
THEOREM ClassifiedCorrect == Spec => []ClassifiedBeforeServed
<1>1. TypeOK => ClassifiedBeforeServed
    <2> SUFFICES ASSUME TypeOK, NEW tool \in Tools, NEW id \in ToSet(tool.sources),
                        Operation(specification.operations, id).effect = "unknown",
                        Entry(overlay, id).effect = None
                 PROVE  FALSE
        BY DEF ClassifiedBeforeServed
    <2>1. tool \in Offer(Plan).tools
        BY DEF Tools
    <2>2. PICK artifact, policy : Passed(tool, Plan, artifact, policy)
        BY <2>1, ServedIs
    <2>3. id \in Ids(specification.operations) /\ Remaining(specification, Plan, id) = {}
        BY <2>2 DEF Passed
    <2>4. PICK a \in specification.ambiguities :
              a.blocking /\ a.code = "unclassified_side_effect" /\ a.operation = id
        BY <2>3, OperationIs, DoubtAssumption DEF TypeOK
    <2>5. "unclassified_side_effect" \in BlockingOperations(specification, id)
        BY <2>4 DEF BlockingOperations
    <2>6. id \notin Classified(Plan)
        BY DEF Classified, Plan, PlanSemantic, Decisions, Decision
    <2>7. QED  BY <2>3, <2>5, <2>6 DEF Remaining
<1>2. QED  BY TypeCorrect, <1>1, PTL

\* Nothing that may change state says that it only reads, alone or as a step of a workflow,
\* whatever was classified, renamed and approved: what `Release` counts as changing is
\* everything that may.
THEOREM ReadsCorrect == Spec => []ReadOnlyReads
<1> DEFINE ops == specification.operations
<1>1. Types => ReadOnlyReads
    <2> SUFFICES ASSUME Types, NEW tool \in Tools, tool.annotations.readOnly,
                        NEW id \in ToSet(tool.sources)
                 PROVE  Operation(ops, id).effect = "read" \/ Entry(overlay, id).effect = "read"
        BY DEF ReadOnlyReads
    <2>1. tool \in Offer(Plan).tools
        BY DEF Tools
    <2>2. PICK artifact \in Plan.artifacts : \E policy : Passed(tool, Plan, artifact, policy)
        BY <2>1, ServedIs
    <2>3. /\ artifact.risk = "read" /\ DocumentLevelBlockers(specification) = {}
          /\ id \in ToSet(artifact.sources) /\ id \in Ids(ops)
        BY <2>2 DEF Passed
    <2>4. PICK k \in DOMAIN ops : Operation(ops, id) = ops[k] /\ ops[k].id = id
        BY <2>3, OperationIs DEF Types, TypeOK
    <2>5. ops[k].effect \in SideEffects
        BY DocumentsAssumption DEF Types, TypeOK
    <2>6. ASSUME NEW i \in DOMAIN ops, NEW name, NEW blocked,
                 artifact = Artifact(i, ops[i], Entry(overlay, ops[i].id), name, blocked)
          PROVE  ops[k].effect = "read" \/ Entry(overlay, id).effect = "read"
        <3> DEFINE entry == Entry(overlay, ops[i].id)
        <3>1. /\ artifact.sources = <<ops[i].id>>
              /\ artifact.risk = RiskOf[IF entry.effect # None THEN entry.effect
                                        ELSE ops[i].effect]
            BY <2>6 DEF Artifact
        <3>2. id = ops[i].id
            BY <2>3, <3>1 DEF ToSet
        <3>3. entry \in EntryRecords
            BY EntryIs DEF Types
        <3>4. ops[i].effect \in SideEffects /\ (entry.effect # None => entry.effect \in SideEffects)
            BY <3>3, DocumentsAssumption, EffectsAssumption DEF Types, TypeOK, EntryRecords
        <3>5. "read" = IF entry.effect # None THEN entry.effect ELSE ops[i].effect
            BY <2>3, <3>1, <3>4, RiskIs
        <3>6. ops[i].effect = ops[k].effect
            BY <2>3, <2>4, <3>2, IdentifiersAssumption DEF Types, TypeOK
        <3>7. QED  BY <3>2, <3>5, <3>6
    <2>7. ASSUME NEW at, NEW i \in DOMAIN overlay.composites,
                 artifact = CompositeArtifact(at, ops, overlay.composites[i])
          PROVE  ops[k].effect = "read"
        <3> DEFINE steps == overlay.composites[i].steps
        <3>1. artifact.sources = steps /\ artifact.risk = CompositeRisk(ops, steps)
            BY <2>7 DEF CompositeArtifact
        <3>2. RiskOf[ops[k].effect] \notin {"destructive", "write", "unknown"}
            BY <2>3, <2>4, <3>1 DEF CompositeRisk
        <3>3. RiskOf[ops[k].effect] = ops[k].effect
            BY <2>5, RiskIs
        <3>4. QED  BY <2>5, <3>2, <3>3 DEF SideEffects
    <2>8. CASE \E i \in DOMAIN ops : \E name, blocked :
                   artifact = Artifact(i, ops[i], Entry(overlay, ops[i].id), name, blocked)
        <3>1. ops[k].effect = "read" \/ Entry(overlay, id).effect = "read"
            BY <2>6, <2>8
        <3>2. QED  BY <2>4, <3>1
    <2>9. CASE \E i \in DOMAIN overlay.composites :
                   artifact = CompositeArtifact(Len(ops) + i, ops, overlay.composites[i])
        <3>1. ops[k].effect = "read"
            BY <2>7, <2>9
        <3>2. QED  BY <2>4, <3>1
    <2>10. QED  BY <2>8, <2>9, PlannedIs DEF Plan
<1>2. Types /\ [Next]_vars => Types'  BY NextTypes
<1>3. QED  BY InitTypes, <1>1, <1>2, PTL DEF Spec

\* No two artifacts of the plan have both their kind and their name in common.
Distinct == \A a, b \in Plan.artifacts : ArtifactId(a) = ArtifactId(b) => a = b

LEMMA PlacesAre ==
    ASSUME Types, NEW artifact \in Plan.artifacts
    PROVE  artifact.at \in Int /\ artifact.at <= artifact.at
<1>1. /\ \A i \in DOMAIN specification.operations : i \in Int
      /\ Len(specification.operations) \in Int
      /\ \A i \in DOMAIN overlay.composites : i \in Int
    BY DoubtAssumption DEF Types, TypeOK, OverlayIs
<1>2. ASSUME NEW i \in DOMAIN specification.operations, NEW entry, NEW name, NEW blocked,
             artifact = Artifact(i, specification.operations[i], entry, name, blocked)
      PROVE  artifact.at \in Int
    <2>1. artifact.at = i  BY <1>2 DEF Artifact
    <2>2. QED  BY <1>1, <2>1
<1>3. ASSUME NEW i \in DOMAIN overlay.composites, NEW composite,
             artifact = CompositeArtifact(Len(specification.operations) + i,
                                          specification.operations, composite)
      PROVE  artifact.at \in Int
    <2>1. artifact.at = Len(specification.operations) + i
        BY <1>3 DEF CompositeArtifact
    <2>2. QED  BY <1>1, <2>1
<1>4. CASE \E i \in DOMAIN specification.operations : \E name, blocked :
               artifact = Artifact(i, specification.operations[i],
                                   Entry(overlay, specification.operations[i].id),
                                   name, blocked)
    <2>1. artifact.at \in Int
        BY <1>2, <1>4
    <2>2. QED  BY <2>1
<1>5. CASE \E i \in DOMAIN overlay.composites :
               artifact = CompositeArtifact(Len(specification.operations) + i,
                                            specification.operations, overlay.composites[i])
    <2>1. artifact.at \in Int
        BY <1>3, <1>5
    <2>2. QED  BY <2>1
<1>6. QED  BY <1>4, <1>5, PlannedIs DEF Plan

LEMMA LoneIs ==
    ASSUME NEW artifact \in Plan.artifacts, Len(artifact.sources) > 1
    PROVE  artifact.kind = "composite"
<1>1. CASE \E i, entry, name, blocked :
               artifact = Artifact(i, specification.operations[i], entry, name, blocked)
    <2>1. \E id : artifact.sources = <<id>>
        BY <1>1 DEF Artifact
    <2>2. Len(artifact.sources) = 1
        BY <2>1
    <2>3. QED  BY <2>2
<1>2. CASE \E at, composite :
               artifact = CompositeArtifact(at, specification.operations, composite)
    BY <1>2 DEF CompositeArtifact
<1>3. QED  BY <1>1, <1>2, PlannedIs DEF Plan

\* The policy that is found for an artifact is then the one that was derived from it;
\* `policy_for` finds it by the name.
LEMMA OwnPolicy ==
    ASSUME Types, Distinct, NEW artifact \in Plan.artifacts,
           PolicyFor(SynthesizePolicy(specification, Plan), artifact) # NoPolicy
    PROVE  PolicyFor(SynthesizePolicy(specification, Plan), artifact)
               = ToolPolicy(artifact, KnownSteps(specification, artifact))
<1> DEFINE manifest == SynthesizePolicy(specification, Plan)
           found == {p \in manifest.policies : p.artifact = ArtifactId(artifact)}
           own == ToolPolicy(artifact, KnownSteps(specification, artifact))
<1>1. \A p \in found : p = own
    <2>1. \A p \in manifest.policies : \E a \in Plan.artifacts :
              p = ToolPolicy(a, KnownSteps(specification, a))
        BY DEF SynthesizePolicy
    <2>2. \A a, sources : ToolPolicy(a, sources).artifact = ArtifactId(a)
        BY DEF ToolPolicy, Governed
    <2> HIDE DEF manifest
    <2>3. QED  BY <2>1, <2>2 DEF Distinct
<1>2. own.at = artifact.at
    BY DEF ToolPolicy, Governed
<1> HIDE DEF own, manifest
<1>3. found # {}
    BY DEF PolicyFor, Earliest, manifest
<1>4. found = {own} /\ own.at <= own.at
    BY <1>1, <1>2, <1>3, PlacesAre
<1>5. Earliest(found) = own
    <2> HIDE DEF found
    <2>1. QED  BY <1>4 DEF Earliest
<1>6. PolicyFor(manifest, artifact) = own
    BY <1>5 DEF PolicyFor
<1>7. QED  BY <1>6 DEF manifest, own

\* As long as names tell the artifacts apart, what destroys and what takes several steps is
\* confirmed.
THEOREM ConfirmedCorrect == Spec => [](Distinct => ConfirmedBeforeDestroyed)
<1>1. Types /\ Distinct => ConfirmedBeforeDestroyed
    <2> SUFFICES ASSUME Types, Distinct, NEW tool \in Tools,
                        tool.annotations.destructive \/ Len(tool.sources) > 1
                 PROVE  tool.confirmed \/ tool.resource
        BY DEF ConfirmedBeforeDestroyed
    <2> DEFINE manifest == SynthesizePolicy(specification, Plan)
    <2>1. tool \in Offer(Plan).tools
        BY DEF Tools
    <2>2. PICK artifact \in Plan.artifacts :
              Passed(tool, Plan, artifact, PolicyFor(manifest, artifact))
        BY <2>1, ServedIs
    <2>3. ToolPolicy(artifact, KnownSteps(specification, artifact)).approval
              = Approval(artifact)
        BY DEF ToolPolicy, Governed
    <2>4. PolicyFor(manifest, artifact).approval = Approval(artifact)
        BY <2>2, <2>3, OwnPolicy DEF Passed
    <2> HIDE DEF manifest
    <2>5. Approval(artifact) = "user_confirmation"
        <3>1. CASE tool.annotations.destructive
            <4>1. artifact.risk = "destructive"
                BY <2>2, <3>1 DEF Passed
            <4>2. QED  BY <4>1 DEF Approval
        <3>2. CASE Len(tool.sources) > 1
            <4>1. Len(artifact.sources) > 1
                BY <2>2, <3>2 DEF Passed
            <4>2. artifact.kind = "composite"
                BY <2>2, <4>1, LoneIs
            <4>3. QED  BY <4>2 DEF Approval
        <3>3. QED  BY <3>1, <3>2
    <2>6. Confirms(PolicyFor(manifest, artifact))
        BY <2>2, <2>4, <2>5 DEF Confirms, Passed
    <2>7. QED  BY <2>2, <2>6 DEF Passed
<1>2. Types /\ [Next]_vars => Types'  BY NextTypes
<1>3. QED  BY InitTypes, <1>1, <1>2, PTL DEF Spec

\* What a policy has no concern about says how its callers are authenticated.
LEMMA UnworriedIs ==
    ASSUME NEW auth, LeastPrivilegeScopes(auth).concern = None
    PROVE  auth.declared /\ ~auth.disabled
<1>1. CASE ~auth.declared
    <2>1. LeastPrivilegeScopes(auth).concern = "undeclared"
        BY <1>1 DEF LeastPrivilegeScopes, Grant
    <2>2. QED  BY <2>1 DEF None
<1>2. CASE auth.declared /\ auth.disabled
    <2>1. LeastPrivilegeScopes(auth).concern = "disabled"
        BY <1>2 DEF LeastPrivilegeScopes, Grant
    <2>2. QED  BY <2>1 DEF None
<1>3. QED  BY <1>1, <1>2

\* As long as names tell the artifacts apart, every step of a tool that changes state says
\* how its caller is authenticated.
THEOREM GovernedCorrect == Spec => [](Distinct => UngovernedNeverServed)
<1>1. Types /\ Distinct => UngovernedNeverServed
    <2> SUFFICES ASSUME Types, Distinct, NEW tool \in Tools, NEW id \in ToSet(tool.sources),
                        ~tool.annotations.readOnly
                 PROVE  /\ Operation(specification.operations, id).auth.declared
                        /\ ~Operation(specification.operations, id).auth.disabled
        BY DEF UngovernedNeverServed
    <2> DEFINE manifest == SynthesizePolicy(specification, Plan)
    <2>1. tool \in Offer(Plan).tools
        BY DEF Tools
    <2>2. PICK artifact \in Plan.artifacts :
              Passed(tool, Plan, artifact, PolicyFor(manifest, artifact))
        BY <2>1, ServedIs
    <2> DEFINE known == KnownSteps(specification, artifact)
               grants == {LeastPrivilegeScopes(source.auth) : source \in ToSet(known)}
    <2>3. PolicyFor(manifest, artifact) = ToolPolicy(artifact, known)
        BY <2>2, OwnPolicy DEF Passed
    <2>4. artifact.risk # "read"
        BY <2>2 DEF Passed
    <2>5. ToolPolicy(artifact, known).unresolved = {}
        BY <2>2, <2>3 DEF Passed
    <2> HIDE DEF manifest
    <2>6. Operation(specification.operations, id) \in ToSet(known)
        BY <2>2 DEF Passed, KnownSteps, ToSet
    <2> HIDE DEF known
    <2>7. ToolPolicy(artifact, known).unresolved = {grant.concern : grant \in grants} \ {None}
        BY <2>4 DEF ToolPolicy, Governed
    <2>8. LeastPrivilegeScopes(Operation(specification.operations, id).auth).concern = None
        BY <2>5, <2>6, <2>7
    <2>9. QED  BY <2>8, UnworriedIs
<1>2. Types /\ [Next]_vars => Types'  BY NextTypes
<1>3. QED  BY InitTypes, <1>1, <1>2, PTL DEF Spec

-----------------------------------------------------------------------------
(***************************************************************************)
(* What the planner makes of a specification.                              *)
(***************************************************************************)

LEMMA ArtifactsAre ==
    \E names, blocked :
        /\ names = PlannedNames(specification.operations, overlay)
        /\ Plan.artifacts = Artifacts(specification.operations, overlay, names, blocked)
BY DEF Plan, PlanSemantic

\* An operation is an artifact of its own, a step of an approved composite that replaces it,
\* or left out by a reviewer; there is nothing a composite replaces without being one.
THEOREM NothingVanishesCorrect == Spec => []NothingVanishes
<1>1. NothingVanishes
    <2> SUFFICES ASSUME NEW id \in Ids(specification.operations), ~Entry(overlay, id).omit
                 PROVE  \/ \E a \in Plan.artifacts : a.sources = <<id>>
                        \/ \E a \in Plan.artifacts : /\ a.kind = "composite"
                                                     /\ a.status = "approved"
                                                     /\ id \in ToSet(a.sources)
        BY DEF NothingVanishes
    <2>1. PICK i \in DOMAIN specification.operations : specification.operations[i].id = id
        BY DEF Ids
    <2>2. PICK names, blocked :
              Plan.artifacts = Artifacts(specification.operations, overlay, names, blocked)
        BY ArtifactsAre
    <2>3. CASE id \in Superseded(overlay)
        <3>1. PICK k \in DOMAIN overlay.composites :
                  /\ overlay.composites[k].status = "approved"
                  /\ id \in ToSet(overlay.composites[k].steps)
            BY <2>3 DEF Superseded
        <3> DEFINE a == CompositeArtifact(Len(specification.operations) + k,
                                          specification.operations, overlay.composites[k])
        <3>2. a \in Plan.artifacts
            BY <2>2 DEF Artifacts
        <3>3. /\ a.kind = "composite" /\ a.status = overlay.composites[k].status
              /\ a.sources = overlay.composites[k].steps
            BY DEF CompositeArtifact
        <3> HIDE DEF a
        <3>4. QED  BY <3>1, <3>2, <3>3
    <2>4. CASE id \notin Superseded(overlay)
        <3> DEFINE a == Artifact(i, specification.operations[i], Entry(overlay, id), names[i],
                                 specification.operations[i].id \in blocked)
        <3>1. i \in Planned(specification.operations, overlay)
            BY <2>1, <2>4 DEF Planned
        <3>2. a \in Plan.artifacts
            BY <2>1, <2>2, <3>1 DEF Artifacts
        <3>3. a.sources = <<id>>
            BY <2>1 DEF Artifact
        <3> HIDE DEF a
        <3>4. QED  BY <3>2, <3>3
    <2>5. QED  BY <2>3, <2>4
<1>2. QED  BY <1>1, PTL

\* A sequence has finitely many elements.
LEMMA FiniteElements ==
    ASSUME NEW n \in Nat, NEW it, it = [i \in 1..n |-> it[i]]
    PROVE  IsFiniteSet(ToSet(it)) /\ \A i \in 1..n : it[i] \in ToSet(it)
<1>1. DOMAIN it = 1..n
    OBVIOUS
<1>2. ToSet(it) = {it[i] : i \in 1..n}
    BY <1>1 DEF ToSet
<1>3. it \in Surjection(1..n, ToSet(it))
    BY <1>1, <1>2 DEF Surjection
<1>4. IsFiniteSet(1..n)
    BY FS_Interval
<1>5. QED  BY <1>2, <1>3, <1>4, FS_Surjection

\* A derived name is new, whatever a reviewer called the operations before it.
LEMMA DerivedIsNew ==
    ASSUME TypeOK, NEW names, names = PlannedNames(specification.operations, overlay),
           NEW i \in DOMAIN names, NEW j \in DOMAIN names, i < j,
           Entry(overlay, specification.operations[j].id).name = <<>>
    PROVE  names[i] # names[j]
<1> DEFINE ops == specification.operations
           op == ops[j]
<1>1. Len(ops) \in Nat /\ DOMAIN ops = 1..Len(ops)
    BY DoubtAssumption DEF TypeOK
<1>2. /\ DOMAIN names = 1..Len(ops)
      /\ \A k \in 1..Len(ops) : \E before :
             /\ before = [l \in 1..(k - 1) |-> names[l]]
             /\ names[k] = NextName(ops, overlay, k, before)
    BY <1>1, NamesAre
<1>3. PICK before : /\ before = [l \in 1..(j - 1) |-> names[l]]
                    /\ names[j] = NextName(ops, overlay, j, before)
    BY <1>2
<1>4. i \in 1..(j - 1) /\ j - 1 \in Nat /\ j \in DOMAIN ops
    BY <1>1, <1>2
<1>5. IsFiniteSet(ToSet(before)) /\ before[i] \in ToSet(before) /\ before[i] = names[i]
    BY <1>3, <1>4, FiniteElements
<1>6. IsRoute(op.route)
    BY <1>4, RouteAssumption DEF TypeOK, IsRoute
<1>7. names[j] = Disambiguate(DeriveName(op), op.route, ToSet(before))
    BY <1>3 DEF NextName, NameOf
<1> HIDE DEF op
<1>8. QED  BY <1>5, <1>6, <1>7, DisambiguateIsNew

\* No name the planner derives is one that an earlier operation has.
THEOREM NamesCorrect == Spec => []NamesTellApart
<1>1. TypeOK => NamesTellApart
    BY DerivedIsNew DEF NamesTellApart
<1>2. QED  BY TypeCorrect, <1>1, PTL

-----------------------------------------------------------------------------
(***************************************************************************)
(* What a caller is asked for.                                             *)
(***************************************************************************)

LEMMA StepsAre ==
    ASSUME Types, NEW artifact \in Plan.artifacts,
           \A id \in ToSet(artifact.sources) : id \in Ids(specification.operations)
    PROVE  AreSteps(Steps(specification.operations, artifact.sources))
<1> DEFINE ops == specification.operations
           sources == artifact.sources
           steps == Steps(ops, sources)
<1>1. PICK n \in {1, 2} : DOMAIN sources = 1..n
    <2>1. CASE \E id : sources = <<id>>
        BY <2>1
    <2>2. CASE sources \in Workflows
        <3>1. PICK from, to : sources = <<from, to>>
            BY <2>2, WorkflowIs
        <3>2. DOMAIN sources = 1..2
            BY <3>1
        <3>3. QED  BY <3>2
    <2>3. QED  BY <2>1, <2>2, ArtifactIs DEF Types
<1>2. steps = [i \in 1..n |-> Operation(ops, sources[i])]
    BY <1>1 DEF Steps
<1>3. ASSUME NEW i \in 1..n
      PROVE  /\ Len(steps[i].inputs) \in Nat
             /\ DOMAIN steps[i].inputs = 1..Len(steps[i].inputs)
    <2>1. sources[i] \in Ids(ops)
        BY <1>1 DEF ToSet
    <2>2. PICK k \in DOMAIN ops : Operation(ops, sources[i]) = ops[k]
        BY <2>1, OperationIs DEF Types, TypeOK
    <2>3. steps[i] = ops[k]
        BY <1>2, <2>2
    <2>4. QED  BY <2>3, RouteAssumption DEF Types, TypeOK
<1> HIDE DEF steps
<1>4. Len(steps) = n /\ DOMAIN steps = 1..n
    <2> DEFINE S == {steps[i] : i \in 1..n}
    <2>1. \A i \in 1..n : steps[i] \in S
        OBVIOUS
    <2>2. steps = [i \in 1..n |-> steps[i]] /\ n \in Nat
        BY <1>2
    <2> HIDE DEF S
    <2>3. QED  BY <2>1, <2>2, SequenceIs
<1>5. QED  BY <1>3, <1>4 DEF AreSteps, steps

\* A value that is supplied to one step is not what an earlier step takes under its name:
\* that one would not be asked for, and nothing has it yet (schema.py withholds it by name).
ThreadedFirst ==
    \A tool \in Tools : \E steps \in {Steps(specification.operations, tool.sources)} :
        \A s \in DOMAIN steps : \A field \in ToSet(steps[s].inputs) :
            LET name == IF field.in = "body" THEN "body" ELSE field.name
            IN name \in DOMAIN CompositeThreading(steps) =>
                   CompositeThreading(steps)[name].step <= s

\* Whatever operations a workflow is made of, and however often their arguments have one
\* name, all that a step requires can be given or is supplied, but for the above.
THEOREM ArgumentsCorrect == Spec => [](ThreadedFirst => ArgumentsArrive)
<1>1. Types /\ ThreadedFirst => ArgumentsArrive
    <2> SUFFICES ASSUME Types, ThreadedFirst, NEW tool \in Tools,
                        NEW steps, steps = Steps(specification.operations, tool.sources),
                        NEW s \in DOMAIN steps, NEW field \in ToSet(steps[s].inputs),
                        field.required
                 PROVE  \E b \in tool.schema.bindings :
                            /\ b.step = s /\ b.wire = field.name /\ b.in = field.in
                            /\ \/ b.argument \in tool.schema.required
                               \/ /\ b.argument.of = None
                                  /\ b.argument.name \in DOMAIN CompositeThreading(steps)
                                  /\ CompositeThreading(steps)[b.argument.name].step <= s
        BY DEF ArgumentsArrive
    <2> DEFINE threading == CompositeThreading(steps)
               name == IF field.in = "body" THEN "body" ELSE field.name
    <2>1. tool \in Offer(Plan).tools
        BY DEF Tools
    <2>2. PICK artifact \in Plan.artifacts : \E policy : Passed(tool, Plan, artifact, policy)
        BY <2>1, ServedIs
    <2>3. AreSteps(steps)
        BY <2>2, StepsAre DEF Passed
    <2>4. tool.schema = ComposeInputSchema(steps, artifact.omitted, DOMAIN threading)
        BY <2>2 DEF Passed, SchemaOf
    <2>5. name \in DOMAIN threading => threading[name].step <= s
        BY DEF ThreadedFirst
    <2> DEFINE supplied == DOMAIN threading
               schema == ComposeInputSchema(steps, artifact.omitted, supplied)
    <2> HIDE DEF threading
    <2>6. PICK b \in schema.bindings :
              /\ b.step = s /\ b.wire = field.name /\ b.in = field.in
              /\ \/ b.argument \in schema.required
                 \/ /\ b.argument.of = None /\ b.argument.name \in supplied
                    /\ b.argument.name = name
        <3> HIDE DEF supplied
        <3>1. QED  BY <2>3, ComposedIs
    <2>7. QED  BY <2>4, <2>5, <2>6 DEF threading
<1>2. Types /\ [Next]_vars => Types'  BY NextTypes
<1>3. QED  BY InitTypes, <1>1, <1>2, PTL DEF Spec

-----------------------------------------------------------------------------
(***************************************************************************)
(* When names tell the artifacts apart.                                    *)
(***************************************************************************)

\* A workflow is taken up once, under its own name.
TakenUpOnce ==
    /\ \A i \in DOMAIN overlay.composites :
           overlay.composites[i].id = overlay.composites[i].name
    /\ \A i, j \in DOMAIN overlay.composites :
           overlay.composites[i].name = overlay.composites[j].name => i = j

LEMMA TakeUpOnce ==
    ASSUME Types, TakenUpOnce, NEW proposal \in Plan.proposals, NEW status, NEW supersedes,
           TakeUp(proposal, status, supersedes)
    PROVE  TakenUpOnce'
<1> DEFINE Taken(steps) ==
        \E i \in DOMAIN overlay.composites : overlay.composites[i].id = steps
           composite == [id |-> proposal.steps, name |-> proposal.steps,
                         steps |-> proposal.steps, status |-> status,
                         supersedes |-> supersedes]
           before == overlay.composites
           after == overlay'.composites
<1>1. ~Taken(proposal.steps)
    <2>1. PICK steps : proposal = [steps |-> steps, applied |-> Taken(steps)]
        BY DEF Plan, PlanSemantic, Proposals
    <2>2. ~proposal.applied
        BY DEF TakeUp
    <2> HIDE DEF Taken
    <2>3. proposal.steps = steps /\ proposal.applied = Taken(steps)
        BY <2>1
    <2>4. QED  BY <2>2, <2>3
<1>2. composite.id = proposal.steps /\ composite.name = proposal.steps
    OBVIOUS
<1>3. overlay' = [Open EXCEPT !.composites = Append(Open.composites, composite)]
    BY DEF TakeUp
<1> HIDE DEF composite
<1>4. after = Append(before, composite)
    BY <1>3, OpenIs DEF OverlayIs, Types
<1>5. before \in Seq(CompositeRecords)
    BY DEF Types, OverlayIs
<1>6. PICK n \in Nat : /\ DOMAIN before = 1..n /\ DOMAIN after = 1..(n + 1)
                       /\ \A i \in 1..n : after[i] = before[i]
                       /\ after[n + 1] = composite
    <2> HIDE DEF before, after
    <2>1. QED  BY <1>4, <1>5
<1>7. \A i \in 1..n : after[i].id = after[i].name /\ after[i].id # proposal.steps
    BY <1>1, <1>6 DEF TakenUpOnce
<1>8. after[n + 1].id = after[n + 1].name /\ after[n + 1].id = proposal.steps
    BY <1>2, <1>6
<1>9. \A i, j \in 1..n : after[i].name = after[j].name => i = j
    BY <1>6 DEF TakenUpOnce
<1>10. \A i \in 1..(n + 1) : i \in 1..n \/ i = n + 1
    BY <1>6
<1> HIDE DEF before
<1>11. /\ \A i \in DOMAIN after : after[i].id = after[i].name
       /\ \A i, j \in DOMAIN after : after[i].name = after[j].name => i = j
    BY <1>6, <1>7, <1>8, <1>9, <1>10
<1>12. QED  BY <1>11 DEF TakenUpOnce

LEMMA NextOnce ==
    ASSUME Types, TakenUpOnce, [Next]_vars
    PROVE  TakenUpOnce'
<1>1. CASE overlay'.composites = overlay.composites
    BY <1>1 DEF TakenUpOnce
<1>2. CASE Matching /\ Decide(Plan)
    <2>1. ASSUME NEW id, NEW entry \in EntryRecords, Edit(id, entry)
          PROVE  overlay'.composites = overlay.composites
        BY <2>1, EditedIs DEF Edit, Types
    <2>2. ASSUME NEW risk, NEW group, NEW names, Approve(Plan, risk, group, names)
          PROVE  overlay'.composites = overlay.composites
        BY <2>2, ApprovedIs DEF Approve, Types
    <2>3. ASSUME NEW id, Reject(id)
          PROVE  overlay'.composites = overlay.composites
        BY <2>1, <2>3, GivenIs DEF Reject, Types
    <2>4. QED
        BY <1>1, <1>2, <2>1, <2>2, <2>3, Decided, TakeUpOnce DEF Amends, Amend, Types
<1>3. CASE Restamp
    BY <1>1, <1>3, RestampedIs DEF Types
<1>4. QED
    BY <1>1, <1>2, <1>3
    DEF Next, Revise, ServeSemantic, ServeBaseline, ServeWith, vars

\* Nobody chose a name, or made a workflow of one operation.
PlannersNames ==
    \A id \in DOMAIN overlay.entries :
        overlay.entries[id].name = <<>> /\ overlay.entries[id].kind # "composite"

LEMMA PlannersAreDistinct ==
    ASSUME Types, TakenUpOnce, PlannersNames
    PROVE  Distinct
<1> SUFFICES ASSUME NEW a \in Plan.artifacts, NEW b \in Plan.artifacts,
                    ArtifactId(a) = ArtifactId(b)
             PROVE  a = b
    BY DEF Distinct
<1> DEFINE ops == specification.operations
<1>1. PICK names, blocked : /\ names = PlannedNames(ops, overlay)
                            /\ Plan.artifacts = Artifacts(ops, overlay, names, blocked)
    BY ArtifactsAre
<1> DEFINE Own(i) == Artifact(i, ops[i], Entry(overlay, ops[i].id), names[i],
                              ops[i].id \in blocked)
           Workflow(i) == CompositeArtifact(Len(ops) + i, ops, overlay.composites[i])
<1>2. ASSUME NEW c \in Plan.artifacts
      PROVE  \/ \E i \in DOMAIN ops : c = Own(i)
             \/ \E i \in DOMAIN overlay.composites : c = Workflow(i)
    BY <1>1 DEF Artifacts, Planned
<1>3. a.kind = b.kind /\ a.name = b.name
    BY DEF ArtifactId
<1>4. ASSUME NEW i \in DOMAIN ops
      PROVE  /\ Own(i).name = names[i] /\ Own(i).kind # "composite"
             /\ Entry(overlay, ops[i].id).name = <<>>
    <2> DEFINE entry == Entry(overlay, ops[i].id)
    <2>1. entry.name = <<>> /\ entry.kind # "composite"
        BY DEF Entry, Blank, None, PlannersNames
    <2>2. DeriveKind(ops[i]) # "composite"
        BY DEF DeriveKind
    <2> HIDE DEF entry
    <2>3. QED  BY <2>1, <2>2 DEF Artifact, entry
<1>5. ASSUME NEW i \in DOMAIN overlay.composites
      PROVE  /\ Workflow(i).name.words = overlay.composites[i].name
             /\ Workflow(i).kind = "composite"
    BY DEF CompositeArtifact, Name
<1>6. ASSUME NEW i \in DOMAIN ops, NEW j \in DOMAIN ops, names[i] = names[j]
      PROVE  i = j
    <2>1. Len(ops) \in Nat /\ DOMAIN ops = 1..Len(ops)
        BY DoubtAssumption DEF Types, TypeOK
    <2>2. DOMAIN names = 1..Len(ops)
        BY <1>1, <2>1, NamesAre
    <2>3. ~(i < j) /\ ~(j < i)
        BY <1>1, <1>4, <1>6, <2>1, <2>2, DerivedIsNew DEF Types
    <2>4. QED  BY <2>1, <2>3
<1> HIDE DEF Own, Workflow
<1>7. CASE \E i \in DOMAIN ops : a = Own(i)
    <2>1. \E j \in DOMAIN ops : b = Own(j)
        BY <1>2, <1>3, <1>4, <1>5, <1>7
    <2>2. QED  BY <1>3, <1>4, <1>6, <1>7, <2>1
<1>8. CASE \E i \in DOMAIN overlay.composites : a = Workflow(i)
    <2>1. \E j \in DOMAIN overlay.composites : b = Workflow(j)
        BY <1>2, <1>3, <1>4, <1>5, <1>8
    <2>2. QED  BY <1>3, <1>5, <1>8, <2>1 DEF TakenUpOnce
<1>9. QED  BY <1>2, <1>7, <1>8

\* As long as nobody chose a name, kind and name tell the artifacts apart: the planner's
\* own names are never the reason that a policy is taken for another's.
THEOREM DistinctCorrect == Spec => [](PlannersNames => Distinct)
<1> DEFINE Inv == Types /\ TakenUpOnce
<1>1. Init => Inv
    BY InitTypes, NoneApproved DEF Init, TakenUpOnce
<1>2. Inv /\ [Next]_vars => Inv'  BY NextTypes, NextOnce
<1>3. Inv => (PlannersNames => Distinct)  BY PlannersAreDistinct
<1>4. QED  BY <1>1, <1>2, <1>3, PTL DEF Spec
=============================================================================
