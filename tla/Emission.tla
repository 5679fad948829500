------------------------------ MODULE Emission ------------------------------
(***************************************************************************)
(* From a plan and its policy to a server: the gate that decides which     *)
(* tools may be executable (codegen/tools.py), and what the two emitters   *)
(* register of them (codegen/mcp_server.py, codegen/soap_server.py).       *)
(*                                                                         *)
(* A surface has one descriptor per artifact of the plan.  A server has    *)
(* the tools it registers; text, schemas and comments are left out.        *)
(***************************************************************************)
EXTENDS Policy

ApprovalRequired == {"write", "destructive", "privileged"}

\* The codes of the blocking ambiguities that name an operation.
BlockingOperations(ir, id) ==
    {a.code : a \in {a \in ir.ambiguities : a.blocking /\ a.operation = id}}

\* Those that name none hold back the whole surface.
DocumentLevelBlockers(ir) ==
    {a.code : a \in {a \in ir.ambiguities : a.blocking /\ a.operation \notin Ids(ir.operations)}}

\* A reviewer who classified an operation answered this question and no other.
Classified(plan) ==
    {d.target : d \in {d \in plan.decisions : d.kind = "reclassify" /\ d.origin = "human"}}
Remaining(ir, plan, id) ==
    BlockingOperations(ir, id)
        \ (IF id \in Classified(plan) THEN {"unclassified_side_effect"} ELSE {})

-----------------------------------------------------------------------------
(* The gate *)

\* The form in which a read is addressed; none when the address cannot say its inputs.
UriTemplate(artifact, op) ==
    IF /\ artifact.kind = "resource" /\ op.routed
       /\ \A i \in DOMAIN op.inputs : op.inputs[i].in = "path"
    THEN <<op.route>> ELSE <<>>

Annotations(artifact, op, policy) ==
    [readOnly |-> artifact.risk = "read",
     destructive |-> artifact.risk = "destructive",
     idempotent |-> op.idempotency = "idempotent",
     sensitive |-> policy # NoPolicy /\ policy.sensitivity \in {"personal", "financial"},
     irreversible |-> artifact.risk = "destructive" /\ policy # NoPolicy /\ policy.rollback]

\* Why a tool may not be executable: every reason that holds.
Blockers(ir, plan, artifact, steps, policy, composed) ==
    When(composed.collision, "argument_name_collision")
    \union When(/\ Len(steps) > 1
                /\ \E step \in ToSet(steps) : step.effect # "read"
                /\ ~Confirms(policy), "composite_pending_confirmation")
    \union When(policy = NoPolicy \/ policy.unresolved # {}, "policy_unresolved")
    \union When(\/ \E id \in ToSet(artifact.sources) : Remaining(ir, plan, id) # {}
                \/ DocumentLevelBlockers(ir) # {}, "blocking_ambiguity")
    \union When(artifact.status = "rejected", "rejected")
    \union When(artifact.risk = "unknown", "unclassified_risk")
    \union When(artifact.risk \in ApprovalRequired /\ artifact.status # "approved",
                "awaiting_approval")

Described(ir, plan, artifact, steps, policy, composed) ==
    [artifact |-> artifact,
     blockers |-> Blockers(ir, plan, artifact, steps, policy, composed),
     schema |-> IF composed.collision THEN NoArguments ELSE composed,
     template |-> UriTemplate(artifact, steps[1]),
     annotations |-> Annotations(artifact, steps[1], policy)]

Descriptor(ir, plan, artifact, manifest) ==
    LET Given(steps) ==
            Described(ir, plan, artifact, steps, PolicyFor(manifest, artifact),
                      ComposeInputSchema(steps, artifact.omitted,
                                         DOMAIN CompositeThreading(steps)))
    IN Given(Steps(ir.operations, artifact.sources))

\* Mutant of Executable: an approval outweighs whatever else holds a tool back.
ExecutableOnceApproved(tool) == tool.blockers = {} \/ tool.artifact.status = "approved"

Executable(tool) == tool.blockers = {}

\* Every artifact of the plan has its descriptor.  An artifact of an unknown operation is
\* an error and not a descriptor.
Compilable(ir, plan) ==
    \A artifact \in plan.artifacts : ToSet(artifact.sources) \subseteq Ids(ir.operations)
GenerateSurface(ir, plan, manifest) ==
    {Descriptor(ir, plan, artifact, manifest) : artifact \in plan.artifacts}

-----------------------------------------------------------------------------
(* The servers *)

\* The argument a person retypes: the first in the path, else one that is required.
Phrase(tool) ==
    LET path == {b \in tool.schema.bindings : b.in = "path"}
    IN IF path = {} THEN tool.schema.required
       ELSE {b.argument : b \in {b \in path : \A c \in path : b.at <= c.at}}

\* Both targets ask for confirmation, in their own way, of the same tools.
Gated(tool, policy) == tool.template = <<>> /\ Confirms(policy)

\* What a registered tool presents of the schemes its policy asks for.
ToolSchemes(policy) == policy.schemes
Credentials(ir, policy) == ToolSchemes(policy) \intersect Placements(ir)

Registration(ir, tool, policy, runs) ==
    [artifact |-> ArtifactId(tool.artifact),
     sources |-> tool.artifact.sources,
     runs |-> runs,
     resource |-> tool.template # <<>>,
     confirmed |-> Gated(tool, policy),
     phrase |-> Phrase(tool),
     retry |-> policy.retry,
     rate |-> policy.rate,
     redact |-> policy.redact,
     schema |-> tool.schema,
     annotations |-> tool.annotations,
     asks |-> ToolSchemes(policy),
     credentials |-> Credentials(ir, policy)]

\* What was held back is listed by name, the last of a name standing for all of it.
Withheld(held) ==
    [name \in {tool.artifact.name : tool \in held} |->
        (CHOOSE tool \in held : /\ tool.artifact.name = name
                                /\ \A other \in held : other.artifact.name = name =>
                                       other.artifact.at <= tool.artifact.at).blockers]

NoServer == [tools |-> {}, withheld |-> <<>>]

Registered(surface) == {tool \in surface : Executable(tool)}

\* The first server of the document with an absolute URL.
BaseUrl(ir) ==
    LET absolute == SelectSeq(ir.servers, LAMBDA server : server.absolute)
    IN IF absolute = <<>> THEN None ELSE Head(absolute).url

\* Over HTTP a tool calls all of its steps, each at its route and under one base URL.
HttpEmittable(ir, registered) ==
    /\ BaseUrl(ir) # None
    /\ registered # {}
    /\ \A tool \in registered : \A id \in ToSet(tool.artifact.sources) :
           FirstOperation(ir.operations, id).routed

\* Over SOAP a tool posts one envelope, that of its first operation, and all of them to
\* one endpoint.
Envelopes(ir, registered) ==
    {FirstOperation(ir.operations, tool.artifact.sources[1]) : tool \in registered}
SoapEmittable(ir, registered) ==
    /\ registered # {}
    /\ \A op \in Envelopes(ir, registered) : op.soap
    /\ Cardinality({op.endpoint : op \in Envelopes(ir, registered)} \ {None}) = 1

\* Which of the two targets a surface is for.
Emittable(ir, registered) ==
    IF ir.format = "wsdl" THEN SoapEmittable(ir, registered) ELSE HttpEmittable(ir, registered)
Runs(ir, sources) == IF ir.format = "wsdl" THEN <<sources[1]>> ELSE sources
Emit(ir, surface, manifest) ==
    [tools |-> {Registration(ir, tool, PolicyFor(manifest, tool.artifact),
                             Runs(ir, tool.artifact.sources)) : tool \in Registered(surface)},
     withheld |-> Withheld(surface \ Registered(surface))]
=============================================================================
