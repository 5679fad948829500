------------------------------- MODULE Policy -------------------------------
(***************************************************************************)
(* The governance manifest derived from an IR and a plan:                  *)
(* policy/synthesis.py and the credentials a scheme can present            *)
(* (codegen/credentials.py).  Rationales and provenance are left out.      *)
(*                                                                         *)
(* The authentication of an operation is `declared` or not, `disabled` by  *)
(* an empty list, and otherwise a sequence of alternatives, each the set   *)
(* of schemes and of scopes one of them asks for together.  A format that  *)
(* has no alternatives gives the schemes and scopes of the operation       *)
(* itself.                                                                 *)
(***************************************************************************)
EXTENDS Planning

FinancialTokens ==
    {"payment", "refund", "invoice", "charge", "price", "amount", "currency", "iban", "card",
     "billing", "ledger", "payout", "settlement", "tax"}
PersonalTokens ==
    {"customer", "email", "phone", "address", "name", "birth", "dob", "ssn", "passport",
     "person", "contact", "user"}
SecretTokens ==
    {"password", "secret", "token", "key", "credential", "authorization", "cookie", "pin"}
DefaultMaxOutputBytes == 32768

\* Every word an operation exposes, from its name, wording, route, inputs and outputs.
OperationVocabulary(op) ==
    LET properties == UNION {op.outputs[i].properties : i \in DOMAIN op.outputs}
    IN ToSet(op.words) \union ToSet(op.intent) \union op.description
       \union {op.route[i].text : i \in DOMAIN op.route}
       \union UNION {ToSet(op.inputs[i].words) : i \in DOMAIN op.inputs}
       \union UNION {ToSet(name) : name \in properties}

\* The level of the data an operation touches; vocabulary raises it, nothing lowers it.
ClassifySensitivity(op) ==
    IF OperationVocabulary(op) \intersect FinancialTokens # {} THEN "financial"
    ELSE IF OperationVocabulary(op) \intersect PersonalTokens # {} THEN "personal"
    ELSE "internal"

\* The noun a name ends on says whether its value is a credential.
NamesASecret(words) == words # <<>> /\ Last(words) \in SecretTokens

SecretFields(op) ==
    {name \in UNION {op.outputs[i].properties : i \in DOMAIN op.outputs} : NamesASecret(name)}

-----------------------------------------------------------------------------
(* Authorization *)

Grant(scopes, schemes, concern) == [scopes |-> scopes, schemes |-> schemes, concern |-> concern]

\* The alternative with the fewest scopes of those that have any; the first of equals.
\* The code tells two that ask for as many scopes apart by the names of the scopes; here
\* the first is taken.
Narrowest(alternatives) ==
    LET Scoped(i) == alternatives[i].scopes # {}
        Width(i) == Cardinality(alternatives[i].scopes)
        Before(i, j) ==
            \/ Scoped(i) /\ ~Scoped(j)
            \/ /\ Scoped(i) = Scoped(j)
               /\ \/ Width(i) < Width(j)
                  \/ Width(i) = Width(j) /\ i <= j
    IN alternatives[CHOOSE i \in DOMAIN alternatives :
                        \A j \in DOMAIN alternatives : Before(i, j)]

\* Mutant of LeastPrivilegeScopes: disabled authentication is nothing to worry about.
LeastPrivilegeUnworried(auth) ==
    IF ~auth.declared THEN Grant({}, {}, "undeclared")
    ELSE IF auth.disabled \/ auth.alternatives = <<>> THEN Grant(auth.scopes, auth.schemes, None)
    ELSE LET chosen == Narrowest(auth.alternatives)
         IN Grant(chosen.scopes, chosen.schemes, None)

\* The narrowest requirement that grants access, the schemes it is presented by, and what
\* is wrong with it.  A sole alternative is taken as it is, even when it names no scheme.
LeastPrivilegeScopes(auth) ==
    IF ~auth.declared THEN Grant({}, {}, "undeclared")
    ELSE IF auth.disabled THEN Grant({}, {}, "disabled")
    ELSE IF auth.alternatives = <<>> THEN Grant(auth.scopes, auth.schemes, None)
    ELSE LET chosen == Narrowest(auth.alternatives)
         IN Grant(chosen.scopes, chosen.schemes,
                  IF Len(auth.alternatives) > 1 /\ chosen.scopes = {} THEN "unscoped"
                  ELSE None)

\* How the credential of a scheme travels; None when the compiler cannot place it.
Placement(scheme) ==
    CASE scheme.type \in {"oauth2", "openIdConnect"} -> "bearer"
      [] scheme.type = "apiKey" -> IF scheme.named THEN scheme.in ELSE None
      [] scheme.type = "http" -> IF scheme.scheme \in {"bearer", "basic"} THEN scheme.scheme
                                 ELSE None
      [] OTHER -> None

Placements(ir) ==
    {scheme.id : scheme \in {s \in ir.schemes : Placement(s) # None}}

-----------------------------------------------------------------------------
(* What a tool may do *)

\* Mutant of Approval: what destroys is approved like any other change.
ApprovalOnce(artifact) ==
    IF artifact.kind = "composite" THEN "user_confirmation"
    ELSE IF artifact.risk \in {"write", "destructive", "privileged"} THEN "human_approval"
    ELSE IF artifact.risk = "unknown" THEN "disabled"
    ELSE "none"

Approval(artifact) ==
    IF artifact.kind = "composite" \/ artifact.risk = "destructive" THEN "user_confirmation"
    ELSE IF artifact.risk \in {"write", "privileged"} THEN "human_approval"
    ELSE IF artifact.risk = "unknown" THEN "disabled"
    ELSE "none"

\* A reviewer's classification sets the risk, while the key is asked for by what the
\* specification says of the first step.
Retry(op, risk) ==
    IF risk = "read" \/ op.idempotency = "idempotent" THEN "safe"
    ELSE IF op.idempotency = "non_idempotent" THEN "with_idempotency_key"
    ELSE "never"

Rate(risk) ==
    CASE risk = "read" -> [minute |-> 60, concurrent |-> 4, day |-> 5000]
      [] risk = "destructive" -> [minute |-> 2, concurrent |-> 1, day |-> 20]
      [] OTHER -> [minute |-> 10, concurrent |-> 2, day |-> 200]

Highest(levels) == IF "financial" \in levels THEN "financial"
                   ELSE IF "personal" \in levels THEN "personal" ELSE "internal"
LogClass(sensitivity) == IF sensitivity = "internal" THEN "standard" ELSE "sensitive"

\* The steps of an artifact that the specification knows, each at its place, and the first.
KnownSteps(ir, artifact) ==
    [i \in {i \in DOMAIN artifact.sources : artifact.sources[i] \in Ids(ir.operations)} |->
        Operation(ir.operations, artifact.sources[i])]
Primary(sources) ==
    sources[CHOOSE i \in DOMAIN sources : \A j \in DOMAIN sources : i <= j]

\* The path identifiers of a tool of one step that a gateway may route by; of two that
\* become the same header, the first.
FirstOfEach(inputs) ==
    {i \in DOMAIN inputs : \A j \in 1..(i - 1) : inputs[j].words # inputs[i].words}
Routable(inputs) == [i \in FirstOfEach(inputs) |-> inputs[i].name]
RoutingHeaders(artifact, sources) ==
    LET Offered(input) == /\ input.in = "path" /\ input.mirrorable
                          /\ input.name \notin artifact.omitted
                          /\ ~NamesASecret(input.words) /\ input.words # <<>>
    IN IF Cardinality(DOMAIN sources) # 1 THEN <<>>
       ELSE Routable(SelectSeq(Primary(sources).inputs, Offered))

\* The lists of a surface that can change state are kept for less time, and those of one
\* that presents a credential are not shared.
ListCache(plan, policies) ==
    [ttl |-> IF \E artifact \in plan.artifacts : artifact.risk # "read"
             THEN 60000 ELSE 300000,
     scope |-> IF \E policy \in policies : policy.schemes # {} THEN "private" ELSE "public"]

ArtifactId(artifact) == <<artifact.kind, artifact.name>>

\* The policy of an artifact whose known steps are `sources`, which ask for `grants`.
Governed(artifact, sources, grants, levels) ==
    [at |-> artifact.at,
     artifact |-> ArtifactId(artifact),
     scopes |-> UNION {grant.scopes : grant \in grants},
     schemes |-> UNION {grant.schemes : grant \in grants},
     approval |-> Approval(artifact),
     retry |-> Retry(Primary(sources), artifact.risk),
     rate |-> Rate(artifact.risk),
     production |-> artifact.risk = "read",
     sensitivity |-> Highest(levels),
     logs |-> LogClass(Highest(levels)),
     bytes |-> DefaultMaxOutputBytes,
     redact |-> UNION {SecretFields(source) : source \in ToSet(sources)},
     rollback |-> artifact.risk \in {"write", "destructive"},
     unresolved |-> IF artifact.risk = "read" THEN {}
                    ELSE {grant.concern : grant \in grants} \ {None},
     routing |-> RoutingHeaders(artifact, sources)]

ToolPolicy(artifact, sources) ==
    Governed(artifact, sources,
             {LeastPrivilegeScopes(source.auth) : source \in ToSet(sources)},
             {ClassifySensitivity(source) : source \in ToSet(sources)})

\* An artifact of which no step is known gets no policy.
SynthesizePolicy(ir, plan) ==
    LET Manifest(policies) == [policies |-> policies, listCache |-> ListCache(plan, policies)]
    IN Manifest({ToolPolicy(artifact, KnownSteps(ir, artifact)) :
                     artifact \in {a \in plan.artifacts : DOMAIN KnownSteps(ir, a) # {}}})

\* The first policy with this identifier, which two artifacts of one name share.
NoPolicy == [at |-> 0]
Earliest(found) ==
    IF found = {} THEN NoPolicy
    ELSE CHOOSE policy \in found : \A other \in found : policy.at <= other.at
PolicyFor(manifest, artifact) ==
    Earliest({policy \in manifest.policies : policy.artifact = ArtifactId(artifact)})

Confirms(policy) == policy # NoPolicy /\ policy.approval = "user_confirmation"
=============================================================================
