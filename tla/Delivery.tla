------------------------------ MODULE Delivery ------------------------------
(***************************************************************************)
(* One invocation of a generated tool against the service behind it: the   *)
(* part of `_invoke` after the budget is taken, with `_send` of            *)
(* codegen/mcp_server.py for a REST tool and `_post` of                    *)
(* codegen/soap_server.py for a SOAP tool, under the retry policy that     *)
(* policy/synthesis.py derived.                                            *)
(*                                                                       *)
(* The service is external.  A request it was sent can act and be          *)
(* answered, act and have its answer lost, wait in the network until the   *)
(* client has given up on it and act then, or never act.                   *)
(***************************************************************************)
EXTENDS Integers, FiniteSets, Sequences

CONSTANTS
    Tools,      \* the tools one of which is invoked
    Services    \* the kinds of service it may be talking to

\* A tool is the transport it is served over, its steps in order, and
\* whether its second step takes a value from the first one's response.
StepKinds == [effect : {"read", "change"},
              idempotency : {"idempotent", "non_idempotent", "unknown"}]
ToolKinds == [via : {"http", "soap"}, steps : Seq(StepKinds), threads : BOOLEAN]

\* honoursKeys: a request whose idempotency key was seen on that route does
\* not act again.  lossy: a request can act without its answer saying so.
\* redirects: it may answer with a 3xx, which httpx does not follow.
ServiceKinds == [honoursKeys : BOOLEAN, lossy : BOOLEAN, redirects : BOOLEAN]

ASSUME ToolAssumption ==
    /\ Tools \subseteq ToolKinds
    /\ \A tool \in Tools : tool.steps # <<>> /\ (tool.via = "soap" => Len(tool.steps) = 1)
ASSUME ServiceAssumption == Services \subseteq ServiceKinds

VARIABLES
    tool,       \* the tool invoked
    service,    \* the service it talks to
    pc,         \* "send", "waiting", or how the invocation ended
    position,   \* the step being run
    attempt,    \* the attempt at it, from 0
    pending,    \* requests in the network or in the service
    acted,      \* requests that had their effect
    reply       \* the status of the current request, once answered

vars == <<tool, service, pc, position, attempt, pending, acted, reply>>

Status == {"ok", "redirect", "client_error", "server_error", "busy"}
Ended == {"ok", "answered", "composite_step_failed", "composite_step_unresolved",
          "raised", "no_attempt_was_made", "cancelled"}

MaxAttempts == 3
Requests == [step : Nat, attempt : 0..(MaxAttempts - 1)]

TypeOK ==
    /\ tool \in Tools
    /\ service \in Services
    /\ pc \in {"send", "waiting"} \union Ended
    /\ position \in 1..Len(tool.steps)
    /\ attempt \in 0..(MaxAttempts - 1)
    /\ pending \subseteq Requests
    /\ acted \subseteq Requests
    /\ reply \in Status \union {"none"}
-----------------------------------------------------------------------------
(***************************************************************************)
(* The policy.                                                             *)
(***************************************************************************)

Reads(t) == \A i \in DOMAIN t.steps : t.steps[i].effect = "read"

\* Mutant of Retry: what nothing is known about is taken to be idempotent.
RetryUnknown(t) ==
    IF Reads(t) \/ Head(t.steps).idempotency # "non_idempotent"
    THEN "safe" ELSE "with_idempotency_key"

\* `_retry`, which synthesize_policy calls with the first source operation
\* of the artifact and the artifact's risk.
Retry(t) ==
    LET primary == Head(t.steps) IN
    CASE Reads(t)                                -> "safe"
      [] ~Reads(t) /\ primary.idempotency = "idempotent"     -> "safe"
      [] ~Reads(t) /\ primary.idempotency = "non_idempotent" -> "with_idempotency_key"
      [] ~Reads(t) /\ primary.idempotency = "unknown"        -> "never"

\* Whether requests carry the key of the invocation.  `_post` sends none.
Keyed(t) == t.via = "http" /\ Retry(t) = "with_idempotency_key"

Attempts(t) == IF Retry(t) = "never" THEN 1 ELSE MaxAttempts
-----------------------------------------------------------------------------
(***************************************************************************)
(* The client.                                                             *)
(***************************************************************************)

Init ==
    /\ tool \in Tools
    /\ service \in Services
    /\ pc = "send"
    /\ position = 1
    /\ attempt = 0
    /\ pending = {}
    /\ acted = {}
    /\ reply = "none"

Current == [step |-> position, attempt |-> attempt]

\* Mutant of LastAttempt: one attempt too many.
OneTooMany == attempt + 1 > Attempts(tool)

\* Whether the attempts run out with the current one, as the `for` counts.
LastAttempt == attempt + 1 >= Attempts(tool)

Send ==
    /\ pc = "send"
    /\ pc' = "waiting"
    /\ pending' = pending \union {Current}
    /\ reply' = "none"
    /\ UNCHANGED <<tool, service, position, attempt, acted>>

End(result) ==
    /\ pc' = result
    /\ reply' = "none"
    /\ UNCHANGED <<tool, service, position, attempt, acted>>

\* Mutant of Again: the attempt is not counted.
AgainUncounted ==
    /\ pc' = "send"
    /\ reply' = "none"
    /\ UNCHANGED <<tool, service, position, attempt, acted>>

Again ==
    /\ pc' = "send"
    /\ attempt' = attempt + 1
    /\ reply' = "none"
    /\ UNCHANGED <<tool, service, position, acted>>

\* No answer: the request never left, or its answer did not arrive, or the
\* client stopped waiting and left it in the network.
TransportError ==
    /\ pc = "waiting"
    /\ \/ pending' = pending \ {Current} /\ (service.lossy \/ Current \in pending)
       \/ pending' = pending /\ service.lossy
    /\ IF LastAttempt THEN End("raised") ELSE Again

\* `_send`: a code worth repeating is repeated while attempts are left.
RepeatsStatus == reply = "busy" /\ ~LastAttempt

\* Mutant of Failed: only an error of the request itself is a failure.
FailedByRequest == reply = "client_error"

\* `_invoke` goes on after any status below 400.
Failed == reply \notin {"ok", "redirect"}

\* A response `_send` returned: the end, or the next step, unless the value
\* it takes from the first response is not there.
Advance ==
    LET done == position = Len(tool.steps) IN
    /\ ~Failed
    /\ \/ done /\ End("ok")
       \/ ~done /\ tool.threads /\ End("composite_step_unresolved")
       \/ /\ ~done
          /\ pc' = "send"
          /\ position' = position + 1
          /\ attempt' = 0
          /\ reply' = "none"
          /\ UNCHANGED <<tool, service, acted>>

HttpResponse ==
    /\ pc = "waiting" /\ tool.via = "http" /\ reply # "none"
    /\ \/ RepeatsStatus /\ Again
       \/ ~RepeatsStatus /\ Advance
       \/ ~RepeatsStatus /\ Failed /\ End("composite_step_failed")
    /\ UNCHANGED pending

\* `_post`: the test on the status counts against _MAX_ATTEMPTS, the `for`
\* against the policy, and a `for` that runs out raises.
SoapResponse ==
    /\ pc = "waiting" /\ tool.via = "soap" /\ reply # "none"
    /\ IF reply = "busy" /\ attempt + 1 < MaxAttempts
       THEN IF LastAttempt THEN End("no_attempt_was_made") ELSE Again
       ELSE End("answered")
    /\ UNCHANGED pending

\* The client of the generated server goes away: the task is cancelled at
\* the await it is in.
Cancel ==
    /\ pc \in {"send", "waiting"}
    /\ End("cancelled")
    /\ UNCHANGED pending
-----------------------------------------------------------------------------
(***************************************************************************)
(* The service.                                                            *)
(***************************************************************************)

\* The service has already acted on this key, on this route.
Repeated(r) ==
    /\ service.honoursKeys
    /\ Keyed(tool)
    /\ \E q \in acted : q.step = r.step

\* A request is handled.  An accepted one acts, a rejected or a redirected
\* one does not; a server error may hide an effect, a gateway code only from
\* a lossy service.
Handle(r) ==
    \E status \in Status, acts \in BOOLEAN :
        /\ status = "ok" => acts
        /\ status \in {"redirect", "client_error"} => ~acts
        /\ status = "redirect" => service.redirects
        /\ status = "busy" /\ acts => service.lossy
        /\ pending' = pending \ {r}
        /\ acted' = IF acts /\ ~Repeated(r) THEN acted \union {r} ELSE acted
        /\ reply' = IF pc = "waiting" /\ r = Current THEN status ELSE reply
        /\ UNCHANGED <<tool, service, pc, position, attempt>>

Client == Send \/ TransportError \/ HttpResponse \/ SoapResponse

Next == Client \/ Cancel \/ (\E r \in pending : Handle(r))

Spec == Init /\ [][Next]_vars

\* The client's own steps are taken: an answer is read, a backoff ends, and
\* a request nothing answers runs into httpx's 30 second timeout.
FairSpec == Spec /\ WF_vars(Client)
-----------------------------------------------------------------------------
Effects(i) == {r \in acted : r.step = i}

\* A retry never makes an operation that is not idempotent happen twice, for
\* a service that honours idempotency keys, however many answers are lost,
\* and for one that ignores them but whose silence and gateway codes mean it
\* did not act.
NoRepeatedEffect ==
    \A i \in DOMAIN tool.steps :
        /\ tool.steps[i].effect = "change"
        /\ tool.steps[i].idempotency # "idempotent"
        /\ service.honoursKeys \/ ~service.lossy
        => Cardinality(Effects(i)) <= 1

\* A composite stops at its first failure: a step is under way only when
\* every step before it had its effect.  A redirect, which the client takes
\* for done, is the exception.
StopsAtFirstFailure ==
    \A i \in 1..(position - 1) : Effects(i) # {} \/ service.redirects

\* A wedged service is reported: the invocation ends though nothing answers.
Reported == <>(pc \in Ended)

\* The error `_post` ends with says that no attempt was made.
NoAttemptMeansNone == pc = "no_attempt_was_made" => acted = {} /\ pending = {}
=============================================================================
