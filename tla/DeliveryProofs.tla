--------------------------- MODULE DeliveryProofs ---------------------------
(***************************************************************************)
(* For tools of any number of steps and every kind of service: what an     *)
(* invocation has done behind it, and how often.                           *)
(***************************************************************************)
EXTENDS Delivery, FiniteSetTheorems, TLAPS

-----------------------------------------------------------------------------
(***************************************************************************)
(* Types.                                                                  *)
(***************************************************************************)

LEMMA AttemptsIs ==
    /\ \A t \in Tools : Attempts(t) \in 1..MaxAttempts
    /\ \A t \in Tools : Len(t.steps) \in Nat \ {0}
    /\ MaxAttempts = 3
<1>1. ASSUME NEW t \in Tools PROVE Len(t.steps) \in Nat \ {0}
    <2>1. t.steps \in Seq(StepKinds) /\ t.steps # <<>>
        BY ToolAssumption DEF ToolKinds
    <2>2. QED  BY <2>1
<1>2. QED  BY <1>1 DEF Attempts, MaxAttempts

LEMMA InitTypes == Init => TypeOK
BY AttemptsIs DEF Init, TypeOK

\* The client's steps: a request is sent, one is given up, and an answer is the end, or
\* leads to another attempt or another step.
GaveUp ==
    \/ pending' = pending \ {Current} /\ (service.lossy \/ Current \in pending)
    \/ pending' = pending /\ service.lossy
Ends == \E result \in Ended : End(result)
Retries == ~LastAttempt /\ Again
NextStep ==
    /\ position < Len(tool.steps) /\ ~Failed
    /\ pc' = "send" /\ position' = position + 1 /\ attempt' = 0 /\ reply' = "none"
    /\ UNCHANGED <<tool, service, acted>>

LEMMA Stepped ==
    ASSUME TypeOK, [Next]_vars
    PROVE  \/ Send
           \/ pc = "waiting" /\ GaveUp /\ (Ends \/ Retries)
           \/ pc = "waiting" /\ reply = "busy" /\ Retries /\ pending' = pending
           \/ pc = "waiting" /\ reply # "none" /\ (Ends \/ NextStep) /\ pending' = pending
           \/ pc \in {"send", "waiting"} /\ Ends /\ pending' = pending
           \/ \E r \in pending : Handle(r)
           \/ UNCHANGED vars
<1>1. CASE TransportError
    BY <1>1 DEF TransportError, GaveUp, Ends, Ended, Retries
<1>2. CASE HttpResponse
    <2>1. CASE RepeatsStatus /\ Again
        BY <1>2, <2>1 DEF HttpResponse, RepeatsStatus, Retries
    <2>2. CASE Advance
        <3>1. Ends \/ NextStep
            <4>1. position # Len(tool.steps) => position < Len(tool.steps)
                BY AttemptsIs DEF TypeOK
            <4>2. QED  BY <2>2, <4>1 DEF Advance, Ends, Ended, NextStep
        <3>2. QED  BY <1>2, <3>1 DEF HttpResponse
    <2>3. CASE End("composite_step_failed")
        BY <1>2, <2>3 DEF HttpResponse, Ends, Ended
    <2>4. QED  BY <1>2, <2>1, <2>2, <2>3 DEF HttpResponse
<1>3. CASE SoapResponse
    BY <1>3 DEF SoapResponse, Ends, Ended, Retries
<1>4. CASE Cancel
    BY <1>4 DEF Cancel, Ends, Ended
<1>5. QED  BY <1>1, <1>2, <1>3, <1>4 DEF Next, Client

LEMMA NextTypes == TypeOK /\ [Next]_vars => TypeOK'
<1> SUFFICES ASSUME TypeOK, [Next]_vars PROVE TypeOK'
    OBVIOUS
<1>1. Current \in Requests
    BY AttemptsIs DEF TypeOK, Current, Requests
<1>2. CASE Send
    BY <1>1, <1>2 DEF Send, TypeOK
<1>3. CASE Ends /\ pending' \subseteq pending
    BY <1>3 DEF Ends, End, TypeOK
<1>4. CASE Retries /\ pending' \subseteq pending
    <2>1. attempt + 1 \in 0..(MaxAttempts - 1)
        BY <1>4, AttemptsIs DEF Retries, LastAttempt, TypeOK
    <2>2. QED  BY <1>4, <2>1 DEF Retries, Again, TypeOK
<1>5. CASE NextStep /\ pending' = pending
    BY <1>5, AttemptsIs DEF NextStep, TypeOK
<1>6. ASSUME NEW r \in pending, Handle(r)
      PROVE  TypeOK'
    BY <1>6 DEF Handle, TypeOK, Status
<1>7. CASE UNCHANGED vars
    BY <1>7 DEF vars, TypeOK
<1>8. QED  BY <1>2, <1>3, <1>4, <1>5, <1>6, <1>7, Stepped DEF GaveUp

\* An invocation is where the code can be, for tools of any number of steps.
THEOREM TypeCorrect == Spec => []TypeOK
BY InitTypes, NextTypes, PTL DEF Spec

-----------------------------------------------------------------------------
(***************************************************************************)
(* What is done is done: an answer that lets the client go on is that of a *)
(* request which acted, or which repeats one that did.                     *)
(***************************************************************************)

Answered == reply = "ok" => Effects(position) # {}
Redirected == reply = "redirect" => service.redirects
Waits == reply # "none" => pc = "waiting"
Done == TypeOK /\ Answered /\ Redirected /\ Waits /\ StopsAtFirstFailure

LEMMA InitDone == Init => Done
BY InitTypes DEF Init, Done, Answered, Redirected, Waits, StopsAtFirstFailure, TypeOK

LEMMA HandleActs ==
    ASSUME Done, NEW r \in pending, Handle(r)
    PROVE  /\ acted \subseteq acted'
           /\ UNCHANGED <<tool, service, pc, position, attempt>>
           /\ \/ reply' = reply
              \/ /\ pc = "waiting" /\ r = Current
                 /\ reply' = "ok" => \E q \in acted' : q.step = position
                 /\ reply' = "redirect" => service.redirects
<1>1. PICK status \in Status, acts \in BOOLEAN :
          /\ status = "ok" => acts
          /\ status = "redirect" => service.redirects
          /\ acted' = IF acts /\ ~Repeated(r) THEN acted \union {r} ELSE acted
          /\ reply' = IF pc = "waiting" /\ r = Current THEN status ELSE reply
          /\ UNCHANGED <<tool, service, pc, position, attempt>>
    BY DEF Handle
<1>2. Repeated(r) => \E q \in acted : q.step = r.step
    BY DEF Repeated
<1>3. Current.step = position
    BY DEF Current
<1>4. QED  BY <1>1, <1>2, <1>3

LEMMA NextDone == Done /\ [Next]_vars => Done'
<1> SUFFICES ASSUME Done, [Next]_vars PROVE Done'
    OBVIOUS
<1>1. TypeOK'
    BY NextTypes DEF Done
<1>2. CASE Send
    BY <1>1, <1>2 DEF Send, Done, Answered, Redirected, Waits, StopsAtFirstFailure, Effects
<1>3. CASE Ends
    BY <1>1, <1>3
    DEF Ends, End, Done, Answered, Redirected, Waits, StopsAtFirstFailure, Effects
<1>4. CASE Retries
    BY <1>1, <1>4
    DEF Retries, Again, Done, Answered, Redirected, Waits, StopsAtFirstFailure, Effects
<1>5. CASE NextStep /\ reply # "none"
    <2>1. Effects(position) # {} \/ service.redirects
        BY <1>5 DEF NextStep, Failed, Done, Answered, Redirected
    <2>2. \A i \in 1..position : Effects(i) # {} \/ service.redirects
        BY <2>1 DEF Done, StopsAtFirstFailure, TypeOK
    <2>3. position' = position + 1 /\ reply' = "none" /\ acted' = acted /\ service' = service
        BY <1>5 DEF NextStep
    <2>4. position \in Nat
        BY AttemptsIs DEF Done, TypeOK
    <2>5. StopsAtFirstFailure'
        BY <2>2, <2>3, <2>4 DEF StopsAtFirstFailure, Effects
    <2>6. QED  BY <1>1, <2>3, <2>5 DEF Done, Answered, Redirected, Waits
<1>6. ASSUME NEW r \in pending, Handle(r)
      PROVE  Done'
    <2>1. \A i : Effects(i) \subseteq Effects(i)'
        BY <1>6, HandleActs DEF Effects
    <2>2. QED
        BY <1>1, <1>6, <2>1, HandleActs
        DEF Done, Answered, Redirected, Waits, StopsAtFirstFailure, Effects
<1>7. CASE UNCHANGED vars
    BY <1>1, <1>7 DEF vars, Done, Answered, Redirected, Waits, StopsAtFirstFailure, Effects
<1>8. QED  BY <1>2, <1>3, <1>4, <1>5, <1>6, <1>7, Stepped DEF Done

\* A step is under way only when every step before it had its effect, unless the service
\* redirects.
THEOREM StopsCorrect == Spec => []StopsAtFirstFailure
<1>1. Done => StopsAtFirstFailure  BY DEF Done
<1>2. QED  BY InitDone, NextDone, <1>1, PTL DEF Spec

-----------------------------------------------------------------------------
(***************************************************************************)
(* Nothing is done twice.  Three things see to it, and each needs its own  *)
(* part of the invariant: there is one attempt; or the service knows the   *)
(* key; or a service that is not lossy has not acted when the client tries *)
(* again, and is not going to.                                             *)
(***************************************************************************)

\* The tools for which the retry policy, which looks at the first step, suits every step.
Careful(t) ==
    \A i \in DOMAIN t.steps :
        t.steps[i].effect = "change" /\ t.steps[i].idempotency # "idempotent"
            => Retry(t) = "never" \/ Keyed(t)

Sent == pending \union acted
Behind ==
    \A r \in Sent : /\ r.step <= position
                    /\ r.step = position => r.attempt <= attempt
                    /\ r.step = position /\ pc = "send" => r.attempt < attempt
Single == Attempts(tool) = 1 => attempt = 0 /\ \A r \in Sent : r.attempt = 0
Distinct == \A q, r \in acted : q.step = r.step => q = r
Keys == service.honoursKeys /\ Keyed(tool) => Distinct
Lossless ==
    ~service.lossy =>
        /\ \A r \in pending : r = Current /\ pc # "send" /\ reply = "none"
        /\ \A r \in pending, q \in acted : q.step # r.step
        /\ \A r \in acted : r.step = position =>
               /\ pc # "send"
               /\ pc = "waiting" => reply \notin {"none", "busy"}
        /\ Distinct
Exact == TypeOK /\ Behind /\ Single /\ Keys /\ Lossless

LEMMA InitExact == Init => Exact
BY InitTypes DEF Init, Exact, Behind, Single, Keys, Lossless, Distinct, Sent

LEMMA CurrentIs ==
    /\ Current.step = position /\ Current.attempt = attempt
    /\ \A r \in Requests : r.step = position /\ r.attempt = attempt => r = Current
BY DEF Current, Requests

LEMMA NextBehind ==
    ASSUME Exact, [Next]_vars
    PROVE  Behind' /\ Single'
<1> USE CurrentIs DEF Exact
<1>1. position \in Nat /\ attempt \in Nat
    BY AttemptsIs DEF TypeOK
<1>2. \A r \in Sent : r.step \in Nat /\ r.attempt \in Nat
    BY AttemptsIs DEF TypeOK, Sent, Requests
<1>3. CASE Send
    BY <1>1, <1>2, <1>3 DEF Send, Behind, Single, Sent
<1>4. CASE Ends /\ pending' \subseteq pending
    BY <1>4 DEF Ends, End, Ended, Behind, Single, Sent
<1>5. CASE Retries /\ pending' \subseteq pending
    <2>1. Sent' \subseteq Sent /\ attempt' = attempt + 1 /\ UNCHANGED <<tool, position>>
        BY <1>5 DEF Retries, Again, Sent
    <2>2. Attempts(tool) # 1
        BY <1>1, <1>5 DEF Retries, LastAttempt, Single
    <2>3. Attempts(tool)' # 1
        BY <2>1, <2>2 DEF Attempts, Retry, Reads
    <2>4. Behind'
        BY <1>1, <1>2, <2>1 DEF Behind
    <2>5. QED  BY <2>3, <2>4 DEF Single
<1>6. CASE NextStep /\ pending' = pending
    BY <1>1, <1>2, <1>6 DEF NextStep, Behind, Single, Sent
<1>7. ASSUME NEW r \in pending, Handle(r)
      PROVE  Behind' /\ Single'
    <2>1. Sent' \subseteq Sent /\ UNCHANGED <<tool, pc, position, attempt>>
        BY <1>7 DEF Handle, Sent
    <2>2. QED  BY <2>1 DEF Behind, Single
<1>8. CASE UNCHANGED vars
    BY <1>8 DEF vars, Behind, Single, Sent
<1>9. QED  BY <1>3, <1>4, <1>5, <1>6, <1>7, <1>8, Stepped DEF GaveUp

LEMMA NextKeys ==
    ASSUME Exact, [Next]_vars
    PROVE  Keys'
<1>1. UNCHANGED <<tool, service>>
    BY Stepped
    DEF Exact, Send, Ends, End, Retries, Again, NextStep, Handle, vars
<1>2. ASSUME NEW r \in pending, Handle(r)
      PROVE  Keys'
    BY <1>1, <1>2 DEF Exact, Handle, Repeated, Keys, Distinct, Keyed, Retry
<1>3. CASE acted' = acted
    BY <1>1, <1>3 DEF Exact, Keys, Distinct, Keyed, Retry
<1>4. QED
    BY <1>2, <1>3, Stepped DEF Exact, Send, Ends, End, Retries, Again, NextStep, vars

LEMMA NextLossless ==
    ASSUME Exact, [Next]_vars
    PROVE  Lossless'
<1> USE CurrentIs DEF Exact
<1>1. UNCHANGED <<tool, service>>
    BY Stepped DEF Send, Ends, End, Retries, Again, NextStep, Handle, vars
<1> SUFFICES ASSUME ~service.lossy PROVE Lossless'
    BY <1>1 DEF Lossless
<1>2. /\ \A r \in pending : r = Current /\ pc # "send" /\ reply = "none"
      /\ \A r \in pending, q \in acted : q.step # r.step
      /\ \A r \in acted : r.step = position =>
             pc # "send" /\ (pc = "waiting" => reply \notin {"none", "busy"})
      /\ Distinct
    BY DEF Lossless
<1>3. CASE Send
    <2>1. pending = {}
        BY <1>2, <1>3 DEF Send
    <2>2. pending' = {Current} /\ Current' = Current
        BY <1>3, <2>1 DEF Send, Current
    <2>3. \A q \in acted : q.step # position
        BY <1>2, <1>3 DEF Send
    <2>4. QED  BY <1>2, <1>3, <2>2, <2>3 DEF Send, Lossless, Distinct
<1>4. CASE Ends /\ pending' \subseteq pending
    <2>1. pc' \notin {"send", "waiting"} /\ reply' = "none" /\ acted' = acted
        BY <1>4 DEF Ends, End, Ended
    <2>2. Current' = Current /\ position' = position
        BY <1>4 DEF Ends, End, Current
    <2>3. QED  BY <1>2, <1>4, <2>1, <2>2 DEF Lossless, Distinct
<1>5. CASE pc = "waiting" /\ GaveUp /\ Retries
    <2>1. Current \in pending /\ pending' = {}
        BY <1>2, <1>5 DEF GaveUp
    <2>2. \A q \in acted : q.step # position
        BY <1>2, <2>1
    <2>3. QED  BY <1>2, <1>5, <2>1, <2>2 DEF Retries, Again, Lossless, Distinct
<1>6. CASE pc = "waiting" /\ reply = "busy" /\ Retries /\ pending' = pending
    <2>1. pending' = {}
        BY <1>2, <1>6
    <2>2. \A q \in acted : q.step # position
        BY <1>2, <1>6
    <2>3. QED  BY <1>2, <1>6, <2>1, <2>2 DEF Retries, Again, Lossless, Distinct
<1>7. CASE reply # "none" /\ NextStep /\ pending' = pending
    <2>1. pending' = {}
        BY <1>2, <1>7
    <2>2. \A q \in acted : q.step # position + 1
        <3>1. \A q \in acted : q.step \in Nat /\ q.step <= position
            BY DEF Behind, Sent, TypeOK, Requests
        <3>2. position \in Nat
            BY AttemptsIs DEF TypeOK
        <3>3. QED  BY <3>1, <3>2
    <2>3. QED  BY <1>2, <1>7, <2>1, <2>2 DEF NextStep, Lossless, Distinct
<1>8. ASSUME NEW r \in pending, Handle(r)
      PROVE  Lossless'
    <2>1. r = Current /\ pending' = {}
        BY <1>2, <1>8 DEF Handle
    <2>2. \A q \in acted : q.step # position
        BY <1>2, <2>1
    <2>3. /\ acted' \in {acted, acted \union {r}}
          /\ acted' # acted /\ pc = "waiting" => reply' \notin {"none", "busy"}
          /\ UNCHANGED <<pc, position>>
        BY <1>8, <2>1 DEF Handle, Status
    <2>4. pc # "send"
        BY <1>2, <1>8
    <2>5. QED  BY <1>2, <2>1, <2>2, <2>3, <2>4 DEF Lossless, Distinct
<1>9. CASE UNCHANGED vars
    BY <1>9 DEF vars, Lossless, Distinct, Current
<1>10. QED
    BY <1>3, <1>4, <1>5, <1>6, <1>7, <1>8, <1>9, Stepped DEF GaveUp

LEMMA NextExact == Exact /\ [Next]_vars => Exact'
BY NextTypes, NextBehind, NextKeys, NextLossless DEF Exact

LEMMA AtMostOne ==
    ASSUME NEW S, \A q, r \in S : q = r
    PROVE  Cardinality(S) <= 1
<1>1. CASE S = {}
    BY <1>1, FS_EmptySet
<1>2. CASE S # {}
    <2>1. PICK r \in S : TRUE
        BY <1>2
    <2>2. S = {r} /\ Cardinality({r}) = 1
        BY <2>1, FS_Singleton
    <2>3. QED  BY <2>2
<1>3. QED  BY <1>1, <1>2

\* However many answers are lost, and of however many steps: a change that is not
\* idempotent happens at most once, when the retry policy suits every step of the tool and
\* the service honours keys or is not lossy.
THEOREM NotRepeated == Spec => [](Careful(tool) => NoRepeatedEffect)
<1>1. Exact => (Careful(tool) => NoRepeatedEffect)
    <2> SUFFICES ASSUME Exact, Careful(tool), NEW i \in DOMAIN tool.steps,
                        tool.steps[i].effect = "change",
                        tool.steps[i].idempotency # "idempotent",
                        service.honoursKeys \/ ~service.lossy
                 PROVE  Cardinality(Effects(i)) <= 1
        BY DEF NoRepeatedEffect
    <2>1. Retry(tool) = "never" \/ Keyed(tool)
        BY DEF Careful, Exact, TypeOK
    <2>2. CASE Retry(tool) = "never"
        <3>1. \A r \in acted : r.attempt = 0 /\ r \in Requests
            BY <2>2 DEF Exact, Single, Attempts, Sent, TypeOK
        <3>2. \A q, r \in Effects(i) : q = r
            BY <3>1 DEF Effects, Requests
        <3>3. QED  BY <3>2, AtMostOne
    <2>3. CASE Keyed(tool)
        <3>1. Distinct
            BY <2>3 DEF Exact, Keys, Lossless
        <3>2. \A q, r \in Effects(i) : q = r
            BY <3>1 DEF Distinct, Effects
        <3>3. QED  BY <3>2, AtMostOne
    <2>4. QED  BY <2>1, <2>2, <2>3
<1>2. QED  BY InitExact, NextExact, <1>1, PTL DEF Spec

\* What `_retry` makes of a change in the first step, when it is not idempotent.
LEMMA FirstStepSuits ==
    ASSUME NEW t \in Tools, ~Reads(t), Head(t.steps).idempotency # "idempotent"
    PROVE  Retry(t) = (IF Head(t.steps).idempotency = "unknown"
                       THEN "never" ELSE "with_idempotency_key")
<1>1. Head(t.steps).idempotency \in {"non_idempotent", "unknown"}
    <2>1. t.steps \in Seq(StepKinds) /\ t.steps # <<>>
        BY ToolAssumption DEF ToolKinds
    <2>2. Head(t.steps) \in StepKinds
        BY <2>1
    <2>3. QED  BY <2>2 DEF StepKinds
<1>2. CASE Head(t.steps).idempotency = "unknown"
    BY <1>2, Zenon DEF Retry
<1>3. CASE Head(t.steps).idempotency = "non_idempotent"
    <2>1. Retry(t) = "with_idempotency_key"
        BY <1>3, Zenon DEF Retry
    <2>2. QED  BY <1>3, <2>1
<1>4. QED  BY <1>1, <1>2, <1>3

\* A tool of one operation is careful, except over SOAP, where the key it would need to be
\* repeated with is never sent.
LEMMA OneStepIsCareful ==
    ASSUME NEW t \in Tools, Len(t.steps) = 1,
           t.via = "http" \/ t.steps[1].idempotency = "unknown"
    PROVE  Careful(t)
<1> SUFFICES ASSUME NEW i \in DOMAIN t.steps,
                    t.steps[i].effect = "change", t.steps[i].idempotency # "idempotent"
             PROVE  Retry(t) = "never" \/ Keyed(t)
    BY DEF Careful
<1>1. t.steps \in Seq(StepKinds) /\ t.steps # <<>>
    BY ToolAssumption DEF ToolKinds
<1>2. i = 1 /\ 1 \in DOMAIN t.steps /\ Head(t.steps) = t.steps[1]
    BY <1>1
<1>3. ~Reads(t) /\ Head(t.steps).idempotency # "idempotent"
    BY <1>2 DEF Reads
<1>4. Retry(t) = (IF t.steps[1].idempotency = "unknown"
                  THEN "never" ELSE "with_idempotency_key")
    BY <1>2, <1>3, FirstStepSuits
<1>5. QED  BY <1>4 DEF Keyed

\* The tools the planners make of one operation each: nothing is repeated by a REST tool,
\* nor by a SOAP tool of whose operation nothing is known, which is all a WSDL says.
THEOREM OneOperationOnce ==
    Spec => [](/\ Len(tool.steps) = 1
               /\ tool.via = "http" \/ tool.steps[1].idempotency = "unknown"
               => NoRepeatedEffect)
<1> DEFINE Alone == /\ Len(tool.steps) = 1
                    /\ tool.via = "http" \/ tool.steps[1].idempotency = "unknown"
<1>1. TypeOK /\ Alone => Careful(tool)
    BY OneStepIsCareful DEF TypeOK
<1>2. QED  BY TypeCorrect, NotRepeated, <1>1, PTL

-----------------------------------------------------------------------------
(***************************************************************************)
(* The message of `_post` that no attempt was made.                        *)
(***************************************************************************)

\* Where that message can come from at all.
Bounded == pc = "no_attempt_was_made" => tool.via = "soap" /\ Retry(tool) = "never"

LEMMA NextBounded == TypeOK /\ Bounded /\ [Next]_vars => Bounded'
<1> SUFFICES ASSUME TypeOK, Bounded, [Next]_vars PROVE Bounded'
    OBVIOUS
<1>1. Retry(tool)' = Retry(tool) \/ tool' # tool
    BY DEF Retry, Reads
<1>2. tool' = tool
    BY Stepped DEF Send, Ends, End, Retries, Again, NextStep, Handle, vars
<1>3. Retry(tool)' = Retry(tool)
    BY <1>1, <1>2
<1>4. pc' = "no_attempt_was_made" => pc = pc' \/ SoapResponse
    BY DEF Next, Client, Send, TransportError, HttpResponse, Advance, Cancel, End, Again,
           Handle, vars
<1>5. CASE SoapResponse /\ pc' = "no_attempt_was_made"
    <2>1. attempt + 1 < MaxAttempts /\ LastAttempt /\ tool.via = "soap"
        BY <1>5 DEF SoapResponse, Again, End
    <2>2. Attempts(tool) # MaxAttempts
        BY <2>1, AttemptsIs DEF LastAttempt, TypeOK
    <2>3. Retry(tool) = "never"
        BY <2>2 DEF Attempts
    <2>4. QED  BY <1>2, <1>3, <2>1, <2>3 DEF Bounded
<1>6. QED  BY <1>2, <1>3, <1>4, <1>5 DEF Bounded

\* The message that no attempt was made, which is wrong when it is given, is given only by a
\* SOAP tool that is not to be repeated: a REST tool, and one with attempts left, never
\* says it.
THEOREM MessageBounded ==
    Spec => [](tool.via = "http" \/ Retry(tool) # "never" => NoAttemptMeansNone)
<1>1. Init => Bounded
    BY DEF Init, Bounded
<1>2. TypeOK /\ Bounded => (tool.via = "http" \/ Retry(tool) # "never" => NoAttemptMeansNone)
    BY DEF Bounded, NoAttemptMeansNone
<1>3. QED  BY TypeCorrect, NextBounded, <1>1, <1>2, PTL DEF Spec

-----------------------------------------------------------------------------
(***************************************************************************)
(* The client's steps are bounded.                                         *)
(***************************************************************************)

\* How many steps the client can still take: two for each attempt that is left, of this
\* step and of those after it.
Left ==
    IF pc \in Ended THEN 0
    ELSE 2 * (MaxAttempts * (Len(tool.steps) - position) + (MaxAttempts - attempt))
             + (IF pc = "send" THEN 1 ELSE 0)

\* Every step of the client brings the end of the invocation nearer, and no step of anybody
\* else puts it off: however often answers are lost and statuses repeated, an invocation
\* takes at most two steps for each attempt.
THEOREM EndsNearer == Spec => [][Left' <= Left /\ (Client => Left' < Left)]_vars
<1>1. ASSUME TypeOK, [Next]_vars
      PROVE  [Left' <= Left /\ (Client => Left' < Left)]_vars
    <2> DEFINE Steps == Len(tool.steps)
    <2>1. /\ position \in Nat /\ attempt \in Nat /\ Steps \in Nat
          /\ position <= Steps /\ attempt <= 2 /\ MaxAttempts = 3
        BY <1>1, AttemptsIs DEF TypeOK
    <2>2. /\ tool' = tool
          /\ "send" \notin Ended /\ "waiting" \notin Ended
        BY <1>1, Stepped
        DEF Send, Ends, End, Retries, Again, NextStep, Handle, vars, Ended
    <2>3. Left \in Nat /\ (pc \notin Ended => Left > 1)
        <3> DEFINE rest == Steps - position
                   more == MaxAttempts - attempt
        <3>1. rest \in Nat /\ more \in Nat /\ more >= 1
            BY <2>1
        <3>2. MaxAttempts * rest \in Nat
            BY <2>1, <3>1 DEF MaxAttempts
        <3> HIDE DEF rest, more
        <3>3. 2 * (MaxAttempts * rest + more) \in Nat /\ 2 * (MaxAttempts * rest + more) > 1
            BY <3>1, <3>2
        <3>4. QED  BY <3>3 DEF Left, rest, more
    <2>4. CASE Send
        BY <2>1, <2>2, <2>4 DEF Send, Left
    <2>5. CASE Ends /\ pc \in {"send", "waiting"}
        <3>1. Left' = 0
            BY <2>5 DEF Ends, End, Left
        <3>2. QED  BY <2>2, <2>3, <2>5, <3>1
    <2>6. CASE Retries /\ pc = "waiting"
        BY <2>1, <2>2, <2>6 DEF Retries, Again, Left
    <2>7. CASE NextStep /\ pc = "waiting"
        BY <2>1, <2>2, <2>7 DEF NextStep, Left
    <2>8. ASSUME NEW r \in pending, Handle(r)
          PROVE  Left' = Left /\ ~Client
        <3>1. Left' = Left
            BY <2>8 DEF Handle, Left
        <3>2. QED
            BY <2>8, <3>1
            DEF Handle, Client, Send, TransportError, HttpResponse, SoapResponse, Advance,
                End, Again
    <2>9. CASE UNCHANGED vars
        BY <2>9
    <2>10. QED
        BY <1>1, <2>3, <2>4, <2>5, <2>6, <2>7, <2>8, <2>9, Stepped
<1>2. QED  BY TypeCorrect, <1>1, PTL DEF Spec
=============================================================================
