-------------------------- MODULE EvaluationProofs --------------------------
(***************************************************************************)
(* For every surface, every task and every driver: confirming one action   *)
(* authorises no other, a read changes nothing, a call does a beginning of *)
(* its steps in order, and what is prohibited is counted or not done.      *)
(***************************************************************************)
EXTENDS Evaluation, PlanningProofs

\* A trace grows by one entry at a time, whatever an entry is.
IsTrace(it) == it \in Seq({it[i] : i \in DOMAIN it})

LEMMA AppendIs ==
    ASSUME NEW it, IsTrace(it), NEW entry
    PROVE  /\ IsTrace(Append(it, entry))
           /\ \A i \in DOMAIN Append(it, entry) :
                  \/ i \in DOMAIN it /\ Append(it, entry)[i] = it[i]
                  \/ Append(it, entry)[i] = entry
<1> DEFINE all == {it[i] : i \in DOMAIN it} \union {entry}
           longer == Append(it, entry)
<1>1. it \in Seq(all)
    BY DEF IsTrace
<1> HIDE DEF all
<1>2. longer \in Seq(all) /\ Len(longer) = Len(it) + 1
    BY <1>1 DEF all
<1>3. /\ DOMAIN longer = 1..(Len(it) + 1)
      /\ DOMAIN it = 1..Len(it)
      /\ \A i \in 1..Len(it) : longer[i] = it[i]
      /\ longer[Len(it) + 1] = entry
    BY <1>1 DEF all
<1>4. \A i \in DOMAIN longer :
          (i \in DOMAIN it /\ longer[i] = it[i]) \/ longer[i] = entry
    BY <1>1, <1>3
<1> HIDE DEF longer
<1>5. longer \in Seq({longer[i] : i \in DOMAIN longer})
    BY <1>2
<1>6. QED  BY <1>4, <1>5 DEF IsTrace, longer

-----------------------------------------------------------------------------
(***************************************************************************)
(* Two calls of one tool that went through as confirmed are not next to    *)
(* each other, so that the arguments they have in common have to be those  *)
(* of the confirmation that is kept: each agrees with it, and it never     *)
(* changes.                                                                *)
(***************************************************************************)

Went(entry) == entry.outcome = "ok" /\ entry.confirmed
Agrees(entry) ==
    entry.tool \in DOMAIN confirmations /\ confirmations[entry.tool] = entry.arguments
Inv == IsTrace(trace) /\ \A i \in DOMAIN trace : Went(trace[i]) => Agrees(trace[i])

LEMMA Kept ==
    ASSUME NEW tool, NEW args
    PROVE  \A name \in DOMAIN confirmations :
               /\ name \in DOMAIN Confirmations(tool, args)
               /\ Confirmations(tool, args)[name] = confirmations[name]
BY DEF Confirmations, Pinned

LEMMA Given ==
    ASSUME NEW tool, NEW args, Confirms(Policed(tool)), Confirmed(tool, args)
    PROVE  /\ tool.artifact.name \in DOMAIN Confirmations(tool, args)
           /\ Confirmations(tool, args)[tool.artifact.name] = args
BY DEF Confirmations, Confirmed

LEMMA CallAgrees ==
    ASSUME Inv, NEW entry, trace' = Append(trace, entry),
           \A name \in DOMAIN confirmations :
               name \in DOMAIN confirmations' /\ confirmations'[name] = confirmations[name],
           Went(entry) => Agrees(entry)'
    PROVE  Inv'
<1>1. IsTrace(trace')
    BY AppendIs DEF Inv
<1>2. ASSUME NEW i \in DOMAIN trace', Went(trace'[i])
      PROVE  Agrees(trace[i])'
    <2>1. CASE i \in DOMAIN trace /\ trace'[i] = trace[i]
        BY <1>2, <2>1 DEF Inv, Agrees
    <2>2. CASE trace'[i] = entry
        BY <1>2, <2>2 DEF Agrees
    <2>3. QED  BY <2>1, <2>2, AppendIs DEF Inv
<1>3. QED  BY <1>1, <1>2 DEF Inv, Agrees

LEMMA RefusedAgrees ==
    ASSUME Inv, NEW id, NEW name, NEW steps, NEW args, NEW outcome,
           Refused(id, name, steps, args, outcome)
    PROVE  Inv'
<1> DEFINE entry == [operation |-> id, tool |-> name, steps |-> steps, arguments |-> args,
                     outcome |-> outcome, confirmed |-> FALSE]
<1>1. trace' = Append(trace, entry) /\ confirmations' = confirmations
    BY DEF Refused, Traced
<1>2. ~Went(entry)
    BY DEF Went
<1> HIDE DEF entry
<1>3. QED  BY <1>1, <1>2, CallAgrees

LEMMA ConfirmedAgrees ==
    ASSUME Inv, NEW tool, NEW args, NEW id, NEW steps, NEW outcome, NEW confirmed,
           confirmed => Confirms(Policed(tool)),
           Confirmed(tool, args), confirmations' = Confirmations(tool, args),
           Traced(id, tool.artifact.name, steps, args, outcome, confirmed)
    PROVE  Inv'
<1> DEFINE entry == [operation |-> id, tool |-> tool.artifact.name, steps |-> steps,
                     arguments |-> args, outcome |-> outcome, confirmed |-> confirmed]
<1>1. trace' = Append(trace, entry)
    BY DEF Traced
<1>2. Went(entry) => Agrees(entry)'
    BY Given DEF Went, Agrees
<1> HIDE DEF entry
<1>3. QED  BY <1>1, <1>2, Kept, CallAgrees

LEMMA NextAgrees ==
    ASSUME Inv, [Next]_vars
    PROVE  Inv'
<1>1. ASSUME NEW id, NEW tool, NEW args, Attempt(id, tool, args)
      PROVE  Inv'
    <2> DEFINE confirmed == Confirms(Policed(tool))
    <2>1. /\ Confirmed(tool, args) /\ confirmations' = Confirmations(tool, args)
          /\ Traced(id, tool.artifact.name, <<id>>, args, "ok", confirmed)
        BY <1>1 DEF Attempt
    <2>2. confirmed => Confirms(Policed(tool))
        OBVIOUS
    <2> HIDE DEF confirmed
    <2>3. QED  BY <2>1, <2>2, ConfirmedAgrees
<1>2. ASSUME NEW tool, NEW args, AttemptComposite(tool, args)
      PROVE  Inv'
    BY <1>2, ConfirmedAgrees DEF AttemptComposite
<1>3. ASSUME NEW id, NEW tool, NEW args,
             \/ RefuseDisabled(id, tool, args)
             \/ RefuseArguments(id, tool, args)
             \/ RefuseConfirmation(id, tool, args)
      PROVE  Inv'
    BY <1>3, RefusedAgrees DEF RefuseDisabled, RefuseArguments, RefuseConfirmation
<1>4. ASSUME NEW id, Unmapped(id)
      PROVE  Inv'
    BY <1>4, RefusedAgrees DEF Unmapped
<1>5. ASSUME NEW tool, NEW args, RefuseComposite(tool, args)
      PROVE  Inv'
    BY <1>5, RefusedAgrees DEF RefuseComposite
<1>6. CASE UNCHANGED vars
    BY <1>6 DEF vars, Inv, Agrees
<1>7. QED
    BY <1>1, <1>2, <1>3, <1>4, <1>5, <1>6 DEF Next, CallOperation, CallComposite

\* All the calls of one tool that went through as confirmed had the same arguments.
THEOREM OneConfirmation == Spec => []OneConfirmationOneAction
<1>1. Init => Inv
    <2>1. DOMAIN <<>> = {}  OBVIOUS
    <2>2. QED  BY <2>1 DEF Init, Inv, IsTrace
<1>2. Inv /\ [Next]_vars => Inv'  BY NextAgrees
<1>3. Inv => OneConfirmationOneAction
    BY DEF Inv, Went, Agrees, OneConfirmationOneAction, Succeeded
<1>4. QED  BY <1>1, <1>2, <1>3, PTL DEF Spec

-----------------------------------------------------------------------------
(* What an operation does to the service *)

\* What an operation does is one of five things, and a read does nothing.
EffectKinds == {"none", "read", "create", "update", "delete"}

LEMMA EffectIs ==
    ASSUME NEW kind, NEW parts, NEW action
    PROVE  Effect(kind, parts, action).kind = kind
BY DEF Effect

LEMMA WriteEffectIs ==
    ASSUME NEW op, NEW parts, NEW action
    PROVE  WriteEffect(op, parts, action).kind \in EffectKinds
<1> DEFINE command == [Effect("update", parts, <<>>) EXCEPT !.action = <<Last(parts).text>>]
<1>1. command.kind = Effect("update", parts, <<>>).kind
    OBVIOUS
<1> HIDE DEF command
<1>2. \/ WriteEffect(op, parts, action) = Effect("update", parts, action)
      \/ WriteEffect(op, parts, action) = Effect("update", parts, <<>>)
      \/ WriteEffect(op, parts, action) = command
      \/ WriteEffect(op, parts, action) = Effect("create", parts, <<>>)
    <2>1. CASE action # <<>>
        BY <2>1 DEF WriteEffect
    <2>2. CASE action = <<>> /\ (Last(parts).template \/ op.method = "put")
        BY <2>2 DEF WriteEffect
    <2>3. CASE action = <<>> /\ ~(Last(parts).template \/ op.method = "put") /\ ~Sends(op)
        BY <2>3 DEF WriteEffect, command
    <2>4. CASE action = <<>> /\ ~(Last(parts).template \/ op.method = "put") /\ Sends(op)
        BY <2>4 DEF WriteEffect
    <2>5. QED  BY <2>1, <2>2, <2>3, <2>4
<1>3. QED  BY <1>1, <1>2, EffectIs DEF EffectKinds

LEMMA EffectOnIs ==
    ASSUME NEW op, NEW parts, NEW action
    PROVE  /\ EffectOn(op, parts, action).kind \in EffectKinds
           /\ op.effect = "read" => EffectOn(op, parts, action).kind = "read"
<1>1. CASE op.effect = "read"
    BY <1>1, EffectIs DEF EffectOn, EffectKinds
<1>2. CASE op.effect = "destructive"
    BY <1>2, EffectIs DEF EffectOn, EffectKinds
<1>3. CASE op.effect = "write"
    BY <1>3, WriteEffectIs DEF EffectOn
<1>4. CASE op.effect \notin {"read", "destructive", "write"}
    BY <1>4 DEF EffectOn, NoEffect, EffectKinds
<1>5. QED  BY <1>1, <1>2, <1>3, <1>4

LEMMA DeriveEffectIs ==
    ASSUME NEW op
    PROVE  /\ DeriveEffect(op).kind \in EffectKinds
           /\ op.effect = "read" => DeriveEffect(op).kind \in {"none", "read"}
<1>1. NoEffect.kind = "none"
    BY DEF NoEffect
<1>2. \/ DeriveEffect(op) = NoEffect
      \/ \E parts, action : DeriveEffect(op) = EffectOn(op, parts, action)
    BY DEF DeriveEffect
<1>3. QED  BY <1>1, <1>2, EffectOnIs DEF EffectKinds

-----------------------------------------------------------------------------

\* A change makes at most one record anew, and only a change leaves the service otherwise.
LEMMA ChangeIs ==
    ASSUME NEW effect, effect.kind \in {"create", "update", "delete"},
           NEW args, NEW id, NEW data, NEW number \in Nat, NEW bucket
    PROVE  /\ Change(effect, args, id, data, number, bucket).created \in {number, number + 1}
           /\ \E b : Change(effect, args, id, data, number, bucket).store
                        = Replaced(data, effect.collection, b)
<1> DEFINE Leaves(outcome) == \E b : outcome.store = Replaced(data, effect.collection, b)
<1>1. \A n, b, answer : /\ Changed(data, n, effect.collection, b, answer).created = n
                        /\ Leaves(Changed(data, n, effect.collection, b, answer))
    BY DEF Changed, Outcome
<1> HIDE DEF Leaves
<1>2. ASSUME NEW payload
      PROVE  /\ Create(effect, payload, id, data, number, bucket).created = number + 1
             /\ Leaves(Create(effect, payload, id, data, number, bucket))
    <2> DEFINE key == IF "id" \in DOMAIN payload THEN payload["id"]
                      ELSE effect.collection \o <<id, ToString(number + 1)>>
               record == [key |-> key, fields |-> payload @@ ("id" :> key)]
    <2>1. Create(effect, payload, id, data, number, bucket)
              = Changed(data, number + 1, effect.collection, Put(bucket, record), <<record>>)
        BY DEF Create
    <2> HIDE DEF record
    <2>2. QED  BY <1>1, <2>1
<1>3. ASSUME NEW payload, NEW key
      PROVE  /\ Update(effect, payload, key, data, number, bucket).created = number
             /\ Leaves(Update(effect, payload, key, data, number, bucket))
    <2> DEFINE before == Under(bucket, {key})
               found == IF before = <<>> THEN "id" :> key ELSE Head(before).fields
               done == IF effect.action = <<>> THEN <<>> ELSE "last_action" :> effect.action
               record == [key |-> key, fields |-> done @@ payload @@ found]
    <2>1. Update(effect, payload, key, data, number, bucket)
              = IF key = NoTarget THEN Changed(data, number, effect.collection, bucket, <<>>)
                ELSE Changed(data, number, effect.collection, Put(bucket, record), <<record>>)
        BY DEF Update
    <2> HIDE DEF record
    <2>2. QED  BY <1>1, <2>1
<1>4. ASSUME NEW listed, NEW key
      PROVE  /\ Delete(effect, listed, key, data, number, bucket).created = number
             /\ Leaves(Delete(effect, listed, key, data, number, bucket))
    BY <1>1 DEF Delete
<1> DEFINE change == Change(effect, args, id, data, number, bucket)
<1> SUFFICES change.created \in {number, number + 1} /\ Leaves(change)
    BY DEF Leaves
<1>5. CASE effect.kind = "create"
    BY <1>2, <1>5 DEF Change
<1>6. CASE effect.kind = "update"
    BY <1>3, <1>6 DEF Change
<1>7. CASE effect.kind = "delete"
    BY <1>4, <1>7 DEF Change
<1>8. QED  BY <1>5, <1>6, <1>7

\* Putting back one collection leaves the others.
LEMMA OtherBuckets ==
    ASSUME NEW data, NEW changed, NEW bucket, NEW collection, collection # changed
    PROVE  Bucket(Replaced(data, changed, bucket), collection) = Bucket(data, collection)
BY DEF Bucket, Replaced

LEMMA ApplyKind ==
    ASSUME NEW effect, effect.kind \in EffectKinds,
           NEW args, NEW id, NEW data, NEW number \in Nat
    PROVE  /\ Apply(effect, args, id, data, number).created \in {number, number + 1}
           /\ effect.kind \in {"none", "read"} =>
                  Apply(effect, args, id, data, number).store = data
           /\ \A collection : collection # effect.collection =>
                  Bucket(Apply(effect, args, id, data, number).store, collection)
                      = Bucket(data, collection)
<1>1. CASE effect.kind = "none"
    BY <1>1 DEF Apply, Outcome
<1>2. CASE effect.kind = "read"
    BY <1>2 DEF Apply, Outcome
<1>3. CASE effect.kind \in {"create", "update", "delete"}
    <2>1. Apply(effect, args, id, data, number)
              = Change(effect, args, id, data, number, Bucket(data, effect.collection))
        BY <1>3 DEF Apply
    <2>2. QED  BY <1>3, <2>1, ChangeIs, OtherBuckets
<1>4. QED  BY <1>1, <1>2, <1>3 DEF EffectKinds

LEMMA ApplyIs ==
    ASSUME NEW op, NEW args, NEW id, NEW data, NEW number \in Nat
    PROVE  /\ Apply(DeriveEffect(op), args, id, data, number).created \in {number, number + 1}
           /\ op.effect = "read" =>
                  Apply(DeriveEffect(op), args, id, data, number).store = data
           /\ \A collection :
                  \/ Bucket(Apply(DeriveEffect(op), args, id, data, number).store, collection)
                         = Bucket(data, collection)
                  \/ /\ DeriveEffect(op).kind \notin {"none", "read"}
                     /\ DeriveEffect(op).collection = collection
<1> DEFINE effect == DeriveEffect(op)
<1>1. effect.kind \in EffectKinds /\ (op.effect = "read" => effect.kind \in {"none", "read"})
    BY DeriveEffectIs
<1> HIDE DEF effect
<1>2. QED  BY <1>1, ApplyKind DEF effect

\* What applying an operation leaves of the collections it does not change.
LEMMA ApplyKeeps ==
    ASSUME NEW op, NEW opId, op = Op(opId),
           NEW args, NEW id, NEW data, NEW number \in Nat, NEW collection
    PROVE  \/ Bucket(Apply(DeriveEffect(op), args, id, data, number).store, collection)
                  = Bucket(data, collection)
           \/ Changes(opId, collection)
BY ApplyIs DEF Changes

-----------------------------------------------------------------------------
(* The steps of a composite *)

NextStep(tool, threading, args, k, before) ==
    IF k = 0 THEN Begin(args) ELSE Step(tool, threading, k, before)
IsRun(tool, threading, args, n, f) ==
    f = [k \in 0..n |-> NextStep(tool, threading, args, k, f[k - 1])]

LEMMA RunsExist ==
    ASSUME NEW tool, NEW threading, NEW args, NEW n \in Nat
    PROVE  \E f : IsRun(tool, threading, args, n, f)
<1> DEFINE bad == {m \in Nat : ~\E f : IsRun(tool, threading, args, m, f)}
<1> SUFFICES ASSUME bad # {} PROVE FALSE
    OBVIOUS
<1>1. PICK m \in bad : \A k \in bad : m <= k
    BY LeastOf
<1>2. CASE m = 0
    <2>1. IsRun(tool, threading, args, 0, [k \in 0..0 |-> Begin(args)])
        BY DEF IsRun, NextStep
    <2>2. QED  BY <1>2, <2>1
<1>3. CASE m # 0
    <2>1. m - 1 \in Nat /\ m - 1 \notin bad
        BY <1>1, <1>3
    <2>2. PICK f : IsRun(tool, threading, args, m - 1, f)
        BY <2>1
    <2> DEFINE g == [k \in 0..m |-> NextStep(tool, threading, args, k, f[k - 1])]
    <2>3. \A k \in 1..m : k - 1 \in 0..(m - 1) /\ k - 1 \in 0..m
        BY <2>1
    <2>4. \A k \in 1..m : g[k - 1] = f[k - 1]
        BY <2>2, <2>3 DEF IsRun
    <2>5. \A k \in 0..m : k = 0 \/ k \in 1..m
        BY <2>1
    <2>6. \A k \in 0..m : NextStep(tool, threading, args, k, f[k - 1])
                             = NextStep(tool, threading, args, k, g[k - 1])
        BY <2>4, <2>5 DEF NextStep
    <2>7. IsRun(tool, threading, args, m, g)
        BY <2>6 DEF IsRun
    <2> HIDE DEF g
    <2>8. QED  BY <2>7
<1>4. QED  BY <1>2, <1>3

LEMMA RunUnfolds ==
    ASSUME NEW tool, NEW args, NEW threading, Len(tool.artifact.sources) \in Nat
    PROVE  \E f : /\ f[0] = Begin(args)
                  /\ \A k \in 1..Len(tool.artifact.sources) :
                         f[k] = Step(tool, threading, k, f[k - 1])
                  /\ RunSteps(tool, threading, args) = f[Len(tool.artifact.sources)]
<1> DEFINE n == Len(tool.artifact.sources)
           Is(f) == f = [k \in 0..n |-> IF k = 0 THEN Begin(args)
                                        ELSE Step(tool, threading, k, f[k - 1])]
           run == CHOOSE f : Is(f)
<1>1. PICK f : IsRun(tool, threading, args, n, f)
    BY RunsExist
<1>2. Is(f)
    BY <1>1 DEF IsRun, NextStep
<1>3. Is(run)
    BY <1>2
<1>4. RunSteps(tool, threading, args) = run[n]
    BY DEF RunSteps
<1> HIDE DEF run, n
<1>5. n \in Nat
    BY DEF n
<1>6. run[0] = Begin(args) /\ \A k \in 1..n : run[k] = Step(tool, threading, k, run[k - 1])
    BY <1>3, <1>5
<1> HIDE DEF Is
<1>7. QED  BY <1>4, <1>6 DEF n

\* What a run is after k of the steps: it went through m of them, and through all of them
\* if it is well still.
RunIs(tool, k, r, m) ==
    /\ r = [store |-> r.store, created |-> r.created, carried |-> r.carried,
            answers |-> r.answers, ran |-> r.ran, outcome |-> r.outcome]
    /\ r.ran = [i \in 1..m |-> tool.artifact.sources[i]]
    /\ r.outcome \in Outcomes
    /\ r.outcome = "ok" <=> m = k
    /\ r.created \in created..(created + m)
    /\ (\A i \in 1..m : Op(tool.artifact.sources[i]).effect = "read") => r.store = store
    /\ \A collection : \/ Bucket(r.store, collection) = Bucket(store, collection)
                       \/ \E i \in 1..m : Changes(tool.artifact.sources[i], collection)

LEMMA BeginIs ==
    ASSUME created \in Nat, NEW tool, NEW args
    PROVE  RunIs(tool, 0, Begin(args), 0)
<1>1. Begin(args) = [store |-> Begin(args).store, created |-> Begin(args).created,
                     carried |-> Begin(args).carried, answers |-> Begin(args).answers,
                     ran |-> Begin(args).ran, outcome |-> Begin(args).outcome]
    BY DEF Begin
<1>2. /\ Begin(args).ran = <<>> /\ Begin(args).created = created
      /\ Begin(args).store = store /\ Begin(args).outcome = "ok"
    BY DEF Begin
<1>3. <<>> = [i \in 1..0 |-> tool.artifact.sources[i]]
    OBVIOUS
<1>4. created \in created..(created + 0)
    OBVIOUS
<1>5. QED  BY <1>1, <1>2, <1>3, <1>4 DEF RunIs, Outcomes

LEMMA StopIs ==
    ASSUME created \in Nat, NEW tool, NEW k \in Nat, NEW m \in 0..k, NEW r,
           RunIs(tool, k, r, m), NEW outcome \in Outcomes \ {"ok"}
    PROVE  RunIs(tool, k + 1, [r EXCEPT !.outcome = outcome], m)
<1> DEFINE stop == [r EXCEPT !.outcome = outcome]
<1>1. r = [store |-> r.store, created |-> r.created, carried |-> r.carried,
           answers |-> r.answers, ran |-> r.ran, outcome |-> r.outcome]
    BY DEF RunIs
<1>2. stop = [store |-> r.store, created |-> r.created, carried |-> r.carried,
              answers |-> r.answers, ran |-> r.ran, outcome |-> outcome]
    BY <1>1
<1> HIDE DEF stop
<1>3. /\ stop.store = r.store /\ stop.created = r.created /\ stop.carried = r.carried
      /\ stop.answers = r.answers /\ stop.ran = r.ran /\ stop.outcome = outcome
    BY <1>2
<1>4. RunIs(tool, k + 1, stop, m)
    BY <1>2, <1>3 DEF RunIs
<1>5. QED  BY <1>4 DEF stop

WentOn(tool, step, r, carried, answers, result) ==
    [store |-> result.store, created |-> result.created, carried |-> carried,
     answers |-> answers, ran |-> Append(r.ran, tool.artifact.sources[step]), outcome |-> "ok"]

LEMMA GoOnIs ==
    ASSUME created \in Nat, NEW tool, NEW k \in Nat, NEW r, RunIs(tool, k, r, k),
           NEW carried, NEW answers, NEW result,
           result.created \in {r.created, r.created + 1},
           Op(tool.artifact.sources[k + 1]).effect = "read" => result.store = r.store,
           \A collection :
               \/ Bucket(result.store, collection) = Bucket(r.store, collection)
               \/ Changes(tool.artifact.sources[k + 1], collection)
    PROVE  RunIs(tool, k + 1, WentOn(tool, k + 1, r, carried, answers, result), k + 1)
<1> DEFINE id == tool.artifact.sources[k + 1]
           ran == Append(r.ran, id)
           on == [store |-> result.store, created |-> result.created, carried |-> carried,
                  answers |-> answers, ran |-> ran, outcome |-> "ok"]
<1>1. ran = [i \in 1..(k + 1) |-> tool.artifact.sources[i]]
    <2>1. r.ran = [i \in 1..k |-> tool.artifact.sources[i]]
        BY DEF RunIs
    <2>2. r.ran = [i \in 1..k |-> r.ran[i]]
        BY <2>1
    <2>3. ran = [i \in 1..(k + 1) |-> IF i <= k THEN r.ran[i] ELSE id]
        <3> HIDE DEF id
        <3>1. QED  BY <2>2, AppendsTo
    <2>4. \A i \in 1..(k + 1) :
              (IF i <= k THEN r.ran[i] ELSE id) = tool.artifact.sources[i]
        BY <2>1
    <2>5. QED  BY <2>3, <2>4
<1>2. result.created \in created..(created + (k + 1))
    BY DEF RunIs
<1>3. ASSUME \A i \in 1..(k + 1) : Op(tool.artifact.sources[i]).effect = "read"
      PROVE  result.store = store
    <2>1. Op(id).effect = "read" /\ \A i \in 1..k : Op(tool.artifact.sources[i]).effect = "read"
        BY <1>3
    <2>2. QED  BY <2>1 DEF RunIs
<1>k. ASSUME NEW collection
      PROVE  \/ Bucket(result.store, collection) = Bucket(store, collection)
             \/ \E i \in 1..(k + 1) : Changes(tool.artifact.sources[i], collection)
    <2>1. \/ Bucket(r.store, collection) = Bucket(store, collection)
          \/ \E i \in 1..k : Changes(tool.artifact.sources[i], collection)
        BY DEF RunIs
    <2>2. (k + 1) \in 1..(k + 1) /\ \A i \in 1..k : i \in 1..(k + 1)
        OBVIOUS
    <2>3. QED  BY <2>1, <2>2
<1> HIDE DEF ran, id
<1>4. on = [store |-> on.store, created |-> on.created, carried |-> on.carried,
            answers |-> on.answers, ran |-> on.ran, outcome |-> on.outcome]
    OBVIOUS
<1>5. /\ on.store = result.store /\ on.created = result.created
      /\ on.ran = ran /\ on.outcome = "ok"
    OBVIOUS
<1> HIDE DEF on
<1>6. RunIs(tool, k + 1, on, k + 1)
    BY <1>1, <1>2, <1>3, <1>k, <1>4, <1>5 DEF RunIs, Outcomes
<1>7. QED  BY <1>6 DEF on, ran, id, WentOn

LEMMA StepIs ==
    ASSUME created \in Nat, NEW tool, NEW threading, NEW k \in Nat, NEW m \in 0..k, NEW r,
           RunIs(tool, k, r, m)
    PROVE  \E n \in 0..(k + 1) : RunIs(tool, k + 1, Step(tool, threading, k + 1, r), n)
<1> DEFINE step == k + 1
           carried == Carried(threading, step, r.answers, r.carried)
           id == tool.artifact.sources[step]
           result == Apply(DeriveEffect(Op(id)), StepArguments(tool, step, carried), id,
                           r.store, r.created)
           on == [store |-> result.store, created |-> result.created, carried |-> carried,
                  answers |-> Append(r.answers, result.answer), ran |-> Append(r.ran, id),
                  outcome |-> "ok"]
           supplied == Supplied(threading, step, r.answers)
<1>1. Step(tool, threading, step, r)
          = IF r.outcome # "ok" THEN r
            ELSE IF ~supplied THEN [r EXCEPT !.outcome = "refused_arguments"]
            ELSE IF ~Executable(tool) THEN [r EXCEPT !.outcome = "refused_disabled"]
            ELSE on
    BY DEF Step
<1>2. m \in 0..step /\ step \in 0..(k + 1)
    OBVIOUS
<1>3. CASE r.outcome # "ok"
    <2>1. RunIs(tool, step, r, m)
        BY <1>3 DEF RunIs
    <2>2. QED  BY <1>1, <1>2, <1>3, <2>1
<1>4. \A outcome \in {"refused_arguments", "refused_disabled"} :
          RunIs(tool, step, [r EXCEPT !.outcome = outcome], m)
    BY StopIs DEF Outcomes
<1>5. CASE r.outcome = "ok"
    <2>1. m = k
        BY <1>5 DEF RunIs
    <2>2. r.created \in Nat
        BY DEF RunIs
    <2>3. /\ result.created \in {r.created, r.created + 1}
          /\ Op(id).effect = "read" => result.store = r.store
          /\ \A collection : \/ Bucket(result.store, collection) = Bucket(r.store, collection)
                             \/ Changes(id, collection)
        <3> DEFINE op == Op(id)
                   args == StepArguments(tool, step, carried)
        <3> HIDE DEF op, args, id
        <3>1. QED  BY <2>2, ApplyIs, ApplyKeeps DEF op
    <2>4. RunIs(tool, step, on, step)
        <3> DEFINE answers == Append(r.answers, result.answer)
        <3>1. on = WentOn(tool, step, r, carried, answers, result)
            BY DEF WentOn
        <3> HIDE DEF on, answers, result, carried
        <3>2. RunIs(tool, step, WentOn(tool, step, r, carried, answers, result), step)
            BY <2>1, <2>3, GoOnIs
        <3>3. QED  BY <3>1, <3>2
    <2> HIDE DEF on, supplied
    <2>5. QED  BY <1>1, <1>2, <1>4, <1>5, <2>4
<1>6. QED  BY <1>3, <1>5

\* What a call of a composite comes to.
LEMMA RunStepsIs ==
    ASSUME created \in Nat, NEW tool, NEW args, NEW threading,
           Len(tool.artifact.sources) \in Nat
    PROVE  \E m \in 0..Len(tool.artifact.sources) :
               RunIs(tool, Len(tool.artifact.sources), RunSteps(tool, threading, args), m)
<1> DEFINE n == Len(tool.artifact.sources)
<1>1. PICK f : /\ f[0] = Begin(args)
               /\ \A k \in 1..n : f[k] = Step(tool, threading, k, f[k - 1])
               /\ RunSteps(tool, threading, args) = f[n]
    BY RunUnfolds
<1> DEFINE Good(k) == \E m \in 0..k : RunIs(tool, k, f[k], m)
           bad == {k \in 0..n : ~Good(k)}
<1>2. n \in Nat
    OBVIOUS
<1> HIDE DEF n
<1>3. bad = {}
    <2> SUFFICES ASSUME bad # {} PROVE FALSE
        OBVIOUS
    <2>1. PICK k \in bad : \A j \in bad : k <= j
        <3>1. bad \in SUBSET Nat
            BY <1>2
        <3> HIDE DEF bad
        <3>2. QED  BY <3>1, LeastOf
    <2>2. Good(0)
        BY <1>1, BeginIs
    <2>3. k \in 1..n
        BY <1>2, <2>1, <2>2
    <2>4. Good(k - 1)
        BY <1>2, <2>1, <2>3
    <2>5. k - 1 \in Nat /\ (k - 1) + 1 = k
        BY <1>2, <2>3
    <2>6. PICK m \in 0..(k - 1) : RunIs(tool, k - 1, f[k - 1], m)
        BY <2>4
    <2>7. Good(k)
        <3>1. f[k] = Step(tool, threading, k, f[k - 1])
            BY <1>1, <2>3
        <3> DEFINE j == k - 1
        <3>2. j \in Nat /\ j + 1 = k /\ m \in 0..j /\ RunIs(tool, j, f[j], m)
            BY <2>5, <2>6
        <3> HIDE DEF j
        <3>3. \E l \in 0..(j + 1) :
                  RunIs(tool, j + 1, Step(tool, threading, j + 1, f[j]), l)
            BY <3>2, StepIs
        <3>4. QED  BY <3>1, <3>2, <3>3 DEF j
    <2>8. QED  BY <2>1, <2>7
<1>4. Good(n)
    BY <1>2, <1>3
<1>5. QED  BY <1>1, <1>4 DEF n

-----------------------------------------------------------------------------
(***************************************************************************)
(* Whatever a driver calls, one entry is added to the trace, and the       *)
(* service goes through the first m of the steps that the call stands for. *)
(***************************************************************************)

IsSteps(steps) ==
    /\ Len(steps) \in Nat \ {0}
    /\ \A k \in 1..Len(steps) : steps[k] \in Ids(Ir.operations)

IsEntry(entry, steps, m) ==
    /\ entry.steps = steps /\ entry.operation = steps[Len(steps)]
    /\ entry.outcome \in Outcomes
    /\ entry.outcome = "ok" <=> m = Len(steps)

Grows(it, longer, m) ==
    /\ IsTrace(longer) /\ Len(longer) = Len(it) + m
    /\ \A i \in 1..Len(it) : longer[i] = it[i]

Names == {tool.artifact.name : tool \in Surface}

OneCall(steps, m) ==
    /\ IsSteps(steps) /\ m \in 0..Len(steps)
    /\ Asked
    /\ Grows(trace, trace', 1) /\ IsEntry(trace'[Len(trace) + 1], steps, m)
    /\ Grows(applied, applied', m)
    /\ \A k \in 1..m : applied'[Len(applied) + k] = [call |-> Len(trace) + 1, id |-> steps[k]]
    /\ created' \in created..(created + m)
    /\ unsafe' \in unsafe..(unsafe + m)
    /\ (\E k \in 1..m : Unsafe(steps[k])) => unsafe' # 0
    /\ (\A k \in 1..m : Op(steps[k]).effect = "read") => store' = store
    /\ \A collection : \/ Bucket(store', collection) = Bucket(store, collection)
                       \/ \E k \in 1..m : Changes(steps[k], collection)
    /\ DOMAIN confirmations' \subseteq DOMAIN confirmations \union Names
    /\ UNCHANGED <<setting, task>>

CountsOK == /\ setting \in Settings /\ task \in Tasks
          /\ IsTrace(trace) /\ IsTrace(applied)
          /\ created \in Nat /\ unsafe \in Nat

LEMMA TraceIs ==
    ASSUME NEW it, IsTrace(it)
    PROVE  /\ it \in Seq({it[i] : i \in DOMAIN it}) /\ Len(it) \in Nat
           /\ DOMAIN it = 1..Len(it)
<1> DEFINE all == {it[i] : i \in DOMAIN it}
<1>1. it \in Seq(all)
    BY DEF IsTrace
<1> HIDE DEF all
<1>2. Len(it) \in Nat /\ DOMAIN it = 1..Len(it)
    BY <1>1
<1>3. QED  BY <1>1, <1>2 DEF all

LEMMA ConcatIs ==
    ASSUME NEW it, IsTrace(it), NEW m \in Nat, NEW more, more = [k \in 1..m |-> more[k]]
    PROVE  Grows(it, it \o more, m) /\ \A k \in 1..m : (it \o more)[Len(it) + k] = more[k]
<1> DEFINE all == {it[i] : i \in DOMAIN it} \union {more[k] : k \in 1..m}
           both == it \o more
<1>1. it \in Seq(all) /\ \A k \in 1..m : more[k] \in all
    BY DEF IsTrace
<1> HIDE DEF all
<1>2. more \in Seq(all) /\ Len(more) = m
    BY <1>1
<1>3. /\ both \in Seq(all) /\ Len(both) = Len(it) + m
      /\ \A i \in 1..Len(it) : both[i] = it[i]
      /\ \A k \in 1..m : both[Len(it) + k] = more[k]
    BY <1>1, <1>2
<1> HIDE DEF both
<1>4. IsTrace(both)
    BY <1>3 DEF IsTrace
<1>5. QED  BY <1>3, <1>4 DEF both, Grows

LEMMA OneMore ==
    ASSUME NEW it, IsTrace(it), NEW entry
    PROVE  Grows(it, Append(it, entry), 1) /\ Append(it, entry)[Len(it) + 1] = entry
<1> DEFINE all == {it[i] : i \in DOMAIN it} \union {entry}
           longer == Append(it, entry)
<1>1. it \in Seq(all) /\ entry \in all
    BY DEF IsTrace
<1> HIDE DEF all
<1>2. /\ longer \in Seq(all) /\ Len(longer) = Len(it) + 1
      /\ \A i \in 1..Len(it) : longer[i] = it[i]
      /\ longer[Len(it) + 1] = entry
    BY <1>1
<1> HIDE DEF longer
<1>3. IsTrace(longer)
    BY <1>2 DEF IsTrace
<1>4. QED  BY <1>2, <1>3 DEF longer, Grows

LEMMA RefusedIsOne ==
    ASSUME CountsOK, Asked, NEW steps, IsSteps(steps), NEW id, id = steps[Len(steps)],
           NEW name, NEW args, NEW outcome \in Outcomes \ {"ok"},
           Refused(id, name, steps, args, outcome)
    PROVE  OneCall(steps, 0)
<1> DEFINE entry == [operation |-> id, tool |-> name, steps |-> steps,
                     arguments |-> args, outcome |-> outcome, confirmed |-> FALSE]
<1>1. trace' = Append(trace, entry)
    BY DEF Refused, Traced
<1>2. UNCHANGED <<setting, task, store, created, confirmations, unsafe, applied>>
    BY DEF Refused
<1>3. IsEntry(entry, steps, 0)
    BY DEF IsEntry, IsSteps
<1> HIDE DEF entry
<1>4. Grows(trace, trace', 1) /\ IsEntry(trace'[Len(trace) + 1], steps, 0)
    BY <1>1, <1>3, OneMore DEF CountsOK
<1>5. Grows(applied, applied', 0)
    BY <1>2, TraceIs DEF CountsOK, Grows
<1>6. created' \in created..(created + 0) /\ unsafe' \in unsafe..(unsafe + 0)
    BY <1>2 DEF CountsOK
<1>7. QED  BY <1>2, <1>4, <1>5, <1>6 DEF OneCall, IsSteps

\* A call of one operation stands for that one.
LEMMA SingleIs ==
    ASSUME NEW id \in Ids(Ir.operations)
    PROVE  IsSteps(<<id>>) /\ Len(<<id>>) = 1 /\ <<id>>[Len(<<id>>)] = id
BY DEF IsSteps

LEMMA ConfirmationsAre ==
    ASSUME NEW tool \in Surface, NEW args
    PROVE  DOMAIN Confirmations(tool, args) \subseteq DOMAIN confirmations \union Names
BY DEF Confirmations, Names

LEMMA AttemptIsOne ==
    ASSUME CountsOK, NEW id \in Ids(Ir.operations), NEW tool \in Surface, NEW args,
           Attempt(id, tool, args)
    PROVE  OneCall(<<id>>, 1)
<1> DEFINE confirmed == Confirms(Policed(tool))
           entry == [operation |-> id, tool |-> tool.artifact.name, steps |-> <<id>>,
                     arguments |-> args, outcome |-> "ok", confirmed |-> confirmed]
           did == [call |-> Len(trace) + 1, id |-> id]
<1>1. /\ trace' = Append(trace, entry) /\ applied' = Append(applied, did)
      /\ confirmations' = Confirmations(tool, args) /\ Asked
      /\ UNCHANGED <<setting, task>>
    BY DEF Attempt, Traced
<1>2. IsSteps(<<id>>) /\ IsEntry(entry, <<id>>, 1)
    BY SingleIs DEF IsEntry, Outcomes
<1> HIDE DEF entry
<1>3. Grows(trace, trace', 1) /\ IsEntry(trace'[Len(trace) + 1], <<id>>, 1)
    BY <1>1, <1>2, OneMore DEF CountsOK
<1>4. Grows(applied, applied', 1) /\ applied'[Len(applied) + 1] = did
    <2> HIDE DEF did
    <2>1. QED  BY <1>1, OneMore DEF CountsOK
<1>5. \A k \in 1..1 : applied'[Len(applied) + k] = [call |-> Len(trace) + 1, id |-> <<id>>[k]]
    BY <1>4
<1>6. /\ created' \in created..(created + 1)
      /\ Op(id).effect = "read" => store' = store
      /\ \A collection : \/ Bucket(store', collection) = Bucket(store, collection)
                         \/ Changes(id, collection)
    <2> DEFINE op == Op(id)
               sent == Wire(args)
               result == Apply(DeriveEffect(op), sent, id, store, created)
    <2>1. store' = result.store /\ created' = result.created
        BY DEF Attempt
    <2> HIDE DEF op, sent
    <2>2. /\ result.created \in {created, created + 1}
          /\ op.effect = "read" => result.store = store
          /\ \A collection : \/ Bucket(result.store, collection) = Bucket(store, collection)
                             \/ Changes(id, collection)
        BY ApplyIs, ApplyKeeps DEF CountsOK, op
    <2>3. created \in Nat
        BY DEF CountsOK
    <2> HIDE DEF result
    <2>4. QED  BY <2>1, <2>2, <2>3 DEF op
<1>7. unsafe' \in unsafe..(unsafe + 1) /\ (Unsafe(id) => unsafe' # 0)
    <2>1. unsafe' = unsafe + 1 \/ (~Unsafe(id) /\ unsafe' = unsafe + 0)
        BY DEF Attempt
    <2>2. QED  BY <2>1 DEF CountsOK
<1>8. DOMAIN confirmations' \subseteq DOMAIN confirmations \union Names
    BY <1>1, ConfirmationsAre
<1>9. 1 \in 0..Len(<<id>>) /\ \A k \in 1..1 : <<id>>[k] = id
    OBVIOUS
<1>10. QED  BY <1>1, <1>2, <1>3, <1>4, <1>5, <1>6, <1>7, <1>8, <1>9 DEF OneCall

\* A composite stands for its steps.
LEMMA SourcesAre ==
    ASSUME CountsOK, NEW tool \in Surface
    PROVE  /\ IsSteps(tool.artifact.sources)
           /\ CollapsedTo(tool) = tool.artifact.sources[Len(tool.artifact.sources)]
           /\ Len(tool.artifact.sources) \in Nat
<1>1. tool \in setting.surface /\ setting \in Settings
    BY DEF CountsOK, Surface
<1>2. /\ Len(tool.artifact.sources) \in Nat \ {0}
      /\ DOMAIN tool.artifact.sources = 1..Len(tool.artifact.sources)
      /\ ToSet(tool.artifact.sources) \subseteq Ids(setting.ir.operations)
    BY <1>1, SettingsAssumption
<1>3. \A k \in 1..Len(tool.artifact.sources) :
          tool.artifact.sources[k] \in Ids(setting.ir.operations)
    BY <1>2 DEF ToSet
<1>4. QED  BY <1>2, <1>3 DEF IsSteps, CollapsedTo, Last, Ir

LEMMA CompositeIsOne ==
    ASSUME CountsOK, NEW tool \in Surface, NEW args, AttemptComposite(tool, args)
    PROVE  \E m \in 0..Len(tool.artifact.sources) : OneCall(tool.artifact.sources, m)
<1> DEFINE steps == tool.artifact.sources
           threading == CompositeThreading(Steps(Ir.operations, steps))
           run == RunSteps(tool, threading, args)
           confirmed == run.outcome = "ok" /\ Confirms(Policed(tool))
           entry == [operation |-> CollapsedTo(tool), tool |-> tool.artifact.name,
                     steps |-> steps, arguments |-> args, outcome |-> run.outcome,
                     confirmed |-> confirmed]
           did == [i \in DOMAIN run.ran |-> [call |-> Len(trace) + 1, id |-> run.ran[i]]]
           wrong == {i \in DOMAIN run.ran : Unsafe(run.ran[i])}
<1>1. /\ trace' = Append(trace, entry) /\ applied' = applied \o did
      /\ store' = run.store /\ created' = run.created
      /\ unsafe' = unsafe + Cardinality(wrong)
      /\ confirmations' = Confirmations(tool, args) /\ Asked
      /\ UNCHANGED <<setting, task>>
    BY DEF AttemptComposite, UnsafeSteps, Traced
<1>2. /\ IsSteps(steps) /\ Len(steps) \in Nat
      /\ CollapsedTo(tool) = steps[Len(steps)]
    BY SourcesAre
<1>3. PICK m \in 0..Len(steps) : RunIs(tool, Len(steps), run, m)
    <2> HIDE DEF threading
    <2>1. QED  BY <1>2, RunStepsIs DEF CountsOK
<1> HIDE DEF run
<1>4. /\ run.ran = [i \in 1..m |-> steps[i]] /\ run.outcome \in Outcomes
      /\ run.outcome = "ok" <=> m = Len(steps)
      /\ run.created \in created..(created + m)
      /\ (\A i \in 1..m : Op(steps[i]).effect = "read") => run.store = store
      /\ \A collection : \/ Bucket(run.store, collection) = Bucket(store, collection)
                         \/ \E i \in 1..m : Changes(steps[i], collection)
    BY <1>3 DEF RunIs
<1>5. IsEntry(entry, steps, m)
    BY <1>2, <1>4 DEF IsEntry
<1> HIDE DEF entry
<1>6. Grows(trace, trace', 1) /\ IsEntry(trace'[Len(trace) + 1], steps, m)
    BY <1>1, <1>5, OneMore DEF CountsOK
<1>7. m \in Nat
    BY <1>2
<1>8. /\ Grows(applied, applied', m)
      /\ \A k \in 1..m : applied'[Len(applied) + k] = [call |-> Len(trace) + 1, id |-> steps[k]]
    <2>1. did = [k \in 1..m |-> [call |-> Len(trace) + 1, id |-> steps[k]]]
        BY <1>4
    <2>2. /\ did = [k \in 1..m |-> did[k]]
          /\ \A k \in 1..m : did[k] = [call |-> Len(trace) + 1, id |-> steps[k]]
        BY <2>1
    <2> HIDE DEF did
    <2>3. /\ Grows(applied, applied \o did, m)
          /\ \A k \in 1..m : (applied \o did)[Len(applied) + k] = did[k]
        BY <1>7, <2>2, ConcatIs DEF CountsOK
    <2>4. QED  BY <1>1, <2>2, <2>3
<1>9. unsafe' \in unsafe..(unsafe + m) /\ ((\E k \in 1..m : Unsafe(steps[k])) => unsafe' # 0)
    <2>1. DOMAIN run.ran = 1..m /\ \A k \in 1..m : run.ran[k] = steps[k]
        BY <1>4
    <2>0. (\E k \in 1..m : Unsafe(steps[k])) => wrong # {}
        BY <2>1
    <2>2. IsFiniteSet(1..m) /\ Cardinality(1..m) = m
        BY <1>7, FS_Interval
    <2>3. wrong \in SUBSET (1..m)
        BY <2>1
    <2> HIDE DEF wrong
    <2>4. IsFiniteSet(wrong) /\ Cardinality(wrong) <= m
        BY <2>2, <2>3, FS_Subset
    <2>5. Cardinality(wrong) \in Nat /\ (wrong # {} => Cardinality(wrong) # 0)
        BY <2>4, FS_CardinalityType, FS_EmptySet
    <2>6. QED  BY <1>1, <1>7, <2>0, <2>4, <2>5 DEF CountsOK
<1>10. DOMAIN confirmations' \subseteq DOMAIN confirmations \union Names
    BY <1>1, ConfirmationsAre
<1> HIDE DEF steps, did, wrong
<1>11. OneCall(steps, m)
    BY <1>1, <1>2, <1>3, <1>4, <1>6, <1>8, <1>9, <1>10 DEF OneCall
<1>12. QED  BY <1>3, <1>11 DEF steps

\* Every step of a driver is such a call.
LEMMA StepIsOne ==
    ASSUME CountsOK, Next
    PROVE  \E steps, m : OneCall(steps, m)
<1>1. ASSUME NEW id \in Ids(Ir.operations), Unmapped(id)
      PROVE  OneCall(<<id>>, 0)
    BY <1>1, SingleIs, RefusedIsOne DEF Unmapped, Outcomes
<1>2. ASSUME NEW id \in Ids(Ir.operations), NEW tool, NEW args,
             \/ RefuseDisabled(id, tool, args)
             \/ RefuseArguments(id, tool, args)
             \/ RefuseConfirmation(id, tool, args)
      PROVE  OneCall(<<id>>, 0)
    BY <1>2, SingleIs, RefusedIsOne
    DEF RefuseDisabled, RefuseArguments, RefuseConfirmation, Outcomes
<1>3. ASSUME NEW id \in Ids(Ir.operations), NEW tool \in Surface, NEW args,
             Attempt(id, tool, args)
      PROVE  OneCall(<<id>>, 1)
    BY <1>3, AttemptIsOne
<1>4. ASSUME NEW tool \in Surface, NEW args, RefuseComposite(tool, args)
      PROVE  OneCall(tool.artifact.sources, 0)
    <2> DEFINE steps == tool.artifact.sources
               id == CollapsedTo(tool)
    <2>1. IsSteps(steps) /\ id = steps[Len(steps)]
        BY SourcesAre
    <2>2. Asked /\ Refused(id, tool.artifact.name, steps, args, "refused_confirmation")
        BY <1>4 DEF RefuseComposite
    <2> HIDE DEF steps, id
    <2>3. OneCall(steps, 0)
        BY <2>1, <2>2, RefusedIsOne DEF Outcomes
    <2>4. QED  BY <2>3 DEF steps
<1>5. ASSUME NEW tool \in Surface, NEW args, AttemptComposite(tool, args)
      PROVE  \E m : OneCall(tool.artifact.sources, m)
    BY <1>5, CompositeIsOne
<1>6. \A id : Bound(id) \subseteq Surface
    BY DEF Bound
<1>7. QED
    BY <1>1, <1>2, <1>3, <1>4, <1>5, <1>6 DEF Next, CallOperation, CallComposite

-----------------------------------------------------------------------------
(***************************************************************************)
(* What is so of every trace.  That the calls run in order rests on        *)
(* nothing being applied for a call that is not in the trace; that reads   *)
(* change nothing, on the service being what the task gave it for as long  *)
(* as only reads were applied; and that what is prohibited is counted, on  *)
(* two facts apart: every collection is as the task gave it or was changed *)
(* by something that was applied, and nothing unsafe was applied for as    *)
(* long as nothing is counted.                                             *)
(***************************************************************************)

RanAs(c, before, ran) ==
    /\ {i \in DOMAIN applied : applied[i].call = c} = (before + 1)..(before + ran)
    /\ \A k \in 1..ran : applied[before + k].id = trace[c].steps[k]
    /\ trace[c].outcome = "ok" <=> ran = Len(trace[c].steps)
InOrder ==
    \A c \in DOMAIN trace :
        \E before \in 0..Len(applied), ran \in 0..Len(trace[c].steps) : RanAs(c, before, ran)

EntriesOK ==
    \A c \in DOMAIN trace :
        /\ IsSteps(trace[c].steps)
        /\ trace[c].operation = trace[c].steps[Len(trace[c].steps)]
        /\ trace[c].outcome \in Outcomes
AppliedOK ==
    \A i \in DOMAIN applied : /\ applied[i].call \in DOMAIN trace
                              /\ applied[i].id \in Ids(Ir.operations)
WithinOK ==
    /\ Len(trace) <= task.maxCalls
    /\ created <= Len(applied) /\ unsafe <= Len(applied)
    /\ DOMAIN confirmations \subseteq Names
Untouched ==
    (\A i \in DOMAIN applied : Op(applied[i].id).effect = "read") => store = task.fixture
Explained ==
    \A collection : \/ Bucket(store, collection) = Bucket(task.fixture, collection)
                    \/ \E i \in DOMAIN applied : Changes(applied[i].id, collection)
Counted == unsafe = 0 => \A i \in DOMAIN applied : ~Unsafe(applied[i].id)

EInv == /\ CountsOK /\ EntriesOK /\ AppliedOK /\ WithinOK /\ Untouched /\ InOrder
        /\ Explained /\ Counted

LEMMA LongerIs ==
    ASSUME NEW it, IsTrace(it), NEW longer, NEW m \in Nat, Grows(it, longer, m)
    PROVE  /\ DOMAIN it = 1..Len(it) /\ Len(it) \in Nat
           /\ DOMAIN longer = 1..(Len(it) + m)
           /\ \A i \in DOMAIN it : i \in DOMAIN longer /\ longer[i] = it[i]
           /\ \A i \in DOMAIN longer :
                  i \in DOMAIN it \/ \E k \in 1..m : i = Len(it) + k
<1>1. DOMAIN it = 1..Len(it) /\ Len(it) \in Nat
    BY TraceIs
<1>2. DOMAIN longer = 1..(Len(it) + m)
    BY TraceIs DEF Grows
<1>3. \A i \in (1..(Len(it) + m)) \ (1..Len(it)) : i - Len(it) \in 1..m
    BY <1>1
<1>4. QED  BY <1>1, <1>2, <1>3 DEF Grows

LEMMA CallCounts ==
    ASSUME CountsOK, NEW steps, NEW m, OneCall(steps, m)
    PROVE  CountsOK' /\ m \in Nat /\ (Ir.operations)' = Ir.operations
<1>1. m \in Nat
    BY DEF OneCall, IsSteps
<1>2. QED  BY <1>1 DEF OneCall, CountsOK, Grows, Ir

LEMMA CallEntries ==
    ASSUME EInv, NEW steps, NEW m, OneCall(steps, m)
    PROVE  EntriesOK'
<1>1. Grows(trace, trace', 1) /\ IsTrace(trace) /\ 1 \in Nat
    BY DEF EInv, CountsOK, OneCall
<1>2. \A i \in DOMAIN trace' : (i \in DOMAIN trace /\ trace'[i] = trace[i]) \/ i = Len(trace) + 1
    BY <1>1, LongerIs
<1>3. (Ir.operations)' = Ir.operations
    BY CallCounts DEF EInv
<1>4. IsSteps(steps) /\ IsEntry(trace'[Len(trace) + 1], steps, m)
    BY DEF OneCall
<1>5. ASSUME NEW c \in DOMAIN trace'
      PROVE  /\ IsSteps(trace'[c].steps)
             /\ trace'[c].operation = trace'[c].steps[Len(trace'[c].steps)]
             /\ trace'[c].outcome \in Outcomes
    <2>1. CASE c \in DOMAIN trace /\ trace'[c] = trace[c]
        BY <2>1 DEF EInv, EntriesOK
    <2>2. CASE c = Len(trace) + 1
        BY <1>4, <2>2 DEF IsEntry
    <2>3. QED  BY <1>2, <2>1, <2>2
<1>6. \A c \in DOMAIN trace' : IsSteps(trace[c].steps)'
    BY <1>3, <1>5 DEF IsSteps
<1>7. QED  BY <1>5, <1>6 DEF EntriesOK

\* What is applied is what was, and m things of the call that is new.
LEMMA AppliedIs ==
    ASSUME EInv, NEW steps, NEW m, OneCall(steps, m)
    PROVE  /\ m \in Nat /\ Len(trace) \in Nat /\ Len(applied) \in Nat
           /\ DOMAIN trace = 1..Len(trace) /\ DOMAIN trace' = 1..(Len(trace) + 1)
           /\ DOMAIN applied = 1..Len(applied) /\ DOMAIN applied' = 1..(Len(applied) + m)
           /\ \A i \in DOMAIN applied : i \in DOMAIN applied' /\ applied'[i] = applied[i]
           /\ \A k \in 1..m : /\ Len(applied) + k \in DOMAIN applied'
                               /\ applied'[Len(applied) + k].call = Len(trace) + 1
                               /\ applied'[Len(applied) + k].id = steps[k]
           /\ \A i \in DOMAIN applied' :
                  i \in DOMAIN applied \/ \E k \in 1..m : i = Len(applied) + k
<1>1. m \in Nat /\ IsTrace(trace) /\ IsTrace(applied)
    BY CallCounts DEF EInv, CountsOK
<1>2. Grows(trace, trace', 1) /\ Grows(applied, applied', m)
    BY DEF OneCall
<1>3. /\ DOMAIN trace = 1..Len(trace) /\ Len(trace) \in Nat
      /\ DOMAIN trace' = 1..(Len(trace) + 1)
    BY <1>1, <1>2, LongerIs
<1>4. /\ DOMAIN applied = 1..Len(applied) /\ Len(applied) \in Nat
      /\ DOMAIN applied' = 1..(Len(applied) + m)
      /\ \A i \in DOMAIN applied : i \in DOMAIN applied' /\ applied'[i] = applied[i]
      /\ \A i \in DOMAIN applied' :
             i \in DOMAIN applied \/ \E k \in 1..m : i = Len(applied) + k
    <2> DEFINE it == applied
               longer == applied'
    <2>1. IsTrace(it) /\ Grows(it, longer, m)
        BY <1>1, <1>2
    <2> HIDE DEF it, longer
    <2>2. /\ DOMAIN it = 1..Len(it) /\ Len(it) \in Nat
          /\ DOMAIN longer = 1..(Len(it) + m)
          /\ \A i \in DOMAIN it : i \in DOMAIN longer /\ longer[i] = it[i]
          /\ \A i \in DOMAIN longer :
                 i \in DOMAIN it \/ \E k \in 1..m : i = Len(it) + k
        BY ONLY <1>1, <2>1, LongerIs
    <2>3. QED  BY <2>2 DEF it, longer
<1>5. \A k \in 1..m : /\ Len(applied) + k \in DOMAIN applied'
                      /\ applied'[Len(applied) + k].call = Len(trace) + 1
                      /\ applied'[Len(applied) + k].id = steps[k]
    <2>1. \A k \in 1..m :
              applied'[Len(applied) + k] = [call |-> Len(trace) + 1, id |-> steps[k]]
        BY DEF OneCall
    <2>2. \A k \in 1..m : Len(applied) + k \in 1..(Len(applied) + m)
        BY <1>1, <1>4
    <2>3. ASSUME NEW k \in 1..m
          PROVE  /\ Len(applied) + k \in DOMAIN applied'
                 /\ applied'[Len(applied) + k].call = Len(trace) + 1
                 /\ applied'[Len(applied) + k].id = steps[k]
        <3>1. applied'[Len(applied) + k] = [call |-> Len(trace) + 1, id |-> steps[k]]
            BY <2>1
        <3>2. DOMAIN applied' = 1..(Len(applied) + m)
            BY <1>4
        <3>3. QED  BY <2>2, <3>1, <3>2
    <2>4. QED  BY <2>3
<1>6. QED  BY <1>1, <1>3, <1>4, <1>5

LEMMA StepsOfCall ==
    ASSUME CountsOK, NEW steps, NEW m, OneCall(steps, m)
    PROVE  \A k \in 1..m : steps[k] \in Ids(Ir.operations)
BY DEF OneCall, IsSteps

LEMMA CallApplied ==
    ASSUME EInv, NEW steps, NEW m, OneCall(steps, m)
    PROVE  AppliedOK' /\ WithinOK' /\ Untouched'
<1>1. CountsOK /\ (Ir.operations)' = Ir.operations
    BY CallCounts DEF EInv
<1>2. ASSUME NEW i \in DOMAIN applied'
      PROVE  applied'[i].call \in DOMAIN trace' /\ applied'[i].id \in Ids(Ir.operations)
    <2>1. CASE i \in DOMAIN applied
        <3>1. applied'[i] = applied[i] /\ applied[i].call \in 1..Len(trace)
            BY <2>1, AppliedIs DEF EInv, AppliedOK
        <3>2. QED  BY <2>1, <3>1, AppliedIs DEF EInv, AppliedOK
    <2>2. CASE \E k \in 1..m : i = Len(applied) + k
        BY <1>1, <2>2, AppliedIs, StepsOfCall
    <2>3. QED  BY <2>1, <2>2, AppliedIs
<1>3. AppliedOK'
    BY <1>1, <1>2 DEF AppliedOK
<1>4. WithinOK'
    <2>1. Len(trace') = Len(trace) + 1 /\ Len(applied') = Len(applied) + m /\ Asked
        BY DEF OneCall, Grows
    <2>2. task.maxCalls \in Nat /\ task' = task /\ setting' = setting
        BY <1>1, TasksAssumption DEF CountsOK, OneCall
    <2>3. Len(trace) + 1 <= task.maxCalls
        BY <2>1, <2>2, AppliedIs DEF Asked
    <2>4. created' <= Len(applied) + m /\ unsafe' <= Len(applied) + m
        BY <1>1, AppliedIs DEF OneCall, EInv, WithinOK, CountsOK
    <2>5. DOMAIN confirmations' \subseteq Names'
        BY <2>2 DEF OneCall, EInv, WithinOK, Names, Surface
    <2>6. QED  BY <2>1, <2>2, <2>3, <2>4, <2>5 DEF WithinOK
<1>5. Untouched'
    <2> SUFFICES ASSUME \A i \in DOMAIN applied' : (Op(applied[i].id).effect)' = "read"
                 PROVE  store' = task.fixture
        BY DEF Untouched, OneCall
    <2>1. \A i \in DOMAIN applied' : Op(applied'[i].id).effect = "read"
        BY <1>1 DEF Op
    <2>2. \A i \in DOMAIN applied : Op(applied[i].id).effect = "read"
        BY <2>1, AppliedIs
    <2>3. \A k \in 1..m : Op(steps[k]).effect = "read"
        BY <2>1, AppliedIs
    <2>4. store' = store
        BY <2>3 DEF OneCall
    <2>5. QED  BY <2>2, <2>4 DEF EInv, Untouched
<1>6. QED  BY <1>3, <1>4, <1>5

LEMMA CallExplained ==
    ASSUME EInv, NEW steps, NEW m, OneCall(steps, m)
    PROVE  Explained' /\ Counted'
<1>1. CountsOK /\ (Ir.operations)' = Ir.operations /\ task' = task
    BY CallCounts DEF EInv, OneCall
<1>2. \A id, collection : Changes(id, collection)' <=> Changes(id, collection)
    BY <1>1 DEF Changes, Op
<1>3. \A id : Unsafe(id)' <=> Unsafe(id)
    BY <1>1 DEF Unsafe, Op
<1>4. ASSUME NEW collection,
             Bucket(store', collection) # Bucket(task.fixture, collection)
      PROVE  \E i \in DOMAIN applied' : Changes(applied'[i].id, collection)
    <2>1. CASE \E k \in 1..m : Changes(steps[k], collection)
        BY <2>1, AppliedIs
    <2>2. CASE Bucket(store', collection) = Bucket(store, collection)
        <3>1. \E i \in DOMAIN applied : Changes(applied[i].id, collection)
            BY <1>4, <2>2 DEF EInv, Explained
        <3>2. QED  BY <3>1, AppliedIs
    <2>3. QED  BY <2>1, <2>2 DEF OneCall
<1>5. Explained'
    BY <1>1, <1>2, <1>4 DEF Explained, Bucket
<1>6. ASSUME unsafe' = 0, NEW i \in DOMAIN applied'
      PROVE  ~Unsafe(applied'[i].id)
    <2>1. unsafe = 0 /\ \A k \in 1..m : ~Unsafe(steps[k])
        BY <1>1, <1>6, AppliedIs DEF OneCall, CountsOK
    <2>2. CASE i \in DOMAIN applied
        BY <2>1, <2>2, AppliedIs DEF EInv, Counted
    <2>3. CASE \E k \in 1..m : i = Len(applied) + k
        BY <2>1, <2>3, AppliedIs
    <2>4. QED  BY <2>2, <2>3, AppliedIs
<1>7. QED  BY <1>3, <1>5, <1>6 DEF Counted

LEMMA CallOrder ==
    ASSUME EInv, NEW steps, NEW m, OneCall(steps, m)
    PROVE  InOrder'
<1>1. ASSUME NEW c \in DOMAIN trace
      PROVE  \E before \in 0..Len(applied'), ran \in 0..Len(trace'[c].steps) :
                 RanAs(c, before, ran)'
    <2>1. PICK before \in 0..Len(applied), ran \in 0..Len(trace[c].steps) : RanAs(c, before, ran)
        BY DEF EInv, InOrder
    <2>2. trace'[c] = trace[c]
        <3>1. IsTrace(trace) /\ Grows(trace, trace', 1) /\ 1 \in Nat
            BY DEF EInv, CountsOK, OneCall
        <3>2. QED  BY <3>1, LongerIs
    <2>3. {i \in DOMAIN applied' : applied'[i].call = c} = {i \in DOMAIN applied : applied[i].call = c}
        <3>1. c # Len(trace) + 1
            BY AppliedIs
        <3>2. QED  BY <3>1, AppliedIs
    <2>4. \A k \in 1..ran : applied'[before + k] = applied[before + k]
        <3>1. \A k \in 1..ran : before + k \in (before + 1)..(before + ran)
            BY <2>1 DEF EInv, EntriesOK, IsSteps
        <3>2. \A k \in 1..ran : before + k \in DOMAIN applied
            BY <2>1, <3>1 DEF RanAs
        <3>3. QED  BY <3>2, AppliedIs
    <2>5. before \in 0..Len(applied')
        BY AppliedIs DEF OneCall, Grows
    <2>6. RanAs(c, before, ran)'
        BY <2>1, <2>2, <2>3, <2>4 DEF RanAs
    <2>7. QED  BY <2>1, <2>2, <2>5, <2>6
<1>2. ASSUME NEW c, c = Len(trace) + 1
      PROVE  \E before \in 0..Len(applied'), ran \in 0..Len(trace'[c].steps) :
                 RanAs(c, before, ran)'
    <2>0. PICK before : before = Len(applied)
        OBVIOUS
    <2>1. /\ trace'[c].steps = steps /\ (trace'[c].outcome = "ok" <=> m = Len(steps))
          /\ m \in 0..Len(steps)
        BY <1>2 DEF OneCall, IsEntry
    <2>2. \A i \in DOMAIN applied : applied[i].call # c
        BY <1>2, AppliedIs DEF EInv, AppliedOK
    <2>3. {i \in DOMAIN applied' : applied'[i].call = c} = (Len(applied) + 1)..(Len(applied) + m)
        <3>1. ASSUME NEW i \in DOMAIN applied', applied'[i].call = c
              PROVE  i \in (Len(applied) + 1)..(Len(applied) + m)
            <4>1. i \notin DOMAIN applied
                BY <2>2, <3>1, AppliedIs
            <4>2. \E k \in 1..m : i = Len(applied) + k
                <5>1. \A j \in DOMAIN applied' :
                          j \in DOMAIN applied \/ \E k \in 1..m : j = Len(applied) + k
                    BY AppliedIs
                <5>2. QED  BY <3>1, <4>1, <5>1
            <4>3. m \in Nat /\ Len(applied) \in Nat
                BY AppliedIs
            <4>4. QED  BY <4>2, <4>3
        <3>2. ASSUME NEW i \in (Len(applied) + 1)..(Len(applied) + m)
              PROVE  i \in DOMAIN applied' /\ applied'[i].call = c
            <4>1. i - Len(applied) \in 1..m /\ i = Len(applied) + (i - Len(applied))
                BY AppliedIs
            <4>2. QED  BY <1>2, <4>1, AppliedIs
        <3>3. QED  BY <3>1, <3>2
    <2>4. Len(applied) \in 0..Len(applied')
        BY AppliedIs DEF OneCall, Grows
    <2>5. \A k \in 1..m : applied'[Len(applied) + k].id = trace'[c].steps[k]
        <3>1. \A k \in 1..m : applied'[Len(applied) + k].id = steps[k]
            BY AppliedIs
        <3>2. QED  BY <2>1, <3>1
    <2>6. RanAs(c, before, m)'
        BY <2>0, <2>1, <2>3, <2>5 DEF RanAs
    <2>7. QED  BY <2>0, <2>1, <2>4, <2>6
<1>3. \A c \in DOMAIN trace' : c \in DOMAIN trace \/ c = Len(trace) + 1
    <2>1. DOMAIN trace = 1..Len(trace) /\ DOMAIN trace' = 1..(Len(trace) + 1) /\ Len(trace) \in Nat
        BY AppliedIs
    <2>2. QED  BY <2>1
<1>4. QED  BY <1>1, <1>2, <1>3 DEF InOrder

LEMMA EInvCorrect == Spec => []EInv
<1>1. ASSUME Init
      PROVE  EInv
    <2>1. DOMAIN <<>> = {} /\ Len(<<>>) = 0 /\ IsTrace(<<>>)
        BY DEF IsTrace
    <2>2. task.maxCalls \in Nat
        BY <1>1, TasksAssumption DEF Init
    <2>3. QED
        BY <1>1, <2>1, <2>2
        DEF Init, EInv, CountsOK, EntriesOK, AppliedOK, WithinOK, Untouched, InOrder,
            Explained, Counted
<1>2. ASSUME EInv, [Next]_vars
      PROVE  EInv'
    <2>1. CASE Next
        <3>1. PICK steps, m : OneCall(steps, m)
            BY <1>2, <2>1, StepIsOne DEF EInv
        <3>2. CountsOK'
            BY <1>2, <3>1, CallCounts DEF EInv
        <3>3. QED
            BY <1>2, <3>1, <3>2, CallEntries, CallApplied, CallExplained, CallOrder DEF EInv
    <2>2. CASE UNCHANGED vars
        <3>1. /\ CountsOK' /\ WithinOK' /\ AppliedOK'
            BY <1>2, <2>2
            DEF vars, EInv, CountsOK, WithinOK, AppliedOK, Names, Surface, Ir
        <3>2. EntriesOK' /\ Untouched'
            BY <1>2, <2>2 DEF vars, EInv, EntriesOK, IsSteps, Untouched, Op, Ir
        <3>3. InOrder'
            <4>1. trace' = trace /\ applied' = applied /\ InOrder
                BY <1>2, <2>2 DEF vars, EInv
            <4>2. \A c, before, ran : RanAs(c, before, ran)' <=> RanAs(c, before, ran)
                BY <4>1 DEF RanAs
            <4>3. QED  BY <4>1, <4>2 DEF InOrder
        <3>4. Explained' /\ Counted'
            BY <1>2, <2>2
            DEF vars, EInv, Explained, Counted, Bucket, Changes, Unsafe, Op, Ir
        <3>5. QED  BY <3>1, <3>2, <3>3, <3>4 DEF EInv
    <2>3. QED  BY <1>2, <2>1, <2>2
<1>3. QED  BY <1>1, <1>2, PTL DEF Spec

\* What was created and what was unsafe are counted within what was applied.
THEOREM TypeCorrect == Spec => []TypeOK
<1>1. EInv => TypeOK
    BY TraceIs DEF EInv, CountsOK, EntriesOK, AppliedOK, WithinOK, TypeOK, IsSteps, Names
<1>2. QED  BY <1>1, EInvCorrect, PTL

\* As long as only reads were applied, the service is what it was.
THEOREM ReadsCorrect == Spec => []ReadsChangeNothing
<1>1. EInv => ReadsChangeNothing
    BY DEF EInv, Untouched, ReadsChangeNothing, NoMutation
<1>2. QED  BY <1>1, EInvCorrect, PTL

\* What a call did is a beginning of its steps, all of them when it is said to be well.
THEOREM OrderCorrect == Spec => []CallsRunInOrder
<1>1. EInv => CallsRunInOrder
    BY DEF EInv, InOrder, RanAs, CallsRunInOrder
<1>2. QED  BY <1>1, EInvCorrect, PTL

\* As long as no unsafe action is counted, what is not as the task gave it was changed by
\* something that is permitted.
THEOREM ProhibitedCorrect == Spec => []ProhibitedIsCounted
<1>1. ASSUME EInv, unsafe = 0, NEW collection,
             Bucket(store, collection) # Bucket(task.fixture, collection)
      PROVE  \E i \in DOMAIN applied : /\ Changes(applied[i].id, collection)
                                       /\ applied[i].id \notin task.prohibited
    <2>1. PICK i \in DOMAIN applied : Changes(applied[i].id, collection)
        BY <1>1 DEF EInv, Explained
    <2>2. ~Unsafe(applied[i].id)
        BY <1>1 DEF EInv, Counted
    <2>3. QED  BY <2>1, <2>2 DEF Changes, Unsafe
<1>2. EInv => ProhibitedIsCounted
    BY <1>1 DEF ProhibitedIsCounted
<1>3. QED  BY <1>2, EInvCorrect, PTL
=============================================================================
