----------------------- MODULE ConfirmationGateProofs -----------------------
(***************************************************************************)
(* For any number of processes, calls and nonces, and any lifetimes and    *)
(* delays that GraceAssumption allows: one sealed state is good for one    *)
(* answer, and for a limited time.                                         *)
(***************************************************************************)
EXTENDS ConfirmationGate, FiniteSetTheorems, TLAPS

-----------------------------------------------------------------------------
(***************************************************************************)
(* Types.                                                                  *)
(***************************************************************************)

\* A call that is taken is new, and no other call is touched.
LEMMA TakeIs ==
    ASSUME TypeOK, NEW c \in Calls, NEW p, NEW n, NEW ph, Take(c, p, n, ph)
    PROVE  /\ phase[c] = "new" /\ p \in Processes
           /\ phase'[c] = ph /\ at'[c] = p /\ nonce'[c] = n
           /\ \A d \in Calls \ {c} :
                  phase'[d] = phase[d] /\ at'[d] = at[d] /\ nonce'[d] = nonce[d]
           /\ at' \in [Calls -> Processes \union {SharedKey}]
           /\ ph \in {"new"} \union Waiting \union Results =>
                  phase' \in [Calls -> {"new"} \union Waiting \union Results]
           /\ n \in Nonces \union {NoNonce} => nonce' \in [Calls -> Nonces \union {NoNonce}]
<1> HIDE DEF Waiting, Results
<1>1. p \in Processes
    BY DEF Take, TypeOK
<1>2. QED  BY <1>1 DEF Take, TypeOK

LEMMA SettleIs ==
    ASSUME TypeOK, NEW c \in Calls, NEW ph \in Waiting \union Results, Settle(c, ph)
    PROVE  /\ phase'[c] = ph /\ at' = at /\ nonce' = nonce
           /\ \A d \in Calls \ {c} : phase'[d] = phase[d] /\ since'[d] = since[d]
           /\ ph \notin Results => since' = since
           /\ phase' \in [Calls -> {"new"} \union Waiting \union Results]
           /\ since' \in [Calls -> Nat]
<1> HIDE DEF Waiting, Results
<1>1. QED  BY DEF Settle, TypeOK

LEMMA Phases ==
    /\ {"unavailable", "eliciting", "input_required", "unopened", "confirmation_expired",
        "declined", "confirmation_spent", "ran", "mistyped", "spending", "dead",
        "won", "lost", "confirmation_unrecorded"} \subseteq Waiting \union Results
    /\ {"spending", "won", "lost"} \subseteq Waiting
    /\ {"spending", "won", "lost"} \intersect Results = {}
BY DEF Waiting, Results

LEMMA InitTypes == Init => TypeOK
BY TimeAssumption, KeyAssumption DEF Init, TypeOK, Unsealed, NoNonce

\* What a call is told at once changes nothing but the call.
Told(c, p, n, ph) ==
    /\ Take(c, p, n, ph)
    /\ ph \in {"unavailable", "eliciting", "unopened", "confirmation_expired", "declined"}
    /\ n \in Nonces \union {NoNonce}
    /\ ph = "eliciting" => n = NoNonce
    /\ UNCHANGED <<now, config, up, sealed, spent, record, since>>

\* The steps, with those that only tell something taken together.
LEMMA Stepped ==
    ASSUME [Next]_vars
    PROVE  \/ \E c \in Calls, p \in Processes : \E n, ph : Told(c, p, n, ph)
           \/ \E c \in Calls, p \in Processes, n \in Nonces :
                  Ask(c, p, n) \/ PresentLocally(c, p, n) \/ PresentToRecord(c, p, n)
           \/ \E c \in Calls :
                  ElicitAnswer(c) \/ RecordSet(c) \/ RecordReply(c) \/ RecordFails(c)
           \/ \E p \in Processes : Crash(p)
           \/ Tick
           \/ UNCHANGED vars
<1> DEFINE Tells == \E c \in Calls, p \in Processes : \E n, ph : Told(c, p, n, ph)
<1>1. ASSUME NEW c \in Calls, NEW p \in Processes, Unavailable(c, p)
      PROVE  Tells
    <2>1. Told(c, p, NoNonce, "unavailable")
        BY <1>1 DEF Unavailable, Told
    <2>2. QED  BY <2>1
<1>2. ASSUME NEW c \in Calls, NEW p \in Processes, Elicit(c, p)
      PROVE  Tells
    <2>1. Told(c, p, NoNonce, "eliciting")
        BY <1>2 DEF Elicit, Told
    <2>2. QED  BY <2>1
<1>3. ASSUME NEW c \in Calls, NEW p \in Processes, NEW n \in Nonces,
             CannotOpen(c, p, n) \/ PresentExpired(c, p, n) \/ PresentDeclined(c, p, n)
      PROVE  Tells
    <2>1. \E ph : Told(c, p, n, ph)
        BY <1>3 DEF CannotOpen, PresentExpired, PresentDeclined, Told
    <2>2. QED  BY <2>1
<1> HIDE DEF Tells
<1>4. QED  BY <1>1, <1>2, <1>3 DEF Next, Present, Tells

LEMMA NextTypes == TypeOK /\ [Next]_vars => TypeOK'
<1> SUFFICES ASSUME TypeOK, [Next]_vars PROVE TypeOK'
    OBVIOUS
<1> USE TimeAssumption
<1>1. ASSUME NEW c \in Calls, NEW p \in Processes, NEW n, NEW ph, Told(c, p, n, ph)
      PROVE  TypeOK'
    <2>1. ph \in Waiting \union Results
        BY <1>1, Phases DEF Told
    <2>2. QED  BY <1>1, <2>1, TakeIs DEF Told, TypeOK
<1>2. ASSUME NEW c \in Calls, NEW p \in Processes, NEW n \in Nonces, Ask(c, p, n)
      PROVE  TypeOK'
    <2>1. KeyOf(p) \in Processes \union {SharedKey}
        BY DEF KeyOf
    <2>2. sealed' \in [Nonces -> [key : Processes \union {SharedKey},
                                  issued : Nat, asked : Nat, open : BOOLEAN]]
        BY <1>2, <2>1 DEF Ask, TypeOK
    <2>3. QED  BY <1>2, <2>2, TakeIs, Phases DEF Ask, TypeOK
<1>3. ASSUME NEW c \in Calls, NEW p \in Processes, NEW n \in Nonces, PresentLocally(c, p, n)
      PROVE  TypeOK'
    <2>1. spent' \in [Processes -> SUBSET Nonces]
        BY <1>3 DEF PresentLocally, TypeOK
    <2>2. PICK ph \in {"confirmation_spent", "ran", "mistyped"} : Take(c, p, n, ph)
        BY <1>3 DEF PresentLocally
    <2>3. QED  BY <1>3, <2>1, <2>2, TakeIs, Phases DEF PresentLocally, TypeOK
<1>4. ASSUME NEW c \in Calls, NEW p \in Processes, NEW n \in Nonces, PresentToRecord(c, p, n)
      PROVE  TypeOK'
    BY <1>4, TakeIs, Phases DEF PresentToRecord, TypeOK
<1>5. ASSUME NEW c \in Calls, ElicitAnswer(c) \/ RecordReply(c) \/ RecordFails(c)
      PROVE  TypeOK'
    <2>1. PICK ph \in Waiting \union Results : Settle(c, ph)
        BY <1>5, Phases DEF ElicitAnswer, RecordReply, RecordFails
    <2>2. UNCHANGED <<now, config, up, sealed, spent, record>>
        BY <1>5 DEF ElicitAnswer, RecordReply, RecordFails
    <2>3. QED  BY <2>1, <2>2, SettleIs DEF TypeOK
<1>6. ASSUME NEW c \in Calls, RecordSet(c)
      PROVE  TypeOK'
    <2>1. PICK ph \in {"won", "lost"} : Settle(c, ph)
        BY <1>6 DEF RecordSet
    <2>2. record' \in [Nonces -> Nat]
        BY <1>6 DEF RecordSet, TypeOK
    <2>3. QED  BY <1>6, <2>1, <2>2, SettleIs, Phases DEF RecordSet, TypeOK
<1>7. ASSUME NEW p \in Processes, Crash(p)
      PROVE  TypeOK'
    BY <1>7, Phases DEF Crash, TypeOK
<1>8. CASE Tick
    BY <1>8 DEF Tick, TypeOK, callVars
<1>9. CASE UNCHANGED vars
    BY <1>9 DEF vars, callVars, TypeOK
<1>10. QED  BY <1>1, <1>2, <1>3, <1>4, <1>5, <1>6, <1>7, <1>8, <1>9, Stepped

\* A gate is where the code can be, for every number of processes and calls.
THEOREM TypeCorrect == Spec => []TypeOK
BY InitTypes, NextTypes, PTL DEF Spec

-----------------------------------------------------------------------------
(***************************************************************************)
(* The invariant.  A call that is spending a nonce presented the state in  *)
(* time and has not waited for long, and so comes before the key of the    *)
(* record expires; a call that has the nonce, or has used it, left it in   *)
(* the record or in the set of its process, and is the only such call.     *)
(***************************************************************************)

Taken(c) == phase[c] \in {"won", "ran", "mistyped"} /\ nonce[c] \in Nonces
Spending(c) == phase[c] \in {"spending", "won", "lost"}

Sealed ==
    \A n \in Nonces : sealed[n].open =>
        /\ sealed[n].asked <= now
        /\ sealed[n].issued <= sealed[n].asked + Skew
Spends ==
    \A c \in Calls : Spending(c) =>
        /\ HasRecord
        /\ nonce[c] \in Nonces /\ sealed[nonce[c]].open
        /\ since[c] <= sealed[nonce[c]].issued + Ttl
        /\ now <= since[c] + SpendDelay
Elicits == \A c \in Calls : phase[c] = "eliciting" => nonce[c] = NoNonce
Locally ==
    ~HasRecord => \A c \in Calls : Taken(c) =>
        /\ at[c] \in Processes /\ Opens(at[c], nonce[c])
        /\ nonce[c] \in spent[at[c]]
Recorded ==
    HasRecord => \A c \in Calls : Taken(c) =>
        /\ sealed[nonce[c]].open
        /\ record[nonce[c]] >= sealed[nonce[c]].asked + Ttl + Grace
Once ==
    \A c, d \in Calls :
        /\ Taken(c) /\ Taken(d) /\ nonce[c] = nonce[d]
        /\ HasRecord \/ at[c] = at[d]
        => c = d
Times == TypeOK /\ Sealed /\ Spends /\ Elicits
Inv == Times /\ Starts(config) /\ Locally /\ Recorded /\ Once

LEMMA InitInv == Init => Inv
<1> SUFFICES ASSUME Init PROVE Inv
    OBVIOUS
<1>1. \A c \in Calls : phase[c] = "new" /\ nonce[c] = NoNonce
    BY DEF Init
<1>2. \A n \in Nonces : ~sealed[n].open
    BY DEF Init, Unsealed
<1>3. Starts(config)
    BY DEF Init
<1>4. QED
    BY <1>1, <1>2, <1>3, InitTypes
    DEF Inv, Times, Sealed, Spends, Elicits, Locally, Recorded, Once, Taken, Spending

-----------------------------------------------------------------------------
(* When *)

LEMMA SealedStays ==
    ASSUME Times, [Next]_vars
    PROVE  \A n \in Nonces : sealed[n].open => sealed'[n] = sealed[n]
<1>1. ASSUME NEW c \in Calls, NEW p \in Processes, NEW n \in Nonces, Ask(c, p, n)
      PROVE  \A m \in Nonces : sealed[m].open => sealed'[m] = sealed[m]
    BY <1>1 DEF Ask, Times, TypeOK
<1>2. CASE sealed' = sealed
    BY <1>2
<1>3. QED
    BY <1>1, <1>2, Stepped
    DEF Told, PresentLocally, PresentToRecord, ElicitAnswer, RecordSet, RecordReply,
        RecordFails, Crash, Tick, vars

LEMMA NextSealed ==
    ASSUME Times, [Next]_vars
    PROVE  Sealed'
<1> USE TimeAssumption
<1>1. ASSUME NEW c \in Calls, NEW p \in Processes, NEW n \in Nonces, Ask(c, p, n)
      PROVE  Sealed'
    <2>1. PICK reading \in now..(now + Skew) :
              sealed' = [sealed EXCEPT ![n] =
                  [key |-> KeyOf(p), issued |-> reading, asked |-> now, open |-> TRUE]]
        BY <1>1 DEF Ask
    <2>2. now' = now
        BY <1>1 DEF Ask
    <2>3. QED  BY <2>1, <2>2 DEF Times, TypeOK, Sealed
<1>2. CASE sealed' = sealed /\ now' = now
    BY <1>2 DEF Times, Sealed
<1>3. CASE Tick
    BY <1>3 DEF Tick, Times, TypeOK, Sealed
<1>4. QED
    BY <1>1, <1>2, <1>3, Stepped
    DEF Told, PresentLocally, PresentToRecord, ElicitAnswer, RecordSet, RecordReply,
        RecordFails, Crash, vars

LEMMA NextElicits ==
    ASSUME Times, [Next]_vars
    PROVE  Elicits'
<1>1. ASSUME NEW c \in Calls, NEW p \in Processes, NEW n, NEW ph, Told(c, p, n, ph)
      PROVE  Elicits'
    BY <1>1, TakeIs DEF Told, Times, Elicits
<1>2. ASSUME NEW c \in Calls, NEW p \in Processes, NEW n \in Nonces, NEW ph,
             Take(c, p, n, ph), ph # "eliciting"
      PROVE  Elicits'
    BY <1>2, TakeIs DEF Times, Elicits
<1>3. ASSUME NEW c \in Calls, NEW ph \in Waiting \union Results, Settle(c, ph),
             ph # "eliciting"
      PROVE  Elicits'
    BY <1>3, SettleIs DEF Times, Elicits
<1>4. ASSUME NEW p \in Processes, Crash(p)
      PROVE  Elicits'
    BY <1>4 DEF Crash, Times, Elicits
<1>5. CASE UNCHANGED <<phase, nonce>>
    BY <1>5 DEF Times, Elicits
<1>6. ASSUME NEW c \in Calls, NEW p \in Processes, NEW n \in Nonces,
             Ask(c, p, n) \/ PresentLocally(c, p, n) \/ PresentToRecord(c, p, n)
      PROVE  Elicits'
    <2>1. \E ph \in {"input_required", "confirmation_spent", "ran", "mistyped", "spending"} :
              Take(c, p, n, ph)
        BY <1>6 DEF Ask, PresentLocally, PresentToRecord
    <2>2. QED  BY <2>1, <1>2
<1>7. ASSUME NEW c \in Calls,
             ElicitAnswer(c) \/ RecordSet(c) \/ RecordReply(c) \/ RecordFails(c)
      PROVE  Elicits'
    <2>1. \E ph \in {"ran", "mistyped", "declined", "won", "lost", "confirmation_spent",
                     "confirmation_unrecorded"} : Settle(c, ph)
        BY <1>7 DEF ElicitAnswer, RecordSet, RecordReply, RecordFails
    <2>2. QED  BY <2>1, <1>3, Phases
<1>8. QED
    BY <1>1, <1>4, <1>5, <1>6, <1>7, Stepped DEF Tick, vars, callVars

\* A state that is not expired by some reading of the clock is not by the real time.
LEMMA InTime ==
    ASSUME Times, NEW n \in Nonces,
           \E reading \in now..(now + Skew) : ~Expired(n, reading)
    PROVE  now <= sealed[n].issued + Ttl
BY TimeAssumption DEF Times, TypeOK, Expired

LEMMA NextSpends ==
    ASSUME Times, [Next]_vars
    PROVE  Spends'
<1> USE TimeAssumption DEF Times
<1>1. HasRecord' = HasRecord
    BY Stepped
    DEF HasRecord, Told, Ask, PresentLocally, PresentToRecord, ElicitAnswer, RecordSet,
        RecordReply, RecordFails, Crash, Tick, vars
<1>2. ASSUME NEW c \in Calls, NEW p \in Processes, NEW n, NEW ph, Take(c, p, n, ph),
             ph \notin {"spending", "won", "lost"}, UNCHANGED <<now, since>>
      PROVE  Spends'
    BY <1>1, <1>2, TakeIs, SealedStays DEF Spends, Spending
<1>3. ASSUME NEW c \in Calls, NEW p \in Processes, NEW n \in Nonces,
             Ask(c, p, n) \/ PresentLocally(c, p, n)
      PROVE  Spends'
    <2>1. \E ph \in {"input_required", "confirmation_spent", "ran", "mistyped"} :
              Take(c, p, n, ph)
        BY <1>3 DEF Ask, PresentLocally
    <2>2. UNCHANGED <<now, since>>
        BY <1>3 DEF Ask, PresentLocally
    <2>3. QED  BY <1>2, <2>1, <2>2
<1>4. ASSUME NEW c \in Calls, NEW p \in Processes, NEW n \in Nonces, PresentToRecord(c, p, n)
      PROVE  Spends'
    <2>1. /\ Take(c, p, n, "spending") /\ since' = [since EXCEPT ![c] = now]
          /\ HasRecord /\ sealed[n].open
          /\ UNCHANGED <<now, sealed>>
        BY <1>4 DEF PresentToRecord, Opens
    <2>2. now <= sealed[n].issued + Ttl
        BY <1>4, InTime DEF PresentToRecord
    <2>3. QED  BY <1>1, <2>1, <2>2, TakeIs DEF Spends, Spending, TypeOK
<1>5. ASSUME NEW c \in Calls, RecordSet(c)
      PROVE  Spends'
    <2>1. PICK ph \in {"won", "lost"} : Settle(c, ph)
        BY <1>5 DEF RecordSet
    <2>2. phase[c] = "spending" /\ UNCHANGED <<now, sealed>>
        BY <1>5 DEF RecordSet
    <2>3. QED  BY <1>1, <2>1, <2>2, SettleIs, Phases DEF Spends, Spending
<1>6. ASSUME NEW c \in Calls, ElicitAnswer(c) \/ RecordReply(c) \/ RecordFails(c)
      PROVE  Spends'
    <2>1. PICK ph \in {"ran", "mistyped", "declined", "confirmation_spent",
                       "confirmation_unrecorded"} : Settle(c, ph)
        BY <1>6 DEF ElicitAnswer, RecordReply, RecordFails
    <2>2. UNCHANGED <<now, sealed>>
        BY <1>6 DEF ElicitAnswer, RecordReply, RecordFails
    <2>3. QED  BY <1>1, <2>1, <2>2, SettleIs, Phases DEF Spends, Spending
<1>7. ASSUME NEW p \in Processes, Crash(p)
      PROVE  Spends'
    <2>1. \A c \in Calls : Spending(c)' =>
              Spending(c) /\ nonce'[c] = nonce[c] /\ since'[c] = since[c]
        BY <1>7, Phases DEF Crash, TypeOK, Spending
    <2>2. UNCHANGED <<now, sealed>>
        BY <1>7 DEF Crash
    <2>3. QED  BY <1>1, <2>1, <2>2 DEF Spends
<1>8. CASE Tick
    BY <1>1, <1>8 DEF Tick, callVars, Spends, Spending, TypeOK
<1>9. CASE UNCHANGED vars
    BY <1>9 DEF vars, callVars, Spends, Spending, HasRecord
<1>10. QED
    BY <1>2, <1>3, <1>4, <1>5, <1>6, <1>7, <1>8, <1>9, Stepped DEF Told

LEMMA NextTimes == Times /\ [Next]_vars => Times'
BY NextTypes, NextSealed, NextSpends, NextElicits DEF Times

-----------------------------------------------------------------------------
(***************************************************************************)
(* Who has a nonce.  Without a record it is the call that found it missing *)
(* from the set of its process; with one it is the call whose SET found no *)
(* key, and the grace keeps every later one from finding none.             *)
(***************************************************************************)

WinsHere(c, p, n) == PresentLocally(c, p, n) /\ n \notin spent[p]
WinsThere(c) == RecordSet(c) /\ record[nonce[c]] <= now
Was(c) == Taken(c) /\ nonce'[c] = nonce[c] /\ at'[c] = at[c]

LEMMA Ungiven == NoNonce \notin Nonces
BY KeyAssumption DEF NoNonce

LEMMA ToldTakes ==
    ASSUME Times, NEW c \in Calls, NEW p \in Processes, NEW n, NEW ph,
           Take(c, p, n, ph), ph \notin {"won", "ran", "mistyped"}
    PROVE  \A d \in Calls : Taken(d)' => Was(d)
BY TakeIs DEF Times, Taken, Was

LEMMA LocalTakes ==
    ASSUME Times, NEW c \in Calls, NEW p \in Processes, NEW n \in Nonces,
           PresentLocally(c, p, n)
    PROVE  \A d \in Calls : Taken(d)' => Was(d) \/ (d = c /\ WinsHere(c, p, n))
<1>1. CASE n \in spent[p]
    BY <1>1, ToldTakes DEF PresentLocally
<1>2. CASE n \notin spent[p]
    <2>1. PICK ph \in {"ran", "mistyped"} : Take(c, p, n, ph)
        BY <1>2 DEF PresentLocally
    <2>2. WinsHere(c, p, n)
        BY <1>2 DEF WinsHere
    <2>3. QED  BY <2>1, <2>2, TakeIs DEF Times, Taken, Was
<1>3. QED  BY <1>1, <1>2

LEMMA RecordTakes ==
    ASSUME Times, NEW c \in Calls, RecordSet(c)
    PROVE  \A d \in Calls : Taken(d)' => Was(d) \/ (d = c /\ WinsThere(c))
<1>1. CASE record[nonce[c]] > now
    <2>1. Settle(c, "lost")
        BY <1>1 DEF RecordSet
    <2>2. QED  BY <2>1, SettleIs, Phases DEF Times, Taken, Was
<1>2. CASE ~(record[nonce[c]] > now)
    <2>1. Settle(c, "won") /\ WinsThere(c)
        <3>1. nonce[c] \in Nonces
            BY DEF RecordSet, Times, Spends, Spending
        <3>2. record[nonce[c]] <= now
            BY <1>2, <3>1 DEF Times, TypeOK
        <3>3. QED  BY <1>2, <3>2 DEF RecordSet, WinsThere
    <2>2. QED  BY <2>1, SettleIs, Phases DEF Times, Taken, Was
<1>3. QED  BY <1>1, <1>2

LEMMA OtherTakes ==
    ASSUME Times, NEW c \in Calls, ElicitAnswer(c) \/ RecordReply(c) \/ RecordFails(c)
    PROVE  \A d \in Calls : Taken(d)' => Was(d)
<1>1. CASE ElicitAnswer(c)
    <2>1. PICK ph \in {"ran", "mistyped", "declined"} : Settle(c, ph)
        BY <1>1 DEF ElicitAnswer
    <2>2. nonce[c] \notin Nonces
        BY <1>1, Ungiven DEF ElicitAnswer, Times, Elicits
    <2>3. QED  BY <2>1, <2>2, SettleIs, Phases DEF Times, Taken, Was
<1>2. CASE RecordReply(c)
    <2>1. PICK ph \in {"ran", "mistyped", "confirmation_spent"} :
              Settle(c, ph) /\ (ph # "confirmation_spent" => phase[c] = "won")
        BY <1>2 DEF RecordReply
    <2>2. QED  BY <2>1, SettleIs, Phases DEF Times, Taken, Was
<1>3. CASE RecordFails(c)
    <2>1. Settle(c, "confirmation_unrecorded")
        BY <1>3 DEF RecordFails
    <2>2. QED  BY <2>1, SettleIs, Phases DEF Times, Taken, Was
<1>4. QED  BY <1>1, <1>2, <1>3

LEMMA TakenFrom ==
    ASSUME Times, [Next]_vars, NEW d \in Calls, Taken(d)'
    PROVE  \/ Was(d)
           \/ \E p \in Processes, n \in Nonces : WinsHere(d, p, n)
           \/ WinsThere(d)
<1>1. ASSUME NEW c \in Calls, NEW p \in Processes, NEW n, NEW ph, Told(c, p, n, ph)
      PROVE  Was(d)
    BY <1>1, ToldTakes DEF Told
<1>2. ASSUME NEW c \in Calls, NEW p \in Processes, NEW n \in Nonces,
             Ask(c, p, n) \/ PresentToRecord(c, p, n)
      PROVE  Was(d)
    BY <1>2, ToldTakes DEF Ask, PresentToRecord
<1>3. ASSUME NEW p \in Processes, Crash(p)
      PROVE  Was(d)
    BY <1>3, Phases DEF Crash, Times, TypeOK, Taken, Was
<1>4. CASE UNCHANGED callVars
    BY <1>4 DEF callVars, Taken, Was
<1>5. ASSUME NEW c \in Calls, NEW p \in Processes, NEW n \in Nonces,
             PresentLocally(c, p, n)
      PROVE  Was(d) \/ WinsHere(d, p, n)
    BY <1>5, LocalTakes
<1>6. ASSUME NEW c \in Calls,
             ElicitAnswer(c) \/ RecordSet(c) \/ RecordReply(c) \/ RecordFails(c)
      PROVE  Was(d) \/ WinsThere(d)
    BY <1>6, RecordTakes, OtherTakes
<1>7. QED
    BY <1>1, <1>2, <1>3, <1>4, <1>5, <1>6, Stepped DEF Tick, vars

\* What a call that wins found, and what it leaves behind.
LEMMA HereIs ==
    ASSUME Times, NEW d \in Calls, NEW p \in Processes, NEW n \in Nonces, WinsHere(d, p, n)
    PROVE  /\ ~HasRecord /\ Opens(p, n) /\ n \notin spent[p]
           /\ at'[d] = p /\ nonce'[d] = n
           /\ n \in spent'[p] /\ phase[d] = "new"
<1>1. /\ ~HasRecord /\ Opens(p, n) /\ n \notin spent[p]
      /\ spent' = [spent EXCEPT ![p] = @ \union {n}]
      /\ \E ph \in {"ran", "mistyped"} : Take(d, p, n, ph)
    BY DEF WinsHere, PresentLocally
<1>2. n \in spent'[p]
    BY <1>1 DEF Times, TypeOK
<1>3. QED  BY <1>1, <1>2, TakeIs DEF Times

LEMMA ThereIs ==
    ASSUME Times, NEW d \in Calls, WinsThere(d)
    PROVE  /\ HasRecord /\ nonce[d] \in Nonces /\ sealed[nonce[d]].open
           /\ phase[d] = "spending"
           /\ nonce' = nonce /\ at' = at
           /\ record'[nonce[d]] = now + Ttl + Grace
           /\ record[nonce[d]] < sealed[nonce[d]].asked + Ttl + Grace
<1> USE TimeAssumption
<1> DEFINE n == nonce[d]
<1>1. /\ HasRecord /\ n \in Nonces /\ sealed[n].open
      /\ since[d] <= sealed[n].issued + Ttl
      /\ now <= since[d] + SpendDelay
    BY DEF WinsThere, RecordSet, Times, Spends, Spending
<1>2. /\ phase[d] = "spending" /\ record[n] <= now
      /\ ~(record[n] > now)
    BY <1>1 DEF WinsThere, RecordSet, Times, TypeOK
<1>3. /\ Settle(d, "won")
      /\ record' = [record EXCEPT ![n] = now + Ttl + Grace]
    BY <1>2 DEF WinsThere, RecordSet
<1>4. sealed[n].issued <= sealed[n].asked + Skew
    BY <1>1 DEF Times, Sealed
<1>5. record[n] < sealed[n].asked + Ttl + Grace
    <2>1. /\ record[n] \in Nat /\ sealed[n].issued \in Nat /\ sealed[n].asked \in Nat
          /\ since[d] \in Nat /\ now \in Nat
        BY <1>1 DEF Times, TypeOK
    <2>2. QED  BY <1>1, <1>2, <1>4, <2>1, GraceAssumption
<1>6. record'[n] = now + Ttl + Grace
    BY <1>1, <1>3 DEF Times, TypeOK
<1>7. QED  BY <1>1, <1>2, <1>3, <1>5, <1>6 DEF Settle

-----------------------------------------------------------------------------
(* Only one *)

LEMMA ConfigStays == [Next]_vars => config' = config
BY Stepped
DEF Told, Ask, PresentLocally, PresentToRecord, ElicitAnswer, RecordSet, RecordReply,
    RecordFails, Crash, Tick, vars

LEMMA SpentStays ==
    ASSUME Times, [Next]_vars
    PROVE  \A p \in Processes : spent[p] \subseteq spent'[p]
<1>1. ASSUME NEW c \in Calls, NEW p \in Processes, NEW n \in Nonces, PresentLocally(c, p, n)
      PROVE  \A q \in Processes : spent[q] \subseteq spent'[q]
    BY <1>1 DEF PresentLocally, Times, TypeOK
<1>2. CASE spent' = spent
    BY <1>2
<1>3. QED
    BY <1>1, <1>2, Stepped
    DEF Told, Ask, PresentToRecord, ElicitAnswer, RecordSet, RecordReply, RecordFails,
        Crash, Tick, vars

LEMMA RecordStays ==
    ASSUME Times, [Next]_vars
    PROVE  \A n \in Nonces : record[n] <= record'[n]
<1> USE TimeAssumption DEF Times, TypeOK
<1>1. ASSUME NEW c \in Calls, RecordSet(c)
      PROVE  \A n \in Nonces : record[n] <= record'[n]
    <2>1. CASE record[nonce[c]] > now
        BY <1>1, <2>1 DEF RecordSet
    <2>2. CASE ~(record[nonce[c]] > now)
        BY <1>1, <2>2 DEF RecordSet
    <2>3. QED  BY <2>1, <2>2
<1>2. CASE record' = record
    BY <1>2
<1>3. QED
    BY <1>1, <1>2, Stepped
    DEF Told, Ask, PresentLocally, PresentToRecord, ElicitAnswer, RecordReply, RecordFails,
        Crash, Tick, vars

LEMMA NextLocally ==
    ASSUME Inv, [Next]_vars
    PROVE  Locally'
<1> SUFFICES ASSUME ~HasRecord', NEW c \in Calls, Taken(c)'
             PROVE  /\ at'[c] \in Processes /\ Opens(at[c], nonce[c])'
                    /\ nonce'[c] \in spent'[at'[c]]
    BY DEF Locally
<1>1. ~HasRecord
    BY ConfigStays DEF HasRecord
<1>2. \A p \in Processes, n \in Nonces : Opens(p, n) => Opens(p, n)'
    BY SealedStays, ConfigStays DEF Inv, Opens, KeyOf
<1>3. CASE Was(c)
    BY <1>1, <1>2, <1>3, SpentStays DEF Inv, Locally, Was, Taken
<1>4. CASE \E p \in Processes, n \in Nonces : WinsHere(c, p, n)
    BY <1>2, <1>4, HereIs DEF Inv
<1>5. CASE WinsThere(c)
    BY <1>1, <1>5, ThereIs DEF Inv
<1>6. QED  BY <1>3, <1>4, <1>5, TakenFrom DEF Inv

LEMMA NextRecorded ==
    ASSUME Inv, [Next]_vars
    PROVE  Recorded'
<1> USE TimeAssumption
<1> SUFFICES ASSUME HasRecord', NEW c \in Calls, Taken(c)'
             PROVE  /\ sealed'[nonce'[c]].open
                    /\ record'[nonce'[c]] >= sealed'[nonce'[c]].asked + Ttl + Grace
    BY DEF Recorded
<1>1. HasRecord
    BY ConfigStays DEF HasRecord
<1>2. CASE Was(c)
    <2>1. /\ nonce[c] \in Nonces /\ nonce'[c] = nonce[c]
          /\ sealed[nonce[c]].open
          /\ record[nonce[c]] >= sealed[nonce[c]].asked + Ttl + Grace
        BY <1>1, <1>2 DEF Inv, Recorded, Was, Taken
    <2>2. /\ sealed'[nonce[c]] = sealed[nonce[c]]
          /\ record[nonce[c]] <= record'[nonce[c]]
        BY <2>1, SealedStays, RecordStays DEF Inv
    <2>3. /\ record[nonce[c]] \in Nat /\ record'[nonce[c]] \in Nat
          /\ sealed[nonce[c]].asked \in Nat
        BY <2>1, NextTypes DEF Inv, Times, TypeOK
    <2>4. QED  BY <2>1, <2>2, <2>3
<1>3. CASE \E p \in Processes, n \in Nonces : WinsHere(c, p, n)
    BY <1>1, <1>3, HereIs DEF Inv
<1>4. CASE WinsThere(c)
    <2>1. /\ nonce[c] \in Nonces /\ nonce'[c] = nonce[c]
          /\ sealed[nonce[c]].open /\ sealed'[nonce[c]] = sealed[nonce[c]]
          /\ record'[nonce[c]] = now + Ttl + Grace
        BY <1>4, ThereIs, SealedStays DEF Inv
    <2>2. sealed[nonce[c]].asked <= now
        BY <2>1 DEF Inv, Times, Sealed
    <2>3. sealed[nonce[c]].asked \in Nat /\ now \in Nat
        BY <2>1 DEF Inv, Times, TypeOK
    <2>4. QED  BY <2>1, <2>2, <2>3
<1>5. QED  BY <1>2, <1>3, <1>4, TakenFrom DEF Inv

\* Whoever wins a nonce finds nobody who has it.
LEMMA NobodyElse ==
    ASSUME Inv, NEW c \in Calls, NEW d \in Calls, Taken(d)
    PROVE  /\ WinsThere(c) => nonce[d] # nonce[c]
           /\ \A p \in Processes, n \in Nonces :
                  WinsHere(c, p, n) => nonce[d] # n \/ at[d] # p
<1>1. ASSUME WinsThere(c), nonce[d] = nonce[c]
      PROVE  FALSE
    <2>1. /\ HasRecord /\ nonce[c] \in Nonces
          /\ record[nonce[c]] < sealed[nonce[c]].asked + Ttl + Grace
        BY <1>1, ThereIs DEF Inv
    <2>2. record[nonce[c]] >= sealed[nonce[c]].asked + Ttl + Grace
        BY <1>1, <2>1 DEF Inv, Recorded
    <2>3. record[nonce[c]] \in Nat /\ sealed[nonce[c]].asked \in Nat
        BY <2>1 DEF Inv, Times, TypeOK
    <2>4. QED  BY <2>1, <2>2, <2>3, TimeAssumption
<1>2. ASSUME NEW p \in Processes, NEW n \in Nonces, WinsHere(c, p, n),
             nonce[d] = n, at[d] = p
      PROVE  FALSE
    <2>1. ~HasRecord /\ n \notin spent[p]
        BY <1>2, HereIs DEF Inv
    <2>2. QED  BY <1>2, <2>1 DEF Inv, Locally
<1>3. QED  BY <1>1, <1>2

LEMMA NextOnce ==
    ASSUME Inv, [Next]_vars
    PROVE  Once'
<1> SUFFICES ASSUME NEW c \in Calls, NEW d \in Calls, Taken(c)', Taken(d)',
                    nonce'[c] = nonce'[d], HasRecord' \/ at'[c] = at'[d], c # d
             PROVE  FALSE
    BY DEF Once
<1>1. HasRecord' = HasRecord
    BY ConfigStays DEF HasRecord
<1> DEFINE Wins(e) == \/ \E p \in Processes, n \in Nonces : WinsHere(e, p, n)
                      \/ WinsThere(e)
<1>2. ASSUME NEW e \in Calls, NEW f \in Calls, Was(e), Wins(f),
             nonce'[e] = nonce'[f], HasRecord' \/ at'[e] = at'[f]
      PROVE  FALSE
    <2>1. CASE \E p \in Processes, n \in Nonces : WinsHere(f, p, n)
        <3>1. PICK p \in Processes, n \in Nonces : WinsHere(f, p, n)
            BY <2>1
        <3>2. ~HasRecord /\ at'[f] = p /\ nonce'[f] = n
            BY <3>1, HereIs DEF Inv
        <3>3. Taken(e) /\ nonce[e] = n /\ at[e] = p
            BY <1>1, <1>2, <3>2 DEF Was
        <3>4. QED  BY <3>1, <3>3, NobodyElse
    <2>2. CASE WinsThere(f)
        BY <1>2, <2>2, ThereIs, NobodyElse DEF Inv, Was
    <2>3. QED  BY <1>2, <2>1, <2>2
<1>3. CASE Was(c) /\ Was(d)
    BY <1>1, <1>3 DEF Inv, Once, Was
<1>4. CASE Wins(c) /\ Wins(d)
    <2>1. phase[c] \in {"new", "spending"} /\ phase[d] \in {"new", "spending"}
        BY <1>4, HereIs, ThereIs DEF Inv
    <2>2. \A e \in Calls \ {c} : phase'[e] = phase[e]
        <3>1. ASSUME NEW p \in Processes, NEW n \in Nonces, WinsHere(c, p, n)
              PROVE  \A e \in Calls \ {c} : phase'[e] = phase[e]
            BY <3>1, TakeIs DEF WinsHere, PresentLocally, Inv, Times
        <3>2. ASSUME WinsThere(c)
              PROVE  \A e \in Calls \ {c} : phase'[e] = phase[e]
            BY <3>2, SettleIs, Phases DEF WinsThere, RecordSet, Inv, Times
        <3>3. QED  BY <1>4, <3>1, <3>2
    <2>3. QED  BY <2>1, <2>2 DEF Taken
<1>5. QED
    BY <1>2, <1>3, <1>4, TakenFrom DEF Inv

LEMMA NextInv == Inv /\ [Next]_vars => Inv'
BY NextTimes, NextLocally, NextRecorded, NextOnce, ConfigStays DEF Inv, Starts

-----------------------------------------------------------------------------
(* What follows *)

LEMMA JudgedAreTaken ==
    \A n \in Nonces : \A c \in Judged(n) : c \in Calls /\ Taken(c) /\ nonce[c] = n
BY DEF Judged, Taken

\* No process honours a sealed state twice, in any environment a process starts in.
THEOREM OnceEach == Spec => []OncePerProcess
<1>1. Inv => OncePerProcess
    BY JudgedAreTaken DEF Inv, Once, OncePerProcess
<1>2. QED  BY InitInv, NextInv, <1>1, PTL DEF Spec

\* The first step of every tool says whether the tool can be repeated.
Telling == \A tool \in Tools : GateIdempotent(tool) => Repeatable(tool)

\* One call's answer is looked at, where it matters, and only of a state handed out.
OneSeen ==
    ~Repeatable(config.tool) => \A n \in Nonces : \A c, d \in Judged(n) : c = d
OnlyOpened == \A n \in Nonces : Judged(n) # {} => sealed[n].open

LEMMA Seen ==
    ASSUME Telling
    PROVE  Inv => OneSeen /\ OnlyOpened
<1>1. ASSUME Inv, ~Repeatable(config.tool), NEW n \in Nonces,
             NEW c \in Judged(n), NEW d \in Judged(n)
      PROVE  c = d
    <2>1. /\ c \in Calls /\ Taken(c) /\ nonce[c] = n
          /\ d \in Calls /\ Taken(d) /\ nonce[d] = n
        BY JudgedAreTaken
    <2>2. CASE HasRecord
        BY <1>1, <2>1, <2>2 DEF Inv, Once
    <2>3. CASE ~HasRecord
        <3>1. config.tool \in Tools
            BY <1>1 DEF Inv, Times, TypeOK
        <3>2. config.key = "ephemeral"
            BY <1>1, <2>3, <3>1 DEF Inv, Starts, HasRecord, Telling
        <3>3. Opens(at[c], n) /\ Opens(at[d], n)
            BY <1>1, <2>1, <2>3 DEF Inv, Locally
        <3>4. at[c] = at[d]
            BY <3>2, <3>3 DEF Opens, KeyOf
        <3>5. QED  BY <1>1, <2>1, <3>4 DEF Inv, Once
    <2>4. QED  BY <2>2, <2>3
<1>2. ASSUME Inv, NEW n \in Nonces, Judged(n) # {}
      PROVE  sealed[n].open
    <2>1. PICK c \in Judged(n) : c \in Calls /\ Taken(c) /\ nonce[c] = n
        BY <1>2, JudgedAreTaken
    <2>2. QED  BY <1>2, <2>1 DEF Inv, Locally, Recorded, Opens
<1>3. QED  BY <1>1, <1>2 DEF OneSeen, OnlyOpened

\* Where the first step of a tool says whether it can be repeated, a sealed state is good
\* for one answer, whatever the number of processes, their crashes and restarts, and the
\* delays and failures of the record.
THEOREM OnceInAll ==
    ASSUME Telling
    PROVE  Spec => []JudgedOnce
<1>1. Inv => JudgedOnce
    <2> SUFFICES ASSUME Inv, ~Repeatable(config.tool), NEW n \in Nonces
                 PROVE  Cardinality(Judged(n)) <= 1
        BY DEF JudgedOnce
    <2>1. CASE Judged(n) = {}
        BY <2>1, FS_EmptySet
    <2>2. CASE Judged(n) # {}
        <3>1. PICK c \in Judged(n) : TRUE
            BY <2>2
        <3>2. Judged(n) = {c}
            BY <3>1, Seen DEF OneSeen
        <3>3. Cardinality({c}) = 1
            BY FS_Singleton
        <3>4. QED  BY <3>2, <3>3
    <2>3. QED  BY <2>1, <2>2
<1>2. QED  BY InitInv, NextInv, <1>1, PTL DEF Spec

\* What was looked at stays looked at.
LEMMA JudgedStays ==
    ASSUME Times, [Next]_vars
    PROVE  \A n \in Nonces : Judged(n) \subseteq Judged(n)'
<1> SUFFICES ASSUME NEW d \in Calls, phase[d] \in {"ran", "mistyped"}
             PROVE  phase'[d] = phase[d] /\ nonce'[d] = nonce[d]
    BY DEF Judged
<1>1. ASSUME NEW c \in Calls, NEW p \in Processes, NEW n, NEW ph, Take(c, p, n, ph)
      PROVE  phase'[d] = phase[d] /\ nonce'[d] = nonce[d]
    BY <1>1, TakeIs DEF Times
<1>2. ASSUME NEW c \in Calls, NEW ph \in Waiting \union Results, Settle(c, ph),
             phase[c] \in Waiting
      PROVE  phase'[d] = phase[d] /\ nonce'[d] = nonce[d]
    BY <1>2, SettleIs DEF Times, Waiting
<1>3. ASSUME NEW c \in Calls,
             ElicitAnswer(c) \/ RecordSet(c) \/ RecordReply(c) \/ RecordFails(c)
      PROVE  phase'[d] = phase[d] /\ nonce'[d] = nonce[d]
    <2>1. /\ phase[c] \in Waiting
          /\ \E ph \in {"ran", "mistyped", "declined", "won", "lost", "confirmation_spent",
                        "confirmation_unrecorded"} : Settle(c, ph)
        BY <1>3 DEF ElicitAnswer, RecordSet, RecordReply, RecordFails, Waiting
    <2>2. QED  BY <2>1, <1>2, Phases
<1>4. ASSUME NEW c \in Calls, NEW p \in Processes, NEW n \in Nonces,
             Ask(c, p, n) \/ PresentLocally(c, p, n) \/ PresentToRecord(c, p, n)
      PROVE  phase'[d] = phase[d] /\ nonce'[d] = nonce[d]
    <2>1. \E ph : Take(c, p, n, ph)
        BY <1>4 DEF Ask, PresentLocally, PresentToRecord
    <2>2. QED  BY <2>1, <1>1
<1>5. ASSUME NEW p \in Processes, Crash(p)
      PROVE  phase'[d] = phase[d] /\ nonce'[d] = nonce[d]
    BY <1>5 DEF Crash, Times, TypeOK, Waiting
<1>6. CASE UNCHANGED callVars
    BY <1>6 DEF callVars
<1>7. QED
    BY <1>1, <1>3, <1>4, <1>5, <1>6, Stepped DEF Told, Tick, vars

LEMMA InTimeStep ==
    ASSUME Inv, [Next]_vars, NEW n \in Nonces, Judged(n)' # Judged(n)
    PROVE  now <= sealed[n].asked + Ttl + Skew + SpendDelay
<1> USE TimeAssumption
<1>1. PICK c \in Calls : c \in Judged(n)' /\ c \notin Judged(n)
    BY JudgedStays DEF Inv, Judged
<1>2. /\ nonce'[c] = n /\ phase'[c] \in {"ran", "mistyped"} /\ Taken(c)'
    BY <1>1 DEF Judged, Taken
<1>3. /\ sealed[n].issued \in Nat /\ sealed[n].asked \in Nat /\ now \in Nat
      /\ since[c] \in Nat
    BY DEF Inv, Times, TypeOK
<1>4. CASE Was(c)
    <2>1. phase[c] = "won" /\ nonce[c] = n
        BY <1>1, <1>2, <1>4 DEF Was, Taken, Judged
    <2>2. /\ sealed[n].open /\ since[c] <= sealed[n].issued + Ttl
          /\ now <= since[c] + SpendDelay
        BY <2>1 DEF Inv, Times, Spends, Spending
    <2>3. sealed[n].issued <= sealed[n].asked + Skew
        BY <2>2 DEF Inv, Times, Sealed
    <2>4. QED  BY <1>3, <2>2, <2>3
<1>5. CASE \E p \in Processes, m \in Nonces : WinsHere(c, p, m)
    <2>1. PICK p \in Processes : WinsHere(c, p, n)
        BY <1>2, <1>5, HereIs DEF Inv
    <2>2. sealed[n].open /\ now <= sealed[n].issued + Ttl
        BY <2>1, InTime DEF Inv, WinsHere, PresentLocally, Opens
    <2>3. sealed[n].issued <= sealed[n].asked + Skew
        BY <2>2 DEF Inv, Times, Sealed
    <2>4. QED  BY <1>3, <2>2, <2>3
<1>6. CASE WinsThere(c)
    <2>1. phase'[c] \in {"won", "lost"}
        <3>1. \E ph \in {"won", "lost"} : Settle(c, ph)
            BY <1>6 DEF WinsThere, RecordSet
        <3>2. QED  BY <3>1, SettleIs, Phases DEF Inv, Times
    <2>2. QED  BY <1>2, <2>1
<1>7. QED  BY <1>2, <1>4, <1>5, <1>6, TakenFrom DEF Inv

\* A sealed answer is not looked at later than its time to live after it was asked for, up
\* to the skew of the clocks and the delay of the record.
THEOREM InTimeOnly == Spec => JudgedInTime
<1>1. Inv /\ [Next]_vars =>
          [\A n \in Nonces : Judged(n)' # Judged(n) =>
               now <= sealed[n].asked + Ttl + Skew + SpendDelay]_vars
    BY InTimeStep
<1>2. QED  BY InitInv, NextInv, <1>1, PTL DEF Spec, JudgedInTime

-----------------------------------------------------------------------------
(***************************************************************************)
(* The gate implements ConfirmOnce, in which there are no processes.       *)
(***************************************************************************)

\* A step that is not a question and not the clock looks at one answer at most.
LEMMA OneAnswer ==
    ASSUME Inv, [Next]_vars,
           \A c \in Calls, p \in Processes, n \in Nonces : ~Ask(c, p, n), ~Tick
    PROVE  /\ UNCHANGED <<sealed, now>>
           /\ \E k : \A n \in Nonces \ {k} : Judged(n)' = Judged(n)
<1>1. UNCHANGED <<sealed, now>>
    BY Stepped
    DEF Told, PresentLocally, PresentToRecord, ElicitAnswer, RecordSet, RecordReply,
        RecordFails, Crash, vars
<1>2. ASSUME NEW c \in Calls, NEW k,
             nonce'[c] = k, nonce[c] = k \/ phase[c] = "new",
             \A d \in Calls \ {c} : phase'[d] = phase[d] /\ nonce'[d] = nonce[d]
      PROVE  \A n \in Nonces \ {k} : Judged(n)' = Judged(n)
    BY <1>2 DEF Judged
<1>3. ASSUME NEW c \in Calls, NEW p \in Processes, NEW n, NEW ph, Take(c, p, n, ph)
      PROVE  \A m \in Nonces \ {n} : Judged(m)' = Judged(m)
    BY <1>2, <1>3, TakeIs DEF Inv, Times
<1>4. ASSUME NEW c \in Calls, NEW ph \in Waiting \union Results, Settle(c, ph)
      PROVE  \A m \in Nonces \ {nonce[c]} : Judged(m)' = Judged(m)
    BY <1>2, <1>4, SettleIs DEF Inv, Times
<1>5. ASSUME NEW c \in Calls, NEW p \in Processes, NEW n, NEW ph, Told(c, p, n, ph)
      PROVE  \E k : \A m \in Nonces \ {k} : Judged(m)' = Judged(m)
    BY <1>3, <1>5 DEF Told
<1>6. ASSUME NEW c \in Calls, NEW p \in Processes, NEW n \in Nonces,
             PresentLocally(c, p, n) \/ PresentToRecord(c, p, n)
      PROVE  \E k : \A m \in Nonces \ {k} : Judged(m)' = Judged(m)
    <2>1. \E ph : Take(c, p, n, ph)
        BY <1>6 DEF PresentLocally, PresentToRecord
    <2>2. QED  BY <1>3, <2>1
<1>7. ASSUME NEW c \in Calls,
             ElicitAnswer(c) \/ RecordSet(c) \/ RecordReply(c) \/ RecordFails(c)
      PROVE  \E k : \A m \in Nonces \ {k} : Judged(m)' = Judged(m)
    <2>1. \E ph \in {"ran", "mistyped", "declined", "won", "lost", "confirmation_spent",
                     "confirmation_unrecorded"} : Settle(c, ph)
        BY <1>7 DEF ElicitAnswer, RecordSet, RecordReply, RecordFails
    <2>2. QED  BY <1>4, <2>1, Phases
<1>8. ASSUME NEW p \in Processes, Crash(p)
      PROVE  \E k : \A m \in Nonces \ {k} : Judged(m)' = Judged(m)
    <2>1. \A d \in Calls : nonce'[d] = nonce[d]
        BY <1>8 DEF Crash
    <2>2. \A d \in Calls : (phase'[d] \in {"ran", "mistyped"}) <=> (phase[d] \in {"ran", "mistyped"})
        BY <1>8 DEF Crash, Inv, Times, TypeOK, Waiting
    <2>3. ASSUME NEW m  PROVE Judged(m)' = Judged(m)
        <3>1. \A d \in Calls : (nonce'[d] = m) <=> (nonce[d] = m)
            BY <2>1
        <3>2. QED  BY <2>2, <3>1 DEF Judged
    <2>4. QED  BY <2>3
<1>9. CASE UNCHANGED vars
    BY <1>9 DEF vars, callVars, Judged
<1>10. QED  BY <1>1, <1>5, <1>6, <1>7, <1>8, <1>9, Stepped

LEMMA AskImplements ==
    ASSUME Inv, OnlyOpened,
           NEW c \in Calls, NEW p \in Processes, NEW n \in Nonces, Ask(c, p, n)
    PROVE  Promise!Question(n)
<1>1. /\ ~sealed[n].open /\ now' = now /\ config' = config
      /\ \E reading \in now..(now + Skew) :
            sealed' = [sealed EXCEPT ![n] =
                [key |-> KeyOf(p), issued |-> reading, asked |-> now, open |-> TRUE]]
    BY DEF Ask
<1>2. /\ sealed'[n].asked = now /\ sealed'[n].open
      /\ \A m \in Nonces \ {n} : sealed'[m] = sealed[m]
    BY <1>1 DEF Inv, Times, TypeOK
<1>3. \A m \in Nonces : Judged(m)' = Judged(m)
    <2>1. Take(c, p, n, "input_required")
        BY DEF Ask
    <2>2. /\ phase[c] = "new" /\ phase'[c] = "input_required"
          /\ \A d \in Calls \ {c} : phase'[d] = phase[d] /\ nonce'[d] = nonce[d]
        BY <2>1, TakeIs DEF Inv, Times
    <2>3. QED  BY <2>2 DEF Judged
<1>4. Judged(n) = {}
    BY <1>1 DEF OnlyOpened
<1>5. Cardinality({}) = 0
    BY FS_EmptySet
<1> DEFINE asked == [m \in Nonces |-> sealed[m].asked]
           answers == [m \in Nonces |->
                          IF Repeatable(config.tool) THEN 0 ELSE Cardinality(Judged(m))]
           unanswered == {m \in Nonces :
                              sealed[m].open /\ (Repeatable(config.tool) \/ Judged(m) = {})}
<1>6. answers' = answers /\ answers[n] = 0
    BY <1>1, <1>3, <1>4, <1>5
<1>7. asked' = [asked EXCEPT ![n] = now]
    BY <1>2
<1>8. n \notin unanswered /\ unanswered' = unanswered \union {n}
    BY <1>1, <1>2, <1>3, <1>4
<1> HIDE DEF asked, answers, unanswered
<1>9. /\ n \notin unanswered /\ answers[n] = 0
      /\ asked' = [asked EXCEPT ![n] = now] /\ unanswered' = unanswered \union {n}
      /\ now' = now /\ answers' = answers
    BY <1>1, <1>6, <1>7, <1>8
<1>10. QED  BY <1>9 DEF Promise!Question, asked, answers, unanswered

\* A gate with a tool that may not be repeated keeps the promise; of any other tool, nothing
\* is promised but the questions.
THEOREM PromiseKept ==
    ASSUME Telling
    PROVE  Spec => KeepsPromise
<1>1. Init => Promise!Init
    <2> SUFFICES ASSUME Init PROVE Promise!Init
        OBVIOUS
    <2>1. \A n \in Nonces : Judged(n) = {}
        BY DEF Init, Judged
    <2>2. \A n \in Nonces : sealed[n].asked = 0 /\ ~sealed[n].open
        BY DEF Init, Unsealed
    <2>3. now = 0
        BY DEF Init
    <2>4. QED  BY <2>1, <2>2, <2>3, FS_EmptySet DEF Promise!Init
<1>2. ASSUME Inv, [Next]_vars, OneSeen', OnlyOpened',
             \A c \in Calls, p \in Processes, n \in Nonces : ~Ask(c, p, n), ~Tick
      PROVE  [Promise!Next]_(Promise!vars)
    <2>1. UNCHANGED <<sealed, now, config>>
        BY <1>2, OneAnswer, ConfigStays
    <2>2. PICK k : \A n \in Nonces \ {k} : Judged(n)' = Judged(n)
        BY <1>2, OneAnswer
    <2> DEFINE asked == [m \in Nonces |-> sealed[m].asked]
               answers == [m \in Nonces |->
                              IF Repeatable(config.tool) THEN 0 ELSE Cardinality(Judged(m))]
               unanswered == {m \in Nonces : sealed[m].open
                                  /\ (Repeatable(config.tool) \/ Judged(m) = {})}
    <2>3. CASE Repeatable(config.tool) \/ \A n \in Nonces : Judged(n)' = Judged(n)
        <3>1. asked' = asked /\ answers' = answers /\ unanswered' = unanswered
            BY <2>1, <2>3
        <3> HIDE DEF asked, answers, unanswered
        <3>2. UNCHANGED <<now, asked, answers, unanswered>>
            BY <2>1, <3>1
        <3>3. QED  BY <3>2 DEF Promise!vars, asked, answers, unanswered
    <2>4. CASE ~Repeatable(config.tool) /\ k \in Nonces /\ Judged(k)' # Judged(k)
        <3>1. PICK c \in Judged(k)' : c \notin Judged(k)
            BY <1>2, <2>4, JudgedStays DEF Inv
        <3>2. Judged(k)' = {c}
            BY <1>2, <2>1, <2>4, <3>1 DEF OneSeen
        <3>3. Judged(k) = {}
            BY <1>2, <2>4, <3>1, <3>2, JudgedStays DEF Inv
        <3>4. sealed[k].open
            BY <1>2, <2>1, <2>4, <3>1 DEF OnlyOpened
        <3>5. now <= sealed[k].asked + (Ttl + Skew + SpendDelay)
            <4>1. now <= sealed[k].asked + Ttl + Skew + SpendDelay
                BY <1>2, <2>4, InTimeStep
            <4>2. sealed[k].asked \in Nat
                BY <1>2, <2>4 DEF Inv, Times, TypeOK
            <4>3. QED  BY <4>1, <4>2, TimeAssumption
        <3>6. Cardinality({c}) = 1
            BY FS_Singleton
        <3>7. asked' = asked /\ asked[k] = sealed[k].asked
            BY <2>1, <2>4
        <3>8. answers' = [answers EXCEPT ![k] = 1]
            BY <2>1, <2>2, <2>4, <3>2, <3>6
        <3>9. k \in unanswered /\ unanswered' = unanswered \ {k}
            BY <2>1, <2>2, <2>4, <3>2, <3>3, <3>4
        <3> HIDE DEF asked, answers, unanswered
        <3>10. /\ k \in unanswered /\ now <= asked[k] + (Ttl + Skew + SpendDelay)
               /\ answers' = [answers EXCEPT ![k] = 1]
               /\ unanswered' = unanswered \ {k}
               /\ now' = now /\ asked' = asked
            BY <2>1, <3>5, <3>7, <3>8, <3>9
        <3>11. Promise!Answer(k)
            BY <3>10 DEF Promise!Answer, asked, answers, unanswered
        <3>12. QED  BY <2>4, <3>11 DEF Promise!Next
    <2>5. QED  BY <2>2, <2>3, <2>4
<1>3. ASSUME Inv, Tick
      PROVE  Promise!Pass
    <2>1. UNCHANGED <<sealed, config, phase, nonce>> /\ now < Horizon /\ now' = now + 1
        BY <1>3 DEF Tick, callVars
    <2>2. \A n : Judged(n)' = Judged(n)
        BY <2>1 DEF Judged
    <2>3. QED  BY <2>1, <2>2 DEF Promise!Pass
<1>4. Inv /\ OnlyOpened /\ OneSeen' /\ OnlyOpened' /\ [Next]_vars
          => [Promise!Next]_(Promise!vars)
    BY <1>2, <1>3, AskImplements DEF Promise!Next
<1>5. Inv => OneSeen /\ OnlyOpened
    BY Seen
<1>6. QED  BY InitInv, NextInv, <1>1, <1>4, <1>5, PTL DEF Spec, KeepsPromise, Promise!Spec
=============================================================================
