-------------------------- MODULE CallBudgetProofs --------------------------
(***************************************************************************)
(* Proofs about CallBudget, for every set of tools and calls and every     *)
(* budget: the type invariant, that the slot count is the calls in flight  *)
(* and stays within `max_concurrent`, and that no minute holds more calls  *)
(* than `calls_per_minute`.                                                *)
(***************************************************************************)
EXTENDS CallBudget, FiniteSetTheorems, WellFoundedInduction, TLAPS

LEMMA BudgetsAreNumbers ==
    ASSUME NEW t \in Budgeted
    PROVE  /\ t \in Tools
           /\ Budgets[t].calls_per_minute \in Nat
           /\ Budgets[t].daily_call_budget \in Nat
           /\ Budgets[t].max_concurrent \in Nat
<1>1. Budgets[t] \in Budget  BY BudgetAssumption DEF Budgeted
<1>2. t \in Tools  BY BudgetAssumption DEF Budgeted
<1>3. QED  BY <1>1, <1>2 DEF Budget

LEMMA WindowType ==
    ASSUME TypeOK, NEW t \in Budgeted
    PROVE  Window(t, now) \in [opened : Int, spent : Nat]
<1>1. daily[t] \in [opened : Int, spent : Nat]  BY DEF TypeOK
<1>2. now \in Int  BY DEF TypeOK
<1>3. QED  BY <1>1, <1>2 DEF Window

-----------------------------------------------------------------------------
(***************************************************************************)
(* Types.                                                                  *)
(***************************************************************************)

LEMMA InitTypeOK == Init => TypeOK
<1>1. Unopened \in [opened : Int, spent : Nat]  BY ClockAssumption DEF Unopened
<1>2. QED  BY <1>1 DEF Init, TypeOK

LEMMA NextTypeOK == TypeOK /\ [Next]_vars => TypeOK'
<1> SUFFICES ASSUME TypeOK, [Next]_vars PROVE TypeOK'
    OBVIOUS
<1>1. ASSUME NEW c \in Calls, Admit(c) PROVE TypeOK'
    <2> DEFINE t == ToolOf[c]
    <2>1. now \in Nat /\ now' = now  BY <1>1 DEF TypeOK, Admit
    <2>2. /\ phase' \in [Calls -> {"new", "running", "done", "refused"}]
          /\ at' \in [Calls -> Nat]
          /\ served' \subseteq Calls
        BY <1>1 DEF TypeOK, Admit
    <2>3. /\ recent' \in [Budgeted -> SUBSET Calls]
          /\ daily' \in [Budgeted -> [opened : Int, spent : Nat]]
          /\ active' \in [Budgeted -> Nat]
        <3>1. CASE t \in Budgeted
            <4>1. Recent(t, now) \union {c} \in SUBSET Calls
                BY <1>1, <3>1 DEF TypeOK, Recent
            <4>2. Charged(Window(t, now)) \in [opened : Int, spent : Nat]
                BY <3>1, WindowType DEF Charged
            <4>3. active[t] + 1 \in Nat  BY <3>1 DEF TypeOK
            <4>4. /\ recent' = [recent EXCEPT ![t] = Recent(t, now) \union {c}]
                  /\ daily' = [daily EXCEPT ![t] = Charged(Window(t, now))]
                  /\ active' = [active EXCEPT ![t] = active[t] + 1]
                BY <1>1, <3>1 DEF Admit
            <4>5. QED  BY <4>1, <4>2, <4>3, <4>4 DEF TypeOK
        <3>2. CASE t \notin Budgeted
            BY <1>1, <3>2 DEF Admit, TypeOK, counters
        <3>3. QED  BY <3>1, <3>2
    <2>4. QED  BY <2>1, <2>2, <2>3 DEF TypeOK
<1>2. ASSUME NEW c \in Calls, Refuse(c) PROVE TypeOK'
    BY <1>2 DEF TypeOK, Refuse, counters
<1>3. ASSUME NEW c \in Calls, Release(c) PROVE TypeOK'
    BY <1>3 DEF TypeOK, Release
<1>4. CASE Restart
    <2>1. Unopened \in [opened : Int, spent : Nat]  BY ClockAssumption DEF Unopened
    <2>2. QED  BY <1>4, <2>1 DEF TypeOK, Restart
<1>5. CASE Tick
    BY <1>5 DEF TypeOK, Tick, counters
<1>6. CASE UNCHANGED vars
    BY <1>6 DEF TypeOK, vars, counters
<1>7. QED  BY <1>1, <1>2, <1>3, <1>4, <1>5, <1>6 DEF Next

\* Every variable of the budgets keeps its type.
THEOREM TypeCorrect == Spec => []TypeOK
<1>1. QED  BY InitTypeOK, NextTypeOK, PTL DEF Spec
-----------------------------------------------------------------------------
(***************************************************************************)
(* What the counters stand for.  The calls admitted are finitely many, all *)
(* stamped in the past; every running call is one of them; and the stamps  *)
(* kept for a tool are its own and miss none of the last minute.           *)
(***************************************************************************)

Admitted ==
    /\ IsFiniteSet(served)
    /\ \A c \in Calls : phase[c] = "running" => c \in served
    /\ \A c \in Calls : phase[c] = "new" => c \notin served
    /\ \A c \in served : at[c] <= now

Stamps ==
    \A t \in Budgeted :
        /\ recent[t] \subseteq ServedFor(t)
        /\ \A c \in ServedFor(t) : now - at[c] < Minute => c \in recent[t]

LEMMA InitBookkeeping == Init => Admitted /\ Stamps
<1>1. Init => Admitted  BY FS_EmptySet DEF Init, Admitted
<1>2. Init => Stamps  BY DEF Init, Stamps, ServedFor
<1>3. QED  BY <1>1, <1>2

LEMMA NextAdmitted == TypeOK /\ Admitted /\ [Next]_vars => Admitted'
<1> SUFFICES ASSUME TypeOK, Admitted, [Next]_vars PROVE Admitted'
    OBVIOUS
<1>1. ASSUME NEW c \in Calls, Admit(c) PROVE Admitted'
    <2>1. IsFiniteSet(served')  BY <1>1, FS_AddElement DEF Admit, Admitted
    <2>2. /\ phase' = [phase EXCEPT ![c] = "running"]
          /\ at' = [at EXCEPT ![c] = now]
          /\ served' = served \union {c}
          /\ now' = now
        BY <1>1 DEF Admit
    <2>3. QED  BY <2>1, <2>2 DEF Admitted, TypeOK
<1>2. ASSUME NEW c \in Calls, Refuse(c) PROVE Admitted'
    BY <1>2 DEF Admitted, TypeOK, Refuse, counters
<1>3. ASSUME NEW c \in Calls, Release(c) PROVE Admitted'
    BY <1>3 DEF Admitted, TypeOK, Release
<1>4. CASE Restart
    <2>1. served' = {} /\ \A c \in Calls : phase'[c] # "running"
        BY <1>4 DEF Restart, TypeOK
    <2>2. QED  BY <2>1, FS_EmptySet DEF Admitted
<1>5. CASE Tick
    BY <1>5 DEF Admitted, TypeOK, Tick, counters
<1>6. CASE UNCHANGED vars
    BY <1>6 DEF Admitted, vars, counters
<1>7. QED  BY <1>1, <1>2, <1>3, <1>4, <1>5, <1>6 DEF Next

LEMMA NextStamps == TypeOK /\ Admitted /\ Stamps /\ [Next]_vars => Stamps'
<1> SUFFICES ASSUME TypeOK, Admitted, Stamps, [Next]_vars PROVE Stamps'
    OBVIOUS
<1>1. ASSUME NEW c \in Calls, Admit(c) PROVE Stamps'
    <2>1. /\ phase[c] = "new" /\ c \notin served
          /\ at' = [at EXCEPT ![c] = now]
          /\ served' = served \union {c}
          /\ now' = now
        BY <1>1 DEF Admit, Admitted
    <2> SUFFICES ASSUME NEW t \in Budgeted
                 PROVE  /\ recent'[t] \subseteq ServedFor(t)'
                        /\ \A d \in ServedFor(t)' : now' - at'[d] < Minute => d \in recent'[t]
        BY DEF Stamps
    <2>2. \A d \in served : at'[d] = at[d]  BY <2>1 DEF TypeOK
    <2>3. CASE t = ToolOf[c]
        <3>1. recent'[t] = Recent(t, now) \union {c}
            BY <1>1, <2>3 DEF Admit, TypeOK
        <3>2. ServedFor(t)' = ServedFor(t) \union {c}
            BY <2>1, <2>3 DEF ServedFor
        <3>3. \A d \in ServedFor(t) : d \in served /\ d \in Calls
            BY DEF ServedFor, TypeOK
        <3>4. QED  BY <2>1, <2>2, <3>1, <3>2, <3>3 DEF Stamps, Recent
    <2>4. CASE t # ToolOf[c]
        <3>1. recent'[t] = recent[t]
            BY <1>1, <2>4 DEF Admit, TypeOK, counters
        <3>2. ServedFor(t)' = ServedFor(t)
            BY <2>1, <2>4 DEF ServedFor
        <3>3. \A d \in ServedFor(t) : d \in served
            BY DEF ServedFor
        <3>4. QED  BY <2>1, <2>2, <3>1, <3>2, <3>3 DEF Stamps
    <2>5. QED  BY <2>3, <2>4
<1>2. ASSUME NEW c \in Calls, Refuse(c) PROVE Stamps'
    BY <1>2 DEF Stamps, ServedFor, Refuse, counters
<1>3. ASSUME NEW c \in Calls, Release(c) PROVE Stamps'
    BY <1>3 DEF Stamps, ServedFor, Release
<1>4. CASE Restart
    BY <1>4 DEF Stamps, ServedFor, Restart
<1>5. CASE Tick
    <2>1. now' = now + 1 /\ UNCHANGED <<at, served, recent>>
        BY <1>5 DEF Tick, counters
    <2>2. \A t \in Budgeted : \A c \in ServedFor(t) :
            now' - at[c] < Minute => now - at[c] < Minute
        BY <2>1, ClockAssumption DEF ServedFor, TypeOK
    <2>3. QED  BY <2>1, <2>2 DEF Stamps, ServedFor
<1>6. CASE UNCHANGED vars
    BY <1>6 DEF Stamps, ServedFor, vars, counters
<1>7. QED  BY <1>1, <1>2, <1>3, <1>4, <1>5, <1>6 DEF Next

-----------------------------------------------------------------------------
(***************************************************************************)
(* The slots.                                                              *)
(***************************************************************************)

SlotBound ==
    \A t \in Budgeted : Budgets[t].max_concurrent > 0 =>
        active[t] <= Budgets[t].max_concurrent

LEMMA InFlightFinite ==
    ASSUME Admitted, NEW t
    PROVE  IsFiniteSet(InFlight(t)) /\ Cardinality(InFlight(t)) \in Nat
<1>1. InFlight(t) \in SUBSET served  BY DEF Admitted, InFlight
<1>2. IsFiniteSet(InFlight(t))  BY <1>1, FS_Subset DEF Admitted
<1>3. QED  BY <1>2, FS_CardinalityType

LEMMA InitSlots == Init => SlotsMatchCalls /\ SlotBound
<1>1. Init => \A t \in Budgeted : InFlight(t) = {} /\ active[t] = 0
    BY DEF Init, InFlight
<1>2. Init => SlotsMatchCalls  BY <1>1, FS_EmptySet DEF SlotsMatchCalls
<1>3. Init => SlotBound  BY <1>1, BudgetsAreNumbers DEF SlotBound
<1>4. QED  BY <1>2, <1>3

LEMMA NextSlots ==
    TypeOK /\ Admitted /\ SlotsMatchCalls /\ SlotBound /\ [Next]_vars
        => SlotsMatchCalls' /\ SlotBound'
<1> SUFFICES ASSUME TypeOK, Admitted, SlotsMatchCalls, SlotBound, [Next]_vars
             PROVE  SlotsMatchCalls' /\ SlotBound'
    OBVIOUS
<1> DEFINE Kept(t) == /\ active'[t] = Cardinality(InFlight(t)')
                      /\ Budgets[t].max_concurrent > 0 =>
                            active'[t] <= Budgets[t].max_concurrent
<1>s. SUFFICES ASSUME NEW t \in Budgeted PROVE Kept(t)
    BY DEF SlotsMatchCalls, SlotBound
<1>a. /\ active[t] = Cardinality(InFlight(t))
      /\ active[t] \in Nat
      /\ Budgets[t].max_concurrent > 0 => active[t] <= Budgets[t].max_concurrent
      /\ Budgets[t].max_concurrent \in Nat
    BY BudgetsAreNumbers DEF SlotsMatchCalls, SlotBound, TypeOK
<1>u. ASSUME active'[t] = active[t], InFlight(t)' = InFlight(t) PROVE Kept(t)
    BY <1>a, <1>u
<1> HIDE DEF Kept
<1>1. ASSUME NEW c \in Calls, Admit(c) PROVE Kept(t)
    <2>1. phase[c] = "new" /\ phase' = [phase EXCEPT ![c] = "running"]
        BY <1>1 DEF Admit
    <2>2. CASE t = ToolOf[c]
        <3>1. InFlight(t)' = InFlight(t) \union {c} /\ c \notin InFlight(t)
            BY <2>1, <2>2 DEF InFlight, TypeOK
        <3>2. Cardinality(InFlight(t)') = Cardinality(InFlight(t)) + 1
            BY <3>1, InFlightFinite, FS_AddElement
        <3>3. active'[t] = active[t] + 1
            BY <1>1, <2>2 DEF Admit, TypeOK
        <3>4. ~SlotsTaken(t)
            BY <1>1, <2>2 DEF Admit, Limit
        <3>5. QED  BY <1>a, <3>2, <3>3, <3>4 DEF SlotsTaken, Kept
    <2>3. CASE t # ToolOf[c]
        <3>1. InFlight(t)' = InFlight(t)  BY <2>1, <2>3 DEF InFlight, TypeOK
        <3>2. active'[t] = active[t]  BY <1>1, <2>3 DEF Admit, TypeOK, counters
        <3>3. QED  BY <1>u, <3>1, <3>2
    <2>4. QED  BY <2>2, <2>3
<1>2. ASSUME NEW c \in Calls, Refuse(c) PROVE Kept(t)
    <2>1. InFlight(t)' = InFlight(t)  BY <1>2 DEF Refuse, InFlight, TypeOK
    <2>2. active'[t] = active[t]  BY <1>2 DEF Refuse, counters
    <2>3. QED  BY <1>u, <2>1, <2>2
<1>3. ASSUME NEW c \in Calls, Release(c) PROVE Kept(t)
    <2>1. phase[c] = "running" /\ phase' = [phase EXCEPT ![c] = "done"]
        BY <1>3 DEF Release
    <2>2. CASE t = ToolOf[c]
        <3>1. InFlight(t)' = InFlight(t) \ {c} /\ c \in InFlight(t)
            BY <2>1, <2>2 DEF InFlight, TypeOK
        <3>2. Cardinality(InFlight(t)') = Cardinality(InFlight(t)) - 1
            BY <3>1, InFlightFinite, FS_RemoveElement
        <3>3. Cardinality(InFlight(t)) # 0
            BY <3>1, InFlightFinite, FS_EmptySet
        <3>4. active'[t] = IF active[t] > 0 THEN active[t] - 1 ELSE 0
            BY <1>3, <2>2 DEF Release, TypeOK
        <3>5. QED  BY <1>a, <3>2, <3>3, <3>4 DEF Kept
    <2>3. CASE t # ToolOf[c]
        <3>1. InFlight(t)' = InFlight(t)  BY <2>1, <2>3 DEF InFlight, TypeOK
        <3>2. active'[t] = active[t]  BY <1>3, <2>3 DEF Release, TypeOK
        <3>3. QED  BY <1>u, <3>1, <3>2
    <2>4. QED  BY <2>2, <2>3
<1>4. CASE Restart
    <2>1. InFlight(t)' = {}  BY <1>4 DEF Restart, InFlight, TypeOK
    <2>2. active'[t] = 0  BY <1>4 DEF Restart
    <2>3. QED  BY <1>a, <2>1, <2>2, FS_EmptySet DEF Kept
<1>5. CASE Tick
    BY <1>5, <1>u DEF Tick, InFlight, counters
<1>6. CASE UNCHANGED vars
    BY <1>6, <1>u DEF vars, InFlight, counters
<1>7. QED  BY <1>1, <1>2, <1>3, <1>4, <1>5, <1>6 DEF Next
-----------------------------------------------------------------------------
(***************************************************************************)
(* Stretches of time.                                                      *)
(***************************************************************************)

\* The calls of a tool that were let through from `from` up to `to`.
Stretch(t, from, to) == {c \in ServedFor(t) : from <= at[c] /\ at[c] < to}

LEMMA ServedForFinite ==
    ASSUME Admitted, NEW t, NEW S \in SUBSET ServedFor(t)
    PROVE  IsFiniteSet(S) /\ Cardinality(S) \in Nat
<1>1. S \in SUBSET served  BY DEF ServedFor
<1>2. IsFiniteSet(S)  BY <1>1, FS_Subset DEF Admitted
<1>3. QED  BY <1>2, FS_CardinalityType

\* An admission adds its call to the stretches of its tool that hold `now`.
LEMMA AdmitStretch ==
    ASSUME TypeOK, Admitted, NEW c \in Calls, Admit(c),
           NEW t, NEW from \in Int, NEW to \in Int
    PROVE  Stretch(t, from, to)' =
                IF t = ToolOf[c] /\ from <= now /\ now < to
                THEN Stretch(t, from, to) \union {c}
                ELSE Stretch(t, from, to)
<1>1. /\ c \notin served
      /\ at' = [at EXCEPT ![c] = now]
      /\ served' = served \union {c}
    BY DEF Admit, Admitted
<1>2. at'[c] = now /\ \A d \in served : d \in Calls /\ at'[d] = at[d]
    BY <1>1 DEF TypeOK
<1>3. QED  BY <1>1, <1>2 DEF Stretch, ServedFor

LEMMA SameStretch ==
    ASSUME UNCHANGED <<at, served>>, NEW t, NEW from, NEW to
    PROVE  Stretch(t, from, to)' = Stretch(t, from, to)
BY DEF Stretch, ServedFor

\* Steps that let no call through either leave the calls alone or, a restart,
\* forget all of them.
LEMMA NoAdmission ==
    ASSUME [Next]_vars, \A c \in Calls : ~Admit(c)
    PROVE  UNCHANGED <<at, served, daily>> \/ Restart
BY DEF Next, Refuse, Release, Tick, vars, counters

-----------------------------------------------------------------------------
(***************************************************************************)
(* The minute.                                                             *)
(***************************************************************************)

EveryMinute ==
    \A t \in Budgeted : Budgets[t].calls_per_minute > 0 =>
        \A w \in Int :
            Cardinality(Stretch(t, w, w + Minute)) <= Budgets[t].calls_per_minute

LEMMA InitMinute == Init => EveryMinute
<1>1. Init => \A t, w : Stretch(t, w, w + Minute) = {}
    BY DEF Init, Stretch, ServedFor
<1>2. QED  BY <1>1, FS_EmptySet, BudgetsAreNumbers DEF EveryMinute

LEMMA NextMinute ==
    TypeOK /\ Admitted /\ Stamps /\ EveryMinute /\ [Next]_vars => EveryMinute'
<1> SUFFICES ASSUME TypeOK, Admitted, Stamps, EveryMinute, [Next]_vars,
                    NEW t \in Budgeted, Budgets[t].calls_per_minute > 0,
                    NEW w \in Int
             PROVE  Cardinality(Stretch(t, w, w + Minute)') <= Budgets[t].calls_per_minute
    BY DEF EveryMinute
<1> DEFINE limit == Budgets[t].calls_per_minute
           kept == Recent(t, now)
           calls == Stretch(t, w, w + Minute)
<1>1. limit \in Nat  BY BudgetsAreNumbers
<1>2. Cardinality(calls) <= limit  BY DEF EveryMinute
<1>3. w + Minute \in Int  BY ClockAssumption
<1>4. ASSUME NEW c \in Calls, Admit(c) PROVE Cardinality(calls') <= limit
    <2>1. CASE t = ToolOf[c] /\ w <= now /\ now < w + Minute
        <3>1. calls' = calls \union {c}
            BY <1>3, <1>4, <2>1, AdmitStretch
        <3>2. \A d \in calls : d \in ServedFor(t) /\ now - at[d] < Minute
            BY <2>1, ClockAssumption DEF Stretch, ServedFor, TypeOK
        <3>3. calls \in SUBSET kept  BY <3>2 DEF Stamps, Recent
        <3>4. kept \in SUBSET ServedFor(t)  BY DEF Stamps, Recent
        <3>5. /\ IsFiniteSet(kept) /\ Cardinality(kept) \in Nat
              /\ IsFiniteSet(calls) /\ Cardinality(calls) \in Nat
            BY <3>4, ServedForFinite DEF Stretch
        <3>6. Cardinality(calls) <= Cardinality(kept)
            BY <3>3, <3>5, FS_Subset
        <3>7. ~MinuteFull(t, now)  BY <1>4, <2>1 DEF Admit, Limit
        <3>8. Cardinality(kept) < limit  BY <1>1, <3>5, <3>7 DEF MinuteFull
        <3> HIDE DEF calls, kept, limit
        <3>9. Cardinality(calls \union {c}) =
                IF c \in calls THEN Cardinality(calls) ELSE Cardinality(calls) + 1
            BY <3>5, FS_AddElement
        <3>10. Cardinality(calls \union {c}) <= limit
            BY <1>1, <3>5, <3>6, <3>8, <3>9
        <3>11. QED  BY <3>1, <3>10
    <2>2. CASE ~(t = ToolOf[c] /\ w <= now /\ now < w + Minute)
        <3>1. calls' = calls  BY <1>3, <1>4, <2>2, AdmitStretch
        <3>2. QED  BY <1>2, <3>1
    <2>3. QED  BY <2>1, <2>2
<1>5. CASE UNCHANGED <<at, served>>
    BY <1>2, <1>5, SameStretch
<1>6. CASE Restart
    <2>1. calls' = {}  BY <1>6 DEF Restart, Stretch, ServedFor
    <2>2. QED  BY <1>1, <2>1, FS_EmptySet
<1>7. QED  BY <1>4, <1>5, <1>6, NoAdmission
-----------------------------------------------------------------------------
(***************************************************************************)
(* The day.  A window is opened by a call and lasts a day, so a stretch of *)
(* one day that ends in it has at most its spent calls, and before it less *)
(* than a full budget: the call that opened the window before this one     *)
(* came too early for the stretch.  This is about calls and their stamps   *)
(* only, so it is stated and proved of any set of calls and any stamps.    *)
(***************************************************************************)

Within(S, n) == IsFiniteSet(S) /\ Cardinality(S) <= n

LEMMA Fewer ==
    ASSUME NEW S, NEW T, S \subseteq T, NEW m \in Int, NEW n \in Int, m <= n, Within(T, m)
    PROVE  Within(S, n)
<1>1. IsFiniteSet(S) /\ Cardinality(S) <= Cardinality(T)
    BY FS_Subset DEF Within
<1>2. Cardinality(S) \in Nat /\ Cardinality(T) \in Nat
    BY <1>1, FS_CardinalityType DEF Within
<1>3. QED  BY <1>1, <1>2 DEF Within

LEMMA Joined ==
    ASSUME NEW S, NEW T, NEW m \in Int, NEW n \in Int, Within(S, m), Within(T, n)
    PROVE  Within(S \union T, m + n)
<1>1. /\ IsFiniteSet(S) /\ IsFiniteSet(T)
      /\ Cardinality(S) \in Nat /\ Cardinality(T) \in Nat
    BY FS_CardinalityType DEF Within
<1>2. IsFiniteSet(S \intersect T)
    <2>1. S \intersect T \in SUBSET S  OBVIOUS
    <2>2. QED  BY <1>1, <2>1, FS_Subset
<1>3. Cardinality(S \intersect T) \in Nat
    BY <1>2, FS_CardinalityType
<1>4. /\ IsFiniteSet(S \union T)
      /\ Cardinality(S \union T) = Cardinality(S) + Cardinality(T) - Cardinality(S \intersect T)
    BY <1>1, FS_Union
<1>5. QED  BY <1>1, <1>3, <1>4 DEF Within

LEMMA OneMore ==
    ASSUME NEW S, NEW T, NEW c, T \subseteq S \union {c},
           NEW m \in Int, NEW n \in Int, m + 1 <= n, Within(S, m)
    PROVE  Within(T, n)
<1>1. Within({c}, 1)
    BY FS_Singleton DEF Within
<1>2. Within(S \union {c}, m + 1)
    BY <1>1, Joined
<1>3. QED  BY <1>2, Fewer

LEMMA Nobody == ASSUME NEW n \in Nat PROVE Within({}, n)
BY FS_EmptySet DEF Within

Since(S, stamp, from) == {c \in S : from <= stamp[c]}
Between(S, stamp, from, to) == {c \in S : from <= stamp[c] /\ stamp[c] < to}

\* The calls S, stamped so, are what a window that was opened then and has spent so much
\* can stand for; one that has spent something was opened by a call.
DayOf(S, stamp, opened, spent, limit) ==
    /\ spent <= limit
    /\ spent = 0 => opened = -Day /\ S = {}
    /\ \A c \in S : stamp[c] < opened + Day
    /\ Within(Since(S, stamp, opened), spent)
    /\ Cardinality(Since(S, stamp, opened)) = spent
    /\ spent > 0 => \A x \in Int : x > opened => Within(Since(S, stamp, x), spent - 1)
    /\ \A x \in Int : x > opened - Day => Within(Between(S, stamp, x, opened), limit - 1)
    /\ \A x \in Int : Within(Between(S, stamp, x, x + Day), 2 * limit - 1)

\* No call was let through yet.
LEMMA NoDay ==
    ASSUME NEW stamp, NEW limit \in Nat, limit > 0
    PROVE  DayOf({}, stamp, -Day, 0, limit)
<1>1. \A x, y : Since({}, stamp, x) = {} /\ Between({}, stamp, x, y) = {}
    BY DEF Since, Between
<1>2. 0 \in Nat /\ limit - 1 \in Nat /\ 2 * limit - 1 \in Nat
    OBVIOUS
<1>3. Cardinality({}) = 0 /\ Within({}, 0) /\ Within({}, limit - 1) /\ Within({}, 2 * limit - 1)
    BY <1>2, Nobody, FS_EmptySet
<1>4. 0 <= limit /\ ~(0 > 0)
    OBVIOUS
<1>5. QED  BY <1>1, <1>3, <1>4, Zenon DEF DayOf

\* A call is let through in the window that is open.
LEMMA SameDay ==
    ASSUME NEW S, NEW c, NEW stamp, NEW later, NEW when \in Nat,
           NEW opened \in Int, NEW spent \in Nat, NEW limit \in Nat,
           DayOf(S, stamp, opened, spent, limit),
           \A d \in S : stamp[d] \in Nat /\ later[d] = stamp[d],
           c \notin S, later[c] = when,
           spent < limit, opened <= when, when < opened + Day
    PROVE  DayOf(S \union {c}, later, opened, spent + 1, limit)
<1> DEFINE T == S \union {c}
<1>1. Day \in Nat
    BY ClockAssumption
<1>2. spent > 0
    BY <1>1 DEF DayOf
<1>3. \A x : Since(T, later, x) \subseteq Since(S, stamp, x) \union {c}
    BY DEF Since
<1>4. Within(Since(T, later, opened), spent + 1)
    <2>1. Within(Since(S, stamp, opened), spent)
        BY DEF DayOf
    <2>2. spent \in Int /\ spent + 1 \in Int /\ spent + 1 <= spent + 1
        OBVIOUS
    <2> HIDE DEF T
    <2>3. QED  BY <1>3, <2>1, <2>2, OneMore
<1>4a. Cardinality(Since(T, later, opened)) = spent + 1
    <2>1. /\ IsFiniteSet(Since(S, stamp, opened)) /\ c \notin Since(S, stamp, opened)
          /\ Cardinality(Since(S, stamp, opened)) = spent
        BY DEF DayOf, Within, Since
    <2>2. Since(T, later, opened) = Since(S, stamp, opened) \union {c}
        BY DEF Since
    <2>3. QED  BY <2>1, <2>2, FS_AddElement
<1>5. ASSUME NEW x \in Int, x > opened
      PROVE  Within(Since(T, later, x), spent)
    <2>1. Within(Since(S, stamp, x), spent - 1)
        BY <1>2, <1>5 DEF DayOf
    <2>2. spent \in Int /\ spent - 1 \in Int /\ (spent - 1) + 1 <= spent
        OBVIOUS
    <2> HIDE DEF T
    <2>3. QED  BY <1>3, <2>1, <2>2, OneMore
<1>6. ASSUME NEW x \in Int, x > opened - Day
      PROVE  Within(Between(T, later, x, opened), limit - 1)
    <2>1. Between(T, later, x, opened) = Between(S, stamp, x, opened)
        BY DEF Between
    <2>2. QED  BY <1>6, <2>1 DEF DayOf
<1>7. ASSUME NEW x \in Int
      PROVE  Within(Between(T, later, x, x + Day), 2 * limit - 1)
    <2>1. CASE x <= when /\ when < x + Day
        <3>1. Between(T, later, x, x + Day)
                  \subseteq Between(S, stamp, x, opened) \union Since(T, later, opened)
            BY <2>1 DEF Between, Since
        <3>2. x > opened - Day
            BY <1>1, <2>1
        <3>3. Within(Between(S, stamp, x, opened), limit - 1)
            BY <3>2 DEF DayOf
        <3>4. /\ limit - 1 \in Int /\ spent + 1 \in Int /\ 2 * limit - 1 \in Int
              /\ (limit - 1) + (spent + 1) \in Int
              /\ (limit - 1) + (spent + 1) <= 2 * limit - 1
            OBVIOUS
        <3>5. Within(Between(S, stamp, x, opened) \union Since(T, later, opened),
                     (limit - 1) + (spent + 1))
            BY <1>4, <3>3, <3>4, Joined
        <3> HIDE DEF T
        <3>6. QED  BY <3>1, <3>4, <3>5, Fewer
    <2>2. CASE ~(x <= when /\ when < x + Day)
        <3>1. Between(T, later, x, x + Day) = Between(S, stamp, x, x + Day)
            BY <2>2 DEF Between
        <3>2. QED  BY <3>1 DEF DayOf
    <2>3. QED  BY <2>1, <2>2
<1>8. \A d \in T : later[d] < opened + Day
    BY DEF DayOf
<1>9. spent + 1 <= limit /\ spent + 1 # 0 /\ (spent + 1) - 1 = spent
    OBVIOUS
<1>10. QED  BY <1>4, <1>5, <1>6, <1>7, <1>8, <1>9, <1>4a DEF DayOf

\* A call opens a new window, a day or more after the last one was opened.
LEMMA NewDay ==
    ASSUME NEW S, NEW c, NEW stamp, NEW later, NEW when \in Nat,
           NEW opened \in Int, NEW spent \in Nat, NEW limit \in Nat, limit > 0,
           DayOf(S, stamp, opened, spent, limit),
           \A d \in S : stamp[d] \in Nat /\ stamp[d] <= when /\ later[d] = stamp[d],
           c \notin S, later[c] = when,
           when >= opened + Day
    PROVE  DayOf(S \union {c}, later, when, 1, limit)
<1> DEFINE T == S \union {c}
<1>1. Day \in Nat \ {0}
    BY ClockAssumption
<1>2. \A d \in S : stamp[d] < when
    BY <1>1 DEF DayOf
<1>3. Since(T, later, when) \subseteq {} \union {c}
    BY <1>2 DEF Since
<1>4. Within(Since(T, later, when), 1)
    <2>1. Within({}, 0)
        BY Nobody
    <2>2. 0 \in Int /\ 1 \in Int /\ 0 + 1 <= 1
        OBVIOUS
    <2> HIDE DEF T
    <2>3. QED  BY <1>3, <2>1, <2>2, OneMore
<1>4a. Cardinality(Since(T, later, when)) = 1
    <2>1. Since(T, later, when) = {c}
        BY <1>2 DEF Since
    <2>2. QED  BY <2>1, FS_Singleton
<1>5. ASSUME NEW x \in Int, x > when
      PROVE  Within(Since(T, later, x), 0)
    <2>1. Since(T, later, x) = {}
        BY <1>2, <1>5 DEF Since
    <2>2. QED  BY <2>1, Nobody
<1>6. ASSUME NEW x \in Int, x > when - Day
      PROVE  Within(Between(S, stamp, x, when), limit - 1)
    <2>1. x > opened /\ limit - 1 \in Nat
        BY <1>1, <1>6
    <2>2. CASE spent = 0
        <3>1. Between(S, stamp, x, when) = {}
            BY <2>2 DEF DayOf, Between
        <3>2. QED  BY <2>1, <3>1, Nobody
    <2>3. CASE spent > 0
        <3>1. Within(Since(S, stamp, x), spent - 1)
            BY <2>1, <2>3 DEF DayOf
        <3>2. spent - 1 \in Int /\ limit - 1 \in Int /\ spent - 1 <= limit - 1
            BY DEF DayOf
        <3>3. Between(S, stamp, x, when) \subseteq Since(S, stamp, x)
            BY DEF Between, Since
        <3>4. QED  BY <3>1, <3>2, <3>3, Fewer
    <2>4. QED  BY <2>2, <2>3
<1>7. ASSUME NEW x \in Int, x > when - Day
      PROVE  Within(Between(T, later, x, when), limit - 1)
    <2>1. Between(T, later, x, when) = Between(S, stamp, x, when)
        BY DEF Between
    <2>2. QED  BY <1>6, <1>7, <2>1
<1>8. ASSUME NEW x \in Int
      PROVE  Within(Between(T, later, x, x + Day), 2 * limit - 1)
    <2>1. CASE x <= when /\ when < x + Day
        <3>1. Between(T, later, x, x + Day) \subseteq Between(S, stamp, x, when) \union {c}
            BY <1>2 DEF Between
        <3>2. Within(Between(S, stamp, x, when), limit - 1)
            BY <1>1, <1>6, <2>1
        <3>3. limit - 1 \in Int /\ 2 * limit - 1 \in Int /\ (limit - 1) + 1 <= 2 * limit - 1
            OBVIOUS
        <3> HIDE DEF T
        <3>4. QED  BY <3>1, <3>2, <3>3, OneMore
    <2>2. CASE ~(x <= when /\ when < x + Day)
        <3>1. Between(T, later, x, x + Day) = Between(S, stamp, x, x + Day)
            BY <2>2 DEF Between
        <3>2. QED  BY <3>1 DEF DayOf
    <2>3. QED  BY <2>1, <2>2
<1>9. \A d \in T : later[d] < when + Day
    BY <1>1, <1>2
<1>10. 1 <= limit /\ 1 # 0 /\ 1 - 1 = 0
    OBVIOUS
<1>11. QED  BY <1>4, <1>5, <1>7, <1>8, <1>9, <1>10, <1>4a DEF DayOf

EveryDay ==
    \A t \in Budgeted : Budgets[t].daily_call_budget > 0 =>
        /\ daily[t].opened <= now
        /\ DayOf(ServedFor(t), at, daily[t].opened, daily[t].spent,
                 Budgets[t].daily_call_budget)

LEMMA UnopenedDay ==
    ASSUME NEW t \in Budgeted, Budgets[t].daily_call_budget > 0
    PROVE  \A stamp : DayOf({}, stamp, Unopened.opened, Unopened.spent,
                            Budgets[t].daily_call_budget)
BY NoDay, BudgetsAreNumbers DEF Unopened

LEMMA InitDay == Init => EveryDay
<1> SUFFICES ASSUME Init, NEW t \in Budgeted, Budgets[t].daily_call_budget > 0
             PROVE  /\ daily[t].opened <= now
                    /\ DayOf(ServedFor(t), at, daily[t].opened, daily[t].spent,
                             Budgets[t].daily_call_budget)
    BY DEF EveryDay
<1>1. ServedFor(t) = {} /\ daily[t] = Unopened /\ now = 0
    BY DEF Init, ServedFor
<1>2. Unopened.opened <= 0
    BY ClockAssumption DEF Unopened
<1>3. QED  BY <1>1, <1>2, UnopenedDay

LEMMA NextDay ==
    TypeOK /\ Admitted /\ EveryDay /\ [Next]_vars => EveryDay'
<1> SUFFICES ASSUME TypeOK, Admitted, EveryDay, [Next]_vars,
                    NEW t \in Budgeted, Budgets[t].daily_call_budget > 0
             PROVE  /\ daily'[t].opened <= now'
                    /\ DayOf(ServedFor(t)', at', daily'[t].opened, daily'[t].spent,
                             Budgets[t].daily_call_budget)
    BY DEF EveryDay
<1> DEFINE limit == Budgets[t].daily_call_budget
<1>1. /\ daily[t].opened \in Int /\ daily[t].spent \in Nat
      /\ limit \in Nat /\ now \in Nat /\ Day \in Nat
    BY BudgetsAreNumbers, ClockAssumption DEF TypeOK
<1>2. /\ daily[t].opened <= now
      /\ DayOf(ServedFor(t), at, daily[t].opened, daily[t].spent, limit)
    BY DEF EveryDay
<1>3. \A d \in ServedFor(t) : d \in served /\ at[d] \in Nat /\ at[d] <= now
    BY DEF ServedFor, TypeOK, Admitted
<1>4. ASSUME NEW c \in Calls, Admit(c), t = ToolOf[c]
      PROVE  /\ daily'[t].opened <= now'
             /\ DayOf(ServedFor(t)', at', daily'[t].opened, daily'[t].spent, limit)
    <2>1. /\ c \notin ServedFor(t) /\ now' = now
          /\ ServedFor(t)' = ServedFor(t) \union {c}
          /\ at'[c] = now /\ \A d \in ServedFor(t) : at'[d] = at[d]
        BY <1>4 DEF Admit, Admitted, ServedFor, TypeOK
    <2>2. daily'[t] = Charged(Window(t, now))
        BY <1>4 DEF Admit, TypeOK
    <2>3. Window(t, now).spent < limit
        BY <1>1, <1>4, WindowType DEF Admit, Limit, DaySpent
    <2>4. CASE now - daily[t].opened < Day
        <3>1. /\ daily'[t].opened = daily[t].opened /\ daily'[t].spent = daily[t].spent + 1
              /\ daily[t].spent < limit
            BY <1>1, <2>2, <2>3, <2>4 DEF Charged, Window
        <3>2. now < daily[t].opened + Day
            BY <1>1, <2>4
        <3> HIDE DEF limit
        <3>3. DayOf(ServedFor(t) \union {c}, at', daily[t].opened, daily[t].spent + 1, limit)
            BY <1>1, <1>2, <1>3, <2>1, <3>1, <3>2, SameDay
        <3>4. QED  BY <1>2, <2>1, <3>1, <3>3
    <2>5. CASE now - daily[t].opened >= Day
        <3>1. daily'[t].opened = now /\ daily'[t].spent = 1
            BY <1>1, <2>2, <2>5 DEF Charged, Window
        <3>2. now >= daily[t].opened + Day /\ limit > 0
            BY <1>1, <2>5
        <3> HIDE DEF limit
        <3>3. DayOf(ServedFor(t) \union {c}, at', now, 1, limit)
            BY <1>1, <1>2, <1>3, <2>1, <3>2, NewDay
        <3>4. QED  BY <1>1, <2>1, <3>1, <3>3
    <2>6. QED  BY <1>1, <2>4, <2>5
<1>5. ASSUME NEW c \in Calls, Admit(c), t # ToolOf[c]
      PROVE  /\ daily'[t].opened <= now'
             /\ DayOf(ServedFor(t)', at', daily'[t].opened, daily'[t].spent, limit)
    <2>1. ServedFor(t)' = ServedFor(t) /\ now' = now /\ daily'[t] = daily[t]
        BY <1>5 DEF Admit, ServedFor, TypeOK, counters
    <2>2. \A d \in ServedFor(t) : at'[d] = at[d]
        BY <1>5, <1>3 DEF Admit, Admitted, TypeOK
    <2>3. \A x, y : /\ Since(ServedFor(t), at', x) = Since(ServedFor(t), at, x)
                    /\ Between(ServedFor(t), at', x, y) = Between(ServedFor(t), at, x, y)
        BY <2>2 DEF Since, Between
    <2>4. DayOf(ServedFor(t), at', daily[t].opened, daily[t].spent, limit)
        BY <1>2, <2>2, <2>3 DEF DayOf
    <2>5. QED  BY <1>2, <2>1, <2>4
<1>6. CASE Restart
    <2>1. ServedFor(t)' = {} /\ daily'[t] = Unopened /\ now' = now
        BY <1>6 DEF Restart, ServedFor
    <2>2. Unopened.opened <= now
        BY <1>1 DEF Unopened
    <2>3. QED  BY <2>1, <2>2, UnopenedDay
<1>7. CASE UNCHANGED <<at, served, daily>>
    <2>1. now' = now \/ now' = now + 1
        BY DEF Next, Admit, Refuse, Release, Restart, Tick, vars
    <2>2. ServedFor(t)' = ServedFor(t)
        BY <1>7 DEF ServedFor
    <2>3. QED  BY <1>1, <1>2, <1>7, <2>1, <2>2
<1>8. QED  BY <1>4, <1>5, <1>6, <1>7, NoAdmission
-----------------------------------------------------------------------------
(***************************************************************************)
(* The inductive invariant, and what it implies.                           *)
(***************************************************************************)

IInv ==
    /\ TypeOK
    /\ Admitted
    /\ Stamps
    /\ SlotsMatchCalls
    /\ SlotBound
    /\ EveryMinute
    /\ EveryDay

LEMMA Inductive == Spec => []IInv
<1>1. Init => IInv
    BY InitTypeOK, InitBookkeeping, InitSlots, InitMinute, InitDay DEF IInv
<1>2. IInv /\ [Next]_vars => IInv'
    BY NextTypeOK, NextAdmitted, NextStamps, NextSlots, NextMinute, NextDay
    DEF IInv
<1>3. QED  BY <1>1, <1>2, PTL DEF Spec

\* `_ACTIVE` counts the calls in flight, whatever failed or was restarted.
THEOREM SlotsCorrect == Spec => []SlotsMatchCalls
<1>1. IInv => SlotsMatchCalls  BY DEF IInv
<1>2. QED  BY <1>1, Inductive, PTL

\* No tool has more calls in flight than its `max_concurrent`.
THEOREM ConcurrencyCorrect == Spec => []ConcurrencyBound
<1>1. IInv => ConcurrencyBound
    <2> SUFFICES ASSUME IInv, NEW t \in Budgeted, Budgets[t].max_concurrent > 0
                 PROVE  Cardinality(InFlight(t)) <= Budgets[t].max_concurrent
        BY DEF ConcurrencyBound
    <2>1. active[t] = Cardinality(InFlight(t))  BY DEF IInv, SlotsMatchCalls
    <2>2. active[t] <= Budgets[t].max_concurrent  BY DEF IInv, SlotBound
    <2>3. QED  BY <2>1, <2>2
<1>2. QED  BY <1>1, Inductive, PTL

\* No minute holds more calls of a tool than its `calls_per_minute`.
THEOREM MinuteCorrect == Spec => []MinuteBound
<1>1. IInv => MinuteBound
    <2> SUFFICES ASSUME IInv, NEW t \in Budgeted, Budgets[t].calls_per_minute > 0,
                        NEW w \in 0..now
                 PROVE  Cardinality({c \in ServedFor(t) : w <= at[c] /\ at[c] < w + Minute})
                            <= Budgets[t].calls_per_minute
        BY DEF MinuteBound
    <2>1. w \in Int  BY DEF IInv, TypeOK
    <2>2. QED  BY <2>1 DEF IInv, EveryMinute, Stretch
<1>2. QED  BY <1>1, Inductive, PTL

\* No day holds as many calls of a tool as two daily budgets, although two windows can meet
\* in it.
THEOREM DayCorrect == Spec => []DayBound
<1>1. IInv => DayBound
    <2> SUFFICES ASSUME IInv, NEW t \in Budgeted, Budgets[t].daily_call_budget > 0,
                        NEW w \in 0..now
                 PROVE  Cardinality({c \in ServedFor(t) : w <= at[c] /\ at[c] < w + Day})
                            <= 2 * Budgets[t].daily_call_budget - 1
        BY DEF DayBound
    <2>1. w \in Int  BY DEF IInv, TypeOK
    <2>2. QED  BY <2>1 DEF IInv, EveryDay, DayOf, Between, Within
<1>2. QED  BY <1>1, Inductive, PTL
-----------------------------------------------------------------------------
(***************************************************************************)
(* When a limit lifts.                                                     *)
(***************************************************************************)

LEMMA LeastOf ==
    ASSUME NEW S \in SUBSET Nat, S # {}
    PROVE  \E m \in S : \A k \in S : m <= k
<1> DEFINE R == {pair \in Nat \X Nat : pair[1] < pair[2]}
<1>1. IsWellFoundedOn(R, Nat)
    BY NatLessThanWellFounded DEF OpToRel
<1>2. PICK m \in S : \A k \in S : <<k, m>> \notin R
    <2> HIDE DEF R
    <2>1. QED  BY <1>1, WFMin
<1>3. ASSUME NEW k \in S
      PROVE  m <= k
    <2>1. k \in Nat /\ m \in Nat
        OBVIOUS
    <2>2. <<k, m>> \in Nat \X Nat /\ <<k, m>>[1] = k /\ <<k, m>>[2] = m
        BY <2>1
    <2>3. ~(k < m)
        BY <1>2, <2>2
    <2>4. QED  BY <2>1, <2>3
<1>4. QED  BY <1>3

\* Fewer stamps are kept later.
LEMMA RecentShrinks ==
    ASSUME IInv, NEW t \in Budgeted, NEW s \in Nat
    PROVE  /\ MinuteFull(t, now + s) => MinuteFull(t, now)
           /\ IsFiniteSet(Recent(t, now)) /\ Cardinality(Recent(t, now)) \in Nat
<1> DEFINE soon == Recent(t, now + s)
           kept == Recent(t, now)
<1>1. \A c \in recent[t] : at[c] \in Nat /\ c \in ServedFor(t)
    BY DEF IInv, Stamps, TypeOK, ServedFor
<1>2. now \in Nat /\ Minute \in Nat
    BY ClockAssumption DEF IInv, TypeOK
<1>3. soon \in SUBSET kept /\ kept \in SUBSET ServedFor(t)
    BY <1>1, <1>2 DEF Recent
<1>4. IsFiniteSet(kept) /\ Cardinality(kept) \in Nat
    BY <1>3, ServedForFinite DEF IInv
<1>5. IsFiniteSet(soon) /\ Cardinality(soon) <= Cardinality(kept)
    BY <1>3, <1>4, FS_Subset
<1>6. Cardinality(soon) \in Nat
    BY <1>5, FS_CardinalityType
<1> HIDE DEF soon, kept
<1>7. Budgets[t].calls_per_minute \in Nat
    BY BudgetsAreNumbers
<1>8. Cardinality(soon) >= Budgets[t].calls_per_minute
          => Cardinality(kept) >= Budgets[t].calls_per_minute
    BY <1>4, <1>5, <1>6, <1>7
<1>9. QED  BY <1>4, <1>8 DEF MinuteFull, soon, kept

\* The minute is full until its oldest stamp is a minute old, and not longer.
LEMMA MinuteLifts ==
    ASSUME IInv, NEW t \in Budgeted, MinuteFull(t, now)
    PROVE  LET until == Minute - (now - Oldest(t, now)) IN
           /\ until \in Nat /\ until > 0
           /\ \A s \in 0..(until - 1) : MinuteFull(t, now + s)
           /\ ~MinuteFull(t, now + until)
<1> DEFINE kept == Recent(t, now)
           stamps == {at[c] : c \in kept}
           limit == Budgets[t].calls_per_minute
           oldest == Oldest(t, now)
           until == Minute - (now - oldest)
<1>1. now \in Nat /\ Minute \in Nat \ {0} /\ limit \in Nat /\ limit > 0
    BY ClockAssumption, BudgetsAreNumbers DEF IInv, TypeOK, MinuteFull
<1>2. \A c \in kept : /\ c \in recent[t] /\ c \in ServedFor(t) /\ at[c] \in Nat
                      /\ at[c] <= now /\ now - at[c] < Minute
    BY DEF Recent, IInv, Stamps, ServedFor, TypeOK, Admitted
<1>3. IsFiniteSet(kept) /\ Cardinality(kept) \in Nat /\ Cardinality(kept) >= limit
    BY RecentShrinks DEF MinuteFull
<1>4. kept # {}
    BY <1>1, <1>3, FS_EmptySet
<1>5. \E s \in stamps : \A c \in kept : s <= at[c]
    <2>1. stamps \in SUBSET Nat /\ stamps # {}
        BY <1>2, <1>4
    <2> HIDE DEF stamps
    <2>2. PICK s \in stamps : \A k \in stamps : s <= k
        BY <2>1, LeastOf
    <2>3. \A c \in kept : at[c] \in stamps
        BY DEF stamps
    <2>4. QED  BY <2>2, <2>3
<1>6. oldest \in stamps /\ \A c \in kept : oldest <= at[c]
    <2>1. oldest = CHOOSE s \in stamps : \A c \in kept : s <= at[c]
        BY DEF Oldest
    <2> HIDE DEF oldest, stamps
    <2>2. QED  BY <1>5, <2>1
<1>7. PICK first \in kept : at[first] = oldest
    BY <1>6
<1>8. /\ oldest \in Nat /\ oldest <= now /\ now - oldest < Minute
      /\ until \in Nat /\ until > 0 /\ now + until = oldest + Minute
    <2> HIDE DEF kept, oldest
    <2>1. oldest \in Nat /\ oldest <= now /\ now - oldest < Minute
        BY <1>2, <1>7
    <2>2. QED  BY <1>1, <2>1
<1>9. ASSUME NEW s \in 0..(until - 1)
      PROVE  MinuteFull(t, now + s)
    <2>1. s \in Nat /\ s < until
        <3> HIDE DEF until
        <3>1. QED  BY <1>8
    <2>2. \A c \in kept : (now + s) - at[c] < Minute
        <3> HIDE DEF kept, oldest
        <3>1. QED  BY <1>1, <1>2, <1>6, <1>8, <2>1
    <2>3. Recent(t, now + s) = kept
        <3>1. kept \subseteq Recent(t, now + s)
            BY <1>2, <2>2 DEF Recent
        <3>2. \A c \in recent[t] : at[c] \in Nat
            BY DEF IInv, Stamps, ServedFor, TypeOK
        <3>3. Recent(t, now + s) \subseteq kept
            BY <1>1, <2>1, <3>2 DEF Recent
        <3>4. QED  BY <3>1, <3>3
    <2>4. QED  BY <2>3 DEF MinuteFull
<1>10. ~MinuteFull(t, now + until)
    <2> DEFINE left == Recent(t, now + until)
    <2>1. \A c \in left : c \in kept /\ at[c] > oldest
        <3>1. \A c \in recent[t] : at[c] \in Nat
            BY DEF IInv, Stamps, ServedFor, TypeOK
        <3>2. \A c \in left : c \in recent[t] /\ (oldest + Minute) - at[c] < Minute
            BY <1>8 DEF Recent
        <3> HIDE DEF oldest
        <3>3. \A c \in left : now - at[c] < Minute /\ at[c] > oldest
            BY <1>1, <1>8, <3>1, <3>2
        <3>4. QED  BY <3>2, <3>3 DEF Recent
    <2>2. left \in SUBSET (kept \ {first})
        BY <1>7, <1>8, <2>1
    <2>3. Cardinality(kept) <= limit
        <3>1. Cardinality(Stretch(t, now + 1 - Minute, now + 1 - Minute + Minute)) <= limit
            BY <1>1 DEF IInv, EveryMinute
        <3>2. kept \in SUBSET Stretch(t, now + 1 - Minute, now + 1 - Minute + Minute)
            BY <1>1, <1>2 DEF Stretch
        <3>3. IsFiniteSet(Stretch(t, now + 1 - Minute, now + 1 - Minute + Minute))
            BY ServedForFinite DEF IInv, Stretch
        <3> HIDE DEF kept, limit
        <3>4. Cardinality(kept) <= Cardinality(Stretch(t, now + 1 - Minute,
                                                       now + 1 - Minute + Minute))
            BY <3>2, <3>3, FS_Subset
        <3>5. Cardinality(Stretch(t, now + 1 - Minute, now + 1 - Minute + Minute)) \in Nat
            BY <3>3, FS_CardinalityType
        <3>6. QED  BY <1>1, <1>3, <3>1, <3>4, <3>5
    <2>4. /\ IsFiniteSet(kept \ {first})
          /\ Cardinality(kept \ {first}) = Cardinality(kept) - 1
        <3> HIDE DEF kept
        <3>1. QED  BY <1>3, <1>7, FS_RemoveElement
    <2> HIDE DEF kept, left, limit
    <2>5. IsFiniteSet(left) /\ Cardinality(left) <= Cardinality(kept \ {first})
        BY <2>2, <2>4, FS_Subset
    <2>6. Cardinality(left) \in Nat
        BY <2>5, FS_CardinalityType
    <2>7. ~(Cardinality(left) >= limit)
        BY <1>1, <1>3, <2>3, <2>4, <2>5, <2>6
    <2>8. QED  BY <2>7 DEF MinuteFull, left, limit
<1>11. QED  BY <1>8, <1>9, <1>10

\* The day is spent until its window is a day old, and not longer.
LEMMA DayLifts ==
    ASSUME IInv, NEW t \in Budgeted, DaySpent(t, now)
    PROVE  LET until == Day - (now - daily[t].opened) IN
           /\ until \in Nat /\ until > 0
           /\ \A s \in 0..(until - 1) : DaySpent(t, now + s)
           /\ ~DaySpent(t, now + until)
<1> DEFINE until == Day - (now - daily[t].opened)
<1>1. /\ daily[t].opened \in Int /\ daily[t].spent \in Nat /\ now \in Nat
      /\ Budgets[t].daily_call_budget \in Nat /\ Day \in Nat
      /\ Budgets[t].daily_call_budget > 0 /\ daily[t].opened <= now
    BY BudgetsAreNumbers, ClockAssumption DEF IInv, TypeOK, DaySpent, EveryDay
<1>2. now - daily[t].opened < Day /\ daily[t].spent >= Budgets[t].daily_call_budget
    BY <1>1 DEF DaySpent, Window
<1>3. until \in Nat /\ until > 0
    BY <1>1, <1>2
<1>4. ASSUME NEW s \in 0..(until - 1)
      PROVE  DaySpent(t, now + s)
    <2>1. ~((now + s) - daily[t].opened >= Day)
        BY <1>1, <1>2, <1>4
    <2>2. QED  BY <1>1, <1>2, <2>1 DEF DaySpent, Window
<1>5. ~DaySpent(t, now + until)
    <2>1. (now + until) - daily[t].opened >= Day
        BY <1>1
    <2>2. Window(t, now + until).spent = 0
        BY <2>1 DEF Window
    <2>3. QED  BY <1>1, <2>2 DEF DaySpent
<1>6. QED  BY <1>3, <1>4, <1>5

\* A limit that lifts does not come back while no further call is let through.
LEMMA StaysLifted ==
    ASSUME IInv, NEW t \in Budgeted, NEW s \in Nat, NEW later \in Nat, s <= later
    PROVE  /\ ~MinuteFull(t, now + s) => ~MinuteFull(t, now + later)
           /\ DaySpent(t, now) /\ ~DaySpent(t, now + s) => ~DaySpent(t, now + later)
<1>1. /\ now \in Nat /\ Minute \in Nat /\ Day \in Nat
      /\ daily[t].opened \in Int /\ daily[t].spent \in Nat
    BY ClockAssumption DEF IInv, TypeOK
<1>2. Budgets[t].calls_per_minute \in Nat /\ Budgets[t].daily_call_budget \in Nat
    BY BudgetsAreNumbers
<1>3. ASSUME MinuteFull(t, now + later)
      PROVE  MinuteFull(t, now + s)
    <2> DEFINE soon == Recent(t, now + s)
               left == Recent(t, now + later)
    <2>1. \A c \in recent[t] : at[c] \in Nat /\ c \in ServedFor(t)
        BY DEF IInv, Stamps, TypeOK, ServedFor
    <2>2. left \in SUBSET soon /\ soon \in SUBSET ServedFor(t)
        BY <1>1, <2>1 DEF Recent
    <2>3. IsFiniteSet(soon) /\ Cardinality(soon) \in Nat
        BY <2>2, ServedForFinite DEF IInv
    <2>4. Cardinality(left) <= Cardinality(soon) /\ IsFiniteSet(left)
        BY <2>2, <2>3, FS_Subset
    <2>5. Cardinality(left) \in Nat
        BY <2>4, FS_CardinalityType
    <2> HIDE DEF soon, left
    <2>6. Cardinality(left) >= Budgets[t].calls_per_minute
              => Cardinality(soon) >= Budgets[t].calls_per_minute
        BY <1>2, <2>3, <2>4, <2>5
    <2>7. QED  BY <1>3, <2>6 DEF MinuteFull, soon, left
<1>4. ASSUME DaySpent(t, now), ~DaySpent(t, now + s)
      PROVE  ~DaySpent(t, now + later)
    <2>1. daily[t].spent >= Budgets[t].daily_call_budget /\ Budgets[t].daily_call_budget > 0
        BY <1>1, <1>2, <1>4 DEF DaySpent, Window
    <2>2. (now + s) - daily[t].opened >= Day
        BY <1>1, <1>2, <1>4, <2>1 DEF DaySpent, Window
    <2>3. (now + later) - daily[t].opened >= Day
        BY <1>1, <2>2
    <2>4. Window(t, now + later).spent = 0
        BY <2>3 DEF Window
    <2>5. QED  BY <2>1, <2>4, <1>2 DEF DaySpent
<1>5. QED  BY <1>3, <1>4

\* Rounding moves a wait by half a millisecond at the most.
LEMMA RoundedIsNear ==
    ASSUME NEW span \in Nat
    PROVE  /\ Rounded(span) \in Nat
           /\ 2 * Rounded(span) <= 2 * span + Unit
           /\ 2 * span <= 2 * Rounded(span) + Unit
<1> DEFINE whole == span \div Unit
           rest == span % Unit
<1>1. Unit \in Nat \ {0}
    BY ClockAssumption
<1>2. whole \in Nat /\ rest \in Nat /\ rest < Unit /\ span = Unit * whole + rest
    BY <1>1
<1>3. \/ Rounded(span) = Unit * whole /\ 2 * rest <= Unit
      \/ Rounded(span) = Unit * (whole + 1) /\ 2 * rest >= Unit
    <2> DEFINE up == 2 * rest > Unit \/ (2 * rest = Unit /\ whole % 2 = 1)
    <2>1. Rounded(span) = Unit * (IF up THEN whole + 1 ELSE whole)
        BY DEF Rounded
    <2> HIDE DEF whole, rest
    <2>2. CASE 2 * rest > Unit
        BY <1>1, <1>2, <2>1, <2>2
    <2>3. CASE 2 * rest = Unit
        BY <1>1, <1>2, <2>1, <2>3
    <2>4. CASE 2 * rest < Unit
        BY <1>1, <1>2, <2>1, <2>4
    <2>5. QED  BY <1>1, <1>2, <2>2, <2>3, <2>4
<1> HIDE DEF whole, rest
<1>4. PICK floor \in Nat : floor = Unit * whole
    BY <1>1, <1>2
<1>5. Unit * (whole + 1) = floor + Unit
    BY <1>1, <1>2, <1>4
<1>6. QED  BY <1>1, <1>2, <1>3, <1>4, <1>5

\* The limit a refusal names holds for what remains of it, and then no longer.
LEMMA Lifts ==
    ASSUME IInv, NEW t \in Budgeted,
           Limit(t, now) \in {"calls_per_minute", "daily_call_budget"}
    PROVE  /\ Remaining(t, now) \in Nat
           /\ \A s \in Nat : s < Remaining(t, now) => Limit(t, now + s) = Limit(t, now)
           /\ \A s \in Nat : s >= Remaining(t, now) => Limit(t, now + s) # Limit(t, now)
<1>1. CASE Limit(t, now) = "calls_per_minute"
    <2>1. MinuteFull(t, now)
        BY <1>1 DEF Limit
    <2>2. Remaining(t, now) = Minute - (now - Oldest(t, now))
        BY <1>1 DEF Remaining
    <2>3. \A when : MinuteFull(t, when) <=> Limit(t, when) = "calls_per_minute"
        BY DEF Limit
    <2>4. /\ Remaining(t, now) \in Nat
          /\ \A s \in 0..(Remaining(t, now) - 1) : MinuteFull(t, now + s)
          /\ ~MinuteFull(t, now + Remaining(t, now))
        BY <2>1, <2>2, MinuteLifts
    <2>5. \A s \in Nat : s >= Remaining(t, now) => ~MinuteFull(t, now + s)
        BY <2>4, StaysLifted
    <2>6. \A s \in Nat : s < Remaining(t, now) => s \in 0..(Remaining(t, now) - 1)
        BY <2>4
    <2>7. QED  BY <1>1, <2>3, <2>4, <2>5, <2>6
<1>2. CASE Limit(t, now) = "daily_call_budget"
    <2>1. ~MinuteFull(t, now) /\ DaySpent(t, now)
        BY <1>2 DEF Limit
    <2>2. Remaining(t, now) = Day - (now - daily[t].opened)
        BY <1>2 DEF Remaining
    <2>3. \A s \in Nat : ~MinuteFull(t, now + s)
        BY <2>1, RecentShrinks
    <2>4. \A s \in Nat : DaySpent(t, now + s) <=> Limit(t, now + s) = "daily_call_budget"
        BY <2>3 DEF Limit
    <2>5. /\ Remaining(t, now) \in Nat
          /\ \A s \in 0..(Remaining(t, now) - 1) : DaySpent(t, now + s)
          /\ ~DaySpent(t, now + Remaining(t, now))
        BY <2>1, <2>2, DayLifts
    <2>6. \A s \in Nat : s >= Remaining(t, now) => ~DaySpent(t, now + s)
        BY <2>1, <2>5, StaysLifted
    <2>7. \A s \in Nat : s < Remaining(t, now) => s \in 0..(Remaining(t, now) - 1)
        BY <2>5
    <2>8. QED  BY <1>2, <2>4, <2>5, <2>6, <2>7
<1>3. QED  BY <1>1, <1>2

\* A refusal names the limit and, to half a millisecond, the moment it lifts.
THEOREM RefusalsAreNear == Spec => []RetryAfterIsNear
<1>1. IInv => RetryAfterIsNear
    <2> SUFFICES ASSUME IInv, NEW t \in Budgeted,
                        Limit(t, now) \in {"calls_per_minute", "daily_call_budget"},
                        NEW s \in 0..(RetryAfter(t, now) + Unit)
                 PROVE  /\ 2 * s < 2 * RetryAfter(t, now) - Unit
                                => Limit(t, now + s) = Limit(t, now)
                        /\ 2 * s >= 2 * RetryAfter(t, now) + Unit
                                => Limit(t, now + s) # Limit(t, now)
        BY DEF RetryAfterIsNear
    <2>1. Remaining(t, now) \in Nat
        BY Lifts
    <2>2. /\ RetryAfter(t, now) \in Nat
          /\ 2 * RetryAfter(t, now) <= 2 * Remaining(t, now) + Unit
          /\ 2 * Remaining(t, now) <= 2 * RetryAfter(t, now) + Unit
        BY <2>1, RoundedIsNear DEF RetryAfter
    <2>3. s \in Nat /\ Unit \in Nat
        BY <2>2, ClockAssumption
    <2>4. 2 * s < 2 * RetryAfter(t, now) - Unit => s < Remaining(t, now)
        BY <2>1, <2>2, <2>3
    <2>5. 2 * s >= 2 * RetryAfter(t, now) + Unit => s >= Remaining(t, now)
        BY <2>1, <2>2, <2>3
    <2>6. QED  BY <2>3, <2>4, <2>5, Lifts
<1>2. QED  BY <1>1, Inductive, PTL

-----------------------------------------------------------------------------
(***************************************************************************)
(* The counters implement FairBudget, which has none.                      *)
(***************************************************************************)

\* The stamps that are kept are the calls of the last minute.
LEMMA LastMinute ==
    ASSUME TypeOK, Stamps, NEW t \in Budgeted
    PROVE  Promise!Within(t, Minute) = Recent(t, now)
<1>1. \A c \in recent[t] : c \in served /\ ToolOf[c] = t
    BY DEF Stamps, ServedFor
<1>2. \A c \in served : ToolOf[c] = t /\ now - at[c] < Minute => c \in recent[t]
    BY DEF Stamps, ServedFor
<1>3. QED  BY <1>1, <1>2 DEF Promise!Within, Recent

\* The calls of the last day are fewer than two budgets before a call is let through.
LEMMA RoomInTheDay ==
    ASSUME IInv, IInv', NEW c \in Calls, Admit(c), NEW t \in Budgeted, t = ToolOf[c],
           Budgets[t].daily_call_budget > 0
    PROVE  Cardinality(Promise!Within(t, Day)) < 2 * Budgets[t].daily_call_budget - 1
<1> DEFINE from == now + 1 - Day
           before == Promise!Within(t, Day)
           after == Between(ServedFor(t)', at', from, from + Day)
           limit == 2 * Budgets[t].daily_call_budget - 1
<1>1. /\ now \in Nat /\ Day \in Nat \ {0}
      /\ from \in Int /\ limit \in Int
    BY BudgetsAreNumbers, ClockAssumption DEF IInv, TypeOK
<1>2. /\ c \notin served
      /\ at' = [at EXCEPT ![c] = now]
      /\ served' = served \union {c}
    BY DEF IInv, Admit, Admitted
<1>3. \A d \in served : d \in Calls /\ at'[d] = at[d] /\ at[d] \in Nat /\ at[d] <= now
    BY <1>2 DEF IInv, TypeOK, Admitted
<1>4. at'[c] = now
    BY <1>2 DEF IInv, TypeOK
<1>5. after = before \union {c}
    BY <1>1, <1>2, <1>3, <1>4 DEF Between, ServedFor, Promise!Within
<1>6. c \notin before /\ before \in SUBSET ServedFor(t)
    BY <1>2 DEF Promise!Within, ServedFor
<1>7. IsFiniteSet(before) /\ Cardinality(before) \in Nat
    BY <1>6, ServedForFinite DEF IInv
<1>8. Within(after, limit)
    BY <1>1 DEF IInv, EveryDay, DayOf
<1> HIDE DEF before, after, limit
<1>9. Cardinality(after) = Cardinality(before) + 1
    BY <1>5, <1>6, <1>7, FS_AddElement
<1>10. Cardinality(before) < limit
    BY <1>1, <1>7, <1>8, <1>9 DEF Within
<1>11. QED  BY <1>10 DEF before, limit

\* A window that is spent has as many calls in the last day as it has room for.
LEMMA SpentInTheDay ==
    ASSUME IInv, NEW t \in Budgeted, DaySpent(t, now)
    PROVE  Cardinality(Promise!Within(t, Day)) >= Budgets[t].daily_call_budget
<1> DEFINE last == Promise!Within(t, Day)
           inWindow == Since(ServedFor(t), at, daily[t].opened)
<1>1. /\ daily[t].opened \in Int /\ daily[t].spent \in Nat /\ now \in Nat
      /\ Budgets[t].daily_call_budget \in Nat /\ Day \in Nat
      /\ Budgets[t].daily_call_budget > 0
    BY BudgetsAreNumbers, ClockAssumption DEF IInv, TypeOK, DaySpent
<1>2. now - daily[t].opened < Day /\ daily[t].spent >= Budgets[t].daily_call_budget
    BY <1>1 DEF DaySpent, Window
<1>3. Cardinality(inWindow) = daily[t].spent
    BY <1>1 DEF IInv, EveryDay, DayOf
<1>4. inWindow \in SUBSET last
    BY <1>1, <1>2 DEF IInv, TypeOK, Since, ServedFor, Promise!Within
<1>5. last \in SUBSET ServedFor(t)
    BY DEF Promise!Within, ServedFor
<1>6. IsFiniteSet(last) /\ Cardinality(last) \in Nat
    BY <1>5, ServedForFinite DEF IInv
<1> HIDE DEF last, inWindow
<1>7. Cardinality(inWindow) <= Cardinality(last)
    BY <1>4, <1>6, FS_Subset
<1>8. Cardinality(last) >= Budgets[t].daily_call_budget
    BY <1>1, <1>2, <1>3, <1>6, <1>7
<1>9. QED  BY <1>8 DEF last

\* FairBudget counts as CallBudget does.
LEMMA SameCount ==
    ASSUME NEW S
    PROVE  Promise!Cardinality(S) = Cardinality(S)
BY DEF Promise!Cardinality, Cardinality

LEMMA AdmitImplements ==
    ASSUME IInv, IInv', NEW c \in Calls, Admit(c)
    PROVE  Promise!LetThrough(c)
<1>1. ASSUME NEW t \in Budgeted, t = ToolOf[c]
      PROVE  /\ ~Promise!Reaches(Cardinality(Promise!Within(t, Minute)),
                                 Budgets[t].calls_per_minute)
             /\ ~Promise!Reaches(Cardinality(Promise!Running(t)), Budgets[t].max_concurrent)
             /\ ~Promise!Reaches(Cardinality(Promise!Within(t, Day)),
                                 Promise!TwoWindows(Budgets[t].daily_call_budget))
    <2>1. ~MinuteFull(t, now) /\ ~SlotsTaken(t)
        BY <1>1 DEF Admit, Limit
    <2>2. ~Promise!Reaches(Cardinality(Promise!Within(t, Minute)),
                           Budgets[t].calls_per_minute)
        BY <2>1, LastMinute DEF IInv, MinuteFull, Promise!Reaches
    <2>3. Promise!Running(t) = InFlight(t)
        BY DEF Promise!Running, InFlight
    <2>4. ~Promise!Reaches(Cardinality(Promise!Running(t)), Budgets[t].max_concurrent)
        BY <2>1, <2>3 DEF IInv, SlotsMatchCalls, SlotsTaken, Promise!Reaches
    <2>5. CASE Budgets[t].daily_call_budget = 0
        BY <2>2, <2>4, <2>5 DEF Promise!Reaches, Promise!TwoWindows
    <2>6. CASE Budgets[t].daily_call_budget # 0
        <3>1. Budgets[t].daily_call_budget > 0
            BY <2>6, BudgetsAreNumbers
        <3>2. Cardinality(Promise!Within(t, Day)) < 2 * Budgets[t].daily_call_budget - 1
            BY <1>1, <3>1, RoomInTheDay
        <3>3. Promise!Within(t, Day) \in SUBSET ServedFor(t)
            BY DEF Promise!Within, ServedFor
        <3>4. Cardinality(Promise!Within(t, Day)) \in Nat
            BY <3>3, ServedForFinite DEF IInv
        <3>5. ~Promise!Reaches(Cardinality(Promise!Within(t, Day)),
                               Promise!TwoWindows(Budgets[t].daily_call_budget))
            BY <2>6, <3>2, <3>4, BudgetsAreNumbers DEF Promise!Reaches, Promise!TwoWindows
        <3>6. QED  BY <2>2, <2>4, <3>5
    <2>7. QED  BY <2>5, <2>6
<1>2. Promise!Room(ToolOf[c])
    BY <1>1, SameCount DEF Promise!Room, Budgeted
<1>3. QED  BY <1>2 DEF Admit, Promise!LetThrough

LEMMA RefuseImplements ==
    ASSUME IInv, NEW c \in Calls, Refuse(c)
    PROVE  Promise!TurnAway(c)
<1>1. PICK t \in Budgeted : t = ToolOf[c] /\ Limit(t, now) # "none"
    BY DEF Refuse, Limit
<1>2. MinuteFull(t, now) \/ DaySpent(t, now) \/ SlotsTaken(t)
    BY <1>1 DEF Limit
<1>3. MinuteFull(t, now) =>
          Promise!Reaches(Cardinality(Promise!Within(t, Minute)), Budgets[t].calls_per_minute)
    BY LastMinute DEF IInv, MinuteFull, Promise!Reaches
<1>4. DaySpent(t, now) =>
          Promise!Reaches(Cardinality(Promise!Within(t, Day)), Budgets[t].daily_call_budget)
    BY SpentInTheDay DEF DaySpent, Promise!Reaches
<1>5. SlotsTaken(t) =>
          Promise!Reaches(Cardinality(Promise!Running(t)), Budgets[t].max_concurrent)
    <2>1. Promise!Running(t) = InFlight(t)
        BY DEF Promise!Running, InFlight
    <2>2. QED  BY <2>1 DEF IInv, SlotsMatchCalls, SlotsTaken, Promise!Reaches
<1>6. Promise!Exhausted(t)
    BY <1>2, <1>3, <1>4, <1>5, SameCount DEF Promise!Exhausted, Budgeted
<1>7. QED  BY <1>1, <1>6 DEF Refuse, Promise!TurnAway

\* Every step of the counters is a step of the account that has none: a call is let through
\* when there is room, and turned away only when calls that happened reach a limit.
THEOREM PromiseKept == Spec => KeepsPromise
<1>1. Init => Promise!Init
    BY DEF Init, Promise!Init
<1>2. IInv /\ IInv' /\ [Next]_vars => [Promise!Next]_(Promise!vars)
    <2> SUFFICES ASSUME IInv, IInv', [Next]_vars
                 PROVE  Promise!Next \/ UNCHANGED Promise!vars
        OBVIOUS
    <2>1. ASSUME NEW c \in Calls, Release(c)
          PROVE  Promise!End(c)
        BY <2>1 DEF Release, Promise!End
    <2>2. Restart => Promise!Forget
        BY DEF Restart, Promise!Forget
    <2>3. Tick => Promise!Pass
        BY DEF Tick, Promise!Pass
    <2>4. UNCHANGED vars => UNCHANGED Promise!vars
        BY DEF vars, Promise!vars
    <2>5. QED
        BY <2>1, <2>2, <2>3, <2>4, AdmitImplements, RefuseImplements DEF Next, Promise!Next
<1>3. QED  BY <1>1, <1>2, Inductive, PTL DEF Spec, KeepsPromise, Promise!Spec
=============================================================================
