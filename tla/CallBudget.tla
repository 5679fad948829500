----------------------------- MODULE CallBudget -----------------------------
(***************************************************************************)
(* The call budgets of one generated server process: `_reserve` and        *)
(* `_release` of the runtime that codegen/mcp_server.py (and, word for     *)
(* word, codegen/soap_server.py) writes into every server it emits.        *)
(*                                                                       *)
(* A tool call that has passed argument validation and the confirmation    *)
(* gate asks `_reserve` for one call out of its tool's budget.  The        *)
(* function runs without an await, so it is one atomic step of the event   *)
(* loop: it refuses the call, changing nothing, or stamps it, counts it    *)
(* against the day and takes a concurrency slot.  The slot is given back   *)
(* by `_release` in a `finally`, whichever way the call ends.              *)
(*                                                                       *)
(* A stamp is the admission time of one call, so `_RECENT[tool]` is        *)
(* modelled as the set of calls whose stamps it holds.  Time is the        *)
(* process's monotonic clock in whole units.                               *)
(***************************************************************************)
EXTENDS Integers, FiniteSets

CONSTANTS
    Tools,      \* the registered tools
    Calls,      \* the calls that reach `_reserve`, each of them once
    ToolOf,     \* which tool a call is for
    Budgets,    \* `_BUDGETS`; a tool outside its domain has no policy
    Minute,     \* `_MINUTE`, in clock units
    Day,        \* `_DAY`, in clock units
    Unit,       \* a millisecond, the precision of a reported wait, in clock units
    Horizon     \* the bound on the clock

\* A limit the policy leaves unset is not written, and is read back as 0.
Budget == [calls_per_minute : Nat, daily_call_budget : Nat, max_concurrent : Nat]

ASSUME ToolAssumption == ToolOf \in [Calls -> Tools]
ASSUME BudgetAssumption ==
    /\ DOMAIN Budgets \subseteq Tools
    /\ Budgets \in [DOMAIN Budgets -> Budget]
ASSUME ClockAssumption ==
    /\ Minute \in Nat \ {0}
    /\ Day \in Nat \ {0}
    /\ Unit \in Nat \ {0}
    /\ Horizon \in Nat

VARIABLES
    now,        \* time.monotonic()
    phase,      \* how far each call has come
    at,         \* the stamp of each admitted call
    served,     \* history: the calls this process has admitted
    recent,     \* `_RECENT`: the calls whose stamps are kept, per tool
    daily,      \* `_DAILY`: when the day's window opened, what it has spent
    active      \* `_ACTIVE`: calls in flight, per tool

counters == <<recent, daily, active>>
vars == <<now, phase, at, served, counters>>

Budgeted == DOMAIN Budgets

\* No entry in `_DAILY`: `get(tool, (now, 0))` reads as a window opened now
\* with nothing spent, which is what a window a whole day old turns into.
Unopened == [opened |-> -Day, spent |-> 0]

TypeOK ==
    /\ now \in Nat
    /\ phase \in [Calls -> {"new", "running", "done", "refused"}]
    /\ at \in [Calls -> Nat]
    /\ served \subseteq Calls
    /\ recent \in [Budgeted -> SUBSET Calls]
    /\ daily \in [Budgeted -> [opened : Int, spent : Nat]]
    /\ active \in [Budgeted -> Nat]

Init ==
    /\ now = 0
    /\ phase = [c \in Calls |-> "new"]
    /\ at = [c \in Calls |-> 0]
    /\ served = {}
    /\ recent = [t \in Budgeted |-> {}]
    /\ daily = [t \in Budgeted |-> Unopened]
    /\ active = [t \in Budgeted |-> 0]
-----------------------------------------------------------------------------
(***************************************************************************)
(* What `_reserve` decides, as a function of the time it is asked at.      *)
(***************************************************************************)

\* Mutant of Recent: a stamp is dropped one unit early.
RecentTooShort(t, when) == {c \in recent[t] : when - at[c] < Minute - 1}

\* The stamps that survive the pruning at the top of `_reserve`.
Recent(t, when) == {c \in recent[t] : when - at[c] < Minute}

\* Mutant of Window: the window is reopened one unit early.
WindowTooShort(t, when) ==
    IF when - daily[t].opened >= Day - 1 THEN [opened |-> when, spent |-> 0]
                                         ELSE daily[t]

\* The day's window after a stale one has been reopened.
Window(t, when) ==
    IF when - daily[t].opened >= Day THEN [opened |-> when, spent |-> 0]
                                     ELSE daily[t]

Charged(window) == [opened |-> window.opened, spent |-> window.spent + 1]

\* Mutant of MinuteFull: full only once the limit is exceeded.
MinuteOverfull(t, when) ==
    /\ Budgets[t].calls_per_minute > 0
    /\ Cardinality(Recent(t, when)) > Budgets[t].calls_per_minute

MinuteFull(t, when) ==
    /\ Budgets[t].calls_per_minute > 0
    /\ Cardinality(Recent(t, when)) >= Budgets[t].calls_per_minute

DaySpent(t, when) ==
    /\ Budgets[t].daily_call_budget > 0
    /\ Window(t, when).spent >= Budgets[t].daily_call_budget

\* Mutant of SlotsTaken: taken only once the limit is exceeded.
SlotsOvertaken(t) ==
    /\ Budgets[t].max_concurrent > 0
    /\ active[t] > Budgets[t].max_concurrent

SlotsTaken(t) ==
    /\ Budgets[t].max_concurrent > 0
    /\ active[t] >= Budgets[t].max_concurrent

\* The limit a refusal names: the first that is reached, in the code's order.
Limit(t, when) ==
    IF t \notin Budgeted THEN "none"
    ELSE IF MinuteFull(t, when) THEN "calls_per_minute"
    ELSE IF DaySpent(t, when) THEN "daily_call_budget"
    ELSE IF SlotsTaken(t) THEN "max_concurrent"
    ELSE "none"

\* `recent[0]`: stamps are appended in time order, so it is the oldest.
Oldest(t, when) ==
    CHOOSE s \in {at[c] : c \in Recent(t, when)} :
        \A c \in Recent(t, when) : s <= at[c]

\* `round(seconds, 3)`: the nearest whole millisecond, the even one of two.
Rounded(span) ==
    LET whole == span \div Unit
        rest  == span % Unit
        up    == 2 * rest > Unit \/ (2 * rest = Unit /\ whole % 2 = 1)
    IN  Unit * (IF up THEN whole + 1 ELSE whole)

\* Mutant of Remaining: counts from the newest stamp, `recent[-1]`.
RemainingOfNewest(t, when) ==
    IF Limit(t, when) = "calls_per_minute"
    THEN LET newest == CHOOSE s \in {at[c] : c \in Recent(t, when)} :
                            \A c \in Recent(t, when) : s >= at[c]
         IN  Minute - (when - newest)
    ELSE Day - (when - daily[t].opened)

\* How long one of the two limits that lift with time still holds.
Remaining(t, when) ==
    IF Limit(t, when) = "calls_per_minute"
    THEN Minute - (when - Oldest(t, when))
    ELSE Day - (when - daily[t].opened)

\* `retry_after_seconds`, for those two limits.
RetryAfter(t, when) == Rounded(Remaining(t, when))
-----------------------------------------------------------------------------
\* `_reserve` finds room: stamp, count against the day, take a slot.
Admit(c) ==
    LET t == ToolOf[c] IN
    /\ phase[c] = "new"
    /\ Limit(t, now) = "none"
    /\ phase' = [phase EXCEPT ![c] = "running"]
    /\ at' = [at EXCEPT ![c] = now]
    /\ served' = served \union {c}
    /\ IF t \in Budgeted
       THEN /\ recent' = [recent EXCEPT ![t] = Recent(t, now) \union {c}]
            /\ daily' = [daily EXCEPT ![t] = Charged(Window(t, now))]
            /\ active' = [active EXCEPT ![t] = @ + 1]
       ELSE UNCHANGED counters
    /\ UNCHANGED now

\* `_reserve` refuses: nothing it pruned or reopened is stored.
Refuse(c) ==
    /\ phase[c] = "new"
    /\ Limit(ToolOf[c], now) # "none"
    /\ phase' = [phase EXCEPT ![c] = "refused"]
    /\ UNCHANGED <<now, at, served, counters>>

\* Mutant of Release: the slot is given back only when the call succeeded.
ReleaseOnSuccess(c) ==
    /\ phase[c] = "running"
    /\ phase' = [phase EXCEPT ![c] = "done"]
    /\ active' \in {[t \in Budgeted |-> IF t = ToolOf[c] THEN active[t] - 1 ELSE active[t]],
                    active}
    /\ UNCHANGED <<now, at, served, recent, daily>>

\* Mutant of Release: given back in the `except` and again in the `finally`,
\* without the floor at zero.
ReleaseTwice(c) ==
    /\ phase[c] = "running"
    /\ phase' = [phase EXCEPT ![c] = "done"]
    /\ active' = [t \in Budgeted |-> IF t = ToolOf[c] THEN active[t] - 2 ELSE active[t]]
    /\ UNCHANGED <<now, at, served, recent, daily>>

\* `_release`, in the `finally` of `_invoke`: a result, a failed step, an
\* exception and a cancellation all end here.
Release(c) ==
    LET t == ToolOf[c] IN
    /\ phase[c] = "running"
    /\ phase' = [phase EXCEPT ![c] = "done"]
    /\ active' = IF t \in Budgeted
                 THEN [active EXCEPT ![t] = IF @ > 0 THEN @ - 1 ELSE 0]
                 ELSE active
    /\ UNCHANGED <<now, at, served, recent, daily>>

\* The process is restarted: the calls in flight are gone, and so is every
\* count, which lives in module variables of the process.
Restart ==
    /\ served # {}
    /\ phase' = [c \in Calls |-> IF phase[c] = "running" THEN "done" ELSE phase[c]]
    /\ served' = {}
    /\ recent' = [t \in Budgeted |-> {}]
    /\ daily' = [t \in Budgeted |-> Unopened]
    /\ active' = [t \in Budgeted |-> 0]
    /\ at' = [c \in Calls |-> 0]
    /\ UNCHANGED now

Tick ==
    /\ now < Horizon
    /\ now' = now + 1
    /\ UNCHANGED <<phase, at, served, counters>>

Next ==
    \/ \E c \in Calls : Admit(c) \/ Refuse(c) \/ Release(c)
    \/ Restart
    \/ Tick

Spec == Init /\ [][Next]_vars
-----------------------------------------------------------------------------
ServedFor(t) == {c \in served : ToolOf[c] = t}
InFlight(t) == {c \in Calls : phase[c] = "running" /\ ToolOf[c] = t}

\* In no minute, wherever it starts, does one process let through more calls
\* of a tool than its `calls_per_minute`, although `_reserve` throws stamps
\* away as it goes and never looks at more than the ones it kept.
MinuteBound ==
    \A t \in Budgeted : Budgets[t].calls_per_minute > 0 =>
        \A w \in 0..now :
            Cardinality({c \in ServedFor(t) : w <= at[c] /\ at[c] < w + Minute})
                <= Budgets[t].calls_per_minute

\* The day is a window that opens with the first call after the last one
\* closed, so two of them can meet: a stretch of one day that holds calls of
\* both misses the opening call of the first, and holds at most one call less
\* than twice the daily budget.
DayBound ==
    \A t \in Budgeted : Budgets[t].daily_call_budget > 0 =>
        \A w \in 0..now :
            Cardinality({c \in ServedFor(t) : w <= at[c] /\ at[c] < w + Day})
                <= 2 * Budgets[t].daily_call_budget - 1

\* The slot count is the calls in flight: none leaks when a call fails and
\* none is given back twice, across refusals, failures and restarts.
SlotsMatchCalls ==
    \A t \in Budgeted : active[t] = Cardinality(InFlight(t))

\* No more than `max_concurrent` calls of a tool are ever in flight.
ConcurrencyBound ==
    \A t \in Budgeted : Budgets[t].max_concurrent > 0 =>
        Cardinality(InFlight(t)) <= Budgets[t].max_concurrent

\* A refusal names a limit and when it lifts, to half a millisecond either
\* way: asked again any sooner than that before the moment it names the tool is
\* refused still, and asked that much after it the limit is no longer the
\* reason.  Rounding can name a moment that is too early, and 0 for "now".
RetryAfterIsNear ==
    \A t \in Budgeted :
        Limit(t, now) \in {"calls_per_minute", "daily_call_budget"} =>
            \A s \in 0..(RetryAfter(t, now) + Unit) :
                /\ 2 * s < 2 * RetryAfter(t, now) - Unit => Limit(t, now + s) = Limit(t, now)
                /\ 2 * s >= 2 * RetryAfter(t, now) + Unit => Limit(t, now + s) # Limit(t, now)

\* A tool whose slots are all taken gets one back.
SlotsComeBack == \A t \in Budgeted : []<>(~SlotsTaken(t))

\* The reader's account of the same limits, which the counters implement.
Promise == INSTANCE FairBudget
KeepsPromise == Promise!Spec
=============================================================================
