----------------------------- MODULE FairBudget -----------------------------
(***************************************************************************)
(* What the call budgets promise, told from the calls that were let        *)
(* through and when, without any counter: the policy's three limits as a   *)
(* reader of the manifest understands them.  A call is let through only    *)
(* when the limits have room for it, and is refused only when one of them  *)
(* has not.  CallBudget keeps pruned counters and implements this.         *)
(***************************************************************************)
EXTENDS Integers, FiniteSets

CONSTANTS Tools, Calls, ToolOf, Budgets, Minute, Day, Horizon

VARIABLES now, phase, at, served

vars == <<now, phase, at, served>>

\* The calls of a tool let through in the last `span` units.
Within(t, span) == {c \in served : ToolOf[c] = t /\ now - at[c] < span}
Running(t) == {c \in Calls : phase[c] = "running" /\ ToolOf[c] = t}

\* `count` calls reach `limit`, when there is one.
Reaches(count, limit) == limit > 0 /\ count >= limit

Init ==
    /\ now = 0
    /\ phase = [c \in Calls |-> "new"]
    /\ at = [c \in Calls |-> 0]
    /\ served = {}

\* What two of the day's windows can let through inside one day: the first
\* opens with a call, which is a whole day old when the second opens.
TwoWindows(daily) == IF daily = 0 THEN 0 ELSE 2 * daily - 1

\* There is room: the last minute and the slots exactly, the last day up to
\* the two windows that can meet in it.
Room(t) ==
    t \in DOMAIN Budgets =>
        /\ ~Reaches(Cardinality(Within(t, Minute)), Budgets[t].calls_per_minute)
        /\ ~Reaches(Cardinality(Running(t)), Budgets[t].max_concurrent)
        /\ ~Reaches(Cardinality(Within(t, Day)), TwoWindows(Budgets[t].daily_call_budget))

\* A limit has been reached by calls that really happened.
Exhausted(t) ==
    /\ t \in DOMAIN Budgets
    /\ \/ Reaches(Cardinality(Within(t, Minute)), Budgets[t].calls_per_minute)
       \/ Reaches(Cardinality(Running(t)), Budgets[t].max_concurrent)
       \/ Reaches(Cardinality(Within(t, Day)), Budgets[t].daily_call_budget)

LetThrough(c) ==
    /\ phase[c] = "new"
    /\ Room(ToolOf[c])
    /\ phase' = [phase EXCEPT ![c] = "running"]
    /\ at' = [at EXCEPT ![c] = now]
    /\ served' = served \union {c}
    /\ UNCHANGED now

TurnAway(c) ==
    /\ phase[c] = "new"
    /\ Exhausted(ToolOf[c])
    /\ phase' = [phase EXCEPT ![c] = "refused"]
    /\ UNCHANGED <<now, at, served>>

End(c) ==
    /\ phase[c] = "running"
    /\ phase' = [phase EXCEPT ![c] = "done"]
    /\ UNCHANGED <<now, at, served>>

\* A new process remembers no calls.
Forget ==
    /\ served # {}
    /\ phase' = [c \in Calls |-> IF phase[c] = "running" THEN "done" ELSE phase[c]]
    /\ served' = {}
    /\ at' = [c \in Calls |-> 0]
    /\ UNCHANGED now

Pass ==
    /\ now < Horizon
    /\ now' = now + 1
    /\ UNCHANGED <<phase, at, served>>

Next ==
    \/ \E c \in Calls : LetThrough(c) \/ TurnAway(c) \/ End(c)
    \/ Forget
    \/ Pass

Spec == Init /\ [][Next]_vars
=============================================================================
