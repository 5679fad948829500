---------------------------- MODULE MCCallTwice ----------------------------
(***************************************************************************)
(* CallTwice with a destructive tool called with two sets of arguments,    *)
(* and a read, which needs no confirmation, under all three limits.        *)
(***************************************************************************)
EXTENDS CallTwice, Sequences, TLC

CONSTANTS c1, c2, c3, c4, r1, r2, r3, r4, k1, k2, k3, removeItem, lookUp,
    GateHorizon     \* the bound on the clock once the gate is in use

MCTools == {removeItem, lookUp}
MCGated == {removeItem}
MCTokens == {k1, k2, k3}
MCRemovals == {c1, c2, c3, c4}
MCReads == {r1, r2, r3, r4}
MCCalls == MCRemovals \union MCReads
MCTokenOf == [c \in MCCalls |->
    CASE c \in {c1, c2, c3} -> k1 [] c = c4 -> k2 [] c \in MCReads -> k3]
MCToolOf == [c \in MCCalls |-> IF c \in MCReads THEN lookUp ELSE removeItem]
MCBudgets ==
    removeItem :> [calls_per_minute |-> 1, daily_call_budget |-> 2, max_concurrent |-> 1]
        @@ lookUp :> [calls_per_minute |-> 2, daily_call_budget |-> 2, max_concurrent |-> 1]

\* Calls that are alike are named in the order they arrive in, which loses
\* no behaviour but for the names.
NamedInTurn(inTurn) ==
    \A i \in 1..(Len(inTurn) - 1) : answer[inTurn[i]] = "none" => answer[inTurn[i + 1]] = "none"

\* The bound on what happens at once: the reads exercise the limits over
\* several days, the removals the gate over a few units with one read beside
\* them.  The two tools share the clock and a restart, and no counter.
OneToolBusy ==
    /\ NamedInTurn(<<c1, c2, c3>>)
    /\ NamedInTurn(<<r1, r2, r3, r4>>)
    /\ \/ \A c \in MCRemovals : answer[c] = "none"
       \/ /\ now <= GateHorizon
          /\ \A c \in MCReads : answer[c] # "none" => c = r1
=============================================================================
