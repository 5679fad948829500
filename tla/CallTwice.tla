------------------------------ MODULE CallTwice ------------------------------
(***************************************************************************)
(* A server generated for the 1.x target, up to the point where a call     *)
(* reaches the service: the first half of `_invoke` in                     *)
(* codegen/mcp_server.py, over the budgets of CallBudget.                  *)
(*                                                                       *)
(* A gated tool runs when it is called twice with the same arguments: the  *)
(* first call leaves a deadline in `_CONFIRMED` under a digest of the tool *)
(* and its arguments, the second takes it out.  Validation, the            *)
(* confirmation and `_reserve` follow one another without an await, so a   *)
(* call gets from its arrival to its budget in one step.                   *)
(***************************************************************************)
EXTENDS CallBudget

CONSTANTS
    Tokens,     \* digests of a tool and arguments
    TokenOf,    \* the digest of each call
    Gated,      \* the tools whose policy requires confirmation
    Ttl         \* `confirmation_ttl_seconds`, in clock units

ASSUME TokenAssumption ==
    /\ TokenOf \in [Calls -> Tokens]
    /\ \A c, d \in Calls : TokenOf[c] = TokenOf[d] => ToolOf[c] = ToolOf[d]
    /\ Gated \subseteq Tools
ASSUME TtlAssumption == Ttl \in Nat \ {0}

VARIABLES
    confirmed,  \* `_CONFIRMED`: the deadline of each token; 0: no entry
    answer,     \* what became of each call before `_reserve`
    askedAt     \* history: when each call that was sent back was

gateVars == <<confirmed, answer, askedAt>>

GateTypeOK ==
    /\ TypeOK
    /\ confirmed \in [Tokens -> Nat]
    /\ answer \in [Calls -> {"none", "invalid", "confirmation_required", "passed"}]
    /\ askedAt \in [Calls -> Nat]

GateInit ==
    /\ Init
    /\ confirmed = [k \in Tokens |-> 0]
    /\ answer = [c \in Calls |-> "none"]
    /\ askedAt = [c \in Calls |-> 0]
-----------------------------------------------------------------------------
\* Mutant of Live: the deadline is not looked at.
LiveForever(k) == confirmed[k] # 0

\* A deadline that has been reached is lapsed.
Live(k) == confirmed[k] > now

\* The schema refuses the arguments, before anything else is looked at.
Invalid(c) ==
    /\ answer[c] = "none"
    /\ answer' = [answer EXCEPT ![c] = "invalid"]
    /\ UNCHANGED <<vars, confirmed, askedAt>>

\* Mutant of AskAgain: lapsed tokens are left where they are.
AskWithoutPruning(c) ==
    /\ answer[c] = "none"
    /\ ToolOf[c] \in Gated
    /\ ~Live(TokenOf[c])
    /\ confirmed' = [confirmed EXCEPT ![TokenOf[c]] = now + Ttl]
    /\ answer' = [answer EXCEPT ![c] = "confirmation_required"]
    /\ askedAt' = [askedAt EXCEPT ![c] = now]
    /\ UNCHANGED vars

\* Mutant of AskAgain: the budget is taken before the confirmation is asked.
AskAfterReserve(c) ==
    /\ answer[c] = "none"
    /\ ToolOf[c] \in Gated
    /\ ~Live(TokenOf[c])
    /\ Admit(c) \/ Refuse(c)
    /\ confirmed' = [confirmed EXCEPT ![TokenOf[c]] = now + Ttl]
    /\ answer' = [answer EXCEPT ![c] = "confirmation_required"]
    /\ askedAt' = [askedAt EXCEPT ![c] = now]

\* No token, or a lapsed one: everything lapsed is dropped, the token is
\* issued again, and the call is sent back.
AskAgain(c) ==
    /\ answer[c] = "none"
    /\ ToolOf[c] \in Gated
    /\ ~Live(TokenOf[c])
    /\ confirmed' = [k \in Tokens |->
            IF k = TokenOf[c] THEN now + Ttl ELSE IF Live(k) THEN confirmed[k] ELSE 0]
    /\ answer' = [answer EXCEPT ![c] = "confirmation_required"]
    /\ askedAt' = [askedAt EXCEPT ![c] = now]
    /\ UNCHANGED vars

\* Mutant of Pass: the token is read and left.
PassKeepsToken(c) ==
    /\ answer[c] = "none"
    /\ ToolOf[c] \in Gated => Live(TokenOf[c])
    /\ answer' = [answer EXCEPT ![c] = "passed"]
    /\ Admit(c) \/ Refuse(c)
    /\ UNCHANGED <<confirmed, askedAt>>

\* The token is popped, whatever `_reserve` then decides.
Pass(c) ==
    /\ answer[c] = "none"
    /\ IF ToolOf[c] \in Gated
       THEN /\ Live(TokenOf[c])
            /\ confirmed' = [confirmed EXCEPT ![TokenOf[c]] = 0]
       ELSE UNCHANGED confirmed
    /\ answer' = [answer EXCEPT ![c] = "passed"]
    /\ Admit(c) \/ Refuse(c)
    /\ UNCHANGED askedAt

Finish(c) == Release(c) /\ UNCHANGED gateVars

\* The tokens live in the process, like the counts.
Reboot ==
    /\ Restart \/ (served = {} /\ UNCHANGED vars)
    /\ confirmed' = [k \in Tokens |-> 0]
    /\ UNCHANGED <<answer, askedAt>>

Wait == Tick /\ UNCHANGED gateVars

GateNext ==
    \/ \E c \in Calls : Invalid(c) \/ AskAgain(c) \/ Pass(c) \/ Finish(c)
    \/ Reboot
    \/ Wait

GateSpec == GateInit /\ [][GateNext]_<<vars, gateVars>>

\* Every admitted call ends, and its `finally` gives the slot back.
GateFairSpec == GateSpec /\ \A c \in Calls : WF_<<vars, gateVars>>(Finish(c))
-----------------------------------------------------------------------------
With(k, result) == {c \in Calls : TokenOf[c] = k /\ answer[c] = result}
GatedTokens == {TokenOf[c] : c \in {d \in Calls : ToolOf[d] \in Gated}}

\* One confirmation lets one call past the gate: calls of the same tool with
\* the same arguments, from any client and in any order, never get past more
\* often than they were sent back.
OnePassPerQuestion ==
    \A k \in GatedTokens :
        Cardinality(With(k, "passed")) <= Cardinality(With(k, "confirmation_required"))

\* A call gets past the gate only while a question put less than a time to
\* live ago, by this very process, stands unspent.
PassesInTime ==
    [][\A c \in Calls :
            answer[c] = "none" /\ answer'[c] = "passed" /\ ToolOf[c] \in Gated =>
                \E d \in With(TokenOf[c], "confirmation_required") :
                    /\ askedAt[d] <= now
                    /\ now < askedAt[d] + Ttl
                    /\ confirmed[TokenOf[c]] = askedAt[d] + Ttl]_<<vars, gateVars>>

\* A token nobody spends is dropped: no entry lives on past a question that
\* was put after its deadline.
LapsedTokensGo ==
    \A k \in Tokens : confirmed[k] # 0 =>
        \A c \in Calls : answer[c] = "confirmation_required" => askedAt[c] < confirmed[k]

\* The budget is spent by calls that got past the gate, and by no other: an
\* invalid call and one that is sent back take no slot, no stamp and nothing
\* from the day.
OnlyPassedCallsCount ==
    \A t \in Budgeted :
        /\ recent[t] \subseteq {c \in Calls : answer[c] = "passed"}
        /\ daily[t].spent <= Cardinality({c \in served : ToolOf[c] = t /\ answer[c] = "passed"})
        /\ active[t] <= Cardinality({c \in served : ToolOf[c] = t /\ answer[c] = "passed"})
=============================================================================
