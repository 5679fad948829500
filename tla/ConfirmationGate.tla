--------------------------- MODULE ConfirmationGate ---------------------------
(***************************************************************************)
(* The confirmation gate of a generated server on the 2.x target:          *)
(* `_state_security`, `_confirmed` and `_spend` of SURFACE_CLASS_V2 in     *)
(* codegen/registration.py, over the processes that serve one gated tool.  *)
(*                                                                       *)
(* A call of the tool without an answer is sent back with a sealed state   *)
(* holding a fresh nonce and the time it was issued.  The client shows it  *)
(* to a person and calls again with the state and the answer, on any       *)
(* process, possibly several times.  A process that can open the seal      *)
(* checks the time, spends the nonce, and only then looks at what was      *)
(* typed.  Spending is a set lookup in the process, or a SET NX PX in a    *)
(* Redis record that all the processes share: an await, during which time  *)
(* passes and other calls run, and which can fail after it was applied.    *)
(*                                                                       *)
(* A restart of a replica is the crash of one process and the first call   *)
(* of another.  Sealing is the SDK's: a state is bound to the tool, the    *)
(* arguments and the caller, so one tool called with one set of arguments  *)
(* by one caller is modelled, and a process without the key that sealed a  *)
(* state refuses it.                                                       *)
(***************************************************************************)
EXTENDS Integers, FiniteSets, Sequences

CONSTANTS
    Tools,       \* candidate gated tools: the idempotency of each step
    Processes,   \* the processes, over all restarts
    Calls,       \* the calls of the tool, the retries among them included
    Nonces,      \* `secrets.token_hex(16)`
    SharedKey,   \* a key every process holds
    Ttl,         \* the gate's `ttl`
    Grace,       \* the 60_000 ms `_spend` adds to the record's expiry
    Skew,        \* how far apart two readings of time.time() can be
    SpendDelay,  \* how long a SET can be under way (socket_timeout=5)
    Horizon      \* the bound on the clock

Steps == {"idempotent", "non_idempotent", "unknown"}

ASSUME ToolAssumption == Tools \subseteq Seq(Steps) \ {<<>>}
ASSUME KeyAssumption == SharedKey \notin Processes \union Nonces
ASSUME TimeAssumption ==
    /\ Ttl \in Nat /\ Grace \in Nat /\ Skew \in Nat
    /\ SpendDelay \in Nat /\ Horizon \in Nat
\* The record outlives the sealed state, whoever's clock is asked.
ASSUME GraceAssumption == Skew + SpendDelay < Grace

VARIABLES
    now,       \* real time
    config,    \* the tool and the environment the processes started in
    up,        \* the processes that have not crashed
    sealed,    \* the sealed states clients hold, by nonce
    spent,     \* `_SPENT`, per process
    record,    \* when the shared record's key for a nonce expires; 0: no key
    phase,     \* how far each call has come, or what it returned
    at,        \* the process a call was sent to
    nonce,     \* the nonce a call presents
    since      \* when a call started to spend its nonce

callVars == <<phase, at, nonce, since>>
vars == <<now, config, up, sealed, spent, record, callVars>>

Unsealed == [key |-> SharedKey, issued |-> 0, asked |-> 0, open |-> FALSE]
NoNonce == SharedKey  \* any value that is not a nonce

Waiting == {"eliciting", "spending", "won", "lost"}
Results == {"input_required", "ran", "mistyped", "declined", "unavailable",
            "unopened", "confirmation_expired", "confirmation_spent",
            "confirmation_unrecorded", "dead"}

TypeOK ==
    /\ now \in Nat
    /\ config \in [key : {"unset", "ephemeral", "shared"},
                   record : {"unset", "reachable", "unreachable"}, tool : Tools]
    /\ up \subseteq Processes
    /\ sealed \in [Nonces -> [key : Processes \union {SharedKey},
                              issued : Nat, asked : Nat, open : BOOLEAN]]
    /\ spent \in [Processes -> SUBSET Nonces]
    /\ record \in [Nonces -> Nat]
    /\ phase \in [Calls -> {"new"} \union Waiting \union Results]
    /\ at \in [Calls -> Processes \union {SharedKey}]
    /\ nonce \in [Calls -> Nonces \union {NoNonce}]
    /\ since \in [Calls -> Nat]
-----------------------------------------------------------------------------
(***************************************************************************)
(* Starting.                                                               *)
(***************************************************************************)

\* `annotations.idempotent`, which `confirmation_gates` copies into the gate:
\* it is read off the tool's first source operation.
GateIdempotent(tool) == Head(tool) = "idempotent"

\* `_state_security` and `_open_record` let a process start.
Starts(env) ==
    /\ env.key # "unset"
    /\ env.record # "unreachable"
    /\ \/ env.key = "ephemeral"
       \/ GateIdempotent(env.tool)
       \/ env.record = "reachable"

HasRecord == config.record = "reachable"

\* The key a process seals with: the SDK's own random one, or the shared one.
KeyOf(p) == IF config.key = "ephemeral" THEN p ELSE SharedKey

Init ==
    /\ now = 0
    /\ config \in {env \in [key : {"unset", "ephemeral", "shared"},
                            record : {"unset", "reachable", "unreachable"},
                            tool : Tools] : Starts(env)}
    /\ up = Processes
    /\ sealed = [n \in Nonces |-> Unsealed]
    /\ spent = [p \in Processes |-> {}]
    /\ record = [n \in Nonces |-> 0]
    /\ phase = [c \in Calls |-> "new"]
    /\ at = [c \in Calls |-> SharedKey]
    /\ nonce = [c \in Calls |-> NoNonce]
    /\ since = [c \in Calls |-> 0]
-----------------------------------------------------------------------------
(***************************************************************************)
(* Handling a call.                                                        *)
(***************************************************************************)

\* A new call is sent to a live process, which takes it to phase `ph`.
Take(c, p, n, ph) ==
    /\ phase[c] = "new"
    /\ p \in up
    /\ phase' = [phase EXCEPT ![c] = ph]
    /\ at' = [at EXCEPT ![c] = p]
    /\ nonce' = [nonce EXCEPT ![c] = n]

Settle(c, ph) ==
    /\ phase' = [phase EXCEPT ![c] = ph]
    /\ since' = IF ph \in Results THEN [since EXCEPT ![c] = 0] ELSE since
    /\ UNCHANGED <<at, nonce>>

\* The client cannot show a person anything.
Unavailable(c, p) ==
    /\ Take(c, p, NoNonce, "unavailable")
    /\ UNCHANGED <<now, config, up, sealed, spent, record, since>>

\* A client on an earlier protocol is asked in the middle of the call...
Elicit(c, p) ==
    /\ Take(c, p, NoNonce, "eliciting")
    /\ UNCHANGED <<now, config, up, sealed, spent, record, since>>

\* ... and what it answers concerns this call and no other.
ElicitAnswer(c) ==
    /\ phase[c] = "eliciting"
    /\ \E ph \in {"ran", "mistyped", "declined"} : Settle(c, ph)
    /\ UNCHANGED <<now, config, up, sealed, spent, record>>

\* A call with no answer in it is sent back with a fresh sealed state.
Ask(c, p, n) ==
    /\ Take(c, p, n, "input_required")
    /\ ~sealed[n].open
    /\ \E reading \in now..(now + Skew) :
            sealed' = [sealed EXCEPT ![n] =
                [key |-> KeyOf(p), issued |-> reading, asked |-> now, open |-> TRUE]]
    /\ UNCHANGED <<now, config, up, spent, record, since>>

\* The SDK refuses a state this process has no key for.
CannotOpen(c, p, n) ==
    /\ sealed[n].open
    /\ sealed[n].key # KeyOf(p)
    /\ Take(c, p, n, "unopened")
    /\ UNCHANGED <<now, config, up, sealed, spent, record, since>>

Opens(p, n) == sealed[n].open /\ sealed[n].key = KeyOf(p)

\* Mutant of Expired: the record's grace is allowed to the state as well.
ExpiredWithGrace(n, reading) == reading - sealed[n].issued > Ttl + Grace

Expired(n, reading) == reading - sealed[n].issued > Ttl

PresentExpired(c, p, n) ==
    /\ Opens(p, n)
    /\ \E reading \in now..(now + Skew) : Expired(n, reading)
    /\ Take(c, p, n, "confirmation_expired")
    /\ UNCHANGED <<now, config, up, sealed, spent, record, since>>

\* Declining or cancelling spends nothing.
PresentDeclined(c, p, n) ==
    /\ Opens(p, n)
    /\ \E reading \in now..(now + Skew) : ~Expired(n, reading)
    /\ Take(c, p, n, "declined")
    /\ UNCHANGED <<now, config, up, sealed, spent, record, since>>

\* Mutant of PresentLocally: what was typed is compared before the nonce is
\* spent, so a mistyped answer can be tried again.
PresentAndCompareFirst(c, p, n) ==
    /\ ~HasRecord
    /\ Opens(p, n)
    /\ \E reading \in now..(now + Skew) : ~Expired(n, reading)
    /\ \/ Take(c, p, n, "mistyped") /\ UNCHANGED spent
       \/ n \in spent[p] /\ Take(c, p, n, "confirmation_spent") /\ UNCHANGED spent
       \/ /\ n \notin spent[p]
          /\ Take(c, p, n, "ran")
          /\ spent' = [spent EXCEPT ![p] = @ \union {n}]
    /\ UNCHANGED <<now, config, up, sealed, record, since>>

\* Accepting, without a shared record: the lookup in `_SPENT`, the insertion
\* and the comparison of what was typed are one step of the event loop.
PresentLocally(c, p, n) ==
    /\ ~HasRecord
    /\ Opens(p, n)
    /\ \E reading \in now..(now + Skew) : ~Expired(n, reading)
    /\ IF n \in spent[p]
       THEN /\ Take(c, p, n, "confirmation_spent")
            /\ UNCHANGED spent
       ELSE /\ \E ph \in {"ran", "mistyped"} : Take(c, p, n, ph)
            /\ spent' = [spent EXCEPT ![p] = @ \union {n}]
    /\ UNCHANGED <<now, config, up, sealed, record, since>>

\* Accepting, with a shared record: the SET is sent and awaited.
PresentToRecord(c, p, n) ==
    /\ HasRecord
    /\ Opens(p, n)
    /\ \E reading \in now..(now + Skew) : ~Expired(n, reading)
    /\ Take(c, p, n, "spending")
    /\ since' = [since EXCEPT ![c] = now]
    /\ UNCHANGED <<now, config, up, sealed, spent, record>>

\* Mutant of RecordSet: the key expires with the sealed state, with no grace.
RecordSetWithoutGrace(c) ==
    /\ phase[c] = "spending"
    /\ IF record[nonce[c]] > now
       THEN Settle(c, "lost") /\ UNCHANGED record
       ELSE /\ Settle(c, "won")
            /\ record' = [record EXCEPT ![nonce[c]] = now + Ttl]
    /\ UNCHANGED <<now, config, up, sealed, spent>>

\* Mutant of RecordSet: the grace is taken off the expiry.
RecordSetTooShort(c) ==
    /\ phase[c] = "spending"
    /\ Settle(c, "won")
    /\ record' = [record EXCEPT ![nonce[c]] = now + Ttl - Grace]
    /\ UNCHANGED <<now, config, up, sealed, spent>>

\* The record applies SET NX PX: set-if-absent, with an expiry.
RecordSet(c) ==
    /\ phase[c] = "spending"
    /\ IF record[nonce[c]] > now
       THEN Settle(c, "lost") /\ UNCHANGED record
       ELSE /\ Settle(c, "won")
            /\ record' = [record EXCEPT ![nonce[c]] = now + Ttl + Grace]
    /\ UNCHANGED <<now, config, up, sealed, spent>>

\* Its reply arrives, and only now is what was typed looked at.
RecordReply(c) ==
    /\ \/ phase[c] = "won" /\ \E ph \in {"ran", "mistyped"} : Settle(c, ph)
       \/ phase[c] = "lost" /\ Settle(c, "confirmation_spent")
    /\ UNCHANGED <<now, config, up, sealed, spent, record>>

\* Mutant of RecordFails: without a record that answers, the answer is taken.
RecordFailsOpen(c) ==
    /\ phase[c] \in {"spending", "won", "lost"}
    /\ \E ph \in {"ran", "mistyped"} : Settle(c, ph)
    /\ UNCHANGED <<now, config, up, sealed, spent, record>>

\* The SET raises: it may or may not have been applied.
RecordFails(c) ==
    /\ phase[c] \in {"spending", "won", "lost"}
    /\ Settle(c, "confirmation_unrecorded")
    /\ UNCHANGED <<now, config, up, sealed, spent, record>>

\* A process dies, with its `_SPENT`, its key and the calls in it.
Crash(p) ==
    /\ p \in up
    /\ up' = up \ {p}
    /\ phase' = [c \in Calls |->
            IF at[c] = p /\ phase[c] \in Waiting THEN "dead" ELSE phase[c]]
    /\ since' = [c \in Calls |-> IF at[c] = p THEN 0 ELSE since[c]]
    /\ UNCHANGED <<now, config, sealed, spent, record, at, nonce>>

\* A SET under way is answered, or given up, before SpendDelay has passed.
Tick ==
    /\ now < Horizon
    /\ \A c \in Calls :
            phase[c] \in {"spending", "won", "lost"} => now - since[c] < SpendDelay
    /\ now' = now + 1
    /\ UNCHANGED <<config, up, sealed, spent, record, callVars>>

Present(c, p, n) ==
    \/ CannotOpen(c, p, n)
    \/ PresentExpired(c, p, n)
    \/ PresentDeclined(c, p, n)
    \/ PresentLocally(c, p, n)
    \/ PresentToRecord(c, p, n)

Next ==
    \/ \E c \in Calls, p \in Processes :
            \/ Unavailable(c, p)
            \/ Elicit(c, p)
            \/ \E n \in Nonces : Ask(c, p, n) \/ Present(c, p, n)
    \/ \E c \in Calls :
            ElicitAnswer(c) \/ RecordSet(c) \/ RecordReply(c) \/ RecordFails(c)
    \/ \E p \in Processes : Crash(p)
    \/ Tick

Spec == Init /\ [][Next]_vars
-----------------------------------------------------------------------------
\* The calls whose sealed answer was looked at.
Judged(n) == {c \in Calls : nonce[c] = n /\ phase[c] \in {"ran", "mistyped"}}

Repeatable(tool) == \A i \in DOMAIN tool : tool[i] = "idempotent"

\* Where it matters, one sealed state is good for one answer: whatever the
\* processes, crashes, delays and lost replies, no second answer is ever
\* looked at, so the operation runs once and nobody guesses twice.
JudgedOnce ==
    ~Repeatable(config.tool) => \A n \in Nonces : Cardinality(Judged(n)) <= 1

\* On any configuration that starts, a process never honours a state twice.
OncePerProcess ==
    \A n \in Nonces : \A c, d \in Judged(n) : at[c] = at[d] => c = d

\* A sealed answer is not looked at later than its time to live after it was
\* asked for, up to the clocks' skew and the delay of the record.
JudgedInTime ==
    [][\A n \in Nonces : Judged(n)' # Judged(n) =>
            now <= sealed[n].asked + Ttl + Skew + SpendDelay]_vars

\* The promise, of the questions and answers the gate really exchanged.
\* Nothing is promised of a tool that may be repeated.
Promise == INSTANCE ConfirmOnce WITH
    Lifetime <- Ttl + Skew + SpendDelay,
    asked <- [n \in Nonces |-> sealed[n].asked],
    answers <- [n \in Nonces |->
                    IF Repeatable(config.tool) THEN 0 ELSE Cardinality(Judged(n))],
    unanswered <- {n \in Nonces :
                    sealed[n].open /\ (Repeatable(config.tool) \/ Judged(n) = {})}
KeepsPromise == Promise!Spec
=============================================================================
