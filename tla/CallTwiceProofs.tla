-------------------------- MODULE CallTwiceProofs --------------------------
(***************************************************************************)
(* Proofs about CallTwice, for every set of tools, calls and tokens: the   *)
(* budgets behind the gate are the budgets of CallBudget, so all that is   *)
(* proved of those holds here; one question lets one call past; a call     *)
(* gets past in time; and lapsed tokens are dropped.                       *)
(***************************************************************************)
EXTENDS CallTwice, CallBudgetProofs

all == <<vars, gateVars>>

LEMMA TokensAre ==
    ASSUME NEW c \in Calls
    PROVE  TokenOf[c] \in Tokens /\ ToolOf[c] \in Tools
BY TokenAssumption, ToolAssumption

\* A token is of gated calls only, or of none.
LEMMA GatedTogether ==
    ASSUME NEW c \in Calls, TokenOf[c] \in GatedTokens
    PROVE  ToolOf[c] \in Gated
BY TokenAssumption DEF GatedTokens

-----------------------------------------------------------------------------
(***************************************************************************)
(* The budgets.                                                            *)
(***************************************************************************)

LEMMA BudgetStep == [GateNext]_all => [Next]_vars
<1> SUFFICES ASSUME [GateNext]_all PROVE [Next]_vars
    OBVIOUS
<1>1. ASSUME NEW c \in Calls, Pass(c)
      PROVE  Next
    BY <1>1 DEF Pass, Next
<1>2. ASSUME NEW c \in Calls, Invalid(c) \/ AskAgain(c)
      PROVE  UNCHANGED vars
    BY <1>2 DEF Invalid, AskAgain
<1>3. ASSUME NEW c \in Calls, Finish(c)
      PROVE  Next
    BY <1>3 DEF Finish, Next
<1>4. Reboot => Next \/ UNCHANGED vars
    BY DEF Reboot, Next
<1>5. Wait => Next
    BY DEF Wait, Next
<1>6. QED  BY <1>1, <1>2, <1>3, <1>4, <1>5 DEF GateNext, all

\* The budgets behind the gate are those of CallBudget, on the calls that get past.
LEMMA GateUsesBudget == GateSpec => Spec
<1>1. GateInit => Init  BY DEF GateInit
<1>2. QED  BY <1>1, BudgetStep, PTL DEF GateSpec, Spec, all

\* Whatever the gate makes of the calls, no minute holds more of them than the policy says.
THEOREM MinuteBehindGate == GateSpec => []MinuteBound
BY GateUsesBudget, MinuteCorrect, PTL

\* Whatever the gate makes of the calls, no more of them run than the policy says.
THEOREM ConcurrencyBehindGate == GateSpec => []ConcurrencyBound
BY GateUsesBudget, ConcurrencyCorrect, PTL

-----------------------------------------------------------------------------
(***************************************************************************)
(* Types.                                                                  *)
(***************************************************************************)

Answers == {"none", "invalid", "confirmation_required", "passed"}

LEMMA InitGateTypes == GateInit => GateTypeOK
BY InitTypeOK DEF GateInit, GateTypeOK

LEMMA NextGateTypes == GateTypeOK /\ [GateNext]_all => GateTypeOK'
<1> SUFFICES ASSUME GateTypeOK, [GateNext]_all PROVE GateTypeOK'
    OBVIOUS
<1>1. TypeOK'
    BY BudgetStep, NextTypeOK DEF GateTypeOK
<1>2. now \in Nat /\ now + Ttl \in Nat
    BY TtlAssumption DEF GateTypeOK, TypeOK
<1>3. ASSUME NEW c \in Calls, Invalid(c) PROVE GateTypeOK'
    BY <1>1, <1>3 DEF Invalid, GateTypeOK
<1>4. ASSUME NEW c \in Calls, AskAgain(c) PROVE GateTypeOK'
    BY <1>1, <1>2, <1>4 DEF AskAgain, GateTypeOK
<1>5. ASSUME NEW c \in Calls, Pass(c) PROVE GateTypeOK'
    BY <1>1, <1>5 DEF Pass, GateTypeOK
<1>6. ASSUME NEW c \in Calls, Finish(c) PROVE GateTypeOK'
    BY <1>1, <1>6 DEF Finish, GateTypeOK, gateVars
<1>7. CASE Reboot
    BY <1>1, <1>7 DEF Reboot, GateTypeOK
<1>8. CASE Wait \/ UNCHANGED all
    BY <1>1, <1>8 DEF Wait, GateTypeOK, gateVars, all
<1>9. QED  BY <1>3, <1>4, <1>5, <1>6, <1>7, <1>8 DEF GateNext

\* The tokens and what became of the calls keep their types.
THEOREM GateTypeCorrect == GateSpec => []GateTypeOK
BY InitGateTypes, NextGateTypes, PTL DEF GateSpec, all

-----------------------------------------------------------------------------
(***************************************************************************)
(* Tokens.  A token stands for the last call that was sent back with it,   *)
(* and for one that has not been matched by a call that got past.          *)
(***************************************************************************)

AskedIn == \A c \in Calls : askedAt[c] <= now

Stands ==
    \A k \in Tokens : confirmed[k] # 0 =>
        \E d \in With(k, "confirmation_required") : confirmed[k] = askedAt[d] + Ttl

Unmatched ==
    \A k \in GatedTokens :
        /\ IsFiniteSet(With(k, "passed")) /\ IsFiniteSet(With(k, "confirmation_required"))
        /\ Cardinality(With(k, "passed")) + (IF confirmed[k] # 0 THEN 1 ELSE 0)
               <= Cardinality(With(k, "confirmation_required"))

GateInv == GateTypeOK /\ AskedIn /\ Stands /\ LapsedTokensGo /\ Unmatched

\* The clock does not go back.
LEMMA Later ==
    ASSUME GateTypeOK, [GateNext]_all
    PROVE  now \in Nat /\ now' \in Nat /\ now <= now'
<1>1. now \in Nat
    BY DEF GateTypeOK, TypeOK
<1>2. now' = now \/ now' = now + 1
    BY BudgetStep DEF Next, Admit, Refuse, Release, Restart, Tick, vars
<1>3. QED  BY <1>1, <1>2

\* Every step leaves the gate alone, forgets every token, or is one of three.
LEMMA GateSteps ==
    ASSUME [GateNext]_all
    PROVE  \/ UNCHANGED gateVars
           \/ confirmed' = [k \in Tokens |-> 0] /\ UNCHANGED <<answer, askedAt>>
           \/ \E c \in Calls : Invalid(c) \/ AskAgain(c) \/ Pass(c)
BY DEF GateNext, Finish, Reboot, Wait, all

LEMMA AtMostOneMore ==
    ASSUME NEW S, IsFiniteSet(S), NEW x, NEW T, T = S \union {x}
    PROVE  IsFiniteSet(T) /\ Cardinality(T) <= Cardinality(S) + 1
<1>1. /\ IsFiniteSet(T)
      /\ Cardinality(T) = IF x \in S THEN Cardinality(S) ELSE Cardinality(S) + 1
    BY FS_AddElement
<1>2. Cardinality(S) \in Nat
    BY FS_CardinalityType
<1>3. QED  BY <1>1, <1>2

LEMMA InitGate == GateInit => GateInv
<1> SUFFICES ASSUME GateInit PROVE GateInv
    OBVIOUS
<1>1. \A k : With(k, "passed") = {} /\ With(k, "confirmation_required") = {}
    BY DEF GateInit, With
<1>2. \A k \in GatedTokens : confirmed[k] = 0
    BY TokensAre DEF GateInit, GatedTokens
<1>3. Unmatched
    BY <1>1, <1>2, FS_EmptySet DEF Unmatched
<1>4. AskedIn /\ Stands /\ LapsedTokensGo
    BY DEF GateInit, Init, AskedIn, Stands, LapsedTokensGo
<1>5. QED  BY InitGateTypes, <1>3, <1>4 DEF GateInv

LEMMA NextTimes ==
    ASSUME GateInv, [GateNext]_all
    PROVE  AskedIn' /\ Stands' /\ LapsedTokensGo'
<1> USE DEF GateInv
<1>1. /\ now \in Nat /\ now' \in Nat /\ now <= now'
      /\ askedAt \in [Calls -> Nat] /\ confirmed \in [Tokens -> Nat]
      /\ answer \in [Calls -> Answers]
    BY Later DEF GateTypeOK, Answers
<1>2. CASE UNCHANGED gateVars
    BY <1>1, <1>2 DEF gateVars, AskedIn, Stands, LapsedTokensGo, With
<1>3. CASE confirmed' = [k \in Tokens |-> 0] /\ UNCHANGED <<answer, askedAt>>
    BY <1>1, <1>3 DEF AskedIn, Stands, LapsedTokensGo
<1>4. ASSUME NEW c \in Calls, Invalid(c)
      PROVE  AskedIn' /\ Stands' /\ LapsedTokensGo'
    <2>1. \A k : With(k, "confirmation_required")' = With(k, "confirmation_required")
        BY <1>1, <1>4 DEF Invalid, With
    <2>2. \A d \in Calls : answer'[d] = "confirmation_required"
                               => answer[d] = "confirmation_required"
        BY <1>1, <1>4 DEF Invalid
    <2>3. QED
        BY <1>1, <1>4, <2>1, <2>2 DEF Invalid, AskedIn, Stands, LapsedTokensGo
<1>5. ASSUME NEW c \in Calls, AskAgain(c)
      PROVE  AskedIn' /\ Stands' /\ LapsedTokensGo'
    <2>1. /\ now' = now
          /\ askedAt' = [askedAt EXCEPT ![c] = now]
          /\ answer' = [answer EXCEPT ![c] = "confirmation_required"]
          /\ answer[c] = "none"
        BY <1>5 DEF AskAgain, vars
    <2>2. \A k \in Tokens : confirmed'[k] =
              IF k = TokenOf[c] THEN now + Ttl ELSE IF Live(k) THEN confirmed[k] ELSE 0
        BY <1>5 DEF AskAgain
    <2>3. AskedIn'
        BY <1>1, <2>1 DEF AskedIn
    <2>4. \A k : With(k, "confirmation_required")' =
              With(k, "confirmation_required") \union (IF TokenOf[c] = k THEN {c} ELSE {})
        BY <1>1, <2>1 DEF With
    <2>5. Stands'
        <3> SUFFICES ASSUME NEW k \in Tokens, confirmed'[k] # 0
                     PROVE  \E d \in With(k, "confirmation_required")' :
                                confirmed'[k] = askedAt'[d] + Ttl
            BY DEF Stands
        <3>1. CASE k = TokenOf[c]
            BY <1>1, <2>1, <2>2, <2>4, <3>1
        <3>2. CASE k # TokenOf[c]
            <4>1. confirmed'[k] = confirmed[k]
                BY <2>2, <3>2
            <4>2. PICK d \in With(k, "confirmation_required") :
                      confirmed[k] = askedAt[d] + Ttl
                BY <4>1 DEF Stands
            <4>3. d \in Calls /\ d # c
                BY <2>1, <4>2 DEF With
            <4>4. QED  BY <1>1, <2>1, <2>4, <4>1, <4>2, <4>3
        <3>3. QED  BY <3>1, <3>2
    <2>6. LapsedTokensGo'
        <3> SUFFICES ASSUME NEW k \in Tokens, confirmed'[k] # 0, NEW d \in Calls
                     PROVE  askedAt'[d] < confirmed'[k]
            BY DEF LapsedTokensGo
        <3>1. askedAt'[d] <= now
            BY <2>1, <2>3 DEF AskedIn
        <3>2. confirmed'[k] > now
            BY <1>1, <2>2, TtlAssumption DEF Live
        <3>3. confirmed'[k] \in Nat /\ askedAt'[d] \in Nat
            BY <1>1, <2>1, <2>2, TtlAssumption
        <3>4. QED  BY <1>1, <3>1, <3>2, <3>3
    <2>7. QED  BY <2>3, <2>5, <2>6
<1>6. ASSUME NEW c \in Calls, Pass(c)
      PROVE  AskedIn' /\ Stands' /\ LapsedTokensGo'
    <2>1. /\ askedAt' = askedAt
          /\ answer' = [answer EXCEPT ![c] = "passed"]
          /\ answer[c] = "none"
        BY <1>6 DEF Pass
    <2>2. \A k \in Tokens : confirmed'[k] = confirmed[k] \/ confirmed'[k] = 0
        BY <1>1, <1>6 DEF Pass
    <2>3. \A k : With(k, "confirmation_required")' = With(k, "confirmation_required")
        BY <1>1, <2>1 DEF With
    <2>4. \A d \in Calls : answer'[d] = "confirmation_required"
                               => answer[d] = "confirmation_required"
        BY <1>1, <2>1
    <2>5. QED
        BY <1>1, <2>1, <2>2, <2>3, <2>4 DEF AskedIn, Stands, LapsedTokensGo
<1>7. QED  BY <1>2, <1>3, <1>4, <1>5, <1>6, GateSteps

LEMMA NextUnmatched ==
    ASSUME GateInv, [GateNext]_all
    PROVE  Unmatched'
<1> USE DEF GateInv
<1>1. /\ now \in Nat
      /\ confirmed \in [Tokens -> Nat]
      /\ answer \in [Calls -> Answers]
    BY DEF GateTypeOK, TypeOK, Answers
<1> SUFFICES ASSUME NEW k \in GatedTokens
             PROVE  /\ IsFiniteSet(With(k, "passed")')
                    /\ IsFiniteSet(With(k, "confirmation_required")')
                    /\ Cardinality(With(k, "passed")') + (IF confirmed'[k] # 0 THEN 1 ELSE 0)
                           <= Cardinality(With(k, "confirmation_required")')
    BY DEF Unmatched
<1> DEFINE past == With(k, "passed")
           sent == With(k, "confirmation_required")
<1>2. /\ IsFiniteSet(past) /\ IsFiniteSet(sent)
      /\ Cardinality(past) \in Nat /\ Cardinality(sent) \in Nat
      /\ Cardinality(past) + (IF confirmed[k] # 0 THEN 1 ELSE 0) <= Cardinality(sent)
    BY FS_CardinalityType DEF Unmatched
<1>3. k \in Tokens
    BY TokensAre DEF GatedTokens
<1>4. ASSUME past' = past, sent' = sent, confirmed'[k] \in {0, confirmed[k]}
      PROVE  /\ IsFiniteSet(past') /\ IsFiniteSet(sent')
             /\ Cardinality(past') + (IF confirmed'[k] # 0 THEN 1 ELSE 0) <= Cardinality(sent')
    BY <1>2, <1>4
<1>5. CASE UNCHANGED gateVars
    BY <1>4, <1>5 DEF gateVars, With
<1>6. CASE confirmed' = [t \in Tokens |-> 0] /\ UNCHANGED <<answer, askedAt>>
    BY <1>3, <1>4, <1>6 DEF With
<1>7. ASSUME NEW c \in Calls, Invalid(c)
      PROVE  past' = past /\ sent' = sent /\ confirmed'[k] = confirmed[k]
    BY <1>1, <1>7 DEF Invalid, With
<1>8. ASSUME NEW c \in Calls, AskAgain(c)
      PROVE  /\ IsFiniteSet(past') /\ IsFiniteSet(sent')
             /\ Cardinality(past') + (IF confirmed'[k] # 0 THEN 1 ELSE 0) <= Cardinality(sent')
    <2>1. /\ answer[c] = "none"
          /\ answer' = [answer EXCEPT ![c] = "confirmation_required"]
        BY <1>8 DEF AskAgain
    <2>2. past' = past
        BY <1>1, <2>1 DEF With
    <2>3. CASE TokenOf[c] = k
        <3>1. sent' = sent \union {c} /\ c \notin sent
            BY <1>1, <2>1, <2>3 DEF With
        <3>2. IsFiniteSet(sent') /\ Cardinality(sent') = Cardinality(sent) + 1
            BY <1>2, <3>1, FS_AddElement
        <3>3. QED  BY <1>2, <2>2, <3>2
    <2>4. CASE TokenOf[c] # k
        <3>1. sent' = sent
            BY <1>1, <2>1, <2>4 DEF With
        <3>2. confirmed'[k] \in {0, confirmed[k]}
            BY <1>3, <1>8, <2>4 DEF AskAgain
        <3>3. QED  BY <1>4, <2>2, <3>1, <3>2
    <2>5. QED  BY <2>3, <2>4
<1>9. ASSUME NEW c \in Calls, Pass(c)
      PROVE  /\ IsFiniteSet(past') /\ IsFiniteSet(sent')
             /\ Cardinality(past') + (IF confirmed'[k] # 0 THEN 1 ELSE 0) <= Cardinality(sent')
    <2>1. answer[c] = "none" /\ answer' = [answer EXCEPT ![c] = "passed"]
        BY <1>9 DEF Pass
    <2>2. sent' = sent
        BY <1>1, <2>1 DEF With
    <2>3. CASE TokenOf[c] = k
        <3>1. confirmed[k] # 0 /\ confirmed'[k] = 0
            BY <1>1, <1>3, <1>9, <2>3, GatedTogether DEF Pass, Live
        <3>2. past' = past \union {c}
            BY <1>1, <2>1, <2>3 DEF With
        <3>3. IsFiniteSet(past') /\ Cardinality(past') <= Cardinality(past) + 1
            BY <1>2, <3>2, AtMostOneMore
        <3>4. Cardinality(past') \in Nat
            BY <3>3, FS_CardinalityType
        <3>5. QED  BY <1>2, <2>2, <3>1, <3>3, <3>4
    <2>4. CASE TokenOf[c] # k
        <3>1. past' = past
            BY <1>1, <2>1, <2>4 DEF With
        <3>2. confirmed'[k] \in {0, confirmed[k]}
            BY <1>1, <1>3, <1>9, <2>4 DEF Pass
        <3>3. QED  BY <1>4, <2>2, <3>1, <3>2
    <2>5. QED  BY <2>3, <2>4
<1>10. QED  BY <1>4, <1>5, <1>6, <1>7, <1>8, <1>9, GateSteps

LEMMA NextGate == GateInv /\ [GateNext]_all => GateInv'
BY NextGateTypes, NextTimes, NextUnmatched DEF GateInv

\* Calls with the same arguments never get past more often than they were sent back.
THEOREM OnePass == GateSpec => []OnePassPerQuestion
<1>1. GateInv => OnePassPerQuestion
    <2> SUFFICES ASSUME GateInv, NEW k \in GatedTokens
                 PROVE  Cardinality(With(k, "passed"))
                            <= Cardinality(With(k, "confirmation_required"))
        BY DEF OnePassPerQuestion
    <2>1. /\ Cardinality(With(k, "passed")) \in Nat
          /\ Cardinality(With(k, "confirmation_required")) \in Nat
        BY FS_CardinalityType DEF GateInv, Unmatched
    <2>2. QED  BY <2>1 DEF GateInv, Unmatched
<1>2. QED  BY InitGate, NextGate, <1>1, PTL DEF GateSpec, all

\* No token outlives a question put after its deadline.
THEOREM LapsedGo == GateSpec => []LapsedTokensGo
<1>1. GateInv => LapsedTokensGo  BY DEF GateInv
<1>2. QED  BY InitGate, NextGate, <1>1, PTL DEF GateSpec, all

\* A call gets past on a question that is less than a time to live old and unspent.
THEOREM InTime == GateSpec => PassesInTime
<1>1. ASSUME GateInv, [GateNext]_all, NEW c \in Calls,
             answer[c] = "none", answer'[c] = "passed", ToolOf[c] \in Gated
      PROVE  \E d \in With(TokenOf[c], "confirmation_required") :
                 /\ askedAt[d] <= now
                 /\ now < askedAt[d] + Ttl
                 /\ confirmed[TokenOf[c]] = askedAt[d] + Ttl
    <2>1. Pass(c)
        <3>1. \A d \in Calls : Invalid(d) \/ AskAgain(d) \/ Pass(d) => d = c
            BY <1>1 DEF Invalid, AskAgain, Pass, GateInv, GateTypeOK
        <3>2. ~Invalid(c) /\ ~AskAgain(c)
            BY <1>1 DEF Invalid, AskAgain, GateInv, GateTypeOK
        <3>3. QED  BY <1>1, <3>1, <3>2, GateSteps DEF gateVars
    <2>2. Live(TokenOf[c]) /\ TokenOf[c] \in Tokens
        BY <1>1, <2>1, TokensAre DEF Pass
    <2>3. PICK d \in With(TokenOf[c], "confirmation_required") :
              confirmed[TokenOf[c]] = askedAt[d] + Ttl
        BY <1>1, <2>2 DEF GateInv, Stands, Live, GateTypeOK, TypeOK
    <2>4. d \in Calls
        BY DEF With
    <2>5. QED  BY <1>1, <2>2, <2>3, <2>4 DEF GateInv, AskedIn, Live
<1>2. GateInv /\ [GateNext]_all =>
          [\A c \in Calls :
              answer[c] = "none" /\ answer'[c] = "passed" /\ ToolOf[c] \in Gated =>
                  \E d \in With(TokenOf[c], "confirmation_required") :
                      /\ askedAt[d] <= now
                      /\ now < askedAt[d] + Ttl
                      /\ confirmed[TokenOf[c]] = askedAt[d] + Ttl]_<<vars, gateVars>>
    BY <1>1
<1>3. QED  BY InitGate, NextGate, <1>2, PTL DEF GateSpec, PassesInTime, all

-----------------------------------------------------------------------------
(***************************************************************************)
(* What the budget is spent on.  A call leaves "new" where it gets past    *)
(* the gate and nowhere else, what is counted was served, and a served     *)
(* call is not new.  A day's window forgets calls and never invents one,   *)
(* also for a tool that has no daily budget and is counted all the same.   *)
(***************************************************************************)

Counted == \A t \in Budgeted : daily[t].spent <= Cardinality(ServedFor(t))
Started == \A c \in Calls : phase[c] # "new" => answer[c] = "passed"

LEMMA InitCounted == Init => Counted
<1>1. Init => \A t \in Budgeted : daily[t].spent = 0 /\ ServedFor(t) = {}
    BY DEF Init, Unopened, ServedFor
<1>2. QED  BY <1>1, FS_EmptySet DEF Counted

LEMMA NextCounted ==
    ASSUME TypeOK, Admitted, Counted, [Next]_vars
    PROVE  Counted'
<1> SUFFICES ASSUME NEW t \in Budgeted
             PROVE  daily'[t].spent <= Cardinality(ServedFor(t)')
    BY DEF Counted
<1>1. /\ daily[t].spent \in Nat
      /\ Cardinality(ServedFor(t)) \in Nat /\ IsFiniteSet(ServedFor(t))
      /\ daily[t].spent <= Cardinality(ServedFor(t))
    BY ServedForFinite DEF TypeOK, Counted
<1>2. ASSUME NEW c \in Calls, Admit(c), t = ToolOf[c]
      PROVE  daily'[t].spent <= Cardinality(ServedFor(t)')
    <2>1. ServedFor(t)' = ServedFor(t) \union {c} /\ c \notin ServedFor(t)
        BY <1>2 DEF Admit, Admitted, ServedFor
    <2>2. Cardinality(ServedFor(t)') = Cardinality(ServedFor(t)) + 1
        BY <1>1, <2>1, FS_AddElement
    <2>3. Window(t, now).spent \in {0, daily[t].spent}
        BY DEF Window
    <2>4. daily' = [daily EXCEPT ![t] = Charged(Window(t, now))]
        BY <1>2 DEF Admit
    <2>5. daily'[t].spent = Window(t, now).spent + 1
        BY <2>4 DEF TypeOK, Charged
    <2>6. QED  BY <1>1, <2>2, <2>3, <2>5
<1>3. ASSUME NEW c \in Calls, Admit(c), t # ToolOf[c]
      PROVE  daily'[t] = daily[t] /\ ServedFor(t)' = ServedFor(t)
    BY <1>3 DEF Admit, TypeOK, counters, ServedFor
<1>4. CASE UNCHANGED <<at, served, daily>>
    BY <1>1, <1>4 DEF ServedFor
<1>5. CASE Restart
    <2>1. ServedFor(t)' = {} /\ daily'[t].spent = 0
        BY <1>5 DEF Restart, Unopened, ServedFor
    <2>2. QED  BY <2>1, FS_EmptySet
<1>6. QED  BY <1>1, <1>2, <1>3, <1>4, <1>5, NoAdmission

LEMMA NextStarted ==
    ASSUME GateTypeOK, Started, [GateNext]_all
    PROVE  Started'
<1>1. phase \in [Calls -> {"new", "running", "done", "refused"}]
    BY DEF GateTypeOK, TypeOK
<1>2. ASSUME NEW c \in Calls, Invalid(c) \/ AskAgain(c)
      PROVE  Started'
    BY <1>2 DEF Invalid, AskAgain, Started, vars, GateTypeOK
<1>3. ASSUME NEW c \in Calls, Pass(c)
      PROVE  Started'
    BY <1>1, <1>3 DEF Pass, Admit, Refuse, Started, GateTypeOK
<1>4. ASSUME NEW c \in Calls, Finish(c)
      PROVE  Started'
    BY <1>1, <1>4 DEF Finish, Release, Started, gateVars
<1>5. CASE Reboot
    BY <1>1, <1>5 DEF Reboot, Restart, Started, vars
<1>6. CASE Wait \/ UNCHANGED all
    BY <1>6 DEF Wait, Tick, Started, gateVars, all, vars
<1>7. QED  BY <1>2, <1>3, <1>4, <1>5, <1>6 DEF GateNext

\* No slot, no stamp and nothing from the day is spent on a call that did not get past.
THEOREM OnlyPassedCount == GateSpec => []OnlyPassedCallsCount
<1>1. IInv /\ Counted /\ Started => OnlyPassedCallsCount
    <2> SUFFICES ASSUME IInv, Counted, Started, NEW t \in Budgeted
                 PROVE  /\ recent[t] \subseteq {c \in Calls : answer[c] = "passed"}
                        /\ daily[t].spent <= Cardinality({c \in served :
                                                ToolOf[c] = t /\ answer[c] = "passed"})
                        /\ active[t] <= Cardinality({c \in served :
                                                ToolOf[c] = t /\ answer[c] = "passed"})
        BY DEF OnlyPassedCallsCount
    <2>1. \A c \in served : c \in Calls /\ answer[c] = "passed"
        BY DEF IInv, TypeOK, Admitted, Started
    <2>2. {c \in served : ToolOf[c] = t /\ answer[c] = "passed"} = ServedFor(t)
        BY <2>1 DEF ServedFor
    <2>3. recent[t] \subseteq {c \in Calls : answer[c] = "passed"}
        BY <2>1 DEF IInv, Stamps, ServedFor
    <2>4. active[t] <= Cardinality(ServedFor(t))
        <3>1. InFlight(t) \in SUBSET ServedFor(t)
            BY DEF IInv, Admitted, InFlight, ServedFor
        <3>2. IsFiniteSet(ServedFor(t))
            BY ServedForFinite DEF IInv
        <3>3. Cardinality(InFlight(t)) <= Cardinality(ServedFor(t))
            BY <3>1, <3>2, FS_Subset
        <3>4. QED  BY <3>3 DEF IInv, SlotsMatchCalls
    <2>5. QED  BY <2>2, <2>3, <2>4 DEF Counted
<1>2. GateInit => Counted /\ Started
    BY InitCounted DEF GateInit, Init, Started
<1>3. IInv /\ GateTypeOK /\ Counted /\ Started /\ [GateNext]_all => Counted' /\ Started'
    BY BudgetStep, NextCounted, NextStarted DEF IInv
<1>4. GateSpec => []IInv
    BY GateUsesBudget, Inductive, PTL
<1>5. QED  BY <1>1, <1>2, <1>3, <1>4, GateTypeCorrect, PTL DEF GateSpec, all
=============================================================================
