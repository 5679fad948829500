----------------------------- MODULE ConfirmOnce -----------------------------
(***************************************************************************)
(* What a confirmation promises, whoever serves it: a question that was    *)
(* put to a person is answered at most once, and not after it has lapsed.  *)
(* No process, key, clock or record appears here.                          *)
(***************************************************************************)
EXTENDS Integers

CONSTANTS Nonces, Lifetime, Horizon

VARIABLES now, asked, answers, unanswered

vars == <<now, asked, answers, unanswered>>

Init ==
    /\ now = 0
    /\ asked = [n \in Nonces |-> 0]
    /\ answers = [n \in Nonces |-> 0]
    /\ unanswered = {}

Question(n) ==
    /\ n \notin unanswered
    /\ answers[n] = 0
    /\ asked' = [asked EXCEPT ![n] = now]
    /\ unanswered' = unanswered \union {n}
    /\ UNCHANGED <<now, answers>>

Answer(n) ==
    /\ n \in unanswered
    /\ now <= asked[n] + Lifetime
    /\ answers' = [answers EXCEPT ![n] = 1]
    /\ unanswered' = unanswered \ {n}
    /\ UNCHANGED <<now, asked>>

Pass ==
    /\ now < Horizon
    /\ now' = now + 1
    /\ UNCHANGED <<asked, answers, unanswered>>

Next == (\E n \in Nonces : Question(n) \/ Answer(n)) \/ Pass

Spec == Init /\ [][Next]_vars
=============================================================================
