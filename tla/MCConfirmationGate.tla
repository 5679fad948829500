------------------------- MODULE MCConfirmationGate -------------------------
(***************************************************************************)
(* ConfirmationGate on small instances: two processes, and enough calls    *)
(* for a question, its answer and the answer's replays.                    *)
(***************************************************************************)
EXTENDS ConfirmationGate, TLC

CONSTANTS c1, c2, c3, p1, p2, n1

ThreeCalls == {c1, c2, c3}
TwoProcesses == {p1, p2}
OneNonce == {n1}
CallSymmetry == Permutations(ThreeCalls) \union Permutations(TwoProcesses)

\* Tools of one operation that must not be confirmed twice by one answer.
OneStep == {<<"non_idempotent">>, <<"unknown">>}
\* Every kind of single-operation tool.
AnyStep == OneStep \union {<<"idempotent">>}
\* A lookup followed by the write that needs what it found.
LookupThenWrite == {<<"idempotent", "non_idempotent">>}
=============================================================================
