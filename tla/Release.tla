------------------------------- MODULE Release ------------------------------
(***************************************************************************)
(* What the review of a specification promises (the docstrings of          *)
(* ToolOverlay in models.py and of the emission gate in codegen/tools.py): *)
(* what changes state is released only for the bytes on disk, and only     *)
(* when somebody vouched for it under those bytes.  Having vouched for     *)
(* other bytes counts only when somebody carried that over.                *)
(***************************************************************************)
EXTENDS Sequences

VARIABLES current,  \* the digest of the bytes on disk
          vouched,  \* pairs of a digest and a subject, a sequence of operations
          released  \* the digest and the subjects of the server written last

vars == <<current, vouched, released>>

Digests == {v[1] : v \in vouched}

\* A decision is recorded on the first operation of its subject.
Covered(digest, subject) ==
    \E v \in vouched : v[1] = digest /\ Head(v[2]) = Head(subject)

Init == vouched = {} /\ released.subjects = {}

Revise == UNCHANGED <<vouched, released>>

\* Somebody vouches for subjects of the bytes on disk, and for those only.
Vouch ==
    /\ vouched \subseteq vouched'
    /\ \A v \in vouched' \ vouched : v[1] = current
    /\ UNCHANGED <<current, released>>

Withdraw ==
    /\ vouched' \subseteq vouched
    /\ UNCHANGED <<current, released>>

Publish ==
    /\ released'.digest = current
    /\ \A subject \in released'.subjects : Covered(current, subject)
    /\ UNCHANGED <<current, vouched>>

Next == Revise \/ Vouch \/ Withdraw \/ Publish

Spec == Init /\ [][Next]_vars
=============================================================================
