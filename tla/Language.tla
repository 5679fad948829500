------------------------------ MODULE Language ------------------------------
(***************************************************************************)
(* What wording implies (language.py): the words that say an operation     *)
(* destroys something, as a name or a sentence puts them.                  *)
(***************************************************************************)
EXTENDS Sequences

DestructiveTokens ==
    {"delete", "purge", "destroy", "erase", "wipe", "drop", "remove", "revoke", "terminate"}

\* The third person of a verb is the verb; a participle is not.
BaseForm(word) ==
    IF \E token \in DestructiveTokens : word = token \o "s"
    THEN CHOOSE token \in DestructiveTokens : word = token \o "s"
    ELSE word

DestructiveSignals(words) ==
    {BaseForm(words[i]) : i \in DOMAIN words} \intersect DestructiveTokens
=============================================================================
