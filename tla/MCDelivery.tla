----------------------------- MODULE MCDelivery -----------------------------
(***************************************************************************)
(* Delivery on the tools the planner and the ingesters produce.            *)
(***************************************************************************)
EXTENDS Delivery

Get == [effect |-> "read", idempotency |-> "idempotent"]
Put == [effect |-> "change", idempotency |-> "idempotent"]
Post == [effect |-> "change", idempotency |-> "non_idempotent"]
Patch == [effect |-> "change", idempotency |-> "unknown"]
\* A WSDL operation, classified by a reviewer as a change or as a read.
SoapChange == [effect |-> "change", idempotency |-> "unknown"]
SoapRead == [effect |-> "read", idempotency |-> "unknown"]

Http(steps, threads) == [via |-> "http", steps |-> steps, threads |-> threads]
Soap(step) == [via |-> "soap", steps |-> <<step>>, threads |-> FALSE]

\* Every single-operation tool, a composite of reads, and the
\* prepare-then-execute composite of two POSTs.
OrdinaryTools ==
    {Http(<<s>>, FALSE) : s \in {Get, Put, Post, Patch}}
        \union {Http(<<Get, Get>>, TRUE), Http(<<Post, Post>>, FALSE)}
        \union {Soap(SoapChange), Soap(SoapRead)}

\* The composite that looks up the identifier its write needs.
LookupThenPost == {Http(<<Get, Post>>, TRUE)}
SoapChanges == {Soap(SoapChange)}

KeyedService == {[honoursKeys |-> TRUE, lossy |-> TRUE, redirects |-> FALSE]}
=============================================================================
