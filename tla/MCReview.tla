------------------------------ MODULE MCReview ------------------------------
(***************************************************************************)
(* Review on small services: a shop described in OpenAPI 3, in two         *)
(* revisions, a desk in Swagger 2, a depot with a vendored file before and *)
(* after it drifted, a SOAP service in two revisions, and a ledger of its  *)
(* own.                                                                    *)
(***************************************************************************)
EXTENDS Review, Samples

INSTANCE Ingestion

-----------------------------------------------------------------------------
(* A shop: anybody may delete an order of its second revision *)

List == [Raw("get", <<"list", "orders">>, "listOrders") EXCEPT
            !.parameters = <<Parameter("limit", "query", FALSE)>>]
Delete == Raw("delete", <<"delete", "order">>, "deleteOrder")
OrderId == Parameter("orderId", "path", TRUE)
Orders == <<Fixed("orders")>>
Either == Secured(<<Alternative({"key"}, {}), Alternative({"oauth"}, {"orders"})>>)

Shop(bytes, remove) ==
    Document("shop", bytes, "3.1", Either, NoLibrary,
        <<Path("orders", Orders, <<>>, <<List>>),
          Path("order", Orders \o <<Template("orderId")>>, <<OrderId>>, <<remove>>)>>)
Shop1 == Shop("shop1", Delete)
Shop2 == Shop("shop2", [Delete EXCEPT !.security = Secured(<<>>)])

-----------------------------------------------------------------------------
(* A desk, in Swagger 2: two operations of one wording, one with a form  *)

Ticket == <<Fixed("tickets"), Template("ticketId")>>
Open1 == [Raw("post", <<"handle", "ticket">>, "open") EXCEPT
             !.parameters = <<Parameter("subject", "formData", TRUE)>>]
Cancel == [Raw("post", <<"handle", "ticket">>, "cancel") EXCEPT
             !.parameters = <<Parameter("ticketId", "path", TRUE),
                              Parameter("reason", "body", TRUE)>>,
             !.deprecated = TRUE, !.accepted = TRUE]
Desk ==
    Document("desk", "desk", "2.0", Secured(<<Alternative({"oauth"}, {"desk"})>>),
        NoLibrary,
        <<Path("tickets", <<Fixed("tickets")>>, <<>>, <<Open1>>),
          Path("cancel", Ticket \o <<Fixed("cancel")>>,
               <<Parameter("ticketId", "query", FALSE)>>, <<Cancel>>)>>)

-----------------------------------------------------------------------------
(* A depot that keeps a path in a vendored document, drifted in the second *)

Store == [Raw("put", <<"store", "item">>, None) EXCEPT !.body = JsonBody]
Shared == [parameters |-> <<Parameter("itemId", "path", TRUE)>>, servers |-> <<>>,
           operations |-> <<Store>>, refs |-> {}]
Remote == [kind |-> "remote", document |-> "https", fragment |-> "item"]
Drop == [Raw("delete", <<"drop", "item">>, None) EXCEPT !.body = JsonBody]
Library(bytes, node) ==
    [files |-> "cached" :> [bytes |-> bytes, nodes |-> "item" :> [ref |-> NoRef, node |-> node]],
     allowed |-> {},
     vendored |-> "https" :> [path |-> "cached", digest |-> "agreed"]]
Depot(library) ==
    Document("depot", "depot", "3.0", Either, library,
        <<Path("items", <<Fixed("items")>>, <<>>, <<Raw("get", <<>>, None)>>),
          [Path("item", <<Fixed("items"), Template("itemId")>>, <<>>, <<>>)
              EXCEPT !.ref = Remote]>>)
Depot1 == Depot(Library("agreed", Shared))
Depot2 == Depot(Library("drifted", [Shared EXCEPT !.operations = <<Drop>>]))

-----------------------------------------------------------------------------
(* A bank, in WSDL: its second revision no longer says how a caller is known *)

Bank(bytes, asserts) ==
    [format |-> "wsdl", service |-> "bank", bytes |-> bytes, version |-> "1.1",
     namespace |-> "bank",
     portTypes |-> <<[name |-> "Bank", operations |->
                        <<Soap("getBalance", <<"get", "balance">>, "ask"),
                          Soap("transfer", <<"transfer">>, "order")>>]>>,
     bindings |-> <<[name |-> "BankBinding", portType |-> "Bank", style |-> "document",
                     soap |-> TRUE, operations |-> <<>>, asserts |-> asserts]>>,
     ports |-> <<[binding |-> "BankBinding", address |-> "bank"]>>,
     messages |-> [ask |-> <<Part("account", "Account")>>,
                   order |-> <<Part("account", "Account"), Part("amount", "decimal")>>,
                   answer |-> <<Part("balance", "Money")>>],
     types |-> [Account |-> [members |-> {Member("iban", "string", TRUE)}, extends |-> NoXsd,
                             partial |-> FALSE],
                Money |-> [members |-> {Member("amount", "decimal", TRUE),
                                        Member("note", "string", FALSE)},
                           extends |-> NoXsd, partial |-> FALSE]],
     elements |-> <<>>,
     references |-> {[name |-> name, xsd |-> FALSE] : name \in {"Account", "Money", "decimal"}}
                    \union {[name |-> name, xsd |-> TRUE] : name \in {"string", "decimal"}}
                    \union {NoXsd},
     transport |-> None, imports |-> FALSE, collisions |-> FALSE]
Bank1 == Bank("bank1", {"UsernameToken", "Wss11"})
Bank2 == Bank("bank2", {"Wss11"})

-----------------------------------------------------------------------------
(* Accounts and their transfers, each of them an `id` in the route it ends *)

Transfers == <<Fixed("accounts"), Template("id"), Fixed("transfers")>>
Confirming ==
    <<Fixed("accounts"), Template("account"), Fixed("transfers"), Template("id"), Fixed("confirm")>>
Id == Parameter("id", "path", TRUE)
Ledger ==
    Document("ledger", "ledger", "3.1", Secured(<<Alternative({"oauth"}, {"ledger"})>>), NoLibrary,
        <<Path("transfers", Transfers, <<Id>>,
               <<Raw("post", <<"make", "transfer">>, "makeTransfer")>>),
          Path("confirm", Confirming, <<Parameter("account", "path", TRUE), Id>>,
               <<Raw("post", <<"confirm", "transfer">>, "confirmTransfer")>>)>>)

-----------------------------------------------------------------------------

Specifications == {Shop1, Shop2, Desk, Depot1, Depot2, Bank1, Bank2}
Parsed == {ParseDocument(d) : d \in {s \in Specifications : DocumentReadable(s)}}
MCDocuments == Parsed
\* The account a transfer is made from and the transfer that is confirmed are both an `id`.
Ledgers == {ParseDocument(Ledger)}
MCMaxEdits == [shop |-> 1, desk |-> 2, depot |-> 2, bank |-> 2, ledger |-> 1]
MCEffects == {"read", "destructive"}
MCKept == {"resource"}
\* The name the planner would give to a later operation.
MCChosen == {<<"listOrders", <<"delete", "order">>>>, <<"open", <<"handle", "ticket">>>>}
\* The name an earlier operation has.
TakenNames == {<<"deleteOrder", <<"list", "orders">>>>}

\* The documents that refer to a vendored file which is not what was pinned.
DriftedFrom(library) ==
    \E url \in DOMAIN library.vendored :
        library.files[library.vendored[url].path].bytes # library.vendored[url].digest
Drifted == {ParseDocument(d) : d \in {s \in Specifications :
                                        s.format = "openapi" /\ DriftedFrom(s.library)}}

\* Nothing is written for a document while a file vendored for it is not the one that was
\* pinned, with no planner and whatever was approved: the digest an overlay is bound to is
\* that of the root document, which is the same before and after, so the approvals given for
\* one stand for the other (refs.py: "checks they are the ones that were pinned").
DriftBlocks == [][served' # served => specification \notin Drifted]_vars
=============================================================================
