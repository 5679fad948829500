-------------------------------- MODULE Wsdl --------------------------------
(***************************************************************************)
(* From a WSDL 1.1 document to the IR (ingest/wsdl.py): its port types,    *)
(* the binding and the port that carry each, the XSD types its messages    *)
(* name (ingest/xsd.py), and what authenticates it, which is a             *)
(* WS-SecurityPolicy attached to a binding (ingest/wspolicy.py) or a       *)
(* transport declared beside the document (ingest/transport.py).           *)
(*                                                                         *)
(* A document has `portTypes`, `bindings` and `ports` in order, `messages` *)
(* by name, each the sequence of its parts, and the `types` and `elements` *)
(* its schemas declare by local name.  A declaration has its members, the  *)
(* type it `extends` and whether it is `partial`: holds a construct with   *)
(* no JSON Schema form.  A reference to a type is a name and whether it is *)
(* `xsd`; NoType when none is given.  Facets, wording and provenance are   *)
(* left out.                                                               *)
(***************************************************************************)
EXTENDS Operations

-----------------------------------------------------------------------------
(* XSD *)

Primitives ==
    {"string", "boolean", "decimal", "float", "double", "integer", "int", "long", "short",
     "date", "dateTime", "time", "duration", "base64Binary", "anyURI", "anyType"}
NoType == [name |-> None, xsd |-> FALSE]

NoSchema == [schema |-> FALSE, unresolved |-> TRUE, properties |-> {}, required |-> {}]
Schema(caveat) == [NoSchema EXCEPT !.schema = TRUE, !.unresolved = caveat]

\* A name is looked up among the types, and then among the elements.  A type that refers
\* to itself is reported where it does, and not expanded.
ResolveType(document, reference) ==
    LET named == document.elements @@ document.types
        primitive(ref) == ref.name \in Primitives
                          /\ (ref.xsd \/ ref.name \notin DOMAIN document.types)
        Declared(name) == IF name \in DOMAIN document.types THEN document.types[name]
                          ELSE document.elements[name]
        resolve[ref \in document.references, seen \in SUBSET DOMAIN named] ==
            IF primitive(ref) THEN Schema(FALSE)
            ELSE IF ref.name \in seen THEN Schema(TRUE)
            ELSE IF ref.name \notin DOMAIN named THEN NoSchema
            ELSE LET type == Declared(ref.name)
                     Below(to) == IF to = NoType THEN Schema(FALSE)
                                  ELSE resolve[to, seen \union {ref.name}]
                     base == Below(type.extends)
                 IN [schema |-> TRUE,
                     unresolved |-> \/ type.partial \/ base.unresolved
                                    \/ \E m \in type.members : Below(m.type).unresolved,
                     properties |-> base.properties \union {m.name : m \in type.members},
                     required |-> base.required
                                  \union {m.name : m \in {n \in type.members : n.required}}]
    IN resolve[reference, {}]

\* A message of one part is that part, and one of several an object over them.
MessageSchema(document, parts) ==
    LET Resolved(i) == IF parts[i].type = NoType THEN Schema(FALSE)
                       ELSE ResolveType(document, parts[i].type)
        all == {Resolved(i) : i \in DOMAIN parts}
    IN IF parts = <<>> THEN [NoSchema EXCEPT !.unresolved = FALSE]
       ELSE IF Len(parts) = 1 THEN Resolved(1)
       ELSE [schema |-> \A r \in all : r.schema,
             unresolved |-> \E r \in all : r.unresolved,
             properties |-> IF \A r \in all : r.schema
                            THEN {parts[i].words : i \in DOMAIN parts} ELSE {},
             required |-> {}]

-----------------------------------------------------------------------------
(* Bindings and ports *)

NoBinding == [name |-> None, portType |-> None, style |-> None, soap |-> FALSE,
              operations |-> <<>>, asserts |-> {}]
NoBound == [style |-> None, use |-> None]

\* The first binding of a port type, and the address of the first port of that binding.
BindingForPortType(document, portType) ==
    LET found == SelectSeq(document.bindings, LAMBDA b : b.portType = portType)
    IN IF found = <<>> THEN NoBinding ELSE Head(found)
EndpointOf(document, binding) ==
    LET found == SelectSeq(document.ports, LAMBDA p : p.binding = binding.name)
    IN IF found = <<>> THEN None ELSE Head(found).address

-----------------------------------------------------------------------------
(* Operations *)

PartsOf(document, message) ==
    IF message \in DOMAIN document.messages THEN document.messages[message] ELSE <<>>

\* A part is always in the envelope, so every one is required.
PartFields(parts) ==
    LET named == SelectSeq(parts, LAMBDA p : p.name # None)
    IN [i \in DOMAIN named |->
           [name |-> named[i].name, words |-> named[i].words, in |-> "soap_body",
            required |-> TRUE, default |-> FALSE, mirrorable |-> FALSE]]

Parts(document, op) == IF op.input = None THEN <<>> ELSE PartsOf(document, op.input)

BuildSoapOperation(document, portType, op) ==
    LET binding == BindingForPortType(document, portType)
        answer == MessageSchema(document, PartsOf(document, op.output)) IN
    [id |-> op.name,
     words |-> op.words,
     intent |-> IF op.documentation # <<>> THEN op.documentation ELSE op.words,
     summarised |-> op.documentation # <<>>,
     description |-> ToSet(op.documentation),
     method |-> None,
     effect |-> "unknown",
     idempotency |-> "unknown",
     routed |-> FALSE,
     route |-> <<>>,
     inputs |-> PartFields(Parts(document, op)),
     outputs |-> IF op.output = None THEN <<>>
                 ELSE <<[success |-> FALSE, typed |-> answer.schema,
                         properties |-> answer.properties, required |-> answer.required]>>,
     auth |-> NoAuth,
     accepted |-> FALSE,
     deprecated |-> FALSE,
     tags |-> <<>>,
     portType |-> portType,
     soap |-> TRUE,
     endpoint |-> EndpointOf(document, binding),
     servers |-> <<>>]

\* What stays open about an operation.  Nothing in a WSDL says what an operation does, so
\* every one waits for somebody to classify it.
SoapAmbiguities(document, portType, op) ==
    LET binding == BindingForPortType(document, portType)
        bound == IF op.name \in DOMAIN binding.operations THEN binding.operations[op.name]
                 ELSE NoBound
        style == IF bound.style # None THEN bound.style ELSE binding.style
        typed == SelectSeq(Parts(document, op), LAMBDA p : p.name # None /\ p.type # NoType)
        inputs == {ResolveType(document, typed[i].type) : i \in DOMAIN typed}
        answer == PartsOf(document, op.output)
        answers == When(answer # <<>>, MessageSchema(document, answer))
        Of(code, blocking) == Ambiguity(code, op.name, blocking)
        Incomplete(type) == ~type.schema \/ type.unresolved
        \* Only a type without any schema leaves the operation without a contract.
        Unresolved(type) == Of("unresolved_xsd_type", ~type.schema)
    IN {Of("unclassified_side_effect", TRUE)}
       \union When(op.foreign, Of("cross_namespace_message_reference", TRUE))
       \union When(binding = NoBinding, Of("missing_soap_binding", TRUE))
       \union When(style \notin {None, "document", "rpc"}, Of("unsupported_soap_style", TRUE))
       \union When(bound.use \notin {None, "literal"}, Of("unsupported_soap_encoding", TRUE))
       \union When(op.faults # {}, Of("untyped_soap_fault", FALSE))
       \union {Unresolved(t) : t \in {t \in inputs : Incomplete(t)}}
       \union {Unresolved(t) : t \in {t \in answers : Incomplete(t)}}

-----------------------------------------------------------------------------
(* Authentication *)

\* The token assertions that say who is calling, and the scheme each becomes.
Tokens ==
    [UsernameToken |-> "other", X509Token |-> "mutualTLS", KerberosToken |-> "other",
     IssuedToken |-> "other", HttpsToken |-> "mutualTLS"]
\* Those that say how a message is protected, which is no authentication.
NotAuthentication ==
    {"TransportBinding", "AsymmetricBinding", "SymmetricBinding", "Wss10", "Wss11", "Trust10",
     "Trust13", "TransportToken", "AlgorithmSuite", "Layout", "Strict", "Lax", "SignedParts",
     "EncryptedParts", "SignedSupportingTokens", "IncludeTimestamp", "Basic256", "Basic128",
     "TripleDes", "Body", "Header"}

Scheme(id, type) == [id |-> id, type |-> type, scheme |-> None, in |-> None, named |-> FALSE]
Required(ids) == [NoAuth EXCEPT !.declared = TRUE, !.schemes = ids,
                                !.alternatives = <<[schemes |-> ids, scopes |-> {}]>>]

\* All the tokens of a policy are required together.
ReadPolicy(binding) == binding.asserts \intersect DOMAIN Tokens

\* The scheme an operator declares for a service whose document names none.
DeclaredScheme(transport) ==
    CASE transport = "mutual_tls" -> Scheme("declared_transport", "mutualTLS")
      [] transport = "api_key" -> [Scheme("declared_transport", "apiKey") EXCEPT
                                       !.in = "header", !.named = TRUE]
      [] OTHER -> [Scheme("declared_transport", "http") EXCEPT !.scheme = transport]

\* The first binding whose policy names a token speaks for every operation, and a declared
\* transport only where the document is silent.
Authentication(document) ==
    LET stating == SelectSeq(document.bindings, LAMBDA b : ReadPolicy(b) # {})
        unknown == UNION {document.bindings[i].asserts : i \in DOMAIN document.bindings}
                       \ (NotAuthentication \union DOMAIN Tokens)
        tokens == ReadPolicy(Head(stating))
        open == When(unknown # {}, Ambiguity("unrecognised_security_assertion", None, FALSE))
    IN IF stating # <<>>
       THEN [schemes |-> {Scheme(token, Tokens[token]) : token \in tokens},
             auth |-> Required(tokens),
             ambiguities |-> open \union
                 When(document.transport # None,
                      Ambiguity("declared_transport_ignored", None, FALSE))]
       ELSE IF document.transport # None
       THEN [schemes |-> {DeclaredScheme(document.transport)},
             auth |-> Required({"declared_transport"}), ambiguities |-> open]
       ELSE [schemes |-> {}, auth |-> NoAuth, ambiguities |-> open]

-----------------------------------------------------------------------------
(* The document *)

\* Another version, or a root without a target namespace, is an error.
WsdlReadable(document) == document.version = "1.1" /\ document.namespace # None

ParseWsdl(document) ==
    LET auth == Authentication(document)
        all == FlattenSeq([i \in DOMAIN document.portTypes |->
                   [k \in DOMAIN document.portTypes[i].operations |->
                       [portType |-> document.portTypes[i].name,
                        op |-> document.portTypes[i].operations[k]]]])
        addressed == SelectSeq(document.ports, LAMBDA p : p.address # None)
    IN [format |-> "wsdl",
        service |-> document.service,
        digest |-> document.bytes,
        servers |-> [i \in DOMAIN addressed |->
                        [url |-> addressed[i].address, absolute |-> TRUE]],
        schemes |-> auth.schemes,
        operations |-> [i \in DOMAIN all |->
            [BuildSoapOperation(document, all[i].portType, all[i].op)
                EXCEPT !.auth = auth.auth]],
        ambiguities |-> auth.ambiguities
            \union UNION {SoapAmbiguities(document, all[i].portType, all[i].op) :
                              i \in DOMAIN all}
            \union When(document.imports, Ambiguity("unresolved_wsdl_import", None, TRUE))
            \union When(document.collisions, Ambiguity("ambiguous_xsd_name", None, FALSE))]
=============================================================================
