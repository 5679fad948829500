------------------------------- MODULE OpenApi ------------------------------
(***************************************************************************)
(* From an OpenAPI 3 document to the IR (ingest/openapi.py), and from a    *)
(* Swagger 2 document to an OpenAPI 3 one (ingest/swagger2.py).            *)
(*                                                                         *)
(* A document is read, not parsed: it has its `bytes`, `version`, servers, *)
(* security, schemes and paths in order, and the library its references    *)
(* are looked up in (References).  A path has its route, what identifies   *)
(* it, and a node: its parameters, servers, operations and the references  *)
(* in its schemas; or a reference to such a node.  Provenance, examples,   *)
(* headers, styles and the ledger of keys nothing reads are left out.      *)
(***************************************************************************)
EXTENDS References, Language

HttpMethods == {"get", "put", "post", "delete", "options", "head", "patch", "trace"}
KnownMinors == {"3.0", "3.1", "3.2"}
Locations == {"path", "query", "header", "cookie"}

MethodSideEffect ==
    [m \in HttpMethods |-> CASE m \in {"get", "head", "options", "trace"} -> "read"
                             [] m = "delete" -> "destructive"
                             [] OTHER -> "write"]
\* PATCH is left undetermined.
MethodIdempotency ==
    [m \in HttpMethods |-> CASE m = "post" -> "non_idempotent"
                             [] m = "patch" -> "unknown"
                             [] OTHER -> "idempotent"]

-----------------------------------------------------------------------------
(* The parts of an operation *)

ParameterField(p) ==
    [name |-> p.name, words |-> p.words, in |-> p.in, required |-> p.required,
     default |-> p.default, mirrorable |-> p.type \in {"string", "integer"}]

\* A parameter of the operation takes the place of that of the path item with the same
\* name and location; one without a name or in no known location is dropped.
MergedParameters(path, raw) ==
    LET all == SelectSeq(path.parameters \o raw.parameters,
                         LAMBDA p : p.name # None /\ p.in \in Locations)
        Same(i, j) == all[i].name = all[j].name /\ all[i].in = all[j].in
        firsts == {i \in DOMAIN all : \A j \in 1..(i - 1) : ~Same(i, j)}
        order == SetToSortSeq(firsts, <)
        LastOf(i) == CHOOSE j \in DOMAIN all :
                         Same(i, j) /\ \A k \in DOMAIN all : Same(i, k) => k <= j
    IN [i \in DOMAIN order |-> ParameterField(all[LastOf(order[i])])]

\* One argument however many media types the body is offered in.
BodyFields(raw) ==
    IF raw.body.media = <<>> THEN <<>>
    ELSE <<[name |-> "body", words |-> <<"body">>, in |-> "body",
            required |-> raw.body.required, default |-> FALSE, mirrorable |-> FALSE]>>

\* 2xx and 3xx are outputs; the others and `default` are faults.
Responses(raw) ==
    LET outputs == SelectSeq(raw.responses, LAMBDA r : r.class \in {"2", "3"})
    IN [i \in DOMAIN outputs |->
            [success |-> outputs[i].class = "2", typed |-> outputs[i].typed,
             properties |-> outputs[i].properties, required |-> outputs[i].required]]

\* The security of the operation, or else of the document.  An empty list disables
\* authentication; saying nothing does not declare any.
Authentication(document, raw) ==
    LET given == IF raw.security.given THEN raw.security ELSE document.security
        all == given.alternatives
    IN [declared |-> given.given,
        disabled |-> given.given /\ all = <<>>,
        schemes |-> UNION {all[i].schemes : i \in DOMAIN all},
        scopes |-> UNION {all[i].scopes : i \in DOMAIN all},
        alternatives |-> all]

\* A scheme the IR cannot describe is kept as one nobody can present.
AuthSchemes(document) ==
    {[s EXCEPT !.type =
          IF \/ s.type \notin {"http", "apiKey", "oauth2", "openIdConnect", "mutualTLS"}
             \/ s.type = "http" /\ s.scheme = None
             \/ s.type = "apiKey" /\ (s.in = None \/ ~s.named)
             \/ s.type = "openIdConnect" /\ ~s.named
          THEN "other" ELSE s.type] : s \in {s \in document.schemes : s.type # None}}

\* Wording raises a write to destructive and never lowers anything.
SideEffect(raw, id) ==
    LET base == MethodSideEffect[raw.method]
    IN IF DestructiveSignals(id.words) \union DestructiveSignals(raw.summary) # {}
          /\ base # "read"
       THEN "destructive" ELSE base

\* A read in destructive words is left a read and held back; the ambiguity does not say
\* which operation it is about.
LanguageConflict(raw, id) ==
    /\ MethodSideEffect[raw.method] = "read"
    /\ DestructiveSignals(id.words) \union DestructiveSignals(raw.summary) # {}

OperationId(path, raw) ==
    IF raw.id # None THEN [text |-> raw.id, words |-> raw.words]
    ELSE [text |-> raw.method \o "_" \o path.key,
          words |-> <<raw.method>> \o [i \in DOMAIN path.route |-> path.route[i].text]]

BuildOperation(document, path, node, raw) ==
    LET id == OperationId(path, raw) IN
    [id |-> id.text,
     words |-> id.words,
     intent |-> IF raw.summary # <<>> THEN raw.summary ELSE id.words,
     summarised |-> raw.summary # <<>> /\ raw.summary # id.words,
     description |-> raw.description,
     method |-> raw.method,
     effect |-> SideEffect(raw, id),
     idempotency |-> MethodIdempotency[raw.method],
     routed |-> TRUE,
     route |-> path.route,
     inputs |-> MergedParameters(node, raw) \o BodyFields(raw),
     outputs |-> Responses(raw),
     auth |-> Authentication(document, raw),
     accepted |-> raw.accepted,
     deprecated |-> raw.deprecated,
     tags |-> raw.tags,
     portType |-> None,
     soap |-> FALSE,
     endpoint |-> None,
     servers |-> IF raw.servers # <<>> THEN raw.servers ELSE node.servers]

-----------------------------------------------------------------------------
(* The document *)

\* The walk of each path to its node, and those of the references in its schemas.
PathWalk(document, path) == Follow(document.library, document.root, path.ref)
NodeOf(document, path) ==
    IF path.ref = NoRef THEN path.node ELSE PathWalk(document, path).value.node
SchemaWalks(document, path) ==
    {Follow(document.library, document.root, ref) : ref \in NodeOf(document, path).refs}

\* A path whose reference is left in place has no operations.
ReadPaths(document) ==
    SelectSeq(document.paths, LAMBDA path : path.ref = NoRef \/ Resolved(PathWalk(document, path)))
Walks(document) ==
    {PathWalk(document, document.paths[i]) : i \in DOMAIN document.paths}
        \union UNION {SchemaWalks(document, ReadPaths(document)[i]) :
                          i \in DOMAIN ReadPaths(document)}

OpenApiOperations(document) ==
    LET paths == ReadPaths(document)
    IN FlattenSeq([i \in DOMAIN paths |->
           LET node == NodeOf(document, paths[i])
               raws == SelectSeq(node.operations, LAMBDA raw : raw.method \in HttpMethods)
           IN [k \in DOMAIN raws |-> BuildOperation(document, paths[i], node, raws[k])]])

OpenApiAmbiguities(document) ==
    LET ops == OpenApiOperations(document)
        paths == ReadPaths(document)
        Raws(i) == ToSet(NodeOf(document, paths[i]).operations)
        conflict == \E i \in DOMAIN paths : \E raw \in Raws(i) :
                        /\ raw.method \in HttpMethods
                        /\ LanguageConflict(raw, OperationId(paths[i], raw))
        duplicate == \E i, j \in DOMAIN ops : i # j /\ ops[i].id = ops[j].id
    IN UNION {RefAmbiguities(walk) : walk \in Walks(document)}
       \union When(conflict, Ambiguity("side_effect_language_conflict", None, TRUE))
       \union When(duplicate, Ambiguity("duplicate_operation_id", None, TRUE))

\* The digest is of the bytes of the document and of no other it refers to.
ParseOpenApi(document) ==
    [format |-> "openapi",
     service |-> document.service,
     digest |-> document.bytes,
     servers |-> document.servers,
     schemes |-> AuthSchemes(document),
     operations |-> OpenApiOperations(document),
     ambiguities |-> OpenApiAmbiguities(document)]

\* Another version, or a chain of references that is too long, is an error.
OpenApiReadable(document) ==
    /\ document.version \in KnownMinors \union {"2.0", "3.x"}
    /\ \A walk \in Walks(document) : ~TooDeep(walk)

-----------------------------------------------------------------------------
(* Swagger 2 *)

\* The body and the form of an operation become its request body.  A form is never
\* required as a whole.
RequestBody(raw, consumes) ==
    LET body == SelectSeq(raw.parameters, LAMBDA p : p.in = "body")
        form == SelectSeq(raw.parameters, LAMBDA p : p.in = "formData")
    IN IF body # <<>>
       THEN [required |-> body[1].required,
             media |-> IF consumes # <<>> THEN consumes ELSE <<"json">>]
       ELSE [required |-> FALSE, media |-> IF form # <<>> THEN <<"form">> ELSE <<>>]

Converted(parameters) == SelectSeq(parameters, LAMBDA p : p.in \notin {"body", "formData"})

\* basic, apiKey and oauth2 are what Swagger 2 has; a scheme of another type is left out.
SecuritySchemes(document) ==
    LET Known(s) == s.type \in {"basic", "apiKey"} \/ (s.type = "oauth2" /\ s.named)
        Renamed(s) == IF s.type = "basic" THEN [s EXCEPT !.type = "http", !.scheme = "basic"]
                      ELSE s
    IN {Renamed(s) : s \in {t \in document.schemes : Known(t)}}

\* A path that is a reference has no operations here and is dropped without a word, and
\* so is a body declared for a whole path.
ToOpenApi3(document) ==
    [document EXCEPT
        !.version = "3.0",
        !.schemes = SecuritySchemes(document),
        !.paths = [i \in DOMAIN document.paths |->
            LET path == document.paths[i] IN
            [path EXCEPT
                !.ref = NoRef,
                !.node = IF path.ref # NoRef
                    THEN [parameters |-> <<>>, servers |-> <<>>, operations |-> <<>>, refs |-> {}]
                    ELSE [path.node EXCEPT
                        !.parameters = Converted(path.node.parameters),
                        !.operations = [k \in DOMAIN path.node.operations |->
                            LET raw == path.node.operations[k] IN
                            [raw EXCEPT
                                !.parameters = Converted(raw.parameters),
                                !.body = RequestBody(raw, raw.body.media)]]]]]]

ConflictingBody(document) ==
    \E i \in DOMAIN document.paths : \E raw \in ToSet(document.paths[i].node.operations) :
        {"body", "formData"} \subseteq {raw.parameters[k].in : k \in DOMAIN raw.parameters}

LoadOpenApi(document) ==
    IF document.version = "2.0"
    THEN LET ir == ParseOpenApi(ToOpenApi3(document)) IN
         [ir EXCEPT !.ambiguities = ir.ambiguities \union
              When(ConflictingBody(document), Ambiguity("conflicting_request_body", None, TRUE))]
    ELSE ParseOpenApi(document)
=============================================================================
