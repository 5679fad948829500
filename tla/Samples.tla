------------------------------- MODULE Samples ------------------------------
(***************************************************************************)
(* The parts of documents that instances are put together from.            *)
(***************************************************************************)
EXTENDS Operations

NoRef == [kind |-> "none", document |-> None, fragment |-> None]
NoXsd == [name |-> None, xsd |-> FALSE]
Fixed(text) == [text |-> text, template |-> FALSE]
Template(text) == [text |-> text, template |-> TRUE]

Parameter(name, in, required) ==
    [name |-> name, words |-> <<name>>, in |-> in, required |-> required, default |-> FALSE,
     type |-> "string"]
NoBody == [required |-> FALSE, media |-> <<>>]
JsonBody == [required |-> TRUE, media |-> <<"json">>]
Answer == [class |-> "2", typed |-> TRUE, properties |-> {<<"id">>, <<"total">>},
           required |-> {<<"id">>}]
Silent == [given |-> FALSE, alternatives |-> <<>>]
Secured(alternatives) == [given |-> TRUE, alternatives |-> alternatives]
Alternative(schemes, scopes) == [schemes |-> schemes, scopes |-> scopes]

Raw(method, words, id) ==
    [method |-> method, id |-> id, words |-> words, summary |-> words, description |-> {},
     body |-> NoBody, parameters |-> <<>>, responses |-> <<Answer>>, security |-> Silent,
     accepted |-> FALSE, deprecated |-> FALSE, tags |-> <<>>, servers |-> <<>>]

Path(key, route, parameters, operations) ==
    [key |-> key, route |-> route, ref |-> NoRef,
     node |-> [parameters |-> parameters, servers |-> <<>>, operations |-> operations,
               refs |-> {}]]

NoLibrary == [files |-> <<>>, allowed |-> {}, vendored |-> <<>>]
OAuth == [id |-> "oauth", type |-> "oauth2", scheme |-> None, in |-> None, named |-> TRUE]
Key == [id |-> "key", type |-> "apiKey", scheme |-> None, in |-> "header", named |-> TRUE]

Document(service, bytes, version, security, library, paths) ==
    [format |-> "openapi", service |-> service, bytes |-> bytes, version |-> version,
     root |-> "root", servers |-> <<[url |-> "api", absolute |-> TRUE]>>, security |-> security,
     schemes |-> {OAuth, Key}, paths |-> paths, library |-> library]

Part(name, type) ==
    [name |-> name, words |-> <<name>>, type |-> [name |-> type, xsd |-> FALSE]]
Soap(name, words, input) ==
    [name |-> name, words |-> words, documentation |-> <<>>, input |-> input,
     output |-> "answer", foreign |-> FALSE, faults |-> {}]
Member(name, type, required) ==
    [name |-> <<name>>, type |-> [name |-> type, xsd |-> TRUE], required |-> required]
=============================================================================
