----------------------------- MODULE References -----------------------------
(***************************************************************************)
(* How a `$ref` is followed (ingest/refs.py): within the document, into a  *)
(* file of an allowed directory, or to the file a remote document was      *)
(* vendored into, and never to the network.                                *)
(*                                                                         *)
(* A reference has a `kind` ("inner", "file" or "remote"), the document it *)
(* names and a fragment.  A document has its `bytes` and the nodes at its  *)
(* fragments: a node is a value, and `ref` is the reference it consists of *)
(* or NoRef.  A library is what a compile is given: the files on disk, the *)
(* names of those in an allowed directory, and the vendored documents with *)
(* the file and the digest each is locked to.  The digest of bytes is      *)
(* those bytes.                                                            *)
(***************************************************************************)
EXTENDS Operations

NoRef == [kind |-> "none", document |-> None, fragment |-> None]
MaxDepth == 16

\* Mutant of ReadCached: the file is there, whatever it holds.
ReadCachedUnchecked(library, url) ==
    /\ url \in DOMAIN library.vendored
    /\ library.vendored[url].path \in DOMAIN library.files

\* The file holding a vendored document, read twice: once to compare its digest, and
\* then to load it.
ReadCached(library, url) ==
    /\ url \in DOMAIN library.vendored
    /\ library.vendored[url].path \in DOMAIN library.files
    /\ library.files[library.vendored[url].path].bytes = library.vendored[url].digest

\* Why a reference found in document `from` is refused, or None.
Refusal(library, ref) ==
    CASE ref.kind = "inner" -> None
      [] ref.kind = "file" -> IF ref.document \in library.allowed \intersect DOMAIN library.files
                              THEN None ELSE "ref_not_allowlisted"
      [] ref.kind = "remote" ->
             IF ref.document \notin DOMAIN library.vendored THEN "remote_ref_refused"
             ELSE IF ReadCached(library, ref.document) THEN None ELSE "vendored_ref_unusable"

\* The file a reference leads to.
Located(library, from, ref) ==
    CASE ref.kind = "inner" -> from
      [] ref.kind = "file" -> ref.document
      [] ref.kind = "remote" -> library.vendored[ref.document].path

\* Following a chain of references from a file: where it stands, what it has been
\* through, and how it ended.  A reference left in place ends it with the code of the
\* ambiguity; a value ends it with None.
Follow(library, from, ref) ==
    LET Step(at) ==
            LET file == Located(library, at.file, at.ref)
                key == <<file, at.ref.fragment>>
                nodes == library.files[file].nodes
            IN IF Refusal(library, at.ref) # None
               THEN [at EXCEPT !.done = TRUE, !.code = Refusal(library, at.ref)]
               ELSE IF key \in at.stack
               THEN [at EXCEPT !.done = TRUE, !.code = "recursive_reference"]
               ELSE IF at.ref.fragment \notin DOMAIN nodes
               THEN [at EXCEPT !.done = TRUE, !.code = "ref_target_missing"]
               ELSE [file |-> file,
                     ref |-> nodes[at.ref.fragment].ref,
                     value |-> nodes[at.ref.fragment],
                     done |-> nodes[at.ref.fragment].ref = NoRef,
                     stack |-> at.stack \union {key}, code |-> None]
        walk[n \in Nat] ==
            IF n = 0 THEN [file |-> from, ref |-> ref, value |-> NoRef, done |-> ref = NoRef,
                           stack |-> {}, code |-> None]
            ELSE LET before == walk[n - 1] IN IF before.done THEN before ELSE Step(before)
    IN walk[MaxDepth + 1]

\* A chain longer than the depth allowed is an error and not an ambiguity.
TooDeep(walk) == Cardinality(walk.stack) > MaxDepth
Resolved(walk) == walk.done /\ walk.code = None /\ ~TooDeep(walk)

\* Only a recursive reference is harmless.
RefAmbiguities(walk) ==
    IF walk.code = None THEN {}
    ELSE {Ambiguity(walk.code, None, walk.code # "recursive_reference")}
=============================================================================
