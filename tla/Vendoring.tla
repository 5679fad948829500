------------------------------ MODULE Vendoring -----------------------------
(***************************************************************************)
(* The remote references of a specification: `vendor-refs` fetches them    *)
(* and pins them in a lock (ingest/vendoring.py), and a compile reads what *)
(* was vendored and nothing else (ingest/refs.py).  Between two commands,  *)
(* and in the middle of one, the services that publish the documents       *)
(* change, files are touched, a person takes an entry out of the lock, and *)
(* a run is killed.                                                        *)
(*                                                                         *)
(* The digest of bytes is those bytes, and a document is the one file its  *)
(* URL names in the cache.  `trusted` is history: what a run with --record *)
(* has put in the lock.                                                    *)
(***************************************************************************)
EXTENDS Integers, Sequences, FiniteSets

CONSTANTS
    Url,            \* The documents a specification may refer to.
    Bytes,          \* What a document may consist of.
    Absent,         \* No file, or no answer of the service.
    Torn,           \* A file that was opened for writing and not written.
    Wanted,         \* The remote references of the specification, in the order first seen.
    Overlapping,    \* Whether a compile may run while `vendor-refs` does, one run of it at a time.
    MaxChanges      \* Bound on what happens outside the commands.

ASSUME WantedAssumption == Wanted \in Seq(Url)
ASSUME BytesAssumption == Absent \notin Bytes /\ Torn \notin Bytes /\ Absent # Torn
ASSUME OverlappingAssumption == Overlapping \in BOOLEAN
ASSUME MaxChangesAssumption == MaxChanges \in Nat

VARIABLES
    service,        \* What each document's service answers.
    lock,           \* The digest each URL of the lock is pinned to.
    cache,          \* The file of each URL.
    vendor,         \* The run of `vendor-refs`.
    compile,        \* The compile.
    trusted,        \* What --record has put in the lock.
    changes         \* How often something happened outside the commands.

vars == <<service, lock, cache, vendor, compile, trusted, changes>>

Locks == UNION {[urls -> Bytes] : urls \in SUBSET Url}

\* A run has its place, whether --record was given, the lock it read, how many references
\* it is done with, and the entries and the bytes it has.
NoRun == [at |-> "idle", record |-> FALSE, existing |-> <<>>, done |-> 0,
          entries |-> <<>>, payload |-> Absent]

\* A compile has the lock it read and what it loaded of the references before `done`.
NoCompile == [at |-> "idle", locked |-> <<>>, done |-> 0, used |-> <<>>]

Init ==
    /\ service \in [Url -> Bytes]
    /\ lock = <<>>
    /\ cache = [u \in Url |-> Absent]
    /\ vendor = NoRun
    /\ compile = NoCompile
    /\ trusted = {}
    /\ changes = 0

Pin(entries, u, digest) ==
    [w \in DOMAIN entries \union {u} |-> IF w = u THEN digest ELSE entries[w]]

WantedUrls == {Wanted[i] : i \in 1..Len(Wanted)}

-----------------------------------------------------------------------------
(* vendor-refs *)

Current == Wanted[vendor.done + 1]

\* Mutant of Start: --record is not asked for.
StartTrusting(record) ==
    /\ vendor.at \in {"idle", "failed"}
    /\ Overlapping \/ compile.at = "idle"
    /\ vendor' = [NoRun EXCEPT !.at = "next", !.record = record, !.existing = lock]
    /\ UNCHANGED <<service, lock, cache, compile, trusted, changes>>

\* A URL the lock does not name is trusted only when --record says so; without it the run
\* is refused before anything is fetched.
Start(record) ==
    /\ vendor.at \in {"idle", "failed"}
    /\ Overlapping \/ compile.at = "idle"
    /\ vendor' = [NoRun EXCEPT
           !.at = IF record \/ WantedUrls \subseteq DOMAIN lock THEN "next" ELSE "failed",
           !.record = record, !.existing = lock]
    /\ UNCHANGED <<service, lock, cache, compile, trusted, changes>>

\* Still the bytes that were locked: the network is not asked.
Unchanged ==
    /\ vendor.at = "next" /\ vendor.done < Len(Wanted)
    /\ Current \in DOMAIN vendor.existing
    /\ cache[Current] = vendor.existing[Current]
    /\ vendor' = [vendor EXCEPT !.done = vendor.done + 1,
           !.entries = Pin(vendor.entries, Current, vendor.existing[Current])]
    /\ UNCHANGED <<service, lock, cache, compile, trusted, changes>>

\* Mutant of Fetch: what the service answers is not compared with the lock.
FetchAnything ==
    /\ vendor.at = "next" /\ vendor.done < Len(Wanted)
    /\ ~(/\ Current \in DOMAIN vendor.existing
         /\ cache[Current] = vendor.existing[Current])
    /\ LET payload == service[Current] IN
       vendor' = IF payload = Absent THEN [vendor EXCEPT !.at = "failed"]
                 ELSE [vendor EXCEPT !.at = "open", !.payload = payload]
    /\ UNCHANGED <<service, lock, cache, compile, trusted, changes>>

\* What the service answers is checked against the lock before a byte is written.  A
\* reference that cannot be fetched or verified ends the run there.
Fetch ==
    /\ vendor.at = "next" /\ vendor.done < Len(Wanted)
    /\ ~(/\ Current \in DOMAIN vendor.existing
         /\ cache[Current] = vendor.existing[Current])
    /\ LET payload == service[Current] IN
       vendor' = IF \/ payload = Absent
                    \/ /\ Current \in DOMAIN vendor.existing
                       /\ vendor.existing[Current] # payload
                 THEN [vendor EXCEPT !.at = "failed"]
                 ELSE [vendor EXCEPT !.at = "open", !.payload = payload]
    /\ UNCHANGED <<service, lock, cache, compile, trusted, changes>>

\* The file is opened, which empties it, and then written.
Open ==
    /\ vendor.at = "open"
    /\ cache' = [cache EXCEPT ![Current] = Torn]
    /\ vendor' = [vendor EXCEPT !.at = "write"]
    /\ UNCHANGED <<service, lock, compile, trusted, changes>>

\* Mutant of Write: the digest is that of the file before it is written.
WriteDigestOfFile ==
    /\ vendor.at = "write"
    /\ cache' = [cache EXCEPT ![Current] = vendor.payload]
    /\ vendor' = [vendor EXCEPT !.at = "next", !.done = vendor.done + 1, !.payload = Absent,
           !.entries = Pin(vendor.entries, Current, cache[Current])]
    /\ UNCHANGED <<service, lock, compile, trusted, changes>>

Write ==
    /\ vendor.at = "write"
    /\ cache' = [cache EXCEPT ![Current] = vendor.payload]
    /\ vendor' = [vendor EXCEPT !.at = "next", !.done = vendor.done + 1, !.payload = Absent,
           !.entries = Pin(vendor.entries, Current, vendor.payload)]
    /\ UNCHANGED <<service, lock, compile, trusted, changes>>

\* The lock is written last, and names only what the specification refers to now.
Finish ==
    /\ vendor.at = "next" /\ vendor.done = Len(Wanted)
    /\ lock' = vendor.entries
    /\ trusted' = IF vendor.record
                  THEN trusted \union {<<u, vendor.entries[u]>> : u \in DOMAIN vendor.entries}
                  ELSE trusted
    /\ vendor' = NoRun
    /\ UNCHANGED <<service, cache, compile, changes>>

Killed ==
    /\ vendor.at \in {"next", "open", "write"} /\ changes < MaxChanges
    /\ vendor' = NoRun
    /\ changes' = changes + 1
    /\ UNCHANGED <<service, lock, cache, compile, trusted>>

-----------------------------------------------------------------------------
(* A compile *)

Reading == Wanted[compile.done + 1]

Compile ==
    /\ compile.at \in {"idle", "failed"}
    /\ Overlapping \/ vendor.at \in {"idle", "failed"}
    /\ compile' = [NoCompile EXCEPT !.at = "check", !.locked = lock]
    /\ UNCHANGED <<service, lock, cache, vendor, trusted, changes>>

\* A reference the lock does not name, or of which the file is gone or has changed, is left
\* in place and blocks the surface; the compile goes on.
Refuse ==
    /\ compile.at = "check" /\ compile.done < Len(Wanted)
    /\ ~(Reading \in DOMAIN compile.locked /\ cache[Reading] = compile.locked[Reading])
    /\ compile' = [compile EXCEPT !.done = compile.done + 1]
    /\ UNCHANGED <<service, lock, cache, vendor, trusted, changes>>

\* Mutant of Check: only the presence of the file is checked.
CheckPresence ==
    /\ compile.at = "check" /\ compile.done < Len(Wanted)
    /\ Reading \in DOMAIN compile.locked /\ cache[Reading] # Absent
    /\ compile' = [compile EXCEPT !.at = "load"]
    /\ UNCHANGED <<service, lock, cache, vendor, trusted, changes>>

\* The file is read to compare its digest with the lock ...
Check ==
    /\ compile.at = "check" /\ compile.done < Len(Wanted)
    /\ Reading \in DOMAIN compile.locked /\ cache[Reading] = compile.locked[Reading]
    /\ compile' = [compile EXCEPT !.at = "load"]
    /\ UNCHANGED <<service, lock, cache, vendor, trusted, changes>>

\* ... and read again to be used; a file that does not parse ends the compile.
Load ==
    /\ compile.at = "load"
    /\ compile' = IF cache[Reading] \in Bytes
                  THEN [compile EXCEPT !.at = "check", !.done = compile.done + 1,
                            !.used = Pin(compile.used, Reading, cache[Reading])]
                  ELSE [compile EXCEPT !.at = "failed"]
    /\ UNCHANGED <<service, lock, cache, vendor, trusted, changes>>

Compiled ==
    /\ compile.at = "check" /\ compile.done = Len(Wanted)
    /\ compile' = NoCompile
    /\ UNCHANGED <<service, lock, cache, vendor, trusted, changes>>

-----------------------------------------------------------------------------
(* Outside the commands *)

\* A file of the cache is changed between two commands; so is the lock, unless commands
\* overlap.
Quiet == vendor.at \in {"idle", "failed"} /\ compile.at \in {"idle", "failed"}

Change ==
    /\ changes < MaxChanges
    /\ changes' = changes + 1
    /\ \/ \E u \in Url, answer \in Bytes \union {Absent} :
              /\ answer # service[u]
              /\ service' = [service EXCEPT ![u] = answer]
              /\ UNCHANGED <<lock, cache>>
       \/ \E u \in Url, file \in Bytes \union {Absent} :
              /\ Quiet /\ file # cache[u]
              /\ cache' = [cache EXCEPT ![u] = file]
              /\ UNCHANGED <<service, lock>>
       \/ \E u \in DOMAIN lock :
              /\ Quiet \/ Overlapping
              /\ lock' = [w \in DOMAIN lock \ {u} |-> lock[w]]
              /\ UNCHANGED <<service, cache>>
    /\ UNCHANGED <<vendor, compile, trusted>>

Next ==
    \/ \E record \in BOOLEAN : Start(record)
    \/ Unchanged \/ Fetch \/ Open \/ Write \/ Finish \/ Killed
    \/ Compile \/ Refuse \/ Check \/ Load \/ Compiled
    \/ Change

Spec == Init /\ [][Next]_vars

-----------------------------------------------------------------------------
(* Properties *)

TypeOK ==
    /\ service \in [Url -> Bytes \union {Absent}]
    /\ lock \in Locks
    /\ cache \in [Url -> Bytes \union {Absent, Torn}]
    /\ vendor \in [at : {"idle", "next", "open", "write", "failed"}, record : BOOLEAN,
                   existing : Locks, done : 0..Len(Wanted), entries : Locks,
                   payload : Bytes \union {Absent}]
    /\ compile \in [at : {"idle", "check", "load", "failed"}, locked : Locks,
                    done : 0..Len(Wanted), used : Locks]
    /\ trusted \subseteq Url \X Bytes
    /\ changes \in 0..MaxChanges

\* What a compile uses of a remote document was put in the lock by a run somebody gave
\* --record to: not by a run that was refused, was killed, or failed half way, and not by
\* what the service or the disk holds since (vendoring.py, `vendor`: "a failed run cannot
\* leave a half-vendored cache that the next compile would treat as authoritative").
OnlyTrustedCompiles ==
    \A u \in DOMAIN compile.used : <<u, compile.used[u]>> \in trusted

\* A compile uses the very bytes the lock it read pins (refs.py, `_locate_vendored`).
OnlyLockedCompiles ==
    \A u \in DOMAIN compile.used :
        u \in DOMAIN compile.locked /\ compile.used[u] = compile.locked[u]

\* Once pinned, a document stays pinned to the same bytes for as long as it is in the
\* lock: to trust an upstream edit, an entry has to be taken out and recorded again.  It is
\* said of runs one after another, each of which reads the lock the one before it wrote.
PinnedUntilForgotten ==
    [][\A u \in DOMAIN lock \intersect DOMAIN lock' : lock'[u] = lock[u]]_vars
=============================================================================
