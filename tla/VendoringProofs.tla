--------------------------- MODULE VendoringProofs --------------------------
(***************************************************************************)
(* Proofs about Vendoring, for every set of documents, every contents and  *)
(* any number of changes outside the commands: runs of `vendor-refs`, one  *)
(* at a time, keep what is pinned, and, as long as no compile overlaps     *)
(* one, a compile uses what the lock pins and what somebody recorded.      *)
(***************************************************************************)
EXTENDS Vendoring, TLAPS

-----------------------------------------------------------------------------
(* Places of a run and of a compile *)

Running == vendor.at \in {"next", "open", "write"}
Compiling == compile.at \in {"check", "load"}

\* A run that has a reference in hand is not done with all of them, and holds its bytes.
InHand ==
    vendor.at \in {"open", "write"} =>
        vendor.done < Len(Wanted) /\ vendor.payload \in Bytes
Loading == compile.at = "load" => compile.done < Len(Wanted)

Types == TypeOK /\ InHand /\ Loading

LEMMA WantedIsUrl ==
    ASSUME NEW n \in 0..Len(Wanted), n < Len(Wanted)
    PROVE  Wanted[n + 1] \in Url /\ Wanted[n + 1] \in WantedUrls /\ n + 1 \in 0..Len(Wanted)
<1>1. Wanted \in Seq(Url) /\ Len(Wanted) \in Nat  BY WantedAssumption
<1>2. n + 1 \in 1..Len(Wanted)  BY <1>1
<1>3. QED  BY <1>1, <1>2 DEF WantedUrls

\* A lock is a function from some documents to contents.
LEMMA LocksAre ==
    ASSUME NEW l
    PROVE  l \in Locks <=> DOMAIN l \subseteq Url /\ l \in [DOMAIN l -> Bytes]
BY DEF Locks

LEMMA PinIsLock ==
    ASSUME NEW entries \in Locks, NEW u \in Url, NEW digest \in Bytes
    PROVE  /\ Pin(entries, u, digest) \in Locks
           /\ DOMAIN Pin(entries, u, digest) = DOMAIN entries \union {u}
           /\ Pin(entries, u, digest)[u] = digest
           /\ \A w \in DOMAIN entries \ {u} : Pin(entries, u, digest)[w] = entries[w]
<1>1. DOMAIN entries \subseteq Url /\ entries \in [DOMAIN entries -> Bytes]  BY LocksAre
<1>2. DOMAIN Pin(entries, u, digest) \subseteq Url
    BY <1>1 DEF Pin
<1>3. Pin(entries, u, digest) \in [DOMAIN Pin(entries, u, digest) -> Bytes]
    BY <1>1 DEF Pin
<1>4. Pin(entries, u, digest) \in Locks
    BY <1>2, <1>3, LocksAre
<1>5. QED  BY <1>4 DEF Pin

-----------------------------------------------------------------------------
(* Types *)

LEMMA EmptyLock == <<>> \in Locks /\ DOMAIN <<>> = {}
<1>1. DOMAIN <<>> = {}  OBVIOUS
<1>2. <<>> \in [DOMAIN <<>> -> Bytes]  BY <1>1
<1>3. QED  BY <1>1, <1>2, LocksAre

LEMMA InitTypes == Init => Types
<1> SUFFICES ASSUME Init PROVE Types
    OBVIOUS
<1>1. Len(Wanted) \in Nat  BY WantedAssumption
<1>2. 0 \in 0..Len(Wanted) /\ 0 \in 0..MaxChanges  BY <1>1, MaxChangesAssumption
<1>3. QED  BY <1>1, <1>2, EmptyLock
        DEF Init, NoRun, NoCompile, Types, TypeOK, InHand, Loading

LEMMA NextTypes == Types /\ [Next]_vars => Types'
<1> SUFFICES ASSUME Types, [Next]_vars PROVE Types'
    OBVIOUS
<1> USE DEF Types
<1>len. Len(Wanted) \in Nat  BY WantedAssumption
<1>1. ASSUME NEW record \in BOOLEAN, Start(record) PROVE Types'
    <2>1. \E at \in {"next", "failed"} :
              vendor' = [at |-> at, record |-> record, existing |-> lock, done |-> 0,
                         entries |-> <<>>, payload |-> Absent]
        BY <1>1 DEF Start, NoRun
    <2>2. 0 \in 0..Len(Wanted) /\ <<>> \in Locks  BY <1>len, EmptyLock
    <2>3. QED  BY <1>1, <2>1, <2>2 DEF Start, TypeOK, InHand, Loading
<1>2. CASE Unchanged
    <2> DEFINE entries == Pin(vendor.entries, Current, vendor.existing[Current])
    <2>1. vendor.done \in 0..Len(Wanted) /\ vendor.done < Len(Wanted)
        BY <1>2 DEF Unchanged, TypeOK
    <2>2. Current \in Url /\ vendor.done + 1 \in 0..Len(Wanted)
        BY <2>1, WantedIsUrl DEF Current
    <2>3. vendor.entries \in Locks /\ vendor.existing \in Locks  BY DEF TypeOK
    <2>4. vendor.existing[Current] \in Bytes  BY <1>2, <2>3, LocksAre DEF Unchanged
    <2>5. entries \in Locks  BY <2>2, <2>3, <2>4, PinIsLock
    <2> HIDE DEF entries
    <2>6. vendor' = [vendor EXCEPT !.done = vendor.done + 1, !.entries = entries]
        BY <1>2 DEF Unchanged, entries
    <2>7. QED  BY <1>2, <2>2, <2>5, <2>6 DEF Unchanged, TypeOK, InHand, Loading
<1>3. CASE Fetch
    <2>1. vendor.done \in 0..Len(Wanted) /\ vendor.done < Len(Wanted)
        BY <1>3 DEF Fetch, TypeOK
    <2>2. Current \in Url  BY <2>1, WantedIsUrl DEF Current
    <2>3. service[Current] \in Bytes \union {Absent}  BY <2>2 DEF TypeOK
    <2>4. \/ vendor' = [vendor EXCEPT !.at = "failed"]
          \/ /\ service[Current] \in Bytes
             /\ vendor' = [vendor EXCEPT !.at = "open", !.payload = service[Current]]
        BY <1>3, <2>3 DEF Fetch
    <2>5. QED  BY <1>3, <2>1, <2>4 DEF Fetch, TypeOK, InHand, Loading
<1>4. CASE Open
    BY <1>4, <1>len DEF Open, TypeOK, InHand, Loading
<1>5. CASE Write
    <2> DEFINE entries == Pin(vendor.entries, Current, vendor.payload)
    <2>1. /\ vendor.done \in 0..Len(Wanted) /\ vendor.done < Len(Wanted)
          /\ vendor.payload \in Bytes
        BY <1>5 DEF Write, TypeOK, InHand
    <2>2. Current \in Url /\ vendor.done + 1 \in 0..Len(Wanted)
        BY <2>1, WantedIsUrl DEF Current
    <2>3. entries \in Locks  BY <2>1, <2>2, PinIsLock DEF TypeOK
    <2> HIDE DEF entries
    <2>4. vendor' = [vendor EXCEPT !.at = "next", !.done = vendor.done + 1,
                         !.payload = Absent, !.entries = entries]
        BY <1>5 DEF Write, entries
    <2>5. cache' = [cache EXCEPT ![Current] = vendor.payload]  BY <1>5 DEF Write
    <2>6. QED  BY <1>5, <2>1, <2>2, <2>3, <2>4, <2>5 DEF Write, TypeOK, InHand, Loading
<1>6. CASE Finish
    BY <1>6, <1>len, EmptyLock, LocksAre DEF Finish, NoRun, TypeOK, InHand, Loading
<1>7. CASE Killed
    BY <1>7, <1>len, EmptyLock, MaxChangesAssumption DEF Killed, NoRun, TypeOK, InHand, Loading
<1>8. CASE Compile
    <2>1. compile' = [at |-> "check", locked |-> lock, done |-> 0, used |-> <<>>]
        BY <1>8 DEF Compile, NoCompile
    <2>2. 0 \in 0..Len(Wanted) /\ <<>> \in Locks  BY <1>len, EmptyLock
    <2>3. QED  BY <1>8, <2>1, <2>2 DEF Compile, TypeOK, InHand, Loading
<1>9. CASE Refuse
    BY <1>9, <1>len, WantedIsUrl DEF Refuse, TypeOK, InHand, Loading
<1>10. CASE Check
    BY <1>10, <1>len DEF Check, TypeOK, InHand, Loading
<1>11. CASE Load
    <2> DEFINE used == Pin(compile.used, Reading, cache[Reading])
    <2>1. compile.done \in 0..Len(Wanted) /\ compile.done < Len(Wanted)
        BY <1>11 DEF Load, TypeOK, Loading
    <2>2. Reading \in Url /\ compile.done + 1 \in 0..Len(Wanted)
        BY <2>1, WantedIsUrl DEF Reading
    <2>3. cache[Reading] \in Bytes => used \in Locks  BY <2>2, PinIsLock DEF TypeOK
    <2> HIDE DEF used
    <2>4. \/ compile' = [compile EXCEPT !.at = "failed"]
          \/ /\ cache[Reading] \in Bytes
             /\ compile' = [compile EXCEPT !.at = "check", !.done = compile.done + 1,
                                !.used = used]
        BY <1>11 DEF Load, used
    <2>5. QED  BY <1>11, <2>2, <2>3, <2>4 DEF Load, TypeOK, InHand, Loading
<1>12. CASE Compiled
    BY <1>12, <1>len, EmptyLock DEF Compiled, NoCompile, TypeOK, InHand, Loading
<1>13. CASE Change
    <2>1. changes' \in 0..MaxChanges  BY <1>13, MaxChangesAssumption DEF Change, TypeOK
    <2>2. service' \in [Url -> Bytes \union {Absent}]  BY <1>13 DEF Change, TypeOK
    <2>3. cache' \in [Url -> Bytes \union {Absent, Torn}]  BY <1>13 DEF Change, TypeOK
    <2>4. lock' \in Locks
        <3>1. DOMAIN lock \subseteq Url /\ lock \in [DOMAIN lock -> Bytes]
            BY LocksAre DEF TypeOK
        <3>2. ASSUME NEW u \in DOMAIN lock, lock' = [w \in DOMAIN lock \ {u} |-> lock[w]]
              PROVE  lock' \in Locks
            <4>1. DOMAIN lock' \subseteq Url /\ lock' \in [DOMAIN lock' -> Bytes]
                BY <3>1, <3>2
            <4>2. QED  BY <4>1, LocksAre
        <3>3. QED  BY <1>13, <3>2 DEF Change, TypeOK
    <2>5. QED  BY <1>13, <2>1, <2>2, <2>3, <2>4 DEF Change, TypeOK, InHand, Loading
<1>14. CASE UNCHANGED vars
    BY <1>14 DEF vars, TypeOK, InHand, Loading
<1>15. QED
    BY <1>1, <1>2, <1>3, <1>4, <1>5, <1>6, <1>7, <1>8, <1>9, <1>10, <1>11, <1>12, <1>13,
       <1>14 DEF Next

\* Every variable of the commands keeps its type.
THEOREM TypeCorrect == Spec => []TypeOK
<1>1. Types => TypeOK  BY DEF Types
<1>2. QED  BY InitTypes, NextTypes, <1>1, PTL DEF Spec

-----------------------------------------------------------------------------
(***************************************************************************)
(* What is pinned stays pinned.  A run goes on from the lock it read, from *)
(* which a person may have taken entries since, and what it has pinned so  *)
(* far agrees with that lock.                                              *)
(***************************************************************************)

\* Two locks agree on what both name.
Agree(l, k) == \A u \in (DOMAIN l) \intersect (DOMAIN k) : l[u] = k[u]

GoesOn ==
    Running =>
        /\ DOMAIN lock \subseteq DOMAIN vendor.existing
        /\ Agree(lock, vendor.existing)
        /\ Agree(vendor.entries, vendor.existing)
        /\ DOMAIN vendor.entries \subseteq WantedUrls
        /\ vendor.at \in {"open", "write"} /\ Current \in DOMAIN vendor.existing
               => vendor.payload = vendor.existing[Current]

Continues == Types /\ GoesOn

LEMMA InitContinues == Init => Continues
BY InitTypes DEF Init, Continues, GoesOn, Running, NoRun

\* Only the end of a run writes an entry.
LEMMA LockChanges ==
    ASSUME [Next]_vars, ~Finish
    PROVE  DOMAIN lock' \subseteq DOMAIN lock /\ \A u \in DOMAIN lock' : lock'[u] = lock[u]
<1>1. CASE Change
    BY <1>1 DEF Change
<1>2. CASE lock' = lock
    BY <1>2
<1>3. Change \/ lock' = lock
    BY DEF Next, vars, Start, Unchanged, Fetch, Open, Write, Killed, Compile, Refuse, Check,
           Load, Compiled
<1>4. QED  BY <1>1, <1>2, <1>3

LEMMA NextContinues == Continues /\ [Next]_vars => Continues'
<1> SUFFICES ASSUME Continues, [Next]_vars PROVE GoesOn'
    BY NextTypes DEF Continues
<1> USE DEF Continues
<1>0. Types  OBVIOUS
<1>1. CASE vendor' = vendor /\ ~Finish
    BY <1>1, LockChanges DEF GoesOn, Running, Agree, Current
<1>2. ASSUME NEW record \in BOOLEAN, Start(record) PROVE GoesOn'
    BY <1>2, EmptyLock DEF Start, NoRun, GoesOn, Running, Agree
<1>3. CASE Unchanged
    <2> DEFINE entries == Pin(vendor.entries, Current, vendor.existing[Current])
    <2>1. vendor.done \in 0..Len(Wanted) /\ vendor.done < Len(Wanted) /\ Running
        BY <1>0, <1>3 DEF Unchanged, Types, TypeOK, Running
    <2>2. Current \in Url /\ Current \in WantedUrls  BY <2>1, WantedIsUrl DEF Current
    <2>3. Agree(entries, vendor.existing) /\ DOMAIN entries \subseteq WantedUrls
        BY <2>1, <2>2 DEF Pin, GoesOn, Agree
    <2> HIDE DEF entries
    <2>4. vendor' = [vendor EXCEPT !.done = vendor.done + 1, !.entries = entries]
        BY <1>3 DEF Unchanged, entries
    <2>5. /\ vendor'.at = "next" /\ vendor'.entries = entries
          /\ vendor'.existing = vendor.existing /\ lock' = lock
        BY <1>0, <1>3, <2>4 DEF Unchanged, Types, TypeOK
    <2>6. QED  BY <2>1, <2>3, <2>5 DEF GoesOn, Running, Agree
<1>4. CASE Fetch
    <2>1. \/ vendor'.at = "failed"
          \/ /\ vendor' = [vendor EXCEPT !.at = "open", !.payload = service[Current]]
             /\ Current \in DOMAIN vendor.existing => vendor.existing[Current] = service[Current]
        BY <1>0, <1>4 DEF Fetch, Types, TypeOK
    <2>2. CASE vendor'.at = "failed"
        BY <2>2 DEF GoesOn, Running
    <2>3. CASE /\ vendor' = [vendor EXCEPT !.at = "open", !.payload = service[Current]]
               /\ Current \in DOMAIN vendor.existing => vendor.existing[Current] = service[Current]
        BY <1>0, <1>4, <2>3 DEF Fetch, Types, TypeOK, GoesOn, Running, Agree, Current
    <2>4. QED  BY <2>1, <2>2, <2>3
<1>5. CASE Open
    BY <1>0, <1>5 DEF Open, Types, TypeOK, GoesOn, Running, Agree, Current
<1>6. CASE Write
    <2> DEFINE entries == Pin(vendor.entries, Current, vendor.payload)
    <2>1. vendor.done \in 0..Len(Wanted) /\ vendor.done < Len(Wanted) /\ Running
        BY <1>0, <1>6 DEF Write, Types, TypeOK, InHand, Running
    <2>2. Current \in Url /\ Current \in WantedUrls  BY <2>1, WantedIsUrl DEF Current
    <2>3. Agree(entries, vendor.existing) /\ DOMAIN entries \subseteq WantedUrls
        BY <1>6, <2>1, <2>2 DEF Write, Pin, GoesOn, Agree
    <2> HIDE DEF entries
    <2>4. vendor' = [vendor EXCEPT !.at = "next", !.done = vendor.done + 1,
                         !.payload = Absent, !.entries = entries]
        BY <1>6 DEF Write, entries
    <2>5. /\ vendor'.at = "next" /\ vendor'.entries = entries
          /\ vendor'.existing = vendor.existing /\ lock' = lock
        BY <1>0, <1>6, <2>4 DEF Write, Types, TypeOK
    <2>6. QED  BY <2>1, <2>3, <2>5 DEF GoesOn, Running, Agree
<1>7. CASE Finish \/ Killed
    BY <1>7 DEF Finish, Killed, NoRun, GoesOn, Running
<1>8. (vendor' = vendor /\ ~Finish) \/ Finish \/ Killed \/ Unchanged \/ Fetch \/ Open \/ Write
      \/ \E record \in BOOLEAN : Start(record)
    BY DEF Next, vars, Compile, Refuse, Check, Load, Compiled, Change
<1>9. QED  BY <1>1, <1>2, <1>3, <1>4, <1>5, <1>6, <1>7, <1>8

LEMMA FinishKeepsPins ==
    ASSUME Continues, Finish
    PROVE  \A u \in DOMAIN lock \intersect DOMAIN lock' : lock'[u] = lock[u]
BY DEF Continues, Finish, GoesOn, Running, Agree

\* What is pinned stays pinned, whatever services answer, however often a run is killed and
\* whatever is compiled meanwhile, over any number of runs one after another.
THEOREM PinsLast == Spec => PinnedUntilForgotten
<1>1. Continues /\ [Next]_vars
          => [\A u \in DOMAIN lock \intersect DOMAIN lock' : lock'[u] = lock[u]]_vars
    <2> SUFFICES ASSUME Continues, [Next]_vars
                 PROVE  \A u \in DOMAIN lock \intersect DOMAIN lock' : lock'[u] = lock[u]
        OBVIOUS
    <2>1. QED  BY LockChanges, FinishKeepsPins
<1>2. QED  BY InitContinues, NextContinues, <1>1, PTL DEF Spec, PinnedUntilForgotten

-----------------------------------------------------------------------------
(***************************************************************************)
(* What a compile uses, when no two commands run at the same time: the     *)
(* file that was checked is the file that is loaded.                       *)
(***************************************************************************)

Exclusive == ~(Running /\ Compiling)
Checked ==
    compile.at = "load" =>
        Reading \in DOMAIN compile.locked /\ cache[Reading] = compile.locked[Reading]
Reads == Types /\ Exclusive /\ Checked /\ OnlyLockedCompiles

LEMMA InitReads == Init => Reads
BY InitTypes, EmptyLock
DEF Init, NoRun, NoCompile, Reads, Exclusive, Running, Compiling, Checked, OnlyLockedCompiles

\* A file changes in a run, or while nothing runs.
LEMMA CacheStands ==
    ASSUME Types, Exclusive, [Next]_vars, Compiling, ~Overlapping
    PROVE  cache' = cache
BY DEF Next, vars, Types, TypeOK, Exclusive, Running, Compiling, Start, Unchanged, Fetch, Open,
       Write, Finish, Killed, Compile, Refuse, Check, Load, Compiled, Change, Quiet

LEMMA NextExclusive ==
    ASSUME Types, Exclusive, [Next]_vars, ~Overlapping
    PROVE  Exclusive'
<1> USE DEF Exclusive, Running, Compiling, Types, TypeOK
<1>1. ASSUME NEW record \in BOOLEAN, Start(record) PROVE Exclusive'
    BY <1>1 DEF Start
<1>2. CASE Unchanged \/ Fetch \/ Open \/ Write
    BY <1>2 DEF Unchanged, Fetch, Open, Write
<1>3. CASE Finish \/ Killed
    BY <1>3 DEF Finish, Killed, NoRun
<1>4. CASE Compile
    BY <1>4 DEF Compile
<1>5. CASE Refuse \/ Check \/ Load
    BY <1>5 DEF Refuse, Check, Load
<1>6. CASE Compiled
    BY <1>6 DEF Compiled, NoCompile
<1>7. CASE Change \/ UNCHANGED vars
    BY <1>7 DEF Change, vars
<1>8. QED  BY <1>1, <1>2, <1>3, <1>4, <1>5, <1>6, <1>7 DEF Next

LEMMA NextReads ==
    ASSUME Reads, [Next]_vars, ~Overlapping
    PROVE  Reads'
<1>1. Types' /\ Exclusive'  BY NextTypes, NextExclusive DEF Reads
<1>2. Checked' /\ OnlyLockedCompiles'
    <2> USE DEF Reads
    <2>1. CASE compile' = compile
        <3>1. compile.at = "load" => cache' = cache
            BY CacheStands DEF Compiling
        <3>2. QED  BY <2>1, <3>1 DEF Checked, OnlyLockedCompiles, Reading
    <2>2. CASE Compile \/ Compiled
        <3>1. CASE Compile
            <4>1. compile' = [at |-> "check", locked |-> lock, done |-> 0, used |-> <<>>]
                BY <3>1 DEF Compile, NoCompile
            <4>2. QED  BY <4>1, EmptyLock DEF Checked, OnlyLockedCompiles
        <3>2. CASE Compiled
            <4>1. compile' = [at |-> "idle", locked |-> <<>>, done |-> 0, used |-> <<>>]
                BY <3>2 DEF Compiled, NoCompile
            <4>2. QED  BY <4>1, EmptyLock DEF Checked, OnlyLockedCompiles
        <3>3. QED  BY <2>2, <3>1, <3>2
    <2>3. CASE Refuse
        BY <2>3 DEF Refuse, Types, TypeOK, Checked, OnlyLockedCompiles
    <2>4. CASE Check
        BY <2>4 DEF Check, Types, TypeOK, Checked, OnlyLockedCompiles, Reading
    <2>5. CASE Load
        <3> DEFINE used == Pin(compile.used, Reading, cache[Reading])
        <3>1. /\ Reading \in DOMAIN compile.locked
              /\ cache[Reading] = compile.locked[Reading]
            BY <2>5 DEF Load, Checked
        <3>2. \A u \in DOMAIN used :
                  u \in DOMAIN compile.locked /\ used[u] = compile.locked[u]
            BY <3>1 DEF Pin, OnlyLockedCompiles
        <3> HIDE DEF used
        <3>3. \/ compile' = [compile EXCEPT !.at = "failed"]
              \/ compile' = [compile EXCEPT !.at = "check", !.done = compile.done + 1,
                                 !.used = used]
            BY <2>5 DEF Load, used
        <3>4. QED  BY <3>2, <3>3 DEF Types, TypeOK, Checked, OnlyLockedCompiles
    <2>6. QED
        BY <2>1, <2>2, <2>3, <2>4, <2>5
        DEF Next, vars, Start, Unchanged, Fetch, Open, Write, Finish, Killed, Change
<1>3. QED  BY <1>1, <1>2 DEF Reads

\* A compile uses the very bytes the lock it read pins, for as long as commands do not
\* overlap; the file is read twice, and between the two a run could have replaced it.
THEOREM LockedCorrect == ~Overlapping => (Spec => []OnlyLockedCompiles)
<1> SUFFICES ASSUME ~Overlapping PROVE Spec => []OnlyLockedCompiles
    OBVIOUS
<1>1. Reads /\ [Next]_vars => Reads'  BY NextReads
<1>2. Reads => OnlyLockedCompiles  BY DEF Reads
<1>3. QED  BY InitReads, <1>1, <1>2, PTL DEF Spec

-----------------------------------------------------------------------------
(***************************************************************************)
(* Everything the lock pins was recorded.  A run without --record pins     *)
(* only what the lock it read pinned, because every reference it wants is  *)
(* in there.                                                               *)
(***************************************************************************)

Recorded(l) == \A u \in DOMAIN l : <<u, l[u]>> \in trusted
Records ==
    /\ Recorded(lock)
    /\ Running => Recorded(vendor.existing)
    /\ Running /\ ~vendor.record => WantedUrls \subseteq DOMAIN vendor.existing
    /\ Compiling => Recorded(compile.locked)
    /\ OnlyTrustedCompiles
Trusts == Continues /\ Reads /\ Records

LEMMA InitTrusts == Init => Trusts
BY InitContinues, InitReads, EmptyLock
DEF Init, NoRun, NoCompile, Trusts, Records, Recorded, Running, Compiling, OnlyTrustedCompiles

LEMMA TrustGrows ==
    ASSUME [Next]_vars
    PROVE  trusted \subseteq trusted'
BY DEF Next, vars, Start, Unchanged, Fetch, Open, Write, Finish, Killed, Compile, Refuse, Check,
       Load, Compiled, Change

LEMMA FinishRecords ==
    ASSUME Trusts, Finish
    PROVE  Recorded(lock)'
<1>1. /\ lock' = vendor.entries /\ Running
      /\ DOMAIN vendor.entries \subseteq WantedUrls
      /\ Agree(vendor.entries, vendor.existing)
    BY DEF Trusts, Continues, GoesOn, Finish, Running
<1>2. CASE vendor.record
    BY <1>1, <1>2 DEF Finish, Recorded
<1>3. CASE ~vendor.record
    <2>1. DOMAIN vendor.entries \subseteq DOMAIN vendor.existing /\ trusted' = trusted
        BY <1>1, <1>3 DEF Trusts, Records, Finish
    <2>2. QED  BY <1>1, <2>1 DEF Trusts, Records, Recorded, Agree
<1>4. QED  BY <1>2, <1>3

LEMMA NextRecords ==
    ASSUME Trusts, [Next]_vars, ~Overlapping
    PROVE  Records'
<1>1. Recorded(lock)'
    <2>1. CASE Finish
        BY <2>1, FinishRecords
    <2>2. CASE ~Finish
        BY <2>2, LockChanges, TrustGrows DEF Trusts, Records, Recorded
    <2>3. QED  BY <2>1, <2>2
<1>2. /\ Running' => Recorded(vendor.existing)'
      /\ Running' /\ ~vendor'.record => WantedUrls \subseteq DOMAIN vendor'.existing
    <2>1. ASSUME NEW record \in BOOLEAN, Start(record)
          PROVE  /\ Running' => Recorded(vendor.existing)'
                 /\ Running' /\ ~vendor'.record => WantedUrls \subseteq DOMAIN vendor'.existing
        BY <2>1, TrustGrows DEF Start, NoRun, Trusts, Records, Recorded, Running
    <2>2. CASE /\ Running
               /\ vendor'.existing = vendor.existing /\ vendor'.record = vendor.record
        BY <2>2, TrustGrows DEF Trusts, Records, Recorded
    <2>3. CASE ~Running'
        BY <2>3
    <2>4. CASE vendor' = vendor
        BY <2>4, TrustGrows DEF Trusts, Records, Recorded, Running
    <2>5. Unchanged \/ Fetch \/ Open \/ Write =>
              /\ Running
              /\ vendor'.existing = vendor.existing /\ vendor'.record = vendor.record
        BY DEF Unchanged, Fetch, Open, Write, Running, Trusts, Reads, Types, TypeOK
    <2>6. Finish \/ Killed => ~Running'
        BY DEF Finish, Killed, NoRun, Running
    <2>7. QED
        BY <2>1, <2>2, <2>3, <2>4, <2>5, <2>6
        DEF Next, vars, Compile, Refuse, Check, Load, Compiled, Change
<1>3. Compiling' => Recorded(compile.locked)'
    <2>1. CASE Compile
        BY <2>1 DEF Compile, NoCompile, Trusts, Records, Recorded
    <2>2. CASE Compiling /\ compile'.locked = compile.locked
        BY <2>2, TrustGrows DEF Trusts, Records, Recorded
    <2>3. CASE ~Compiling'
        BY <2>3
    <2>4. CASE compile' = compile
        BY <2>4, TrustGrows DEF Trusts, Records, Recorded, Compiling
    <2>5. Refuse \/ Check \/ Load => Compiling /\ compile'.locked = compile.locked
        BY DEF Refuse, Check, Load, Compiling, Trusts, Reads, Types, TypeOK
    <2>6. Compiled => ~Compiling'  BY DEF Compiled, NoCompile, Compiling
    <2>7. QED
        BY <2>1, <2>2, <2>3, <2>4, <2>5, <2>6
        DEF Next, vars, Start, Unchanged, Fetch, Open, Write, Finish, Killed, Change
<1>4. OnlyTrustedCompiles'
    <2>1. OnlyLockedCompiles'  BY NextReads DEF Trusts, Reads
    <2>2. CASE Compiling'
        BY <1>3, <2>1, <2>2 DEF Recorded, OnlyTrustedCompiles, OnlyLockedCompiles
    <2>3. CASE ~Compiling'
        <3>1. compile'.used = <<>> \/ compile'.used = compile.used
            <4> USE DEF Trusts, Reads, Types, TypeOK
            <4>1. CASE Load
                BY <2>3, <4>1 DEF Load, Compiling
            <4>2. CASE Compile \/ Refuse \/ Check
                BY <4>2 DEF Compile, NoCompile, Refuse, Check
            <4>3. CASE Compiled
                BY <4>3 DEF Compiled, NoCompile
            <4>4. CASE compile' = compile
                BY <4>4
            <4>5. QED
                BY <4>1, <4>2, <4>3, <4>4
                DEF Next, vars, Start, Unchanged, Fetch, Open, Write, Finish, Killed, Change
        <3>2. QED  BY <3>1, TrustGrows, EmptyLock DEF Trusts, Records, OnlyTrustedCompiles
    <2>4. QED  BY <2>2, <2>3
<1>5. QED  BY <1>1, <1>2, <1>3, <1>4 DEF Records

\* What a compile uses, somebody recorded, for as long as commands do not overlap: nothing
\* that a run fetched and did not pin reaches it.
THEOREM TrustedCorrect == ~Overlapping => (Spec => []OnlyTrustedCompiles)
<1> SUFFICES ASSUME ~Overlapping PROVE Spec => []OnlyTrustedCompiles
    OBVIOUS
<1>1. Trusts /\ [Next]_vars => Trusts'  BY NextContinues, NextReads, NextRecords DEF Trusts
<1>2. Trusts => OnlyTrustedCompiles  BY DEF Trusts, Records
<1>3. QED  BY InitTrusts, <1>1, <1>2, PTL DEF Spec
=============================================================================
