---------------------------- MODULE EvidenceChain ----------------------------
(***************************************************************************)
(* The execution evidence chain (scripts/evidence): writers append intents *)
(* and results to one file under an exclusive flock.  An entry's hash is a *)
(* fresh identity; canonical JSON, signatures and the hash of the          *)
(* invocation are data.  Writers are processes: they crash, and a power    *)
(* loss takes what was not fsynced.                                        *)
(***************************************************************************)
EXTENDS Integers, Sequences, FiniteSets

CONSTANTS Writers, Grants, Epochs,
          MaxEntries,     \* bound: entries ever written
          MaxRollbacks    \* bound: in-place restorations of an older chain

ASSUME EvidenceAssumption ==
  /\ Epochs \subseteq Nat
  /\ MaxEntries \in Nat
  /\ MaxRollbacks \in Nat

VARIABLES
  file, durable,   \* lines of the chain, and how many fsync has covered
  lock,            \* holder of the chain's LOCK_EX
  pc, epoch,       \* per writer: where its call is; the epoch it was opened with
  view, cached,    \* per writer: entries verified in memory; _cached_count
  req,             \* per writer: the call under way
  ids,             \* hashes used so far
  acked, spent, rollbacks  \* history: entries returned to callers; grants each
                           \* open writer returned; restorations so far

chainVars == <<file, durable, lock>>
writerVars == <<pc, epoch, view, cached, req>>
history == <<ids, acked, spent, rollbacks>>
vars == <<chainVars, writerVars, history>>

NoOne == "none"
ASSUME NoOneAssumption == NoOne \notin Writers
Genesis == 0                     \* GENESIS_PREV_HASH
Torn == [kind |-> "torn"]        \* a line that does not parse
Intent(g) == [kind |-> "intent", grant |-> g]
Result(i) == [kind |-> "result", intent |-> i]
Idle == [kind |-> "none"]
Requests == {Intent(g) : g \in Grants} \cup {Result(i) : i \in 0..(MaxEntries - 1)}

Last(s) == s[Len(s)]
LastHash(entries) == IF entries = <<>> THEN Genesis ELSE Last(entries).id
LastEpoch(entries) == IF entries = <<>> THEN -1 ELSE Last(entries).epoch
Of(entries, kind) == {e \in {entries[i] : i \in DOMAIN entries} : e.kind = kind}
Consumed(entries) == {e.grant : e \in Of(entries, "intent")}
Unresolved(entries, i) ==
  /\ \E e \in Of(entries, "intent") : e.seq = i
  /\ \A e \in Of(entries, "result") : e.intent # i

-----------------------------------------------------------------------------
(* verify_entry_integrity and process_entry_kind: the next line after a    *)
(* verified prefix.                                                        *)
Linked(entries, line) == line.seq = Len(entries) /\ line.prev = LastHash(entries)
EpochKept(entries, line) == line.epoch >= LastEpoch(entries)
KindValid(entries, line) ==
  IF line.kind = "intent"
  THEN line.grant \notin Consumed(entries)
  ELSE /\ Unresolved(entries, line.intent)
       /\ line.grant = entries[line.intent + 1].grant
Valid(entries, line) ==
  /\ line # Torn
  /\ Linked(entries, line) /\ EpochKept(entries, line) /\ KindValid(entries, line)

\* The whole file verifies: what opening, and a countersigner, require.
Verified(lines) == \A i \in DOMAIN lines : Valid(SubSeq(lines, 1, i - 1), lines[i])

Init ==
  /\ file = <<>> /\ durable = 0 /\ lock = NoOne
  /\ pc = [w \in Writers |-> "closed"] /\ epoch = [w \in Writers |-> 0]
  /\ view = [w \in Writers |-> <<>>] /\ cached = [w \in Writers |-> 0]
  /\ req = [w \in Writers |-> Idle]
  /\ ids = 0 /\ acked = {} /\ spent = [w \in Writers |-> <<>>] /\ rollbacks = 0

-----------------------------------------------------------------------------
(* ChainWriter                                                             *)

\* __init__: under the lock, load and verify everything; an epoch below the
\* chain's, or any error, and the writer is not made.
Open(w, e) ==
  /\ pc[w] = "closed" /\ lock = NoOne
  /\ Verified(file) /\ e >= LastEpoch(file)
  /\ pc' = [pc EXCEPT ![w] = "idle"]
  /\ epoch' = [epoch EXCEPT ![w] = e]
  /\ view' = [view EXCEPT ![w] = file]
  /\ cached' = [cached EXCEPT ![w] = Len(file)]
  /\ UNCHANGED <<chainVars, req, history>>

\* A writer that is gone keeps nothing.
Gone(w) ==
  /\ pc' = [pc EXCEPT ![w] = "closed"]
  /\ epoch' = [epoch EXCEPT ![w] = 0]
  /\ view' = [view EXCEPT ![w] = <<>>]
  /\ cached' = [cached EXCEPT ![w] = 0]
  /\ req' = [req EXCEPT ![w] = Idle]
  /\ spent' = [spent EXCEPT ![w] = <<>>]
  /\ UNCHANGED <<durable, ids, acked, rollbacks>>

Close(w) == pc[w] \in {"idle", "poisoned"} /\ Gone(w) /\ UNCHANGED <<file, lock>>

\* The process dies in a call, perhaps inside the line it writes; the kernel
\* drops its lock.
Crash(w) ==
  /\ pc[w] \in {"waiting", "writing", "written"}
  /\ Gone(w)
  /\ file' \in {file} \cup IF pc[w] = "writing" THEN {Append(file, Torn)} ELSE {}
  /\ lock' = IF lock = w THEN NoOne ELSE lock

\* append_intent, append_result up to the flock: _validate_writer_state
\* compares the epochs before the lock is held.
Call(w, r) ==
  /\ pc[w] = "idle"
  /\ epoch[w] >= LastEpoch(view[w])
  /\ pc' = [pc EXCEPT ![w] = "waiting"]
  /\ req' = [req EXCEPT ![w] = r]
  /\ UNCHANGED <<chainVars, epoch, view, cached, history>>

\* The call ends without a record.
Return(w, state) ==
  /\ pc' = [pc EXCEPT ![w] = state]
  /\ req' = [req EXCEPT ![w] = Idle]
  /\ lock' = NoOne
  /\ UNCHANGED <<epoch, ids, acked, spent, rollbacks>>

\* _sync_under_lock, the part already seen: the file did not shrink, and the last
\* entry seen is still there.  (After a sync that stopped half way the offset of
\* that entry is off, and the comparison fails for ever.)
SeenKept(w) ==
  /\ cached[w] <= Len(file)
  /\ cached[w] > 0 => Len(view[w]) = cached[w] /\ file[cached[w]] = Last(view[w])

\* The new lines, and the first of them that does not verify.
New(w) == SubSeq(file, cached[w] + 1, Len(file))
Bad(w) == {i \in DOMAIN New(w) : ~ Valid(view[w] \o SubSeq(New(w), 1, i - 1), New(w)[i])}
FirstBad(w) == CHOOSE i \in Bad(w) : \A j \in Bad(w) : i <= j
Taken(w, n) == view' = [view EXCEPT ![w] = @ \o SubSeq(New(w), 1, n)]

\* Mutant: get_head loads a chain that shrank again, in silence.
SyncedReload(w) ==
  /\ lock = NoOne
  /\ IF SeenKept(w) THEN Bad(w) = {} /\ Taken(w, Len(New(w)))
                    ELSE pc[w] = "idle" /\ Verified(file) /\ view' = [view EXCEPT ![w] = file]
  /\ cached' = [cached EXCEPT ![w] = Len(file)]

\* The sync succeeds.
Synced(w) ==
  /\ lock = NoOne
  /\ SeenKept(w) /\ Bad(w) = {}
  /\ Taken(w, Len(New(w)))
  /\ cached' = [cached EXCEPT ![w] = Len(file)]
NewView(w) == view[w] \o New(w)

\* The sync of a call, or of get_head by an idle writer, fails.
SyncPoisons(w) ==
  /\ pc[w] \in {"waiting", "idle"} /\ lock = NoOne
  /\ ~ SeenKept(w)
  /\ Return(w, "poisoned")
  /\ UNCHANGED <<file, durable, view, cached>>

\* A line that does not parse poisons; one that does not verify raises only,
\* with the lines before it taken and the cached offset left behind.
SyncFails(w) ==
  /\ pc[w] \in {"waiting", "idle"} /\ lock = NoOne
  /\ SeenKept(w) /\ Bad(w) # {}
  /\ Taken(w, FirstBad(w) - 1)
  /\ Return(w, IF New(w)[FirstBad(w)] = Torn THEN "poisoned" ELSE "idle")
  /\ UNCHANGED <<file, durable, cached>>

\* Mutant: the checks use what was known before the sync.
AllowedStale(w) ==
  \/ req[w].kind = "intent" /\ req[w].grant \notin Consumed(view[w])
  \/ req[w].kind = "result" /\ Unresolved(view[w], req[w].intent)

\* What the call asks for is possible on the chain as it is now.
Allowed(w) ==
  \/ req[w].kind = "intent" /\ req[w].grant \notin Consumed(NewView(w))
  \/ req[w].kind = "result" /\ Unresolved(NewView(w), req[w].intent)

\* DoubleSpendError, unknown intent, second result.
Refuse(w) ==
  /\ pc[w] = "waiting" /\ Synced(w) /\ ~ Allowed(w)
  /\ Return(w, "idle")
  /\ UNCHANGED <<file, durable>>

\* get_head: sync under the lock and return.
GetHead(w) ==
  /\ pc[w] = "idle" /\ Synced(w)
  /\ UNCHANGED <<chainVars, pc, epoch, req, history>>

Admit(w) ==
  /\ pc[w] = "waiting" /\ Synced(w) /\ Allowed(w) /\ ids < MaxEntries
  /\ pc' = [pc EXCEPT ![w] = "writing"]
  /\ lock' = w
  /\ UNCHANGED <<file, durable, epoch, req, history>>

Record(w) ==
  [kind |-> req[w].kind, id |-> ids + 1, seq |-> Len(view[w]), epoch |-> epoch[w],
   grant |-> IF req[w].kind = "intent" THEN req[w].grant
             ELSE view[w][req[w].intent + 1].grant,
   intent |-> IF req[w].kind = "intent" THEN -1 ELSE req[w].intent,
   prev |-> LastHash(view[w])]

\* _sign_and_append: the signer fails, and nothing was written.
SignFails(w) ==
  /\ pc[w] = "writing"
  /\ Return(w, "idle")
  /\ UNCHANGED <<file, durable, view, cached>>

Write(w) ==
  /\ pc[w] = "writing"
  /\ file' = Append(file, Record(w))
  /\ ids' = ids + 1
  /\ pc' = [pc EXCEPT ![w] = "written"]
  /\ UNCHANGED <<durable, lock, epoch, view, cached, req, acked, spent, rollbacks>>

\* os.write fails before or inside the line.
WriteFails(w) ==
  /\ pc[w] = "writing"
  /\ file' \in {file, Append(file, Torn)}
  /\ Return(w, "poisoned")
  /\ UNCHANGED <<durable, view, cached>>

\* Mutant: the record is returned before it is on disk.
FsyncSkipped(w) ==
  /\ pc[w] = "written"
  /\ view' = [view EXCEPT ![w] = Append(@, Last(file))]
  /\ cached' = [cached EXCEPT ![w] = @ + 1]
  /\ acked' = acked \cup {Last(file)}
  /\ pc' = [pc EXCEPT ![w] = "idle"]
  /\ req' = [req EXCEPT ![w] = Idle]
  /\ lock' = NoOne
  /\ UNCHANGED <<file, durable, epoch, ids, spent, rollbacks>>

\* fsync, and the record goes to the caller, who may now act on the grant.
Fsync(w) ==
  /\ pc[w] = "written"
  /\ durable' = Len(file)
  /\ view' = [view EXCEPT ![w] = Append(@, Last(file))]
  /\ cached' = [cached EXCEPT ![w] = @ + 1]
  /\ acked' = acked \cup {Last(file)}
  /\ spent' = [spent EXCEPT ![w] = IF req[w].kind = "intent" THEN Append(@, req[w].grant) ELSE @]
  /\ pc' = [pc EXCEPT ![w] = "idle"]
  /\ req' = [req EXCEPT ![w] = Idle]
  /\ lock' = NoOne
  /\ UNCHANGED <<file, epoch, ids, rollbacks>>

FsyncFails(w) ==
  /\ pc[w] = "written"
  /\ Return(w, "poisoned")
  /\ UNCHANGED <<file, durable, view, cached>>

-----------------------------------------------------------------------------
(* The environment                                                         *)

\* What a power loss leaves of n fsynced lines: those, some more, and perhaps
\* part of the next one.
Survivors(lines, n) ==
  {SubSeq(lines, 1, k) : k \in n..Len(lines)}
    \cup {Append(SubSeq(lines, 1, k), Torn) : k \in n..(Len(lines) - 1)}

PowerLoss ==
  /\ file' \in Survivors(file, durable) /\ durable' = Len(file')
  /\ lock' = NoOne
  /\ pc' = [w \in Writers |-> "closed"] /\ epoch' = [w \in Writers |-> 0]
  /\ view' = [w \in Writers |-> <<>>] /\ cached' = [w \in Writers |-> 0]
  /\ req' = [w \in Writers |-> Idle] /\ spent' = [w \in Writers |-> <<>>]
  /\ UNCHANGED <<ids, acked, rollbacks>>

\* Somebody puts an older copy of the chain back, in place.
Rollback ==
  /\ rollbacks < MaxRollbacks /\ lock = NoOne
  /\ \E n \in 0..(Len(file) - 1) : file' = SubSeq(file, 1, n) /\ durable' = n
  /\ rollbacks' = rollbacks + 1
  /\ UNCHANGED <<lock, writerVars, ids, acked, spent>>

WriterNext ==
  \E w \in Writers :
    \/ \E e \in Epochs : Open(w, e)
    \/ \E r \in Requests : Call(w, r)
    \/ GetHead(w) \/ SyncPoisons(w) \/ SyncFails(w) \/ Refuse(w) \/ Admit(w)
    \/ SignFails(w) \/ Write(w) \/ WriteFails(w) \/ Fsync(w) \/ FsyncFails(w)
    \/ Close(w) \/ Crash(w)

Next == WriterNext \/ PowerLoss \/ Rollback

Spec == Init /\ [][Next]_vars

-----------------------------------------------------------------------------
(* Properties                                                              *)

Entries == [kind : {"intent", "result"}, id : 1..MaxEntries, seq : 0..MaxEntries,
            epoch : Epochs, grant : Grants, intent : -1..MaxEntries, prev : 0..MaxEntries]
PCs == {"closed", "idle", "waiting", "writing", "written", "poisoned"}

\* Types; an offset lies within what is in memory; the chain's lock is held exactly
\* by the writer that is between its sync and its fsync.
TypeOK ==
  /\ file \in Seq(Entries \cup {Torn}) /\ durable \in 0..Len(file)
  /\ lock \in Writers \cup {NoOne}
  /\ pc \in [Writers -> PCs] /\ epoch \in [Writers -> Epochs \cup {0}]
  /\ view \in [Writers -> Seq(Entries)] /\ cached \in [Writers -> Nat]
  /\ req \in [Writers -> Requests \cup {Idle}]
  /\ ids \in 0..MaxEntries /\ acked \subseteq Entries
  /\ spent \in [Writers -> Seq(Grants)] /\ rollbacks \in 0..MaxRollbacks
  /\ \A w \in Writers :
       /\ cached[w] <= Len(view[w])
       /\ (lock = w) <=> pc[w] \in {"writing", "written"}

\* A grant is spent once (D-EV-8): whatever crashes, power losses and failed
\* fsyncs come between, no two intents returned to callers are for one grant,
\* unless an older chain was put back.
SpendOnce ==
  rollbacks = 0 => \A d, e \in acked :
    d.kind = "intent" /\ e.kind = "intent" /\ d.grant = e.grant => d = e

\* A record returned to its caller stays where it is (D-EV-7): the caller acts
\* on it, so neither a crash nor a power loss may lose it.
AckedKept ==
  rollbacks = 0 => \A e \in acked : e.seq < Len(file) /\ file[e.seq + 1] = e

\* Even when an older chain is put back under it, an open writer does not give
\* a grant twice (D-EV-28).
WriterSpendsOnce ==
  \A w \in Writers : \A i, j \in DOMAIN spent[w] : i # j => spent[w][i] # spent[w][j]

\* ADR 0002 (line 167): epochs never decrease along the chain.
EpochMonotone ==
  \A i, j \in DOMAIN file :
    i < j /\ file[i] # Torn /\ file[j] # Torn => file[i].epoch <= file[j].epoch
=============================================================================
