-------------------------- MODULE EvidenceCheckpoints --------------------------
(***************************************************************************)
(* The evidence chain together with its countersigners, which anchor its   *)
(* head in a checkpoint file (cmd_checkpoint), and the verifier, which     *)
(* reads both files without a lock (verify).                               *)
(***************************************************************************)
EXTENDS EvidenceChain

CONSTANT Signers

ASSUME SignersAssumption == NoOne \notin Signers

VARIABLES
  cps, cpDurable,  \* lines of the checkpoint file, and how many fsync covered
  cpLock,          \* holder of the checkpoint file's LOCK_EX
  spc, cand,       \* per signer: where it is; the checkpoint it signed
  snap             \* verifier: the chain it has read

cpVars == <<cps, cpDurable, cpLock, spc, cand>>
allVars == <<vars, cpVars, snap>>

\* verify_checkpoints_list; cp_hash is the identity of everything it covers.
CpHash(cp) == <<cp.seq, cp.count, cp.head, cp.epoch>>
CpsVerified(list) ==
  \A j \in DOMAIN list :
    /\ list[j] # Torn
    /\ list[j].seq = j - 1
    /\ list[j].prev = IF j = 1 THEN <<>> ELSE CpHash(list[j - 1])
    /\ j > 1 => list[j].count >= list[j - 1].count /\ list[j].epoch >= list[j - 1].epoch

NoSnap == [lines |-> <<>>, cps |-> -1]

CpInit ==
  /\ Init
  /\ cps = <<>> /\ cpDurable = 0 /\ cpLock = NoOne
  /\ spc = [s \in Signers |-> "idle"] /\ cand = [s \in Signers |-> Torn]
  /\ snap = NoSnap

-----------------------------------------------------------------------------
(* cmd_checkpoint: the checkpoint file's lock, then the chain's shared one *)

\* Read and verify the checkpoints under LOCK_EX; an error ends the command.
CpOpen(s) ==
  /\ spc[s] = "idle" /\ cpLock = NoOne
  /\ CpsVerified(cps)
  /\ spc' = [spc EXCEPT ![s] = "locked"]
  /\ cpLock' = s
  /\ UNCHANGED <<vars, cps, cpDurable, cand, snap>>

\* Mutant: only the length is compared with the last checkpoint.
ExtendsCountOnly(lines, list) ==
  Verified(lines) /\ (list # <<>> => Len(lines) > Last(list).count)

\* The chain verifies and strictly extends the last checkpoint.
Extends(lines, list) ==
  /\ Verified(lines)
  /\ list # <<>> =>
       /\ Len(lines) > Last(list).count
       /\ Last(list).count > 0 => lines[Last(list).count].id = Last(list).head

\* Mutant: the link to the previous checkpoint is left empty.
CheckpointUnlinked(lines, list) ==
  [kind |-> "checkpoint", seq |-> Len(list), count |-> Len(lines), head |-> LastHash(lines),
   epoch |-> IF lines = <<>> THEN 0 ELSE LastEpoch(lines), prev |-> <<>>,
   covers |-> [i \in DOMAIN lines |-> lines[i].id]]

\* build_checkpoint; covers is what the signer saw (history).  The epoch of a
\* checkpoint of an empty chain is the command's default.
Checkpoint(lines, list) ==
  [kind |-> "checkpoint", seq |-> Len(list), count |-> Len(lines), head |-> LastHash(lines),
   epoch |-> IF lines = <<>> THEN 0 ELSE LastEpoch(lines),
   prev |-> IF list = <<>> THEN <<>> ELSE CpHash(Last(list)),
   covers |-> [i \in DOMAIN lines |-> lines[i].id]]

\* The command ends and the lock goes.
CpDone(s) ==
  /\ spc' = [spc EXCEPT ![s] = "idle"]
  /\ cand' = [cand EXCEPT ![s] = Torn]
  /\ cpLock' = IF cpLock = s THEN NoOne ELSE cpLock
  /\ UNCHANGED <<vars, snap>>

\* Read, verify and sign under LOCK_SH, which excludes writers.
CpSign(s) ==
  /\ spc[s] = "locked" /\ lock = NoOne
  /\ Extends(file, cps)
  /\ spc' = [spc EXCEPT ![s] = "signed"]
  /\ cand' = [cand EXCEPT ![s] = Checkpoint(file, cps)]
  /\ UNCHANGED <<vars, cps, cpDurable, cpLock, snap>>

CpRefuse(s) ==
  /\ spc[s] = "locked" /\ lock = NoOne
  /\ ~ Extends(file, cps)
  /\ CpDone(s) /\ UNCHANGED <<cps, cpDurable>>

\* append_checkpoint_fd: the write and the fsync.
CpAppend(s) ==
  /\ spc[s] = "signed"
  /\ cps' = Append(cps, cand[s])
  /\ spc' = [spc EXCEPT ![s] = "written"]
  /\ UNCHANGED <<vars, cpDurable, cpLock, cand, snap>>

CpFsync(s) ==
  /\ spc[s] = "written"
  /\ cpDurable' = Len(cps)
  /\ CpDone(s) /\ UNCHANGED cps

\* The write or the fsync fails, or the process dies, at any point.
CpFails(s) ==
  /\ spc[s] # "idle"
  /\ cps' \in {cps} \cup IF spc[s] = "signed" THEN {Append(cps, Torn)} ELSE {}
  /\ CpDone(s) /\ UNCHANGED cpDurable

-----------------------------------------------------------------------------
(* verify: it reads the chain, then the checkpoints, with no lock.         *)

\* A line may be read while it is being written.
VerifyRead ==
  /\ snap = NoSnap
  /\ \E lines \in {file} \cup IF lock # NoOne /\ pc[lock] = "writing"
                             THEN {Append(file, Torn)} ELSE {} :
       snap' = [lines |-> lines, cps |-> Len(cps)]
  /\ UNCHANGED <<vars, cpVars>>

\* Mutant: only the length is compared with a checkpoint.
AnchoredCountOnly(lines, cp) == cp.count <= Len(lines)

\* A checkpoint's head is in the chain, with its epoch.
Anchored(lines, cp) ==
  cp.count > 0 => /\ cp.count <= Len(lines)
                  /\ lines[cp.count].id = cp.head
                  /\ lines[cp.count].epoch = cp.epoch

Errors(lines, list) ==
  IF \/ \E i \in DOMAIN lines : lines[i] = Torn
     \/ \E j \in DOMAIN list : list[j] = Torn
  THEN {"unreadable"}
  ELSE IF list = <<>> THEN {"no checkpoints"}
  ELSE {e \in {"epoch", "chain", "checkpoints", "anchor"} :
    LET before(i) == SubSeq(lines, 1, i - 1) IN
    \/ e = "epoch" /\ \E i \in DOMAIN lines : ~ EpochKept(before(i), lines[i])
    \/ e = "chain" /\ \E i \in DOMAIN lines :
                       ~ (Linked(before(i), lines[i]) /\ KindValid(before(i), lines[i]))
    \/ e = "checkpoints" /\ ~ CpsVerified(list)
    \/ e = "anchor" /\ \E j \in DOMAIN list : ~ Anchored(lines, list[j])}

\* The lines a read of the checkpoint file finds: the last one perhaps half
\* written.
ReadableCps ==
  {cps} \cup IF \E s \in Signers : spc[s] = "signed" THEN {Append(cps, Torn)} ELSE {}

\* The checkpoints are read, and Errors(snap.lines, list) is reported for the
\* list read, one of ReadableCps.
VerifyReport ==
  /\ snap # NoSnap
  /\ snap' = NoSnap
  /\ UNCHANGED <<vars, cpVars>>

-----------------------------------------------------------------------------
\* A power loss ends every process and may take checkpoints that were not fsynced.
CpPowerLoss ==
  /\ PowerLoss
  /\ cps' \in Survivors(cps, cpDurable) /\ cpDurable' = Len(cps')
  /\ cpLock' = NoOne
  /\ spc' = [s \in Signers |-> "idle"] /\ cand' = [s \in Signers |-> Torn]
  /\ snap' = NoSnap

CpNext ==
  \/ WriterNext /\ UNCHANGED <<cpVars, snap>>
  \/ Rollback /\ UNCHANGED <<cpVars, snap>>
  \/ \E s \in Signers :
       CpOpen(s) \/ CpSign(s) \/ CpRefuse(s) \/ CpAppend(s) \/ CpFsync(s) \/ CpFails(s)
  \/ VerifyRead \/ VerifyReport \/ CpPowerLoss

CpSpec == CpInit /\ [][CpNext]_allVars

-----------------------------------------------------------------------------
(* Properties                                                              *)

Checkpoints ==
  [kind : {"checkpoint"}, seq : Nat, count : Nat, head : Nat, epoch : Nat,
   prev : {<<>>} \cup (Nat \X Nat \X Nat \X Nat), covers : Seq(Nat)]

\* Types; the checkpoint lock is held exactly by the signer that is at work.
CpTypeOK ==
  /\ cps \in Seq(Checkpoints \cup {Torn}) /\ cpDurable \in 0..Len(cps)
  /\ spc \in [Signers -> {"idle", "locked", "signed", "written"}]
  /\ cand \in [Signers -> Checkpoints \cup {Torn}]
  /\ snap \in [lines : Seq(Entries \cup {Torn}), cps : Int]
  /\ cpLock \in Signers \cup {NoOne}
  /\ \A s \in Signers : (cpLock = s) <=> spc[s] # "idle"

Prefix(s, t) == Len(s) <= Len(t) /\ s = SubSeq(t, 1, Len(s))

\* The checkpoints tell one history (D-EV-36): each covers all that the ones
\* before it cover, in spite of concurrent signers, power losses and rollbacks.
OneHistory ==
  \A i, j \in DOMAIN cps :
    i < j /\ cps[i] # Torn /\ cps[j] # Torn =>
      Prefix(cps[i].covers, cps[j].covers) /\ cps[i].count < cps[j].count

\* A verification without errors means that everything any checkpoint covers is
\* in the chain that was read, though only heads are compared (D-EV-12).
PassMeansIntact ==
  [][\A list \in ReadableCps : VerifyReport /\ Errors(snap.lines, list) = {} =>
       \A j \in DOMAIN list :
         Prefix(list[j].covers, [i \in DOMAIN snap.lines |-> snap.lines[i].id])]_allVars

\* Errors are reported only for damage (D-EV-6): a torn line, an anchored entry
\* that is gone, an epoch that decreased, no checkpoint at all; or for one of the
\* races of a verifier without locks: a line was half written when it was read,
\* or a checkpoint was appended after the chain was read.
AlarmExplained ==
  [][\A list \in ReadableCps : VerifyReport =>
       \/ Errors(snap.lines, list) \subseteq {"no checkpoints", "epoch"}
       \/ \E i \in DOMAIN snap.lines : snap.lines[i] = Torn
       \/ \E j \in DOMAIN list :
            \/ list[j] = Torn
            \/ /\ list[j].count > 0
               /\ \A i \in DOMAIN file : file[i] = Torn \/ file[i].id # list[j].head
       \/ Len(list) > snap.cps]_allVars
================================================================================
