--------------------------- MODULE ReleasePackaging ---------------------------
(***************************************************************************)
(* Packaging a work into a signed image: the release store (release/       *)
(* store.rs), the packager that drives one packaging through build, push,  *)
(* scan and signature (packager.rs), the controller that runs it over      *)
(* every unfinished packaging (controller.rs) and the collector of images  *)
(* the scan rejected (garbage_collector.rs).                               *)
(*                                                                         *)
(* A packaging and its release share one record here: the store writes     *)
(* them as a pair, under one lock.  A digest is `good' (what the           *)
(* deterministic build yields) or `bad' (any other).  An event is written  *)
(* to the journal, mirrored, applied to memory and checkpointed, and each  *)
(* of these may fail; a journal that tears is the matter of                *)
(* PublicationJournal and is left out.  Attempts, times and messages are   *)
(* left out: no decision reads them.                                       *)
(***************************************************************************)
EXTENDS Naturals, FiniteSets

CONSTANTS
    Inputs,       \* packaging requests
    Keys,         \* packaging_idempotency_key values: a packaging and its release
    KeyOf,        \* Inputs -> Keys
    MaxFaults,    \* failing writes and helper calls
    MaxCrashes    \* process restarts

ASSUME InputsKeyed == KeyOf \in [Inputs -> Keys]

VARIABLES
    mem,          \* the store's state in memory: Keys -> record
    disk,         \* what open() would recover: checkpoint, then journal
    stale,        \* the journal's last event never reached memory: the next
                  \* event reuses its sequence number and recovery skips it
    registry,     \* Keys -> the digest the release's tag points to, or NONE
    work,         \* Keys -> where packager.reconcile stands for it
    gc,           \* Keys -> where collect_failed stands for it
    referenced,   \* releases that a publication refers to
    may,          \* Keys -> the records a restart may find: the last one that
                  \* an operation returned Ok for, and those tried since
    faults, crashes

vars == <<mem, disk, stale, registry, work, gc, referenced, may, faults, crashes>>

NONE == "none"
Digests == {"good", "bad"}

PackagingStatus == {"Prepared", "Building", "Pushed", "Scanning", "Signing",
                    "Validated", "Failed", "ReconcileRequired"}
ReleaseStatus == {"Packaging", "Packaged", "Validated", "Failed",
                  "GarbageCollectable", "GarbageCollected"}

Absent == [status |-> NONE]

(* One packaging with its release.  prov is the image the SBOM and the     *)
(* provenance describe, sig the image that was signed.                     *)
Record ==
    [status : PackagingStatus, input : Inputs, built : Digests \cup {NONE},
     pushed : Digests \cup {NONE}, prov : Digests \cup {NONE},
     scan : {NONE, "passed", "rejected"}, sig : Digests \cup {NONE},
     release : ReleaseStatus, digest : Digests \cup {NONE}]

Prepared(i) ==
    [status |-> "Prepared", input |-> i, built |-> NONE, pushed |-> NONE,
     prov |-> NONE, scan |-> NONE, sig |-> NONE, release |-> "Packaging",
     digest |-> NONE]

Exists(k) == mem[k].status # NONE

(* Everything the scan did not reject and no signature closed *)
Recoverable(k) == mem[k].status \notin {NONE, "Validated", "Failed"}

Idle == [at |-> "idle", image |-> NONE]
At(where, image) == [at |-> where, image |-> image]

Fault == faults < MaxFaults /\ faults' = faults + 1

(***************************************************************************)
(* persist_pair: append, mirror, apply, checkpoint.                        *)
(***************************************************************************)
Recovered(k, rec) == IF stale THEN disk ELSE [disk EXCEPT ![k] = rec]

(* The checkpoint skipped: the fault a store that trusts its journal makes *)
PersistOk_Unsaved(k, rec) ==
    /\ mem' = [mem EXCEPT ![k] = rec]
    /\ disk' = Recovered(k, rec)
    /\ stale' = FALSE
    /\ may' = [may EXCEPT ![k] = {rec}]

PersistOk(k, rec) ==
    /\ mem' = [mem EXCEPT ![k] = rec]
    /\ disk' = mem'
    /\ stale' = FALSE
    /\ may' = [may EXCEPT ![k] = {rec}]

(* Nothing written; written but not mirrored; applied but not checkpointed; *)
(* checkpointed but not mirrored                                            *)
PersistErr(k, rec) ==
    /\ Fault
    /\ \/ UNCHANGED <<mem, disk, stale>>
       \/ disk' = Recovered(k, rec) /\ stale' = TRUE /\ UNCHANGED mem
       \/ /\ mem' = [mem EXCEPT ![k] = rec]
          /\ disk' \in {Recovered(k, rec), mem'}
          /\ stale' = FALSE
    /\ may' = [may EXCEPT ![k] = @ \cup {rec}]

NoWrite == UNCHANGED <<mem, disk, stale, may>>
Unaffected == UNCHANGED <<gc, referenced, crashes>>

(***************************************************************************)
(* prepare: a key packaged before answers with its records, or with        *)
(* IntegrityConflict when the provenance differs; neither writes.          *)
(***************************************************************************)
Prepare(i) ==
    /\ ~Exists(KeyOf[i])
    /\ \/ PersistOk(KeyOf[i], Prepared(i)) /\ UNCHANGED faults
       \/ PersistErr(KeyOf[i], Prepared(i))
    /\ UNCHANGED <<registry, work>> /\ Unaffected

(***************************************************************************)
(* The controller's pass, and the packager's dispatch on the status it     *)
(* reads at the head of every round.                                       *)
(***************************************************************************)
Pass ==
    /\ \A k \in Keys : work[k].at = "idle"
    /\ \E k \in Keys : Recoverable(k)
    /\ work' = [k \in Keys |-> IF Recoverable(k) THEN At("read", NONE) ELSE Idle]
    /\ NoWrite /\ UNCHANGED <<registry, faults>> /\ Unaffected

Goto(k, w) == work' = [work EXCEPT ![k] = w]

(* A store call of the packager: on Ok go on to `next', on Err to `fail' *)
Store(k, rec, next, fail) ==
    \/ PersistOk(k, rec) /\ Goto(k, next) /\ UNCHANGED faults
    \/ PersistErr(k, rec) /\ Goto(k, fail)

(* Resuming at the signature once the image has been pushed *)
BeginBuild_Trusting(rec) ==
    [rec EXCEPT !.status = IF rec.status = "ReconcileRequired" /\ rec.pushed # NONE
                           THEN "Signing" ELSE "Building",
                !.release = "Packaging"]

BeginBuild(rec) ==
    LET resume == CASE rec.status # "ReconcileRequired" -> "Building"
                    [] rec.scan = "passed" /\ rec.prov # NONE -> "Signing"
                    [] rec.pushed # NONE -> "Pushed"
                    [] OTHER -> "Building"
    IN [rec EXCEPT !.status = resume,
                   !.release = IF rec.status = "ReconcileRequired" /\ rec.pushed # NONE
                               THEN "Packaged" ELSE "Packaging"]

Dispatch(k) ==
    /\ work[k].at = "read"
    /\ LET rec == mem[k] IN
       \/ /\ rec.status \in {"Prepared", "Failed", "ReconcileRequired"}
          /\ Store(k, BeginBuild(rec), At("read", NONE), Idle)
       \/ /\ rec.status = "Pushed"
          /\ Store(k, [rec EXCEPT !.status = "Scanning"], At("read", NONE), Idle)
       \/ /\ rec.status \in {"Building", "Scanning", "Signing"}
          /\ Goto(k, At(rec.status, rec.pushed))
          /\ NoWrite /\ UNCHANGED faults
       \/ /\ rec.status = "Validated"
          /\ Goto(k, Idle) /\ NoWrite /\ UNCHANGED faults
    /\ UNCHANGED registry /\ Unaffected

(* A helper call that fails, exceeds its deadline or answers what the      *)
(* packager refuses, before it had an effect                               *)
HelperFails(k) ==
    /\ work[k].at \in {"Building", "Lookup", "Push", "Scanning", "Signing"}
    /\ Goto(k, At(IF work[k].at = "Scanning" THEN "scan failed" ELSE "failed", NONE))
    /\ Fault
    /\ NoWrite /\ UNCHANGED registry /\ Unaffected

SetOnce_Overwrite(old, new) == TRUE

(* A digest once recorded stays *)
SetOnce(old, new) == old \in {NONE, new}

(* build, then record_built.  A builder that strays from its digest is one *)
(* of the counted faults.                                                  *)
Build(k) ==
    /\ work[k].at = "Building"
    /\ \E d \in Digests :
          IF mem[k].status = "Building" /\ SetOnce(mem[k].built, d)
          THEN LET rec == [mem[k] EXCEPT !.built = d] IN
               \/ d = "good" /\ Store(k, rec, At("Lookup", d), At("failed", NONE))
               \/ d = "bad" /\ PersistOk(k, rec) /\ Goto(k, At("Lookup", d)) /\ Fault
          ELSE /\ Goto(k, At("failed", NONE)) /\ NoWrite
               /\ IF d = "good" THEN UNCHANGED faults ELSE Fault
    /\ UNCHANGED registry /\ Unaffected

(* registry_digest: the tag may already hold this image, or another *)
Lookup(k) ==
    /\ work[k].at = "Lookup"
    /\ Goto(k, CASE registry[k] = work[k].image -> At("RecordPush", work[k].image)
                 [] registry[k] = NONE -> At("Push", work[k].image)
                 [] OTHER -> At("failed", NONE))
    /\ NoWrite /\ UNCHANGED <<registry, faults>> /\ Unaffected

(* push; the answer may be lost although the image arrived *)
Push(k) ==
    /\ work[k].at = "Push"
    /\ registry' = [registry EXCEPT ![k] = work[k].image]
    /\ \/ Goto(k, At("RecordPush", work[k].image)) /\ UNCHANGED faults
       \/ Goto(k, At("failed", NONE)) /\ Fault
    /\ NoWrite /\ Unaffected

CanRecordPushed(rec, d) ==
    /\ rec.status \in {"Building", "Pushed"}
    /\ rec.built = d
    /\ SetOnce(rec.pushed, d)

RecordPush(k) ==
    /\ work[k].at = "RecordPush"
    /\ LET d == work[k].image IN
       IF CanRecordPushed(mem[k], d)
       THEN Store(k, [mem[k] EXCEPT !.pushed = d, !.status = "Pushed",
                                    !.release = "Packaged", !.digest = d],
                  At("read", NONE), At("failed", NONE))
       ELSE Goto(k, At("failed", NONE)) /\ NoWrite /\ UNCHANGED faults
    /\ UNCHANGED registry /\ Unaffected

RecordScan(rec, image, passed) ==
    [rec EXCEPT !.prov = image,
                !.scan = IF passed THEN "passed" ELSE "rejected",
                !.status = IF passed THEN "Signing" ELSE "Failed",
                !.release = IF passed THEN @ ELSE "Failed"]

(* generate_evidence, scan, record_scan *)
Scan(k) ==
    /\ work[k].at = "Scanning" /\ mem[k].status = "Scanning"
    /\ \E passed \in BOOLEAN :
          Store(k, RecordScan(mem[k], work[k].image, passed),
                IF passed THEN At("read", NONE) ELSE At("scan failed", NONE),
                At("scan failed", NONE))
    /\ UNCHANGED registry /\ Unaffected

CanRecordSignature(rec) ==
    /\ rec.status = "Signing"
    /\ rec.scan = "passed"
    /\ rec.pushed # NONE
    /\ rec.prov # NONE

RecordSignature(rec, image) ==
    [rec EXCEPT !.sig = image, !.status = "Validated", !.release = "Validated"]

Sign(k) ==
    /\ work[k].at = "Signing"
    /\ IF CanRecordSignature(mem[k])
       THEN Store(k, RecordSignature(mem[k], work[k].image),
                  At("read", NONE), At("failed", NONE))
       ELSE Goto(k, At("failed", NONE)) /\ NoWrite /\ UNCHANGED faults
    /\ UNCHANGED registry /\ Unaffected

(* The error exit of a sign step that also reopens a validated packaging *)
MarkReconcileRequired_Reopen(k) ==
    /\ work[k].at \in {"failed", "scan failed"}
    /\ Store(k, [mem[k] EXCEPT !.status = "ReconcileRequired"], Idle, Idle)
    /\ UNCHANGED registry /\ Unaffected

(* The packager's error exits: mark_reconcile_required, refused for a      *)
(* validated packaging, and not called after a rejected scan               *)
MarkReconcileRequired(k) ==
    /\ work[k].at \in {"failed", "scan failed"}
    /\ LET skip == \/ mem[k].status = "Validated"
                   \/ work[k].at = "scan failed" /\ mem[k].status = "Failed"
       IN \/ /\ ~skip
             /\ Store(k, [mem[k] EXCEPT !.status = "ReconcileRequired"], Idle, Idle)
          \/ skip /\ Goto(k, Idle) /\ NoWrite /\ UNCHANGED faults
    /\ UNCHANGED registry /\ Unaffected

(***************************************************************************)
(* collect_failed.  What the publication side refers to is a set: a        *)
(* publication accepts a validated release only.                           *)
(***************************************************************************)
Publish(k) ==
    /\ Exists(k) /\ mem[k].release = "Validated"
    /\ referenced' = referenced \cup {k}
    /\ NoWrite /\ UNCHANGED <<registry, work, gc, faults, crashes>>

Protected(k) == k \in referenced \/ Recoverable(k)

(* The protection snapshot is awaited before the release is marked *)
ReadProtection(k) ==
    /\ gc[k] = "idle" /\ Exists(k)
    /\ ~Protected(k)
    /\ gc' = [gc EXCEPT ![k] = "unprotected"]
    /\ NoWrite /\ UNCHANGED <<registry, work, referenced, faults, crashes>>

(* Any release with an image that nothing referred to a moment ago *)
MayCollect_Unchecked(rec) == rec.pushed # NONE

MayCollect(rec) ==
    \/ rec.release = "GarbageCollectable" /\ rec.pushed # NONE
    \/ rec.release = "Failed" /\ rec.status = "Failed" /\ rec.pushed # NONE

MarkCollectable(k) ==
    /\ gc[k] = "unprotected"
    /\ LET rec == [mem[k] EXCEPT !.release = "GarbageCollectable"] IN
       \/ /\ MayCollect(mem[k])
          /\ \/ /\ PersistOk(k, rec) /\ gc' = [gc EXCEPT ![k] = "delete"]
                /\ UNCHANGED faults
             \/ PersistErr(k, rec) /\ gc' = [gc EXCEPT ![k] = "idle"]
       \/ /\ ~MayCollect(mem[k])
          /\ gc' = [gc EXCEPT ![k] = "idle"] /\ NoWrite /\ UNCHANGED faults
    /\ UNCHANGED <<registry, work, referenced, crashes>>

(* The helper deletes the manifest; its answer may be lost *)
DeleteImage(k) ==
    /\ gc[k] = "delete"
    /\ registry' = [registry EXCEPT ![k] = NONE]
    /\ \/ gc' = [gc EXCEPT ![k] = "deleted"] /\ UNCHANGED faults
       \/ gc' = [gc EXCEPT ![k] = "idle"] /\ Fault
    /\ NoWrite /\ UNCHANGED <<work, referenced, crashes>>

RecordCollected(k) ==
    /\ gc[k] = "deleted"
    /\ LET rec == [mem[k] EXCEPT !.release = "GarbageCollected"]
           can == \/ mem[k].release = "GarbageCollected"
                  \/ mem[k].release = "GarbageCollectable" /\ mem[k].status = "Failed"
       IN \/ can /\ PersistOk(k, rec) /\ UNCHANGED faults
          \/ can /\ PersistErr(k, rec)
          \/ ~can /\ NoWrite /\ UNCHANGED faults
    /\ gc' = [gc EXCEPT ![k] = "idle"]
    /\ UNCHANGED <<registry, work, referenced, crashes>>

(* The process dies and open() recovers checkpoint and journal *)
Crash ==
    /\ crashes < MaxCrashes
    /\ crashes' = crashes + 1
    /\ mem' = disk
    /\ stale' = FALSE
    /\ work' = [k \in Keys |-> Idle]
    /\ gc' = [k \in Keys |-> "idle"]
    /\ may' = [k \in Keys |-> {disk[k]}]
    /\ UNCHANGED <<disk, registry, referenced, faults>>

Init ==
    /\ mem = [k \in Keys |-> Absent]
    /\ disk = mem /\ may = [k \in Keys |-> {Absent}]
    /\ stale = FALSE
    /\ registry = [k \in Keys |-> NONE]
    /\ work = [k \in Keys |-> Idle]
    /\ gc = [k \in Keys |-> "idle"]
    /\ referenced = {}
    /\ faults = 0 /\ crashes = 0

Packager(k) ==
    Dispatch(k) \/ Build(k) \/ Lookup(k) \/ Push(k) \/ RecordPush(k)
    \/ Scan(k) \/ Sign(k) \/ MarkReconcileRequired(k)

Collector(k) ==
    ReadProtection(k) \/ MarkCollectable(k) \/ DeleteImage(k) \/ RecordCollected(k)

Next ==
    \/ \E i \in Inputs : Prepare(i)
    \/ Pass
    \/ \E k \in Keys : Packager(k) \/ HelperFails(k) \/ Publish(k) \/ Collector(k)
    \/ Crash

Spec == Init /\ [][Next]_vars

(* The controller is a supervised task that starts a pass at every         *)
(* interval and drives every packaging it listed                           *)
Fairness == WF_vars(Pass) /\ \A k \in Keys : WF_vars(Packager(k))

FairSpec == Spec /\ Fairness

(* The packaging records in memory and on disk and the registry keep their *)
(* types.                                                                  *)
TypeOK ==
    /\ mem \in [Keys -> Record \cup {Absent}]
    /\ disk \in [Keys -> Record \cup {Absent}]
    /\ registry \in [Keys -> Digests \cup {NONE}]
    /\ referenced \subseteq Keys

(***************************************************************************)
(* A validated release is backed by evidence about one and the same image: *)
(* the digest built, pushed, described, scanned, signed and still behind   *)
(* the release's tag, whatever failed on the way and whatever a restart    *)
(* recovered (release/store.rs record_*, begin_build).                     *)
(***************************************************************************)
ValidatedIsProven ==
    \A k \in Keys : (Exists(k) /\ mem[k].release = "Validated") =>
        /\ mem[k].status = "Validated"
        /\ mem[k].scan = "passed"
        /\ {mem[k].built, mem[k].pushed, mem[k].prov, mem[k].sig, registry[k]}
               = {mem[k].digest}
        /\ mem[k].digest # NONE

(***************************************************************************)
(* A restart finds the last record whose writer was told Ok, or one that   *)
(* was tried after it: events that fail between journal and checkpoint     *)
(* reuse sequence numbers and recovery skips the second (persist_pair,     *)
(* open), which must never hide an acknowledged one.                       *)
(***************************************************************************)
AckedKept == \A k \in Keys : disk[k] \in may[k]

(***************************************************************************)
(* A release that a publication refers to keeps its image in the registry, *)
(* and it is the image the release's record names, although the collector  *)
(* decides on a protection snapshot that is old when it marks and deletes  *)
(* (garbage_collector.rs:53-66), and although the publication may have     *)
(* read a record whose writer was told of a failed write, which a restart  *)
(* then takes back to an earlier step.                                     *)
(***************************************************************************)
ReferencedKept ==
    \A k \in referenced :
        /\ registry[k] # NONE
        /\ Exists(k) => mem[k].digest \in {NONE, registry[k]}

(***************************************************************************)
(* Every packaging ends validated or rejected once faults stop, whatever   *)
(* step a failure or restart hit, unless the first recorded build strayed  *)
(* from the deterministic digest: then it is refused forever.              *)
(***************************************************************************)
Settles ==
    \A k \in Keys :
        <>[](\/ ~Exists(k)
             \/ mem[k].status \in {"Validated", "Failed"}
             \/ mem[k].built = "bad")
=============================================================================
