----------------------- MODULE ReleasePackagingProofs -----------------------
(***************************************************************************)
(* Proofs about ReleasePackaging for every set of requests and keys and    *)
(* any number of faults and restarts.  The inductive invariant IInv speaks *)
(* of one key at a time: its record is sound in memory and on disk         *)
(* (RecordOK), the packager's step and the collector's step fit the record *)
(* (WorkOK, GcOK), and the registry holds what the records say was pushed  *)
(* until the collector has removed it (RegistryOK).                        *)
(***************************************************************************)
EXTENDS ReleasePackaging, TLAPS

Where == {"idle", "read", "Building", "Lookup", "Push", "RecordPush",
          "Scanning", "Signing", "failed", "scan failed"}

Steps == [at : Where, image : Digests \cup {NONE}]

Rejected(r) == r.status = "Failed"

(* One record agrees with itself: evidence is about the pushed image, and  *)
(* the two statuses say the same                                           *)
RecordOK(r) ==
    r.status # NONE =>
        /\ r.digest = r.pushed
        /\ r.pushed \in {NONE, r.built}
        /\ r.prov \in {NONE, r.pushed}
        /\ r.prov = NONE <=> r.scan = NONE
        /\ r.status \in {"Pushed", "Scanning"} => r.pushed # NONE
        /\ r.status = "Signing" => r.scan = "passed"
        /\ r.status = "Failed" <=> r.scan = "rejected"
        /\ r.status = "Failed" <=>
               r.release \in {"Failed", "GarbageCollectable", "GarbageCollected"}
        /\ r.status = "Validated" <=> r.release = "Validated"
        /\ r.status = "Validated" => r.scan = "passed" /\ r.sig = r.pushed

WorkOK(k) ==
    /\ mem[k].status = NONE => work[k].at = "idle"
    /\ Rejected(mem[k]) => work[k].at \in {"idle", "scan failed"}
    /\ work[k].at \in {"Lookup", "Push", "RecordPush"} => work[k].image # NONE
    /\ work[k].at = "Push" => registry[k] = NONE
    /\ work[k].at = "RecordPush" => registry[k] = work[k].image
    /\ work[k].at \in {"Scanning", "Signing"} => work[k].image = mem[k].pushed

RegistryOK(k) ==
    \/ \A r \in {mem[k], disk[k]} :
           r.status # NONE /\ r.pushed # NONE => registry[k] = r.pushed
    \/ registry[k] = NONE /\ Rejected(mem[k]) /\ Rejected(disk[k])

GcOK(k) ==
    /\ gc[k] # "idle" => mem[k].status # NONE
    /\ gc[k] \in {"delete", "deleted"} =>
           k \notin referenced /\ Rejected(mem[k]) /\ Rejected(disk[k])
    /\ k \in referenced =>
           /\ registry[k] # NONE
           /\ gc[k] # "idle" => mem[k].status = "Validated"

KeyOK(k) ==
    /\ RecordOK(mem[k]) /\ RecordOK(disk[k])
    /\ WorkOK(k) /\ RegistryOK(k) /\ GcOK(k)
    /\ mem[k] \in may[k] /\ disk[k] \in may[k]

IInv ==
    /\ TypeOK
    /\ work \in [Keys -> Steps]
    /\ gc \in [Keys -> {"idle", "unprotected", "delete", "deleted"}]
    /\ may \in [Keys -> SUBSET (Record \cup {Absent})]
    /\ \A k \in Keys : KeyOK(k)

-----------------------------------------------------------------------------
(* The types of everything but the budgets, for one step's proof. *)
Types ==
    /\ TypeOK
    /\ work \in [Keys -> Steps]
    /\ gc \in [Keys -> {"idle", "unprotected", "delete", "deleted"}]
    /\ may \in [Keys -> SUBSET (Record \cup {Absent})]

(* What one persist_pair call may leave behind, whatever it returns. *)
Written(k, rec) ==
    /\ mem' \in [Keys -> Record \cup {Absent}]
    /\ disk' \in [Keys -> Record \cup {Absent}]
    /\ may' \in [Keys -> SUBSET (Record \cup {Absent})]
    /\ mem'[k] \in {mem[k], rec}
    /\ disk'[k] \in {disk[k], rec}
    /\ mem'[k] \in may'[k] /\ disk'[k] \in may'[k]
    /\ \A j \in Keys \ {k} :
           mem'[j] = mem[j] /\ disk'[j] \in {disk[j], mem[j]} /\ may'[j] = may[j]

(* A write that succeeds leaves the new record in memory and on disk. *)
LEMMA PersistOkWrites ==
  ASSUME Types, NEW k \in Keys, NEW rec \in Record, PersistOk(k, rec)
  PROVE  Written(k, rec) /\ mem'[k] = rec /\ disk'[k] = rec
  BY DEF Types, TypeOK, PersistOk, Written

(* A write that fails leaves the old record or the new one in each place. *)
LEMMA PersistErrWrites ==
  ASSUME Types, NEW k \in Keys, NEW rec \in Record, PersistErr(k, rec),
         mem[k] \in may[k], disk[k] \in may[k]
  PROVE  Written(k, rec)
PROOF
  <1>1. may' = [may EXCEPT ![k] = @ \cup {rec}]
    BY DEF PersistErr
  <1>2. CASE UNCHANGED <<mem, disk, stale>>
    BY <1>1, <1>2 DEF Types, TypeOK, Written
  <1>3. CASE disk' = Recovered(k, rec) /\ stale' = TRUE /\ UNCHANGED mem
    BY <1>1, <1>3 DEF Types, TypeOK, Written, Recovered
  <1>4. CASE mem' = [mem EXCEPT ![k] = rec] /\ disk' \in {Recovered(k, rec), mem'}
    BY <1>1, <1>4 DEF Types, TypeOK, Written, Recovered
  <1> QED BY <1>2, <1>3, <1>4 DEF PersistErr

(* A key that a step does not write keeps its part of the invariant, also  *)
(* when a checkpoint of the other key brings its memory record to disk.    *)
LEMMA OtherKey ==
  ASSUME NEW j \in Keys, KeyOK(j),
         mem'[j] = mem[j], disk'[j] \in {disk[j], mem[j]}, may'[j] = may[j],
         work'[j] = work[j], gc'[j] = gc[j], registry'[j] = registry[j],
         j \in referenced' <=> j \in referenced
  PROVE  KeyOK(j)'
PROOF
  <1>1. RecordOK(mem[j]) /\ RecordOK(disk[j]) /\ WorkOK(j) /\ RegistryOK(j) /\ GcOK(j)
        /\ mem[j] \in may[j] /\ disk[j] \in may[j]
    BY DEF KeyOK
  <1>2. RecordOK(mem'[j]) /\ RecordOK(disk'[j]) /\ mem'[j] \in may'[j] /\ disk'[j] \in may'[j]
    BY <1>1
  <1>3. WorkOK(j)'
    BY <1>1 DEF WorkOK, Rejected
  <1>4. RegistryOK(j)'
    BY <1>1 DEF RegistryOK, Rejected
  <1>5. GcOK(j)'
    BY <1>1 DEF GcOK, Rejected
  <1> QED BY <1>2, <1>3, <1>4, <1>5 DEF KeyOK, RecordOK

(* The records of one key, their types and what the invariant says of them. *)
LEMMA KeyFacts ==
  ASSUME IInv, NEW k \in Keys
  PROVE  /\ Types /\ KeyOK(k)
         /\ mem[k] \in Record \cup {Absent} /\ disk[k] \in Record \cup {Absent}
         /\ mem[k].status # NONE => mem[k] \in Record
         /\ work[k].at # "idle" => mem[k] \in Record
         /\ work[k].at \in Where /\ work[k].image \in Digests \cup {NONE}
PROOF
  <1>1. Types /\ KeyOK(k)
    BY DEF IInv, Types
  <1>2. mem[k] \in Record \cup {Absent} /\ disk[k] \in Record \cup {Absent}
    BY <1>1 DEF Types, TypeOK
  <1>3. work[k].at \in Where /\ work[k].image \in Digests \cup {NONE}
    BY <1>1 DEF Types, Steps
  <1>4. mem[k].status # NONE => mem[k] \in Record
    BY <1>2 DEF Absent
  <1>5. work[k].at # "idle" => mem[k].status # NONE
    BY <1>1 DEF KeyOK, WorkOK
  <1> QED BY <1>1, <1>2, <1>3, <1>4, <1>5

(* A store call of the packager, whatever it returns, keeps IInv when the   *)
(* record is sound and agrees with the registry and with the step the       *)
(* packager goes to.                                                        *)
LEMMA StorePreserves ==
  ASSUME IInv, NEW k \in Keys, NEW rec \in Record, NEW w \in Steps,
         PersistOk(k, rec) \/ PersistErr(k, rec),
         Goto(k, w),
         UNCHANGED <<registry, gc, referenced>>,
         work[k].at # "idle",
         mem[k].status \notin {"Failed", "Validated"},
         RecordOK(rec),
         rec.pushed \in {mem[k].pushed, registry[k]},
         w.at \in {"idle", "read", "Lookup", "failed", "scan failed"},
         w.at = "Lookup" => w.image # NONE,
         Rejected(rec) => w.at \in {"idle", "scan failed"}
  PROVE  IInv'
PROOF
  <1>1. /\ Types /\ KeyOK(k) /\ mem[k] \in Record
        /\ disk[k] \in Record \cup {Absent}
    BY KeyFacts
  <1>2. mem[k] \in may[k] /\ disk[k] \in may[k]
    BY <1>1 DEF KeyOK
  <1>3. Written(k, rec) /\ work' = [work EXCEPT ![k] = w]
    BY <1>1, <1>2, PersistOkWrites, PersistErrWrites DEF Goto
  <1>4. Types'
    <2>1. work' \in [Keys -> Steps]
      BY <1>1, <1>3 DEF Types
    <2> QED BY <1>1, <1>3, <2>1 DEF Types, TypeOK, Written
  <1>5. ASSUME NEW j \in Keys \ {k} PROVE KeyOK(j)'
    BY <1>1, <1>3, OtherKey DEF IInv, Types, Written
  <1>6. /\ mem'[k] \in {mem[k], rec} /\ disk'[k] \in {disk[k], rec}
        /\ mem'[k] \in may'[k] /\ disk'[k] \in may'[k]
        /\ work'[k] = w
    BY <1>1, <1>3 DEF Written, Types
  <1>7. RecordOK(mem'[k]) /\ RecordOK(disk'[k])
    BY <1>1, <1>6 DEF KeyOK
  <1>8. WorkOK(k)'
    BY <1>1, <1>6 DEF KeyOK, WorkOK, Rejected, Record, PackagingStatus, NONE
  <1>9. RegistryOK(k)'
    <2>1. /\ mem[k].pushed # NONE => registry[k] = mem[k].pushed
          /\ disk[k].status # NONE /\ disk[k].pushed # NONE => registry[k] = disk[k].pushed
      BY <1>1 DEF KeyOK, RegistryOK, Rejected, Record, PackagingStatus, NONE
    <2>2. rec.pushed # NONE => registry[k] = rec.pushed
      BY <2>1
    <2> QED BY <1>6, <2>1, <2>2 DEF RegistryOK
  <1>10. GcOK(k)'
    BY <1>1, <1>6 DEF KeyOK, GcOK, Rejected, Record, PackagingStatus, NONE
  <1>11. KeyOK(k)'
    BY <1>6, <1>7, <1>8, <1>9, <1>10 DEF KeyOK
  <1> QED BY <1>4, <1>5, <1>11 DEF IInv, Types

(* A step on one key that writes no record keeps IInv when the packager,    *)
(* the registry and the collector still fit that key's record.              *)
LEMMA NoWritePreserves ==
  ASSUME IInv, NEW k \in Keys, NoWrite,
         work' \in [Keys -> Steps],
         gc' \in [Keys -> {"idle", "unprotected", "delete", "deleted"}],
         registry' \in [Keys -> Digests \cup {NONE}],
         referenced' \subseteq Keys,
         \A j \in Keys \ {k} : /\ work'[j] = work[j] /\ gc'[j] = gc[j]
                               /\ registry'[j] = registry[j]
                               /\ j \in referenced' <=> j \in referenced,
         WorkOK(k)', RegistryOK(k)', GcOK(k)'
  PROVE  IInv'
PROOF
  <1>1. Types'
    BY DEF IInv, Types, TypeOK, NoWrite, Steps
  <1>2. ASSUME NEW j \in Keys \ {k} PROVE KeyOK(j)'
    BY OtherKey DEF IInv, NoWrite
  <1>3. KeyOK(k)'
    BY DEF IInv, KeyOK, RecordOK, NoWrite
  <1> QED BY <1>1, <1>2, <1>3 DEF IInv, Types

(* The packager moves to another step without writing. *)
LEMMA GotoPreserves ==
  ASSUME IInv, NEW k \in Keys, NEW w \in Steps, work[k].at # "idle",
         Goto(k, w), NoWrite, UNCHANGED <<registry, gc, referenced>>,
         Rejected(mem[k]) => w.at \in {"idle", "scan failed"},
         w.at \in {"Lookup", "Push", "RecordPush"} => w.image # NONE,
         w.at = "Push" => registry[k] = NONE,
         w.at = "RecordPush" => registry[k] = w.image,
         w.at \in {"Scanning", "Signing"} => w.image = mem[k].pushed
  PROVE  IInv'
PROOF
  <1>1. Types /\ KeyOK(k) /\ mem[k] \in Record
    BY KeyFacts
  <1>2. work' = [work EXCEPT ![k] = w] /\ work \in [Keys -> Steps]
    BY <1>1 DEF Goto, Types, Steps
  <1>3. work' \in [Keys -> Steps] /\ work'[k] = w /\ \A j \in Keys \ {k} : work'[j] = work[j]
    BY <1>2
  <1>4. WorkOK(k)'
    BY <1>1, <1>3 DEF WorkOK, NoWrite, Rejected, Record, PackagingStatus, NONE
  <1>5. RegistryOK(k)' /\ GcOK(k)'
    BY <1>1 DEF KeyOK, RegistryOK, GcOK, NoWrite, Rejected
  <1> QED BY <1>1, <1>3, <1>4, <1>5, NoWritePreserves DEF Types, TypeOK

-----------------------------------------------------------------------------
(* prepare keeps the invariant. *)
LEMMA PrepareStep == ASSUME IInv, NEW i \in Inputs, Prepare(i) PROVE IInv'
PROOF
  <1> DEFINE k == KeyOf[i]
             rec == Prepared(i)
  <1>1. k \in Keys
    BY InputsKeyed
  <1>2. Types /\ KeyOK(k) /\ mem[k] \in may[k] /\ disk[k] \in may[k] /\ mem[k].status = NONE
    BY <1>1, KeyFacts DEF KeyOK, Prepare, Exists
  <1>3. rec \in Record /\ RecordOK(rec) /\ rec.pushed = NONE /\ ~Rejected(rec) /\ rec.status # NONE
    BY DEF Prepared, Record, RecordOK, Rejected, PackagingStatus, ReleaseStatus, NONE
  <1>4. UNCHANGED <<registry, work, gc, referenced>>
    BY DEF Prepare, Unaffected
  <1> HIDE DEF k, rec
  <1>5. Written(k, rec)
    BY <1>1, <1>2, <1>3, PersistOkWrites, PersistErrWrites DEF Prepare, k, rec
  <1>6. Types'
    BY <1>2, <1>4, <1>5 DEF Types, TypeOK, Written
  <1>7. ASSUME NEW j \in Keys \ {k} PROVE KeyOK(j)'
    BY <1>4, <1>5, OtherKey DEF IInv, Written
  <1>8. KeyOK(k)'
    <2>1. mem'[k] \in {mem[k], rec} /\ disk'[k] \in {disk[k], rec}
          /\ mem'[k] \in may'[k] /\ disk'[k] \in may'[k]
      BY <1>5 DEF Written
    <2>2. RecordOK(mem'[k]) /\ RecordOK(disk'[k])
      BY <1>2, <1>3, <2>1 DEF KeyOK
    <2>3. WorkOK(k)'
      BY <1>2, <1>3, <1>4, <2>1 DEF KeyOK, WorkOK, Rejected
    <2>4. RegistryOK(k)'
      BY <1>2, <1>3, <1>4, <2>1 DEF KeyOK, RegistryOK, Rejected, NONE
    <2>5. GcOK(k)'
      BY <1>2, <1>3, <1>4, <2>1 DEF KeyOK, GcOK, Rejected, NONE
    <2> QED BY <2>1, <2>2, <2>3, <2>4, <2>5 DEF KeyOK, RecordOK
  <1> QED BY <1>1, <1>6, <1>7, <1>8 DEF IInv, Types

(* The controller's pass keeps the invariant. *)
LEMMA PassStep == ASSUME IInv, Pass PROVE IInv'
PROOF
  <1>1. NoWrite /\ UNCHANGED <<registry, gc, referenced>>
    BY DEF Pass, Unaffected
  <1>2. \A k \in Keys : work'[k] = IF Recoverable(k) THEN At("read", NONE) ELSE Idle
    BY DEF Pass
  <1>3. work' \in [Keys -> Steps]
    BY DEF Pass, At, Idle, Steps, Where
  <1>4. Types'
    BY <1>1, <1>3 DEF IInv, Types, TypeOK, NoWrite, Steps
  <1>5. ASSUME NEW k \in Keys PROVE KeyOK(k)'
    <2>1. WorkOK(k)'
      <3>1. CASE Recoverable(k)
        <4>1. work'[k].at = "read"
          BY <1>2, <3>1 DEF At
        <4>2. mem[k].status # NONE /\ ~Rejected(mem[k]) /\ mem' = mem
          BY <1>1, <3>1 DEF Recoverable, Rejected, NoWrite
        <4> QED BY <4>1, <4>2 DEF WorkOK, Rejected
      <3>2. CASE ~Recoverable(k)
        <4>1. work'[k].at = "idle"
          BY <1>2, <3>2 DEF Idle
        <4> QED BY <4>1 DEF WorkOK
      <3> QED BY <3>1, <3>2
    <2>2. RegistryOK(k)' /\ GcOK(k)'
      BY <1>1 DEF IInv, KeyOK, RegistryOK, GcOK, NoWrite, Rejected
    <2> QED BY <1>1, <2>1, <2>2 DEF IInv, KeyOK, RecordOK, NoWrite
  <1> QED BY <1>4, <1>5 DEF IInv, Types

(* A failing helper call keeps the invariant. *)
LEMMA HelperFailsStep == ASSUME IInv, NEW k \in Keys, HelperFails(k) PROVE IInv'
PROOF
  <1>1. PICK w \in {"failed", "scan failed"} : Goto(k, At(w, NONE))
    BY DEF HelperFails
  <1>2. NoWrite /\ UNCHANGED <<registry, gc, referenced>> /\ work[k].at # "idle"
        /\ ~Rejected(mem[k])
    <2>1. work[k].at \in {"Building", "Lookup", "Push", "Scanning", "Signing"}
      BY DEF HelperFails
    <2>2. WorkOK(k)
      BY KeyFacts DEF KeyOK
    <2> QED BY <2>1, <2>2 DEF HelperFails, Unaffected, WorkOK
  <1>3. At(w, NONE) \in Steps /\ At(w, NONE).at = w
    BY DEF At, Steps, Where
  <1> QED BY <1>1, <1>2, <1>3, GotoPreserves

(* The packager's dispatch on the status keeps the invariant. *)
LEMMA DispatchStep == ASSUME IInv, NEW k \in Keys, Dispatch(k) PROVE IInv'
PROOF
  <1>1. /\ Types /\ KeyOK(k) /\ mem[k] \in Record /\ RecordOK(mem[k])
        /\ work[k].at = "read" /\ mem[k].status # "Failed"
    BY KeyFacts DEF Dispatch, KeyOK, WorkOK, Rejected
  <1>2. UNCHANGED <<registry, gc, referenced>>
    BY DEF Dispatch, Unaffected
  <1> DEFINE next == At("read", NONE)
  <1>3. next \in Steps /\ Idle \in Steps /\ next.at = "read" /\ Idle.at = "idle"
    BY DEF At, Idle, Steps, Where
  <1>4. CASE /\ mem[k].status \in {"Prepared", "Failed", "ReconcileRequired"}
             /\ Store(k, BeginBuild(mem[k]), next, Idle)
    <2> DEFINE rec == BeginBuild(mem[k])
    <2>1. rec \in Record /\ RecordOK(rec) /\ rec.pushed = mem[k].pushed /\ ~Rejected(rec)
      BY <1>1, <1>4, ZenonT(40) DEF BeginBuild, Record, RecordOK, Rejected, PackagingStatus,
                        ReleaseStatus, NONE
    <2>2. (PersistOk(k, rec) \/ PersistErr(k, rec)) /\ (Goto(k, next) \/ Goto(k, Idle))
      BY <1>4 DEF Store
    <2> HIDE DEF rec, next
    <2> QED BY <1>1, <1>2, <1>3, <1>4, <2>1, <2>2, StorePreserves
  <1>5. CASE /\ mem[k].status = "Pushed"
             /\ Store(k, [mem[k] EXCEPT !.status = "Scanning"], next, Idle)
    <2> DEFINE rec == [mem[k] EXCEPT !.status = "Scanning"]
    <2>1. rec \in Record /\ RecordOK(rec) /\ rec.pushed = mem[k].pushed /\ ~Rejected(rec)
      BY <1>1, <1>5 DEF Record, RecordOK, Rejected, PackagingStatus, NONE
    <2>2. (PersistOk(k, rec) \/ PersistErr(k, rec)) /\ (Goto(k, next) \/ Goto(k, Idle))
      BY <1>5 DEF Store
    <2> HIDE DEF rec, next
    <2> QED BY <1>1, <1>2, <1>3, <1>5, <2>1, <2>2, StorePreserves
  <1>6. CASE /\ mem[k].status \in {"Building", "Scanning", "Signing"}
             /\ Goto(k, At(mem[k].status, mem[k].pushed)) /\ NoWrite
    <2> DEFINE w == At(mem[k].status, mem[k].pushed)
    <2>1. w \in Steps /\ w.at = mem[k].status /\ w.image = mem[k].pushed
      BY <1>1, <1>6 DEF At, Steps, Where, Record
    <2> HIDE DEF w
    <2> QED BY <1>1, <1>2, <1>6, <2>1, GotoPreserves DEF Rejected, w
  <1>7. CASE mem[k].status = "Validated" /\ Goto(k, Idle) /\ NoWrite
    BY <1>1, <1>2, <1>3, <1>7, GotoPreserves
  <1> QED BY <1>4, <1>5, <1>6, <1>7 DEF Dispatch

(* Building and recording the build keeps the invariant. *)
LEMMA BuildStep == ASSUME IInv, NEW k \in Keys, Build(k) PROVE IInv'
PROOF
  <1>1. /\ Types /\ KeyOK(k) /\ mem[k] \in Record /\ RecordOK(mem[k])
        /\ work[k].at = "Building" /\ mem[k].status # "Failed"
    BY KeyFacts DEF Build, KeyOK, WorkOK, Rejected
  <1>2. UNCHANGED <<registry, gc, referenced>>
    BY DEF Build, Unaffected
  <1>3. PICK d \in Digests :
          IF mem[k].status = "Building" /\ SetOnce(mem[k].built, d)
          THEN \/ Store(k, [mem[k] EXCEPT !.built = d], At("Lookup", d), At("failed", NONE))
               \/ PersistOk(k, [mem[k] EXCEPT !.built = d]) /\ Goto(k, At("Lookup", d)) /\ Fault
          ELSE Goto(k, At("failed", NONE)) /\ NoWrite
    BY DEF Build
  <1> DEFINE rec == [mem[k] EXCEPT !.built = d]
             next == At("Lookup", d)
             fail == At("failed", NONE)
  <1>4. next \in Steps /\ fail \in Steps /\ next.at = "Lookup" /\ next.image = d
        /\ fail.at = "failed" /\ d # NONE
    BY DEF At, Steps, Where, Digests, NONE
  <1>5. CASE mem[k].status = "Building" /\ SetOnce(mem[k].built, d)
    <2>1. rec \in Record /\ RecordOK(rec) /\ rec.pushed = mem[k].pushed /\ ~Rejected(rec)
      BY <1>1, <1>5 DEF Record, RecordOK, Rejected, PackagingStatus, SetOnce, NONE
    <2> HIDE DEF rec, next, fail
    <2>2. (PersistOk(k, rec) \/ PersistErr(k, rec)) /\ (Goto(k, next) \/ Goto(k, fail))
      BY <1>3, <1>5 DEF Store, rec, next, fail
    <2> QED BY <1>1, <1>2, <1>4, <1>5, <2>1, <2>2, StorePreserves
  <1>6. CASE ~(mem[k].status = "Building" /\ SetOnce(mem[k].built, d))
    BY <1>1, <1>2, <1>3, <1>4, <1>6, GotoPreserves DEF Rejected
  <1> QED BY <1>5, <1>6

(* Asking the registry for the tag keeps the invariant. *)
LEMMA LookupStep == ASSUME IInv, NEW k \in Keys, Lookup(k) PROVE IInv'
PROOF
  <1>1. /\ Types /\ KeyOK(k) /\ work[k].at = "Lookup" /\ ~Rejected(mem[k])
        /\ work[k].image \in Digests /\ registry[k] \in Digests \cup {NONE}
    BY KeyFacts DEF Lookup, KeyOK, WorkOK, Types, TypeOK
  <1>2. NoWrite /\ UNCHANGED <<registry, gc, referenced>>
    BY DEF Lookup, Unaffected
  <1>3. CASE registry[k] = work[k].image
    <2> DEFINE w == At("RecordPush", work[k].image)
    <2>1. Goto(k, w) /\ w \in Steps /\ w.at = "RecordPush" /\ w.image = work[k].image
      BY <1>1, <1>3 DEF Lookup, Goto, At, Steps, Where, Digests, NONE
    <2> HIDE DEF w
    <2> QED BY <1>1, <1>2, <1>3, <2>1, GotoPreserves DEF Digests, NONE
  <1>4. CASE registry[k] # work[k].image /\ registry[k] = NONE
    <2> DEFINE w == At("Push", work[k].image)
    <2>1. Goto(k, w) /\ w \in Steps /\ w.at = "Push" /\ w.image = work[k].image
      BY <1>1, <1>4 DEF Lookup, Goto, At, Steps, Where
    <2> HIDE DEF w
    <2> QED BY <1>1, <1>2, <1>4, <2>1, GotoPreserves DEF Digests, NONE
  <1>5. CASE registry[k] # work[k].image /\ registry[k] # NONE
    <2> DEFINE w == At("failed", NONE)
    <2>1. Goto(k, w) /\ w \in Steps /\ w.at = "failed"
      BY <1>1, <1>5 DEF Lookup, Goto, At, Steps, Where
    <2> HIDE DEF w
    <2> QED BY <1>1, <1>2, <1>5, <2>1, GotoPreserves
  <1> QED BY <1>3, <1>4, <1>5

(* A push fills a tag that was empty, so it replaces no recorded image. *)
LEMMA PushStep == ASSUME IInv, NEW k \in Keys, Push(k) PROVE IInv'
PROOF
  <1>1. /\ Types /\ KeyOK(k) /\ work[k].at = "Push" /\ ~Rejected(mem[k])
        /\ work[k].image \in Digests /\ registry[k] = NONE /\ mem[k] \in Record
    BY KeyFacts DEF Push, KeyOK, WorkOK, Types, TypeOK
  <1>2. /\ NoWrite /\ UNCHANGED <<gc, referenced>>
        /\ registry' = [registry EXCEPT ![k] = work[k].image]
    BY DEF Push, Unaffected
  <1>3. PICK w \in Steps : /\ work' = [work EXCEPT ![k] = w]
                           /\ \/ w.at = "RecordPush" /\ w.image = work[k].image
                              \/ w.at = "failed"
    <2>1. At("RecordPush", work[k].image) \in Steps /\ At("failed", NONE) \in Steps
      BY <1>1 DEF At, Steps, Where
    <2>2. /\ At("RecordPush", work[k].image).at = "RecordPush"
          /\ At("RecordPush", work[k].image).image = work[k].image
          /\ At("failed", NONE).at = "failed"
      BY DEF At
    <2> QED BY <2>1, <2>2 DEF Push, Goto
  <1>4. /\ work' \in [Keys -> Steps] /\ work'[k] = w
        /\ registry' \in [Keys -> Digests \cup {NONE}] /\ registry'[k] = work[k].image
        /\ \A j \in Keys \ {k} : work'[j] = work[j] /\ registry'[j] = registry[j]
    BY <1>1, <1>2, <1>3 DEF Types, TypeOK
  <1>5. WorkOK(k)'
    BY <1>1, <1>2, <1>3, <1>4 DEF KeyOK, WorkOK, NoWrite, Rejected, Digests, NONE,
       Record, PackagingStatus
  <1>6. RegistryOK(k)'
    <2>1. /\ mem[k].status = NONE \/ mem[k].pushed = NONE
          /\ disk[k].status = NONE \/ disk[k].pushed = NONE
      BY <1>1 DEF KeyOK, RegistryOK
    <2> QED BY <1>2, <2>1 DEF RegistryOK, NoWrite
  <1>7. GcOK(k)'
    BY <1>1, <1>2, <1>4 DEF KeyOK, GcOK, NoWrite, Digests, NONE, Rejected
  <1> QED BY <1>1, <1>2, <1>4, <1>5, <1>6, <1>7, NoWritePreserves DEF Types, TypeOK

(* Recording the pushed digest keeps the invariant. *)
LEMMA RecordPushStep == ASSUME IInv, NEW k \in Keys, RecordPush(k) PROVE IInv'
PROOF
  <1> DEFINE d == work[k].image
             rec == [mem[k] EXCEPT !.pushed = d, !.status = "Pushed",
                                   !.release = "Packaged", !.digest = d]
             next == At("read", NONE)
             fail == At("failed", NONE)
  <1>1. /\ Types /\ KeyOK(k) /\ mem[k] \in Record /\ RecordOK(mem[k])
        /\ work[k].at = "RecordPush" /\ ~Rejected(mem[k])
        /\ d \in Digests /\ d = registry[k]
    BY KeyFacts DEF RecordPush, KeyOK, WorkOK
  <1>2. UNCHANGED <<registry, gc, referenced>>
    BY DEF RecordPush, Unaffected
  <1>3. next \in Steps /\ fail \in Steps /\ next.at = "read" /\ fail.at = "failed"
    BY DEF At, Steps, Where
  <1>4. CASE CanRecordPushed(mem[k], d)
    <2>1. rec \in Record /\ RecordOK(rec) /\ rec.pushed = registry[k] /\ ~Rejected(rec)
      BY <1>1, <1>4, ZenonT(40) DEF Record, RecordOK, Rejected, PackagingStatus, ReleaseStatus,
         CanRecordPushed, SetOnce, Digests, NONE
    <2>2. (PersistOk(k, rec) \/ PersistErr(k, rec)) /\ (Goto(k, next) \/ Goto(k, fail))
      BY <1>4 DEF RecordPush, Store
    <2>3. mem[k].status \notin {"Failed", "Validated"}
      BY <1>4 DEF CanRecordPushed
    <2> HIDE DEF rec, next, fail, d
    <2> QED BY <1>1, <1>2, <1>3, <2>1, <2>2, <2>3, StorePreserves
  <1>5. CASE ~CanRecordPushed(mem[k], d)
    <2>1. Goto(k, fail) /\ NoWrite
      BY <1>5 DEF RecordPush
    <2> HIDE DEF fail
    <2> QED BY <1>1, <1>2, <1>3, <2>1, GotoPreserves
  <1> QED BY <1>4, <1>5

(* Recording the scan keeps the invariant: the evidence is about the image  *)
(* the packager read at the head of the round, which is still the pushed    *)
(* one.                                                                     *)
LEMMA ScanStep == ASSUME IInv, NEW k \in Keys, Scan(k) PROVE IInv'
PROOF
  <1>1. /\ Types /\ KeyOK(k) /\ mem[k] \in Record /\ RecordOK(mem[k])
        /\ work[k].at = "Scanning" /\ mem[k].status = "Scanning"
        /\ work[k].image = mem[k].pushed /\ mem[k].pushed # NONE
    BY KeyFacts DEF Scan, KeyOK, WorkOK, RecordOK, NONE
  <1>2. UNCHANGED <<registry, gc, referenced>>
    BY DEF Scan, Unaffected
  <1>3. PICK passed \in BOOLEAN :
          Store(k, RecordScan(mem[k], work[k].image, passed),
                IF passed THEN At("read", NONE) ELSE At("scan failed", NONE),
                At("scan failed", NONE))
    BY DEF Scan
  <1> DEFINE rec == RecordScan(mem[k], work[k].image, passed)
             next == IF passed THEN At("read", NONE) ELSE At("scan failed", NONE)
             fail == At("scan failed", NONE)
  <1>4. /\ next \in Steps /\ fail \in Steps /\ fail.at = "scan failed"
        /\ next.at = IF passed THEN "read" ELSE "scan failed"
    BY DEF At, Steps, Where
  <1>5. (PersistOk(k, rec) \/ PersistErr(k, rec)) /\ (Goto(k, next) \/ Goto(k, fail))
    BY <1>3 DEF Store
  <1>6. /\ rec \in Record /\ RecordOK(rec) /\ rec.pushed = mem[k].pushed
        /\ Rejected(rec) => ~passed
    BY <1>1 DEF RecordScan, Record, RecordOK, Rejected, PackagingStatus, ReleaseStatus, NONE
  <1> HIDE DEF rec, next, fail
  <1> QED BY <1>1, <1>2, <1>4, <1>5, <1>6, StorePreserves

(* Recording the signature keeps the invariant. *)
LEMMA SignStep == ASSUME IInv, NEW k \in Keys, Sign(k) PROVE IInv'
PROOF
  <1> DEFINE rec == RecordSignature(mem[k], work[k].image)
             next == At("read", NONE)
             fail == At("failed", NONE)
  <1>1. /\ Types /\ KeyOK(k) /\ mem[k] \in Record /\ RecordOK(mem[k])
        /\ work[k].at = "Signing" /\ work[k].image = mem[k].pushed
        /\ ~Rejected(mem[k])
    BY KeyFacts DEF Sign, KeyOK, WorkOK
  <1>2. UNCHANGED <<registry, gc, referenced>>
    BY DEF Sign, Unaffected
  <1>3. next \in Steps /\ fail \in Steps /\ next.at = "read" /\ fail.at = "failed"
    BY DEF At, Steps, Where
  <1>4. CASE CanRecordSignature(mem[k])
    <2>1. rec \in Record /\ RecordOK(rec) /\ rec.pushed = mem[k].pushed /\ ~Rejected(rec)
      BY <1>1, <1>4 DEF RecordSignature, CanRecordSignature, Record, RecordOK, Rejected,
         PackagingStatus, ReleaseStatus, NONE
    <2>2. (PersistOk(k, rec) \/ PersistErr(k, rec)) /\ (Goto(k, next) \/ Goto(k, fail))
      BY <1>4 DEF Sign, Store
    <2>3. mem[k].status \notin {"Failed", "Validated"}
      BY <1>4 DEF CanRecordSignature
    <2> HIDE DEF rec, next, fail
    <2> QED BY <1>1, <1>2, <1>3, <2>1, <2>2, <2>3, StorePreserves
  <1>5. CASE ~CanRecordSignature(mem[k])
    <2>1. Goto(k, fail) /\ NoWrite
      BY <1>5 DEF Sign
    <2> HIDE DEF fail
    <2> QED BY <1>1, <1>2, <1>3, <2>1, GotoPreserves
  <1> QED BY <1>4, <1>5

(* The packager's error exits keep the invariant. *)
LEMMA MarkReconcileRequiredStep ==
  ASSUME IInv, NEW k \in Keys, MarkReconcileRequired(k) PROVE IInv'
PROOF
  <1> DEFINE rec == [mem[k] EXCEPT !.status = "ReconcileRequired"]
             skip == \/ mem[k].status = "Validated"
                     \/ work[k].at = "scan failed" /\ mem[k].status = "Failed"
  <1>1. /\ Types /\ KeyOK(k) /\ mem[k] \in Record /\ RecordOK(mem[k])
        /\ work[k].at \in {"failed", "scan failed"}
        /\ mem[k].status = "Failed" => work[k].at = "scan failed"
    BY KeyFacts DEF MarkReconcileRequired, KeyOK, WorkOK, Rejected
  <1>2. UNCHANGED <<registry, gc, referenced>>
    BY DEF MarkReconcileRequired, Unaffected
  <1>3. Idle \in Steps /\ Idle.at = "idle"
    BY DEF Idle, Steps, Where
  <1>4. CASE ~skip
    <2>1. rec \in Record /\ RecordOK(rec) /\ rec.pushed = mem[k].pushed /\ ~Rejected(rec)
      BY <1>1, <1>4, ZenonT(40) DEF Record, RecordOK, Rejected, PackagingStatus, NONE
    <2>2. (PersistOk(k, rec) \/ PersistErr(k, rec)) /\ Goto(k, Idle)
      BY <1>4 DEF MarkReconcileRequired, Store
    <2>3. mem[k].status \notin {"Failed", "Validated"}
      BY <1>1, <1>4
    <2> HIDE DEF rec
    <2> QED BY <1>1, <1>2, <1>3, <2>1, <2>2, <2>3, StorePreserves
  <1>5. CASE skip
    <2>1. Goto(k, Idle) /\ NoWrite
      BY <1>5 DEF MarkReconcileRequired
    <2> QED BY <1>1, <1>2, <1>3, <2>1, GotoPreserves
  <1> QED BY <1>4, <1>5

(* A publication that refers to a validated release finds its image. *)
LEMMA PublishStep == ASSUME IInv, NEW k \in Keys, Publish(k) PROVE IInv'
PROOF
  <1>1. /\ Types /\ KeyOK(k) /\ mem[k] \in Record /\ RecordOK(mem[k])
        /\ mem[k].status = "Validated"
    BY KeyFacts DEF Publish, Exists, KeyOK, RecordOK
  <1>2. /\ NoWrite /\ UNCHANGED <<registry, work, gc>>
        /\ referenced' = referenced \cup {k}
    BY DEF Publish
  <1>3. registry[k] # NONE
    <2>1. mem[k].pushed # NONE
      BY <1>1 DEF RecordOK, NONE
    <2> QED BY <1>1, <2>1 DEF KeyOK, RegistryOK, Rejected, NONE
  <1>4. WorkOK(k)' /\ RegistryOK(k)'
    BY <1>1, <1>2 DEF KeyOK, WorkOK, RegistryOK, NoWrite, Rejected
  <1>5. GcOK(k)'
    BY <1>1, <1>2, <1>3 DEF KeyOK, GcOK, NoWrite, Rejected
  <1> QED BY <1>1, <1>2, <1>4, <1>5, NoWritePreserves DEF Types, TypeOK

-----------------------------------------------------------------------------
(* The protection snapshot keeps the invariant: it is taken of a release   *)
(* that nothing refers to.                                                 *)
LEMMA ReadProtectionStep == ASSUME IInv, NEW k \in Keys, ReadProtection(k) PROVE IInv'
PROOF
  <1>1. Types /\ KeyOK(k) /\ mem[k].status # NONE /\ k \notin referenced
    BY KeyFacts DEF ReadProtection, Exists, Protected
  <1>2. /\ NoWrite /\ UNCHANGED <<registry, work, referenced>>
        /\ gc' = [gc EXCEPT ![k] = "unprotected"]
    BY DEF ReadProtection
  <1>3. /\ gc' \in [Keys -> {"idle", "unprotected", "delete", "deleted"}]
        /\ gc'[k] = "unprotected" /\ \A j \in Keys \ {k} : gc'[j] = gc[j]
    BY <1>1, <1>2 DEF Types
  <1>4. WorkOK(k)' /\ RegistryOK(k)'
    BY <1>1, <1>2 DEF KeyOK, WorkOK, RegistryOK, NoWrite, Rejected
  <1>5. GcOK(k)'
    BY <1>1, <1>2, <1>3 DEF GcOK, NoWrite
  <1> QED BY <1>1, <1>2, <1>3, <1>4, <1>5, NoWritePreserves DEF Types, TypeOK

(* A write of the collector on a rejected release keeps the invariant; it   *)
(* goes on to delete only when the write succeeded.                         *)
LEMMA CollectPreserves ==
  ASSUME IInv, NEW k \in Keys, NEW rec,
         NEW rel \in {"GarbageCollectable", "GarbageCollected"},
         rec = [mem[k] EXCEPT !.release = rel],
         mem[k] \in Record, Rejected(mem[k]), gc[k] # "idle",
         \/ PersistOk(k, rec) /\ gc' = [gc EXCEPT ![k] = "delete"]
         \/ (PersistOk(k, rec) \/ PersistErr(k, rec)) /\ gc' = [gc EXCEPT ![k] = "idle"],
         UNCHANGED <<registry, work, referenced>>
  PROVE  IInv'
PROOF
  <1>1. Types /\ KeyOK(k) /\ RecordOK(mem[k]) /\ k \notin referenced
        /\ mem[k] \in may[k] /\ disk[k] \in may[k]
    BY KeyFacts DEF KeyOK, GcOK, Rejected
  <1>2. rec \in Record /\ RecordOK(rec) /\ rec.pushed = mem[k].pushed /\ Rejected(rec)
        /\ rec.status # NONE
    BY <1>1 DEF Record, RecordOK, Rejected, PackagingStatus, ReleaseStatus, NONE
  <1>3. /\ Written(k, rec)
        /\ gc' \in [Keys -> {"idle", "unprotected", "delete", "deleted"}]
        /\ \A j \in Keys \ {k} : gc'[j] = gc[j]
    BY <1>1, <1>2, PersistOkWrites, PersistErrWrites DEF Types
  <1>4. gc'[k] = "idle" \/ (mem'[k] = rec /\ disk'[k] = rec)
    BY <1>1, <1>2, PersistOkWrites DEF Types
  <1>5. Types'
    BY <1>1, <1>3 DEF Types, TypeOK, Written
  <1>6. ASSUME NEW j \in Keys \ {k} PROVE KeyOK(j)'
    BY <1>3, OtherKey DEF IInv, Written
  <1>7. /\ mem'[k] \in {mem[k], rec} /\ disk'[k] \in {disk[k], rec}
        /\ mem'[k] \in may'[k] /\ disk'[k] \in may'[k]
    BY <1>3 DEF Written
  <1>8. RecordOK(mem'[k]) /\ RecordOK(disk'[k])
    BY <1>1, <1>2, <1>7 DEF KeyOK
  <1>9. mem[k].status # NONE /\ work[k].at \in {"idle", "scan failed"}
    BY <1>1 DEF KeyOK, WorkOK, Rejected, NONE
  <1>10. WorkOK(k)'
    BY <1>2, <1>7, <1>9 DEF WorkOK, Rejected
  <1>11. RegistryOK(k)'
    BY <1>1, <1>2, <1>7, <1>9 DEF KeyOK, RegistryOK, Rejected
  <1>12. GcOK(k)'
    BY <1>1, <1>2, <1>4, <1>7, <1>9 DEF GcOK
  <1>13. KeyOK(k)'
    BY <1>7, <1>8, <1>10, <1>11, <1>12 DEF KeyOK, RecordOK
  <1> QED BY <1>5, <1>6, <1>13 DEF IInv, Types

(* The collector gives up on a key without writing. *)
LEMMA CollectorIdle ==
  ASSUME IInv, NEW k \in Keys, NoWrite, UNCHANGED <<registry, work, referenced>>,
         gc' = [gc EXCEPT ![k] = "idle"]
  PROVE  IInv'
PROOF
  <1>1. Types /\ KeyOK(k)
    BY KeyFacts
  <1>2. /\ gc' \in [Keys -> {"idle", "unprotected", "delete", "deleted"}]
        /\ gc'[k] = "idle" /\ \A j \in Keys \ {k} : gc'[j] = gc[j]
    BY <1>1 DEF Types
  <1>3. WorkOK(k)' /\ RegistryOK(k)'
    BY <1>1 DEF KeyOK, WorkOK, RegistryOK, NoWrite, Rejected
  <1>4. GcOK(k)'
    BY <1>1, <1>2 DEF KeyOK, GcOK
  <1> QED BY <1>1, <1>2, <1>3, <1>4, NoWritePreserves DEF Types, TypeOK

(* Marking for collection keeps the invariant: an old protection snapshot  *)
(* is harmless because only a rejected release is marked.                  *)
LEMMA MarkCollectableStep == ASSUME IInv, NEW k \in Keys, MarkCollectable(k) PROVE IInv'
PROOF
  <1>1. /\ Types /\ KeyOK(k) /\ gc[k] = "unprotected" /\ mem[k] \in Record
        /\ RecordOK(mem[k]) /\ UNCHANGED <<registry, work, referenced>>
    BY KeyFacts DEF MarkCollectable, KeyOK, GcOK
  <1>2. CASE MayCollect(mem[k])
    <2>1. Rejected(mem[k])
      BY <1>1, <1>2 DEF MayCollect, RecordOK, Rejected, Record, PackagingStatus, NONE
    <2> DEFINE rec == [mem[k] EXCEPT !.release = "GarbageCollectable"]
    <2>2. \/ PersistOk(k, rec) /\ gc' = [gc EXCEPT ![k] = "delete"]
          \/ PersistErr(k, rec) /\ gc' = [gc EXCEPT ![k] = "idle"]
      BY <1>2 DEF MarkCollectable
    <2>3. rec = [mem[k] EXCEPT !.release = "GarbageCollectable"]
      OBVIOUS
    <2> HIDE DEF rec
    <2> QED BY <1>1, <2>1, <2>2, <2>3, CollectPreserves
  <1>3. CASE ~MayCollect(mem[k])
    BY <1>1, <1>3, CollectorIdle DEF MarkCollectable
  <1> QED BY <1>2, <1>3

(* Deleting an image keeps the invariant: memory and disk both say that     *)
(* the release was rejected.                                                *)
LEMMA DeleteImageStep == ASSUME IInv, NEW k \in Keys, DeleteImage(k) PROVE IInv'
PROOF
  <1>1. /\ Types /\ KeyOK(k) /\ gc[k] = "delete" /\ mem[k].status # NONE
        /\ Rejected(mem[k]) /\ Rejected(disk[k]) /\ k \notin referenced
    BY KeyFacts DEF DeleteImage, KeyOK, GcOK
  <1>2. /\ NoWrite /\ UNCHANGED <<work, referenced>>
        /\ registry' = [registry EXCEPT ![k] = NONE]
    BY DEF DeleteImage
  <1>3. PICK g \in {"idle", "deleted"} : gc' = [gc EXCEPT ![k] = g]
    BY DEF DeleteImage
  <1>4. /\ gc' \in [Keys -> {"idle", "unprotected", "delete", "deleted"}]
        /\ registry' \in [Keys -> Digests \cup {NONE}]
        /\ registry'[k] = NONE
        /\ \A j \in Keys \ {k} : gc'[j] = gc[j] /\ registry'[j] = registry[j]
    BY <1>1, <1>2, <1>3 DEF Types, TypeOK
  <1>5. WorkOK(k)'
    BY <1>1, <1>2, <1>4 DEF KeyOK, WorkOK, NoWrite, Rejected
  <1>6. RegistryOK(k)'
    BY <1>1, <1>2, <1>4 DEF RegistryOK, NoWrite, Rejected
  <1>7. GcOK(k)'
    BY <1>1, <1>2, <1>4 DEF GcOK, NoWrite, Rejected
  <1> QED BY <1>1, <1>2, <1>4, <1>5, <1>6, <1>7, NoWritePreserves DEF Types, TypeOK

(* Recording a collection keeps the invariant. *)
LEMMA RecordCollectedStep == ASSUME IInv, NEW k \in Keys, RecordCollected(k) PROVE IInv'
PROOF
  <1> DEFINE can == \/ mem[k].release = "GarbageCollected"
                    \/ mem[k].release = "GarbageCollectable" /\ mem[k].status = "Failed"
  <1>1. /\ Types /\ KeyOK(k) /\ gc[k] = "deleted" /\ mem[k] \in Record
        /\ Rejected(mem[k]) /\ UNCHANGED <<registry, work, referenced>>
        /\ gc' = [gc EXCEPT ![k] = "idle"]
    BY KeyFacts DEF RecordCollected, KeyOK, GcOK
  <1>2. CASE can
    <2>1. \/ PersistOk(k, [mem[k] EXCEPT !.release = "GarbageCollected"])
          \/ PersistErr(k, [mem[k] EXCEPT !.release = "GarbageCollected"])
      BY <1>2 DEF RecordCollected
    <2> QED BY <1>1, <2>1, CollectPreserves
  <1>3. CASE ~can
    BY <1>1, <1>3, CollectorIdle DEF RecordCollected
  <1> QED BY <1>2, <1>3

(* A restart keeps the invariant: what is recovered is sound by itself. *)
LEMMA CrashStep == ASSUME IInv, Crash PROVE IInv'
PROOF
  <1>1. /\ mem' = disk /\ disk' = disk /\ registry' = registry /\ referenced' = referenced
        /\ work' = [k \in Keys |-> Idle] /\ gc' = [k \in Keys |-> "idle"]
        /\ may' = [k \in Keys |-> {disk[k]}]
    BY DEF Crash
  <1>2. Idle \in Steps /\ Idle.at = "idle"
    BY DEF Idle, Steps, Where
  <1>3. Types'
    BY <1>1, <1>2 DEF IInv, Types, TypeOK
  <1>4. ASSUME NEW k \in Keys PROVE KeyOK(k)'
    <2>1. work'[k].at = "idle" /\ gc'[k] = "idle" /\ may'[k] = {disk[k]}
      BY <1>1, <1>2
    <2>2. KeyOK(k)
      BY DEF IInv
    <2>3. WorkOK(k)'
      BY <2>1 DEF WorkOK
    <2>4. RegistryOK(k)'
      BY <1>1, <2>2 DEF KeyOK, RegistryOK, Rejected
    <2>5. GcOK(k)'
      BY <1>1, <2>1, <2>2 DEF KeyOK, GcOK
    <2> QED BY <1>1, <2>1, <2>2, <2>3, <2>4, <2>5 DEF KeyOK, RecordOK
  <1> QED BY <1>3, <1>4 DEF IInv, Types

-----------------------------------------------------------------------------
(* The invariant holds at the start. *)
LEMMA InitInv == Init => IInv
PROOF
  <1> SUFFICES ASSUME Init PROVE IInv
    OBVIOUS
  <1>1. Types
    BY DEF Init, Types, TypeOK, Idle, Steps, Where
  <1>2. ASSUME NEW k \in Keys PROVE KeyOK(k)
    <2>1. /\ mem[k] = Absent /\ disk[k] = Absent /\ may[k] = {Absent}
          /\ work[k] = Idle /\ gc[k] = "idle" /\ k \notin referenced
      BY DEF Init
    <2>2. Absent.status = NONE /\ Idle.at = "idle"
      BY DEF Absent, Idle
    <2>3. RecordOK(mem[k]) /\ RecordOK(disk[k])
      BY <2>1, <2>2 DEF RecordOK
    <2>4. WorkOK(k) /\ RegistryOK(k) /\ GcOK(k)
      BY <2>1, <2>2 DEF WorkOK, RegistryOK, GcOK
    <2> QED BY <2>1, <2>3, <2>4 DEF KeyOK
  <1> QED BY <1>1, <1>2 DEF IInv, Types

(* Every step keeps the invariant. *)
LEMMA NextInv == IInv /\ [Next]_vars => IInv'
PROOF
  <1> SUFFICES ASSUME IInv, [Next]_vars PROVE IInv'
    OBVIOUS
  <1>1. CASE \E i \in Inputs : Prepare(i)
    BY <1>1, PrepareStep
  <1>2. CASE Pass
    BY <1>2, PassStep
  <1>3. ASSUME NEW k \in Keys, Packager(k) PROVE IInv'
    BY <1>3, DispatchStep, BuildStep, LookupStep, PushStep, RecordPushStep, ScanStep,
       SignStep, MarkReconcileRequiredStep DEF Packager
  <1>4. ASSUME NEW k \in Keys, Collector(k) PROVE IInv'
    BY <1>4, ReadProtectionStep, MarkCollectableStep, DeleteImageStep, RecordCollectedStep
       DEF Collector
  <1>5. ASSUME NEW k \in Keys, HelperFails(k) \/ Publish(k) PROVE IInv'
    BY <1>5, HelperFailsStep, PublishStep
  <1>6. CASE Crash
    BY <1>6, CrashStep
  <1>7. CASE UNCHANGED vars
    <2>1. Types'
      BY <1>7 DEF vars, IInv, Types, TypeOK
    <2>2. ASSUME NEW k \in Keys PROVE KeyOK(k)'
      BY <1>7, OtherKey DEF vars, IInv
    <2> QED BY <2>1, <2>2 DEF IInv, Types
  <1> QED BY <1>1, <1>2, <1>3, <1>4, <1>5, <1>6, <1>7 DEF Next

(* The inductive invariant holds in every reachable state. *)
THEOREM Invariance == Spec => []IInv
  BY InitInv, NextInv, PTL DEF Spec

(* Every record in memory and on disk, the registry and the references     *)
(* keep their types under every fault and restart.                         *)
THEOREM TypeCorrect == Spec => []TypeOK
PROOF
  <1>1. IInv => TypeOK
    BY DEF IInv
  <1> QED BY <1>1, Invariance, PTL

(* A validated release is backed by evidence about one image, the one its  *)
(* tag points to (release/store.rs record_*, begin_build).                 *)
THEOREM EvidenceTheorem == Spec => []ValidatedIsProven
PROOF
  <1>1. IInv => ValidatedIsProven
    <2> SUFFICES ASSUME IInv, NEW k \in Keys, Exists(k), mem[k].release = "Validated"
                 PROVE  /\ mem[k].status = "Validated"
                        /\ mem[k].scan = "passed"
                        /\ {mem[k].built, mem[k].pushed, mem[k].prov, mem[k].sig, registry[k]}
                               = {mem[k].digest}
                        /\ mem[k].digest # NONE
      BY DEF ValidatedIsProven
    <2>1. KeyOK(k) /\ RecordOK(mem[k]) /\ mem[k].status # NONE
      BY KeyFacts DEF KeyOK, Exists
    <2>2. /\ mem[k].status = "Validated" /\ mem[k].scan = "passed"
          /\ mem[k].pushed = mem[k].digest /\ mem[k].sig = mem[k].pushed
          /\ mem[k].prov = mem[k].pushed /\ mem[k].pushed # NONE
          /\ mem[k].built = mem[k].pushed
      BY <2>1 DEF RecordOK, NONE
    <2>3. registry[k] = mem[k].pushed
      BY <2>1, <2>2 DEF KeyOK, RegistryOK, Rejected
    <2> QED BY <2>2, <2>3
  <1> QED BY <1>1, Invariance, PTL

(* A restart finds the last acknowledged record of a packaging or one that *)
(* was tried after it (persist_pair, open).                                *)
THEOREM DurabilityTheorem == Spec => []AckedKept
PROOF
  <1>1. IInv => AckedKept
    BY DEF IInv, KeyOK, AckedKept
  <1> QED BY <1>1, Invariance, PTL

(* The collector never takes the image of a release that a publication     *)
(* refers to, however old its protection snapshot is.                      *)
THEOREM ReferenceTheorem == Spec => []ReferencedKept
PROOF
  <1>1. IInv => ReferencedKept
    <2> SUFFICES ASSUME IInv, NEW k \in referenced
                 PROVE  /\ registry[k] # NONE
                        /\ Exists(k) => mem[k].digest \in {NONE, registry[k]}
      BY DEF ReferencedKept
    <2>1. k \in Keys
      BY DEF IInv, TypeOK
    <2>2. RecordOK(mem[k]) /\ RegistryOK(k) /\ GcOK(k)
      BY <2>1 DEF IInv, KeyOK
    <2> QED BY <2>2 DEF RecordOK, RegistryOK, GcOK, Exists
  <1> QED BY <1>1, Invariance, PTL
=============================================================================
