---------------------- MODULE ArtifactPromotionProofs ----------------------
(***************************************************************************)
(* Proofs about ArtifactPromotion for every set of versions and runs and   *)
(* any number of crashes and faults.  The inductive invariant PInv speaks  *)
(* of one version, one driver, one run and one outbox event at a time: a   *)
(* recorded URI has its files behind it (VersionInv), a driver works on a  *)
(* record of its own (JobInv), a completed run has a promoted output       *)
(* (RunInv), and nothing is announced that did not happen (EventInv).      *)
(***************************************************************************)
EXTENDS ArtifactPromotion, TLAPS

Pcs == {"idle", "stage", "validate", "gate", "ready", "output", "promoting",
        "promote", "uri", "regate", "commit", "giveup", "announce", "mark"}

Jobs == [pc : Pcs, v : Versions \cup {None}, expected : Versions \cup {None},
         send : Seq(OutboxIds)]

Types ==
  /\ TypeOK
  /\ commits \in Seq([v : Versions, after : Versions \cup {None}, completes : BOOLEAN])
  /\ events \in [OutboxIds -> Nat]
  /\ job \in [Drivers -> Jobs]

(* The statuses of a record whose files were put in place. *)
Placed == {"Promoting", "Promoted", "ReconcileRequired", "GarbageCollectable",
           "GarbageCollected"}

(* A begun record belongs to a run; the URI is recorded only with the      *)
(* files in place, and they stay until they are collected.                 *)
VersionInv(v) ==
  /\ pub[v].st # "none" => pub[v].by \in Runs
  /\ pub[v].uri =>
       /\ pub[v].st \in Placed
       /\ pub[v].st # "GarbageCollected" => bytes[v] = {"immutable"}
  /\ v \in Promoted => pub[v].st = "Promoted" /\ pub[v].uri

(* What an outbox event says has happened. *)
Earned(o) ==
  /\ o \in Versions => o \in Promoted
  /\ o \in Runs => run[o] = "Completed"

(* A driver works on a record of its own: a run on one it began, the       *)
(* workflow on one of a workflow.  So no two work on the same version.     *)
JobInv(d) ==
  job[d].pc # "idle" =>
    /\ boot = "up"
    /\ job[d].v \in Versions
    /\ pub[job[d].v].st # "none"
    /\ pub[job[d].v].how = "workflow" <=> d = Workflow
    /\ d # Workflow => pub[job[d].v].by = d
    /\ job[d].pc = "uri" => bytes[job[d].v] = {"immutable"}
    /\ job[d].pc \in {"announce", "mark"} =>
         /\ Len(job[d].send) > 0
         /\ \A i \in DOMAIN job[d].send : Earned(job[d].send[i])

(* A completed run has a promoted output and begins nothing more. *)
RunInv(r) ==
  /\ output[r] # None =>
       /\ pub[output[r]].by = r
       /\ pub[output[r]].st # "none"
       /\ output[r] \notin Promoted => pub[output[r]].how # "workflow"
  /\ run[r] = "Completed" =>
       /\ output[r] \in Promoted
       /\ job[r].pc \in {"idle", "giveup", "announce", "mark"}

EventInv(o) ==
  /\ events[o] <= 1
  /\ outbox[o] # "none" \/ events[o] > 0 => Earned(o)

PInv ==
  /\ Types
  /\ \A v \in Versions : VersionInv(v)
  /\ \A d \in Drivers : JobInv(d)
  /\ \A r \in Runs : RunInv(r)
  /\ \A o \in OutboxIds : EventInv(o)
  /\ ReplacesWhatItSaw

-----------------------------------------------------------------------------
(* Lemmas about the log and the records. *)

(* The versions in the log, after hydrate_artifact_transactions. *)
LEMMA PromotedFacts ==
  ASSUME Types
  PROVE  /\ Promoted \subseteq Versions
         /\ Current \in Promoted \cup {None}
         /\ None \notin Promoted
         /\ \A i \in DOMAIN commits : commits[i].v \in Versions
PROOF
  <1> DEFINE C == [v : Versions, after : Versions \cup {None}, completes : BOOLEAN]
  <1>0. \A i \in DOMAIN commits : commits[i].v \in Versions
    <2>1. commits \in Seq(C)
      BY DEF Types
    <2> HIDE DEF C
    <2>2. \A i \in DOMAIN commits : commits[i] \in C
      BY <2>1
    <2>3. QED
      BY <2>2 DEF C
  <1>1. Promoted \subseteq Versions
    BY <1>0 DEF Promoted
  <1>2. Current \in Promoted \cup {None}
    BY DEF Types, Promoted, Current
  <1>3. QED
    BY <1>0, <1>1, <1>2, PromotionAssumption

(* An append to the commit log adds its version to the promoted ones. *)
LEMMA PromotedGrows ==
  ASSUME Types, NEW c \in [v : Versions, after : Versions \cup {None}, completes : BOOLEAN],
         commits' = Append(commits, c)
  PROVE  /\ Promoted' = Promoted \cup {c.v}
         /\ commits' \in Seq([v : Versions, after : Versions \cup {None}, completes : BOOLEAN])
         /\ DOMAIN commits' = 1..(Len(commits) + 1)
         /\ DOMAIN commits = 1..Len(commits)
         /\ Len(commits) \in Nat
         /\ \A i \in DOMAIN commits : commits'[i] = commits[i]
         /\ commits'[Len(commits) + 1] = c
PROOF
  <1> DEFINE C == [v : Versions, after : Versions \cup {None}, completes : BOOLEAN]
  <1>1. commits \in Seq(C) /\ c \in C
    BY DEF Types
  <1> HIDE DEF C
  <1>2. /\ commits' \in Seq(C)
        /\ DOMAIN commits' = 1..(Len(commits) + 1)
        /\ DOMAIN commits = 1..Len(commits)
        /\ Len(commits) \in Nat
        /\ \A i \in DOMAIN commits : commits'[i] = commits[i]
        /\ commits'[Len(commits) + 1] = c
    BY <1>1
  <1>3. Promoted' = Promoted \cup {c.v}
    <2>1. Promoted' = {commits'[i].v : i \in 1..(Len(commits) + 1)}
      BY <1>2 DEF Promoted
    <2>2. Promoted = {commits[i].v : i \in 1..Len(commits)}
      BY <1>2 DEF Promoted
    <2>3. \A x : x \in Promoted' <=> x \in Promoted \/ x = c.v
      BY <1>2, <2>1, <2>2
    <2>4. QED
      BY <2>3
  <1>4. QED
    BY <1>2, <1>3 DEF C

(* Two drivers at work are at work on different versions. *)
LEMMA Apart ==
  ASSUME NEW d \in Drivers, NEW e \in Drivers, d # e, JobInv(d), JobInv(e),
         job[d].pc # "idle", job[e].pc # "idle"
  PROVE  job[d].v # job[e].v
  BY DEF JobInv

(* transition_artifact_publish keeps who began a record and why, and never *)
(* takes a record with files in place back to one without.                 *)
LEMMA MoveFacts ==
  ASSUME Types, NEW v \in Versions, NEW to \in Statuses \ {"none"}
  PROVE  /\ Moved(v, to) \in [Versions -> [st : Statuses, expected : Versions \cup {None},
                           uri : BOOLEAN, by : Runs \cup {None},
                           how : {"none", "report", "publish", "workflow"}]]
         /\ \A x \in Versions : x # v => Moved(v, to)[x] = pub[x]
         /\ Moved(v, to)[v].st = to
         /\ Moved(v, to)[v].expected = pub[v].expected
         /\ Moved(v, to)[v].uri = pub[v].uri
         /\ Moved(v, to)[v].by = pub[v].by
         /\ Moved(v, to)[v].how = pub[v].how
         /\ Allowed(v, to) /\ pub[v].st \in Placed => to \in Placed
         /\ Allowed(v, to) /\ to # "GarbageCollected" => pub[v].st # "GarbageCollected"
         /\ Allowed(v, to) /\ pub[v].st = "Promoted" => to = "Promoted"
PROOF
  <1> DEFINE P == [st : Statuses, expected : Versions \cup {None},
                   uri : BOOLEAN, by : Runs \cup {None},
                   how : {"none", "report", "publish", "workflow"}]
  <1>1. pub \in [Versions -> P] /\ pub[v] \in P
    BY DEF Types, TypeOK
  <1>2. Moved(v, to) = [pub EXCEPT ![v] = [pub[v] EXCEPT !.st = to]]
    BY <1>1 DEF Moved
  <1>3. [pub[v] EXCEPT !.st = to] \in P
    BY <1>1
  <1>4. Moved(v, to) \in [Versions -> P]
    BY <1>1, <1>2, <1>3
  <1>5. Moved(v, to)[v] = [pub[v] EXCEPT !.st = to]
        /\ \A x \in Versions : x # v => Moved(v, to)[x] = pub[x]
    BY <1>1, <1>2
  <1>6. /\ Allowed(v, to) /\ pub[v].st \in Placed => to \in Placed
        /\ Allowed(v, to) /\ to # "GarbageCollected" => pub[v].st # "GarbageCollected"
        /\ Allowed(v, to) /\ pub[v].st = "Promoted" => to = "Promoted"
    BY DEF Allowed, artifact_publish_transition_allowed, Placed
  <1>7. QED
    BY <1>1, <1>4, <1>5, <1>6

-----------------------------------------------------------------------------
(* One step of a driver that leaves the log, the runs and the outbox: it   *)
(* may change its record and its files, and goes on or stops.              *)
LEMMA RecordStep ==
  ASSUME PInv, NEW d \in Drivers, NEW v \in Versions,
         NEW j \in Jobs, NEW b \in SUBSET {"staged", "immutable"},
         boot = "up", job[d].pc # "idle", job[d].v = v,
         pub' \in [Versions -> [st : Statuses, expected : Versions \cup {None},
                           uri : BOOLEAN, by : Runs \cup {None},
                           how : {"none", "report", "publish", "workflow"}]],
         \A x \in Versions : x # v => pub'[x] = pub[x],
         pub'[v].expected = pub[v].expected, pub'[v].by = pub[v].by,
         pub'[v].how = pub[v].how, pub'[v].st # "none",
         pub'[v].uri => /\ pub'[v].st \in Placed
                        /\ pub'[v].st # "GarbageCollected" => b = {"immutable"},
         v \in Promoted => pub'[v].st = "Promoted" /\ pub'[v].uri,
         bytes' = [bytes EXCEPT ![v] = b],
         job' = [job EXCEPT ![d] = j],
         j.pc # "idle" => j.v = v /\ j.pc \notin {"announce", "mark"},
         j.pc = "uri" => b = {"immutable"},
         d \in Runs /\ run[d] = "Completed" => j.pc = "idle",
         commits' = commits, run' = run, output' = output, outbox' = outbox,
         events' = events, boot' = boot
  PROVE  PInv'
PROOF
  <1> USE DEF PInv
  <1>0. Promoted' = Promoted
    BY DEF Promoted
  <1>1. \A x \in Versions : /\ x # v => pub'[x] = pub[x]
                             /\ pub'[x].expected = pub[x].expected
                             /\ pub'[x].by = pub[x].by
                             /\ pub'[x].how = pub[x].how
    OBVIOUS
  <1>2. pub[v].by \in Runs
    BY DEF JobInv, VersionInv
  <1>3. /\ bytes' \in [Versions -> SUBSET {"staged", "immutable"}]
        /\ bytes'[v] = b
        /\ \A x \in Versions : x # v => bytes'[x] = bytes[x]
    BY DEF Types, TypeOK
  <1>4. /\ job' \in [Drivers -> Jobs]
        /\ job'[d] = j
        /\ \A e \in Drivers : e # d => job'[e] = job[e]
    BY DEF Types
  <1>5. Types'
    BY <1>1, <1>3, <1>4 DEF Types, TypeOK
  <1>6. ASSUME NEW x \in Versions PROVE VersionInv(x)'
    <2>1. CASE x = v
      BY <1>0, <1>1, <1>2, <1>3, <2>1 DEF VersionInv
    <2>2. CASE x # v
      BY <1>0, <1>1, <1>3, <2>2 DEF VersionInv
    <2>3. QED
      BY <2>1, <2>2
  <1>7. \A o \in OutboxIds : Earned(o)' <=> Earned(o)
    BY <1>0 DEF Earned
  <1>8. ASSUME NEW e \in Drivers PROVE JobInv(e)'
    <2>1. CASE e = d
      BY <1>1, <1>3, <1>4, <2>1 DEF JobInv
    <2>2. CASE e # d /\ job[e].pc # "idle"
      <3>1. job[e].v # v /\ job[e].v \in Versions
        BY <2>2, Apart DEF JobInv
      <3>2. \A i \in DOMAIN job[e].send : job[e].send[i] \in OutboxIds
        BY DEF Types, Jobs
      <3>3. QED
        BY <1>1, <1>3, <1>4, <1>7, <2>2, <3>1, <3>2 DEF JobInv
    <2>3. CASE e # d /\ job[e].pc = "idle"
      BY <1>4, <2>3 DEF JobInv
    <2>4. QED
      BY <2>1, <2>2, <2>3
  <1>9. ASSUME NEW r \in Runs PROVE RunInv(r)'
    <2>1. output[r] \in Versions \cup {None}
      BY DEF Types, TypeOK
    <2>2. r \in Drivers
      BY DEF Drivers
    <2>3. run[r] = "Completed" => job'[r].pc \in {"idle", "giveup", "announce", "mark"}
      BY <1>4, <2>2 DEF RunInv
    <2>4. output[r] # None => pub'[output[r]].st # "none"
      BY <1>1, <2>1 DEF RunInv
    <2>5. QED
      BY <1>0, <1>1, <2>1, <2>3, <2>4 DEF RunInv
  <1>10. ASSUME NEW o \in OutboxIds PROVE EventInv(o)'
    BY <1>7 DEF EventInv
  <1>11. ReplacesWhatItSaw'
    BY <1>1, PromotedFacts DEF ReplacesWhatItSaw
  <1>12. QED
    BY <1>5, <1>6, <1>8, <1>9, <1>10, <1>11

(* The same when the record is moved by transition_artifact_publish.       *)
LEMMA DriverStep ==
  ASSUME PInv, NEW d \in Drivers, NEW v \in Versions, NEW to \in Statuses \ {"none"},
         NEW j \in Jobs, NEW b \in SUBSET {"staged", "immutable"},
         boot = "up", job[d].pc # "idle", job[d].v = v,
         pub' = pub \/ (pub' = Moved(v, to) /\ Allowed(v, to)
                          /\ to \notin {"Promoted", "GarbageCollected"}),
         bytes' = [bytes EXCEPT ![v] = b],
         pub[v].uri /\ bytes[v] = {"immutable"} => b = {"immutable"},
         job' = [job EXCEPT ![d] = j],
         j.pc # "idle" => j.v = v /\ j.pc \notin {"announce", "mark"},
         j.pc = "uri" => b = {"immutable"},
         d \in Runs /\ run[d] = "Completed" => j.pc = "idle",
         commits' = commits, run' = run, output' = output, outbox' = outbox,
         events' = events, boot' = boot
  PROVE  PInv'
PROOF
  <1>1. Types /\ pub[v].st # "none" /\ VersionInv(v)
    BY DEF PInv, JobInv
  <1>2. /\ pub' \in [Versions -> [st : Statuses, expected : Versions \cup {None},
                           uri : BOOLEAN, by : Runs \cup {None},
                           how : {"none", "report", "publish", "workflow"}]]
        /\ \A x \in Versions : x # v => pub'[x] = pub[x]
        /\ pub'[v].expected = pub[v].expected
        /\ pub'[v].uri = pub[v].uri
        /\ pub'[v].by = pub[v].by
        /\ pub'[v].how = pub[v].how
    BY <1>1, MoveFacts DEF Types, TypeOK
  <1>3. /\ pub'[v].st # "none"
        /\ pub[v].st = "Promoted" => pub'[v].st = "Promoted"
        /\ pub[v].st \in Placed => pub'[v].st \in Placed
        /\ pub'[v].st # "GarbageCollected" => pub[v].st # "GarbageCollected"
    BY <1>1, MoveFacts
  <1>4. /\ pub'[v].uri => /\ pub'[v].st \in Placed
                          /\ pub'[v].st # "GarbageCollected" => b = {"immutable"}
        /\ v \in Promoted => pub'[v].st = "Promoted" /\ pub'[v].uri
    BY <1>1, <1>2, <1>3 DEF VersionInv
  <1>5. QED
    BY <1>2, <1>3, <1>4, RecordStep

(* commit_artifact_promotion_cas_inner: one line of the log makes the      *)
(* version current and its record Promoted, whoever commits it; the        *)
(* committing driver goes on to announce it, or stops.                     *)
LEMMA CommitStep ==
  ASSUME PInv, NEW d \in Drivers, NEW v \in Versions, NEW completes \in BOOLEAN,
         NEW expected, NEW j \in Jobs,
         PromotionCommit(v, completes), ~Superseded(v, expected), v \notin Promoted,
         pub[v].how # "workflow" => expected = pub[v].expected,
         pub[v].st \in {"Promoting", "ReconcileRequired"}, pub[v].uri,
         completes => d = pub[v].by,
         job' = [job EXCEPT ![d] = j],
         j.pc # "idle" => /\ job[d].pc # "idle" /\ j.v = v /\ job[d].v = v
                          /\ j.pc \in {"giveup", "announce"},
         completes => j.pc \in {"idle", "giveup", "announce"},
         j.pc = "announce" => j.send = IF completes THEN <<v, d>> ELSE <<v>>,
         bytes' = bytes, events' = events, boot' = boot
  PROVE  PInv'
PROOF
  <1> USE DEF PInv
  <1> DEFINE c == [v |-> v, after |-> Current, completes |-> completes]
  <1>0. PICK r \in Runs : r = pub[v].by
    BY DEF VersionInv
  <1>1. r \in Drivers /\ v \in OutboxIds /\ r \in OutboxIds /\ v # r
        /\ pub[v].st # "none" /\ pub[v].st \in Placed
    BY PromotionAssumption DEF Drivers, OutboxIds, Placed
  <1>2. /\ commits' = Append(commits, c)
        /\ pub' = Moved(v, "Promoted")
        /\ output' = [output EXCEPT ![r] = v]
        /\ run' = IF completes THEN [run EXCEPT ![r] = "Completed"] ELSE run
        /\ outbox' = [o \in OutboxIds |->
                  IF o = v \/ (completes /\ o = r) THEN "Pending" ELSE outbox[o]]
    BY <1>0 DEF PromotionCommit
  <1>3. Current \in Versions \cup {None} /\ Current # v
    BY PromotedFacts, PromotionAssumption
  <1>4. c \in [v : Versions, after : Versions \cup {None}, completes : BOOLEAN]
        /\ c.v = v /\ c.after = Current
    BY <1>3
  <1> HIDE DEF c
  <1>5. /\ Promoted' = Promoted \cup {v}
        /\ commits' \in Seq([v : Versions, after : Versions \cup {None}, completes : BOOLEAN])
        /\ DOMAIN commits' = 1..(Len(commits) + 1)
        /\ DOMAIN commits = 1..Len(commits)
        /\ Len(commits) \in Nat
        /\ \A i \in DOMAIN commits : commits'[i] = commits[i]
        /\ commits'[Len(commits) + 1] = c
    BY <1>2, <1>4, PromotedGrows
  <1>6. /\ pub' \in [Versions -> [st : Statuses, expected : Versions \cup {None},
                           uri : BOOLEAN, by : Runs \cup {None},
                           how : {"none", "report", "publish", "workflow"}]]
        /\ \A x \in Versions : /\ x # v => pub'[x] = pub[x]
                               /\ pub'[x].expected = pub[x].expected
                               /\ pub'[x].uri = pub[x].uri
                               /\ pub'[x].by = pub[x].by
                               /\ pub'[x].how = pub[x].how
        /\ pub'[v].st = "Promoted"
    BY <1>2, MoveFacts DEF Statuses
  <1>7. /\ output' \in [Runs -> Versions \cup {None}]
        /\ output'[r] = v
        /\ \A q \in Runs : q # r => output'[q] = output[q]
    BY <1>1, <1>2 DEF Types, TypeOK
  <1>8. /\ run' \in [Runs -> {"Running", "Completed", "Cancelled"}]
        /\ \A q \in Runs : run[q] = "Completed" => run'[q] = "Completed"
        /\ \A q \in Runs : q # r => run'[q] = run[q]
        /\ completes => run'[r] = "Completed"
        /\ ~completes => run'[r] = run[r]
    BY <1>1, <1>2 DEF Types, TypeOK
  <1>9. /\ outbox' \in [OutboxIds -> {"none", "Pending", "Delivered"}]
        /\ \A o \in OutboxIds : o # v /\ ~(completes /\ o = r) => outbox'[o] = outbox[o]
    BY <1>2 DEF Types, TypeOK
  <1>10. /\ job' \in [Drivers -> Jobs]
         /\ job'[d] = j
         /\ \A e \in Drivers : e # d => job'[e] = job[e]
    BY DEF Types
  <1>11. Types'
    BY <1>5, <1>6, <1>7, <1>8, <1>9, <1>10 DEF Types, TypeOK
  <1>12. ASSUME NEW x \in Versions PROVE VersionInv(x)'
    <2>1. CASE x = v
      <3>1. bytes[v] = {"immutable"}
        BY DEF VersionInv
      <3>2. QED
        BY <1>0, <1>1, <1>6, <2>1, <3>1 DEF VersionInv, Placed
    <2>2. CASE x # v
      BY <1>5, <1>6, <2>2 DEF VersionInv
    <2>3. QED
      BY <2>1, <2>2
  <1>13. /\ \A o \in OutboxIds : Earned(o) => Earned(o)'
         /\ Earned(v)'
         /\ completes => Earned(r)'
    BY <1>1, <1>5, <1>8, PromotionAssumption DEF Earned
  <1>14. ASSUME NEW e \in Drivers PROVE JobInv(e)'
    <2>1. CASE e = d /\ j.pc # "idle"
      <3>1. j.pc = "announce" => /\ Len(j.send) > 0
                                 /\ \A i \in DOMAIN j.send : Earned(j.send[i])'
        <4>1. CASE j.pc = "announce" /\ completes
          <5>1. j.send = <<v, d>> /\ d = r
            BY <1>0, <4>1
          <5>2. \A i \in DOMAIN j.send : j.send[i] \in {v, d}
            BY <5>1
          <5>3. \A o \in {v, d} : Earned(o)'
            BY <1>13, <4>1, <5>1
          <5>4. QED
            BY <5>1, <5>2, <5>3
        <4>2. CASE j.pc = "announce" /\ ~completes
          <5>1. j.send = <<v>>
            BY <4>2
          <5>2. \A i \in DOMAIN j.send : j.send[i] = v
            BY <5>1
          <5>3. QED
            BY <1>13, <5>1, <5>2
        <4>3. QED
          BY <4>1, <4>2
      <3>2. boot = "up" /\ (pub[v].how = "workflow" <=> d = Workflow)
            /\ (d # Workflow => pub[v].by = d)
        BY <2>1 DEF JobInv
      <3>3. QED
        BY <1>6, <1>10, <2>1, <3>1, <3>2 DEF JobInv
    <2>2. CASE e = d /\ j.pc = "idle"
      BY <1>10, <2>2 DEF JobInv
    <2>3. CASE e # d /\ job[e].pc # "idle"
      <3>1. job[e].v \in Versions
        BY <2>3 DEF JobInv
      <3>2. \A i \in DOMAIN job[e].send : job[e].send[i] \in OutboxIds
        BY DEF Types, Jobs
      <3>3. pub'[job[e].v].st # "none"
        BY <1>6, <2>3, <3>1 DEF JobInv
      <3>4. job[e].pc \in {"announce", "mark"} =>
              \A i \in DOMAIN job[e].send : Earned(job[e].send[i])
        BY <2>3 DEF JobInv
      <3>5. \A o \in OutboxIds : Earned(o) => /\ o \in Versions => o \in Promoted'
                                              /\ o \in Runs => run'[o] = "Completed"
        BY <1>5, <1>8 DEF Earned
      <3>6. job[e].pc \in {"announce", "mark"} =>
              \A i \in DOMAIN job[e].send :
                /\ job[e].send[i] \in Versions => job[e].send[i] \in Promoted'
                /\ job[e].send[i] \in Runs => run'[job[e].send[i]] = "Completed"
        BY <3>2, <3>4, <3>5
      <3>7. job'[e] = job[e]
        BY <1>10, <2>3
      <3>8. QED
        BY <1>6, <2>3, <3>1, <3>3, <3>6, <3>7 DEF JobInv, Earned
    <2>4. CASE e # d /\ job[e].pc = "idle"
      BY <1>10, <2>4 DEF JobInv
    <2>5. QED
      BY <2>1, <2>2, <2>3, <2>4
  <1>15. ASSUME NEW q \in Runs PROVE RunInv(q)'
    <2>1. q \in Drivers
      BY DEF Drivers
    <2>2. CASE q = r
      <3>1. run'[q] = "Completed" => job'[q].pc \in {"idle", "giveup", "announce", "mark"}
        <4>1. CASE q = d
          BY <1>10, <2>1, <4>1
        <4>2. CASE q # d
          <5>1. ~completes
            BY <1>0, <2>2, <4>2
          <5>2. QED
            BY <1>8, <1>10, <2>1, <2>2, <4>2, <5>1 DEF RunInv
        <4>3. QED
          BY <4>1, <4>2
      <3>2. QED
        BY <1>0, <1>1, <1>5, <1>6, <1>7, <2>2, <3>1 DEF RunInv
    <2>3. CASE q # r
      <3>1. output[q] \in Versions \cup {None}
        BY DEF Types, TypeOK
      <3>2. output[q] # v
        BY <1>0, <2>3, PromotionAssumption DEF RunInv
      <3>3. run'[q] = "Completed" => job'[q].pc \in {"idle", "giveup", "announce", "mark"}
        BY <1>8, <1>10, <2>1, <2>3 DEF RunInv
      <3>4. output'[q] = output[q] /\ run'[q] = run[q]
        BY <1>7, <1>8, <2>3
      <3>5. QED
        BY <1>5, <1>6, <3>1, <3>2, <3>3, <3>4 DEF RunInv
    <2>4. QED
      BY <2>2, <2>3
  <1>16. ASSUME NEW o \in OutboxIds PROVE EventInv(o)'
    BY <1>9, <1>13 DEF EventInv
  <1>17. ReplacesWhatItSaw'
    <2>1. pub[v].how # "workflow" => Current = pub[v].expected
      BY <1>3 DEF Superseded
    <2>2. \A i \in DOMAIN commits : commits[i].v \in Versions /\ commits[i].v # v
      BY PromotedFacts DEF Promoted
    <2>3. ASSUME NEW i \in DOMAIN commits', pub'[commits'[i].v].how # "workflow"
          PROVE  commits'[i].after = pub'[commits'[i].v].expected
      <3>1. CASE i = Len(commits) + 1
        BY <1>4, <1>5, <1>6, <2>1, <2>3, <3>1
      <3>2. CASE i # Len(commits) + 1
        <4>1. i \in DOMAIN commits
          BY <1>5, <3>2
        <4>2. QED
          BY <1>5, <1>6, <2>2, <2>3, <4>1 DEF ReplacesWhatItSaw
      <3>3. QED
        BY <3>1, <3>2
    <2>4. ASSUME NEW i \in DOMAIN commits', NEW k \in DOMAIN commits',
                 commits'[i].v = commits'[k].v
          PROVE  i = k
      <3>1. \A n \in DOMAIN commits' : n # Len(commits) + 1 => n \in DOMAIN commits
        BY <1>5
      <3>2. QED
        BY <1>4, <1>5, <2>2, <2>4, <3>1 DEF ReplacesWhatItSaw
    <2>5. QED
      BY <2>3, <2>4 DEF ReplacesWhatItSaw
  <1>18. QED
    BY <1>11, <1>12, <1>14, <1>15, <1>16, <1>17

-----------------------------------------------------------------------------
(* The steps of a driver. *)

(* Types of the steps of a driver that goes on, or stops. *)
LEMMA JobFacts ==
  ASSUME Types, NEW d \in Drivers
  PROVE  /\ job[d] \in Jobs
         /\ Idle \in Jobs /\ Idle.pc = "idle"
         /\ \A pc \in Pcs : /\ [job[d] EXCEPT !.pc = pc] \in Jobs
                            /\ [job[d] EXCEPT !.pc = pc].pc = pc
                            /\ [job[d] EXCEPT !.pc = pc].v = job[d].v
         /\ \A pc : Goto(d, pc) => job' = [job EXCEPT ![d] = [job[d] EXCEPT !.pc = pc]]
         /\ Stop(d) => job' = [job EXCEPT ![d] = Idle]
PROOF
  <1>1. job \in [Drivers -> Jobs] /\ job[d] \in Jobs
    BY DEF Types
  <1>2. Idle \in Jobs /\ Idle.pc = "idle"
    BY DEF Idle, Jobs, Pcs
  <1>3. \A pc \in Pcs : /\ [job[d] EXCEPT !.pc = pc] \in Jobs
                        /\ [job[d] EXCEPT !.pc = pc].pc = pc
                        /\ [job[d] EXCEPT !.pc = pc].v = job[d].v
    BY <1>1 DEF Jobs
  <1>4. \A pc : Goto(d, pc) => job' = [job EXCEPT ![d] = [job[d] EXCEPT !.pc = pc]]
    BY <1>1 DEF Goto
  <1>5. QED
    BY <1>1, <1>2, <1>3, <1>4 DEF Stop

(* What is known of a driver at work. *)
LEMMA AtWork ==
  ASSUME PInv, NEW d \in Drivers, job[d].pc # "idle"
  PROVE  /\ job[d].v \in Versions
         /\ boot = "up"
         /\ bytes[job[d].v] \in SUBSET {"staged", "immutable"}
         /\ bytes = [bytes EXCEPT ![job[d].v] = bytes[job[d].v]]
         /\ d \in Runs /\ run[d] = "Completed" =>
              job[d].pc \in {"giveup", "announce", "mark"}
         /\ pub[job[d].v].uri => pub[job[d].v].st \in Placed
PROOF
  <1>1. job[d].v \in Versions /\ boot = "up"
    BY DEF PInv, JobInv
  <1>2. bytes \in [Versions -> SUBSET {"staged", "immutable"}]
    BY DEF PInv, Types, TypeOK
  <1>3. QED
    BY <1>1, <1>2 DEF PInv, RunInv, VersionInv

(* stage_directory adds files only to a record without a URI. *)
LEMMA StageStep ==
  ASSUME PInv, NEW d \in Drivers, Stage(d)
  PROVE  PInv'
PROOF
  <1>1. Types
    BY DEF PInv
  <1>2. PICK v \in Versions : v = job[d].v
    BY AtWork DEF Stage, At
  <1>3. job[d].pc = "stage" /\ boot = "up"
    BY DEF Stage, At
  <1>4. CASE /\ Allowed(v, "Staged")
             /\ bytes' = [bytes EXCEPT ![v] = @ \cup {"staged"}]
             /\ pub' = Moved(v, "Staged")
             /\ Goto(d, "validate")
    <2> DEFINE b == bytes[v] \cup {"staged"}
               j == [job[d] EXCEPT !.pc = "validate"]
    <2>1. ~pub[v].uri
      BY <1>2, <1>3, <1>4, AtWork DEF Allowed, artifact_publish_transition_allowed, Placed
    <2>2. b \in SUBSET {"staged", "immutable"} /\ bytes' = [bytes EXCEPT ![v] = b]
      BY <1>2, <1>3, <1>4, AtWork
    <2>3. j \in Jobs /\ j.pc = "validate" /\ j.v = v /\ job' = [job EXCEPT ![d] = j]
      <3>1. "validate" \in Pcs
        BY DEF Pcs
      <3>2. QED
        BY <1>1, <1>2, <1>4, <3>1, JobFacts
    <2>4. "Staged" \in Statuses \ {"none"}
      BY DEF Statuses
    <2>5. ~(d \in Runs /\ run[d] = "Completed")
      BY <1>3, AtWork
    <2> HIDE DEF b, j
    <2>6. commits' = commits /\ run' = run /\ output' = output /\ outbox' = outbox
          /\ events' = events /\ boot' = boot
      BY DEF Stage
    <2>7. /\ job[d].pc # "idle"
          /\ j.pc # "idle" => j.v = v /\ j.pc \notin {"announce", "mark"}
          /\ j.pc # "uri"
      BY <1>3, <2>3
    <2>8. pub' = Moved(v, "Staged") /\ Allowed(v, "Staged")
          /\ "Staged" \notin {"Promoted", "GarbageCollected"}
      BY <1>4
    <2>9. QED
      BY <1>2, <1>3, <2>1, <2>2, <2>3, <2>4, <2>5, <2>6, <2>7, <2>8, DriverStep
  <1>5. CASE /\ IF d = Workflow THEN UNCHANGED pub ELSE Attempt(v, "Failed")
             /\ Stop(d) /\ UNCHANGED bytes
    <2>1. pub' = pub \/ (pub' = Moved(v, "Failed") /\ Allowed(v, "Failed"))
      BY <1>5 DEF Attempt
    <2>2. "Failed" \in Statuses \ {"none"}
      BY DEF Statuses
    <2>3. bytes[v] \in SUBSET {"staged", "immutable"} /\ bytes' = [bytes EXCEPT ![v] = bytes[v]]
      BY <1>2, <1>3, <1>5, AtWork
    <2>4. Idle \in Jobs /\ Idle.pc = "idle" /\ job' = [job EXCEPT ![d] = Idle]
      BY <1>1, <1>5, JobFacts
    <2>5. QED
      BY <1>2, <1>3, <2>1, <2>2, <2>3, <2>4, DriverStep, ZenonT(40) DEF Stage
  <1>6. QED
    BY <1>2, <1>4, <1>5 DEF Stage

(* A driver stops; its record may be given another status on the way out.  *)
LEMMA StopStep ==
  ASSUME PInv, NEW d \in Drivers, NEW to \in Statuses \ {"none", "Promoted", "GarbageCollected"},
         job[d].pc # "idle", Stop(d), pub' = pub \/ Attempt(job[d].v, to),
         NEW b \in SUBSET {"staged", "immutable"},
         bytes' = [bytes EXCEPT ![job[d].v] = b],
         bytes[job[d].v] = {"immutable"} => b = {"immutable"},
         UNCHANGED <<commits, run, output, outbox, events, boot>>
  PROVE  PInv'
PROOF
  <1>1. Types
    BY DEF PInv
  <1>2. PICK v \in Versions : v = job[d].v
    BY AtWork
  <1>3. boot = "up"
    BY AtWork
  <1>4. pub' = pub \/ (pub' = Moved(v, to) /\ Allowed(v, to))
    BY <1>2 DEF Attempt
  <1>5. Idle \in Jobs /\ Idle.pc = "idle" /\ job' = [job EXCEPT ![d] = Idle]
    BY <1>1, JobFacts
  <1>6. QED
    BY <1>2, <1>3, <1>4, <1>5, DriverStep

(* A driver goes on with its record in another status, or as it is.        *)
LEMMA GoStep ==
  ASSUME PInv, NEW d \in Drivers, NEW to \in Statuses \ {"none", "Promoted", "GarbageCollected"},
         NEW pc \in Pcs \ {"announce", "mark", "uri", "idle"},
         job[d].pc \notin {"idle", "giveup", "announce", "mark"}, Goto(d, pc),
         pub' = pub \/ (pub' = Moved(job[d].v, to) /\ Allowed(job[d].v, to)),
         UNCHANGED <<bytes, commits, run, output, outbox, events, boot>>
  PROVE  PInv'
PROOF
  <1> DEFINE j == [job[d] EXCEPT !.pc = pc]
  <1>1. Types
    BY DEF PInv
  <1>2. PICK v \in Versions : v = job[d].v
    BY AtWork
  <1>3. boot = "up" /\ ~(d \in Runs /\ run[d] = "Completed")
    BY AtWork
  <1>4. j \in Jobs /\ j.pc = pc /\ j.v = v /\ job' = [job EXCEPT ![d] = j]
    BY <1>1, <1>2, JobFacts
  <1>5. bytes[v] \in SUBSET {"staged", "immutable"} /\ bytes' = [bytes EXCEPT ![v] = bytes[v]]
    BY <1>2, AtWork
  <1> HIDE DEF j
  <1>6. /\ to \in Statuses \ {"none"}
        /\ pub' = pub \/ (pub' = Moved(v, to) /\ Allowed(v, to)
                             /\ to \notin {"Promoted", "GarbageCollected"})
    BY <1>2
  <1>7. /\ job[d].pc # "idle"
        /\ j.pc # "idle" => j.v = v /\ j.pc \notin {"announce", "mark"}
        /\ j.pc # "uri"
    BY <1>4
  <1>8. commits' = commits /\ run' = run /\ output' = output /\ outbox' = outbox
        /\ events' = events /\ boot' = boot
    OBVIOUS
  <1>9. QED
    BY <1>2, <1>3, <1>4, <1>5, <1>6, <1>7, <1>8, DriverStep

(* A tool's validation or gate rejects the candidate: its staged files go. *)
LEMMA RejectStep ==
  ASSUME PInv, NEW d \in Drivers, job[d].pc # "idle", Reject(d),
         UNCHANGED <<commits, run, output, outbox, events, boot>>
  PROVE  PInv'
PROOF
  <1> DEFINE b == bytes[job[d].v] \ {"staged"}
  <1>1. /\ b \in SUBSET {"staged", "immutable"}
        /\ bytes' = [bytes EXCEPT ![job[d].v] = b]
        /\ bytes[job[d].v] = {"immutable"} => b = {"immutable"}
    BY AtWork DEF Reject
  <1>2. "GarbageCollectable" \in Statuses \ {"none", "Promoted", "GarbageCollected"}
    BY DEF Statuses
  <1>3. Stop(d) /\ Attempt(job[d].v, "GarbageCollectable")
    BY DEF Reject
  <1> HIDE DEF b
  <1>4. QED
    BY <1>1, <1>2, <1>3, StopStep

(* What a step of a driver finds, whatever it does. *)
LEMMA StatusFacts ==
  /\ {"Validating", "Ready", "Promoting", "ReconcileRequired", "GarbageCollectable"}
       \subseteq Statuses \ {"none", "Promoted", "GarbageCollected"}
  /\ {"validate", "gate", "ready", "output", "promoting", "promote", "regate", "commit",
      "giveup"} \subseteq Pcs \ {"announce", "mark", "uri", "idle"}
  BY DEF Statuses, Pcs

(* Validation, gates and the moves towards promotion. *)
LEMMA ApproachStep ==
  ASSUME PInv, NEW d \in Drivers,
         Validate(d) \/ Gate(d) \/ Ready(d) \/ Promoting(d) \/ GateAgain(d) \/ GiveUp(d)
  PROVE  PInv'
PROOF
  <1>0. /\ "Validating" \in Statuses \ {"none", "Promoted", "GarbageCollected"}
        /\ "Ready" \in Statuses \ {"none", "Promoted", "GarbageCollected"}
        /\ "Promoting" \in Statuses \ {"none", "Promoted", "GarbageCollected"}
        /\ "ReconcileRequired" \in Statuses \ {"none", "Promoted", "GarbageCollected"}
        /\ "GarbageCollectable" \in Statuses \ {"none", "Promoted", "GarbageCollected"}
    BY StatusFacts
  <1>1. CASE Validate(d)
    <2>1. job[d].pc = "validate" /\ UNCHANGED <<commits, run, output, outbox, events, boot>>
      BY <1>1 DEF Validate, At
    <2>2. CASE Reject(d)
      BY <2>1, <2>2, RejectStep
    <2>3. CASE /\ Allowed(job[d].v, "Validating")
               /\ pub' = Moved(job[d].v, "Validating")
               /\ Goto(d, IF d = Workflow THEN "ready" ELSE "gate")
               /\ UNCHANGED bytes
      <3>1. PICK pc \in Pcs \ {"announce", "mark", "uri", "idle"} : Goto(d, pc)
        BY <2>3, StatusFacts
      <3>2. QED
        BY <1>0, <2>1, <2>3, <3>1, GoStep
    <2>4. QED
      BY <1>1, <2>2, <2>3 DEF Validate
  <1>2. CASE Gate(d)
    <2>1. job[d].pc = "gate" /\ UNCHANGED <<commits, run, output, outbox, events, boot>>
      BY <1>2 DEF Gate, At
    <2>2. CASE Reject(d)
      BY <2>1, <2>2, RejectStep
    <2>3. CASE /\ Goto(d, IF pub[job[d].v].how = "publish" THEN "ready" ELSE "promoting")
               /\ UNCHANGED <<pub, bytes>>
      <3>1. PICK pc \in Pcs \ {"announce", "mark", "uri", "idle"} : Goto(d, pc)
        BY <2>3, StatusFacts
      <3>2. QED
        BY <1>0, <2>1, <2>3, <3>1, GoStep
    <2>4. QED
      BY <1>2, <2>2, <2>3 DEF Gate
  <1>3. CASE Ready(d)
    <2>1. job[d].pc = "ready" /\ UNCHANGED <<bytes, commits, run, output, outbox, events, boot>>
          /\ pub' = Moved(job[d].v, "Ready") /\ Allowed(job[d].v, "Ready")
      BY <1>3 DEF Ready, At
    <2>2. PICK pc \in Pcs \ {"announce", "mark", "uri", "idle"} : Goto(d, pc)
      BY <1>3, StatusFacts DEF Ready
    <2>3. QED
      BY <1>0, <2>1, <2>2, GoStep
  <1>4. CASE Promoting(d)
    <2>1. job[d].pc = "promoting" /\ UNCHANGED <<bytes, commits, run, output, outbox, events, boot>>
          /\ pub' = Moved(job[d].v, "Promoting") /\ Allowed(job[d].v, "Promoting")
      BY <1>4 DEF Promoting, At
    <2>2. PICK pc \in Pcs \ {"announce", "mark", "uri", "idle"} : Goto(d, pc)
      BY <1>4, StatusFacts DEF Promoting
    <2>3. QED
      BY <1>0, <2>1, <2>2, GoStep
  <1>5. CASE GateAgain(d)
    <2>1. job[d].pc = "regate" /\ UNCHANGED <<bytes, commits, run, output, outbox, events, boot>>
      BY <1>5 DEF GateAgain, At
    <2>2. CASE Goto(d, "commit") /\ UNCHANGED pub
      <3>1. "commit" \in Pcs \ {"announce", "mark", "uri", "idle"}
        BY StatusFacts
      <3>2. QED
        BY <1>0, <2>1, <2>2, <3>1, GoStep
    <2>3. CASE Attempt(job[d].v, "ReconcileRequired") /\ Stop(d)
      <3>1. bytes[job[d].v] \in SUBSET {"staged", "immutable"}
            /\ bytes' = [bytes EXCEPT ![job[d].v] = bytes[job[d].v]]
        BY <2>1, AtWork
      <3>2. QED
        BY <1>0, <2>1, <2>3, <3>1, StopStep
    <2>4. QED
      BY <1>5, <2>2, <2>3 DEF GateAgain
  <1>6. CASE GiveUp(d)
    <2>1. job[d].pc = "giveup" /\ UNCHANGED <<bytes, commits, run, output, outbox, events, boot>>
          /\ Stop(d)
      BY <1>6 DEF GiveUp, At
    <2>2. bytes[job[d].v] \in SUBSET {"staged", "immutable"}
          /\ bytes' = [bytes EXCEPT ![job[d].v] = bytes[job[d].v]]
      BY <2>1, AtWork
    <2>3. \/ pub' = pub \/ Attempt(job[d].v, "GarbageCollectable")
          \/ Attempt(job[d].v, "ReconcileRequired")
      BY <1>6 DEF GiveUp
    <2>4. CASE pub' = pub \/ Attempt(job[d].v, "GarbageCollectable")
      BY <1>0, <2>1, <2>2, <2>4, StopStep
    <2>5. CASE Attempt(job[d].v, "ReconcileRequired")
      BY <1>0, <2>1, <2>2, <2>5, StopStep
    <2>6. QED
      BY <2>3, <2>4, <2>5
  <1>7. QED
    BY <1>1, <1>2, <1>3, <1>4, <1>5, <1>6

(* FileArtifactPublisher::promote puts the files in place or says it did not. *)
LEMMA PromoteStep ==
  ASSUME PInv, NEW d \in Drivers, Promote(d)
  PROVE  PInv'
PROOF
  <1>1. Types
    BY DEF PInv
  <1>2. job[d].pc = "promote" /\ boot = "up" /\ UNCHANGED <<commits, run, output, outbox, events, boot>>
    BY DEF Promote, At
  <1>3. PICK v \in Versions : v = job[d].v
    BY <1>2, AtWork
  <1>4. "ReconcileRequired" \in Statuses \ {"none", "Promoted", "GarbageCollected"}
    BY StatusFacts
  <1>5. CASE bytes' = [bytes EXCEPT ![v] = {"immutable"}] /\ Goto(d, "uri") /\ UNCHANGED pub
    <2> DEFINE j == [job[d] EXCEPT !.pc = "uri"]
    <2>1. "uri" \in Pcs
      BY DEF Pcs
    <2>2. j \in Jobs /\ j.pc = "uri" /\ j.v = v /\ job' = [job EXCEPT ![d] = j]
      BY <1>1, <1>3, <1>5, <2>1, JobFacts
    <2>3. ~(d \in Runs /\ run[d] = "Completed")
      BY <1>2, AtWork
    <2> HIDE DEF j
    <2>4. {"immutable"} \in SUBSET {"staged", "immutable"}
      OBVIOUS
    <2>5. j.pc # "idle" => j.v = v /\ j.pc \notin {"announce", "mark"}
      BY <2>2
    <2>6. QED
      BY <1>2, <1>3, <1>4, <1>5, <2>2, <2>3, <2>4, <2>5, DriverStep
  <1>6. CASE /\ bytes' \in {bytes, [bytes EXCEPT ![v] = IF bytes[v] # {} THEN {"immutable"} ELSE {}]}
             /\ IF d = Workflow THEN UNCHANGED pub ELSE Attempt(v, "ReconcileRequired")
             /\ Stop(d)
    <2>1. PICK b \in SUBSET {"staged", "immutable"} :
            /\ bytes' = [bytes EXCEPT ![v] = b]
            /\ bytes[v] = {"immutable"} => b = {"immutable"}
      <3>1. bytes[v] \in SUBSET {"staged", "immutable"} /\ bytes = [bytes EXCEPT ![v] = bytes[v]]
        BY <1>2, <1>3, AtWork
      <3>2. CASE bytes' = bytes
        BY <3>1, <3>2
      <3>3. CASE bytes' = [bytes EXCEPT ![v] = IF bytes[v] # {} THEN {"immutable"} ELSE {}]
        <4>1. CASE bytes[v] # {}
          BY <3>3, <4>1
        <4>2. CASE bytes[v] = {}
          BY <3>3, <4>2
        <4>3. QED
          BY <4>1, <4>2
      <3>4. QED
        BY <1>6, <3>2, <3>3
    <2>2. pub' = pub \/ Attempt(v, "ReconcileRequired")
      BY <1>6
    <2>3. QED
      BY <1>2, <1>3, <1>4, <1>6, <2>1, <2>2, StopStep
  <1>7. QED
    BY <1>3, <1>5, <1>6 DEF Promote

(* The URI is recorded by a driver that has just put the files in place. *)
LEMMA UriStep ==
  ASSUME PInv, NEW d \in Drivers, RecordUri(d)
  PROVE  PInv'
PROOF
  <1>1. Types
    BY DEF PInv
  <1>2. job[d].pc = "uri" /\ boot = "up"
        /\ UNCHANGED <<commits, bytes, run, output, outbox, events, boot>>
    BY DEF RecordUri, At
  <1>3. PICK v \in Versions : v = job[d].v
    BY <1>2, AtWork
  <1>4. bytes[v] = {"immutable"} /\ VersionInv(v)
    BY <1>2, <1>3 DEF PInv, JobInv
  <1>5. Allowed(v, "Promoting") /\ pub' = [Moved(v, "Promoting") EXCEPT ![v].uri = TRUE]
    BY <1>3 DEF RecordUri
  <1>6. "Promoting" \in Statuses \ {"none"} /\ "Promoting" \in Placed
    BY DEF Statuses, Placed
  <1> DEFINE m == Moved(v, "Promoting")
             P == [st : Statuses, expected : Versions \cup {None},
                   uri : BOOLEAN, by : Runs \cup {None},
                   how : {"none", "report", "publish", "workflow"}]
  <1>7. /\ m \in [Versions -> P]
        /\ \A x \in Versions : x # v => m[x] = pub[x]
        /\ m[v].st = "Promoting"
        /\ m[v].expected = pub[v].expected
        /\ m[v].by = pub[v].by
        /\ m[v].how = pub[v].how
        /\ pub[v].st # "Promoted"
    BY <1>1, <1>5, <1>6, MoveFacts
  <1>8. pub' = [m EXCEPT ![v].uri = TRUE]
    BY <1>5
  <1> HIDE DEF m
  <1>9. /\ pub' \in [Versions -> P]
        /\ \A x \in Versions : x # v => pub'[x] = pub[x]
        /\ pub'[v].st = "Promoting" /\ pub'[v].uri
        /\ pub'[v].expected = pub[v].expected
        /\ pub'[v].by = pub[v].by
        /\ pub'[v].how = pub[v].how
    <2>1. m[v] \in P
      BY <1>7
    <2>2. /\ [m[v] EXCEPT !.uri = TRUE] \in P
          /\ [m[v] EXCEPT !.uri = TRUE].st = m[v].st
          /\ [m[v] EXCEPT !.uri = TRUE].uri
          /\ [m[v] EXCEPT !.uri = TRUE].expected = m[v].expected
          /\ [m[v] EXCEPT !.uri = TRUE].by = m[v].by
          /\ [m[v] EXCEPT !.uri = TRUE].how = m[v].how
      BY <2>1
    <2>3. pub' = [m EXCEPT ![v] = [m[v] EXCEPT !.uri = TRUE]]
      BY <1>7, <1>8
    <2>4. pub'[v] = [m[v] EXCEPT !.uri = TRUE] /\ \A x \in Versions : x # v => pub'[x] = m[x]
      BY <1>7, <2>3
    <2>5. pub' \in [Versions -> P]
      BY <1>7, <2>2, <2>3
    <2>6. QED
      BY <1>7, <2>2, <2>4, <2>5
  <1>10. PICK pc \in {"regate", "commit"} : Goto(d, pc)
    BY DEF RecordUri
  <1> DEFINE j == [job[d] EXCEPT !.pc = pc]
  <1>11. j \in Jobs /\ j.pc = pc /\ j.v = v /\ job' = [job EXCEPT ![d] = j]
    <2>1. pc \in Pcs
      BY DEF Pcs
    <2>2. QED
      BY <1>1, <1>3, <1>10, <2>1, JobFacts
  <1>12. ~(d \in Runs /\ run[d] = "Completed")
    BY <1>2, AtWork
  <1>13. bytes[v] \in SUBSET {"staged", "immutable"} /\ bytes' = [bytes EXCEPT ![v] = bytes[v]]
    BY <1>2, <1>3, AtWork
  <1>14. v \notin Promoted
    BY <1>4, <1>7 DEF VersionInv
  <1> HIDE DEF j
  <1>15. /\ j.pc # "idle" => j.v = v /\ j.pc \notin {"announce", "mark"}
         /\ j.pc # "uri" /\ pub'[v].st # "none" /\ pub'[v].st \in Placed
         /\ job[d].pc # "idle"
    BY <1>2, <1>6, <1>9, <1>11
  <1>16. commits' = commits /\ run' = run /\ output' = output /\ outbox' = outbox
         /\ events' = events /\ boot' = boot /\ boot = "up"
    BY <1>2
  <1>17. QED
    BY <1>3, <1>4, <1>9, <1>11, <1>12, <1>13, <1>14, <1>15, <1>16, RecordStep DEF P

(* The commit, whether it is answered, refused or reported as failed. *)
LEMMA CommitActionStep ==
  ASSUME PInv, NEW d \in Drivers, Commit(d)
  PROVE  PInv'
PROOF
  <1>1. Types
    BY DEF PInv
  <1>2. job[d].pc = "commit" /\ boot = "up" /\ UNCHANGED <<bytes, events, boot>>
    BY DEF Commit, At
  <1>3. PICK v \in Versions : v = job[d].v
    BY <1>2, AtWork
  <1>4. /\ "giveup" \in Pcs \ {"announce", "mark", "uri", "idle"} /\ "announce" \in Pcs
        /\ "Promoting" \in Statuses \ {"none", "Promoted", "GarbageCollected"}
    BY StatusFacts DEF Pcs
  <1>5. CASE Goto(d, "giveup") /\ UNCHANGED <<pub, commits, run, output, outbox>>
    BY <1>2, <1>4, <1>5, GoStep
  <1>6. ASSUME Committable(v, Expected(d), Completes(d)), PromotionCommit(v, Completes(d)),
               NEW j \in Jobs, job' = [job EXCEPT ![d] = j],
               j.pc \in {"idle", "giveup", "announce"},
               j.pc # "idle" => j.v = v,
               j.pc = "announce" => j.send = IF Completes(d) THEN <<v, d>> ELSE <<v>>
        PROVE  PInv'
    <2>1. PICK completes \in BOOLEAN : completes = Completes(d)
      BY DEF Completes
    <2>2. /\ ~Superseded(v, Expected(d)) /\ v \notin Promoted
          /\ pub[v].st \in {"Promoting", "ReconcileRequired"} /\ pub[v].uri
      BY <1>6 DEF Committable
    <2>3. pub[v].how # "workflow" => d # Workflow /\ Expected(d) = pub[v].expected
      BY <1>2, <1>3 DEF PInv, JobInv, Expected
    <2>4. completes => d = pub[v].by
      BY <1>2, <1>3, <2>1, PromotionAssumption DEF PInv, JobInv, Completes
    <2>5. PromotionCommit(v, completes)
          /\ (j.pc = "announce" => j.send = IF completes THEN <<v, d>> ELSE <<v>>)
      BY <1>6, <2>1
    <2>6. j.pc # "idle" => /\ job[d].pc # "idle" /\ j.v = v /\ job[d].v = v
                           /\ j.pc \in {"giveup", "announce"}
      BY <1>2, <1>3, <1>6
    <2>7. PICK expected : expected = Expected(d)
      OBVIOUS
    <2>8. ~Superseded(v, expected) /\ (pub[v].how # "workflow" => expected = pub[v].expected)
      BY <2>2, <2>3, <2>7
    <2>9. bytes' = bytes /\ events' = events /\ boot' = boot
      BY <1>2
    <2>10. QED
      BY <1>6, <2>2, <2>4, <2>5, <2>6, <2>8, <2>9, CommitStep
  <1>7. CASE /\ Committable(v, Expected(d), Completes(d)) /\ PromotionCommit(v, Completes(d))
             /\ job' = [job EXCEPT ![d] =
                 IF d = Workflow THEN Idle
                 ELSE [@ EXCEPT !.pc = "announce",
                         !.send = IF Completes(d) THEN <<v, d>> ELSE <<v>>]]
    <2> DEFINE send == IF Completes(d) THEN <<v, d>> ELSE <<v>>
               j == [job[d] EXCEPT !.pc = "announce", !.send = send]
    <2>1. send \in Seq(OutboxIds)
      <3>1. v \in OutboxIds /\ (Completes(d) => d \in OutboxIds)
        BY DEF OutboxIds, Completes
      <3>2. CASE Completes(d)
        BY <3>1, <3>2
      <3>3. CASE ~Completes(d)
        BY <3>1, <3>3
      <3>4. QED
        BY <3>2, <3>3
    <2>2. CASE d = Workflow
      <3>1. Idle \in Jobs /\ Idle.pc = "idle" /\ job' = [job EXCEPT ![d] = Idle]
        BY <1>1, <1>7, <2>2, JobFacts
      <3>2. QED
        BY <1>6, <1>7, <3>1
    <2>3. CASE d # Workflow
      <3>1. job \in [Drivers -> Jobs] /\ job[d] \in Jobs
        BY <1>1 DEF Types
      <3>2. job' = [job EXCEPT ![d] = j]
        BY <1>7, <2>3, <3>1
      <3> HIDE DEF send
      <3>3. j \in Jobs /\ j.pc = "announce" /\ j.v = v /\ j.send = send
        BY <1>3, <1>4, <2>1, <3>1 DEF Jobs
      <3> HIDE DEF j
      <3>4. QED
        BY <1>6, <1>7, <3>2, <3>3 DEF send
    <2>4. QED
      BY <2>2, <2>3
  <1>8. CASE /\ Committable(v, Expected(d), Completes(d)) /\ PromotionCommit(v, Completes(d))
             /\ Goto(d, "giveup")
    <2> DEFINE j == [job[d] EXCEPT !.pc = "giveup"]
    <2>1. j \in Jobs /\ j.pc = "giveup" /\ j.v = v /\ job' = [job EXCEPT ![d] = j]
      BY <1>1, <1>3, <1>4, <1>8, JobFacts
    <2> HIDE DEF j
    <2>2. QED
      BY <1>6, <1>8, <2>1
  <1>9. LET ok == Committable(job[d].v, Expected(d), Completes(d)) IN
        \/ /\ ok /\ PromotionCommit(job[d].v, Completes(d))
           /\ job' = [job EXCEPT ![d] =
                 IF d = Workflow THEN Idle
                 ELSE [@ EXCEPT !.pc = "announce",
                         !.send = IF Completes(d) THEN <<job[d].v, d>> ELSE <<job[d].v>>]]
        \/ Goto(d, "giveup") /\ UNCHANGED <<pub, commits, run, output, outbox>>
        \/ ok /\ Goto(d, "giveup") /\ PromotionCommit(job[d].v, Completes(d))
    BY DEF Commit
  <1>10. QED
    BY <1>3, <1>5, <1>7, <1>8, <1>9

(* A driver's call is cut off. *)
LEMMA CutOffStep ==
  ASSUME PInv, NEW d \in Drivers, CutOff(d)
  PROVE  PInv'
PROOF
  <1>1. job[d].pc # "idle" /\ Stop(d) /\ UNCHANGED <<pub, bytes, commits, run, output, outbox, events, boot>>
    BY DEF CutOff
  <1>2. bytes[job[d].v] \in SUBSET {"staged", "immutable"}
        /\ bytes' = [bytes EXCEPT ![job[d].v] = bytes[job[d].v]]
    BY <1>1, AtWork
  <1>3. "Promoting" \in Statuses \ {"none", "Promoted", "GarbageCollected"}
    BY StatusFacts
  <1>4. QED
    BY <1>1, <1>2, <1>3, StopStep

-----------------------------------------------------------------------------
(* The steps that leave the records and the files. *)

(* Jobs begin, announce and end; runs are cancelled, the process starts:   *)
(* what a step that leaves records, files and the log has to respect.      *)
LEMMA OuterStep ==
  ASSUME PInv, Types',
         pub' = pub, bytes' = bytes, commits' = commits,
         \A r \in Runs : run[r] = "Completed" => run'[r] = "Completed",
         \A d \in Drivers : JobInv(d)', \A r \in Runs : RunInv(r)',
         \A o \in OutboxIds : /\ events'[o] <= 1
                              /\ outbox'[o] # "none" \/ events'[o] > 0 =>
                                   outbox[o] # "none" \/ events[o] > 0 \/ Earned(o)'
  PROVE  PInv'
PROOF
  <1> USE DEF PInv
  <1>1. Promoted' = Promoted
    BY DEF Promoted
  <1>2. \A v \in Versions : VersionInv(v)'
    BY <1>1 DEF VersionInv
  <1>3. ASSUME NEW o \in OutboxIds, Earned(o) PROVE Earned(o)'
    BY <1>1, <1>3 DEF Earned
  <1>4. ASSUME NEW o \in OutboxIds PROVE EventInv(o)'
    BY <1>3 DEF EventInv
  <1>5. ReplacesWhatItSaw'
    BY DEF ReplacesWhatItSaw
  <1>6. QED
    BY <1>2, <1>4, <1>5

(* A job that does not step, or ends, keeps its invariant. *)
LEMMA JobKept ==
  ASSUME PInv, NEW e \in Drivers, pub' = pub, bytes' = bytes, commits' = commits,
         boot' = boot \/ job'[e].pc = "idle",
         \A r \in Runs : run[r] = "Completed" => run'[r] = "Completed",
         job'[e] = job[e] \/ job'[e].pc = "idle"
  PROVE  JobInv(e)'
PROOF
  <1> USE DEF PInv
  <1>1. Promoted' = Promoted
    BY DEF Promoted
  <1>2. CASE job'[e].pc = "idle"
    BY <1>2 DEF JobInv
  <1>3. CASE job'[e] = job[e] /\ boot' = boot /\ job[e].pc # "idle"
    <2>1. job[e].pc \in {"announce", "mark"} =>
            \A i \in DOMAIN job[e].send : /\ job[e].send[i] \in Versions => job[e].send[i] \in Promoted
                                          /\ job[e].send[i] \in Runs => run'[job[e].send[i]] = "Completed"
      BY <1>3 DEF JobInv, Earned
    <2>2. QED
      BY <1>1, <1>3, <2>1 DEF JobInv, Earned
  <1>4. QED
    BY <1>2, <1>3

(* set_run_output_version *)
LEMMA SetOutputStep ==
  ASSUME PInv, NEW r \in Runs, SetOutput(r)
  PROVE  PInv'
PROOF
  <1>0. Types /\ r \in Drivers
    BY DEF PInv, Drivers
  <1>1. /\ job[r].pc = "output" /\ UNCHANGED <<pub, commits, bytes, run, outbox, events, boot>>
        /\ output' = [output EXCEPT ![r] = job[r].v]
        /\ job' = [job EXCEPT ![r] = Idle]
    BY DEF SetOutput, At, Stop
  <1>2. job[r].v \in Versions /\ Idle \in Jobs /\ Idle.pc = "idle" /\ run[r] # "Completed"
    BY <1>0, <1>1, AtWork, JobFacts
  <1>3. Promoted' = Promoted
    BY <1>1 DEF Promoted
  <1>4. /\ output' \in [Runs -> Versions \cup {None}] /\ output'[r] = job[r].v
        /\ \A q \in Runs : q # r => output'[q] = output[q]
        /\ job' \in [Drivers -> Jobs] /\ job'[r] = Idle
        /\ \A e \in Drivers : e # r => job'[e] = job[e]
    BY <1>0, <1>1, <1>2 DEF Types, TypeOK
  <1>5. Types'
    BY <1>0, <1>1, <1>4 DEF Types, TypeOK
  <1>6. \A e \in Drivers : JobInv(e)'
    BY <1>1, <1>2, <1>4, JobKept
  <1>7. ASSUME NEW q \in Runs PROVE RunInv(q)'
    <2>1. CASE q = r
      <3>1. pub[job[r].v].by = r /\ pub[job[r].v].st # "none" /\ pub[job[r].v].how # "workflow"
        BY <1>0, <1>1, PromotionAssumption DEF PInv, JobInv
      <3>2. QED
        BY <1>1, <1>2, <1>4, <2>1, <3>1 DEF RunInv
    <2>2. CASE q # r
      <3>1. q \in Drivers /\ RunInv(q)
        BY DEF PInv, Drivers
      <3>2. QED
        BY <1>1, <1>3, <1>4, <2>2, <3>1 DEF RunInv
    <2>3. QED
      BY <2>1, <2>2
  <1>8. \A o \in OutboxIds : events'[o] <= 1
    BY <1>1 DEF PInv, EventInv
  <1>9. QED
    BY <1>1, <1>5, <1>6, <1>7, <1>8, OuterStep

(* A run that is not completed, or keeps its output and its job, is sound. *)
LEMMA RunKept ==
  ASSUME PInv, NEW r \in Runs, pub' = pub, commits' = commits, output' = output,
         run'[r] = "Completed" => /\ run[r] = "Completed" \/ output[r] \in Promoted
                                  /\ job'[r].pc \in {"idle", "giveup", "announce", "mark"}
  PROVE  RunInv(r)'
PROOF
  <1>1. Promoted' = Promoted
    BY DEF Promoted
  <1>2. RunInv(r)
    BY DEF PInv
  <1>3. QED
    BY <1>1, <1>2 DEF RunInv

(* What is left to send once the first event is sent. *)
LEMMA TailFacts ==
  ASSUME NEW S, NEW s \in Seq(S), Len(s) > 0, Len(s) # 1
  PROVE  /\ Tail(s) \in Seq(S) /\ Len(Tail(s)) > 0
         /\ \A i \in DOMAIN Tail(s) : i + 1 \in DOMAIN s /\ Tail(s)[i] = s[i + 1]
PROOF
  <1>1. Len(s) \in Nat
    OBVIOUS
  <1>2. Len(s) > 1
    <2>1. \A n \in Nat : n > 0 /\ n # 1 => n > 1
      OBVIOUS
    <2>2. QED
      BY <1>1, <2>1
  <1>3. Tail(s) \in Seq(S) /\ Len(Tail(s)) = Len(s) - 1
    BY <1>2
  <1>4. DOMAIN s = 1..Len(s) /\ DOMAIN Tail(s) = 1..(Len(s) - 1)
    BY <1>2, <1>3
  <1>5. \A i \in 1..(Len(s) - 1) : Tail(s)[i] = s[i + 1]
    BY <1>2
  <1>6. \A i \in 1..(Len(s) - 1) : i + 1 \in 1..Len(s)
    BY <1>1
  <1>7. QED
    BY <1>1, <1>2, <1>3, <1>4, <1>5, <1>6

(* dispatch_outbox_event of a driver: the append, then the mark. *)
LEMMA AnnounceStep ==
  ASSUME PInv, NEW r \in Runs, Announce(r) \/ MarkDelivered(r)
  PROVE  PInv'
PROOF
  <1>0. Types /\ r \in Drivers /\ job[r] \in Jobs
    BY DEF PInv, Drivers, Types
  <1>1. /\ job[r].pc \in {"announce", "mark"} /\ boot = "up"
        /\ UNCHANGED <<pub, commits, bytes, run, output, boot>>
    BY DEF Announce, MarkDelivered, At
  <1>2. PICK s \in Seq(OutboxIds) : s = job[r].send
    BY <1>0 DEF Jobs
  <1>3. Len(s) > 0 /\ \A i \in DOMAIN s : Earned(s[i])
    BY <1>0, <1>1, <1>2 DEF PInv, JobInv
  <1>4. PICK o \in OutboxIds : o = Head(s) /\ Earned(o)
    BY <1>2, <1>3
  <1>5. Promoted' = Promoted
    BY <1>1 DEF Promoted
  <1>6. \A x : Earned(x)' <=> Earned(x)
    BY <1>1, <1>5 DEF Earned
  <1>7. PICK j \in Jobs : /\ job' = [job EXCEPT ![r] = j]
                          /\ j.pc \in {"idle", "announce", "mark"}
                          /\ j.pc # "idle" => j.v = job[r].v /\ Len(j.send) > 0
                                                /\ \A i \in DOMAIN j.send : Earned(j.send[i])
    <2>1. CASE Announce(r)
      <3> DEFINE j == [job[r] EXCEPT !.pc = "mark"]
      <3>1. "mark" \in Pcs
        BY DEF Pcs
      <3>2. j \in Jobs /\ j.pc = "mark" /\ j.v = job[r].v /\ job' = [job EXCEPT ![r] = j]
        BY <1>0, <2>1, <3>1, JobFacts DEF Announce
      <3>3. j.send = s
        BY <1>0, <1>2 DEF Jobs
      <3> HIDE DEF j
      <3>4. QED
        BY <1>3, <3>2, <3>3
    <2>2. CASE MarkDelivered(r) /\ Len(s) = 1
      <3>1. Idle \in Jobs /\ Idle.pc = "idle"
        BY <1>0, JobFacts
      <3>2. job' = [job EXCEPT ![r] = Idle]
        BY <1>0, <1>2, <2>2 DEF MarkDelivered, Types
      <3>3. QED
        BY <3>1, <3>2
    <2>3. CASE MarkDelivered(r) /\ Len(s) # 1
      <3> DEFINE j == [job[r] EXCEPT !.pc = "announce", !.send = Tail(s)]
      <3>1. Tail(s) \in Seq(OutboxIds) /\ Len(Tail(s)) > 0
            /\ \A i \in DOMAIN Tail(s) : i + 1 \in DOMAIN s /\ Tail(s)[i] = s[i + 1]
        BY <1>3, <2>3, TailFacts
      <3>2. "announce" \in Pcs
        BY DEF Pcs
      <3>3. job' = [job EXCEPT ![r] = j]
        <4>1. job \in [Drivers -> Jobs]
          BY <1>0 DEF Types
        <4>2. job' = [job EXCEPT ![r] =
                        IF Len(job[r].send) = 1 THEN Idle
                        ELSE [job[r] EXCEPT !.pc = "announce", !.send = Tail(job[r].send)]]
          BY <2>3 DEF MarkDelivered
        <4>3. (IF Len(job[r].send) = 1 THEN Idle
               ELSE [job[r] EXCEPT !.pc = "announce", !.send = Tail(job[r].send)]) = j
          BY <1>2, <2>3
        <4> HIDE DEF j
        <4>4. QED
          BY <4>2, <4>3
      <3>4. j \in Jobs /\ j.pc = "announce" /\ j.v = job[r].v /\ j.send = Tail(s)
        BY <1>0, <3>1, <3>2 DEF Jobs
      <3> HIDE DEF j
      <3>5. QED
        BY <1>3, <3>1, <3>3, <3>4
    <2>4. QED
      BY <2>1, <2>2, <2>3
  <1>8. /\ job' \in [Drivers -> Jobs] /\ job'[r] = j
        /\ \A e \in Drivers : e # r => job'[e] = job[e]
    BY <1>0, <1>7 DEF Types
  <1>9. /\ events' \in [OutboxIds -> Nat]
        /\ \A x \in OutboxIds : x # o => events'[x] = events[x]
        /\ events'[o] <= 1
        /\ outbox' \in [OutboxIds -> {"none", "Pending", "Delivered"}]
        /\ \A x \in OutboxIds : x # o => outbox'[x] = outbox[x]
    <2>1. events \in [OutboxIds -> Nat] /\ events[o] <= 1
          /\ outbox \in [OutboxIds -> {"none", "Pending", "Delivered"}]
      BY DEF PInv, Types, TypeOK, EventInv
    <2>2. CASE Announce(r)
      <3>1. events' = events \/ (events[o] = 0 /\ events' = [events EXCEPT ![o] = events[o] + 1])
        BY <1>2, <1>4, <2>1, <2>2 DEF Announce, Appended
      <3>2. QED
        BY <2>1, <2>2, <3>1 DEF Announce
    <2>3. CASE MarkDelivered(r)
      BY <1>2, <1>4, <2>1, <2>3 DEF MarkDelivered
    <2>4. QED
      BY <2>2, <2>3
  <1>10. Types'
    BY <1>0, <1>1, <1>8, <1>9 DEF Types, TypeOK
  <1>11. ASSUME NEW e \in Drivers PROVE JobInv(e)'
    <2>1. CASE e # r
      BY <1>1, <1>8, <2>1, JobKept
    <2>2. CASE e = r
      <3>1. j.pc # "idle" => \A i \in DOMAIN j.send : Earned(j.send[i])'
        BY <1>6, <1>7
      <3>2. JobInv(r) /\ job[r].pc # "idle"
        BY <1>0, <1>1 DEF PInv
      <3>3. QED
        BY <1>1, <1>7, <1>8, <2>2, <3>1, <3>2 DEF JobInv
    <2>3. QED
      BY <2>1, <2>2
  <1>12. ASSUME NEW q \in Runs PROVE RunInv(q)'
    <2>1. q \in Drivers /\ RunInv(q)
      BY DEF PInv, Drivers
    <2>2. run[q] = "Completed" => job'[q].pc \in {"idle", "giveup", "announce", "mark"}
      BY <1>7, <1>8, <2>1 DEF RunInv
    <2>3. QED
      BY <1>1, <2>2, RunKept
  <1>13. ASSUME NEW x \in OutboxIds
         PROVE  /\ events'[x] <= 1
                /\ outbox'[x] # "none" \/ events'[x] > 0 =>
                     outbox[x] # "none" \/ events[x] > 0 \/ Earned(x)'
    BY <1>4, <1>6, <1>9 DEF PInv, EventInv
  <1>14. QED
    BY <1>1, <1>10, <1>11, <1>12, <1>13, OuterStep

(* run.complete begins the promotion of a candidate, or ends a run whose   *)
(* output is promoted; a run is cancelled.                                 *)
LEMMA RunStatusStep ==
  ASSUME PInv, NEW r \in Runs, Complete(r) \/ Cancel(r)
  PROVE  PInv'
PROOF
  <1>0. Types /\ r \in Drivers /\ RunInv(r)
    BY DEF PInv, Drivers
  <1>1. /\ run[r] = "Running" /\ boot = "up"
        /\ UNCHANGED <<pub, commits, bytes, output, outbox, events, boot>>
    BY DEF Complete, Cancel, At
  <1>2. \A o \in OutboxIds : events'[o] <= 1
    BY <1>1 DEF PInv, EventInv
  <1>3. ASSUME NEW st \in {"Completed", "Cancelled"}, run' = [run EXCEPT ![r] = st], job' = job,
               st = "Completed" => output[r] \in Promoted /\ job[r].pc = "idle"
        PROVE  PInv'
    <2>1. /\ run' \in [Runs -> {"Running", "Completed", "Cancelled"}] /\ run'[r] = st
          /\ \A q \in Runs : q # r => run'[q] = run[q]
      BY <1>0, <1>3 DEF Types, TypeOK
    <2>2. Types'
      BY <1>0, <1>1, <1>3, <2>1 DEF Types, TypeOK
    <2>3. \A q \in Runs : run[q] = "Completed" => run'[q] = "Completed"
      BY <1>1, <2>1
    <2>4. \A e \in Drivers : JobInv(e)'
      BY <1>1, <1>3, <2>3, JobKept
    <2>5. ASSUME NEW q \in Runs PROVE RunInv(q)'
      <3>1. RunInv(q)
        BY DEF PInv
      <3>2. run'[q] = "Completed" =>
              /\ run[q] = "Completed" \/ output[q] \in Promoted
              /\ job'[q].pc \in {"idle", "giveup", "announce", "mark"}
        BY <1>3, <2>1, <3>1 DEF RunInv
      <3>3. QED
        BY <1>1, <3>2, RunKept
    <2>6. QED
      BY <1>1, <1>2, <2>2, <2>3, <2>4, <2>5, OuterStep
  <1>4. CASE Cancel(r)
    BY <1>3, <1>4 DEF Cancel
  <1>5. CASE Complete(r) /\ run' = [run EXCEPT ![r] = "Completed"]
    <2>1. job[r].pc = "idle" /\ output[r] \in Promoted /\ job' = job
      <3>1. run' # run
        BY <1>0, <1>1, <1>5 DEF Types, TypeOK
      <3>2. QED
        BY <1>5, <3>1 DEF Complete, At
    <2>2. QED
      BY <1>3, <1>5, <2>1
  <1>6. CASE Complete(r) /\ run' = run
    <2>1. PICK v \in Versions, pc \in {"promote", "promoting"} :
            /\ v = output[r] /\ v \notin Promoted
            /\ job' = [job EXCEPT ![r] = [Idle EXCEPT !.v = v, !.pc = pc]]
      <3>1. output[r] \in Versions \cup {None} /\ output[r] # None
        BY <1>0, <1>6 DEF Types, TypeOK, Complete
      <3>2. run' # [run EXCEPT ![r] = "Completed"]
        BY <1>0, <1>1, <1>6 DEF Types, TypeOK
      <3>3. /\ output[r] \notin Promoted
            /\ job' = [job EXCEPT ![r] = [Idle EXCEPT !.v = output[r],
                        !.pc = IF pub[output[r]].st = "Promoting" THEN "promote" ELSE "promoting"]]
        BY <1>6, <3>2 DEF Complete
      <3>4. QED
        BY <3>1, <3>3
    <2> DEFINE j == [Idle EXCEPT !.v = v, !.pc = pc]
    <2>2. j \in Jobs /\ j.pc = pc /\ j.v = v
      <3>1. Idle \in Jobs /\ pc \in Pcs
        BY <1>0, JobFacts DEF Pcs
      <3>2. QED
        BY <3>1 DEF Jobs
    <2>3. job' = [job EXCEPT ![r] = j]
      BY <2>1
    <2> HIDE DEF j
    <2>4. /\ job' \in [Drivers -> Jobs] /\ job'[r] = j
          /\ \A e \in Drivers : e # r => job'[e] = job[e]
      BY <1>0, <2>2, <2>3 DEF Types
    <2>5. Types'
      BY <1>0, <1>1, <1>6, <2>4 DEF Types, TypeOK
    <2>6. ASSUME NEW e \in Drivers PROVE JobInv(e)'
      <3>1. CASE e # r
        BY <1>1, <1>6, <2>4, <3>1, JobKept
      <3>2. CASE e = r
        <4>1. pub[v].by = r /\ pub[v].st # "none" /\ pub[v].how # "workflow" /\ r # Workflow
          BY <1>0, <2>1, PromotionAssumption DEF RunInv
        <4>2. QED
          BY <1>1, <2>2, <2>4, <3>2, <4>1 DEF JobInv
      <3>3. QED
        BY <3>1, <3>2
    <2>7. ASSUME NEW q \in Runs PROVE RunInv(q)'
      <3>1. RunInv(q) /\ q \in Drivers
        BY DEF PInv, Drivers
      <3>2. run'[q] = "Completed" =>
              /\ run[q] = "Completed" \/ output[q] \in Promoted
              /\ job'[q].pc \in {"idle", "giveup", "announce", "mark"}
        BY <1>1, <1>6, <2>4, <3>1 DEF RunInv
      <3>3. QED
        BY <1>1, <3>2, RunKept
    <2>8. QED
      BY <1>1, <1>2, <1>6, <2>5, <2>6, <2>7, OuterStep
  <1>7. QED
    BY <1>4, <1>5, <1>6 DEF Complete

(* A record that was not there yet is begun, or the workflow takes its own *)
(* up again.                                                               *)
LEMMA BeginStep ==
  ASSUME PInv, NEW d \in Drivers, NEW v \in Versions, NEW r \in Runs,
         NEW j \in Jobs, j.pc \in Pcs \ {"announce", "mark", "uri"}, j.v = v, NEW rec,
         rec \in [st : Statuses, expected : Versions \cup {None},
                  uri : BOOLEAN, by : Runs \cup {None},
                  how : {"none", "report", "publish", "workflow"}],
         boot = "up", job[d].pc = "idle", d \in Runs => run[d] = "Running",
         pub' = [pub EXCEPT ![v] = rec],
         pub[v].st = "none" => rec.st = "Staging" /\ ~rec.uri,
         pub[v].st # "none" => rec = pub[v],
         rec.by = r, rec.how = "workflow" <=> d = Workflow, d # Workflow => r = d,
         job' = [job EXCEPT ![d] = j],
         UNCHANGED <<commits, bytes, run, output, outbox, events, boot>>
  PROVE  PInv'
PROOF
  <1> USE DEF PInv
  <1> DEFINE P == [st : Statuses, expected : Versions \cup {None},
                   uri : BOOLEAN, by : Runs \cup {None},
                   how : {"none", "report", "publish", "workflow"}]
  <1>1. j \in Jobs /\ j.v = v /\ j.pc \notin {"announce", "mark", "uri"}
    OBVIOUS
  <1>2. Promoted' = Promoted /\ (v \in Promoted => pub[v].st # "none")
    BY DEF Promoted, VersionInv
  <1>3. /\ pub' \in [Versions -> P] /\ pub'[v] = rec
        /\ \A x \in Versions : x # v => pub'[x] = pub[x]
    BY DEF Types, TypeOK
  <1>4. /\ job' \in [Drivers -> Jobs] /\ job'[d] = j
        /\ \A e \in Drivers : e # d => job'[e] = job[e]
    BY <1>1 DEF Types
  <1>5. Types'
    BY <1>3, <1>4 DEF Types, TypeOK
  <1>6. rec.st # "none"
    OBVIOUS
  <1>7. \A x \in Versions : pub[x].st # "none" => pub'[x] = pub[x]
    BY <1>3
  <1>8. ASSUME NEW x \in Versions PROVE VersionInv(x)'
    <2>1. CASE pub[x].st # "none" \/ x # v
      BY <1>2, <1>3, <1>7, <2>1 DEF VersionInv
    <2>2. CASE pub[x].st = "none" /\ x = v
      BY <1>2, <1>3, <2>2 DEF VersionInv
    <2>3. QED
      BY <2>1, <2>2
  <1>9. ASSUME NEW e \in Drivers PROVE JobInv(e)'
    <2>1. CASE e = d
      BY <1>1, <1>3, <1>4, <1>6, <2>1 DEF JobInv
    <2>2. CASE e # d /\ job[e].pc # "idle"
      <3>1. job[e].v \in Versions /\ pub'[job[e].v] = pub[job[e].v]
        BY <1>7, <2>2 DEF JobInv
      <3>2. \A x : Earned(x)' <=> Earned(x)
        BY <1>2 DEF Earned
      <3>3. QED
        BY <1>4, <2>2, <3>1, <3>2 DEF JobInv
    <2>3. CASE e # d /\ job[e].pc = "idle"
      BY <1>4, <2>3 DEF JobInv
    <2>4. QED
      BY <2>1, <2>2, <2>3
  <1>10. ASSUME NEW q \in Runs PROVE RunInv(q)'
    <2>1. q \in Drivers /\ output[q] \in Versions \cup {None}
      BY DEF Drivers, Types, TypeOK
    <2>2. output[q] # None => pub'[output[q]] = pub[output[q]]
      BY <1>7, <2>1 DEF RunInv
    <2>3. run[q] = "Completed" => job'[q].pc \in {"idle", "giveup", "announce", "mark"}
      BY <1>4, <2>1 DEF RunInv
    <2>4. QED
      BY <1>2, <2>2, <2>3 DEF RunInv
  <1>11. ASSUME NEW o \in OutboxIds PROVE EventInv(o)'
    BY <1>2 DEF EventInv, Earned
  <1>12. ReplacesWhatItSaw'
    <2>1. \A i \in DOMAIN commits : commits[i].v \in Versions /\ pub'[commits[i].v] = pub[commits[i].v]
      <3>1. \A i \in DOMAIN commits : commits[i].v \in Versions /\ commits[i].v \in Promoted
        BY PromotedFacts DEF Promoted
      <3>2. QED
        BY <1>7, <3>1 DEF VersionInv
    <2>2. QED
      BY <2>1 DEF ReplacesWhatItSaw
  <1>13. QED
    BY <1>5, <1>8, <1>9, <1>10, <1>11, <1>12

-----------------------------------------------------------------------------
(* The start of the process. *)

(* No driver is at work while the process starts. *)
LEMMA Booting ==
  ASSUME PInv, boot # "up", NEW d \in Drivers
  PROVE  job[d].pc = "idle"
  BY DEF PInv, JobInv

(* reconcile_artifact_promotions and garbage_collect_artifacts. *)
LEMMA ReconcileStep ==
  ASSUME PInv, NEW v \in Versions, Reconcile(v) \/ Collect(v)
  PROVE  PInv'
PROOF
  <1> USE DEF PInv
  <1>1. /\ boot # "up" /\ UNCHANGED <<events, job, boot>>
        /\ \A d \in Drivers : job[d].pc = "idle"
    BY Booting DEF Reconcile, Collect
  <1>2. CASE Reconcile(v) /\ ~Superseded(v, pub[v].expected)
    <2>1. /\ PromotionCommit(v, FALSE) /\ UNCHANGED bytes
          /\ pub[v].st \in {"Promoting", "ReconcileRequired"} /\ pub[v].uri
      BY <1>2 DEF Reconcile, Recoverable
    <2>2. v \notin Promoted
      BY <2>1 DEF VersionInv
    <2>3. PICK j \in Jobs : j = job[Workflow]
      BY DEF Types, Drivers
    <2>4. Workflow \in Drivers /\ job' = [job EXCEPT ![Workflow] = j] /\ j.pc = "idle"
      BY <1>1, <2>3 DEF Types, Drivers
    <2>5. PICK completes \in BOOLEAN : completes = FALSE
      OBVIOUS
    <2>6. PICK expected : expected = pub[v].expected
      OBVIOUS
    <2>7. QED
      BY <1>1, <1>2, <2>1, <2>2, <2>4, <2>5, <2>6, CommitStep
  <1>3. ASSUME NEW to \in {"GarbageCollectable", "GarbageCollected"},
               NEW b \in SUBSET {"staged", "immutable"},
               pub' = Moved(v, to), bytes' = [bytes EXCEPT ![v] = b],
               to # "GarbageCollected" => b = bytes[v] /\ pub[v].st # "GarbageCollected",
               pub[v].st \in {"Promoting", "ReconcileRequired", "GarbageCollectable"},
               UNCHANGED <<commits, run, output, outbox>>
        PROVE  PInv'
    <2>1. Promoted' = Promoted /\ v \notin Promoted
      BY <1>3 DEF Promoted, VersionInv
    <2>2. /\ pub' \in [Versions -> [st : Statuses, expected : Versions \cup {None},
                           uri : BOOLEAN, by : Runs \cup {None},
                           how : {"none", "report", "publish", "workflow"}]]
          /\ \A x \in Versions : /\ x # v => pub'[x] = pub[x]
                                 /\ pub'[x].expected = pub[x].expected
                                 /\ pub'[x].uri = pub[x].uri
                                 /\ pub'[x].by = pub[x].by
                                 /\ pub'[x].how = pub[x].how
          /\ pub'[v].st = to /\ to \in Placed /\ to # "none"
      <3>1. to \in Statuses \ {"none"} /\ to \in Placed
        BY DEF Statuses, Placed
      <3>2. QED
        BY <1>3, <3>1, MoveFacts
    <2>3. /\ bytes' \in [Versions -> SUBSET {"staged", "immutable"}]
          /\ bytes'[v] = b
          /\ \A x \in Versions : x # v => bytes'[x] = bytes[x]
      BY <1>3 DEF Types, TypeOK
    <2>4. Types'
      BY <1>1, <1>3, <2>2, <2>3 DEF Types, TypeOK
    <2>5. ASSUME NEW x \in Versions PROVE VersionInv(x)'
      <3>1. CASE x = v
        BY <1>3, <2>1, <2>2, <2>3, <3>1 DEF VersionInv
      <3>2. CASE x # v
        BY <2>1, <2>2, <2>3, <3>2 DEF VersionInv
      <3>3. QED
        BY <3>1, <3>2
    <2>6. \A e \in Drivers : JobInv(e)'
      BY <1>1 DEF JobInv
    <2>7. ASSUME NEW q \in Runs PROVE RunInv(q)'
      <3>1. q \in Drivers /\ output[q] \in Versions \cup {None}
        BY DEF Drivers, Types, TypeOK
      <3>2. output[q] # None => pub'[output[q]].st # "none"
        BY <2>2, <3>1 DEF RunInv
      <3>3. QED
        BY <1>1, <1>3, <2>1, <2>2, <3>1, <3>2 DEF RunInv
    <2>8. \A o \in OutboxIds : EventInv(o)'
      BY <1>1, <1>3, <2>1 DEF EventInv, Earned
    <2>9. ReplacesWhatItSaw'
      BY <1>3, <2>2, PromotedFacts DEF ReplacesWhatItSaw
    <2>10. QED
      BY <2>4, <2>5, <2>6, <2>7, <2>8, <2>9
  <1>4. bytes \in [Versions -> SUBSET {"staged", "immutable"}]
        /\ bytes = [bytes EXCEPT ![v] = bytes[v]]
    BY DEF Types, TypeOK
  <1>5. CASE Reconcile(v) /\ Superseded(v, pub[v].expected)
    <2>1. /\ pub' = Moved(v, "GarbageCollectable") /\ bytes' = bytes
          /\ pub[v].st \in {"Promoting", "ReconcileRequired"}
          /\ UNCHANGED <<commits, run, output, outbox>>
      BY <1>5 DEF Reconcile, Recoverable
    <2>2. QED
      BY <1>3, <1>4, <2>1
  <1>6. CASE Collect(v)
    <2>1. /\ pub' = Moved(v, "GarbageCollected") /\ bytes' = [bytes EXCEPT ![v] = {}]
          /\ pub[v].st = "GarbageCollectable"
          /\ UNCHANGED <<commits, run, output, outbox>>
      BY <1>6 DEF Collect
    <2>2. {} \in SUBSET {"staged", "immutable"}
      OBVIOUS
    <2>3. QED
      BY <1>3, <2>1, <2>2
  <1>7. QED
    BY <1>2, <1>5, <1>6

(* The rest of the start, a crash, and a step of nothing. *)
LEMMA BootStep ==
  ASSUME PInv,
         \/ \E o \in OutboxIds : Deliver(o)
         \/ Reconciled \/ Delivered \/ Started \/ Crash \/ UNCHANGED vars
  PROVE  PInv'
PROOF
  <1>0. Types
    BY DEF PInv
  <1>1. UNCHANGED <<pub, commits, bytes, run, output>>
    BY DEF Deliver, Reconciled, Delivered, Started, Crash, vars
  <1>2. /\ job' \in [Drivers -> Jobs]
        /\ \A d \in Drivers : job'[d].pc = "idle" \/ (job'[d] = job[d] /\ boot' = boot)
    <2>1. CASE Crash
      <3>1. Idle \in Jobs /\ Idle.pc = "idle"
        BY <1>0, JobFacts DEF Drivers
      <3>2. QED
        BY <2>1, <3>1 DEF Crash
    <2>2. CASE UNCHANGED vars
      BY <1>0, <2>2 DEF Types, vars
    <2>3. CASE (\E o \in OutboxIds : Deliver(o)) \/ Reconciled \/ Delivered \/ Started
      <3>1. boot # "up" /\ job' = job
        BY <2>3 DEF Deliver, Reconciled, Delivered, Started
      <3>2. QED
        BY <1>0, <3>1, Booting DEF Types
    <2>4. QED
      BY <2>1, <2>2, <2>3
  <1>3. /\ events' \in [OutboxIds -> Nat]
        /\ outbox' \in [OutboxIds -> {"none", "Pending", "Delivered"}]
        /\ \A x \in OutboxIds :
             /\ events'[x] <= 1
             /\ outbox'[x] # "none" \/ events'[x] > 0 => outbox[x] # "none" \/ events[x] > 0
    <2>0. /\ events \in [OutboxIds -> Nat]
          /\ outbox \in [OutboxIds -> {"none", "Pending", "Delivered"}]
          /\ \A x \in OutboxIds : events[x] <= 1
      BY <1>0 DEF Types, TypeOK, PInv, EventInv
    <2>1. ASSUME NEW o \in OutboxIds, Deliver(o)
          PROVE  <1>3!1 /\ <1>3!2 /\ <1>3!3
      <3>1. events' = events \/ (events[o] = 0 /\ events' = [events EXCEPT ![o] = events[o] + 1])
        BY <2>0, <2>1 DEF Deliver, Appended
      <3>2. outbox[o] = "Pending" /\ (outbox' = outbox \/ outbox' = [outbox EXCEPT ![o] = "Delivered"])
        BY <2>1 DEF Deliver
      <3>3. events' \in [OutboxIds -> Nat] /\ \A x \in OutboxIds : events'[x] <= 1
            /\ (x # o => events'[x] = events[x])
        BY <2>0, <3>1
      <3>4. outbox' \in [OutboxIds -> {"none", "Pending", "Delivered"}]
            /\ \A x \in OutboxIds : x # o => outbox'[x] = outbox[x]
        BY <2>0, <3>2
      <3>5. QED
        BY <3>2, <3>3, <3>4
    <2>2. CASE UNCHANGED <<events, outbox>>
      BY <2>0, <2>2
    <2>3. QED
      BY <2>1, <2>2 DEF Reconciled, Delivered, Started, Crash, vars
  <1>4. Types'
    BY <1>0, <1>1, <1>2, <1>3 DEF Types, TypeOK
  <1>5. \A e \in Drivers : JobInv(e)'
    BY <1>1, <1>2, JobKept
  <1>6. ASSUME NEW q \in Runs PROVE RunInv(q)'
    <2>1. q \in Drivers /\ RunInv(q)
      BY DEF PInv, Drivers
    <2>2. run[q] = "Completed" => job'[q].pc \in {"idle", "giveup", "announce", "mark"}
      BY <1>2, <2>1 DEF RunInv
    <2>3. QED
      BY <1>1, <2>2, RunKept
  <1>7. QED
    BY <1>1, <1>3, <1>4, <1>5, <1>6, OuterStep

-----------------------------------------------------------------------------
(* A store without versions. *)
LEMMA InitStep == Init => PInv
PROOF
  <1> SUFFICES ASSUME Init PROVE PInv
    OBVIOUS
  <1>1. Promoted = {}
    BY DEF Init, Promoted
  <1>2. Idle \in Jobs /\ Idle.pc = "idle"
    BY DEF Idle, Jobs, Pcs
  <1>3. TypeOK
    BY DEF Init, TypeOK, NoPublish, Statuses
  <1>4. Types
    BY <1>2, <1>3 DEF Init, Types
  <1>5. \A v \in Versions : VersionInv(v)
    BY <1>1 DEF Init, VersionInv, NoPublish
  <1>6. \A d \in Drivers : JobInv(d)
    BY <1>2 DEF Init, JobInv
  <1>7. \A r \in Runs : RunInv(r)
    BY DEF Init, RunInv
  <1>8. \A o \in OutboxIds : EventInv(o)
    BY DEF Init, EventInv
  <1>9. ReplacesWhatItSaw
    BY DEF Init, ReplacesWhatItSaw
  <1>10. QED
    BY <1>4, <1>5, <1>6, <1>7, <1>8, <1>9 DEF PInv

(* Every step of drivers, runs and starts keeps the invariant. *)
LEMMA NextStep ==
  ASSUME PInv, [Next]_vars
  PROVE  PInv'
PROOF
  <1>1. ASSUME NEW d \in Drivers, Step(d) \/ CutOff(d) PROVE PInv'
    BY <1>1, StageStep, ApproachStep, PromoteStep, UriStep, CommitActionStep, CutOffStep DEF Step
  <1>2. ASSUME NEW r \in Runs, RunStep(r) \/ Complete(r) \/ Cancel(r) PROVE PInv'
    BY <1>2, SetOutputStep, AnnounceStep, RunStatusStep DEF RunStep
  <1>3. ASSUME NEW r \in Runs, NEW v \in Versions, NEW how \in {"report", "publish"},
               BeginPublish(r, v, how)
        PROVE  PInv'
    <2>1. PICK base \in WasCurrent :
            pub' = [pub EXCEPT ![v] = [st |-> "Staging", expected |-> base,
                                       uri |-> FALSE, by |-> r, how |-> how]]
      BY <1>3 DEF BeginPublish
    <2>2. base \in Versions \cup {None} /\ Types
      BY PromotedFacts DEF WasCurrent, PInv
    <2> DEFINE rec == [st |-> "Staging", expected |-> base, uri |-> FALSE, by |-> r, how |-> how]
    <2>3. /\ rec \in [st : Statuses, expected : Versions \cup {None},
                      uri : BOOLEAN, by : Runs \cup {None},
                      how : {"none", "report", "publish", "workflow"}]
          /\ rec.st = "Staging" /\ ~rec.uri /\ rec.by = r /\ rec.how # "workflow"
      BY <2>2 DEF Statuses
    <2>4. "stage" \in Pcs \ {"announce", "mark", "uri"} /\ r \in Drivers /\ r # Workflow
      BY PromotionAssumption DEF Pcs, Drivers
    <2>5. /\ boot = "up" /\ job[r].pc = "idle" /\ run[r] = "Running" /\ pub[v].st = "none"
          /\ UNCHANGED <<commits, bytes, run, output, outbox, events, boot>>
          /\ job' = [job EXCEPT ![r] = [Idle EXCEPT !.pc = "stage", !.v = v]]
      BY <1>3 DEF BeginPublish, At
    <2> DEFINE j == [Idle EXCEPT !.pc = "stage", !.v = v]
    <2>6. j \in Jobs /\ j.pc \in Pcs \ {"announce", "mark", "uri"} /\ j.v = v
      <3>1. Idle \in Jobs
        BY DEF Idle, Jobs, Pcs
      <3>2. QED
        BY <2>4, <3>1 DEF Jobs
    <2>7. job' = [job EXCEPT ![r] = j]
      BY <2>5
    <2>8. pub' = [pub EXCEPT ![v] = rec] /\ (rec.how = "workflow" <=> r = Workflow)
      BY <2>1, <2>3, <2>4
    <2> HIDE DEF rec, j
    <2>9. QED
      BY <2>3, <2>4, <2>5, <2>6, <2>7, <2>8, BeginStep
  <1>4. ASSUME NEW r \in Runs, NEW v \in Versions, BeginWorkflow(v, r)
        PROVE  PInv'
    <2> DEFINE P == [st : Statuses, expected : Versions \cup {None},
                     uri : BOOLEAN, by : Runs \cup {None},
                     how : {"none", "report", "publish", "workflow"}]
    <2> DEFINE rec == IF pub[v].st = "none"
                      THEN [st |-> "Staging", expected |-> Current, uri |-> FALSE,
                            by |-> r, how |-> "workflow"]
                      ELSE pub[v]
    <2>1. Current \in Versions \cup {None} /\ Types
      BY PromotedFacts DEF PInv
    <2>2. /\ rec \in [st : Statuses, expected : Versions \cup {None},
                      uri : BOOLEAN, by : Runs \cup {None},
                      how : {"none", "report", "publish", "workflow"}]
          /\ pub[v].st = "none" => rec.st = "Staging" /\ ~rec.uri
          /\ pub[v].st # "none" => rec = pub[v]
          /\ rec.by = r /\ rec.how = "workflow"
      <3>1. pub[v].st # "none" => pub[v].how = "workflow" /\ pub[v].by = r
        BY <1>4 DEF BeginWorkflow
      <3>2. pub[v] \in [st : Statuses, expected : Versions \cup {None},
                      uri : BOOLEAN, by : Runs \cup {None},
                      how : {"none", "report", "publish", "workflow"}]
        BY <2>1 DEF Types, TypeOK
      <3>3. CASE pub[v].st = "none"
        BY <2>1, <3>3 DEF Statuses
      <3>4. CASE pub[v].st # "none"
        BY <3>1, <3>2, <3>4
      <3>5. QED
        BY <3>3, <3>4
    <2>3. Resume(rec.st) \in Pcs \ {"announce", "mark", "uri"}
      BY DEF Resume, Pcs
    <2>4. /\ boot = "up" /\ job[Workflow].pc = "idle"
          /\ UNCHANGED <<commits, bytes, run, output, outbox, events, boot>>
          /\ pub' = [pub EXCEPT ![v] = rec]
          /\ job' = [job EXCEPT ![Workflow] =
                       [Idle EXCEPT !.pc = Resume(rec.st), !.v = v, !.expected = Current]]
      BY <1>4 DEF BeginWorkflow, At
    <2>5. Workflow \in Drivers /\ Workflow \notin Runs
      BY PromotionAssumption DEF Drivers
    <2> DEFINE j == [Idle EXCEPT !.pc = Resume(rec.st), !.v = v, !.expected = Current]
    <2>6. j \in Jobs /\ j.pc \in Pcs \ {"announce", "mark", "uri"} /\ j.v = v
      <3>1. Idle \in Jobs
        BY DEF Idle, Jobs, Pcs
      <3> HIDE DEF rec
      <3>2. QED
        BY <2>1, <2>3, <3>1 DEF Jobs
    <2>7. job' = [job EXCEPT ![Workflow] = j]
      BY <2>4
    <2> HIDE DEF rec, j
    <2>8. PICK d \in Drivers : d = Workflow
      BY <2>5
    <2>9. PICK begun \in P : begun = rec
      BY <2>2
    <2>10. PICK at \in Jobs : at = j
      BY <2>6
    <2>11. /\ boot = "up" /\ job[d].pc = "idle" /\ (d \in Runs => run[d] = "Running")
          /\ (begun.how = "workflow" <=> d = Workflow) /\ (d # Workflow => r = d)
          /\ job' = [job EXCEPT ![d] = at] /\ pub' = [pub EXCEPT ![v] = begun]
          /\ (pub[v].st = "none" => begun.st = "Staging" /\ ~begun.uri)
          /\ (pub[v].st # "none" => begun = pub[v])
          /\ begun.by = r /\ at.v = v /\ at.pc \in Pcs \ {"announce", "mark", "uri"}
          /\ UNCHANGED <<commits, bytes, run, output, outbox, events, boot>>
      BY <2>2, <2>4, <2>5, <2>6, <2>7, <2>8, <2>9, <2>10
    <2>12. QED
      BY <2>11, BeginStep
  <1>5. CASE Startup \/ Crash \/ UNCHANGED vars
    BY <1>5, ReconcileStep, BootStep DEF Startup
  <1>6. QED
    BY <1>1, <1>2, <1>3, <1>4, <1>5 DEF Next

(* The inductive invariant holds in every reachable state. *)
THEOREM Invariance == Spec => []PInv
  BY InitStep, NextStep, PTL DEF Spec

(* A promoted version stays promoted with its files in their final place,  *)
(* and a run that completed has promoted its output, whatever failed, was  *)
(* retried, cut off or collected (commit_artifact_promotion_cas_inner,     *)
(* garbage_collect_artifacts).                                             *)
THEOREM KeptTheorem == Spec => []PromotedIsKept
PROOF
  <1>1. ASSUME PInv PROVE PromotedIsKept
    <2>1. \A v \in Promoted : bytes[v] = {"immutable"} /\ pub[v].st = "Promoted"
      BY <1>1, PromotedFacts DEF PInv, VersionInv
    <2>2. QED
      BY <1>1, <2>1 DEF PInv, RunInv, PromotedIsKept
  <1>2. QED
    BY <1>1, Invariance, PTL

(* The compare-and-swap of commit_artifact_promotion_cas_inner: a version  *)
(* replaces the one it was begun against, and is committed once.           *)
THEOREM SwapTheorem == Spec => []ReplacesWhatItSaw
PROOF
  <1>1. PInv => ReplacesWhatItSaw
    BY DEF PInv
  <1>2. QED
    BY <1>1, Invariance, PTL

(* dispatch_outbox_event appends an announcement at most once, and only    *)
(* of what happened.                                                       *)
THEOREM AnnouncementTheorem == Spec => []AnnouncedOnce
PROOF
  <1>1. ASSUME PInv PROVE AnnouncedOnce
    <2>1. \A o \in OutboxIds : events[o] \in Nat
      BY <1>1 DEF PInv, Types
    <2>2. ASSUME NEW v \in Versions PROVE events[v] <= IF v \in Promoted THEN 1 ELSE 0
      <3>1. v \in OutboxIds
        BY DEF OutboxIds
      <3>2. events[v] <= 1 /\ (events[v] > 0 => v \in Promoted)
        BY <1>1, <3>1 DEF PInv, EventInv, Earned
      <3>3. QED
        BY <2>1, <3>1, <3>2
    <2>3. ASSUME NEW r \in Runs PROVE events[r] <= IF run[r] = "Completed" THEN 1 ELSE 0
      <3>1. r \in OutboxIds
        BY DEF OutboxIds
      <3>2. events[r] <= 1 /\ (events[r] > 0 => run[r] = "Completed")
        BY <1>1, <3>1 DEF PInv, EventInv, Earned
      <3>3. QED
        BY <2>1, <3>1, <3>2
    <2>4. QED
      BY <2>2, <2>3 DEF AnnouncedOnce
  <1>2. QED
    BY <1>1, Invariance, PTL
=============================================================================
