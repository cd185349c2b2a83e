------------------------- MODULE ArtifactPromotion -------------------------
(***************************************************************************)
(* How a built version of one project becomes its current version: the     *)
(* publish records and promotion commits of conversation.rs, the files of  *)
(* artifact_publisher.rs, and the three callers that drive them: the tool  *)
(* preview.report_candidate, which promotes at once; preview.publish,      *)
(* which leaves a candidate for run.complete to promote together with the  *)
(* completion of the run; and the build step of a publish workflow.  The   *)
(* start of the process reconciles what a crash left, delivers the outbox  *)
(* and collects garbage before anything else runs.                         *)
(*                                                                         *)
(* The store reads its logs again before each of these operations, so a    *)
(* record is one variable: what the log says.  A version is Promoted when  *)
(* a commit names it.  An operator whose name ends in _Something is a      *)
(* faulty variant of the operator before the underscore.                   *)
(***************************************************************************)
EXTENDS Integers, Sequences, FiniteSets

CONSTANTS
  Versions,    \* ids of versions
  Runs,        \* ids of runs
  Workflow,    \* the publish workflow, one more driver
  None,
  MaxCrashes,  \* bound on crashes of the process
  MaxFaults    \* bound on calls that fail or are cut off

ASSUME PromotionAssumption ==
  /\ Workflow \notin Runs /\ None \notin Versions \cup Runs
  /\ Versions \cap Runs = {}
  /\ MaxCrashes \in Nat /\ MaxFaults \in Nat

Drivers == Runs \cup {Workflow}

VARIABLES
  pub,      \* the publish record of each version
  commits,  \* the promotion commit log
  bytes,    \* where the files of each version are
  run,      \* status of each run
  output,   \* output_version_id of each run
  outbox,   \* outbox events: id -> Pending or Delivered
  events,   \* how often each outbox event was appended to the run's log
  job,      \* what each driver is in the middle of
  boot,     \* "up", or the stage of the start of the process
  crashes, faults

vars == <<pub, commits, bytes, run, output, outbox, events, job, boot,
          crashes, faults>>

NoPublish == [st |-> "none", expected |-> None, uri |-> FALSE, by |-> None,
              how |-> "none"]

Idle == [pc |-> "idle", v |-> None, expected |-> None, send |-> <<>>]

(* Outbox ids: preview.updated of a version, run.completed of a run. *)
OutboxIds == Versions \cup Runs

Init ==
  /\ pub = [v \in Versions |-> NoPublish]
  /\ commits = <<>>
  /\ bytes = [v \in Versions |-> {}]
  /\ run = [r \in Runs |-> "Running"]
  /\ output = [r \in Runs |-> None]
  /\ outbox = [o \in OutboxIds |-> "none"]
  /\ events = [o \in OutboxIds |-> 0]
  /\ job = [d \in Drivers |-> Idle]
  /\ boot = "up" /\ crashes = 0 /\ faults = 0

Promoted == {commits[i].v : i \in DOMAIN commits}

(* project_current_versions after hydrate_artifact_transactions. *)
Current == IF commits = <<>> THEN None ELSE commits[Len(commits)].v

-----------------------------------------------------------------------------
(* transition_artifact_publish *)

artifact_publish_transition_allowed_Any(from, to) == TRUE

artifact_publish_transition_allowed(from, to) ==
  \/ from = to
  \/ from = "Staging" /\ to \in {"Staged", "Failed", "GarbageCollectable"}
  \/ from = "Staged" /\ to \in {"Validating", "GarbageCollectable"}
  \/ from = "Validating" /\ to \in {"Ready", "Promoting", "GarbageCollectable"}
  \/ from = "Ready" /\ to \in {"Promoting", "GarbageCollectable"}
  \/ from = "Promoting" /\ to \in {"ReconcileRequired", "GarbageCollectable"}
  \/ from = "ReconcileRequired" /\ to \in {"Promoting", "GarbageCollectable"}
  \/ from = "GarbageCollectable" /\ to = "GarbageCollected"

Allowed(v, to) == artifact_publish_transition_allowed(pub[v].st, to)

Moved(v, to) == [pub EXCEPT ![v].st = to]

(* A transition whose failure the caller ignores. *)
Attempt(v, to) == pub' = IF Allowed(v, to) THEN Moved(v, to) ELSE pub

-----------------------------------------------------------------------------
(* A driver's step. *)

At(d, pc) == boot = "up" /\ job[d].pc = pc

Goto(d, pc) == job' = [job EXCEPT ![d].pc = pc]

Stop(d) == job' = [job EXCEPT ![d] = Idle]

(* The driver's call is cut off, or fails before it did anything: a tool   *)
(* call reaches its deadline, an append to the log fails.                  *)
CutOff(d) ==
  /\ boot = "up" /\ job[d].pc # "idle" /\ faults < MaxFaults
  /\ faults' = faults + 1
  /\ Stop(d)
  /\ UNCHANGED <<pub, commits, bytes, run, output, outbox, events, boot, crashes>>

(* The version a tool call means to replace: the run's base version, which *)
(* was current when the run started, or the one the call read as current.  *)
WasCurrent == {None} \cup Promoted

(* preview.report_candidate and preview.publish: a new version, and its    *)
(* publish record with the version it is to replace.  The former is        *)
(* refused to a run that has an output.                                    *)
BeginPublish(r, v, how) ==
  /\ At(r, "idle") /\ run[r] = "Running" /\ pub[v].st = "none"
  /\ how = "report" => output[r] = None
  /\ \E base \in WasCurrent :
       pub' = [pub EXCEPT ![v] = [st |-> "Staging", expected |-> base,
                                  uri |-> FALSE, by |-> r, how |-> how]]
  /\ job' = [job EXCEPT ![r] = [Idle EXCEPT !.pc = "stage", !.v = v]]
  /\ UNCHANGED <<commits, bytes, run, output, outbox, events, boot, crashes, faults>>

(* The step at which a repeated build_and_promote_version takes up its     *)
(* publish record.                                                         *)
Resume(st) ==
  CASE st = "Staging" -> "stage"
    [] st = "Staged" -> "validate"
    [] st = "Validating" -> "ready"
    [] st \in {"Ready", "ReconcileRequired"} -> "promoting"
    [] st = "Promoting" -> "promote"
    [] OTHER -> "idle"

(* build_and_promote_version: the version's id is that of the request, and *)
(* what it is to replace is read anew at each attempt.  The commit is of   *)
(* the run that created the snapshot.                                      *)
BeginWorkflow(v, r) ==
  /\ At(Workflow, "idle")
  /\ pub[v].st = "none" \/ (pub[v].how = "workflow" /\ pub[v].by = r)
  /\ LET begun == IF pub[v].st = "none"
                  THEN [st |-> "Staging", expected |-> Current, uri |-> FALSE,
                        by |-> r, how |-> "workflow"]
                  ELSE pub[v]
     IN /\ Resume(begun.st) # "idle"
        /\ pub' = [pub EXCEPT ![v] = begun]
        /\ job' = [job EXCEPT ![Workflow] =
                     [Idle EXCEPT !.pc = Resume(begun.st), !.v = v,
                                  !.expected = Current]]
  /\ UNCHANGED <<commits, bytes, run, output, outbox, events, boot, crashes, faults>>

(* stage_directory, and the record of it.  A tool marks its failure. *)
Stage(d) ==
  /\ At(d, "stage")
  /\ LET v == job[d].v IN
     \/ /\ Allowed(v, "Staged")
        /\ bytes' = [bytes EXCEPT ![v] = @ \cup {"staged"}]
        /\ pub' = Moved(v, "Staged")
        /\ Goto(d, "validate") /\ UNCHANGED faults
     \/ /\ faults < MaxFaults /\ faults' = faults + 1
        /\ IF d = Workflow THEN UNCHANGED pub ELSE Attempt(v, "Failed")
        /\ Stop(d) /\ UNCHANGED bytes
  /\ UNCHANGED <<commits, run, output, outbox, events, boot, crashes>>

(* abort: a rejected candidate's staged files are removed. *)
Reject(d) ==
  /\ bytes' = [bytes EXCEPT ![job[d].v] = @ \ {"staged"}]
  /\ Attempt(job[d].v, "GarbageCollectable")
  /\ Stop(d)

(* A tool first creates the run that reviews the candidate. *)
Validate(d) ==
  /\ At(d, "validate")
  /\ \/ /\ Allowed(job[d].v, "Validating")
        /\ pub' = Moved(job[d].v, "Validating")
        /\ Goto(d, IF d = Workflow THEN "ready" ELSE "gate")
        /\ UNCHANGED bytes
     \/ d # Workflow /\ Reject(d)
  /\ UNCHANGED <<commits, run, output, outbox, events, boot, crashes, faults>>

(* validate_preview_promotion, and for preview.publish the validation and  *)
(* acceptance reports.                                                     *)
Gate(d) ==
  /\ At(d, "gate")
  /\ \/ /\ Goto(d, IF pub[job[d].v].how = "publish" THEN "ready" ELSE "promoting")
        /\ UNCHANGED <<pub, bytes>>
     \/ Reject(d)
  /\ UNCHANGED <<commits, run, output, outbox, events, boot, crashes, faults>>

Ready(d) ==
  /\ At(d, "ready") /\ Allowed(job[d].v, "Ready")
  /\ pub' = Moved(job[d].v, "Ready")
  /\ Goto(d, IF d = Workflow THEN "promoting" ELSE "output")
  /\ UNCHANGED <<commits, bytes, run, output, outbox, events, boot, crashes, faults>>

(* set_run_output_version; the candidate now waits for run.complete. *)
SetOutput(r) ==
  /\ At(r, "output")
  /\ output' = [output EXCEPT ![r] = job[r].v]
  /\ Stop(r)
  /\ UNCHANGED <<pub, commits, bytes, run, outbox, events, boot, crashes, faults>>

(* run.complete with a candidate: complete_candidate_preview.  With a      *)
(* promoted output the run just ends.                                      *)
Complete(r) ==
  /\ At(r, "idle") /\ run[r] = "Running" /\ output[r] # None
  /\ LET v == output[r] IN
     \/ /\ v \notin Promoted
        /\ pub[v].st \in {"Ready", "Promoting", "ReconcileRequired"}
        /\ job' = [job EXCEPT ![r] =
                     [Idle EXCEPT !.v = v,
                        !.pc = IF pub[v].st = "Promoting" THEN "promote"
                               ELSE "promoting"]]
        /\ UNCHANGED run
     \/ /\ v \in Promoted
        /\ run' = [run EXCEPT ![r] = "Completed"] /\ UNCHANGED job
  /\ UNCHANGED <<pub, commits, bytes, output, outbox, events, boot, crashes, faults>>

Promoting(d) ==
  /\ At(d, "promoting") /\ Allowed(job[d].v, "Promoting")
  /\ pub' = Moved(job[d].v, "Promoting")
  /\ Goto(d, "promote")
  /\ UNCHANGED <<commits, bytes, run, output, outbox, events, boot, crashes, faults>>

(* FileArtifactPublisher::promote renames the staged directory; a version  *)
(* that is there already stays.  The rename may have been done although    *)
(* an error is returned.                                                   *)
Promote(d) ==
  /\ At(d, "promote")
  /\ LET v == job[d].v
         there == bytes[v] # {}
     IN \/ /\ there
           /\ bytes' = [bytes EXCEPT ![v] = {"immutable"}]
           /\ Goto(d, "uri") /\ UNCHANGED <<pub, faults>>
        \/ /\ IF there THEN faults < MaxFaults /\ faults' = faults + 1
              ELSE UNCHANGED faults
           /\ bytes' \in {bytes, [bytes EXCEPT ![v] = IF there THEN {"immutable"}
                                                      ELSE {}]}
           /\ IF d = Workflow THEN UNCHANGED pub
              ELSE Attempt(v, "ReconcileRequired")
           /\ Stop(d)
  /\ UNCHANGED <<commits, run, output, outbox, events, boot, crashes>>

RecordUri(d) ==
  /\ At(d, "uri") /\ Allowed(job[d].v, "Promoting")
  /\ pub' = [Moved(job[d].v, "Promoting") EXCEPT ![job[d].v].uri = TRUE]
  /\ Goto(d, IF pub[job[d].v].how = "report" THEN "regate" ELSE "commit")
  /\ UNCHANGED <<commits, bytes, run, output, outbox, events, boot, crashes, faults>>

(* promote_preview_cas looks at the gate once more. *)
GateAgain(d) ==
  /\ At(d, "regate")
  /\ \/ Goto(d, "commit") /\ UNCHANGED pub
     \/ Attempt(job[d].v, "ReconcileRequired") /\ Stop(d)
  /\ UNCHANGED <<commits, bytes, run, output, outbox, events, boot, crashes, faults>>

-----------------------------------------------------------------------------
(* commit_artifact_promotion_cas_inner *)

(* The compare-and-swap fails. *)
Superseded_Never(v, expected) == FALSE

Superseded(v, expected) == Current # v /\ Current # expected

Committable(v, expected, completes) ==
  /\ ~Superseded(v, expected)
  /\ v \notin Promoted
  /\ pub[v].st = "Promoting" /\ pub[v].uri
  /\ completes => run[pub[v].by] \in {"Running", "Completed"}

(* One line of the commit log makes the version current, its publish       *)
(* record Promoted, its run's output and the outbox events; with           *)
(* completion also the run Completed.                                      *)
PromotionCommit(v, completes) ==
  LET r == pub[v].by IN
  /\ commits' = Append(commits, [v |-> v, after |-> Current,
                                 completes |-> completes])
  /\ pub' = Moved(v, "Promoted")
  /\ output' = [output EXCEPT ![r] = v]
  /\ run' = IF completes THEN [run EXCEPT ![r] = "Completed"] ELSE run
  /\ outbox' = [o \in OutboxIds |->
                  IF o = v \/ (completes /\ o = r) THEN "Pending" ELSE outbox[o]]

Completes(d) == d \in Runs /\ pub[job[d].v].how = "publish"

(* What a driver gives as the version to replace. *)
Expected(d) == IF d = Workflow THEN job[d].expected ELSE pub[job[d].v].expected

(* The append of the line may fail, and the line be there nevertheless. *)
Commit(d) ==
  /\ At(d, "commit")
  /\ LET v == job[d].v
         ok == Committable(v, Expected(d), Completes(d))
     IN \/ /\ ok /\ PromotionCommit(v, Completes(d))
           /\ job' = [job EXCEPT ![d] =
                 IF d = Workflow THEN Idle
                 ELSE [@ EXCEPT !.pc = "announce",
                         !.send = IF Completes(d) THEN <<v, d>> ELSE <<v>>]]
           /\ UNCHANGED faults
        \/ /\ ~ok /\ Goto(d, "giveup")
           /\ UNCHANGED <<pub, commits, run, output, outbox, faults>>
        \/ /\ ok /\ faults < MaxFaults /\ faults' = faults + 1
           /\ Goto(d, "giveup")
           /\ \/ PromotionCommit(v, Completes(d))
              \/ UNCHANGED <<pub, commits, run, output, outbox>>
  /\ UNCHANGED <<bytes, events, boot, crashes>>

(* After a failed commit run.complete gives the candidate up, while        *)
(* report_candidate leaves it to reconciliation and a workflow as it is.   *)
GiveUp(d) ==
  /\ At(d, "giveup")
  /\ CASE d = Workflow -> UNCHANGED pub
       [] pub[job[d].v].how = "publish" -> Attempt(job[d].v, "GarbageCollectable")
       [] OTHER -> Attempt(job[d].v, "ReconcileRequired")
  /\ Stop(d)
  /\ UNCHANGED <<commits, bytes, run, output, outbox, events, boot, crashes, faults>>

-----------------------------------------------------------------------------
(* dispatch_outbox_event *)

Appended_Blindly(o) == [events EXCEPT ![o] = @ + 1]

(* The event is appended to the run's log unless it is there. *)
Appended(o) == IF events[o] > 0 THEN events ELSE [events EXCEPT ![o] = @ + 1]

(* A driver dispatches its events in turn: append, then mark Delivered. *)
Announce(r) ==
  /\ At(r, "announce")
  /\ IF outbox[Head(job[r].send)] = "Delivered" THEN UNCHANGED events
     ELSE events' = Appended(Head(job[r].send))
  /\ Goto(r, "mark")
  /\ UNCHANGED <<pub, commits, bytes, run, output, outbox, boot, crashes, faults>>

MarkDelivered(r) ==
  /\ At(r, "mark")
  /\ outbox' = [outbox EXCEPT ![Head(job[r].send)] = "Delivered"]
  /\ LET send == job[r].send IN
     job' = [job EXCEPT ![r] = IF Len(send) = 1 THEN Idle
                               ELSE [job[r] EXCEPT !.pc = "announce", !.send = Tail(send)]]
  /\ UNCHANGED <<pub, commits, bytes, run, output, events, boot, crashes, faults>>

-----------------------------------------------------------------------------
(* The start of the process. *)

Crash ==
  /\ crashes < MaxCrashes /\ crashes' = crashes + 1
  /\ job' = [d \in Drivers |-> Idle]
  /\ boot' = "reconcile"
  /\ UNCHANGED <<pub, commits, bytes, run, output, outbox, events, faults>>

(* The candidate is to be promoted by its run's completion or not at all. *)
CompletionCoupled(v) ==
  output[pub[v].by] = v /\ run[pub[v].by] # "Completed"

Recoverable(v) ==
  /\ pub[v].st \in {"Promoting", "ReconcileRequired"} /\ pub[v].uri
  /\ ~CompletionCoupled(v)

(* reconcile_artifact_promotions commits, without completion, what has its *)
(* files in place; what was overtaken becomes garbage.                     *)
Reconcile(v) ==
  /\ boot = "reconcile" /\ Recoverable(v)
  /\ IF Superseded(v, pub[v].expected)
     THEN /\ pub' = Moved(v, "GarbageCollectable")
          /\ UNCHANGED <<commits, run, output, outbox>>
     ELSE PromotionCommit(v, FALSE)
  /\ UNCHANGED <<bytes, events, job, boot, crashes, faults>>

Reconciled ==
  /\ boot = "reconcile" /\ \A v \in Versions : ~Recoverable(v)
  /\ boot' = "deliver"
  /\ UNCHANGED <<pub, commits, bytes, run, output, outbox, events, job, crashes, faults>>

(* Every pending outbox event is dispatched; a crash may strike between    *)
(* the append and the mark.                                                *)
Deliver(o) ==
  /\ boot = "deliver" /\ outbox[o] = "Pending"
  /\ \/ events' = Appended(o) /\ outbox' = [outbox EXCEPT ![o] = "Delivered"]
        /\ UNCHANGED <<boot, crashes>>
     \/ /\ crashes < MaxCrashes /\ crashes' = crashes + 1
        /\ events' = Appended(o) /\ boot' = "reconcile" /\ UNCHANGED outbox
  /\ UNCHANGED <<pub, commits, bytes, run, output, job, faults>>

Delivered_Unchecked ==
  /\ boot = "deliver"
  /\ boot' = "collect"
  /\ UNCHANGED <<pub, commits, bytes, run, output, outbox, events, job, crashes, faults>>

Delivered ==
  /\ boot = "deliver" /\ \A o \in OutboxIds : outbox[o] # "Pending"
  /\ boot' = "collect"
  /\ UNCHANGED <<pub, commits, bytes, run, output, outbox, events, job, crashes, faults>>

(* garbage_collect_artifacts, for a record whose time has come. *)
Collect(v) ==
  /\ boot = "collect" /\ pub[v].st = "GarbageCollectable" /\ v # Current
  /\ bytes' = [bytes EXCEPT ![v] = {}]
  /\ pub' = Moved(v, "GarbageCollected")
  /\ UNCHANGED <<commits, run, output, outbox, events, job, boot, crashes, faults>>

Started ==
  /\ boot = "collect" /\ boot' = "up"
  /\ UNCHANGED <<pub, commits, bytes, run, output, outbox, events, job, crashes, faults>>

(* A run is cancelled, or fails, while a tool of it may be at work. *)
Cancel(r) ==
  /\ boot = "up" /\ run[r] = "Running"
  /\ run' = [run EXCEPT ![r] = "Cancelled"]
  /\ UNCHANGED <<pub, commits, bytes, output, outbox, events, job, boot, crashes, faults>>

-----------------------------------------------------------------------------

Step(d) ==
  \/ Stage(d) \/ Validate(d) \/ Gate(d) \/ Ready(d) \/ Promoting(d)
  \/ Promote(d) \/ RecordUri(d) \/ GateAgain(d) \/ Commit(d) \/ GiveUp(d)

RunStep(r) == SetOutput(r) \/ Announce(r) \/ MarkDelivered(r)

Startup ==
  \/ \E v \in Versions : Reconcile(v) \/ Collect(v)
  \/ \E o \in OutboxIds : Deliver(o)
  \/ Reconciled \/ Delivered \/ Started

Next ==
  \/ \E d \in Drivers : Step(d) \/ CutOff(d)
  \/ \E r \in Runs : RunStep(r) \/ Complete(r) \/ Cancel(r)
  \/ \E r \in Runs, v \in Versions, how \in {"report", "publish"} :
       BeginPublish(r, v, how)
  \/ \E r \in Runs, v \in Versions : BeginWorkflow(v, r)
  \/ Startup \/ Crash

Spec == Init /\ [][Next]_vars

(* The start of the process goes on until it ends or the process dies.     *)
FairSpec == Spec /\ WF_vars(Startup)

-----------------------------------------------------------------------------
(* Properties. *)

Statuses == {"none", "Staging", "Staged", "Validating", "Ready", "Promoting",
             "Promoted", "ReconcileRequired", "Failed", "GarbageCollectable",
             "GarbageCollected"}

(* Publish records, files, runs and the outbox keep their types.           *)
TypeOK ==
  /\ pub \in [Versions -> [st : Statuses, expected : Versions \cup {None},
                           uri : BOOLEAN, by : Runs \cup {None},
                           how : {"none", "report", "publish", "workflow"}]]
  /\ bytes \in [Versions -> SUBSET {"staged", "immutable"}]
  /\ run \in [Runs -> {"Running", "Completed", "Cancelled"}]
  /\ output \in [Runs -> Versions \cup {None}]
  /\ outbox \in [OutboxIds -> {"none", "Pending", "Delivered"}]

(* A promoted version, and so the current one, stays promoted and its      *)
(* files stay in their final place, whatever failed, was retried or        *)
(* collected: also when the commit was reported as failed and the record   *)
(* was then to become garbage.  A run that completed has promoted its      *)
(* output.                                                                 *)
PromotedIsKept ==
  /\ \A v \in Promoted : "immutable" \in bytes[v] /\ pub[v].st = "Promoted"
  /\ \A r \in Runs : run[r] = "Completed" =>
       output[r] \in Promoted /\ bytes[output[r]] = {"immutable"}

(* A version promoted by a run or by reconciliation replaces exactly the   *)
(* version it was begun against, so no promotion in between is overwritten *)
(* unseen; and none is committed twice, however often its promotion is     *)
(* retried or reconciled.                                                  *)
ReplacesWhatItSaw ==
  /\ \A i \in DOMAIN commits :
       pub[commits[i].v].how # "workflow" =>
         commits[i].after = pub[commits[i].v].expected
  /\ \A i, j \in DOMAIN commits : commits[i].v = commits[j].v => i = j

(* A promotion and a completion are announced at most once, and only if    *)
(* they happened, across crashes between the append of the event and the   *)
(* mark that it was delivered.                                             *)
AnnouncedOnce ==
  /\ \A v \in Versions : events[v] <= IF v \in Promoted THEN 1 ELSE 0
  /\ \A r \in Runs : events[r] <= IF run[r] = "Completed" THEN 1 ELSE 0

(* What a crash left half done is settled by the next start of the         *)
(* process: a promotion with its files in place is committed or given up,  *)
(* and every announcement still owed is made.                              *)
RestartSettles ==
  boot = "reconcile" ~>
    /\ boot = "collect"
    /\ \A v \in Versions : ~Recoverable(v)
    /\ \A o \in OutboxIds : outbox[o] # "Pending"
=============================================================================
