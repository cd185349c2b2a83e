--------------------------- MODULE PublishWorkflow ---------------------------
(***************************************************************************)
(* The publish workflow (publish_workflow/store.rs and controller.rs)      *)
(* composed with the publication store it commits its intents to: one      *)
(* click on Publish freezes a source, builds and promotes a version, has   *)
(* it packaged into a release, publishes the release and, when it does not *)
(* become healthy in time, rolls back.                                     *)
(*                                                                         *)
(* One pass of the controller takes a copy of every workflow that is not   *)
(* terminal and reconciles the copies one after another; a reconcile       *)
(* awaits builds, stores and lookups, so a client may cancel in between.   *)
(* `pass' holds the copies not finished yet, `step' what the reconcile of  *)
(* the first one has come to.  The workflow store appends to its log       *)
(* before it touches memory, so a restart loses nothing that it acknow-    *)
(* ledged, and a failed append changes nothing.                            *)
(*                                                                         *)
(* Abstractions: freezing, building and promoting either succeed or fail   *)
(* (promotion itself is module ArtifactPromotion); what the packager       *)
(* decides about the release is the variable `packaged' (module            *)
(* ReleasePackaging); the 120 second window may be over whenever it is     *)
(* looked at; hashes, URLs and stage evidence are left out.  In every call *)
(* of advance the new status bears the name of the new checkpoint.         *)
(***************************************************************************)
EXTENDS PublicationStore, Sequences, FiniteSets

CONSTANTS
    Workflows,      \* workflow ids
    ProjectOf,      \* Workflows -> Projects
    ReleaseOf,      \* Workflows -> Releases: the release packaged for it
    PublishKey,     \* Workflows -> Keys: "publish-workflow:<id>"
    RollbackKey,    \* Workflows -> Keys: "publish-workflow:<id>:rollback"
    MaxCrashes,     \* process restarts
    MaxUnsaved      \* failed commits that a restart finds nevertheless

ASSUME WorkflowAssumption ==
    /\ ProjectOf \in [Workflows -> Projects]
    /\ ReleaseOf \in [Workflows -> Releases]
    /\ PublishKey \in [Workflows -> Keys]
    /\ RollbackKey \in [Workflows -> Keys]
    /\ IsFiniteSet(Workflows)

(* Workflow ids are unique, and there is no colon in one *)
ASSUME KeysAssumption ==
    \A v, w \in Workflows :
        /\ PublishKey[v] = PublishKey[w] => v = w
        /\ PublishKey[v] # RollbackKey[w]

VARIABLES
    wf,          \* Workflows -> the workflow record
    packaged,    \* Workflows -> what became of its packaging
    pass,        \* the copies the controller's pass still has to reconcile
    step,        \* where the reconcile of Head(pass) stands
    completed,   \* history: operations that were Completed at some time
    switched,    \* history: operations that had switched traffic
    crashes, unsaved

workflowVars == <<wf, packaged, pass, step, completed, switched, crashes, unsaved>>
allVars == <<vars, workflowVars>>

checkpoint_rank(c) ==
    CASE c = "Requested" -> 0
      [] c = "SourceFrozen" -> 1
      [] c = "Building" -> 2
      [] c = "Validating" -> 3
      [] c = "ReleasePackaging" -> 4
      [] c = "ReleaseValidated" -> 5
      [] c = "DesiredStateCommitted" -> 6
      [] c = "Reconciling" -> 7
      [] c = "WorkloadReady" -> 8
      [] c = "TrafficSwitched" -> 9
      [] c = "ExternalProbePassed" -> 10
      [] c = "RollingBack" -> 11
      [] c = "Completed" -> 12
      [] c = "RolledBack" -> 13

WorkflowCheckpoint ==
    {"Requested", "SourceFrozen", "Building", "Validating", "ReleasePackaging",
     "ReleaseValidated", "DesiredStateCommitted", "Reconciling", "WorkloadReady",
     "TrafficSwitched", "ExternalProbePassed", "RollingBack", "Completed", "RolledBack"}

WorkflowStatus == WorkflowCheckpoint \cup {"Failed", "Cancelled", "RollbackFailed"}

ASSUME NoWorkflowAssumption == None \notin WorkflowStatus /\ None \notin OpId

terminal_Resumable(status) ==
    status \in {"Completed", "Failed", "RolledBack", "RollbackFailed"}

terminal(status) ==
    status \in {"Completed", "Failed", "Cancelled", "RolledBack", "RollbackFailed"}

NoWorkflow ==
    [status |-> None, checkpoint |-> "Requested", release |-> None, op |-> None,
     expectedCurrent |-> None, expectedGeneration |-> 0]

Started(w) == wf[w].status # None
RuntimeFor(w) == mem.runtimes[ProjectOf[w]]
PublishOp(w) == <<ProjectOf[w], PublishKey[w]>>
RollbackOp(w) == <<ProjectOf[w], RollbackKey[w]>>

Begin == [at |-> "begin"]
Fail == [at |-> "error"]
AdvanceTo(to, goal, release, op) ==
    [at |-> "advance", to |-> to, goal |-> goal, release |-> release, op |-> op]

-----------------------------------------------------------------------------
(* The workflow store's clients *)

(* start with the generation and current release the client sees *)
start(w) ==
    /\ phase = "serving"
    /\ ~Started(w)
    /\ wf' = [wf EXCEPT ![w] =
                [NoWorkflow EXCEPT !.status = "Requested",
                                   !.expectedCurrent = RuntimeFor(w).current,
                                   !.expectedGeneration = RuntimeFor(w).gen]]
    /\ UNCHANGED <<packaged, pass, step>>
    /\ UNCHANGED vars

Cancellable(w) ==
    /\ Started(w)
    /\ ~terminal(wf[w].status)
    /\ checkpoint_rank(wf[w].checkpoint) < checkpoint_rank("DesiredStateCommitted")

cancel(w) ==
    /\ phase = "serving"
    /\ Cancellable(w)
    /\ wf' = [wf EXCEPT ![w].status = "Cancelled"]
    /\ UNCHANGED <<packaged, pass, step>>
    /\ UNCHANGED vars

(* The packaging controller settles a prepared release *)
PackagingSettles(w) ==
    /\ wf[w].release # None /\ packaged[w] = "unsettled"
    /\ \E outcome \in {"Validated", "Failed"} :
          packaged' = [packaged EXCEPT ![w] = outcome]
    /\ UNCHANGED <<wf, pass, step>>
    /\ UNCHANGED vars

-----------------------------------------------------------------------------
(* reconcile_once *)

Perms(S) == {s \in [1..Cardinality(S) -> S] : \A i, j \in DOMAIN s : s[i] = s[j] => i = j}

(* What a pass holds of a workflow: its status is not looked at again *)
CopyOf(w) ==
    [id |-> w, checkpoint |-> wf[w].checkpoint, release |-> wf[w].release, op |-> wf[w].op,
     expectedCurrent |-> wf[w].expectedCurrent, expectedGeneration |-> wf[w].expectedGeneration]

StartPass ==
    LET live == {w \in Workflows : Started(w) /\ ~terminal(wf[w].status)}
    IN /\ phase = "serving"
       /\ pass = <<>> /\ live # {}
       /\ \E order \in Perms(live) :
             pass' = [i \in 1..Cardinality(live) |-> CopyOf(order[i])]
       /\ step' = Begin
       /\ UNCHANGED <<wf, packaged>>
       /\ UNCHANGED vars

w0 == Head(pass).id
copy == Head(pass)

Reconciling(c) ==
    phase = "serving" /\ pass # <<>> /\ step.at = "begin" /\ copy.checkpoint \in c

Finish == pass' = Tail(pass) /\ step' = Begin

(* A step whose effects outside the workflow are idempotent: it ends in    *)
(* the advance to the next checkpoint                                      *)
Produces(from, to, release) ==
    /\ Reconciling({from})
    /\ step' = AdvanceTo(to, to, release, None)
    /\ UNCHANGED <<wf, packaged, pass>>
    /\ UNCHANGED vars

(* ... or fails before that *)
ProduceFails(from) ==
    /\ Reconciling({from})
    /\ step' = Fail
    /\ UNCHANGED <<wf, packaged, pass>>
    /\ UNCHANGED vars

freeze_source == Produces("Requested", "SourceFrozen", None) \/ ProduceFails("Requested")

advance_to_building == Produces("SourceFrozen", "Building", None)

build_and_promote_version == Produces("Building", "Validating", None) \/ ProduceFails("Building")

prepare_release ==
    \/ Produces("Validating", "ReleasePackaging", ReleaseOf[w0])
    \/ ProduceFails("Validating")

observe_release ==
    /\ Reconciling({"ReleasePackaging"})
    /\ \/ packaged[w0] = "Failed" /\ step' = Fail /\ UNCHANGED pass
       \/ packaged[w0] = "unsettled" /\ Finish
       \/ /\ packaged[w0] = "Validated"
          /\ step' = AdvanceTo("ReleaseValidated", "ReleaseValidated", None, None)
          /\ UNCHANGED pass
    /\ UNCHANGED <<wf, packaged>>
    /\ UNCHANGED vars

Intent_Latest(c) ==
    [kind |-> IF c.expectedCurrent # None THEN "Update" ELSE "Publish",
     release |-> c.release, expectedCurrent |-> c.expectedCurrent,
     expectedGeneration |-> RuntimeFor(c.id).gen]

Intent(c) ==
    [kind |-> IF c.expectedCurrent # None THEN "Update" ELSE "Publish",
     release |-> c.release, expectedCurrent |-> c.expectedCurrent,
     expectedGeneration |-> c.expectedGeneration]

(* commit_intent as a workflow calls it: accepted, answered with the       *)
(* operation it committed before, or refused                               *)
Commit(id, intent, then) ==
    \/ commit_intent(id, intent) /\ step' = IF acked' # acked THEN then ELSE Fail
    \/ commit_intent_retry(id, intent) /\ step' = then
    \/ /\ ~validate_compare_and_set(RuntimeOf(mem, id), intent) \/ Known(mem, id)
       /\ Known(mem, id) => mem.operations[id].request # intent
       /\ step' = Fail
       /\ UNCHANGED vars

commit_publication ==
    /\ Reconciling({"ReleaseValidated"})
    /\ Commit(PublishOp(w0), Intent(copy),
              AdvanceTo("DesiredStateCommitted", "DesiredStateCommitted", None, PublishOp(w0)))
    /\ UNCHANGED <<wf, packaged, pass>>

Observed == {"DesiredStateCommitted", "Reconciling", "WorkloadReady",
             "TrafficSwitched", "ExternalProbePassed"}

next_publication_checkpoint(c) ==
    CASE c = "DesiredStateCommitted" -> "Reconciling"
      [] c = "Reconciling" -> "WorkloadReady"
      [] c = "WorkloadReady" -> "TrafficSwitched"
      [] c = "TrafficSwitched" -> "ExternalProbePassed"
      [] c = "ExternalProbePassed" -> "Completed"

(* advance_publication_checkpoint: one checkpoint towards the operation's *)
Follow(target) ==
    LET next == next_publication_checkpoint(copy.checkpoint) IN
    IF checkpoint_rank(copy.checkpoint) < checkpoint_rank(target)
    THEN step' = AdvanceTo(next, next, None, None) /\ UNCHANGED pass
    ELSE Finish

Completes(rt, op) ==
    op.status = "Completed" /\ rt.status = "Published" /\ rt.current = copy.release

observe_publication_Early ==
    /\ Reconciling(Observed)
    /\ mem.operations[copy.op].status \in {"WorkloadReady", "TrafficSwitched", "Completed"}
    /\ step' = AdvanceTo(next_publication_checkpoint(copy.checkpoint), "Completed", None, None)
    /\ UNCHANGED <<wf, packaged, pass>>
    /\ UNCHANGED vars

(* observe_publication, its rollback branch apart *)
observe_publication ==
    /\ Reconciling(Observed)
    /\ LET op == mem.operations[copy.op] IN
       \/ op.status = "DesiredStateCommitted" /\ Finish
       \/ op.status \in {"Reconciling", "ReconcileRequired"} /\ Follow("Reconciling")
       \/ op.status = "WorkloadReady" /\ Follow("WorkloadReady")
       \/ op.status = "TrafficSwitched" /\ Follow("TrafficSwitched")
       \/ /\ op.status = "Completed"
          /\ step' = IF Completes(RuntimeFor(w0), op)
                     THEN AdvanceTo(next_publication_checkpoint(copy.checkpoint),
                                    "Completed", None, None)
                     ELSE Fail
          /\ UNCHANGED pass
    /\ UNCHANGED <<wf, packaged>>
    /\ UNCHANGED vars

(* begin_rollback reads the runtime, awaits the project's access record    *)
(* and then commits                                                        *)
read_for_rollback ==
    /\ Reconciling(Observed)
    /\ mem.operations[copy.op].status = "ReconcileRequired"
    /\ LET rt == RuntimeFor(w0) IN
       step' = [at |-> "rollback",
                intent |-> [kind |-> IF rt.current # None THEN "Rollback" ELSE "Unpublish",
                            release |-> rt.current, expectedCurrent |-> rt.current,
                            expectedGeneration |-> rt.gen]]
    /\ UNCHANGED <<wf, packaged, pass>>
    /\ UNCHANGED vars

commit_rollback ==
    /\ phase = "serving" /\ pass # <<>> /\ step.at = "rollback"
    /\ Commit(RollbackOp(w0), step.intent,
              AdvanceTo("RollingBack", "RollingBack", None, RollbackOp(w0)))
    /\ UNCHANGED <<wf, packaged, pass>>

Restored(rt, op) ==
    \/ /\ op.request.kind = "Rollback"
       /\ rt.status = "Published" /\ rt.current = op.request.release
    \/ /\ op.request.kind = "Unpublish"
       /\ rt.status = "Unpublished" /\ rt.publication = "Unpublished" /\ rt.current = None

(* The store never marks an operation Failed or Cancelled, so the branch   *)
(* that records RollbackFailed is dead                                     *)
observe_rollback ==
    /\ Reconciling({"RollingBack"})
    /\ LET op == mem.operations[copy.op] IN
       \/ op.status # "Completed" /\ Finish
       \/ /\ op.status = "Completed"
          /\ step' = IF Restored(RuntimeFor(w0), op)
                     THEN AdvanceTo("RolledBack", "RolledBack", None, None) ELSE Fail
          /\ UNCHANGED pass
    /\ UNCHANGED <<wf, packaged>>
    /\ UNCHANGED vars

(* advance: a compare-and-set on the checkpoint alone.  Towards a further  *)
(* goal the loop of complete_publication_checkpoints goes on.              *)
advance ==
    /\ phase = "serving" /\ pass # <<>> /\ step.at = "advance"
    /\ \/ /\ wf[w0].checkpoint = copy.checkpoint
          /\ wf' = [wf EXCEPT ![w0].status = step.to, ![w0].checkpoint = step.to,
                              ![w0].release = IF step.release # None THEN step.release ELSE @,
                              ![w0].op = IF step.op # None THEN step.op ELSE @]
          /\ IF step.to = step.goal
             THEN Finish
             ELSE /\ step' = AdvanceTo(next_publication_checkpoint(step.to), step.goal, None, None)
                  /\ pass' = [pass EXCEPT ![1].checkpoint = step.to]
       \/ step' = Fail /\ UNCHANGED <<wf, pass>>
    /\ UNCHANGED packaged
    /\ UNCHANGED vars

(* reconcile_once records the error; a failing set_status is ignored *)
record_error ==
    /\ phase = "serving" /\ pass # <<>> /\ step.at = "error"
    /\ \/ wf' = [wf EXCEPT ![w0].status =
                   IF checkpoint_rank(wf[w0].checkpoint) >= checkpoint_rank("TrafficSwitched")
                   THEN "RollingBack" ELSE "Failed"]
       \/ UNCHANGED wf
    /\ Finish
    /\ UNCHANGED packaged
    /\ UNCHANGED vars

(* The pass dies with the process; the workflows are read from their log *)
Restart ==
    /\ crashes < MaxCrashes
    /\ CrashAndOpen
    /\ pass' = <<>> /\ step' = Begin
    /\ UNCHANGED <<wf, packaged>>

-----------------------------------------------------------------------------
WorkflowInit ==
    /\ Init
    /\ wf = [w \in Workflows |-> NoWorkflow]
    /\ packaged = [w \in Workflows |-> "unsettled"]
    /\ pass = <<>> /\ step = Begin
    /\ completed = {} /\ switched = {}
    /\ crashes = 0 /\ unsaved = 0

OwnOps == {PublishOp(w) : w \in Workflows} \cup {RollbackOp(w) : w \in Workflows}

WorkflowKeys == {PublishKey[w] : w \in Workflows} \cup {RollbackKey[w] : w \in Workflows}

Reconcile ==
    \/ freeze_source \/ advance_to_building \/ build_and_promote_version \/ prepare_release
    \/ observe_release \/ commit_publication \/ observe_publication
    \/ read_for_rollback \/ commit_rollback \/ observe_rollback
    \/ advance \/ record_error

(* Other clients publish releases that are validated, over the runtime that *)
(* they see (Rollback differs from Update in name only)                     *)
OtherClient(id) ==
    \E kind \in PublishOperationKind \ {"Rollback"},
       release \in Option(Releases \ {ReleaseOf[w] : w \in Workflows}) :
        /\ commit_intent(id, [kind |-> kind, release |-> release,
                              expectedCurrent |-> RuntimeOf(mem, id).current,
                              expectedGeneration |-> RuntimeOf(mem, id).gen])

(* The reports of the work-runtime controller that a workflow can tell     *)
(* apart (it does not call record_delivered)                               *)
Reported(id) ==
    \/ \E dep \in DepIds, svc \in SvcIds, ing \in Option(IngIds) :
         record_workload_ready(id, dep, svc, ing)
    \/ /\ RuntimeOf(mem, id).publication = "Published"
       /\ \E svc \in SvcIds, ing \in IngIds : record_traffic_switched(id, svc, ing)
    \/ record_unpublished(id)
    \/ record_reconcile_failure(id)

(* A failed commit of these that a restart finds is module PublicationStore's *)
StoreStep ==
    /\ \/ \E p \in Projects, k \in Keys :
            \/ k \notin WorkflowKeys /\ OtherClient(<<p, k>>)
            \/ Reported(<<p, k>>)
            \/ replay_nonterminal_outbox(<<p, k>>)
       \/ RecoveryComplete
    /\ disk' = mem'
    /\ UNCHANGED <<wf, packaged, pass, step>>

History ==
    /\ completed' = completed \cup {id \in OwnOps : mem'.operations[id].status = "Completed"}
    /\ switched' = switched \cup {id \in OwnOps : mem'.operations[id].status = "TrafficSwitched"}
    /\ unsaved' = IF mem' = mem /\ disk' # disk THEN unsaved + 1 ELSE unsaved
    /\ unsaved' <= MaxUnsaved

WorkflowNext ==
    /\ \/ \E w \in Workflows : start(w) \/ cancel(w) \/ PackagingSettles(w)
       \/ StartPass
       \/ Reconcile
       \/ StoreStep
       \/ Restart
    /\ History
    /\ crashes' = IF phase = "serving" /\ phase' = "recovering" THEN crashes + 1 ELSE crashes

WorkflowSpec == WorkflowInit /\ [][WorkflowNext]_allVars

-----------------------------------------------------------------------------
(* Properties *)

(* The workflow records have the shape their Rust types give them. *)
WorkflowTypeOK ==
    \A w \in Workflows :
        /\ wf[w].status \in WorkflowStatus \cup {None}
        /\ wf[w].checkpoint \in WorkflowCheckpoint
        /\ wf[w].release \in Option({ReleaseOf[w]})
        /\ wf[w].op \in Option({PublishOp(w), RollbackOp(w)})

(***************************************************************************)
(* A workflow that says Completed saw its own operation complete, with the *)
(* release it packaged, and one that says RolledBack saw the rollback      *)
(* itself complete, although the controller works on a copy of the         *)
(* workflow and on an operation that may fail, be replayed or be super-    *)
(* seded between two passes (observe_publication, observe_rollback).       *)
(***************************************************************************)
OutcomeIsTrue ==
    \A w \in Workflows :
        /\ wf[w].status = "Completed" =>
              /\ wf[w].op \in completed
              /\ mem.operations[wf[w].op].request.release = wf[w].release
        /\ wf[w].status = "RolledBack" => RollbackOp(w) \in completed

(***************************************************************************)
(* A workflow publishes only what the packager validated, and only over    *)
(* the generation its client saw when it clicked: an intent committed      *)
(* meanwhile, by anyone, makes it fail instead of being overwritten, also  *)
(* when the commit is retried after a restart (commit_publication).        *)
(***************************************************************************)
NoLostUpdate ==
    \A w \in Workflows : Known(mem, PublishOp(w)) =>
        /\ mem.operations[PublishOp(w)].gen = wf[w].expectedGeneration + 1
        /\ packaged[w] = "Validated"

(***************************************************************************)
(* Completed, Failed and RolledBack are final: no later pass, restart or   *)
(* cancellation changes them.  A cancellation stands when the running pass *)
(* holds no copy of the workflow, and no later pass takes one; when the    *)
(* running pass does, advance, which compares the checkpoint and not the   *)
(* status, or record_error may overwrite it (terminal, nonterminal,        *)
(* cancel).                                                                *)
(***************************************************************************)
OutcomeStands ==
    [][\A w \in Workflows :
         /\ wf[w].status \in {"Completed", "Failed", "RolledBack"} => wf'[w] = wf[w]
         /\ wf[w].status = "Cancelled" /\ (\A i \in DOMAIN pass : pass[i].id # w)
            => /\ wf'[w] = wf[w]
               /\ \A i \in DOMAIN pass' : pass'[i].id # w]_allVars
=============================================================================
