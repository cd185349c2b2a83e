---------------------------- MODULE RunSuccession ----------------------------
(***************************************************************************)
(* The runs of one project and the sandboxes they share: who may start, who *)
(* succeeds whom, and which run works in which workspace.                   *)
(*                                                                         *)
(* RunLifecycleService::start checks a request, creates the run and prepares *)
(* its workspace in steps that other requests, cancellations and the        *)
(* continuation controller interleave with.  A run that stopped early       *)
(* (Partial) gets a successor from the controller, which freezes a snapshot  *)
(* of the run and continues it, or from a replaced edit plan; a child run    *)
(* (a review) shares its parent's sandbox.  Runs live in memory and in an    *)
(* append-only log; a crash keeps the log.                                  *)
(*                                                                         *)
(* The life of a single run's session is RunLifecycle's.                    *)
(***************************************************************************)
EXTENDS Integers, FiniteSets

CONSTANTS
    Api,           \* concurrent callers of the run API
    Sandboxes,     \* sandbox bindings of the project
    Offered,       \* those that exist at the start; the others are provisioned
    MaxRuns,       \* bound: runs ever created
    MaxCrashes     \* bound: crashes of the process

ASSUME SuccessionBounds ==
    /\ IsFiniteSet(Api)
    /\ Offered \subseteq Sandboxes /\ MaxRuns \in Nat /\ MaxCrashes \in Nat

VARIABLES
    runs,       \* the runs in memory, by id
    disk,       \* the latest snapshot of each run in the log
    next,       \* the next id: the counter is restored past every id in the log
    busy,       \* sandboxes marked Busy
    frozen,     \* continuation snapshots: run -> continuations counted before it
    continued,  \* runs with a RunContinuationCreated event
    working,    \* runs with a live session
    freezing,   \* Partial runs whose session has not tried to freeze them yet
    calls,      \* the start each caller has in flight
    boot,       \* startup: its stage, runs still to recover, runs to resume
    launched,   \* history: successors, children aside, that ever had a session
    unacquired, \* history: runs whose start ended before it acquired a sandbox
    crashes

stores == <<runs, disk, next, busy, frozen, continued>>

successionVars == <<stores, working, freezing, calls, boot, launched, unacquired, crashes>>

Ids == 1..MaxRuns

Nobody == 0

NoSandbox == "none"

NoRun ==
    [status |-> "None", phase |-> "None", parent |-> Nobody, pred |-> Nobody,
     succ |-> Nobody, op |-> Nobody, sandbox |-> NoSandbox,
     checkpoint |-> FALSE, snapshot |-> Nobody, replan |-> FALSE]

Closed == {"None", "Partial", "Closed"}

Active(r) == runs[r].status \notin Closed

Mutable == {"Build", "Edit"}

Controller == "controller"

Idle ==
    [step |-> "idle", kind |-> "none", phase |-> "None", from |-> Nobody,
     wanted |-> NoSandbox, run |-> Nobody]

Starting(r) == \E c \in DOMAIN calls : calls[c].run = r

SuccessionInit ==
    /\ runs = [r \in Ids |-> NoRun] /\ disk = runs
    /\ next = 1
    /\ busy = {} /\ frozen = [r \in Ids |-> 0] /\ continued = {}
    /\ working = {} /\ freezing = {}
    /\ calls = [c \in Api \cup {Controller} |-> Idle]
    /\ boot = [stage |-> "up", todo |-> {}, resumed |-> {}]
    /\ launched = {} /\ unacquired = {} /\ crashes = 0

-----------------------------------------------------------------------------
(* The store.                                                              *)

\* A run and the log's copy of it.
Save(r, rec) ==
    /\ runs' = [runs EXCEPT ![r] = rec]
    /\ disk' = [disk EXCEPT ![r] = rec]

\* Busy sandboxes once r is closed: its own is released unless another run
\* that is still active has it.
Released(r) ==
    IF \E o \in Ids \ {r} : Active(o) /\ runs[o].sandbox = runs[r].sandbox
    THEN busy
    ELSE busy \ {runs[r].sandbox}

\* A closed run keeps its status, and its session stops at its next look.
update_run_status(r, status) ==
    /\ Active(r)
    /\ status = "Partial" => runs[r].checkpoint
    /\ Save(r, [runs[r] EXCEPT !.status = status])
    /\ IF status \in Closed
       THEN busy' = Released(r) /\ working' = working \ {r}
       ELSE UNCHANGED <<busy, working>>

\* The least set of runs that holds r and, with a run, the one it leads up to.
Line(r, up) ==
    {q \in Ids : \A S \in SUBSET Ids :
        r \in S \cup {Nobody} /\ (\A x \in S : up[x] \in S \cup {Nobody}) => q \in S}

\* A run and its ancestors by parent.
allowed_workspace_holder_ids(r) == Line(r, [q \in Ids |-> runs[q].parent])

\* No active run but r itself and the allowed ones is bound to the sandbox.
Available(s, r, allowed) ==
    \A o \in Ids \ {r} :
        Active(o) /\ runs[o].sandbox = s => o \in allowed_workspace_holder_ids(allowed)

-----------------------------------------------------------------------------
(* start: the request and its checks.                                      *)

\* A request that may still create a run counts towards the bound on runs.
Pending == {c \in DOMAIN calls : calls[c] # Idle /\ calls[c].run = Nobody}

Request(c, kind, phase, from, wanted) ==
    /\ calls[c] = Idle
    /\ next + Cardinality(Pending) <= MaxRuns
    /\ calls' = [calls EXCEPT ![c] =
         [step |-> "sandbox", kind |-> kind, phase |-> phase, from |-> from,
          wanted |-> wanted, run |-> Nobody]]

At(c, step) == calls[c].step = step

Goto(c, step) == calls' = [calls EXCEPT ![c].step = step]

Answer(c) == calls' = [calls EXCEPT ![c] = Idle]

StartInitial(c) ==
    /\ boot.stage = "up"
    /\ \E phase \in Mutable, wanted \in Offered \cup {NoSandbox} :
          Request(c, "initial", phase, Nobody, wanted)
    /\ UNCHANGED <<stores, working, freezing, boot, launched, unacquired, crashes>>

\* A review of a run that has a sandbox.
StartChild(c) ==
    /\ boot.stage = "up"
    /\ \E p \in Ids :
          /\ runs[p].status # "None" /\ ~Starting(p)
          /\ Request(c, "child", "Review", p, NoSandbox)
    /\ UNCHANGED <<stores, working, freezing, boot, launched, unacquired, crashes>>

\* A confirmed replacement plan closes a run that waits for it and asks for
\* its successor.
dispatch_replan_successor(c) ==
    /\ boot.stage = "up"
    /\ \E p \in Ids :
          /\ runs[p].replan /\ runs[p].succ = Nobody /\ ~Starting(p)
          /\ Request(c, "replan", runs[p].phase, p, runs[p].sandbox)
          /\ \/ runs[p].status = "Partial" /\ UNCHANGED <<runs, disk, busy, working>>
             \/ runs[p].status = "NeedsUserInput" /\ update_run_status(p, "Partial")
    /\ UNCHANGED <<next, frozen, continued, freezing, boot, launched, unacquired, crashes>>

Eligible_Repeatedly(p) ==
    runs[p].status = "Partial" /\ runs[p].snapshot = p /\ frozen[p] < 1

\* What the snapshot of p must still find: p closed early, without successor,
\* and none of its operation continued when it was frozen.
Eligible(p) ==
    /\ runs[p].status = "Partial"
    /\ runs[p].succ = Nobody
    /\ frozen[p] < 1
    /\ runs[p].snapshot = p

\* A pass of the controller, which runs from the start of the process on.
dispatch_continuation_successor ==
    /\ \E r \in Ids :
          /\ runs[r].status = "Partial" /\ runs[r].succ = Nobody
          /\ runs[r].snapshot # Nobody
          /\ LET p == runs[r].snapshot IN
                /\ Eligible(p)
                /\ Request(Controller, "continue", runs[p].phase, p, runs[p].sandbox)
    /\ UNCHANGED <<stores, working, freezing, boot, launched, unacquired, crashes>>

\* A request without sandbox names its parent's.
validate_sandbox_context(c) ==
    LET from == calls[c].from
        s == IF calls[c].wanted # NoSandbox THEN calls[c].wanted
             ELSE IF from # Nobody THEN runs[from].sandbox ELSE NoSandbox
    IN  /\ At(c, "sandbox")
        /\ IF /\ s = NoSandbox => from = Nobody
              /\ s # NoSandbox => Available(s, Nobody, from)
           THEN Goto(c, "project")
           ELSE Answer(c)
        /\ UNCHANGED <<stores, working, freezing, boot, launched, unacquired, crashes>>

\* One active run that changes the project; a child is not counted.
validate_project_lifecycle_context(c) ==
    /\ At(c, "project")
    /\ IF /\ calls[c].phase \in Mutable /\ calls[c].kind # "child"
          /\ \E r \in Ids : Active(r) /\ runs[r].phase \in Mutable
       THEN Answer(c)
       ELSE Goto(c, "create")
    /\ UNCHANGED <<stores, working, freezing, boot, launched, unacquired, crashes>>

-----------------------------------------------------------------------------
(* start: the run is created, and recorded after the lock is released.     *)

Queued(phase, op) ==
    [NoRun EXCEPT !.status = "Queued", !.phase = phase, !.op = op]

Insert(c, rec, preds) ==
    /\ next' = next + 1
    /\ runs' = [preds EXCEPT ![next] = rec]
    /\ calls' = [calls EXCEPT ![c].run = next,
                              ![c].step = IF calls[c].from = Nobody THEN "record" ELSE "pred"]

create_run_with_context(c) ==
    /\ calls[c].kind = "initial"
    /\ Insert(c, Queued(calls[c].phase, next), runs)

\* The new run shares the parent's sandbox and checkpoint, and becomes its
\* successor whatever successor it had.
create_child_run(c) ==
    LET p == calls[c].from IN
    /\ calls[c].kind = "child"
    /\ Insert(c, [Queued(calls[c].phase, runs[p].op) EXCEPT
                     !.parent = p, !.pred = p, !.sandbox = runs[p].sandbox,
                     !.checkpoint = runs[p].checkpoint],
              [runs EXCEPT ![p].succ = next])

Replaceable(p) ==
    runs[p].status = "Partial" /\ runs[p].replan /\ runs[p].succ = Nobody

create_replan_successor_run(c) ==
    LET p == calls[c].from IN
    /\ calls[c].kind = "replan"
    /\ Replaceable(p)
    /\ Insert(c, [Queued(calls[c].phase, runs[p].op) EXCEPT !.pred = p],
              [runs EXCEPT ![p].succ = next])

\* A clone of the predecessor, its sandbox and its snapshot included.
create_continuation_successor_run(c) ==
    LET p == calls[c].from IN
    /\ calls[c].kind = "continue"
    /\ Eligible(p)
    /\ Insert(c, [runs[p] EXCEPT !.status = "Queued", !.parent = Nobody, !.pred = p,
                                 !.succ = Nobody, !.checkpoint = FALSE,
                                 !.replan = FALSE],
              [runs EXCEPT ![p].succ = next])

\* The predecessor is looked at again under the lock: it may have got a
\* successor since the request was checked.
Create(c) ==
    /\ At(c, "create")
    /\ \/ create_run_with_context(c)
       \/ create_child_run(c)
       \/ create_replan_successor_run(c)
       \/ create_continuation_successor_run(c)
       \/ /\ \/ calls[c].kind = "replan" /\ ~Replaceable(calls[c].from)
             \/ calls[c].kind = "continue" /\ ~Eligible(calls[c].from)
          /\ Answer(c) /\ UNCHANGED <<runs, next>>
    /\ UNCHANGED <<disk, busy, frozen, continued, working, freezing, boot, launched,
                   unacquired, crashes>>

\* First the predecessor.  Of two snapshots the log's reader takes the newer.
RecordPredecessor(c) ==
    /\ At(c, "pred")
    /\ disk' = [disk EXCEPT ![calls[c].from].succ =
                   IF @ < calls[c].run THEN calls[c].run ELSE @]
    /\ Goto(c, "record")
    /\ UNCHANGED <<runs, next, busy, frozen, continued, working, freezing, boot,
                   launched, unacquired, crashes>>

RecordRun(c) ==
    LET r == calls[c].run IN
    /\ At(c, "record")
    /\ disk' = IF disk[r] = NoRun THEN [disk EXCEPT ![r] = runs[r]] ELSE disk
    /\ Goto(c, IF calls[c].kind = "continue" THEN "event" ELSE "bind")
    /\ UNCHANGED <<runs, next, busy, frozen, continued, working, freezing, boot,
                   launched, unacquired, crashes>>

RecordContinuation(c) ==
    /\ At(c, "event")
    /\ continued' = continued \cup {calls[c].run}
    /\ Goto(c, "bind")
    /\ UNCHANGED <<runs, disk, next, busy, frozen, working, freezing, boot, launched,
                   unacquired, crashes>>

-----------------------------------------------------------------------------
(* start: the sandbox, the workspace and the session.                      *)

\* A step failed: the run is cancelled, unless it is closed already.
compensate_created_run_error(c) ==
    /\ Answer(c)
    /\ \/ update_run_status(calls[c].run, "Closed")
       \/ ~Active(calls[c].run) /\ UNCHANGED <<runs, disk, busy, working>>

\* A step that can fail: profile, design context, provisioning, the workspace.
StepFails(c) ==
    /\ calls[c].step \in {"bind", "prepare"}
    /\ compensate_created_run_error(c)
    /\ UNCHANGED <<next, frozen, continued, freezing, boot, launched, unacquired, crashes>>

\* An edit plan that does not fit is refused without compensation: the run
\* stays queued.
set_run_edit_context_error(c) ==
    /\ At(c, "bind") /\ calls[c].kind = "initial" /\ calls[c].phase = "Edit"
    /\ Answer(c)
    /\ unacquired' = unacquired \cup {calls[c].run}
    /\ UNCHANGED <<stores, working, freezing, boot, launched, crashes>>

\* A profile conflict or a capability gap leaves the new run to the user,
\* before its sandbox is acquired.
StartPauses(c) ==
    LET r == calls[c].run IN
    /\ At(c, "bind")
    /\ Answer(c)
    /\ \/ update_run_status(r, "NeedsUserInput") /\ unacquired' = unacquired \cup {r}
       \/ ~Active(r) /\ UNCHANGED <<runs, disk, busy, working, unacquired>>
    /\ UNCHANGED <<next, frozen, continued, freezing, boot, launched, crashes>>

\* The requested sandbox, the inherited one, or one that is provisioned.
\* Nobody looks whether the run was cancelled meanwhile.
bind_run_to_sandbox(c) ==
    LET r == calls[c].run IN
    /\ At(c, "bind")
    /\ \E s \in Sandboxes :
          /\ IF calls[c].wanted # NoSandbox THEN s = calls[c].wanted
             ELSE IF runs[r].sandbox # NoSandbox THEN s = runs[r].sandbox
             ELSE s \notin Offered /\ \A o \in Ids : runs[o].sandbox # s
          /\ Save(r, [runs[r] EXCEPT !.sandbox = s])
    /\ Goto(c, "acquire")
    /\ UNCHANGED <<next, busy, frozen, continued, working, freezing, boot, launched,
                   unacquired, crashes>>

acquire_sandbox_binding_for_run_Unchecked(r, allowed) ==
    busy' = busy \cup {runs[r].sandbox}

\* Under the lock, with the sandbox's users looked at again.
acquire_sandbox_binding_for_run(r, allowed) ==
    /\ Available(runs[r].sandbox, r, allowed)
    /\ busy' = busy \cup {runs[r].sandbox}

Acquire(c) ==
    LET r == calls[c].run IN
    /\ At(c, "acquire")
    /\ \/ /\ acquire_sandbox_binding_for_run(r, calls[c].from)
          /\ Goto(c, "prepare")
          /\ UNCHANGED <<runs, disk, working>>
       \/ /\ ~Available(runs[r].sandbox, r, calls[c].from)
          /\ compensate_created_run_error(c)
    /\ UNCHANGED <<next, frozen, continued, freezing, boot, launched, unacquired, crashes>>

\* The session of an active run makes it Running; one of a closed run ends at
\* once.
LaunchAll(R, launching) ==
    LET started == {r \in launching : R[r].status \notin Closed}
        S == [r \in Ids |-> IF r \in started THEN [R[r] EXCEPT !.status = "Running"] ELSE R[r]]
    IN  /\ runs' = S
        /\ disk' = [r \in Ids |-> IF r \in launching THEN S[r] ELSE disk[r]]
        /\ working' = working \cup started
        /\ launched' = launched \cup {r \in started : R[r].pred # Nobody /\ R[r].parent = Nobody}

\* The workspace is ready: first checkpoint, and the session, except of an
\* Edit that waits for its first message.  A registration that fails leaves
\* the run queued.
WorkspaceReady(c) ==
    LET r == calls[c].run IN
    /\ At(c, "prepare")
    /\ Answer(c)
    /\ LET R == [runs EXCEPT ![r].checkpoint = TRUE] IN
       \/ /\ calls[c].phase # "Edit" \/ calls[c].kind = "continue"
          /\ LaunchAll(R, {r})
       \/ Save(r, R[r]) /\ UNCHANGED <<working, launched>>
    /\ UNCHANGED <<next, busy, frozen, continued, freezing, boot, unacquired, crashes>>

-----------------------------------------------------------------------------
(* Sessions, users and the process.                                        *)

\* A session stops early, and then freezes what it leaves.
StopEarly(r, replan) ==
    /\ Save(r, [runs[r] EXCEPT !.status = "Partial", !.checkpoint = TRUE, !.replan = replan])
    /\ busy' = Released(r)
    /\ working' = working \ {r}
    /\ freezing' = freezing \cup {r}

FinalizePartial(r) ==
    /\ r \in working
    /\ StopEarly(r, runs[r].replan)
    /\ UNCHANGED <<next, frozen, continued, calls, boot, launched, unacquired, crashes>>

\* The runs of the same operation that a continuation created.
Continuations(r) == {o \in continued : runs[o].op = runs[r].op}

\* Without source snapshot, progress or budget nothing is frozen.
create_run_continuation_snapshot(r) ==
    /\ r \in freezing
    /\ freezing' = freezing \ {r}
    /\ \/ /\ runs[r].status = "Partial" /\ runs[r].succ = Nobody
          /\ frozen' = [frozen EXCEPT ![r] = Cardinality(Continuations(r))]
          /\ Save(r, [runs[r] EXCEPT !.snapshot = r])
       \/ UNCHANGED <<runs, disk, frozen>>
    /\ UNCHANGED <<next, busy, continued, working, calls, boot, launched, unacquired,
                   crashes>>

\* A tool reports a stale base: the session goes on and notes that another
\* plan is needed.
record_progress_fingerprint(r) ==
    /\ r \in working /\ runs[r].phase = "Edit"
    /\ Save(r, [runs[r] EXCEPT !.replan = TRUE])
    /\ UNCHANGED <<next, busy, frozen, continued, working, freezing, calls, boot,
                   launched, unacquired, crashes>>

\* A mutation outside the plan: the tool stops the run, which has a checkpoint
\* of this turn, and the session finalises it.
mark_run_replan_required(r) ==
    /\ r \in working /\ runs[r].phase = "Edit"
    /\ StopEarly(r, TRUE)
    /\ UNCHANGED <<next, frozen, continued, calls, boot, launched, unacquired, crashes>>

\* A session that asks the user.
SessionPauses(r) ==
    /\ r \in working
    /\ Save(r, [runs[r] EXCEPT !.status = "NeedsUserInput"])
    /\ working' = working \ {r}
    /\ UNCHANGED <<next, busy, frozen, continued, freezing, calls, boot, launched,
                   unacquired, crashes>>

\* A session ends, or the user cancels the run at any time.
EndOrCancel(r) ==
    /\ boot.stage = "up" \/ r \in working
    /\ update_run_status(r, "Closed")
    /\ UNCHANGED <<next, frozen, continued, freezing, calls, boot, launched, unacquired,
                   crashes>>

\* A message for an Edit that conflicts with its brief or design leaves the
\* run to the user; an enforced design constraint asks for another plan.
check_edit_conflicts(r) ==
    /\ runs[r].phase = "Edit"
    /\ \E replan \in {runs[r].replan, TRUE} :
          Save(r, [runs[r] EXCEPT !.status = "NeedsUserInput", !.replan = replan])
    /\ UNCHANGED <<working, launched>>

\* The run's start has answered.  Nothing is acquired here.
continue_run(r) ==
    /\ boot.stage = "up" /\ ~Starting(r)
    /\ runs[r].status \in {"Queued", "NeedsUserInput"}
    /\ check_edit_conflicts(r) \/ LaunchAll(runs, {r})
    /\ UNCHANGED <<next, busy, frozen, continued, freezing, calls, boot, unacquired,
                   crashes>>

\* Memory, sessions and calls are gone.
Crash ==
    /\ crashes < MaxCrashes
    /\ crashes' = crashes + 1
    /\ runs' = disk
    /\ working' = {} /\ freezing' = {}
    /\ calls' = [c \in DOMAIN calls |-> Idle]
    /\ boot' = [stage |-> "down", todo |-> {}, resumed |-> {}]
    /\ UNCHANGED <<disk, next, busy, frozen, continued, launched, unacquired>>

Interrupted(r) == runs[r].status \in {"Queued", "Running"}

runs_requiring_recovery ==
    /\ boot.stage = "down"
    /\ boot' = [boot EXCEPT !.stage = "recovering",
                            !.todo = {r \in Ids : Interrupted(r)}]
    /\ UNCHANGED <<stores, working, freezing, calls, launched, unacquired, crashes>>

\* An interrupted run with a checkpoint gets its sandbox back, if no other
\* active run has it, its parent included.
recover_run(r) ==
    /\ r \in boot.todo
    /\ \/ /\ ~Interrupted(r)
          /\ boot' = [boot EXCEPT !.todo = @ \ {r}]
          /\ UNCHANGED <<runs, disk, busy, working, unacquired>>
       \/ /\ Interrupted(r) /\ runs[r].checkpoint
          /\ IF runs[r].sandbox = NoSandbox THEN UNCHANGED busy
             ELSE acquire_sandbox_binding_for_run(r, Nobody)
          /\ Save(r, [runs[r] EXCEPT !.status = "Running"])
          /\ boot' = [boot EXCEPT !.todo = @ \ {r}, !.resumed = @ \cup {r}]
          /\ unacquired' = unacquired \ {r}
          /\ UNCHANGED working
       \/ /\ Interrupted(r)
          /\ runs[r].checkpoint =>
                runs[r].sandbox # NoSandbox /\ ~Available(runs[r].sandbox, r, Nobody)
          /\ update_run_status(r, "Closed")
          /\ boot' = [boot EXCEPT !.todo = @ \ {r}]
          /\ UNCHANGED unacquired
    /\ UNCHANGED <<next, frozen, continued, freezing, calls, launched, crashes>>

\* The resumed runs get their sessions, and the API is served.
Serve ==
    /\ boot.stage = "recovering" /\ boot.todo = {}
    /\ boot' = [stage |-> "up", todo |-> {}, resumed |-> {}]
    /\ LaunchAll(runs, boot.resumed)
    /\ UNCHANGED <<next, busy, frozen, continued, freezing, calls, unacquired, crashes>>

-----------------------------------------------------------------------------
Start(c) ==
    \/ validate_sandbox_context(c) \/ validate_project_lifecycle_context(c)
    \/ Create(c)
    \/ RecordPredecessor(c) \/ RecordRun(c) \/ RecordContinuation(c)
    \/ StepFails(c) \/ set_run_edit_context_error(c) \/ StartPauses(c)
    \/ bind_run_to_sandbox(c) \/ Acquire(c) \/ WorkspaceReady(c)

SuccessionNext ==
    \/ \E c \in Api : StartInitial(c) \/ StartChild(c) \/ dispatch_replan_successor(c)
    \/ dispatch_continuation_successor
    \/ \E c \in DOMAIN calls : Start(c)
    \/ \E r \in Ids :
          \/ FinalizePartial(r) \/ create_run_continuation_snapshot(r)
          \/ record_progress_fingerprint(r) \/ mark_run_replan_required(r)
          \/ SessionPauses(r) \/ EndOrCancel(r)
          \/ continue_run(r) \/ recover_run(r)
    \/ Crash \/ runs_requiring_recovery \/ Serve

SuccessionSpec == SuccessionInit /\ [][SuccessionNext]_successionVars

-----------------------------------------------------------------------------
(* Properties.                                                             *)

\* A run and those it succeeds, its parent included.
Lineage(r) == Line(r, [q \in Ids |-> runs[q].pred])

\* A run uses its sandbox while its workspace is prepared and while it has a
\* session.
Uses(r) ==
    /\ Active(r) /\ runs[r].sandbox # NoSandbox
    /\ \/ r \in working
       \/ \E c \in DOMAIN calls : calls[c].run = r /\ At(c, "prepare")

\* Of two runs that use the same sandbox one descends from the other, however
\* starts, cancellations, continuations and a restart interleave; and that
\* sandbox is marked Busy.  Left out are runs whose start paused or failed
\* before it acquired the sandbox: continue_run lets them work in one that
\* another run may have acquired meanwhile.
OneWorker ==
    \A a \in Ids : Uses(a) /\ a \notin unacquired =>
        /\ runs[a].sandbox \in busy
        /\ \A b \in Ids \ (unacquired \cup {a}) :
              Uses(b) /\ runs[a].sandbox = runs[b].sandbox =>
                 a \in Lineage(b) \/ b \in Lineage(a)

\* The work of a run that stopped early is taken up once: of the successors
\* that are not children at most one ever gets a session, whether it came from
\* the controller or from a replaced plan, and no successor has two automatic
\* continuations in its line.
ContinuedOnce ==
    /\ \A a, b \in launched : runs[a].pred = runs[b].pred => a = b
    /\ \A r \in launched : Cardinality(Lineage(r) \cap continued \cap launched) <= 1

=============================================================================
