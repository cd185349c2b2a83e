---------------------------- MODULE DraftPreviews ----------------------------
(***************************************************************************)
(* The Draft of one project: DraftPreviewStore (sessions with a writer      *)
(* lease, an epoch and three revisions), EditGuardStore (edit plans and     *)
(* their approvals), the tools of the runs that use them (preview.dev_start,*)
(* dev_status, dev_stop, draft.restore and the file mutations) and the HTTP *)
(* routes (takeover, plans, publication of a draft revision).               *)
(*                                                                         *)
(* Every store operation holds its lock and persists the session before it  *)
(* replaces the one in memory, so one is one step and a crash of the process *)
(* loses no session; a tool awaits the sandbox between its operations and   *)
(* can be dropped there (deadline, cancellation or crash: Abandon, Crash).  *)
(* Sources are abstracted to the set of edits the workspace holds; a lease  *)
(* is named by the epoch that minted it; time is the step Expire, so a      *)
(* heartbeat, which only postpones it, is not a step.                       *)
(***************************************************************************)
EXTENDS Integers, FiniteSets, Sequences

CONSTANTS
    Runs,          \* agent runs of the project
    None,          \* no plan, no EditBase
    MaxRestarts,   \* MAX_RESTARTS of draft_preview.rs (2 there)
    MaxSessions,   \* bound: sessions of the project
    MaxEdits,      \* bound: file mutations
    MaxEpoch,      \* bound: takeovers and restarts of one session
    MaxTools,      \* bound: tools the runs execute
    MaxPlans       \* bound: edit plans

ASSUME Bounds ==
    /\ IsFiniteSet(Runs) /\ Runs # {}
    /\ {MaxRestarts, MaxSessions, MaxEdits, MaxEpoch, MaxTools, MaxPlans} \subseteq Nat

VARIABLES
    sessions,   \* the sessions, in the order they were started
    process,    \* the dev server of each session's preview lease
    devState,   \* state/dev-preview.json: the session the tools follow
    files,      \* the edits the workspace holds
    edits,      \* number of edits made
    frozen,     \* the draft snapshots, by content
    plans, approved, consumed,  \* EditGuardStore
    run,        \* phase, frozen EditBase and plan of each run
    op,         \* the tool each run executes and its next step
    tools,      \* number of tools executed
    history,    \* per session: edits committed, by revision
    seen,       \* per session: revision and epoch at the last sample of the
                \* dev server that made it ready, epoch of its last restart
    used,       \* plans and the runs that mutated under them
    dropped     \* edits that a draft.restore took out of the workspace

storeVars == <<sessions, history, seen>>
guardVars == <<plans, approved, consumed, used>>
sandboxVars == <<process, devState, files, edits, frozen, dropped>>

vars == <<storeVars, guardVars, sandboxVars, run, op, tools>>

Edits == 1..MaxEdits
Ids == 1..Len(sessions)

Statuses == {"Starting", "Ready", "Updating", "CompileError", "Restarting",
             "Failed", "Stopped"}

NewSession(snapshot) ==
    [status |-> "Starting", epoch |-> 1, lease |-> 1, live |-> TRUE,
     ws |-> 0, ready |-> 0, durable |-> 0, snap |-> snapshot, publish |-> 0,
     restarts |-> 0]

Unseen == [rev |-> 0, epoch |-> 1, since |-> 1]

NewRun == [st |-> "new", plan |-> None, base |-> None, preflight |-> FALSE]

Idle == [pc |-> "idle"]

(* Nothing yet, or the session an earlier run has left behind.             *)
Init ==
    /\ \E left \in 0..1 :
          /\ sessions = [i \in 1..left |-> NewSession({})]
          /\ process = [i \in 1..left |-> "running"]
          /\ history = [i \in 1..left |-> <<>>]
          /\ seen = [i \in 1..left |-> Unseen]
          /\ devState = left
          /\ frozen = {{} : i \in 1..left}
    /\ files = {} /\ edits = 0 /\ dropped = {}
    /\ plans = {} /\ approved = {} /\ consumed = {} /\ used = {}
    /\ run = [r \in Runs |-> NewRun]
    /\ op = [r \in Runs |-> Idle] /\ tools = 0

-----------------------------------------------------------------------------
(* DraftPreviewStore.                                                      *)

Active(s) ==
    /\ sessions[s].status \notin {"Stopped", "Failed"}
    /\ sessions[s].live

NoneActive == \A s \in Ids : ~Active(s)

(* Of several active sessions the newest.                                  *)
active_for_project(s) ==
    /\ Active(s)
    /\ \A o \in Ids : Active(o) => o <= s

validate_process_epoch(s, epoch) ==
    sessions[s].epoch = epoch /\ sessions[s].status # "Stopped"

validate_writer(s, lease, epoch) ==
    /\ validate_process_epoch(s, epoch)
    /\ sessions[s].lease = lease
    /\ sessions[s].live

(* update_session: what a store operation leaves of session s.             *)
Update(s, new) == sessions' = [sessions EXCEPT ![s] = new]

start(snapshot) ==
    /\ sessions' = Append(sessions, NewSession(snapshot))
    /\ history' = Append(history, <<>>)
    /\ seen' = Append(seen, Unseen)

Committable(s, copy) ==
    validate_writer(s, copy.lease, copy.epoch) /\ sessions[s].ws = copy.ws

commit_revision(s, edit) ==
    /\ Update(s, [sessions[s] EXCEPT !.ws = @ + 1, !.status = "Updating"])
    /\ history' = [history EXCEPT ![s] = Append(@, edit)]

Readiable_AnyEpoch(s, epoch, revision) ==
    revision \in sessions[s].ready .. sessions[s].ws

(* The tools ignore the error of a mark that comes too late.               *)
Readiable(s, epoch, revision) ==
    /\ validate_process_epoch(s, epoch)
    /\ revision \in sessions[s].ready .. sessions[s].ws

mark_ready(s, epoch, revision, sampled) ==
    IF Readiable(s, epoch, revision)
    THEN /\ Update(s, [sessions[s] EXCEPT !.ready = revision, !.status = "Ready"])
         /\ LET last == seen[s].rev IN
            seen' = [seen EXCEPT ![s].rev = IF sampled.rev > last THEN sampled.rev ELSE last,
                                 ![s].epoch = sampled.epoch]
    ELSE UNCHANGED <<sessions, seen>>

mark_compile_error(s, epoch) ==
    IF validate_process_epoch(s, epoch)
    THEN Update(s, [sessions[s] EXCEPT !.status = "CompileError"])
    ELSE UNCHANGED sessions

MayBeDurable(s, copy) ==
    /\ validate_writer(s, copy.lease, copy.epoch)
    /\ copy.ws \in sessions[s].durable .. sessions[s].ws

mark_durable_Latest(s, copy, snapshot) ==
    Update(s, [sessions[s] EXCEPT !.durable = sessions[s].ws, !.snap = snapshot])

mark_durable(s, copy, snapshot) ==
    Update(s, [sessions[s] EXCEPT !.durable = copy.ws, !.snap = snapshot])

(* The restart budget: the third exit fails the session.                   *)
begin_restart(s) ==
    IF sessions[s].restarts >= MaxRestarts
    THEN /\ Update(s, [sessions[s] EXCEPT !.status = "Failed"])
         /\ UNCHANGED seen
    ELSE /\ Update(s, [sessions[s] EXCEPT !.restarts = @ + 1, !.epoch = @ + 1,
                                          !.status = "Restarting"])
         /\ seen' = [seen EXCEPT ![s].since = sessions[s].epoch + 1]

stop(s) == Update(s, [sessions[s] EXCEPT !.status = "Stopped", !.live = FALSE])

(* A writer lease runs out.                                                *)
Expire(s) ==
    /\ sessions[s].live
    /\ Update(s, [sessions[s] EXCEPT !.live = FALSE])
    /\ UNCHANGED <<history, seen, guardVars, sandboxVars, run, op, tools>>

(* takeover looks at this session alone.                                   *)
takeover(s) ==
    /\ sessions[s].status # "Stopped"
    /\ ~sessions[s].live
    /\ sessions[s].epoch < MaxEpoch
    /\ Update(s, [sessions[s] EXCEPT !.epoch = @ + 1, !.lease = sessions[s].epoch + 1,
                                     !.live = TRUE])
    /\ UNCHANGED <<history, seen, guardVars, sandboxVars, run, op, tools>>

(* resolve_source of a publish workflow, with mark_publish_revision: the    *)
(* caller names the revision, the epoch and the snapshot it has seen.       *)
resolve_source(s) ==
    /\ sessions[s].durable \in (sessions[s].publish + 1) .. sessions[s].ready
    /\ Update(s, [sessions[s] EXCEPT !.publish = sessions[s].durable])
    /\ UNCHANGED <<history, seen, guardVars, sandboxVars, run, op, tools>>

-----------------------------------------------------------------------------
(* EditGuardStore.                                                         *)

BaseOf(s) == [s |-> s, epoch |-> sessions[s].epoch, rev |-> sessions[s].ws,
              snap |-> sessions[s].snap, lease |-> sessions[s].lease]

(* validate_current_session and validate_plan_current.                     *)
Current(base) == base = BaseOf(base.s) /\ sessions[base.s].live

create_plan(s, risky) ==
    /\ Current(BaseOf(s))
    /\ plans' = plans \union {[base |-> BaseOf(s), risky |-> risky]}
    /\ plans' # plans /\ Cardinality(plans') <= MaxPlans
    /\ UNCHANGED <<approved, consumed, used, storeVars, sandboxVars, run, op, tools>>

confirm(p) ==
    /\ Current(p.base)
    /\ p.risky /\ p \notin consumed
    /\ approved' = approved \union {p}
    /\ UNCHANGED <<plans, consumed, used, storeVars, sandboxVars, run, op, tools>>

Executable(p) == Current(p.base) /\ (p.risky => p \in approved \ consumed)

consume_Reusable(p) == Current(p.base) /\ UNCHANGED consumed

(* preflight_edit_mutation: the run's first mutation consumes the approval. *)
consume(p) ==
    /\ Executable(p)
    /\ consumed' = IF p.risky THEN consumed \union {p} ELSE consumed

-----------------------------------------------------------------------------
(* Runs.  validate_project_lifecycle_context looks for another active run   *)
(* before the run exists, so two starts may both pass it.                   *)

Admit(r, plan) ==
    /\ run[r].st = "new"
    /\ \A o \in Runs : run[o].st # "active"
    /\ plan # None => Executable(plan)
    /\ run' = [run EXCEPT ![r].st = "admitted", ![r].plan = plan]
    /\ UNCHANGED <<storeVars, guardVars, sandboxVars, op, tools>>

Create(r) ==
    /\ run[r].st = "admitted"
    /\ run' = [run EXCEPT ![r].st = "active",
                 ![r].base = IF run[r].plan = None THEN None ELSE run[r].plan.base]
    /\ UNCHANGED <<storeVars, guardVars, sandboxVars, op, tools>>

End(r) ==
    /\ run[r].st = "active" /\ op[r] = Idle
    /\ run' = [run EXCEPT ![r].st = "ended"]
    /\ UNCHANGED <<storeVars, guardVars, sandboxVars, op, tools>>

(* What a tool keeps of the session it read.                                *)
Seen(s) == [lease |-> sessions[s].lease, epoch |-> sessions[s].epoch,
            ws |-> sessions[s].ws]

Free(r) == run[r].st = "active" /\ op[r] = Idle /\ tools < MaxTools

At(r, pc) == op[r].pc = pc

(* Run r executes a tool.                                                   *)
Begin(r, new) ==
    /\ Free(r)
    /\ op' = [op EXCEPT ![r] = new]
    /\ tools' = tools + 1

Goto(r, new) == op' = [op EXCEPT ![r] = new] /\ UNCHANGED tools

(* The tool's future is dropped at one of its awaits.                       *)
Abandon(r) ==
    /\ op[r] # Idle
    /\ Goto(r, Idle)
    /\ UNCHANGED <<storeVars, guardVars, sandboxVars, run>>

(* The process stops between the append of a consumed approval and the append *)
(* of the run that consumed it; any other crash is an Abandon of every run.   *)
Crash(r) ==
    /\ At(r, "validate") /\ run[r].preflight /\ \A u \in used : u[2] # r
    /\ run' = [run EXCEPT ![r].preflight = FALSE]
    /\ op' = [o \in Runs |-> Idle]
    /\ UNCHANGED <<tools, storeVars, guardVars, sandboxVars>>

-----------------------------------------------------------------------------
(* A file mutation: fs, project, style, component, package and asset tools.  *)

preflight_edit_mutation(r) ==
    /\ edits < MaxEdits
    /\ IF run[r].plan = None \/ run[r].preflight
       THEN UNCHANGED consumed
       ELSE consume(run[r].plan)
    /\ run' = [run EXCEPT ![r].preflight = TRUE]
    /\ Begin(r, [pc |-> "validate"])
    /\ UNCHANGED <<plans, approved, used, storeVars, sandboxVars>>

validate_dev_mutation(r) ==
    /\ At(r, "validate")
    /\ IF run[r].base = None \/ Current(run[r].base)
       THEN Goto(r, [pc |-> "write"])
       ELSE Goto(r, Idle)
    /\ UNCHANGED <<storeVars, guardVars, sandboxVars, run>>

Write(r) ==
    /\ At(r, "write") /\ edits < MaxEdits
    /\ edits' = edits + 1
    /\ files' = files \union {edits + 1}
    /\ used' = IF run[r].plan = None THEN used ELSE used \union {<<run[r].plan, r>>}
    /\ Goto(r, [pc |-> "record", edit |-> edits + 1])
    /\ UNCHANGED <<dropped, process, devState, frozen, plans, approved, consumed, storeVars,
                   run>>

(* record_dev_mutation takes lease, epoch and revision from the session it   *)
(* reads now, not from the EditBase that was validated before the write.     *)
ReadSession(r) ==
    /\ At(r, "record")
    /\ \/ run[r].base = None /\ NoneActive /\ Goto(r, Idle)
       \/ \E s \in Ids :
             /\ IF run[r].base = None THEN active_for_project(s) ELSE s = run[r].base.s
             /\ Goto(r, [pc |-> "commit", s |-> s, copy |-> Seen(s),
                         edit |-> op[r].edit])
    /\ UNCHANGED <<storeVars, guardVars, sandboxVars, run>>

CommitRevision(r) ==
    /\ At(r, "commit")
    /\ LET o == op[r]
       IN  IF Committable(o.s, o.copy)
           THEN /\ commit_revision(o.s, o.edit)
                /\ Goto(r, [pc |-> "freeze", s |-> o.s,
                            copy |-> [o.copy EXCEPT !.ws = @ + 1]])
           ELSE Goto(r, Idle) /\ UNCHANGED <<sessions, history>>
    /\ UNCHANGED <<seen, guardVars, sandboxVars, run>>

freeze_draft_revision(r) ==
    /\ At(r, "freeze")
    /\ frozen' = frozen \union {files}
    /\ Goto(r, [pc |-> "durable", s |-> op[r].s, copy |-> op[r].copy, snap |-> files])
    /\ UNCHANGED <<dropped, process, devState, files, edits, storeVars, guardVars, run>>

(* advance_run_draft_edit_base.                                            *)
Advanced(base, copy, snapshot) ==
    IF base # None /\ base.epoch = copy.epoch /\ base.rev = copy.ws - 1
    THEN [base EXCEPT !.rev = copy.ws, !.snap = snapshot]
    ELSE base

MarkDurable(r) ==
    /\ At(r, "durable")
    /\ LET o == op[r]
       IN  IF MayBeDurable(o.s, o.copy)
           THEN /\ mark_durable(o.s, o.copy, o.snap)
                /\ run' = [run EXCEPT ![r].base = Advanced(@, o.copy, o.snap)]
           ELSE UNCHANGED <<sessions, run>>
    /\ Goto(r, Idle)
    /\ UNCHANGED <<history, seen, guardVars, sandboxVars>>

-----------------------------------------------------------------------------
(* The dev server of a session (external): it exits when it likes and its    *)
(* log tail may or may not show that it is ready or failed to compile.       *)

start_process(s) == process' = [process EXCEPT ![s] = "running"]

Exit(s) ==
    /\ process[s] = "running"
    /\ process' = [process EXCEPT ![s] = "exited"]
    /\ UNCHANGED <<dropped, devState, files, edits, frozen, storeVars, guardVars, run, op, tools>>

(* preview.dev_start reuses an active session.                             *)
DevStart(r) ==
    /\ NoneActive
    /\ Begin(r, [pc |-> "devFreeze"])
    /\ UNCHANGED <<storeVars, guardVars, sandboxVars, run>>

DevFreeze(r) ==
    /\ At(r, "devFreeze")
    /\ frozen' = frozen \union {files}
    /\ Goto(r, [pc |-> "devOpen", snap |-> files])
    /\ UNCHANGED <<dropped, process, devState, files, edits, storeVars, guardVars, run>>

DevOpen(r) ==
    /\ At(r, "devOpen")
    /\ IF ~NoneActive
       THEN Goto(r, Idle) /\ UNCHANGED <<storeVars, process>>
       ELSE /\ Len(sessions) < MaxSessions
            /\ start(op[r].snap)
            /\ process' = Append(process, "none")
            /\ Goto(r, [pc |-> "devLaunch", s |-> Len(sessions) + 1])
    /\ UNCHANGED <<dropped, devState, files, edits, frozen, guardVars, run>>

DevLaunch(r) ==
    /\ At(r, "devLaunch")
    /\ \/ /\ start_process(op[r].s)
          /\ Goto(r, [pc |-> "devState", s |-> op[r].s])
          /\ UNCHANGED sessions
       \/ /\ stop(op[r].s)
          /\ Goto(r, Idle)
          /\ UNCHANGED process
    /\ UNCHANGED <<dropped, devState, files, edits, frozen, history, seen, guardVars, run>>

(* The process may be ready at once; then the state file is written.        *)
DevState(r) ==
    /\ At(r, "devState")
    /\ \/ mark_ready(op[r].s, 1, 0, Unseen)
       \/ UNCHANGED <<sessions, seen>>
    /\ devState' = op[r].s
    /\ Goto(r, Idle)
    /\ UNCHANGED <<dropped, history, process, files, edits, frozen, guardVars, run>>

(* preview.dev_status reads the session, then samples the process, then      *)
(* reports what it saw for the epoch and the revision it read.               *)
StatusRead(r) ==
    /\ devState # 0
    /\ Begin(r, [pc |-> "sample", s |-> devState, copy |-> Seen(devState), status |-> sessions[devState].status])
    /\ UNCHANGED <<storeVars, guardVars, sandboxVars, run>>

process_status(r) ==
    /\ At(r, "sample")
    /\ \E saw \in IF process[op[r].s] = "running" THEN {"ready", "error", "quiet"}
                   ELSE {"exited"} :
          Goto(r, [pc |-> "apply", s |-> op[r].s, copy |-> op[r].copy,
                   status |-> op[r].status, saw |-> saw, at |-> Seen(op[r].s)])
    /\ UNCHANGED <<storeVars, guardVars, sandboxVars, run>>

StatusApply(r) ==
    /\ At(r, "apply")
    /\ LET o == op[r]
       IN  CASE o.saw = "error" ->
                  /\ mark_compile_error(o.s, o.copy.epoch)
                  /\ Goto(r, Idle) /\ UNCHANGED seen
             [] o.saw = "ready" /\ o.status # "Ready" ->
                  /\ mark_ready(o.s, o.copy.epoch, o.copy.ws, [rev |-> o.at.ws, epoch |-> o.at.epoch])
                  /\ Goto(r, Idle)
             [] o.saw = "exited" /\ o.status \notin {"Failed", "Stopped"} ->
                  /\ sessions[o.s].epoch < MaxEpoch
                  /\ begin_restart(o.s)
                  /\ Goto(r, IF sessions'[o.s].status = "Restarting"
                             THEN [pc |-> "restart", s |-> o.s] ELSE Idle)
             [] OTHER -> Goto(r, Idle) /\ UNCHANGED <<sessions, seen>>
    /\ UNCHANGED <<history, guardVars, sandboxVars, run>>

StatusRestart(r) ==
    /\ At(r, "restart")
    /\ start_process(op[r].s)
    /\ Goto(r, Idle)
    /\ UNCHANGED <<dropped, devState, files, edits, frozen, storeVars, guardVars, run>>

(* preview.dev_stop, and the first half of draft.restore.                   *)
StopProcess(r) ==
    /\ devState # 0
    /\ process' = [process EXCEPT ![devState] = "exited"]
    /\ \E pc \in {"stop", "restoreStop"} :
          /\ pc = "restoreStop" => frozen # {}
          /\ Begin(r, [pc |-> pc, s |-> devState])
    /\ UNCHANGED <<dropped, devState, files, edits, frozen, storeVars, guardVars, run>>

StopSession(r) ==
    /\ op[r].pc \in {"stop", "restoreStop"}
    /\ stop(op[r].s)
    /\ Goto(r, IF At(r, "stop") THEN Idle ELSE [pc |-> "restore"])
    /\ UNCHANGED <<history, seen, guardVars, sandboxVars, run>>

(* draft.restore replaces the sources and starts a preview of them; like     *)
(* dev_start it reuses a session another run has started meanwhile.          *)
Restore(r) ==
    /\ At(r, "restore")
    /\ \E snapshot \in frozen : files' = snapshot
    /\ dropped' = dropped \union ((1..edits) \ files')
    /\ Goto(r, IF NoneActive THEN [pc |-> "devFreeze"] ELSE Idle)
    /\ UNCHANGED <<process, devState, edits, frozen, storeVars, guardVars, run>>

-----------------------------------------------------------------------------
Next ==
    \/ \E s \in Ids : \/ Expire(s) \/ takeover(s) \/ resolve_source(s) \/ Exit(s)
                      \/ \E risky \in BOOLEAN : create_plan(s, risky)
    \/ \E p \in plans : confirm(p)
    \/ \E r \in Runs :
          \/ \E plan \in plans \union {None} : Admit(r, plan)
          \/ Create(r) \/ End(r) \/ Abandon(r) \/ Crash(r)
          \/ preflight_edit_mutation(r) \/ validate_dev_mutation(r) \/ Write(r)
          \/ ReadSession(r) \/ CommitRevision(r) \/ freeze_draft_revision(r)
          \/ MarkDurable(r)
          \/ DevStart(r) \/ DevFreeze(r) \/ DevOpen(r) \/ DevLaunch(r) \/ DevState(r)
          \/ StatusRead(r) \/ process_status(r) \/ StatusApply(r) \/ StatusRestart(r)
          \/ StopProcess(r) \/ StopSession(r) \/ Restore(r)

Spec == Init /\ [][Next]_vars

-----------------------------------------------------------------------------
Committed(s, revision) == {history[s][i] : i \in 1..revision}

(* Type invariant: a session never claims a ready or durable revision its    *)
(* workspace has not reached, restarts stay within the budget, and the store *)
(* counts one revision for each commit.                                      *)
TypeOK ==
    /\ \A s \in Ids :
          /\ sessions[s].status \in Statuses
          /\ sessions[s].ready \in 0..sessions[s].ws
          /\ sessions[s].durable \in 0..sessions[s].ws
          /\ sessions[s].ws = Len(history[s])
          /\ sessions[s].restarts \in 0..MaxRestarts
          /\ sessions[s].lease \in 1..sessions[s].epoch
    /\ devState \in 0..Len(sessions)
    /\ files \subseteq Edits /\ edits \in 0..MaxEdits
    /\ approved \subseteq plans /\ consumed \subseteq plans

(* The snapshot a session calls durable holds every edit committed up to its *)
(* durable revision, although the sources are frozen after the commit, other *)
(* runs edit them meanwhile and marks arrive late (mark_durable); what a      *)
(* restore took out of the workspace excepted.                                *)
DurableIsComplete ==
    \A s \in Ids :
        Committed(s, sessions[s].durable) \ dropped \subseteq sessions[s].snap

(* A revision is ready only if the workspace already held it when the dev    *)
(* server was sampled, and a session is Ready only by a sample taken since    *)
(* its last restart: dev_status reports what it read before the sample, and   *)
(* the epoch refuses the report of a process that has been replaced           *)
(* meanwhile.  The revision a publish workflow took from a session stays one  *)
(* that was shown by the dev server and that the durable snapshot covers.     *)
ReadyWasSeen ==
    \A s \in Ids :
        /\ sessions[s].ready <= seen[s].rev
        /\ sessions[s].status = "Ready" => seen[s].epoch >= seen[s].since
        /\ sessions[s].publish <= sessions[s].durable
        /\ sessions[s].publish <= seen[s].rev

(* A plan that needs confirmation is confirmed before the first file changes  *)
(* and serves one run, whatever starts, crashes and confirmations race        *)
(* (confirm, validate_executable, consume).                                   *)
ApprovalOnce ==
    \A u \in used : u[1].risky =>
        /\ u[1] \in consumed \intersect approved
        /\ \A v \in used : v[1] = u[1] => v = u

=============================================================================
