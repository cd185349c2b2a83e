---------------------------- MODULE RunLifecycle ----------------------------
(***************************************************************************)
(* The life of one agent run: RunLifecycleService (start, continue, cancel, *)
(* resolve_permission), the session launcher and its supervisor, a crash of *)
(* the process and the recovery at the next start, around the session of    *)
(* AgentLoop.                                                               *)
(*                                                                         *)
(* An API call reads the run, updates the store and launches a session in   *)
(* separate steps, so the session runs between them.  One such call is in   *)
(* flight at a time, and a cancellation besides it.                         *)
(***************************************************************************)
EXTENDS AgentLoop

CONSTANTS
    MaxCrashes,    \* bound: crashes of the process
    MaxRequests    \* bound: continue_run and resolve_permission calls

ASSUME LifecycleBounds == MaxCrashes \in Nat /\ MaxRequests \in Nat

VARIABLES
    api,         \* the API call in flight: operation, next step, its call
    cancelling,  \* cancel has set the status and not recorded the event yet
    up,          \* the process runs
    refused,     \* history: a launch met the old session's task
    crashes, requests

lifeVars == <<api, cancelling, up, refused, crashes, requests>>

vars == <<toolVars, loopVars, lifeVars>>

NoApi == [op |-> "none", step |-> "none", call |-> "none"]

ApiStep(op, step) == up /\ api.op = op /\ api.step = step

Then(step) == api' = [api EXCEPT !.step = step]

Return == api' = NoApi

quietTools == UNCHANGED <<ledger, exec, batch, effects, granted>>

quietLife == UNCHANGED <<cancelling, up, refused, crashes, requests>>

NewRun == [status |-> "Queued", checkpoint |-> FALSE, turn |-> 0, interrupt |-> FALSE]

Init ==
    /\ run = NewRun
    /\ perms = [c \in Calls |-> "none"]
    /\ ledger = [c \in Calls |-> "none"]
    /\ exec = Idle /\ batch = NoBatch
    /\ effects = [c \in Calls |-> 0]
    /\ granted = {}
    /\ session = NoSession
    /\ \E p \in {"todo", "off"} : progress = [c \in Driver |-> p]
    /\ announced = {}
    /\ api = [op |-> "start", step |-> "steps", call |-> "none"]
    /\ cancelling = FALSE /\ up = TRUE /\ refused = FALSE
    /\ crashes = 0 /\ requests = 0

-----------------------------------------------------------------------------
(* Launching a session.                                                    *)

\* The supervisor refuses a second task of the same name.
launch_session ==
    IF session = NoSession
    THEN session' = Spawned /\ UNCHANGED refused
    ELSE refused' = TRUE /\ UNCHANGED session

-----------------------------------------------------------------------------
(* start                                                                   *)

\* A step after the run was created failed: the run is cancelled, and then
\* announced as cancelled.
compensate_created_run_error ==
    /\ ApiStep("start", "steps")
    /\ \/ update_run_status("Cancelled") /\ Then("event")
       \/ ~CanUpdate("Cancelled") /\ Return /\ UNCHANGED <<run, perms>>
    /\ quietTools /\ quietLife /\ UNCHANGED loopVars

StartCompensated ==
    /\ ApiStep("start", "event")
    /\ announced' = announced \cup {[by |-> "start", status |-> "Cancelled"]}
    /\ Return
    /\ quietTools /\ quietLife /\ UNCHANGED <<run, perms, session, progress>>

\* A profile conflict, a capability gap or an unavailable verification leaves
\* the new run to the user; an edit-context error leaves it as it is.
StartStops ==
    /\ ApiStep("start", "steps")
    /\ Return
    /\ try_update_run_status("NeedsUserInput", perms) \/ UNCHANGED <<run, perms>>
    /\ quietTools /\ quietLife /\ UNCHANGED loopVars

ensure_initial_checkpoint ==
    /\ ApiStep("start", "steps")
    /\ run' = [run EXCEPT !.checkpoint = TRUE]
    /\ Then("launch")
    /\ quietTools /\ quietLife /\ UNCHANGED <<perms, loopVars>>

\* An Edit run waits for its first message instead.
register_start_session ==
    /\ ApiStep("start", "launch")
    /\ launch_session \/ UNCHANGED <<session, refused>>
    /\ Return
    /\ quietTools
    /\ UNCHANGED <<run, perms, progress, announced, cancelling, up, crashes, requests>>

-----------------------------------------------------------------------------
(* continue_run                                                            *)

Accept(op, step, c) ==
    /\ up /\ api = NoApi
    /\ requests < MaxRequests
    /\ requests' = requests + 1
    /\ api' = [op |-> op, step |-> step, call |-> c]
    /\ UNCHANGED <<cancelling, up, refused, crashes>>

\* The status read here decides; it is acted upon in a later step.
continue_run ==
    /\ run.status \notin Terminal
    /\ \/ run.status = "Running" /\ Accept("continue", "interrupt", "none")
       \/ run.status # "Running" /\ Accept("continue", "status", "none")
       \/ run.status = "NeedsUserInput" /\ Accept("confirm", "status", "none")
    /\ UNCHANGED <<toolVars, loopVars>>

\* A running session is asked to look at the message before its next calls.
request_continue_interrupt ==
    /\ ApiStep("continue", "interrupt")
    /\ run' = [run EXCEPT !.interrupt = TRUE]
    /\ Return
    /\ quietTools /\ quietLife /\ UNCHANGED <<perms, loopVars>>

\* The update's own error goes to the caller.
mark_needs_input ==
    \/ update_run_status("NeedsUserInput")
    \/ ~CanUpdate("NeedsUserInput") /\ UNCHANGED <<run, perms>>

\* A message that contradicts the brief or the design profile of an Edit run
\* goes back to the user instead.
check_edit_conflicts ==
    /\ ApiStep("continue", "status")
    /\ mark_needs_input
    /\ Return
    /\ quietTools /\ quietLife /\ UNCHANGED loopVars

\* A brief that the user confirms completes its run.
confirm_brief ==
    /\ ApiStep("confirm", "status")
    /\ \/ update_run_status("Completed") /\ Then("event")
       \/ ~CanUpdate("Completed") /\ Return /\ UNCHANGED <<run, perms>>
    /\ quietTools /\ quietLife /\ UNCHANGED loopVars

BriefConfirmed ==
    /\ ApiStep("confirm", "event")
    /\ announced' = announced \cup {[by |-> "confirm", status |-> "Completed"]}
    /\ Return
    /\ quietTools /\ quietLife /\ UNCHANGED <<run, perms, session, progress>>

-----------------------------------------------------------------------------
(* resolve_permission                                                      *)

Decisions == {"allow", "ask", "deny"}

resolve_permission(c, decision) ==
    /\ run.status \notin Terminal
    /\ perms[c] = "pending"
    /\ Accept(decision, "resolve", c)
    /\ UNCHANGED <<toolVars, loopVars>>

\* resolve_permission_with_input: the request must still be pending.
resolve_permission_with_input ==
    /\ up /\ api.op \in Decisions /\ api.step = "resolve"
    /\ \/ /\ perms[api.call] = "pending"
          /\ perms' = [perms EXCEPT ![api.call] = api.op]
          /\ granted' = IF api.op = "allow" THEN granted \cup {api.call} ELSE granted
          /\ Then("status")
       \/ /\ perms[api.call] # "pending"
          /\ Return
          /\ UNCHANGED <<perms, granted>>
    /\ quietLife /\ UNCHANGED <<run, ledger, exec, batch, effects, loopVars>>

StatusOf(op) ==
    CASE op \in {"allow", "continue"} -> "Running"
      [] op = "ask" -> "NeedsUserInput"
      [] op = "deny" -> "Blocked"

\* The run's status follows; only Running is followed by a launch.
ApplyStatus ==
    /\ up /\ api.op \in Decisions \cup {"continue"} /\ api.step = "status"
    /\ \/ /\ update_run_status(StatusOf(api.op))
          /\ IF StatusOf(api.op) = "Running" THEN Then("launch") ELSE Return
       \/ /\ ~CanUpdate(StatusOf(api.op))
          /\ Return
          /\ UNCHANGED <<run, perms>>
    /\ quietTools /\ quietLife /\ UNCHANGED loopVars

LaunchResumed ==
    /\ up /\ api.op \in {"allow", "continue"} /\ api.step = "launch"
    /\ launch_session
    /\ Return
    /\ quietTools
    /\ UNCHANGED <<run, perms, progress, announced, cancelling, up, crashes, requests>>

-----------------------------------------------------------------------------
(* cancel                                                                  *)

cancel ==
    /\ up /\ ~cancelling /\ api.op # "start"
    /\ update_run_status("Cancelled")
    /\ run.status # "Cancelled"
    /\ cancelling' = TRUE
    /\ quietTools /\ UNCHANGED <<loopVars, api, up, refused, crashes, requests>>

\* The event is recorded after the sandbox's resources are cleaned up, unless
\* the cleanup fails.
CancelCleanedUp ==
    /\ up /\ cancelling
    /\ cancelling' = FALSE
    /\ \/ announced' = announced \cup {[by |-> "cancel", status |-> "Cancelled"]}
       \/ UNCHANGED announced
    /\ quietTools
    /\ UNCHANGED <<run, perms, session, progress, api, up, refused, crashes, requests>>

-----------------------------------------------------------------------------
(* Crash and recovery.                                                     *)

Crash ==
    /\ up
    /\ crashes < MaxCrashes
    /\ crashes' = crashes + 1
    /\ up' = FALSE
    /\ session' = NoSession
    /\ batch' = NoBatch /\ exec' = Idle
    /\ api' = NoApi /\ cancelling' = FALSE
    /\ run' = [run EXCEPT !.interrupt = FALSE]
    /\ refused' = FALSE
    /\ UNCHANGED <<perms, ledger, effects, granted, progress, announced, requests>>

Interrupted == run.status \in {"Queued", "Running"}

\* Without a checkpoint or its sandbox an interrupted run fails; otherwise it
\* is Running again and gets a session before requests are served.
recover_run ==
    /\ ~up
    /\ up' = TRUE
    /\ \/ /\ Interrupted
          /\ update_run_status("Failed")
          /\ announced' = announced \cup {[by |-> "recovery", status |-> "Failed"]}
          /\ UNCHANGED session
       \/ /\ Interrupted /\ run.checkpoint
          /\ update_run_status("Running")
          /\ session' = Spawned
          /\ UNCHANGED announced
       \/ /\ ~Interrupted
          /\ UNCHANGED <<run, perms, session, announced>>
    /\ quietTools
    /\ UNCHANGED <<progress, api, cancelling, refused, crashes, requests>>

-----------------------------------------------------------------------------

SessionMoves == up /\ SessionStep /\ UNCHANGED lifeVars

Watchdog == up /\ WatchdogTimeout /\ UNCHANGED lifeVars

ApiMoves ==
    \/ compensate_created_run_error \/ StartCompensated \/ StartStops
    \/ ensure_initial_checkpoint \/ register_start_session
    \/ request_continue_interrupt \/ check_edit_conflicts
    \/ confirm_brief \/ BriefConfirmed
    \/ resolve_permission_with_input \/ ApplyStatus \/ LaunchResumed
    \/ CancelCleanedUp

Next ==
    \/ SessionMoves
    \/ Watchdog
    \/ ApiMoves
    \/ continue_run
    \/ \E c \in Calls, d \in Decisions : resolve_permission(c, d)
    \/ cancel
    \/ Crash
    \/ recover_run

\* The scheduler runs every task that can go on: the session, whose calls have
\* deadlines, the API call in flight and the recovery of a restarted process.
\* Users, the watchdog and crashes come when they like.
Fairness == WF_vars(SessionMoves) /\ WF_vars(ApiMoves) /\ WF_vars(recover_run)

Spec == Init /\ [][Next]_vars

FairSpec == Spec /\ Fairness

-----------------------------------------------------------------------------
(* Properties.                                                             *)

\* Every variable has its type: a window never holds a turn past max_turns, and
\* no tool call outlives the session that made it.
TypeOK ==
    /\ run \in [status : Statuses, checkpoint : BOOLEAN, turn : 0..MaxTurns,
                interrupt : BOOLEAN]
    /\ perms \in [Calls -> {"none", "pending", "allow", "ask", "deny", "expired",
                            "consumed"}]
    /\ ledger \in [Calls -> {"none", "started"} \cup Results]
    /\ exec \in [Calls -> {"idle", "execute", "calling", "answered"} \cup Results]
    /\ batch.queue \in Seq(Calls) /\ batch.failed \in BOOLEAN
    /\ session.pc # "batch" /\ session.pc # "settle" => batch = NoBatch
    /\ session.turn \in 0..(MaxTurns + 1)
    /\ progress \in [Driver -> {"todo", "done", "blocked", "off"}]
    /\ granted \subseteq Calls
    /\ api.step \in {"none", "steps", "launch", "event", "interrupt", "status", "resolve"}

\* A tool that changes something takes effect at most once per tool_use_id,
\* whatever deadlines, crashes, approvals, driver retries and repeated ids do
\* (reserve_tool_execution, and the in-doubt pause instead of a retry); and a
\* tool the permission engine asks about only if a user allowed that very call.
EffectsAllowed ==
    /\ \A c \in Calls \ ReadOnly : effects[c] <= 1
    /\ \A c \in Asks : effects[c] > 0 => c \in granted

\* When execute_calls returns, each call of the model's answer has its result,
\* even after a cancellation, an interrupt, a failed shell.run or a deadline.
EveryCallAnswered ==
    At("settle") => \A c \in batch.calls : exec[c] = "answered"

\* Whatever run.completed event was recorded, other than the launcher's, tells
\* the status the run has for good.
AnnouncedTruly ==
    \A e \in announced : e.by # "launcher" => e.status = run.status

\* A run does not stay Running for ever: the turn budget, the deadlines, the
\* finalisation and the recovery settle it or hand it to the user, unless a
\* launch was refused.
RunningEnds == run.status = "Running" ~> (run.status # "Running" \/ refused)
=============================================================================
