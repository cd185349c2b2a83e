----------------------------- MODULE AgentLoop -----------------------------
(***************************************************************************)
(* The session of one agent run: QuerySession::run_inner.  A turn executes  *)
(* an approved permission, or else saves a checkpoint, lets the runtime     *)
(* workflow driver act, asks the model and executes the tool calls of its   *)
(* answer.  The loop ends by finalising the run, by leaving it to the user, *)
(* or with an error that the session launcher turns into Failed.           *)
(*                                                                         *)
(* The model's answer, the budgets and the error guards are outside         *)
(* choices.  Prompts, token counts and compaction only decide which of      *)
(* those choices is taken.                                                  *)
(***************************************************************************)
EXTENDS ToolRuntime

CONSTANTS
    MaxTurns,   \* limits.max_turns
    MaxBatch    \* bound: calls in one answer of the model, the driver being off

ASSUME LoopBounds ==
    /\ MaxTurns \in Nat \ {0}
    /\ MaxBatch \in Nat \ {0}

VARIABLES
    session,    \* the session task: where it is, its turn, what it finalises to
    progress,   \* the recorded workflow progress of each driver call
    announced   \* the run.completed events: who recorded them, with which status

loopVars == <<session, progress, announced>>

NoSession == [pc |-> "none", turn |-> 0, target |-> "none", watch |-> FALSE]

At(pc) == session.pc = pc

Goto(pc) == session' = [session EXCEPT !.pc = pc]

\* Finalising to s starts with the status; the event follows in a later step.
finalize(s) == session' = [session EXCEPT !.pc = "finalStatus", !.target = s]

NextTurn_Again == session' = [session EXCEPT !.pc = "top"]

NextTurn == session' = [session EXCEPT !.pc = "top", !.turn = @ + 1]

SaveTurn(r) == [r EXCEPT !.checkpoint = TRUE, !.turn = session.turn]

noTools == UNCHANGED <<perms, ledger, exec, batch, effects, granted>>

-----------------------------------------------------------------------------
(* Start.                                                                  *)

\* run_inner first makes the run Running; a terminal run is an error.
StartSession ==
    /\ At("start")
    /\ \/ /\ update_run_status("Running")
          /\ Goto("prepare")
       \/ /\ ~CanUpdate("Running")
          /\ Goto("failing")
          /\ UNCHANGED <<run, perms>>
    /\ UNCHANGED <<ledger, exec, batch, effects, granted, progress, announced>>

\* Workspace bootstrap, repair context or project bootstrap fails the run.
BootstrapFails ==
    /\ At("prepare")
    /\ finalize("Failed")
    /\ UNCHANGED <<run, progress, announced>> /\ noTools

\* A checkpoint that does not match the run's binding is an error.
WindowRefused ==
    /\ At("prepare")
    /\ Goto("failing")
    /\ UNCHANGED <<run, progress, announced>> /\ noTools

\* The loop resumes at the turn after the last of the recovered window.
recovered_message_window ==
    /\ At("prepare")
    /\ session' = [session EXCEPT !.pc = "top", !.turn = run.turn + 1]
    /\ UNCHANGED <<run, progress, announced>> /\ noTools

-----------------------------------------------------------------------------
(* The top of a turn.                                                      *)

\* The turn budget: a run that is not settled yet becomes Partial.
TurnsExhausted ==
    /\ At("top")
    /\ session.turn > MaxTurns
    /\ IF run.status \in Terminal \cup {"NeedsUserInput"}
       THEN Goto("ended") ELSE finalize("Partial")
    /\ UNCHANGED <<run, progress, announced>> /\ noTools

\* Operation and token budgets.
BudgetExhausted ==
    /\ At("top")
    /\ session.turn <= MaxTurns
    /\ finalize("Partial")
    /\ UNCHANGED <<run, progress, announced>> /\ noTools

Approved == {c \in Calls : perms[c] = "allow"}

\* The first approved permission is executed before anything else.
execute_approved_permission ==
    /\ At("top")
    /\ session.turn <= MaxTurns
    /\ \E c \in Approved :
          /\ batch' = NewBatch("approved", <<c>>)
          /\ exec' = Idle
    /\ Goto("batch")
    /\ UNCHANGED <<run, perms, ledger, effects, granted, progress, announced>>

\* No approval is waiting: the turn's checkpoint is saved.
StartTurn ==
    /\ At("top")
    /\ session.turn <= MaxTurns
    /\ Approved = {}
    /\ run' = [run EXCEPT !.checkpoint = TRUE]
    /\ Goto("drive")
    /\ UNCHANGED <<progress, announced>> /\ noTools

-----------------------------------------------------------------------------
(* The runtime workflow driver, before the model and after its tools.       *)

AfterDriver(mode) ==
    IF mode = "driver"
    THEN IF run.status \in Terminal THEN finalize(run.status) ELSE Goto("model")
    ELSE NextTurn

DriverMode == IF At("drive") THEN "driver" ELSE "driverEnd"

\* Nothing to do: mode off, unsupported phase, a blocker, the action limit.
DriverIdle ==
    /\ At("drive") \/ At("driveEnd")
    /\ AfterDriver(DriverMode)
    /\ UNCHANGED <<run, progress, announced>> /\ noTools

\* The next action is keyed by the progress fingerprint, so the same action is
\* the same call until its progress is recorded.
drive_runtime_workflow ==
    /\ At("drive") \/ At("driveEnd")
    /\ \E c \in Driver :
          /\ progress[c] = "todo"
          /\ batch' = NewBatch(DriverMode, <<c>>)
          /\ exec' = Idle
    /\ Goto("batch")
    /\ UNCHANGED <<run, perms, ledger, effects, granted, progress, announced>>

-----------------------------------------------------------------------------
(* The model's answer.                                                     *)

ModelCalls == Calls \ Driver

Batches == UNION {{q \in [1..n -> ModelCalls] : \A i, j \in 1..n : q[i] = q[j] => i = j}
                    : n \in 0..MaxBatch}

\* bound: one call an answer in a run whose driver is on
BatchBound == IF \A c \in Driver : progress[c] = "off" THEN MaxBatch ELSE 1

\* Calls whose arguments did not parse, or were too large, are answered with
\* an error after the parsed ones are executed.
ModelAnswers ==
    /\ At("model")
    /\ \E q \in Batches, bad \in SUBSET ModelCalls :
          LET b == NewBatch(IF bad = {} THEN "model" ELSE "parse", q)
          IN  /\ b.calls \cap bad = {} /\ b.calls \cup bad # {}
              /\ Cardinality(b.calls \cup bad) <= BatchBound
              /\ batch' = [b EXCEPT !.calls = @ \cup bad]
              /\ exec' = [c \in Calls |-> IF c \in bad THEN "answered" ELSE "idle"]
    /\ Goto("batch")
    /\ UNCHANGED <<run, perms, ledger, effects, granted, progress, announced>>

\* Text, an empty answer, a fallback or a visual the model cannot take: the
\* turn ends; three empty turns, five policy recoveries or a fuse end the run.
ModelIdles ==
    /\ At("model")
    /\ run' = SaveTurn(run)
    /\ NextTurn \/ finalize("Partial")
    /\ UNCHANGED <<progress, announced>> /\ noTools

\* The tool-call and token budgets answer every call with an error.
ModelOverBudget ==
    /\ At("model")
    /\ run' = SaveTurn(run)
    /\ finalize("Partial")
    /\ UNCHANGED <<progress, announced>> /\ noTools

\* An error of the model: Blocked if a retry could help, else Failed.
ModelFails ==
    /\ At("model")
    /\ run' = SaveTurn(run)
    /\ \E s \in {"Blocked", "Failed"} : finalize(s)
    /\ UNCHANGED <<progress, announced>> /\ noTools

-----------------------------------------------------------------------------
(* The batch, and what the loop does with its results.                      *)

RunTools ==
    /\ At("batch")
    /\ execute_calls
    /\ UNCHANGED loopVars

\* execute_calls returned: the loop looks at the results in a later step.
ToolsReturn ==
    /\ At("batch") /\ BatchDone
    /\ run' = ClearedInterrupt
    /\ Goto("settle")
    /\ UNCHANGED <<perms, ledger, exec, batch, effects, granted, progress, announced>>

Settled(mode) ==
    /\ At("settle") /\ batch.mode = mode
    /\ batch' = NoBatch /\ exec' = Idle
    /\ UNCHANGED <<ledger, effects, granted, announced>>

\* The approval is consumed whatever became of its call.
SettleApproved ==
    /\ Settled("approved")
    /\ perms' = [c \in Calls |-> IF c \in batch.calls
                                 THEN consume_approved_permission(c)[c] ELSE perms[c]]
    /\ run' = SaveTurn(run)
    /\ CASE batch.status # "none" -> finalize(batch.status)
         [] batch.status = "none" /\ run.status = "NeedsUserInput" -> Goto("ended")
         [] OTHER -> NextTurn
    /\ UNCHANGED progress

\* A guard may stop the run; then run.complete, a pause, a terminal status and
\* missing progress are looked at in this order.
SettleModel ==
    /\ Settled("model")
    /\ run' = SaveTurn(run)
    /\ \/ finalize("Partial")
       \/ CASE batch.status # "none" -> finalize(batch.status)
            [] batch.status = "none" /\ run.status = "NeedsUserInput" -> Goto("ended")
            [] batch.status = "none" /\ run.status \in Terminal -> finalize(run.status)
            [] OTHER -> Goto("driveEnd")
    /\ UNCHANGED <<perms, progress>>

\* After a call whose arguments failed only the guards are looked at.
SettleParse ==
    /\ Settled("parse")
    /\ run' = SaveTurn(run)
    /\ finalize("Partial") \/ NextTurn
    /\ UNCHANGED <<perms, progress>>

\* An error blocks the action; a result that moved the workflow is recorded and
\* the driver goes on; a result that changed nothing ends the driver's turn.
SettleDriver ==
    /\ \E mode \in {"driver", "driverEnd"} :
          /\ Settled(mode)
          /\ \E c \in batch.calls :
                CASE batch.failed ->
                       /\ progress' = [progress EXCEPT ![c] = "blocked"]
                       /\ AfterDriver(mode)
                  [] ~batch.failed /\ batch.status # "none" ->
                       /\ progress' = [progress EXCEPT ![c] = "done"]
                       /\ finalize(batch.status)
                  [] OTHER ->
                       \/ /\ progress' = [progress EXCEPT ![c] = "done"]
                          /\ Goto(IF mode = "driver" THEN "drive" ELSE "driveEnd")
                       \/ /\ AfterDriver(mode)
                          /\ UNCHANGED progress
    /\ run' = SaveTurn(run)
    /\ UNCHANGED perms

-----------------------------------------------------------------------------
(* The end of the session.                                                 *)

\* The caller that ignores the error announces a status the run does not have.
FinalStatus_Unchecked ==
    /\ At("finalStatus")
    /\ run' = IF run.status \in Terminal THEN run
              ELSE [run EXCEPT !.status = session.target, !.interrupt = FALSE,
                               !.checkpoint = @ \/ session.target = "Partial"]
    /\ perms' = PermsAfter(session.target, perms)
    /\ Goto("finalEvent")
    /\ UNCHANGED <<ledger, exec, batch, effects, granted, progress, announced>>

\* finalize: Partial saves a checkpoint first; a status that cannot be taken
\* any more is an error of the session.
FinalStatus ==
    /\ At("finalStatus")
    /\ LET s == session.target
           saved == IF s = "Partial" THEN [run EXCEPT !.checkpoint = TRUE] ELSE run
       IN  \/ /\ run.status \notin Terminal \/ run.status = s
              /\ run' = [saved EXCEPT !.status = s, !.interrupt = FALSE]
              /\ perms' = PermsAfter(s, perms)
              /\ Goto("finalEvent")
           \/ /\ run.status \in Terminal /\ run.status # s
              /\ run' = saved
              /\ Goto("failing")
              /\ UNCHANGED perms
    /\ UNCHANGED <<ledger, exec, batch, effects, granted, progress, announced>>

\* run.completed is recorded unless some run.completed is recorded already.
FinalEvent ==
    /\ At("finalEvent")
    /\ announced' = IF announced = {}
                    THEN {[by |-> "session", status |-> session.target]}
                    ELSE announced
    /\ Goto("ended")
    /\ UNCHANGED <<run, progress>> /\ noTools

\* The launcher fails a run whose session ended with an error, unless it is
\* settled; the update's own error is ignored and the event recorded anyway.
LauncherCheck ==
    /\ At("failing")
    /\ Goto(IF run.status \in Terminal \cup {"NeedsUserInput"}
            THEN "ended" ELSE "failStatus")
    /\ UNCHANGED <<run, progress, announced>> /\ noTools

LauncherFails ==
    /\ At("failStatus")
    /\ try_update_run_status("Failed", perms)
    /\ announced' = announced \cup {[by |-> "launcher", status |-> "Failed"]}
    /\ Goto("ended")
    /\ UNCHANGED <<ledger, exec, batch, effects, granted, progress>>

\* The supervisor forgets the task once its future has returned.
SessionEnds ==
    /\ At("ended")
    /\ session' = NoSession
    /\ UNCHANGED <<run, progress, announced>> /\ noTools

\* The watchdog drops the loop wherever it is, its tool calls included.
WatchdogTimeout ==
    /\ session.watch
    /\ session.pc \in {"prepare", "top", "drive", "driveEnd", "model", "batch",
                       "settle", "finalStatus", "finalEvent"}
    /\ session' = [session EXCEPT
          !.watch = FALSE, !.target = "Partial",
          !.pc = IF run.status \in Terminal \cup {"NeedsUserInput"}
                 THEN "ended" ELSE "finalStatus"]
    /\ batch' = NoBatch /\ exec' = Idle
    /\ UNCHANGED <<run, perms, ledger, effects, granted, progress, announced>>

\* Where the supervisor finds no task of the run, one may be spawned.
Spawned == [NoSession EXCEPT !.pc = "start", !.watch = TRUE]

SessionStep ==
    \/ StartSession \/ BootstrapFails \/ WindowRefused \/ recovered_message_window
    \/ TurnsExhausted \/ BudgetExhausted \/ execute_approved_permission \/ StartTurn
    \/ DriverIdle \/ drive_runtime_workflow
    \/ ModelAnswers \/ ModelIdles \/ ModelOverBudget \/ ModelFails
    \/ RunTools \/ ToolsReturn
    \/ SettleApproved \/ SettleModel \/ SettleParse \/ SettleDriver
    \/ FinalStatus \/ FinalEvent \/ LauncherCheck \/ LauncherFails \/ SessionEnds
=============================================================================
