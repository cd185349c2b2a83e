---------------------------- MODULE ToolRuntime ----------------------------
(***************************************************************************)
(* Tool calls of one agent run: StreamingToolExecutor::execute_calls runs  *)
(* a batch in waves and ControlPlaneToolExecutor::execute takes each call  *)
(* through its gates, the permission engine, the durable reservation, the  *)
(* tool itself and the durable record of the result.                       *)
(*                                                                         *)
(* A call is its tool_use_id.  What a tool may do is given by the sets its  *)
(* call belongs to; tool arguments, results and events are left out.  The   *)
(* run record, the permissions and the reservations are what the store     *)
(* keeps on disk as well as in memory: a store operation is one step.       *)
(***************************************************************************)
EXTENDS Naturals, Sequences, FiniteSets

CONSTANTS
    Calls,          \* the tool_use_ids a run can meet
    ReadOnly,       \* calls of read-only, concurrency-safe tools
    Asks,           \* calls the permission engine answers with Ask
    Shell,          \* calls of shell.run
    Completes,      \* calls of run.complete
    Interruptible,  \* calls of tools whose interrupt behaviour is Cancel
    Driver          \* the calls the runtime workflow driver makes

ASSUME CallKinds ==
    /\ ReadOnly \subseteq Calls /\ Asks \subseteq Calls
    /\ Shell \subseteq Calls /\ Completes \subseteq Calls
    /\ Interruptible \subseteq Calls /\ Driver \subseteq Calls

VARIABLES
    run,      \* the run record: status, checkpoint, turn of the window, interrupt
    perms,    \* the permission request of each call
    ledger,   \* the tool-execution record of each call
    exec,     \* where each call of the current batch is
    batch,    \* the batch being executed by the session
    effects,  \* history: how often each tool's side effect took place
    granted   \* history: calls a user allowed

toolVars == <<run, perms, ledger, exec, batch, effects, granted>>

Terminal == {"Completed", "Partial", "Blocked", "Failed", "Cancelled"}

Statuses == {"Queued", "Running", "NeedsUserInput"} \cup Terminal

Idle == [c \in Calls |-> "idle"]

\* mode says who asked for the batch, status is what run.complete reported, and
\* failed is the outcome of a driver action, which is a batch of its own.
NoBatch == [mode |-> "none", calls |-> {}, queue |-> <<>>, saw |-> FALSE,
            shellFailed |-> FALSE, status |-> "none", failed |-> FALSE]

NewBatch(mode, queue) ==
    [NoBatch EXCEPT !.mode = mode, !.queue = queue,
                    !.calls = {queue[i] : i \in DOMAIN queue}]

-----------------------------------------------------------------------------
(* The status of the run.                                                  *)

\* A terminal status is final, and Partial needs a checkpoint to resume from.
CanUpdate(s) ==
    /\ run.status \in Terminal => s = run.status
    /\ s = "Partial" => run.checkpoint

WithStatus(s) ==
    [run EXCEPT !.status = s, !.interrupt = run.interrupt /\ s \notin Terminal]

\* Reaching a terminal status expires the requests nobody answered.
PermsAfter(s, ps) ==
    IF s \in Terminal
    THEN [c \in Calls |-> IF ps[c] = "pending" THEN "expired" ELSE ps[c]]
    ELSE ps

update_run_status(s) ==
    /\ CanUpdate(s)
    /\ run' = WithStatus(s)
    /\ perms' = PermsAfter(s, perms)

\* The callers that ignore the error.
try_update_run_status(s, ps) ==
    /\ run' = IF CanUpdate(s) THEN WithStatus(s) ELSE run
    /\ perms' = IF CanUpdate(s) THEN PermsAfter(s, ps) ELSE ps

-----------------------------------------------------------------------------
(* One call.                                                               *)

Results == {"error", "ok", "Completed", "Partial"}

\* run.complete returns the status it was asked for.
ResultsOf(c) ==
    IF c \in Completes THEN {"error", "Completed", "Partial"} ELSE {"error", "ok"}

\* The call of c returned the result r.
Returns(c, r) ==
    /\ exec' = [exec EXCEPT ![c] = "answered"]
    /\ batch' = [batch EXCEPT !.failed = r = "error" /\ c \in Driver,
                              !.shellFailed = @ \/ (r = "error" /\ c \in Shell),
                              !.status = IF r \in Terminal THEN r ELSE @]

\* Replan, candidate freeze, duplicate promotion, attestation, the pre-tool
\* hook, validation, the profile's policy, a Deny of the permission engine:
\* all return an error before the tool is reserved.
GateRejects(c) ==
    /\ exec[c] = "execute"
    /\ Returns(c, "error")
    /\ UNCHANGED <<run, perms, ledger, effects, granted>>

\* A stale or exceeded edit plan stops the run as Partial.
mark_run_replan_required(c) ==
    /\ exec[c] = "execute"
    /\ c \notin ReadOnly
    /\ try_update_run_status("Partial", perms)
    /\ Returns(c, "error")
    /\ UNCHANGED <<ledger, effects, granted>>

approved_permission_for_tool(c) == perms[c] = "allow"

\* No approval: a request is recorded and the run waits for the user.
AskPermission(c) ==
    /\ exec[c] = "execute"
    /\ c \in Asks
    /\ ~approved_permission_for_tool(c)
    /\ try_update_run_status("NeedsUserInput", [perms EXCEPT ![c] = "pending"])
    /\ Returns(c, "error")
    /\ UNCHANGED <<ledger, effects, granted>>

Allowed(c) == c \in Asks => approved_permission_for_tool(c)

pause_run_for_uncertain_tool_execution(c) ==
    /\ try_update_run_status("NeedsUserInput", perms)
    /\ Returns(c, "error")

consume_approved_permission(c) ==
    [perms EXCEPT ![c] = IF @ = "allow" THEN "consumed" ELSE @]

\* The reservation is on disk before the tool is called.
reserve_tool_execution(c) ==
    /\ exec[c] = "execute"
    /\ c \notin ReadOnly
    /\ Allowed(c)
    /\ ledger[c] = "none"
    /\ \/ /\ ledger' = [ledger EXCEPT ![c] = "started"]
          /\ exec' = [exec EXCEPT ![c] = "calling"]
          /\ UNCHANGED <<run, perms, batch>>
       \/ /\ pause_run_for_uncertain_tool_execution(c)   \* the append failed
          /\ UNCHANGED ledger
    /\ UNCHANGED <<effects, granted>>

\* A read-only tool is not reserved.
BeginRead(c) ==
    /\ exec[c] = "execute"
    /\ c \in ReadOnly
    /\ Allowed(c)
    /\ exec' = [exec EXCEPT ![c] = "calling"]
    /\ UNCHANGED <<run, perms, ledger, batch, effects, granted>>

\* The record says the call completed: its stored result is returned.
Replay(c) ==
    /\ exec[c] = "execute"
    /\ Allowed(c)
    /\ ledger[c] \in Results
    /\ perms' = consume_approved_permission(c)
    /\ Returns(c, ledger[c])
    /\ UNCHANGED <<run, ledger, effects, granted>>

InDoubt_Retry(c) ==
    /\ exec[c] = "execute"
    /\ Allowed(c)
    /\ ledger[c] = "started"
    /\ exec' = [exec EXCEPT ![c] = "calling"]
    /\ UNCHANGED <<run, perms, ledger, batch, effects, granted>>

\* The record says the call started and not how it ended: never again.
InDoubt(c) ==
    /\ exec[c] = "execute"
    /\ Allowed(c)
    /\ ledger[c] = "started"
    /\ pause_run_for_uncertain_tool_execution(c)
    /\ UNCHANGED <<ledger, effects, granted>>

\* The id was used with another tool or another input: the run fails.
Conflict(c) ==
    /\ exec[c] = "execute"
    /\ Allowed(c)
    /\ ledger[c] # "none"
    /\ try_update_run_status("Failed", perms)
    /\ Returns(c, "error")
    /\ UNCHANGED <<ledger, effects, granted>>

\* tool.call: the side effect, and the result waits to be recorded.  A
\* terminal error fails the run.
CallTool(c) ==
    /\ exec[c] = "calling"
    /\ effects' = IF c \in ReadOnly THEN effects ELSE [effects EXCEPT ![c] = @ + 1]
    /\ \/ /\ \E r \in ResultsOf(c) : exec' = [exec EXCEPT ![c] = r]
          /\ UNCHANGED <<run, perms>>
       \/ /\ exec' = [exec EXCEPT ![c] = "error"]
          /\ try_update_run_status("Failed", perms)
    /\ UNCHANGED <<ledger, batch, granted>>

\* The result is recorded, then the approval is consumed; if the record
\* cannot be written the outcome stays in doubt.
complete_tool_execution(c) ==
    /\ exec[c] \in Results
    /\ \/ /\ ledger' = IF c \in ReadOnly THEN ledger
                       ELSE [ledger EXCEPT ![c] = exec[c]]
          /\ perms' = consume_approved_permission(c)
          /\ Returns(c, exec[c])
          /\ UNCHANGED run
       \/ /\ c \notin ReadOnly
          /\ pause_run_for_uncertain_tool_execution(c)
          /\ UNCHANGED ledger
    /\ UNCHANGED <<effects, granted>>

\* The wall-clock deadline drops the call wherever it is; its record stays.
DeadlineExceeded(c) ==
    /\ exec[c] \in {"execute", "calling"} \cup Results
    /\ Returns(c, "error")
    /\ UNCHANGED <<run, perms, ledger, effects, granted>>

Execute(c) ==
    \/ GateRejects(c)
    \/ mark_run_replan_required(c)
    \/ AskPermission(c)
    \/ reserve_tool_execution(c)
    \/ BeginRead(c)
    \/ Replay(c)
    \/ InDoubt(c)
    \/ Conflict(c)
    \/ CallTool(c)
    \/ complete_tool_execution(c)
    \/ DeadlineExceeded(c)

-----------------------------------------------------------------------------
(* A batch.                                                                *)

Safe(c, saw) == c \in ReadOnly /\ ~(saw /\ c \in Interruptible)

\* The wave that starts at the head: one call, or consecutive safe ones.
WaveLength(q, saw) ==
    CHOOSE n \in 1..Len(q) :
        /\ n > 1 => Head(q) \in ReadOnly /\ \A i \in 2..n : Safe(q[i], saw)
        /\ Head(q) \in ReadOnly /\ n < Len(q) => ~Safe(q[n + 1], saw)
        /\ Head(q) \notin ReadOnly => n = 1

WaveIdle == \A c \in Calls : exec[c] \in {"idle", "answered"}

\* The rest of the queue gets synthetic error results.
Drained ==
    LET rest == {batch.queue[i] : i \in DOMAIN batch.queue}
    IN  /\ exec' = [c \in Calls |-> IF c \in rest THEN "answered" ELSE exec[c]]
        /\ batch' = [batch EXCEPT !.queue = <<>>, !.failed = rest \cap Driver # {}]

AbortBatch_Dropped ==
    /\ batch.queue # <<>> /\ WaveIdle
    /\ batch.shellFailed \/ run.status = "Cancelled"
    /\ batch' = [batch EXCEPT !.queue = <<>>]
    /\ UNCHANGED <<run, perms, ledger, exec, effects, granted>>

\* A failed shell.run and a cancelled run end the batch.
AbortBatch ==
    /\ batch.queue # <<>> /\ WaveIdle
    /\ batch.shellFailed \/ run.status = "Cancelled"
    /\ Drained
    /\ UNCHANGED <<run, perms, ledger, effects, granted>>

\* A message the user queued skips the calls that may be interrupted.
InterruptCall ==
    /\ batch.queue # <<>> /\ WaveIdle
    /\ ~batch.shellFailed /\ run.status # "Cancelled"
    /\ run.interrupt /\ Head(batch.queue) \in Interruptible
    /\ exec' = [exec EXCEPT ![Head(batch.queue)] = "answered"]
    /\ batch' = [batch EXCEPT !.queue = Tail(@), !.saw = TRUE,
                              !.failed = Head(batch.queue) \in Driver]
    /\ UNCHANGED <<run, perms, ledger, effects, granted>>

execute_wave ==
    /\ batch.queue # <<>> /\ WaveIdle
    /\ ~batch.shellFailed /\ run.status # "Cancelled"
    /\ ~(run.interrupt /\ Head(batch.queue) \in Interruptible)
    /\ LET saw == batch.saw \/ run.interrupt
           n == WaveLength(batch.queue, saw)
           wave == {batch.queue[i] : i \in 1..n}
       IN  /\ exec' = [c \in Calls |-> IF c \in wave THEN "execute" ELSE exec[c]]
           /\ batch' = [batch EXCEPT !.saw = saw,
                          !.queue = SubSeq(@, n + 1, Len(@))]
    /\ UNCHANGED <<run, perms, ledger, effects, granted>>

execute_calls ==
    \/ AbortBatch
    \/ InterruptCall
    \/ execute_wave
    \/ \E c \in batch.calls : Execute(c)

BatchDone == batch.mode # "none" /\ batch.queue = <<>> /\ WaveIdle

\* The interrupt the batch saw, or sees last, is cleared when it returns.
ClearedInterrupt ==
    [run EXCEPT !.interrupt =
        @ /\ (batch.shellFailed \/ run.status = "Cancelled") /\ ~batch.saw]
=============================================================================
