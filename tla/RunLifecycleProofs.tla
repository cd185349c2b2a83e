-------------------------- MODULE RunLifecycleProofs --------------------------
(***************************************************************************)
(* Proofs about RunLifecycle for any set of tool calls, any turn budget and *)
(* any number of crashes and requests.  LInv, the inductive invariant, has a *)
(* part for each property: Effects ties the side effects of a call to its  *)
(* reservation and its approval; Answers says where the calls of a batch wait *)
(* for their results; LoopEvents and LifeEvents say that whoever is about to *)
(* record a run.completed event has settled the run's status, which then   *)
(* never changes.                                                          *)
(***************************************************************************)
EXTENDS RunLifecycle, TLAPS, WellFoundedInduction

RunRecords == [status : Statuses, checkpoint : BOOLEAN, turn : 0..MaxTurns,
               interrupt : BOOLEAN]

Permissions == {"none", "pending", "allow", "ask", "deny", "expired", "consumed"}

BatchRecords ==
    [mode : {"none", "approved", "driver", "driverEnd", "model", "parse"},
     calls : SUBSET Calls, queue : Seq(Calls), saw : BOOLEAN, shellFailed : BOOLEAN,
     status : {"none", "Completed", "Partial"}, failed : BOOLEAN]

(* Where a session is in a turn that its budget allows *)
InTurn == {"drive", "driveEnd", "model", "batch", "settle"}

SessionRecords ==
    [pc : InTurn \cup {"none", "start", "prepare", "top", "finalStatus", "finalEvent",
                       "failing", "failStatus", "ended"},
     turn : 0..(MaxTurns + 1), target : Terminal \cup {"none"}, watch : BOOLEAN]

ApiRecords ==
    [op : {"none", "start", "continue", "confirm"} \cup Decisions,
     step : {"none", "steps", "launch", "event", "interrupt", "status", "resolve"},
     call : Calls \cup {"none"}]

ToolTypes ==
    /\ run \in RunRecords
    /\ perms \in [Calls -> Permissions]
    /\ ledger \in [Calls -> {"none", "started"} \cup Results]
    /\ exec \in [Calls -> {"idle", "execute", "calling", "answered"} \cup Results]
    /\ batch \in BatchRecords
    /\ effects \in [Calls -> Nat]
    /\ granted \subseteq Calls

(* A turn is open only within the budget, and a finalisation has its status *)
SessionOK(s) ==
    /\ s \in SessionRecords
    /\ s.pc \in InTurn => s.turn <= MaxTurns
    /\ s.pc \in {"finalStatus", "finalEvent"} => s.target \in Terminal

LoopTypes ==
    /\ SessionOK(session)
    /\ progress \in [Driver -> {"todo", "done", "blocked", "off"}]
    /\ session.pc \notin {"batch", "settle"} => batch = NoBatch

LifeTypes ==
    /\ api \in ApiRecords
    /\ api.op \in Decisions => api.call \in Calls

(* A call that changes something is reserved before its tool is called, and  *)
(* is not called again once it took effect; what is called, or took effect,  *)
(* was approved if the permission engine asks about it.                      *)
Effects ==
    /\ \A c \in Calls \ ReadOnly :
         /\ exec[c] = "calling" => ledger[c] # "none" /\ effects[c] = 0
         /\ effects[c] > 0 => ledger[c] # "none"
         /\ effects[c] <= 1
    /\ \A c \in Calls : perms[c] = "allow" => c \in granted
    /\ \A c \in Asks : exec[c] = "calling" \/ effects[c] > 0 => c \in granted

(* A call of the batch without a result waits in the queue *)
Queued == \A c \in batch.calls :
              exec[c] = "idle" => \E i \in 1..Len(batch.queue) : batch.queue[i] = c

Answers == (At("batch") => Queued) /\ EveryCallAnswered

(* Whoever records a run.completed event has settled the run *)
LoopEvents ==
    /\ \A e \in announced :
         e.by # "launcher" => e.status = run.status /\ run.status \in Terminal
    /\ At("finalEvent") => run.status = session.target

LifeEvents ==
    /\ api.op = "start" /\ api.step = "event" => run.status = "Cancelled"
    /\ api.op = "confirm" /\ api.step = "event" => run.status = "Completed"
    /\ cancelling => run.status = "Cancelled"

LoopInv == ToolTypes /\ LoopTypes /\ Effects /\ Answers /\ LoopEvents

RunInv == LoopInv /\ LifeTypes /\ LifeEvents

(* A session does not outlive its process *)
DownIsQuiet == ~up => session = NoSession

LInv == RunInv /\ DownIsQuiet

-----------------------------------------------------------------------------
(* The wave is a prefix of the queue: somewhere the run of safe calls ends. *)
LEMMA WaveIsPrefix ==
  ASSUME NEW q \in Seq(Calls), q # <<>>, NEW saw
  PROVE  WaveLength(q, saw) \in 1..Len(q)
PROOF
  <1> DEFINE Fits(n) ==
        /\ n > 1 => Head(q) \in ReadOnly /\ \A i \in 2..n : Safe(q[i], saw)
        /\ Head(q) \in ReadOnly /\ n < Len(q) => ~Safe(q[n + 1], saw)
        /\ Head(q) \notin ReadOnly => n = 1
  <1>1. Len(q) \in Nat /\ Len(q) >= 1
    OBVIOUS
  <1>2. CASE Head(q) \notin ReadOnly
    <2>1. 1 \in 1..Len(q) /\ Fits(1)
      BY <1>1, <1>2
    <2>2. QED
      BY <2>1 DEF WaveLength
  <1>3. CASE Head(q) \in ReadOnly
    <2> DEFINE T == {n \in Nat : n \in 1..Len(q) /\ (n < Len(q) => ~Safe(q[n + 1], saw))}
               R == OpToRel(<, Nat)
    <2>1. T \subseteq Nat /\ Len(q) \in T
      BY <1>1
    <2>2. PICK n \in T : \A m \in T : ~(<<m, n>> \in R)
      <3> HIDE DEF R, T
      <3>1. IsWellFoundedOn(R, Nat)
        BY NatLessThanWellFounded, Zenon DEF R
      <3>2. QED
        BY <2>1, <3>1, WFMin
    <2>3. \A m \in T : ~(m < n)
      <3>1. SUFFICES ASSUME NEW m \in T, m < n PROVE FALSE
        OBVIOUS
      <3>2. <<m, n>> \in R
        BY <3>1, Zenon DEF OpToRel
      <3>3. QED
        BY <2>2, <3>1, <3>2
    <2>4. ASSUME NEW i \in 2..n PROVE Safe(q[i], saw)
      <3>1. /\ i - 1 \in Nat /\ i - 1 \in 1..Len(q) /\ i - 1 < n /\ i - 1 < Len(q)
            /\ (i - 1) + 1 = i
        BY <2>4, <1>1
      <3>2. i - 1 \notin T
        BY <2>3, <3>1
      <3>3. QED
        BY <3>1, <3>2
    <2>5. n \in 1..Len(q) /\ Fits(n)
      BY <2>4, <1>3
    <2>6. QED
      BY <2>5 DEF WaveLength
  <1>4. QED
    BY <1>2, <1>3

-----------------------------------------------------------------------------
(* What every step does to the run's status and to the approvals. *)

(* A terminal status is final *)
StatusKept == run.status \in Terminal => run'.status = run.status

(* An approval comes from a user *)
ApprovalsKept ==
    \A c \in Calls : perms'[c] = "allow" => perms[c] = "allow" \/ c \in granted'

(* An update that the store may refuse: types and approvals are kept. *)
LEMMA TriedUpdate ==
  ASSUME ToolTypes, NEW s \in Statuses, NEW ps \in [Calls -> Permissions],
         try_update_run_status(s, ps)
  PROVE  /\ run' \in RunRecords
         /\ perms' \in [Calls -> Permissions]
         /\ StatusKept
         /\ \A c \in Calls : perms'[c] = "allow" => ps[c] = "allow"
PROOF
  <1>1. run' \in RunRecords /\ StatusKept
    BY DEF ToolTypes, try_update_run_status, CanUpdate, WithStatus, RunRecords, StatusKept
  <1>2. perms' = ps \/ perms' = [c \in Calls |-> IF ps[c] = "pending" THEN "expired" ELSE ps[c]]
    BY DEF try_update_run_status, PermsAfter
  <1>3. QED
    BY <1>1, <1>2 DEF Permissions

(* An update that the store accepts. *)
LEMMA Updated ==
  ASSUME ToolTypes, NEW s \in Statuses, update_run_status(s)
  PROVE  /\ run' \in RunRecords
         /\ perms' \in [Calls -> Permissions]
         /\ StatusKept /\ ApprovalsKept
         /\ run'.status = s
PROOF
  <1>1. try_update_run_status(s, perms)
    BY DEF update_run_status, try_update_run_status
  <1>2. perms \in [Calls -> Permissions]
    BY DEF ToolTypes
  <1>3. run'.status = s
    BY DEF update_run_status, WithStatus, ToolTypes, RunRecords
  <1>4. QED
    BY <1>1, <1>2, <1>3, TriedUpdate DEF ApprovalsKept

(* A call that returned has its answer; the batch keeps its calls and queue. *)
LEMMA Returned ==
  ASSUME ToolTypes, NEW c \in Calls, NEW r \in Results, Returns(c, r)
  PROVE  /\ exec' \in [Calls -> {"idle", "execute", "calling", "answered"} \cup Results]
         /\ exec' = [exec EXCEPT ![c] = "answered"]
         /\ batch' \in BatchRecords
         /\ batch'.calls = batch.calls /\ batch'.queue = batch.queue
PROOF
  <1>1. exec' = [exec EXCEPT ![c] = "answered"]
    BY DEF Returns
  <1>2. exec' \in [Calls -> {"idle", "execute", "calling", "answered"} \cup Results]
    BY <1>1 DEF ToolTypes
  <1>3. batch' \in BatchRecords /\ batch'.calls = batch.calls /\ batch'.queue = batch.queue
    BY DEF Returns, ToolTypes, BatchRecords, Results, Terminal
  <1>4. QED
    BY <1>1, <1>2, <1>3

(* Consuming an approval makes none. *)
LEMMA Consumed ==
  ASSUME ToolTypes, NEW c \in Calls, perms' = consume_approved_permission(c)
  PROVE  perms' \in [Calls -> Permissions] /\ ApprovalsKept
  BY DEF ToolTypes, consume_approved_permission, Permissions, ApprovalsKept

-----------------------------------------------------------------------------
(* One call. *)

(* No tool is called, and nothing is reserved or recorded *)
NoEffect ==
    /\ ledger' = ledger /\ effects' = effects /\ granted \subseteq granted'
    /\ ApprovalsKept
    /\ \A c \in Calls : exec'[c] = "calling" => exec[c] = "calling"

(* Such a step keeps Effects. *)
LEMMA NoEffectKeeps ==
  ASSUME Effects, NoEffect
  PROVE  Effects'
  BY CallKinds DEF Effects, NoEffect, ApprovalsKept

(* What a step of call c leaves to the batch *)
CallMoved ==
    /\ StatusKept
    /\ batch'.calls = batch.calls /\ batch'.queue = batch.queue
    /\ \A d \in Calls : exec'[d] = "idle" => exec[d] = "idle"

(* A call that returns without its tool having been called *)
LEMMA ReturnedEarly ==
  ASSUME ToolTypes, Effects, NEW c \in Calls, NEW r \in Results, Returns(c, r),
         run' \in RunRecords, perms' \in [Calls -> Permissions],
         StatusKept, ApprovalsKept, UNCHANGED <<ledger, effects, granted>>
  PROVE  ToolTypes' /\ Effects' /\ CallMoved
PROOF
  <1>1. /\ exec' \in [Calls -> {"idle", "execute", "calling", "answered"} \cup Results]
        /\ exec' = [exec EXCEPT ![c] = "answered"]
        /\ batch' \in BatchRecords
        /\ batch'.calls = batch.calls /\ batch'.queue = batch.queue
    BY Returned
  <1>2. \A d \in Calls : exec'[d] = exec[d] \/ exec'[d] = "answered"
    BY <1>1 DEF ToolTypes
  <1>3. NoEffect
    BY <1>2 DEF NoEffect
  <1>4. CallMoved
    BY <1>1, <1>2 DEF CallMoved
  <1>5. ToolTypes'
    BY <1>1 DEF ToolTypes
  <1>6. QED
    BY <1>3, <1>4, <1>5, NoEffectKeeps

(* The same with an update of the status that may be refused *)
LEMMA ReturnedWithStatus ==
  ASSUME ToolTypes, Effects, NEW c \in Calls, Returns(c, "error"),
         NEW s \in Statuses, NEW ps \in [Calls -> Permissions],
         try_update_run_status(s, ps),
         \A d \in Calls : ps[d] = "allow" => perms[d] = "allow",
         UNCHANGED <<ledger, effects, granted>>
  PROVE  ToolTypes' /\ Effects' /\ CallMoved
PROOF
  <1>1. /\ run' \in RunRecords
        /\ perms' \in [Calls -> Permissions]
        /\ StatusKept
        /\ \A d \in Calls : perms'[d] = "allow" => ps[d] = "allow"
    BY TriedUpdate
  <1>2. ApprovalsKept
    BY <1>1 DEF ApprovalsKept
  <1>3. "error" \in Results
    BY DEF Results
  <1>4. QED
    BY <1>1, <1>2, <1>3, ReturnedEarly

(* Each step of ControlPlaneToolExecutor::execute keeps the types and Effects. *)
LEMMA ExecuteKeeps ==
  ASSUME ToolTypes, Effects, NEW c \in Calls, Execute(c)
  PROVE  ToolTypes' /\ Effects' /\ CallMoved
PROOF
  <1> USE DEF ToolTypes
  <1>0. /\ "error" \in Results
        /\ {"Partial", "NeedsUserInput", "Failed"} \subseteq Statuses
        /\ perms \in [Calls -> Permissions] /\ run \in RunRecords
    BY DEF Results, Statuses, Terminal
  <1>a. UNCHANGED run => StatusKept
    BY DEF StatusKept
  <1>b. UNCHANGED <<perms, granted>> => ApprovalsKept
    BY DEF ApprovalsKept
  <1>1. CASE GateRejects(c) \/ DeadlineExceeded(c)
    <2>1. Returns(c, "error") /\ UNCHANGED <<run, perms, ledger, effects, granted>>
      BY <1>1 DEF GateRejects, DeadlineExceeded
    <2>2. run' \in RunRecords /\ perms' \in [Calls -> Permissions]
      BY <2>1, <1>0
    <2>3. QED
      BY <2>1, <2>2, <1>0, <1>a, <1>b, ReturnedEarly
  <1>2. CASE mark_run_replan_required(c)
    <2>1. /\ try_update_run_status("Partial", perms) /\ Returns(c, "error")
          /\ UNCHANGED <<ledger, effects, granted>>
      BY <1>2 DEF mark_run_replan_required
    <2>2. QED
      BY <2>1, <1>0, ReturnedWithStatus
  <1>3. CASE AskPermission(c)
    <2>1. PICK ps : ps = [perms EXCEPT ![c] = "pending"]
      OBVIOUS
    <2>2. /\ try_update_run_status("NeedsUserInput", ps) /\ Returns(c, "error")
          /\ UNCHANGED <<ledger, effects, granted>>
      BY <1>3, <2>1 DEF AskPermission
    <2>3. /\ ps \in [Calls -> Permissions]
          /\ \A d \in Calls : ps[d] = "allow" => perms[d] = "allow"
      BY <2>1, <1>0 DEF Permissions
    <2>4. QED
      BY <2>2, <2>3, <1>0, ReturnedWithStatus
  <1>4. CASE reserve_tool_execution(c)
    <2>1. /\ exec[c] = "execute" /\ c \notin ReadOnly /\ Allowed(c) /\ ledger[c] = "none"
          /\ UNCHANGED <<effects, granted>>
      BY <1>4 DEF reserve_tool_execution
    <2>2. CASE /\ ledger' = [ledger EXCEPT ![c] = "started"]
               /\ exec' = [exec EXCEPT ![c] = "calling"]
               /\ UNCHANGED <<run, perms, batch>>
      <3>1. ToolTypes'
        BY <2>1, <2>2
      <3>2. CallMoved
        BY <2>1, <2>2, <1>a DEF CallMoved
      <3>3. c \in Asks => c \in granted
        BY <2>1 DEF Allowed, approved_permission_for_tool, Effects
      <3>4. effects[c] = 0
        BY <2>1 DEF Effects
      <3>5. ASSUME NEW d \in Calls \ ReadOnly
            PROVE  /\ exec'[d] = "calling" => ledger'[d] # "none" /\ effects'[d] = 0
                   /\ effects'[d] > 0 => ledger'[d] # "none"
                   /\ effects'[d] <= 1
        BY <2>1, <2>2, <3>4 DEF Effects
      <3>6. ASSUME NEW d \in Asks
            PROVE  exec'[d] = "calling" \/ effects'[d] > 0 => d \in granted'
        BY <2>1, <2>2, <3>3, CallKinds DEF Effects
      <3>7. \A d \in Calls : perms'[d] = "allow" => d \in granted'
        BY <2>1, <2>2 DEF Effects
      <3>8. Effects'
        BY <3>5, <3>6, <3>7 DEF Effects
      <3>9. QED
        BY <3>1, <3>2, <3>8
    <2>3. CASE pause_run_for_uncertain_tool_execution(c) /\ UNCHANGED ledger
      <3>1. /\ try_update_run_status("NeedsUserInput", perms) /\ Returns(c, "error")
            /\ UNCHANGED <<ledger, effects, granted>>
        BY <2>1, <2>3 DEF pause_run_for_uncertain_tool_execution
      <3>2. QED
        BY <3>1, <1>0, ReturnedWithStatus
    <2>4. QED
      BY <1>4, <2>2, <2>3 DEF reserve_tool_execution
  <1>5. CASE BeginRead(c)
    <2>1. /\ exec[c] = "execute" /\ c \in ReadOnly /\ Allowed(c)
          /\ exec' = [exec EXCEPT ![c] = "calling"]
          /\ UNCHANGED <<run, perms, ledger, batch, effects, granted>>
      BY <1>5 DEF BeginRead
    <2>2. c \in Asks => c \in granted
      BY <2>1 DEF Allowed, approved_permission_for_tool, Effects
    <2>3. Effects'
      BY <2>1, <2>2, CallKinds DEF Effects
    <2>4. ToolTypes' /\ CallMoved
      BY <2>1, <1>a DEF CallMoved
    <2>5. QED
      BY <2>3, <2>4
  <1>6. CASE Replay(c)
    <2>1. /\ ledger[c] \in Results
          /\ perms' = consume_approved_permission(c)
          /\ Returns(c, ledger[c])
          /\ UNCHANGED <<run, ledger, effects, granted>>
      BY <1>6 DEF Replay
    <2>2. perms' \in [Calls -> Permissions] /\ ApprovalsKept /\ run' \in RunRecords
      BY <2>1, <1>0, Consumed
    <2>3. QED
      BY <2>1, <2>2, <1>a, ReturnedEarly
  <1>7. CASE InDoubt(c)
    <2>1. /\ try_update_run_status("NeedsUserInput", perms) /\ Returns(c, "error")
          /\ UNCHANGED <<ledger, effects, granted>>
      BY <1>7 DEF InDoubt, pause_run_for_uncertain_tool_execution
    <2>2. QED
      BY <2>1, <1>0, ReturnedWithStatus
  <1>8. CASE Conflict(c)
    <2>1. /\ try_update_run_status("Failed", perms) /\ Returns(c, "error")
          /\ UNCHANGED <<ledger, effects, granted>>
      BY <1>8 DEF Conflict
    <2>2. QED
      BY <2>1, <1>0, ReturnedWithStatus
  <1>9. CASE CallTool(c)
    <2>1. /\ exec[c] = "calling"
          /\ effects' = IF c \in ReadOnly THEN effects ELSE [effects EXCEPT ![c] = @ + 1]
          /\ UNCHANGED <<ledger, batch, granted>>
      BY <1>9 DEF CallTool
    <2>2. PICK r \in Results : exec' = [exec EXCEPT ![c] = r]
      BY <1>9 DEF CallTool, ResultsOf, Results
    <2>3. /\ run' \in RunRecords /\ perms' \in [Calls -> Permissions]
          /\ StatusKept /\ ApprovalsKept
      <3>1. CASE UNCHANGED <<run, perms>>
        BY <3>1, <2>1, <1>0, <1>a, <1>b
      <3>2. CASE try_update_run_status("Failed", perms)
        BY <3>2, <1>0, TriedUpdate DEF ApprovalsKept
      <3>3. QED
        BY <3>1, <3>2, <1>9 DEF CallTool
    <2>4. \A d \in Calls : exec'[d] = "calling" => exec[d] = "calling" /\ d # c
      BY <2>2 DEF Results
    <2>5. ToolTypes'
      <3>1. effects' \in [Calls -> Nat]
        BY <2>1
      <3>2. exec' \in [Calls -> {"idle", "execute", "calling", "answered"} \cup Results]
        BY <2>2
      <3>3. QED
        BY <2>1, <2>3, <3>1, <3>2
    <2>6. CallMoved
      BY <2>1, <2>2, <2>3 DEF CallMoved, Results
    <2>7. ASSUME NEW d \in Calls \ ReadOnly
          PROVE  /\ exec'[d] = "calling" => ledger'[d] # "none" /\ effects'[d] = 0
                 /\ effects'[d] > 0 => ledger'[d] # "none"
                 /\ effects'[d] <= 1
      BY <2>1, <2>4 DEF Effects
    <2>8. \A d \in Calls : perms'[d] = "allow" => d \in granted'
      BY <2>1, <2>3 DEF Effects, ApprovalsKept
    <2>9. ASSUME NEW d \in Asks
          PROVE  exec'[d] = "calling" \/ effects'[d] > 0 => d \in granted'
      BY <2>1, <2>4, CallKinds DEF Effects
    <2>10. QED
      BY <2>5, <2>6, <2>7, <2>8, <2>9 DEF Effects
  <1>10. CASE complete_tool_execution(c)
    <2>1. exec[c] \in Results /\ UNCHANGED <<effects, granted>>
      BY <1>10 DEF complete_tool_execution
    <2>2. CASE /\ ledger' = IF c \in ReadOnly THEN ledger ELSE [ledger EXCEPT ![c] = exec[c]]
               /\ perms' = consume_approved_permission(c)
               /\ Returns(c, exec[c])
               /\ UNCHANGED run
      <3>1. /\ exec' \in [Calls -> {"idle", "execute", "calling", "answered"} \cup Results]
            /\ exec' = [exec EXCEPT ![c] = "answered"]
            /\ batch' \in BatchRecords
            /\ batch'.calls = batch.calls /\ batch'.queue = batch.queue
        BY <2>1, <2>2, Returned
      <3>2. perms' \in [Calls -> Permissions] /\ ApprovalsKept
        BY <2>2, Consumed
      <3>3. /\ ledger' \in [Calls -> {"none", "started"} \cup Results]
            /\ \A d \in Calls : ledger[d] # "none" => ledger'[d] # "none"
        BY <2>1, <2>2 DEF Results
      <3>4. /\ \A d \in Calls : exec'[d] = "calling" => exec[d] = "calling"
            /\ CallMoved
        BY <2>2, <3>1, <1>a DEF CallMoved
      <3>5. ToolTypes'
        BY <2>1, <2>2, <3>1, <3>2, <3>3
      <3>6. Effects'
        BY <2>1, <3>2, <3>3, <3>4, CallKinds DEF Effects, ApprovalsKept
      <3>7. QED
        BY <3>4, <3>5, <3>6
    <2>3. CASE pause_run_for_uncertain_tool_execution(c) /\ UNCHANGED ledger
      <3>1. /\ try_update_run_status("NeedsUserInput", perms) /\ Returns(c, "error")
            /\ UNCHANGED <<ledger, effects, granted>>
        BY <2>1, <2>3 DEF pause_run_for_uncertain_tool_execution
      <3>2. QED
        BY <3>1, <1>0, ReturnedWithStatus
    <2>4. QED
      BY <1>10, <2>2, <2>3 DEF complete_tool_execution
  <1>11. QED
    BY <1>1, <1>2, <1>3, <1>4, <1>5, <1>6, <1>7, <1>8, <1>9, <1>10 DEF Execute

-----------------------------------------------------------------------------
(* A batch. *)

(* Every step of execute_calls. *)
LEMMA BatchKeeps ==
  ASSUME ToolTypes, Effects, Queued, execute_calls
  PROVE  ToolTypes' /\ Effects' /\ StatusKept /\ Queued'
PROOF
  <1>0. /\ batch.calls \in SUBSET Calls /\ batch.queue \in Seq(Calls)
        /\ run \in RunRecords /\ batch \in BatchRecords
        /\ exec \in [Calls -> {"idle", "execute", "calling", "answered"} \cup Results]
    BY DEF ToolTypes, BatchRecords
  <1>1. ASSUME NEW c \in batch.calls, Execute(c)
        PROVE  ToolTypes' /\ Effects' /\ StatusKept /\ Queued'
    <2>1. ToolTypes' /\ Effects' /\ CallMoved
      BY <1>0, <1>1, ExecuteKeeps
    <2>2. QED
      BY <2>1, <1>0 DEF CallMoved, Queued
  <1>2. ASSUME UNCHANGED <<run, perms, ledger, effects, granted>>,
               exec' \in [Calls -> {"idle", "execute", "calling", "answered"} \cup Results],
               batch' \in BatchRecords,
               \A c \in Calls : exec'[c] = exec[c] \/ exec'[c] \in {"answered", "execute"}
        PROVE  ToolTypes' /\ Effects' /\ StatusKept
    <2>1. NoEffect
      BY <1>2 DEF NoEffect, ApprovalsKept
    <2>2. QED
      BY <1>2, <2>1, NoEffectKeeps DEF ToolTypes, StatusKept
  <1>3. CASE AbortBatch
    <2>1. PICK rest : rest = {batch.queue[i] : i \in DOMAIN batch.queue}
      OBVIOUS
    <2>2. /\ exec' = [c \in Calls |-> IF c \in rest THEN "answered" ELSE exec[c]]
          /\ batch' = [batch EXCEPT !.queue = <<>>, !.failed = rest \cap Driver # {}]
          /\ UNCHANGED <<run, perms, ledger, effects, granted>>
      BY <1>3, <2>1 DEF AbortBatch, Drained
    <2>3. /\ batch' \in BatchRecords /\ batch'.calls = batch.calls /\ batch'.queue = <<>>
      <3>1. PICK failed \in BOOLEAN : failed = (rest \cap Driver # {})
        OBVIOUS
      <3>2. batch' = [batch EXCEPT !.queue = <<>>, !.failed = failed] /\ <<>> \in Seq(Calls)
        BY <2>2, <3>1
      <3>3. QED
        BY <3>2, <1>0 DEF BatchRecords
    <2>4. /\ exec' \in [Calls -> {"idle", "execute", "calling", "answered"} \cup Results]
          /\ \A c \in Calls : exec'[c] = exec[c] \/ exec'[c] \in {"answered", "execute"}
      BY <2>2, <1>0
    <2>5. Queued'
      <3>1. ASSUME NEW c \in batch.calls PROVE exec'[c] # "idle"
        <4>1. CASE exec[c] = "idle"
          <5>1. PICK i \in 1..Len(batch.queue) : batch.queue[i] = c
            BY <4>1 DEF Queued
          <5>2. c \in rest
            BY <5>1, <2>1, <1>0
          <5>3. QED
            BY <5>2, <2>2, <1>0
        <4>2. CASE exec[c] # "idle"
          BY <4>2, <2>2, <1>0
        <4>3. QED
          BY <4>1, <4>2
      <3>2. QED
        BY <3>1, <2>3 DEF Queued
    <2>6. QED
      BY <2>2, <2>3, <2>4, <2>5, <1>2
  <1>4. CASE InterruptCall
    <2>1. PICK h : h = Head(batch.queue)
      OBVIOUS
    <2>2. /\ batch.queue # <<>>
          /\ exec' = [exec EXCEPT ![h] = "answered"]
          /\ batch' = [batch EXCEPT !.queue = Tail(@), !.saw = TRUE, !.failed = h \in Driver]
          /\ UNCHANGED <<run, perms, ledger, effects, granted>>
      BY <1>4, <2>1 DEF InterruptCall
    <2>3. /\ Tail(batch.queue) \in Seq(Calls) /\ h \in Calls /\ h = batch.queue[1]
          /\ Len(batch.queue) \in Nat /\ Len(Tail(batch.queue)) = Len(batch.queue) - 1
          /\ \A i \in 1..Len(Tail(batch.queue)) : Tail(batch.queue)[i] = batch.queue[i + 1]
      BY <2>1, <2>2, <1>0
    <2>4. /\ batch' \in BatchRecords
          /\ batch'.calls = batch.calls /\ batch'.queue = Tail(batch.queue)
      <3>1. PICK failed \in BOOLEAN : failed = (h \in Driver)
        <4>1. (h \in Driver) \in BOOLEAN
          OBVIOUS
        <4>2. QED
          BY <4>1
      <3>2. batch' = [batch EXCEPT !.queue = Tail(batch.queue), !.saw = TRUE, !.failed = failed]
        BY <2>2, <3>1
      <3>3. QED
        BY <3>2, <2>3, <1>0 DEF BatchRecords
    <2>5. /\ exec' \in [Calls -> {"idle", "execute", "calling", "answered"} \cup Results]
          /\ \A c \in Calls : exec'[c] = exec[c] \/ exec'[c] \in {"answered", "execute"}
      BY <2>2, <1>0
    <2>6. Queued'
      <3>1. ASSUME NEW c \in batch.calls, exec'[c] = "idle"
            PROVE  \E i \in 1..Len(batch'.queue) : batch'.queue[i] = c
        <4>1. exec[c] = "idle" /\ c # h
          BY <3>1, <2>2, <2>3, <1>0
        <4>2. PICK i \in 1..Len(batch.queue) : batch.queue[i] = c
          BY <4>1 DEF Queued
        <4>3. i - 1 \in 1..Len(Tail(batch.queue)) /\ (i - 1) + 1 = i
          BY <4>1, <4>2, <2>3
        <4>4. Tail(batch.queue)[i - 1] = c
          BY <4>2, <4>3, <2>3
        <4>5. QED
          BY <4>3, <4>4, <2>4
      <3>2. QED
        BY <3>1, <2>4 DEF Queued
    <2>7. QED
      BY <2>2, <2>4, <2>5, <2>6, <1>2
  <1>5. CASE execute_wave
    <2>1. PICK saw, n, wave : /\ saw = (batch.saw \/ run.interrupt)
                              /\ n = WaveLength(batch.queue, saw)
                              /\ wave = {batch.queue[i] : i \in 1..n}
      OBVIOUS
    <2>2. /\ batch.queue # <<>>
          /\ exec' = [c \in Calls |-> IF c \in wave THEN "execute" ELSE exec[c]]
          /\ batch' = [batch EXCEPT !.saw = saw,
                                    !.queue = SubSeq(batch.queue, n + 1, Len(batch.queue))]
          /\ UNCHANGED <<run, perms, ledger, effects, granted>>
      BY <1>5, <2>1 DEF execute_wave
    <2>3. n \in 1..Len(batch.queue) /\ Len(batch.queue) \in Nat
      BY <2>1, <2>2, <1>0, WaveIsPrefix
    <2>4. PICK rest : rest = SubSeq(batch.queue, n + 1, Len(batch.queue))
      OBVIOUS
    <2>5. /\ rest \in Seq(Calls) /\ Len(rest) = Len(batch.queue) - n
          /\ \A i \in 1..Len(rest) : rest[i] = batch.queue[n + i]
      BY <2>3, <2>4, <1>0
    <2>6. /\ batch' \in BatchRecords
          /\ batch'.calls = batch.calls /\ batch'.queue = rest
      <3>1. saw \in BOOLEAN
        BY <2>1, <1>0 DEF RunRecords, BatchRecords
      <3>2. QED
        BY <3>1, <2>2, <2>4, <2>5, <1>0 DEF BatchRecords
    <2>7. /\ exec' \in [Calls -> {"idle", "execute", "calling", "answered"} \cup Results]
          /\ \A c \in Calls : exec'[c] = exec[c] \/ exec'[c] \in {"answered", "execute"}
      BY <2>2, <1>0
    <2>8. Queued'
      <3>1. ASSUME NEW c \in batch.calls, exec'[c] = "idle"
            PROVE  \E i \in 1..Len(batch'.queue) : batch'.queue[i] = c
        <4>1. exec[c] = "idle" /\ c \notin wave
          BY <3>1, <2>2, <1>0
        <4>2. PICK i \in 1..Len(batch.queue) : batch.queue[i] = c
          BY <4>1 DEF Queued
        <4>3. i \notin 1..n
          BY <4>1, <4>2, <2>1
        <4>4. i - n \in 1..Len(rest) /\ n + (i - n) = i
          BY <4>2, <4>3, <2>3, <2>5
        <4>5. rest[i - n] = c
          BY <4>2, <4>4, <2>5
        <4>6. QED
          BY <4>4, <4>5, <2>6
      <3>2. QED
        BY <3>1, <2>6 DEF Queued
    <2>9. QED
      BY <2>2, <2>6, <2>7, <2>8, <1>2
  <1>6. QED
    BY <1>1, <1>3, <1>4, <1>5 DEF execute_calls

-----------------------------------------------------------------------------
(* The session. *)

(* Where a session is that neither executes calls nor is about to announce *)
Elsewhere == SessionOK(session)' /\ session'.pc \notin {"batch", "settle", "finalEvent"}

(* A session may leave its turn from anywhere. *)
LEMMA LeavesTurn ==
  ASSUME SessionOK(session),
         \/ \E pc \in {"prepare", "failing", "failStatus", "ended"} : Goto(pc)
         \/ \E s \in Terminal : finalize(s)
  PROVE  Elsewhere
PROOF
  <1>1. CASE \E pc \in {"prepare", "failing", "failStatus", "ended"} : Goto(pc)
    BY <1>1 DEF SessionOK, SessionRecords, InTurn, Goto, Elsewhere
  <1>2. CASE \E s \in Terminal : finalize(s)
    BY <1>2 DEF SessionOK, SessionRecords, InTurn, finalize, Elsewhere
  <1>3. QED
    BY <1>1, <1>2

(* It goes on only within the budget. *)
LEMMA WithinTurn ==
  ASSUME SessionOK(session), session.turn <= MaxTurns,
         (\E pc \in {"drive", "driveEnd", "model"} : Goto(pc)) \/ NextTurn
  PROVE  Elsewhere
PROOF
  <1>1. CASE \E pc \in {"drive", "driveEnd", "model"} : Goto(pc)
    BY <1>1 DEF SessionOK, SessionRecords, InTurn, Goto, Elsewhere
  <1>2. CASE NextTurn
    <2>1. session.turn + 1 \in 0..(MaxTurns + 1)
      BY LoopBounds DEF SessionOK, SessionRecords
    <2>2. QED
      BY <1>2, <2>1 DEF SessionOK, SessionRecords, InTurn, NextTurn, Elsewhere
  <1>3. QED
    BY <1>1, <1>2

(* After the driver the session finalises, asks the model or takes a turn. *)
LEMMA Driven ==
  ASSUME SessionOK(session), session.turn <= MaxTurns, NEW mode, AfterDriver(mode)
  PROVE  Elsewhere
PROOF
  <1>1. \/ run.status \in Terminal /\ finalize(run.status)
        \/ Goto("model") \/ NextTurn
    BY DEF AfterDriver
  <1>2. QED
    BY <1>1, LeavesTurn, WithinTurn

(* What a step without side effects has to show *)
LEMMA LoopKept ==
  ASSUME LoopInv, ToolTypes', LoopTypes', NoEffect, StatusKept, Answers',
         \A e \in announced' : \/ e \in announced \/ e.by = "launcher"
                               \/ e.status = run'.status /\ run'.status \in Terminal,
         At("finalEvent")' => run'.status = session'.target
  PROVE  LoopInv'
PROOF
  <1>1. Effects'
    BY NoEffectKeeps DEF LoopInv
  <1>2. LoopEvents'
    BY DEF LoopInv, LoopEvents, StatusKept, At
  <1>3. QED
    BY <1>1, <1>2 DEF LoopInv

(* A step that neither calls tools nor announces *)
LEMMA MovedOn ==
  ASSUME LoopInv, session.pc \notin {"batch", "settle"}, noTools,
         run' \in RunRecords, run'.status = run.status,
         UNCHANGED <<progress, announced>>, Elsewhere
  PROVE  LoopInv' /\ StatusKept
PROOF
  <1>1. ToolTypes'
    BY DEF LoopInv, ToolTypes, noTools
  <1>2. LoopTypes'
    BY DEF LoopInv, LoopTypes, noTools, Elsewhere
  <1>3. NoEffect /\ StatusKept
    BY DEF noTools, NoEffect, StatusKept, ApprovalsKept
  <1>4. Answers' /\ ~At("finalEvent")'
    BY DEF Elsewhere, Answers, EveryCallAnswered, At
  <1>5. QED
    BY <1>1, <1>2, <1>3, <1>4, LoopKept

(* A batch begins with its calls queued or answered. *)
LEMMA BatchStarts ==
  ASSUME LoopInv, session.turn <= MaxTurns, Goto("batch"),
         batch' \in BatchRecords,
         exec' \in [Calls -> {"idle", "answered"}], Queued',
         UNCHANGED <<run, perms, ledger, effects, granted, progress, announced>>
  PROVE  LoopInv' /\ StatusKept
PROOF
  <1>1. ToolTypes'
    BY DEF LoopInv, ToolTypes
  <1>2. session'.pc = "batch" /\ SessionOK(session)'
    BY DEF LoopInv, LoopTypes, SessionOK, SessionRecords, InTurn, Goto
  <1>3. LoopTypes'
    BY <1>2 DEF LoopInv, LoopTypes
  <1>4. NoEffect /\ StatusKept
    BY DEF NoEffect, StatusKept, ApprovalsKept
  <1>5. Answers' /\ ~At("finalEvent")'
    BY <1>2 DEF Answers, EveryCallAnswered, At
  <1>6. QED
    BY <1>1, <1>3, <1>4, <1>5, LoopKept

(* A batch that nobody has touched yet *)
LEMMA NewlyQueued ==
  ASSUME NEW q \in Seq(Calls), NEW mode \in {"approved", "driver", "driverEnd"},
         batch' = NewBatch(mode, q), exec' = Idle
  PROVE  /\ batch' \in BatchRecords
         /\ exec' \in [Calls -> {"idle", "answered"}]
         /\ Queued'
PROOF
  <1>1. PICK cs : cs = {q[i] : i \in DOMAIN q}
    OBVIOUS
  <1>2. cs \in SUBSET Calls /\ \A c \in cs : \E i \in 1..Len(q) : q[i] = c
    BY <1>1
  <1>3. batch' = [mode |-> mode, calls |-> cs, queue |-> q, saw |-> FALSE,
                   shellFailed |-> FALSE, status |-> "none", failed |-> FALSE]
    BY <1>1 DEF NewBatch, NoBatch
  <1>4. batch' \in BatchRecords /\ batch'.calls = cs /\ batch'.queue = q
    BY <1>2, <1>3 DEF BatchRecords
  <1>5. Queued'
    BY <1>2, <1>4 DEF Queued
  <1>6. QED
    BY <1>4, <1>5 DEF Idle

(* The model's answer: the calls that did not parse are answered already. *)
LEMMA ModelBatch ==
  ASSUME LoopInv, ModelAnswers
  PROVE  /\ batch' \in BatchRecords
         /\ exec' \in [Calls -> {"idle", "answered"}]
         /\ Queued'
PROOF
  <1>1. PICK q \in Batches, bad \in SUBSET ModelCalls, mode \in {"model", "parse"} :
          /\ batch' = [NewBatch(mode, q) EXCEPT !.calls = @ \cup bad]
          /\ exec' = [c \in Calls |-> IF c \in bad THEN "answered" ELSE "idle"]
    BY DEF ModelAnswers
  <1>2. PICK n \in 0..MaxBatch : q \in [1..n -> ModelCalls]
    BY DEF Batches
  <1>3. q \in Seq(Calls) /\ Len(q) = n /\ DOMAIN q = 1..n /\ bad \subseteq Calls
    BY <1>2, LoopBounds DEF ModelCalls
  <1>4. PICK cs : cs = {q[i] : i \in DOMAIN q}
    OBVIOUS
  <1>5. cs \subseteq Calls /\ \A c \in cs : \E i \in 1..Len(q) : q[i] = c
    BY <1>3, <1>4, <1>2 DEF ModelCalls
  <1>6. batch' = [mode |-> mode, calls |-> cs \cup bad, queue |-> q, saw |-> FALSE,
                   shellFailed |-> FALSE, status |-> "none", failed |-> FALSE]
    BY <1>1, <1>4 DEF NewBatch, NoBatch
  <1>7. batch' \in BatchRecords /\ batch'.calls = cs \cup bad /\ batch'.queue = q
    BY <1>3, <1>5, <1>6 DEF BatchRecords
  <1>8. Queued'
    <2>1. ASSUME NEW c \in cs \cup bad, exec'[c] = "idle"
          PROVE  \E i \in 1..Len(q) : q[i] = c
      BY <2>1, <1>1, <1>3, <1>5
    <2>2. QED
      BY <2>1, <1>7 DEF Queued
  <1>9. QED
    BY <1>1, <1>7, <1>8

(* The session leaves a batch behind. *)
LEMMA SettledOn ==
  ASSUME LoopInv, At("settle"), batch' = NoBatch, exec' = Idle,
         UNCHANGED <<ledger, effects, granted, announced>>,
         perms' \in [Calls -> Permissions], ApprovalsKept,
         run' = SaveTurn(run),
         progress' \in [Driver -> {"todo", "done", "blocked", "off"}], Elsewhere
  PROVE  LoopInv' /\ StatusKept
PROOF
  <1>1. run' \in RunRecords /\ run'.status = run.status
    <2>1. session.turn \in 0..MaxTurns
      BY LoopBounds DEF LoopInv, LoopTypes, SessionOK, SessionRecords, InTurn, At
    <2>2. QED
      BY <2>1 DEF LoopInv, ToolTypes, RunRecords, SaveTurn
  <1>2. NoBatch \in BatchRecords /\ Idle \in [Calls -> {"idle"}]
    BY DEF NoBatch, BatchRecords, Idle
  <1>3. ToolTypes'
    BY <1>1, <1>2 DEF LoopInv, ToolTypes
  <1>4. LoopTypes'
    BY DEF LoopTypes, Elsewhere
  <1>5. NoEffect /\ StatusKept
    BY <1>1, <1>2 DEF NoEffect, StatusKept
  <1>6. Answers' /\ ~At("finalEvent")'
    BY DEF Elsewhere, Answers, EveryCallAnswered, At
  <1>7. QED
    BY <1>3, <1>4, <1>5, <1>6, LoopKept

(* What the loop makes of the results of a batch. *)
LEMMA SettlingKeeps ==
  ASSUME LoopInv, SettleApproved \/ SettleModel \/ SettleParse \/ SettleDriver
  PROVE  LoopInv' /\ StatusKept
PROOF
  <1>1. /\ At("settle") /\ batch' = NoBatch /\ exec' = Idle
        /\ UNCHANGED <<ledger, effects, granted, announced>>
        /\ run' = SaveTurn(run)
    BY DEF SettleApproved, SettleModel, SettleParse, SettleDriver, Settled
  <1>2. /\ SessionOK(session) /\ session.turn <= MaxTurns
        /\ perms \in [Calls -> Permissions]
        /\ progress \in [Driver -> {"todo", "done", "blocked", "off"}]
        /\ batch.status # "none" => batch.status \in Terminal
        /\ "Partial" \in Terminal
    BY <1>1 DEF LoopInv, LoopTypes, ToolTypes, SessionOK, InTurn, At, BatchRecords, Terminal
  <1>3. UNCHANGED perms => perms' \in [Calls -> Permissions] /\ ApprovalsKept
    BY <1>2 DEF ApprovalsKept
  <1>4. UNCHANGED progress =>
          progress' \in [Driver -> {"todo", "done", "blocked", "off"}]
    BY <1>2
  <1>5. CASE SettleApproved
    <2>1. perms' \in [Calls -> Permissions] /\ ApprovalsKept
      BY <1>2, <1>5 DEF SettleApproved, consume_approved_permission, ApprovalsKept, Permissions
    <2>2. \/ batch.status # "none" /\ finalize(batch.status)
          \/ Goto("ended") \/ NextTurn
      BY <1>5 DEF SettleApproved
    <2>3. Elsewhere
      BY <2>2, <1>2, LeavesTurn, WithinTurn
    <2>4. UNCHANGED progress
      BY <1>5 DEF SettleApproved
    <2>5. QED
      BY <2>1, <2>3, <2>4, <1>1, <1>4, SettledOn
  <1>6. CASE SettleModel
    <2>1. \/ finalize("Partial")
          \/ batch.status # "none" /\ finalize(batch.status)
          \/ run.status \in Terminal /\ finalize(run.status)
          \/ Goto("ended") \/ Goto("driveEnd")
      BY <1>6 DEF SettleModel
    <2>2. Elsewhere
      BY <2>1, <1>2, LeavesTurn, WithinTurn
    <2>3. UNCHANGED <<perms, progress>>
      BY <1>6 DEF SettleModel
    <2>4. QED
      BY <2>2, <2>3, <1>1, <1>3, <1>4, SettledOn
  <1>7. CASE SettleParse
    <2>1. finalize("Partial") \/ NextTurn
      BY <1>7 DEF SettleParse
    <2>2. Elsewhere
      BY <2>1, <1>2, LeavesTurn, WithinTurn
    <2>3. UNCHANGED <<perms, progress>>
      BY <1>7 DEF SettleParse
    <2>4. QED
      BY <2>2, <2>3, <1>1, <1>3, <1>4, SettledOn
  <1>8. CASE SettleDriver
    <2>1. PICK mode \in {"driver", "driverEnd"}, c \in batch.calls :
            CASE batch.failed ->
                   /\ progress' = [progress EXCEPT ![c] = "blocked"]
                   /\ AfterDriver(mode)
              [] ~batch.failed /\ batch.status # "none" ->
                   /\ progress' = [progress EXCEPT ![c] = "done"]
                   /\ finalize(batch.status)
              [] OTHER ->
                   \/ /\ progress' = [progress EXCEPT ![c] = "done"]
                      /\ Goto(IF mode = "driver" THEN "drive" ELSE "driveEnd")
                   \/ /\ AfterDriver(mode)
                      /\ UNCHANGED progress
      BY <1>8 DEF SettleDriver
    <2>2. /\ \/ UNCHANGED progress
             \/ \E p \in {"done", "blocked"} : progress' = [progress EXCEPT ![c] = p]
          /\ \/ AfterDriver(mode)
             \/ batch.status # "none" /\ finalize(batch.status)
             \/ Goto("drive") \/ Goto("driveEnd")
      BY <2>1
    <2>3. progress' \in [Driver -> {"todo", "done", "blocked", "off"}]
      BY <2>2, <1>2
    <2>4. Elsewhere
      BY <2>2, <1>2, LeavesTurn, WithinTurn, Driven
    <2>5. UNCHANGED perms
      BY <1>8 DEF SettleDriver
    <2>6. QED
      BY <2>3, <2>4, <2>5, <1>1, <1>3, SettledOn
  <1>9. QED
    BY <1>5, <1>6, <1>7, <1>8

(* The steps of the session that change the run's status or announce it. *)
LEMMA FinishingKeeps ==
  ASSUME LoopInv, StartSession \/ FinalStatus \/ FinalEvent \/ LauncherFails
  PROVE  LoopInv' /\ StatusKept
PROOF
  <1>1. /\ ToolTypes /\ SessionOK(session)
        /\ progress \in [Driver -> {"todo", "done", "blocked", "off"}]
        /\ session.pc \notin {"batch", "settle"} /\ batch = NoBatch
        /\ UNCHANGED <<ledger, exec, batch, effects, granted, progress>>
    BY DEF LoopInv, LoopTypes, StartSession, FinalStatus, FinalEvent, LauncherFails, noTools, At
  <1>2. ASSUME run' \in RunRecords, perms' \in [Calls -> Permissions], StatusKept,
               ApprovalsKept, SessionOK(session)', session'.pc \notin {"batch", "settle"},
               \A e \in announced' : \/ e \in announced \/ e.by = "launcher"
                                     \/ e.status = run'.status /\ run'.status \in Terminal,
               session'.pc = "finalEvent" => run'.status = session'.target
        PROVE  LoopInv'
    <2>1. ToolTypes'
      BY <1>1, <1>2 DEF ToolTypes
    <2>2. LoopTypes'
      BY <1>1, <1>2 DEF LoopTypes
    <2>3. NoEffect
      BY <1>1, <1>2 DEF NoEffect
    <2>4. Answers'
      BY <1>2 DEF Answers, EveryCallAnswered, At
    <2>5. At("finalEvent")' => run'.status = session'.target
      BY <1>2 DEF At
    <2>6. QED
      BY <2>1, <2>2, <2>3, <2>4, <2>5, <1>2, LoopKept
  <1>3. UNCHANGED <<run, perms>> =>
          /\ run' \in RunRecords /\ perms' \in [Calls -> Permissions]
          /\ StatusKept /\ ApprovalsKept
    BY <1>1 DEF ToolTypes, StatusKept, ApprovalsKept
  <1>4. "Running" \in Statuses /\ "Failed" \in Statuses
    BY DEF Statuses, Terminal
  <1>5. CASE StartSession
    <2>1. UNCHANGED announced
      BY <1>5 DEF StartSession
    <2>2. /\ run' \in RunRecords /\ perms' \in [Calls -> Permissions]
          /\ StatusKept /\ ApprovalsKept
      BY <1>1, <1>3, <1>4, <1>5, Updated DEF StartSession
    <2>3. Elsewhere
      BY <1>1, <1>5, LeavesTurn DEF StartSession
    <2>4. QED
      BY <2>1, <2>2, <2>3, <1>2 DEF Elsewhere
  <1>6. CASE FinalStatus
    <2>1. PICK s : s = session.target
      OBVIOUS
    <2>2. PICK saved : saved = IF s = "Partial" THEN [run EXCEPT !.checkpoint = TRUE] ELSE run
      OBVIOUS
    <2>3. saved \in RunRecords /\ saved.status = run.status /\ s \in Terminal
      BY <2>1, <2>2, <1>1, <1>6 DEF ToolTypes, RunRecords, SessionOK, FinalStatus, At
    <2>4. UNCHANGED announced
      BY <1>6 DEF FinalStatus
    <2>5. CASE /\ run.status \notin Terminal \/ run.status = s
               /\ run' = [saved EXCEPT !.status = s, !.interrupt = FALSE]
               /\ perms' = PermsAfter(s, perms)
               /\ Goto("finalEvent")
      <3>1. run' \in RunRecords /\ run'.status = s /\ StatusKept
        BY <2>3, <2>5 DEF RunRecords, Statuses, StatusKept
      <3>2. perms' \in [Calls -> Permissions] /\ ApprovalsKept
        <4>1. perms' = [c \in Calls |-> IF perms[c] = "pending" THEN "expired" ELSE perms[c]]
          BY <2>3, <2>5 DEF PermsAfter
        <4>2. QED
          BY <4>1, <1>1 DEF ToolTypes, Permissions, ApprovalsKept
      <3>3. /\ SessionOK(session)' /\ session'.pc = "finalEvent" /\ session'.target = s
        BY <2>1, <2>3, <2>5, <1>1 DEF SessionOK, SessionRecords, InTurn, Goto
      <3>4. QED
        BY <3>1, <3>2, <3>3, <2>4, <1>2
    <2>6. CASE /\ run.status \in Terminal /\ run.status # s
               /\ run' = saved
               /\ Goto("failing")
               /\ UNCHANGED perms
      <3>1. /\ run' \in RunRecords /\ StatusKept
        BY <2>3, <2>6 DEF StatusKept
      <3>2. perms' \in [Calls -> Permissions] /\ ApprovalsKept
        BY <2>6, <1>1 DEF ToolTypes, ApprovalsKept
      <3>3. Elsewhere
        BY <2>6, <1>1, LeavesTurn
      <3>4. QED
        BY <3>1, <3>2, <3>3, <2>4, <1>2 DEF Elsewhere
    <2>7. QED
      BY <2>1, <2>2, <2>5, <2>6, <1>6 DEF FinalStatus
  <1>7. CASE FinalEvent
    <2>1. UNCHANGED <<run, perms>> /\ At("finalEvent") /\ Goto("ended")
      BY <1>7 DEF FinalEvent, noTools
    <2>2. Elsewhere
      BY <2>1, <1>1, LeavesTurn
    <2>3. run.status = session.target /\ session.target \in Terminal
      BY <2>1, <1>1 DEF LoopInv, LoopEvents, SessionOK, At
    <2>4. ASSUME NEW e \in announced'
          PROVE  e \in announced \/ (e.status = run'.status /\ run'.status \in Terminal)
      <3>1. e \in announced \/ e = [by |-> "session", status |-> session.target]
        BY <2>4, <1>7 DEF FinalEvent
      <3>2. QED
        BY <3>1, <2>1, <2>3
    <2>5. QED
      BY <2>1, <2>2, <2>4, <1>2, <1>3 DEF Elsewhere
  <1>8. CASE LauncherFails
    <2>1. try_update_run_status("Failed", perms) /\ Goto("ended")
      BY <1>8 DEF LauncherFails
    <2>2. /\ run' \in RunRecords /\ perms' \in [Calls -> Permissions]
          /\ StatusKept /\ ApprovalsKept
      <3>1. perms \in [Calls -> Permissions]
        BY <1>1 DEF ToolTypes
      <3>2. QED
        BY <3>1, <2>1, <1>1, <1>4, TriedUpdate DEF ApprovalsKept
    <2>3. Elsewhere
      BY <2>1, <1>1, LeavesTurn
    <2>4. \A e \in announced' : e \in announced \/ e.by = "launcher"
      BY <1>8 DEF LauncherFails
    <2>5. QED
      BY <2>2, <2>3, <2>4, <1>2 DEF Elsewhere
  <1>9. QED
    BY <1>5, <1>6, <1>7, <1>8

(* Every step of the session. *)
LEMMA SessionKeeps ==
  ASSUME LoopInv, SessionStep
  PROVE  LoopInv' /\ StatusKept
PROOF
  <1>1. /\ ToolTypes /\ run \in RunRecords /\ SessionOK(session)
        /\ progress \in [Driver -> {"todo", "done", "blocked", "off"}]
        /\ session.pc \in InTurn => session.turn <= MaxTurns
        /\ "Partial" \in Terminal /\ "Blocked" \in Terminal /\ "Failed" \in Terminal
    BY DEF LoopInv, LoopTypes, ToolTypes, SessionOK, Terminal
  <1>2. UNCHANGED run => run' \in RunRecords /\ run'.status = run.status
    BY <1>1
  <1>3. CASE BootstrapFails \/ WindowRefused \/ LauncherCheck
    <2>1. /\ session.pc \notin {"batch", "settle"} /\ noTools
          /\ UNCHANGED <<run, progress, announced>>
          /\ \/ finalize("Failed") \/ Goto("failing") \/ Goto("ended") \/ Goto("failStatus")
      BY <1>3 DEF BootstrapFails, WindowRefused, LauncherCheck, At
    <2>2. Elsewhere
      BY <2>1, <1>1, LeavesTurn
    <2>3. QED
      BY <2>1, <2>2, <1>2, MovedOn
  <1>4. CASE recovered_message_window
    <2>1. /\ session.pc \notin {"batch", "settle"} /\ noTools
          /\ UNCHANGED <<run, progress, announced>>
          /\ session' = [session EXCEPT !.pc = "top", !.turn = run.turn + 1]
      BY <1>4 DEF recovered_message_window, At
    <2>2. run.turn + 1 \in 0..(MaxTurns + 1)
      BY <1>1, LoopBounds DEF RunRecords
    <2>3. Elsewhere
      BY <2>1, <2>2, <1>1 DEF SessionOK, SessionRecords, InTurn, Elsewhere
    <2>4. QED
      BY <2>1, <2>3, <1>2, MovedOn
  <1>5. CASE TurnsExhausted \/ BudgetExhausted
    <2>1. /\ session.pc \notin {"batch", "settle"} /\ noTools
          /\ UNCHANGED <<run, progress, announced>>
          /\ finalize("Partial") \/ Goto("ended")
      BY <1>5 DEF TurnsExhausted, BudgetExhausted, At
    <2>2. Elsewhere
      BY <2>1, <1>1, LeavesTurn
    <2>3. QED
      BY <2>1, <2>2, <1>2, MovedOn
  <1>6. CASE execute_approved_permission
    <2>1. PICK q \in Seq(Calls) : batch' = NewBatch("approved", q) /\ exec' = Idle
      <3>1. PICK c \in Calls : batch' = NewBatch("approved", <<c>>) /\ exec' = Idle
        BY <1>6 DEF execute_approved_permission, Approved
      <3>2. <<c>> \in Seq(Calls)
        OBVIOUS
      <3>3. QED
        BY <3>1, <3>2, Zenon
    <2>2. /\ batch' \in BatchRecords
          /\ exec' \in [Calls -> {"idle", "answered"}]
          /\ Queued'
      BY <2>1, NewlyQueued
    <2>3. QED
      BY <2>2, <1>6, BatchStarts DEF execute_approved_permission
  <1>7. CASE StartTurn
    <2>1. /\ session.pc \notin {"batch", "settle"} /\ noTools /\ session.turn <= MaxTurns
          /\ run' = [run EXCEPT !.checkpoint = TRUE] /\ Goto("drive")
          /\ UNCHANGED <<progress, announced>>
      BY <1>7 DEF StartTurn, At
    <2>2. run' \in RunRecords /\ run'.status = run.status
      BY <2>1, <1>1 DEF RunRecords
    <2>3. Elsewhere
      BY <2>1, <1>1, WithinTurn
    <2>4. QED
      BY <2>1, <2>2, <2>3, MovedOn
  <1>8. CASE DriverIdle
    <2>1. PICK mode : mode = DriverMode
      OBVIOUS
    <2>2. /\ session.pc \notin {"batch", "settle"} /\ noTools /\ AfterDriver(mode)
          /\ UNCHANGED <<run, progress, announced>> /\ session.turn <= MaxTurns
      BY <1>1, <1>8, <2>1 DEF DriverIdle, At, InTurn
    <2>3. Elsewhere
      BY <2>2, <1>1, Driven
    <2>4. QED
      BY <2>2, <2>3, <1>2, MovedOn
  <1>9. CASE drive_runtime_workflow
    <2>1. PICK c \in Driver : batch' = NewBatch(DriverMode, <<c>>) /\ exec' = Idle
      BY <1>9 DEF drive_runtime_workflow
    <2>2. PICK mode \in {"driver", "driverEnd"} : mode = DriverMode
      BY DEF DriverMode
    <2>3. PICK q \in Seq(Calls) : batch' = NewBatch(mode, q)
      <3>1. <<c>> \in Seq(Calls)
        BY CallKinds
      <3>2. QED
        BY <2>1, <2>2, <3>1, Zenon
    <2>4. /\ batch' \in BatchRecords
          /\ exec' \in [Calls -> {"idle", "answered"}]
          /\ Queued'
      BY <2>1, <2>3, NewlyQueued
    <2>5. session.turn <= MaxTurns
      BY <1>1, <1>9 DEF drive_runtime_workflow, At, InTurn
    <2>6. QED
      BY <2>4, <2>5, <1>9, BatchStarts DEF drive_runtime_workflow
  <1>10. CASE ModelAnswers
    <2>1. /\ batch' \in BatchRecords
          /\ exec' \in [Calls -> {"idle", "answered"}]
          /\ Queued'
      BY <1>10, ModelBatch
    <2>2. /\ session.turn <= MaxTurns /\ Goto("batch")
          /\ UNCHANGED <<run, perms, ledger, effects, granted, progress, announced>>
      BY <1>1, <1>10 DEF ModelAnswers, At, InTurn
    <2>3. QED
      BY <2>1, <2>2, BatchStarts
  <1>11. CASE ModelIdles \/ ModelOverBudget \/ ModelFails
    <2>1. /\ At("model") /\ run' = SaveTurn(run) /\ noTools
          /\ UNCHANGED <<progress, announced>>
          /\ \/ NextTurn \/ finalize("Partial") \/ finalize("Blocked") \/ finalize("Failed")
      BY <1>11 DEF ModelIdles, ModelOverBudget, ModelFails
    <2>2. session.turn <= MaxTurns /\ session.turn \in 0..MaxTurns
      BY <2>1, <1>1, LoopBounds DEF At, InTurn, SessionOK, SessionRecords
    <2>3. run' \in RunRecords /\ run'.status = run.status
      BY <2>1, <2>2, <1>1 DEF SaveTurn, RunRecords
    <2>4. Elsewhere
      BY <2>1, <2>2, <1>1, LeavesTurn, WithinTurn
    <2>5. session.pc \notin {"batch", "settle"}
      BY <2>1 DEF At
    <2>6. QED
      BY <2>1, <2>3, <2>4, <2>5, MovedOn
  <1>12. CASE RunTools
    <2>1. At("batch") /\ execute_calls /\ UNCHANGED loopVars
      BY <1>12 DEF RunTools
    <2>2. Queued /\ Effects
      BY <2>1 DEF LoopInv, Answers
    <2>3. ToolTypes' /\ Effects' /\ StatusKept /\ Queued'
      BY <2>1, <2>2, <1>1, BatchKeeps
    <2>4. LoopTypes' /\ Answers'
      BY <2>1, <2>3 DEF LoopInv, LoopTypes, Answers, EveryCallAnswered, loopVars, At
    <2>5. LoopEvents'
      BY <2>1, <2>3 DEF LoopInv, LoopEvents, StatusKept, loopVars, At
    <2>6. QED
      BY <2>3, <2>4, <2>5 DEF LoopInv
  <1>13. CASE ToolsReturn
    <2>1. /\ At("batch") /\ BatchDone /\ run' = ClearedInterrupt /\ Goto("settle")
          /\ UNCHANGED <<perms, ledger, exec, batch, effects, granted, progress, announced>>
      BY <1>13 DEF ToolsReturn
    <2>2. run' \in RunRecords /\ run'.status = run.status
      BY <2>1, <1>1 DEF ClearedInterrupt, RunRecords
    <2>3. SessionOK(session)' /\ session'.pc = "settle"
      BY <2>1, <1>1 DEF SessionOK, SessionRecords, InTurn, Goto, At
    <2>4. ToolTypes' /\ LoopTypes'
      BY <2>1, <2>2, <2>3, <1>1 DEF ToolTypes, LoopTypes
    <2>5. NoEffect /\ StatusKept
      BY <2>1, <2>2 DEF NoEffect, StatusKept, ApprovalsKept
    <2>6. Answers'
      <3>1. ASSUME NEW c \in batch.calls PROVE exec[c] = "answered"
        <4>1. c \in Calls /\ batch.queue = <<>> /\ WaveIdle
          BY <2>1, <1>1 DEF ToolTypes, BatchRecords, BatchDone
        <4>2. Queued
          BY <2>1 DEF LoopInv, Answers
        <4>3. exec[c] # "idle"
          BY <4>1, <4>2 DEF Queued
        <4>4. QED
          BY <4>1, <4>3 DEF WaveIdle
      <3>2. QED
        BY <3>1, <2>1, <2>3 DEF Answers, EveryCallAnswered, At
    <2>7. ~At("finalEvent")'
      BY <2>3 DEF At
    <2>8. QED
      BY <2>1, <2>4, <2>5, <2>6, <2>7, LoopKept
  <1>14. CASE SessionEnds
    <2>1. /\ session.pc \notin {"batch", "settle"} /\ noTools
          /\ UNCHANGED <<run, progress, announced>> /\ session' = NoSession
      BY <1>14 DEF SessionEnds, At
    <2>2. Elsewhere
      BY <2>1, LoopBounds DEF NoSession, SessionOK, SessionRecords, InTurn, Elsewhere
    <2>3. QED
      BY <2>1, <2>2, <1>2, MovedOn
  <1>15. QED
    BY <1>3, <1>4, <1>5, <1>6, <1>7, <1>8, <1>9, <1>10, <1>11, <1>12, <1>13, <1>14,
       SettlingKeeps, FinishingKeeps DEF SessionStep

-----------------------------------------------------------------------------
(* Requests, crashes and the recovery. *)

(* The new task *)
LEMMA SpawnedOK == SessionOK(Spawned) /\ Spawned.pc = "start"
PROOF
  <1>1. PICK n : n = NoSession
    OBVIOUS
  <1>2. n \in SessionRecords
    BY <1>1, LoopBounds DEF NoSession, SessionRecords
  <1>3. PICK s : s = [n EXCEPT !.pc = "start", !.watch = TRUE]
    OBVIOUS
  <1>4. s \in SessionRecords /\ s.pc = "start"
    BY <1>2, <1>3 DEF SessionRecords
  <1>5. s = Spawned
    BY <1>1, <1>3 DEF Spawned
  <1>6. SessionOK(s)
    BY <1>4 DEF SessionOK, InTurn
  <1>7. QED
    BY <1>4, <1>5, <1>6

(* What happens outside of the session moves neither it nor its batch *)
LEMMA OutsideKeeps ==
  ASSUME LoopInv, run' \in RunRecords, perms' \in [Calls -> Permissions],
         StatusKept, ApprovalsKept, granted \subseteq granted', granted' \subseteq Calls,
         UNCHANGED <<ledger, exec, batch, effects, progress>>,
         session' = session \/ (session = NoSession /\ session' = Spawned),
         \A e \in announced' : \/ e \in announced
                               \/ e.status = run'.status /\ run'.status \in Terminal
  PROVE  LoopInv'
PROOF
  <1>1. ToolTypes' /\ NoEffect
    BY DEF LoopInv, ToolTypes, NoEffect
  <1>2. CASE session' = session
    <2>1. LoopTypes'
      BY <1>2 DEF LoopInv, LoopTypes, SessionOK
    <2>2. Answers'
      BY <1>2 DEF LoopInv, Answers, Queued, EveryCallAnswered, At
    <2>3. At("finalEvent")' => run'.status = session'.target
      BY <1>2 DEF LoopInv, LoopTypes, LoopEvents, SessionOK, At, StatusKept
    <2>4. QED
      BY <1>1, <2>1, <2>2, <2>3, LoopKept
  <1>3. CASE session = NoSession /\ session' = Spawned
    <2>1. SessionOK(session)' /\ session'.pc = "start" /\ session.pc = "none"
      BY <1>3, SpawnedOK DEF NoSession, SessionOK
    <2>2. LoopTypes'
      BY <2>1 DEF LoopInv, LoopTypes
    <2>3. Answers' /\ ~At("finalEvent")'
      BY <2>1 DEF Answers, EveryCallAnswered, At
    <2>4. QED
      BY <1>1, <2>2, <2>3, LoopKept
  <1>4. QED
    BY <1>2, <1>3

(* A request that returns leaves nothing in flight. *)
LEMMA ApiReturns ==
  ASSUME Return
  PROVE  LifeTypes' /\ api'.op = "none"
  BY DEF Return, NoApi, LifeTypes, ApiRecords, Decisions

(* A request that goes on keeps its operation. *)
LEMMA ApiGoesOn ==
  ASSUME LifeTypes, NEW step \in {"launch", "event", "status"}, Then(step)
  PROVE  LifeTypes' /\ api'.op = api.op /\ api'.step = step
  BY DEF Then, LifeTypes, ApiRecords

(* What a request is about to announce stays true while its run is settled. *)
LEMMA LifeEventsKept ==
  ASSUME LifeEvents, StatusKept, cancelling' => cancelling,
         api' = api \/ api'.op = "none" \/ api'.step # "event"
  PROVE  LifeEvents'
  BY DEF LifeEvents, StatusKept, Terminal

(* A request leaves the run alone, or updates its status and is settled *)
LEMMA RequestKeeps ==
  ASSUME RunInv, run' \in RunRecords, perms' \in [Calls -> Permissions],
         StatusKept, ApprovalsKept, UNCHANGED <<ledger, exec, batch, effects, granted, progress>>,
         session' = session \/ (session = NoSession /\ session' = Spawned),
         announced' = announced, cancelling' = cancelling,
         LifeTypes', api' = api \/ api'.op = "none" \/ api'.step # "event"
  PROVE  RunInv'
PROOF
  <1>1. LoopInv /\ granted \subseteq Calls
    BY DEF RunInv, LoopInv, ToolTypes
  <1>2. LoopInv'
    BY <1>1, OutsideKeeps
  <1>3. LifeEvents'
    BY LifeEventsKept DEF RunInv
  <1>4. QED
    BY <1>2, <1>3 DEF RunInv

(* start *)
LEMMA StartKeeps ==
  ASSUME RunInv,
         \/ compensate_created_run_error \/ StartCompensated \/ StartStops
         \/ ensure_initial_checkpoint \/ register_start_session
  PROVE  RunInv'
PROOF
  <1>1. /\ LoopInv /\ ToolTypes /\ LifeTypes /\ LifeEvents
        /\ run \in RunRecords /\ perms \in [Calls -> Permissions] /\ granted \subseteq Calls
    BY DEF RunInv, LoopInv, ToolTypes
  <1>2. "Cancelled" \in Statuses /\ "NeedsUserInput" \in Statuses /\ "Cancelled" \in Terminal
    BY DEF Statuses, Terminal
  <1>3. /\ UNCHANGED run => run' \in RunRecords /\ StatusKept
        /\ UNCHANGED perms => perms' \in [Calls -> Permissions] /\ ApprovalsKept
    BY <1>1 DEF StatusKept, ApprovalsKept
  <1>4. CASE compensate_created_run_error
    <2>1. /\ UNCHANGED <<ledger, exec, batch, effects, granted, session, progress, announced>>
          /\ UNCHANGED cancelling /\ api.op = "start"
      BY <1>4 DEF compensate_created_run_error, quietTools, quietLife, loopVars, ApiStep
    <2>2. CASE update_run_status("Cancelled") /\ Then("event")
      <3>1. /\ run' \in RunRecords /\ perms' \in [Calls -> Permissions]
            /\ StatusKept /\ ApprovalsKept /\ run'.status = "Cancelled"
        BY <2>2, <1>1, <1>2, Updated
      <3>2. LifeTypes' /\ api'.op = "start"
        BY <2>1, <2>2, <1>1, ApiGoesOn
      <3>3. LoopInv'
        BY <3>1, <2>1, <1>1, OutsideKeeps
      <3>4. LifeEvents'
        BY <3>1, <3>2 DEF LifeEvents
      <3>5. QED
        BY <3>2, <3>3, <3>4 DEF RunInv
    <2>3. CASE Return /\ UNCHANGED <<run, perms>>
      BY <2>1, <2>3, <1>3, ApiReturns, RequestKeeps
    <2>4. QED
      BY <2>2, <2>3, <1>4 DEF compensate_created_run_error
  <1>5. CASE StartCompensated
    <2>1. /\ UNCHANGED <<ledger, exec, batch, effects, granted, session, progress, run, perms>>
          /\ UNCHANGED cancelling /\ api.op = "start" /\ api.step = "event" /\ Return
          /\ announced' = announced \cup {[by |-> "start", status |-> "Cancelled"]}
      BY <1>5 DEF StartCompensated, quietTools, quietLife, ApiStep
    <2>2. run.status = "Cancelled" /\ run' = run
      BY <2>1, <1>1 DEF LifeEvents
    <2>3. \A e \in announced' : \/ e \in announced
                                \/ e.status = run'.status /\ run'.status \in Terminal
      BY <2>1, <2>2, <1>2
    <2>4. LoopInv'
      BY <2>1, <2>3, <1>1, <1>3, OutsideKeeps
    <2>5. LifeTypes' /\ LifeEvents'
      BY <2>1, <1>1, <1>3, ApiReturns, LifeEventsKept
    <2>6. QED
      BY <2>4, <2>5 DEF RunInv
  <1>6. CASE StartStops
    <2>1. /\ UNCHANGED <<ledger, exec, batch, effects, granted, session, progress, announced>>
          /\ UNCHANGED cancelling /\ Return
          /\ try_update_run_status("NeedsUserInput", perms) \/ UNCHANGED <<run, perms>>
      BY <1>6 DEF StartStops, quietTools, quietLife, loopVars
    <2>2. /\ run' \in RunRecords /\ perms' \in [Calls -> Permissions]
          /\ StatusKept /\ ApprovalsKept
      BY <2>1, <1>1, <1>2, <1>3, TriedUpdate DEF ApprovalsKept
    <2>3. QED
      BY <2>1, <2>2, ApiReturns, RequestKeeps
  <1>7. CASE ensure_initial_checkpoint
    <2>1. /\ UNCHANGED <<ledger, exec, batch, effects, granted, session, progress, announced>>
          /\ UNCHANGED <<perms, cancelling>> /\ Then("launch")
          /\ run' = [run EXCEPT !.checkpoint = TRUE]
      BY <1>7 DEF ensure_initial_checkpoint, quietTools, quietLife, loopVars
    <2>2. run' \in RunRecords /\ StatusKept
      BY <2>1, <1>1 DEF RunRecords, StatusKept
    <2>3. LifeTypes' /\ api'.step = "launch"
      BY <2>1, <1>1, ApiGoesOn
    <2>4. QED
      BY <2>1, <2>2, <2>3, <1>3, RequestKeeps
  <1>8. CASE register_start_session
    <2>1. /\ UNCHANGED <<ledger, exec, batch, effects, granted, progress, announced>>
          /\ UNCHANGED <<run, perms, cancelling>> /\ Return
          /\ session' = session \/ (session = NoSession /\ session' = Spawned)
      BY <1>8 DEF register_start_session, quietTools, launch_session
    <2>2. QED
      BY <2>1, <1>3, ApiReturns, RequestKeeps
  <1>9. QED
    BY <1>4, <1>5, <1>6, <1>7, <1>8

(* continue_run and the confirmation of a brief *)
LEMMA ContinueKeeps ==
  ASSUME RunInv,
         \/ continue_run \/ request_continue_interrupt \/ check_edit_conflicts
         \/ confirm_brief \/ BriefConfirmed
  PROVE  RunInv'
PROOF
  <1>1. /\ LoopInv /\ ToolTypes /\ LifeTypes /\ LifeEvents
        /\ run \in RunRecords /\ perms \in [Calls -> Permissions] /\ granted \subseteq Calls
    BY DEF RunInv, LoopInv, ToolTypes
  <1>2. "Completed" \in Statuses /\ "NeedsUserInput" \in Statuses /\ "Completed" \in Terminal
    BY DEF Statuses, Terminal
  <1>3. /\ UNCHANGED run => run' \in RunRecords /\ StatusKept
        /\ UNCHANGED perms => perms' \in [Calls -> Permissions] /\ ApprovalsKept
    BY <1>1 DEF StatusKept, ApprovalsKept
  <1>4. CASE continue_run
    <2>1. /\ UNCHANGED <<ledger, exec, batch, effects, granted, session, progress, announced>>
          /\ UNCHANGED <<run, perms, cancelling>>
          /\ \E op \in {"continue", "confirm"}, step \in {"interrupt", "status"} :
                api' = [op |-> op, step |-> step, call |-> "none"]
      BY <1>4 DEF continue_run, Accept, toolVars, loopVars
    <2>2. LifeTypes' /\ api'.step # "event"
      BY <2>1 DEF LifeTypes, ApiRecords, Decisions
    <2>3. QED
      BY <2>1, <2>2, <1>3, RequestKeeps
  <1>5. CASE request_continue_interrupt
    <2>1. /\ UNCHANGED <<ledger, exec, batch, effects, granted, session, progress, announced>>
          /\ UNCHANGED <<perms, cancelling>> /\ Return
          /\ run' = [run EXCEPT !.interrupt = TRUE]
      BY <1>5 DEF request_continue_interrupt, quietTools, quietLife, loopVars
    <2>2. run' \in RunRecords /\ StatusKept
      BY <2>1, <1>1 DEF RunRecords, StatusKept
    <2>3. QED
      BY <2>1, <2>2, <1>3, ApiReturns, RequestKeeps
  <1>6. CASE check_edit_conflicts
    <2>1. /\ UNCHANGED <<ledger, exec, batch, effects, granted, session, progress, announced>>
          /\ UNCHANGED cancelling /\ Return
          /\ update_run_status("NeedsUserInput") \/ UNCHANGED <<run, perms>>
      BY <1>6 DEF check_edit_conflicts, mark_needs_input, quietTools, quietLife, loopVars
    <2>2. /\ run' \in RunRecords /\ perms' \in [Calls -> Permissions]
          /\ StatusKept /\ ApprovalsKept
      BY <2>1, <1>1, <1>2, <1>3, Updated
    <2>3. QED
      BY <2>1, <2>2, ApiReturns, RequestKeeps
  <1>7. CASE confirm_brief
    <2>1. /\ UNCHANGED <<ledger, exec, batch, effects, granted, session, progress, announced>>
          /\ UNCHANGED cancelling /\ api.op = "confirm"
      BY <1>7 DEF confirm_brief, quietTools, quietLife, loopVars, ApiStep
    <2>2. CASE update_run_status("Completed") /\ Then("event")
      <3>1. /\ run' \in RunRecords /\ perms' \in [Calls -> Permissions]
            /\ StatusKept /\ ApprovalsKept /\ run'.status = "Completed"
        BY <2>2, <1>1, <1>2, Updated
      <3>2. LifeTypes' /\ api'.op = "confirm"
        BY <2>1, <2>2, <1>1, ApiGoesOn
      <3>3. LoopInv'
        BY <3>1, <2>1, <1>1, OutsideKeeps
      <3>4. cancelling' => run'.status = "Cancelled"
        BY <3>1, <2>1, <1>1 DEF LifeEvents, StatusKept, Terminal
      <3>5. LifeEvents'
        BY <3>1, <3>2, <3>4 DEF LifeEvents
      <3>6. QED
        BY <3>2, <3>3, <3>5 DEF RunInv
    <2>3. CASE Return /\ UNCHANGED <<run, perms>>
      BY <2>1, <2>3, <1>3, ApiReturns, RequestKeeps
    <2>4. QED
      BY <2>2, <2>3, <1>7 DEF confirm_brief
  <1>8. CASE BriefConfirmed
    <2>1. /\ UNCHANGED <<ledger, exec, batch, effects, granted, session, progress, run, perms>>
          /\ UNCHANGED cancelling /\ api.op = "confirm" /\ api.step = "event" /\ Return
          /\ announced' = announced \cup {[by |-> "confirm", status |-> "Completed"]}
      BY <1>8 DEF BriefConfirmed, quietTools, quietLife, ApiStep
    <2>2. run.status = "Completed" /\ run' = run
      BY <2>1, <1>1 DEF LifeEvents
    <2>3. \A e \in announced' : \/ e \in announced
                                \/ e.status = run'.status /\ run'.status \in Terminal
      BY <2>1, <2>2, <1>2
    <2>4. LoopInv'
      BY <2>1, <2>3, <1>1, <1>3, OutsideKeeps
    <2>5. LifeTypes' /\ LifeEvents'
      BY <2>1, <1>1, <1>3, ApiReturns, LifeEventsKept
    <2>6. QED
      BY <2>4, <2>5 DEF RunInv
  <1>9. QED
    BY <1>4, <1>5, <1>6, <1>7, <1>8

(* resolve_permission *)
LEMMA ResolveKeeps ==
  ASSUME RunInv,
         \/ \E c \in Calls, d \in Decisions : resolve_permission(c, d)
         \/ resolve_permission_with_input \/ ApplyStatus \/ LaunchResumed
  PROVE  RunInv'
PROOF
  <1>1. /\ LoopInv /\ ToolTypes /\ LifeTypes /\ LifeEvents
        /\ run \in RunRecords /\ perms \in [Calls -> Permissions] /\ granted \subseteq Calls
    BY DEF RunInv, LoopInv, ToolTypes
  <1>2. /\ UNCHANGED run => run' \in RunRecords /\ StatusKept
        /\ UNCHANGED perms => perms' \in [Calls -> Permissions] /\ ApprovalsKept
    BY <1>1 DEF StatusKept, ApprovalsKept
  <1>3. CASE \E c \in Calls, d \in Decisions : resolve_permission(c, d)
    <2>1. PICK c \in Calls, d \in Decisions : resolve_permission(c, d)
      BY <1>3
    <2>2. /\ UNCHANGED <<ledger, exec, batch, effects, granted, session, progress, announced>>
          /\ UNCHANGED <<run, perms, cancelling>>
          /\ api' = [op |-> d, step |-> "resolve", call |-> c]
      BY <2>1 DEF resolve_permission, Accept, toolVars, loopVars
    <2>3. LifeTypes' /\ api'.step # "event"
      BY <2>2 DEF LifeTypes, ApiRecords
    <2>4. QED
      BY <2>2, <2>3, <1>2, RequestKeeps
  <1>4. CASE resolve_permission_with_input
    <2>1. /\ UNCHANGED <<ledger, exec, batch, effects, session, progress, announced>>
          /\ UNCHANGED <<run, cancelling>> /\ api.op \in Decisions
      BY <1>4 DEF resolve_permission_with_input, quietLife, loopVars
    <2>2. CASE /\ perms' = [perms EXCEPT ![api.call] = api.op]
               /\ granted' = IF api.op = "allow" THEN granted \cup {api.call} ELSE granted
               /\ Then("status")
      <3>1. api.call \in Calls
        BY <2>1, <1>1 DEF LifeTypes
      <3>2. granted \subseteq granted' /\ granted' \subseteq Calls
        BY <2>2, <3>1, <1>1
      <3>3. perms' \in [Calls -> Permissions] /\ ApprovalsKept
        BY <2>1, <2>2, <3>1, <1>1 DEF Permissions, Decisions, ApprovalsKept
      <3>4. LoopInv'
        BY <2>1, <3>2, <3>3, <1>1, <1>2, OutsideKeeps
      <3>5. LifeTypes' /\ api'.step = "status"
        BY <2>2, <1>1, ApiGoesOn
      <3>6. LifeEvents'
        BY <2>1, <3>5, <1>1, <1>2, LifeEventsKept
      <3>7. QED
        BY <3>4, <3>5, <3>6 DEF RunInv
    <2>3. CASE Return /\ UNCHANGED <<perms, granted>>
      BY <2>1, <2>3, <1>2, ApiReturns, RequestKeeps
    <2>4. QED
      BY <2>2, <2>3, <1>4 DEF resolve_permission_with_input
  <1>5. CASE ApplyStatus
    <2>1. PICK s : s = StatusOf(api.op)
      OBVIOUS
    <2>2. /\ UNCHANGED <<ledger, exec, batch, effects, granted, session, progress, announced>>
          /\ UNCHANGED cancelling
          /\ update_run_status(s) \/ UNCHANGED <<run, perms>>
          /\ Return \/ Then("launch")
      BY <1>5, <2>1 DEF ApplyStatus, quietTools, quietLife, loopVars
    <2>3. s \in Statuses
      BY <1>5, <2>1 DEF ApplyStatus, StatusOf, Decisions, Statuses, Terminal
    <2>4. /\ run' \in RunRecords /\ perms' \in [Calls -> Permissions]
          /\ StatusKept /\ ApprovalsKept
      BY <2>2, <2>3, <1>1, <1>2, Updated
    <2>5. LifeTypes' /\ (api'.op = "none" \/ api'.step = "launch")
      BY <2>2, <1>1, ApiReturns, ApiGoesOn
    <2>6. QED
      BY <2>2, <2>4, <2>5, RequestKeeps
  <1>6. CASE LaunchResumed
    <2>1. /\ UNCHANGED <<ledger, exec, batch, effects, granted, progress, announced>>
          /\ UNCHANGED <<run, perms, cancelling>> /\ Return
          /\ session' = session \/ (session = NoSession /\ session' = Spawned)
      BY <1>6 DEF LaunchResumed, quietTools, launch_session
    <2>2. QED
      BY <2>1, <1>2, ApiReturns, RequestKeeps
  <1>7. QED
    BY <1>3, <1>4, <1>5, <1>6

(* cancel *)
LEMMA CancelKeeps ==
  ASSUME RunInv, cancel \/ CancelCleanedUp
  PROVE  RunInv'
PROOF
  <1>1. /\ LoopInv /\ ToolTypes /\ LifeTypes /\ LifeEvents
        /\ run \in RunRecords /\ perms \in [Calls -> Permissions] /\ granted \subseteq Calls
    BY DEF RunInv, LoopInv, ToolTypes
  <1>2. "Cancelled" \in Statuses /\ "Cancelled" \in Terminal
    BY DEF Statuses, Terminal
  <1>3. CASE cancel
    <2>1. /\ UNCHANGED <<ledger, exec, batch, effects, granted, session, progress, announced>>
          /\ UNCHANGED api /\ api.op # "start" /\ update_run_status("Cancelled")
      BY <1>3 DEF cancel, quietTools, loopVars
    <2>2. /\ run' \in RunRecords /\ perms' \in [Calls -> Permissions]
          /\ StatusKept /\ ApprovalsKept /\ run'.status = "Cancelled"
      BY <2>1, <1>1, <1>2, Updated
    <2>3. LoopInv'
      BY <2>1, <2>2, <1>1, OutsideKeeps
    <2>4. LifeTypes'
      BY <2>1, <1>1 DEF LifeTypes
    <2>5. LifeEvents'
      BY <2>1, <2>2, <1>1 DEF LifeEvents, StatusKept, Terminal
    <2>6. QED
      BY <2>3, <2>4, <2>5 DEF RunInv
  <1>4. CASE CancelCleanedUp
    <2>1. /\ UNCHANGED <<ledger, exec, batch, effects, granted, session, progress, run, perms>>
          /\ UNCHANGED api /\ cancelling /\ cancelling' = FALSE
          /\ \/ announced' = announced \cup {[by |-> "cancel", status |-> "Cancelled"]}
             \/ UNCHANGED announced
      BY <1>4 DEF CancelCleanedUp, quietTools
    <2>2. run.status = "Cancelled" /\ run' = run
      BY <2>1, <1>1 DEF LifeEvents
    <2>3. \A e \in announced' : \/ e \in announced
                                \/ e.status = run'.status /\ run'.status \in Terminal
      BY <2>1, <2>2, <1>2
    <2>4. /\ run' \in RunRecords /\ perms' \in [Calls -> Permissions]
          /\ StatusKept /\ ApprovalsKept
      BY <2>1, <1>1 DEF StatusKept, ApprovalsKept
    <2>5. LoopInv'
      BY <2>1, <2>3, <2>4, <1>1, OutsideKeeps
    <2>6. LifeTypes' /\ LifeEvents'
      BY <2>1, <2>4, <1>1, LifeEventsKept DEF LifeTypes
    <2>7. QED
      BY <2>5, <2>6 DEF RunInv
  <1>5. QED
    BY <1>3, <1>4

(* A crash of the process, and recover_run at its next start *)
LEMMA CrashKeeps ==
  ASSUME RunInv, DownIsQuiet, Crash \/ recover_run
  PROVE  RunInv'
PROOF
  <1>1. /\ LoopInv /\ ToolTypes /\ LoopTypes /\ LifeTypes /\ LifeEvents
        /\ run \in RunRecords /\ perms \in [Calls -> Permissions] /\ granted \subseteq Calls
    BY DEF RunInv, LoopInv, ToolTypes
  <1>2. CASE Crash
    <2>1. /\ session' = NoSession /\ batch' = NoBatch /\ exec' = Idle /\ api' = NoApi
          /\ cancelling' = FALSE /\ run' = [run EXCEPT !.interrupt = FALSE]
          /\ UNCHANGED <<perms, ledger, effects, granted, progress, announced>>
      BY <1>2 DEF Crash
    <2>2. run' \in RunRecords /\ run'.status = run.status
      BY <2>1, <1>1 DEF RunRecords
    <2>3. NoBatch \in BatchRecords /\ Idle \in [Calls -> {"idle"}]
      BY DEF NoBatch, BatchRecords, Idle
    <2>4. ToolTypes'
      BY <2>1, <2>2, <2>3, <1>1 DEF ToolTypes
    <2>5. SessionOK(session)' /\ session'.pc = "none"
      BY <2>1, LoopBounds DEF NoSession, SessionOK, SessionRecords, InTurn
    <2>6. LoopTypes'
      BY <2>1, <2>5, <1>1 DEF LoopTypes
    <2>7. NoEffect /\ StatusKept
      BY <2>1, <2>2, <2>3 DEF NoEffect, StatusKept, ApprovalsKept
    <2>8. Answers' /\ ~At("finalEvent")'
      BY <2>5 DEF Answers, EveryCallAnswered, At
    <2>9. LoopInv'
      BY <2>1, <2>4, <2>6, <2>7, <2>8, <1>1, LoopKept
    <2>10. LifeTypes' /\ LifeEvents'
      BY <2>1 DEF NoApi, LifeTypes, LifeEvents, ApiRecords, Decisions
    <2>11. QED
      BY <2>9, <2>10 DEF RunInv
  <1>3. CASE recover_run
    <2>1. /\ UNCHANGED <<ledger, exec, batch, effects, granted, progress, api, cancelling>>
      BY <1>3 DEF recover_run, quietTools
    <2>2. "Failed" \in Statuses /\ "Running" \in Statuses /\ "Failed" \in Terminal
      BY DEF Statuses, Terminal
    <2>3. /\ run' \in RunRecords /\ perms' \in [Calls -> Permissions]
          /\ StatusKept /\ ApprovalsKept
      <3>1. CASE update_run_status("Failed") \/ update_run_status("Running")
        BY <3>1, <2>2, <1>1, Updated
      <3>2. CASE UNCHANGED <<run, perms>>
        BY <3>2, <1>1 DEF StatusKept, ApprovalsKept
      <3>3. QED
        BY <3>1, <3>2, <1>3 DEF recover_run
    <2>4. \A e \in announced' : \/ e \in announced
                                \/ e.status = run'.status /\ run'.status \in Terminal
      <3>1. CASE UNCHANGED announced
        BY <3>1
      <3>2. CASE /\ update_run_status("Failed")
                 /\ announced' = announced \cup {[by |-> "recovery", status |-> "Failed"]}
        <4>1. run'.status = "Failed"
          BY <3>2, <2>2, <1>1, Updated
        <4>2. QED
          BY <3>2, <4>1, <2>2
      <3>3. QED
        BY <3>1, <3>2, <1>3 DEF recover_run
    <2>5. session' = session \/ (session = NoSession /\ session' = Spawned)
      BY <1>3 DEF recover_run, DownIsQuiet
    <2>6. LifeTypes' /\ LifeEvents'
      BY <2>1, <2>3, <1>1, LifeEventsKept DEF LifeTypes
    <2>7. QED
      BY <2>1, <2>3, <2>4, <2>5, <2>6, <1>1, OutsideKeeps DEF RunInv
  <1>4. QED
    BY <1>2, <1>3

(* The watchdog drops the session's loop with its batch. *)
LEMMA WatchdogKeeps ==
  ASSUME LoopInv, WatchdogTimeout
  PROVE  LoopInv' /\ StatusKept
PROOF
  <1>1. /\ batch' = NoBatch /\ exec' = Idle
        /\ UNCHANGED <<run, perms, ledger, effects, granted, progress, announced>>
    BY DEF WatchdogTimeout
  <1>2. PICK pc \in {"ended", "finalStatus"} :
          session' = [session EXCEPT !.watch = FALSE, !.target = "Partial", !.pc = pc]
    BY DEF WatchdogTimeout
  <1>3. "Partial" \in Terminal
    BY DEF Terminal
  <1>4. SessionOK(session)' /\ session'.pc = pc
    BY <1>2, <1>3 DEF LoopInv, LoopTypes, SessionOK, SessionRecords, InTurn
  <1>5. NoBatch \in BatchRecords /\ Idle \in [Calls -> {"idle"}]
    BY DEF NoBatch, BatchRecords, Idle
  <1>6. ToolTypes'
    BY <1>1, <1>5 DEF LoopInv, ToolTypes
  <1>7. LoopTypes'
    BY <1>1, <1>4 DEF LoopInv, LoopTypes
  <1>8. NoEffect /\ StatusKept
    BY <1>1, <1>5 DEF NoEffect, StatusKept, ApprovalsKept
  <1>9. Answers' /\ ~At("finalEvent")'
    BY <1>4 DEF Answers, EveryCallAnswered, At
  <1>10. QED
    BY <1>1, <1>6, <1>7, <1>8, <1>9, LoopKept

(* Only a crash stops the process, and it takes the session along. *)
LEMMA DownStaysQuiet ==
  ASSUME DownIsQuiet, [Next]_vars
  PROVE  DownIsQuiet'
PROOF
  <1>1. CASE UNCHANGED vars
    BY <1>1 DEF vars, lifeVars, loopVars, DownIsQuiet
  <1>2. CASE SessionMoves \/ Watchdog
    BY <1>2 DEF SessionMoves, Watchdog, lifeVars, DownIsQuiet
  <1>3. CASE ApiMoves
    BY <1>3 DEF ApiMoves, compensate_created_run_error, StartCompensated, StartStops,
       ensure_initial_checkpoint, register_start_session, request_continue_interrupt,
       check_edit_conflicts, confirm_brief, BriefConfirmed, resolve_permission_with_input,
       ApplyStatus, LaunchResumed, CancelCleanedUp, ApiStep, quietLife, DownIsQuiet
  <1>4. CASE \/ continue_run \/ cancel
             \/ \E c \in Calls, d \in Decisions : resolve_permission(c, d)
    BY <1>4 DEF continue_run, resolve_permission, cancel, Accept, DownIsQuiet
  <1>5. CASE Crash \/ recover_run
    BY <1>5 DEF Crash, recover_run, DownIsQuiet
  <1>6. QED
    BY <1>1, <1>2, <1>3, <1>4, <1>5 DEF Next

-----------------------------------------------------------------------------
(* The theorems. *)

(* A new run satisfies the invariant. *)
LEMMA InitLInv == Init => LInv
PROOF
  <1> SUFFICES ASSUME Init PROVE LInv
    OBVIOUS
  <1>1. run \in RunRecords
    BY LoopBounds DEF Init, NewRun, RunRecords, Statuses
  <1>2. NoBatch \in BatchRecords /\ Idle \in [Calls -> {"idle"}]
    BY DEF NoBatch, BatchRecords, Idle
  <1>3. ToolTypes
    BY <1>1, <1>2 DEF Init, ToolTypes, Permissions
  <1>4. SessionOK(session) /\ session.pc = "none"
    BY LoopBounds DEF Init, NoSession, SessionOK, SessionRecords, InTurn
  <1>5. LoopTypes
    BY <1>4 DEF Init, LoopTypes
  <1>6. Effects
    BY <1>2, CallKinds DEF Init, Effects
  <1>7. Answers /\ LoopEvents
    BY <1>4 DEF Init, Answers, LoopEvents, EveryCallAnswered, At
  <1>8. LifeTypes /\ LifeEvents /\ DownIsQuiet
    BY DEF Init, LifeTypes, LifeEvents, ApiRecords, Decisions, DownIsQuiet
  <1>9. QED
    BY <1>3, <1>5, <1>6, <1>7, <1>8 DEF LInv, RunInv, LoopInv

(* Every step keeps the invariant. *)
LEMMA NextLInv == LInv /\ [Next]_vars => LInv'
PROOF
  <1> SUFFICES ASSUME LInv, [Next]_vars PROVE LInv'
    OBVIOUS
  <1>1. RunInv /\ DownIsQuiet /\ LoopInv /\ LifeTypes /\ LifeEvents
    BY DEF LInv, RunInv
  <1>2. DownIsQuiet'
    BY <1>1, DownStaysQuiet
  <1>3. CASE UNCHANGED vars
    <2>1. UNCHANGED <<run, perms, ledger, exec, batch, effects, granted>>
      BY <1>3 DEF vars, toolVars
    <2>2. UNCHANGED <<session, progress, announced, api, cancelling>>
      BY <1>3 DEF vars, loopVars, lifeVars
    <2>3. /\ run' \in RunRecords /\ perms' \in [Calls -> Permissions]
          /\ StatusKept /\ ApprovalsKept /\ LifeTypes'
      BY <2>1, <2>2, <1>1 DEF LoopInv, ToolTypes, StatusKept, ApprovalsKept, LifeTypes
    <2>4. RunInv'
      BY <2>1, <2>2, <2>3, <1>1, RequestKeeps
    <2>5. QED
      BY <2>4, <1>2 DEF LInv
  <1>4. CASE SessionMoves \/ Watchdog
    <2>1. LoopInv' /\ StatusKept
      BY <1>1, <1>4, SessionKeeps, WatchdogKeeps DEF SessionMoves, Watchdog
    <2>2. UNCHANGED <<api, cancelling>>
      BY <1>4 DEF SessionMoves, Watchdog, lifeVars
    <2>3. LifeTypes' /\ LifeEvents'
      BY <2>1, <2>2, <1>1, LifeEventsKept DEF LifeTypes
    <2>4. QED
      BY <2>1, <2>3, <1>2 DEF LInv, RunInv
  <1>5. CASE \/ ApiMoves \/ continue_run \/ cancel
             \/ \E c \in Calls, d \in Decisions : resolve_permission(c, d)
    BY <1>1, <1>2, <1>5, StartKeeps, ContinueKeeps, ResolveKeeps, CancelKeeps
    DEF ApiMoves, LInv
  <1>6. CASE Crash \/ recover_run
    BY <1>1, <1>2, <1>6, CrashKeeps DEF LInv
  <1>7. QED
    BY <1>3, <1>4, <1>5, <1>6 DEF Next

(* Every behaviour of the run keeps the inductive invariant, whatever the   *)
(* session, the watchdog, the requests and the crashes do in between.       *)
THEOREM RunInvariance == Spec => []LInv
  BY InitLInv, NextLInv, PTL DEF Spec

(* The run, its tool calls, the session and the request in flight keep their *)
(* types: the message window never holds a turn past limits.max_turns and no *)
(* batch outlives the session that executes it.                              *)
THEOREM RunTypeCorrect == Spec => []TypeOK
PROOF
  <1>1. LInv => TypeOK
    <2> SUFFICES ASSUME LInv PROVE TypeOK
      OBVIOUS
    <2>1. ToolTypes /\ LoopTypes /\ LifeTypes
      BY DEF LInv, RunInv, LoopInv
    <2>2. run \in [status : Statuses, checkpoint : BOOLEAN, turn : 0..MaxTurns,
                   interrupt : BOOLEAN]
      BY <2>1 DEF ToolTypes, RunRecords
    <2>3. /\ perms \in [Calls -> {"none", "pending", "allow", "ask", "deny", "expired",
                                  "consumed"}]
          /\ ledger \in [Calls -> {"none", "started"} \cup Results]
          /\ exec \in [Calls -> {"idle", "execute", "calling", "answered"} \cup Results]
          /\ granted \subseteq Calls
      BY <2>1 DEF ToolTypes, Permissions
    <2>4. batch.queue \in Seq(Calls) /\ batch.failed \in BOOLEAN
      BY <2>1 DEF ToolTypes, BatchRecords
    <2>5. /\ session.pc # "batch" /\ session.pc # "settle" => batch = NoBatch
          /\ session.turn \in 0..(MaxTurns + 1)
          /\ progress \in [Driver -> {"todo", "done", "blocked", "off"}]
      BY <2>1 DEF LoopTypes, SessionOK, SessionRecords
    <2>6. api.step \in {"none", "steps", "launch", "event", "interrupt", "status", "resolve"}
      BY <2>1 DEF LifeTypes, ApiRecords
    <2>7. QED
      BY <2>2, <2>3, <2>4, <2>5, <2>6 DEF TypeOK
  <1>2. QED
    BY <1>1, RunInvariance, PTL

(* EffectsAllowed, for any calls: reserve_tool_execution and the in-doubt    *)
(* pause let a tool that changes something take effect at most once per      *)
(* tool_use_id, and one the permission engine asks about only if a user      *)
(* allowed that call.                                                        *)
THEOREM EffectsStayAllowed == Spec => []EffectsAllowed
PROOF
  <1>1. LInv => EffectsAllowed
    BY DEF LInv, RunInv, LoopInv, Effects, EffectsAllowed
  <1>2. QED
    BY <1>1, RunInvariance, PTL

(* EveryCallAnswered, for any batch: execute_calls returns with a result of  *)
(* each call, after aborts, interrupts, deadlines and waves of any length.   *)
THEOREM CallsAreAnswered == Spec => []EveryCallAnswered
PROOF
  <1>1. LInv => EveryCallAnswered
    BY DEF LInv, RunInv, LoopInv, Answers
  <1>2. QED
    BY <1>1, RunInvariance, PTL

(* AnnouncedTruly: the status a run.completed event tells, other than the    *)
(* launcher's, is the one the run has from then on.                          *)
THEOREM EventsAreTrue == Spec => []AnnouncedTruly
PROOF
  <1>1. LInv => AnnouncedTruly
    BY DEF LInv, RunInv, LoopInv, LoopEvents, AnnouncedTruly
  <1>2. QED
    BY <1>1, RunInvariance, PTL

=============================================================================
