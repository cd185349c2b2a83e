-------------------------- MODULE PublicationProofs ---------------------------
(***************************************************************************)
(* Proofs about PublicationStore for every set of projects, releases and   *)
(* keys, about PublishWorkflow, which commits its intents to that store,   *)
(* for any number of workflows, and about PublicationJournal, the files    *)
(* under the store, for any number of commits.                             *)
(*                                                                         *)
(* The store's inductive invariant is Inv: both snapshots are well formed  *)
(* (SnapOK), the recovered snapshot extends the one in memory (Extends),   *)
(* and what clients were told is in both. Extends is what makes a restart  *)
(* harmless: mem' = disk then only moves forward.                          *)
(*                                                                         *)
(* The workflow is first shown to take only steps of the store, so that    *)
(* Inv and Extends can be used. On top of these WInv says what the         *)
(* controller relies on while it works on copies: a copy differs from its  *)
(* workflow in the status at most, an advance that is under way leads from *)
(* the workflow's checkpoint to one it has earned, and a generation that a *)
(* workflow's publish key owns is the one after the generation its client  *)
(* saw.                                                                    *)
(*                                                                         *)
(* The journal's invariant is JInv: what a start will read from the files  *)
(* (or from their copies) settles on the snapshot or on one commit more,   *)
(* at every step of every commit.  It is proved for the sets of faults     *)
(* that the files survive.                                                 *)
(***************************************************************************)
EXTENDS PublishWorkflow, PublicationJournal, FiniteSetTheorems, TLAPS,
        WellFoundedInduction

(* allocate_host_slug skips every slug the snapshot holds *)
HostsApart(s) ==
    \A p, q \in Projects :
        p # q /\ s.runtimes[p].host = s.runtimes[q].host
        => s.runtimes[p].host = None

SnapOK(s) ==
    /\ s \in PublicationSnapshot
    /\ validate_snapshot(s)
    /\ OneOwnerPerGeneration(s)
    /\ StillQueued(s)
    /\ CompletionEarned(s)
    /\ HostsApart(s)

(* t is s, or s after commits that move forward *)
Extends(s, t) ==
    /\ \A p \in Projects :
         /\ s.runtimes[p].gen <= t.runtimes[p].gen
         /\ s.runtimes[p].observed <= t.runtimes[p].observed
         /\ s.runtimes[p].gen > 0 => t.runtimes[p].host = s.runtimes[p].host
    /\ \A id \in OpId : Known(s, id) =>
         /\ t.operations[id].gen = s.operations[id].gen
         /\ t.operations[id].request = s.operations[id].request
         /\ s.operations[id].gen < RuntimeOf(s, id).gen =>
              t.operations[id] = s.operations[id]

Inv ==
    /\ TypeOK
    /\ SnapOK(mem)
    /\ SnapOK(disk)
    /\ Extends(mem, disk)
    /\ AckedNeverLost

-----------------------------------------------------------------------------
(* An operation id is the project and key it is hashed from. *)
LEMMA OpIdFacts ==
  ASSUME NEW id \in OpId
  PROVE  /\ id[1] \in Projects
         /\ id[2] \in Keys
         /\ id = <<id[1], id[2]>>
  BY DEF OpId

(* Every project and key give an operation id. *)
LEMMA OpIdPair ==
  ASSUME NEW p \in Projects, NEW k \in Keys
  PROVE  /\ <<p, k>> \in OpId
         /\ <<p, k>>[1] = p
         /\ <<p, k>>[2] = k
  BY DEF OpId

(* A snapshot that a failed commit leaves alone has moved forward. *)
LEMMA ExtendsRefl ==
  ASSUME NEW s \in PublicationSnapshot
  PROVE  Extends(s, s)
  BY OpIdFacts DEF Extends, PublicationSnapshot, WorkRuntimeState

(* What apply_commit returns, read back field by field. *)
LEMMA ApplyCommit ==
  ASSUME NEW s \in PublicationSnapshot, NEW id \in OpId,
         NEW op \in PublishOperation, NEW rt \in WorkRuntimeState,
         NEW ev \in PublicationOutboxEvent
  PROVE  LET t == apply_commit(s, id, op, rt, ev) IN
         /\ t \in PublicationSnapshot
         /\ \A p \in Projects : t.runtimes[p] = IF p = id[1] THEN rt ELSE s.runtimes[p]
         /\ \A x \in OpId : t.operations[x] = IF x = id THEN op ELSE s.operations[x]
         /\ \A x \in OpId : t.outbox[x] = IF x = id THEN ev ELSE s.outbox[x]
  BY OpIdFacts DEF apply_commit, PublicationSnapshot

(* The obligations of a report on the current operation of a project. *)
ReportFits(s, id, op, rt, ev) ==
    /\ op \in PublishOperation
    /\ rt \in WorkRuntimeState
    /\ ev \in PublicationOutboxEvent
    /\ op.gen = s.operations[id].gen
    /\ op.request = s.operations[id].request
    /\ rt.gen = RuntimeOf(s, id).gen
    /\ rt.host = RuntimeOf(s, id).host
    /\ rt.publication = RuntimeOf(s, id).publication
    /\ rt.desired = RuntimeOf(s, id).desired
    /\ rt.observed \in {RuntimeOf(s, id).observed, rt.gen}
    /\ ev.gen = s.outbox[id].gen
    /\ rt.observed < rt.gen => ~is_terminal(op.status)
    /\ op.status = "Completed" =>
         /\ rt.observed = rt.gen
         /\ rt.current = rt.desired
         /\ ev.status = "Delivered"

(* A report through update_outbox that fits the event keeps a snapshot good. *)
LEMMA ReportPreserves ==
  ASSUME NEW s, NEW id \in OpId, NEW op, NEW rt, NEW ev,
         SnapOK(s), Updatable(s, id), ReportFits(s, id, op, rt, ev)
  PROVE  /\ SnapOK(apply_commit(s, id, op, rt, ev))
         /\ Extends(s, apply_commit(s, id, op, rt, ev))
PROOF
  <1> DEFINE t == apply_commit(s, id, op, rt, ev)
             p0 == id[1]
  <1>1. s \in PublicationSnapshot /\ validate_snapshot(s) /\ OneOwnerPerGeneration(s)
        /\ StillQueued(s) /\ CompletionEarned(s) /\ HostsApart(s)
    BY DEF SnapOK
  <1>2. op \in PublishOperation /\ rt \in WorkRuntimeState /\ ev \in PublicationOutboxEvent
    BY DEF ReportFits
  <1>3. /\ t \in PublicationSnapshot
        /\ \A p \in Projects : t.runtimes[p] = IF p = id[1] THEN rt ELSE s.runtimes[p]
        /\ \A x \in OpId : t.operations[x] = IF x = id THEN op ELSE s.operations[x]
        /\ \A x \in OpId : t.outbox[x] = IF x = id THEN ev ELSE s.outbox[x]
    BY <1>1, <1>2, ApplyCommit
  <1>4. id[1] \in Projects /\ id[2] \in Keys /\ id = <<id[1], id[2]>>
    BY OpIdFacts
  <1> HIDE DEF t
  <1>5. /\ \A x \in OpId : s.operations[x].gen \in Nat /\ t.operations[x].gen = s.operations[x].gen
        /\ \A x \in OpId : t.outbox[x].gen = s.outbox[x].gen /\ s.outbox[x].gen \in Nat
        /\ \A p \in Projects : t.runtimes[p].gen = s.runtimes[p].gen /\ s.runtimes[p].gen \in Nat
        /\ \A p \in Projects : /\ s.runtimes[p].observed \in Nat
                               /\ t.runtimes[p].observed \in Nat
                               /\ s.runtimes[p].observed <= t.runtimes[p].observed
                               /\ t.runtimes[p].observed <= t.runtimes[p].gen
    <2>1. \A x \in OpId : s.operations[x] \in PublishOperation /\ s.outbox[x] \in PublicationOutboxEvent
      BY <1>1 DEF PublicationSnapshot
    <2>2. \A p \in Projects : s.runtimes[p] \in WorkRuntimeState /\ s.runtimes[p].observed <= s.runtimes[p].gen
      BY <1>1 DEF PublicationSnapshot, validate_snapshot
    <2>3. QED
      BY <1>2, <1>3, <1>4, <2>1, <2>2
         DEF ReportFits, RuntimeOf, PublishOperation, WorkRuntimeState, PublicationOutboxEvent
  <1>6. validate_snapshot(t)
    <2>1. ASSUME NEW p \in Projects
          PROVE  (t.runtimes[p].publication = "Published") <=> (t.runtimes[p].desired # None)
      BY <1>1, <1>3 DEF validate_snapshot, ReportFits, RuntimeOf
    <2>2. ASSUME NEW x \in OpId, Known(t, x)
          PROVE  /\ t.outbox[x].gen = t.operations[x].gen
                 /\ t.operations[x].gen <= RuntimeOf(t, x).gen
      BY <1>1, <1>5, <2>2, OpIdFacts DEF validate_snapshot, Known, RuntimeOf
    <2>3. QED
      BY <1>5, <2>1, <2>2 DEF validate_snapshot
  <1>7. OneOwnerPerGeneration(t)
    BY <1>1, <1>5, OpIdPair, SMTT(40) DEF OneOwnerPerGeneration
  <1>8. StillQueued(t)
    <2> SUFFICES ASSUME NEW p \in Projects, t.runtimes[p].observed < t.runtimes[p].gen
                 PROVE  \E k \in Keys :
                          /\ IsCurrent(t, <<p, k>>)
                          /\ ~is_terminal(t.operations[<<p, k>>].status)
                          /\ \/ t.outbox[<<p, k>>].status = "Pending"
                             \/ ReplayCandidate(t, <<p, k>>)
      BY DEF StillQueued
    <2>1. CASE p = id[1]
      <3>1. /\ t.operations[id] = op /\ t.outbox[id] = ev /\ t.runtimes[p] = rt
        BY <1>3, <1>4, <2>1
      <3>2. ~is_terminal(op.status)
        BY <3>1 DEF ReportFits
      <3>3. op.gen = rt.gen /\ ev.gen = rt.gen /\ op.gen > 0
        BY DEF ReportFits, Updatable, Known
      <3>4. ev.status = "Pending" \/ ev.status = "Delivered"
        BY <1>2 DEF PublicationOutboxEvent
      <3>5. RuntimeOf(t, id) = rt
        BY <3>1, <2>1 DEF RuntimeOf
      <3>6. IsCurrent(t, id)
        BY <3>1, <3>3, <3>5 DEF IsCurrent, Known
      <3>7. ev.status = "Delivered" => ReplayCandidate(t, id)
        BY <3>1, <3>2, <3>3, <3>5 DEF ReplayCandidate, Known
      <3>8. QED
        BY <1>4, <2>1, <3>1, <3>2, <3>4, <3>6, <3>7
    <2>2. CASE p # id[1]
      <3>1. t.runtimes[p] = s.runtimes[p]
        BY <1>3, <2>2
      <3>2. PICK k \in Keys :
              /\ IsCurrent(s, <<p, k>>)
              /\ ~is_terminal(s.operations[<<p, k>>].status)
              /\ \/ s.outbox[<<p, k>>].status = "Pending"
                 \/ ReplayCandidate(s, <<p, k>>)
        BY <1>1, <3>1 DEF StillQueued
      <3>3. /\ <<p, k>> \in OpId /\ <<p, k>> # id /\ <<p, k>>[1] = p
        BY <2>2, OpIdPair
      <3>4. t.operations[<<p, k>>] = s.operations[<<p, k>>] /\ t.outbox[<<p, k>>] = s.outbox[<<p, k>>]
        BY <1>3, <3>3
      <3>5. QED
        BY <3>1, <3>2, <3>3, <3>4 DEF IsCurrent, ReplayCandidate, Known, RuntimeOf
    <2>3. QED
      BY <2>1, <2>2
  <1>9. CompletionEarned(t)
    <2> SUFFICES ASSUME NEW x \in OpId, IsCurrent(t, x), t.operations[x].status = "Completed"
                 PROVE  /\ RuntimeOf(t, x).observed = RuntimeOf(t, x).gen
                        /\ RuntimeOf(t, x).current = RuntimeOf(t, x).desired
                        /\ t.outbox[x].status = "Delivered"
      BY DEF CompletionEarned
    <2>1. CASE x = id
      BY <1>3, <1>4, <2>1 DEF ReportFits, RuntimeOf
    <2>2. CASE x # id
      <3>1. x[1] # id[1]
        <4>1. t.operations[x].gen = s.operations[x].gen /\ t.operations[x].gen > 0
          BY <1>5 DEF IsCurrent, Known
        <4>2. x[1] = id[1] => s.operations[x].gen = s.operations[id].gen
          BY <1>3, <1>4, <1>5, OpIdFacts DEF IsCurrent, RuntimeOf, Updatable
        <4>3. x = <<x[1], x[2]>> /\ x[2] \in Keys /\ x[1] \in Projects
          BY OpIdFacts
        <4>4. QED
          BY <1>1, <1>4, <2>2, <4>1, <4>2, <4>3 DEF OneOwnerPerGeneration
      <3>2. t.runtimes[x[1]] = s.runtimes[x[1]] /\ t.operations[x] = s.operations[x]
            /\ t.outbox[x] = s.outbox[x]
        BY <1>3, <2>2, <3>1, OpIdFacts
      <3>3. QED
        BY <1>1, <3>2 DEF CompletionEarned, IsCurrent, Known, RuntimeOf
    <2>3. QED
      BY <2>1, <2>2
  <1>10. Extends(s, t)
    <2>1. ASSUME NEW p \in Projects
          PROVE  t.runtimes[p].host = s.runtimes[p].host
      BY <1>3, <1>4 DEF ReportFits, RuntimeOf
    <2>2. ASSUME NEW x \in OpId, Known(s, x)
          PROVE  /\ t.operations[x].request = s.operations[x].request
                 /\ s.operations[x].gen < RuntimeOf(s, x).gen =>
                      t.operations[x] = s.operations[x]
      <3>1. t.operations[x].request = s.operations[x].request
        BY <1>3 DEF ReportFits
      <3>2. s.operations[id].gen = RuntimeOf(s, id).gen
        BY DEF Updatable
      <3>3. RuntimeOf(s, id).gen \in Nat
        BY <1>4, <1>5 DEF RuntimeOf
      <3>4. QED
        BY <1>3, <3>1, <3>2, <3>3
    <2>3. QED
      BY <1>5, <2>1, <2>2 DEF Extends
  <1>11. HostsApart(t)
    <2>1. \A p \in Projects : t.runtimes[p].host = s.runtimes[p].host
      BY <1>3, <1>4 DEF ReportFits, RuntimeOf
    <2>2. QED
      BY <1>1, <2>1 DEF HostsApart
  <1>12. QED
    BY <1>3, <1>6, <1>7, <1>8, <1>9, <1>10, <1>11 DEF SnapOK, t

-----------------------------------------------------------------------------
(* Every report fits; a report is a SnapOK snapshot that extends the old one. *)

ReportOf(s, id, t) == SnapOK(t) /\ Extends(s, t)

(* Option::None and Some are members of an Option. *)
LEMMA OptionFacts ==
  /\ \A S : None \in Option(S)
  /\ \A S : \A x \in S : x \in Option(S)
  BY DEF Option

(* What a good snapshot says of an event that update_outbox accepts. *)
LEMMA SnapFacts ==
  ASSUME NEW s, NEW id \in OpId, SnapOK(s), Updatable(s, id)
  PROVE  /\ s.operations[id] \in PublishOperation
         /\ s.outbox[id] \in PublicationOutboxEvent
         /\ RuntimeOf(s, id) \in WorkRuntimeState
         /\ RuntimeOf(s, id).observed <= RuntimeOf(s, id).gen
         /\ s.operations[id].gen = RuntimeOf(s, id).gen
         /\ s.operations[id].status = "Completed" =>
              /\ RuntimeOf(s, id).observed = RuntimeOf(s, id).gen
              /\ RuntimeOf(s, id).current = RuntimeOf(s, id).desired
              /\ s.outbox[id].status = "Delivered"
         /\ RuntimeOf(s, id).observed < RuntimeOf(s, id).gen =>
              ~is_terminal(s.operations[id].status)
PROOF
  <1>1. s \in PublicationSnapshot /\ id[1] \in Projects /\ id[2] \in Keys /\ id = <<id[1], id[2]>>
    BY OpIdFacts DEF SnapOK
  <1>2. s.operations[id] \in PublishOperation /\ s.outbox[id] \in PublicationOutboxEvent
        /\ RuntimeOf(s, id) \in WorkRuntimeState
    BY <1>1 DEF PublicationSnapshot, RuntimeOf
  <1>3. RuntimeOf(s, id).observed <= RuntimeOf(s, id).gen
    BY <1>1 DEF SnapOK, validate_snapshot, RuntimeOf
  <1>4. s.operations[id].gen = RuntimeOf(s, id).gen /\ Known(s, id)
    BY DEF Updatable
  <1>5. s.operations[id].status = "Completed" =>
              /\ RuntimeOf(s, id).observed = RuntimeOf(s, id).gen
              /\ RuntimeOf(s, id).current = RuntimeOf(s, id).desired
              /\ s.outbox[id].status = "Delivered"
    BY <1>4 DEF SnapOK, CompletionEarned, IsCurrent
  <1>6. ASSUME RuntimeOf(s, id).observed < RuntimeOf(s, id).gen
        PROVE  ~is_terminal(s.operations[id].status)
    <2>1. PICK k \in Keys :
            /\ IsCurrent(s, <<id[1], k>>)
            /\ ~is_terminal(s.operations[<<id[1], k>>].status)
      BY <1>1, <1>6 DEF SnapOK, StillQueued, RuntimeOf
    <2>2. s.operations[<<id[1], k>>].gen = s.operations[id].gen /\ s.operations[<<id[1], k>>].gen > 0
      BY <1>1, <1>4, <2>1, OpIdPair DEF IsCurrent, RuntimeOf, Known
    <2>3. k = id[2]
      BY <1>1, <2>2 DEF SnapOK, OneOwnerPerGeneration
    <2>4. QED
      BY <1>1, <2>1, <2>3
  <1>7. QED
    BY <1>2, <1>3, <1>4, <1>5, <1>6

(* record_delivery_attempt keeps a snapshot good. *)
LEMMA DeliveryAttemptFits ==
  ASSUME NEW s, NEW id \in OpId, SnapOK(s), Updatable(s, id)
  PROVE  ReportOf(s, id, DeliveryAttempt(s, id))
PROOF
  <1> DEFINE ev == IF s.outbox[id].status = "Delivered" THEN s.outbox[id]
                   ELSE [s.outbox[id] EXCEPT !.attempts = IF @ < BackoffCap THEN @ + 1 ELSE @]
  <1>1. /\ ev \in PublicationOutboxEvent
        /\ ev.gen = s.outbox[id].gen
        /\ ev.status = s.outbox[id].status
    BY SnapFacts, BackoffCapAssumption DEF PublicationOutboxEvent
  <1> HIDE DEF ev
  <1>2. ReportFits(s, id, s.operations[id], RuntimeOf(s, id), ev)
    BY <1>1, SnapFacts DEF ReportFits
  <1>3. QED
    BY <1>2, ReportPreserves DEF DeliveryAttempt, ReportOf, ev

(* record_delivered keeps a snapshot good: the event can be replayed. *)
LEMMA DeliveredFits ==
  ASSUME NEW s, NEW id \in OpId, SnapOK(s), Updatable(s, id)
  PROVE  ReportOf(s, id, Delivered(s, id))
PROOF
  <1> DEFINE op == [s.operations[id] EXCEPT !.status = "Reconciling", !.checkpoint = "Reconciling"]
             ev == [s.outbox[id] EXCEPT !.status = "Delivered"]
  <1>1. ReportFits(s, id, op, RuntimeOf(s, id), ev)
    BY SnapFacts, ZenonT(40) DEF ReportFits, PublishOperation, PublicationOutboxEvent, is_terminal,
       PublishOperationStatus, PublishCheckpoint
  <1>2. QED
    BY <1>1, ReportPreserves DEF Delivered, ReportOf

(* record_workload_ready keeps a snapshot good: the generation is observed. *)
LEMMA WorkloadReadyFits ==
  ASSUME NEW s, NEW id \in OpId, SnapOK(s), Updatable(s, id),
         NEW dep \in DepIds, NEW svc \in SvcIds, NEW ing \in Option(IngIds)
  PROVE  ReportOf(s, id, WorkloadReady(s, id, dep, svc, ing))
PROOF
  <1> DEFINE rt0 == RuntimeOf(s, id)
             op0 == s.operations[id]
             previous == IF rt0.current # rt0.desired THEN rt0.current ELSE rt0.previous
             op == CASE ing # None ->
                        [op0 EXCEPT !.status = "Completed", !.checkpoint = "Completed"]
                     [] ing = None /\ op0.status \notin
                          {"TrafficSwitched", "ExternalProbePassed", "Completed"} ->
                        [op0 EXCEPT !.status = "WorkloadReady", !.checkpoint = "WorkloadReady"]
                     [] OTHER -> op0
             status == CASE ing # None \/ rt0.status = "Published" -> "Published"
                         [] previous # None -> "Updating"
                         [] OTHER -> "Publishing"
             rt == [rt0 EXCEPT !.previous = previous,
                    !.current = rt0.desired,
                    !.lastSuccessful = rt0.desired,
                    !.dep = dep,
                    !.svc = svc,
                    !.ing = IF ing # None THEN ing ELSE rt0.ing,
                    !.observed = rt0.gen,
                    !.status = status]
             ev == [s.outbox[id] EXCEPT !.status = "Delivered"]
  <1>1. rt0 \in WorkRuntimeState /\ op0 \in PublishOperation /\ s.outbox[id] \in PublicationOutboxEvent
    BY SnapFacts
  <1>2. previous \in Option(Releases)
    BY <1>1 DEF WorkRuntimeState
  <1>3. status \in WorkRuntimeStatus
    BY DEF WorkRuntimeStatus
  <1>4. op \in PublishOperation /\ op.gen = op0.gen /\ op.request = op0.request
    BY <1>1 DEF PublishOperation, PublishOperationStatus, PublishCheckpoint
  <1>5. ev \in PublicationOutboxEvent /\ ev.gen = s.outbox[id].gen /\ ev.status = "Delivered"
    BY <1>1 DEF PublicationOutboxEvent
  <1> HIDE DEF previous, status, op, ev
  <1>6. /\ rt \in WorkRuntimeState
        /\ rt.gen = rt0.gen /\ rt.host = rt0.host /\ rt.publication = rt0.publication
        /\ rt.desired = rt0.desired /\ rt.current = rt0.desired /\ rt.observed = rt0.gen
        /\ rt0.gen \in Nat
    <2>1. dep \in Option(DepIds) /\ svc \in Option(SvcIds)
      BY OptionFacts
    <2>2. (IF ing # None THEN ing ELSE rt0.ing) \in Option(IngIds)
      BY <1>1 DEF WorkRuntimeState
    <2> HIDE DEF rt0
    <2>3. QED
      BY <1>1, <1>2, <1>3, <2>1, <2>2 DEF WorkRuntimeState
  <1>7. ReportFits(s, id, op, rt, ev)
    BY <1>4, <1>5, <1>6 DEF ReportFits
  <1>8. WorkloadReady(s, id, dep, svc, ing) = apply_commit(s, id, op, rt, ev)
    BY DEF WorkloadReady, op, ev, previous, status
  <1>9. QED
    BY <1>7, <1>8, ReportPreserves DEF ReportOf

(* record_traffic_switched keeps a snapshot good: the event is Pending again. *)
LEMMA TrafficSwitchedFits ==
  ASSUME NEW s, NEW id \in OpId, SnapOK(s), Updatable(s, id),
         NEW svc \in SvcIds, NEW ing \in Option(IngIds)
  PROVE  ReportOf(s, id, TrafficSwitched(s, id, svc, ing))
PROOF
  <1> DEFINE rt0 == RuntimeOf(s, id)
             op == [s.operations[id] EXCEPT !.status = "TrafficSwitched",
                                            !.checkpoint = "TrafficSwitched"]
             rt == [rt0 EXCEPT !.svc = svc,
                               !.ing = IF ing # None THEN ing ELSE rt0.ing,
                               !.status = "Updating"]
             ev == [s.outbox[id] EXCEPT !.status = "Pending"]
  <1>1. /\ op \in PublishOperation /\ op.gen = s.operations[id].gen
        /\ op.request = s.operations[id].request /\ op.status = "TrafficSwitched"
    BY SnapFacts DEF PublishOperation, PublishOperationStatus, PublishCheckpoint
  <1>2. /\ rt \in WorkRuntimeState
        /\ rt.gen = rt0.gen /\ rt.host = rt0.host /\ rt.publication = rt0.publication
        /\ rt.desired = rt0.desired /\ rt.observed = rt0.observed
    <2>1. rt0 \in WorkRuntimeState
      BY SnapFacts
    <2>2. (IF ing # None THEN ing ELSE rt0.ing) \in Option(IngIds)
      BY <2>1 DEF WorkRuntimeState
    <2>3. svc \in Option(SvcIds) /\ "Updating" \in WorkRuntimeStatus
      BY OptionFacts DEF WorkRuntimeStatus
    <2> HIDE DEF rt0
    <2>4. QED
      BY <2>1, <2>2, <2>3 DEF WorkRuntimeState
  <1>3. ev \in PublicationOutboxEvent /\ ev.gen = s.outbox[id].gen
    BY SnapFacts DEF PublicationOutboxEvent
  <1> HIDE DEF op, rt, ev
  <1>4. ReportFits(s, id, op, rt, ev)
    BY <1>1, <1>2, <1>3 DEF ReportFits, is_terminal
  <1>5. QED
    BY <1>4, ReportPreserves DEF TrafficSwitched, ReportOf, op, rt, ev

(* record_unpublished keeps a snapshot good: the generation is observed. *)
LEMMA UnpublishedFits ==
  ASSUME NEW s, NEW id \in OpId, SnapOK(s), Updatable(s, id),
         RuntimeOf(s, id).desired = None
  PROVE  ReportOf(s, id, Unpublished(s, id))
PROOF
  <1> DEFINE rt0 == RuntimeOf(s, id)
             op == [s.operations[id] EXCEPT !.status = "Completed", !.checkpoint = "Completed"]
             rt == [rt0 EXCEPT !.previous = rt0.current, !.current = None,
                               !.dep = None, !.svc = None, !.ing = None,
                               !.observed = rt0.gen, !.status = "Unpublished"]
             ev == [s.outbox[id] EXCEPT !.status = "Delivered"]
  <1>1. /\ op \in PublishOperation /\ op.gen = s.operations[id].gen
        /\ op.request = s.operations[id].request
    BY SnapFacts, ZenonT(40) DEF PublishOperation, PublishOperationStatus, PublishCheckpoint
  <1>2. /\ rt \in WorkRuntimeState
        /\ rt.gen = rt0.gen /\ rt.host = rt0.host /\ rt.publication = rt0.publication
        /\ rt.desired = rt0.desired /\ rt.observed = rt0.gen /\ rt.current = None
        /\ rt0.gen \in Nat
    <2>1. rt0 \in WorkRuntimeState
      BY SnapFacts
    <2>2. /\ None \in Option(Releases) /\ None \in Option(DepIds) /\ None \in Option(SvcIds)
          /\ None \in Option(IngIds) /\ "Unpublished" \in WorkRuntimeStatus
      BY OptionFacts DEF WorkRuntimeStatus
    <2> HIDE DEF rt0
    <2>3. QED
      BY <2>1, <2>2 DEF WorkRuntimeState
  <1>3. ev \in PublicationOutboxEvent /\ ev.gen = s.outbox[id].gen /\ ev.status = "Delivered"
    BY SnapFacts DEF PublicationOutboxEvent
  <1> HIDE DEF op, rt, ev
  <1>4. ReportFits(s, id, op, rt, ev)
    BY <1>1, <1>2, <1>3 DEF ReportFits
  <1>5. QED
    BY <1>4, ReportPreserves DEF Unpublished, ReportOf, op, rt, ev

(* The three reports that put the event back in the outbox. *)
LEMMA RequeueFits ==
  ASSUME NEW s, NEW id \in OpId, SnapOK(s), Updatable(s, id)
  PROVE  /\ ReportOf(s, id, ReconcileFailure(s, id))
         /\ ReportOf(s, id, RecreationAuthorized(s, id))
         /\ ReportOf(s, id, Replayed(s, id))
PROOF
  <1> DEFINE rt0 == RuntimeOf(s, id)
             op == [s.operations[id] EXCEPT !.status = "ReconcileRequired"]
             ev == [s.outbox[id] EXCEPT !.status = "Pending"]
             rt1 == [rt0 EXCEPT !.status = "ReconcileRequired"]
             rt2 == [rt0 EXCEPT !.status = "ReconcileRequired", !.dep = None]
  <1>1. /\ op \in PublishOperation /\ op.gen = s.operations[id].gen
        /\ op.request = s.operations[id].request /\ op.status = "ReconcileRequired"
    BY SnapFacts DEF PublishOperation, PublishOperationStatus
  <1>2. ev \in PublicationOutboxEvent /\ ev.gen = s.outbox[id].gen
    BY SnapFacts DEF PublicationOutboxEvent
  <1>3. \A rt \in {rt0, rt1, rt2} :
          /\ rt \in WorkRuntimeState
          /\ rt.gen = rt0.gen /\ rt.host = rt0.host /\ rt.publication = rt0.publication
          /\ rt.desired = rt0.desired /\ rt.observed = rt0.observed
    <2>1. rt0 \in WorkRuntimeState
      BY SnapFacts
    <2>2. None \in Option(DepIds) /\ "ReconcileRequired" \in WorkRuntimeStatus
      BY OptionFacts DEF WorkRuntimeStatus
    <2> HIDE DEF rt0
    <2>3. QED
      BY <2>1, <2>2, ZenonT(40) DEF WorkRuntimeState
  <1> HIDE DEF op, ev, rt1, rt2
  <1>4. \A rt \in {rt0, rt1, rt2} : ReportFits(s, id, op, rt, ev)
    BY <1>1, <1>2, <1>3 DEF ReportFits, is_terminal
  <1>5. \A rt \in {rt0, rt1, rt2} : ReportOf(s, id, apply_commit(s, id, op, rt, ev))
    BY <1>4, ReportPreserves DEF ReportOf
  <1>6. QED
    BY <1>5 DEF ReconcileFailure, RecreationAuthorized, Replayed, op, ev, rt1, rt2

-----------------------------------------------------------------------------
(* A new intent takes the next generation of its project. *)
LEMMA IntentCommitFits ==
  ASSUME NEW s, NEW id \in OpId, SnapOK(s), ~Known(s, id),
         NEW intent \in PublicationIntent, validate(intent), NEW host \in FreeHosts(s)
  PROVE  ReportOf(s, id, IntentCommit(s, id, intent, host))
PROOF
  <1> DEFINE rt0 == RuntimeOf(s, id)
             g == rt0.gen + 1
             op == [request |-> intent, gen |-> g,
                    status |-> "DesiredStateCommitted",
                    checkpoint |-> "DesiredStateCommitted"]
             rt == [rt0 EXCEPT !.gen = g,
                    !.desired = intent.release,
                    !.publication = IF intent.kind = "Unpublish"
                                    THEN "Unpublished" ELSE "Published",
                    !.status = StatusOfKind(intent.kind),
                    !.host = IF rt0.gen = 0 THEN host ELSE rt0.host]
             ev == [gen |-> g, status |-> "Pending", attempts |-> 0]
             t == apply_commit(s, id, op, rt, ev)
  <1>1. s \in PublicationSnapshot /\ validate_snapshot(s) /\ OneOwnerPerGeneration(s)
        /\ StillQueued(s) /\ CompletionEarned(s) /\ HostsApart(s)
    BY DEF SnapOK
  <1>2. id[1] \in Projects /\ id[2] \in Keys /\ id = <<id[1], id[2]>>
    BY OpIdFacts
  <1>3. rt0 \in WorkRuntimeState /\ rt0.gen \in Nat /\ g \in Nat /\ g > 0
    BY <1>1, <1>2 DEF RuntimeOf, PublicationSnapshot, WorkRuntimeState
  <1>4. op \in PublishOperation
    BY <1>3 DEF PublishOperation, PublishOperationStatus, PublishCheckpoint
  <1>5. ev \in PublicationOutboxEvent
    BY <1>3, BackoffCapAssumption DEF PublicationOutboxEvent
  <1>6. /\ rt \in WorkRuntimeState
        /\ rt.gen = g /\ rt.desired = intent.release /\ rt.observed = rt0.observed
        /\ rt0.gen > 0 => rt.host = rt0.host
        /\ rt.host \in {host, rt0.host}
        /\ (rt.publication = "Published") <=> (rt.desired # None)
    <2>1. intent.release \in Option(Releases)
      BY DEF PublicationIntent
    <2>2. StatusOfKind(intent.kind) \in WorkRuntimeStatus
      BY DEF StatusOfKind, WorkRuntimeStatus
    <2>3. (IF rt0.gen = 0 THEN host ELSE rt0.host) \in Option(Hosts)
      BY <1>3, OptionFacts DEF WorkRuntimeState, FreeHosts
    <2>4. (intent.kind = "Unpublish") <=> (intent.release = None)
      BY DEF validate
    <2> DEFINE pub == IF intent.kind = "Unpublish" THEN "Unpublished" ELSE "Published"
               st == StatusOfKind(intent.kind)
               h == IF rt0.gen = 0 THEN host ELSE rt0.host
               rel == intent.release
    <2>5. /\ pub \in {"Published", "Unpublished"}
          /\ (pub = "Published") <=> (rel # None)
          /\ rt0.gen > 0 => h = rt0.host
          /\ h \in {host, rt0.host}
      BY <1>3, <2>4
    <2>6. rt = [rt0 EXCEPT !.gen = g, !.desired = rel, !.publication = pub,
                           !.status = st, !.host = h]
      OBVIOUS
    <2> HIDE DEF rt0, g, pub, st, h, rel, rt
    <2>7. rel \in Option(Releases) /\ st \in WorkRuntimeStatus /\ h \in Option(Hosts)
      BY <2>1, <2>2, <2>3 DEF rel, st, h
    <2>8. rt \in WorkRuntimeState
      BY <1>3, <2>5, <2>6, <2>7 DEF WorkRuntimeState
    <2>9. /\ rt.gen = g /\ rt.desired = rel /\ rt.observed = rt0.observed
          /\ rt.host = h /\ rt.publication = pub
      BY <1>3, <2>6 DEF WorkRuntimeState
    <2>10. QED
      BY <2>5, <2>8, <2>9 DEF rel
  <1>7. op.gen = g /\ op.request = intent /\ op.status = "DesiredStateCommitted"
        /\ ev.gen = g /\ ev.status = "Pending"
    OBVIOUS
  <1> HIDE DEF op, rt, ev
  <1>8. /\ t \in PublicationSnapshot
        /\ \A p \in Projects : t.runtimes[p] = IF p = id[1] THEN rt ELSE s.runtimes[p]
        /\ \A x \in OpId : t.operations[x] = IF x = id THEN op ELSE s.operations[x]
        /\ \A x \in OpId : t.outbox[x] = IF x = id THEN ev ELSE s.outbox[x]
    BY <1>1, <1>4, <1>5, <1>6, ApplyCommit
  <1> HIDE DEF t
  <1>9. /\ \A x \in OpId : s.operations[x].gen \in Nat /\ s.outbox[x].gen \in Nat
        /\ \A p \in Projects : s.runtimes[p].gen \in Nat /\ s.runtimes[p].observed \in Nat
                               /\ s.runtimes[p].observed <= s.runtimes[p].gen
    BY <1>1 DEF PublicationSnapshot, PublishOperation, WorkRuntimeState,
                PublicationOutboxEvent, validate_snapshot
  <1>10. s.operations[id].gen = 0
    BY <1>9 DEF Known
  (* every operation of the project is older than the new one *)
  <1>11. \A x \in OpId : x[1] = id[1] => s.operations[x].gen < g
    <2>1. \A x \in OpId : s.operations[x].gen > 0 => s.operations[x].gen <= RuntimeOf(s, x).gen
      BY <1>1 DEF validate_snapshot, Known
    <2>2. \A x \in OpId : x[1] = id[1] => RuntimeOf(s, x).gen = rt0.gen
      BY DEF RuntimeOf
    <2>3. QED
      BY <1>3, <1>9, <2>1, <2>2
  <1>12. validate_snapshot(t)
    <2>1. ASSUME NEW p \in Projects
          PROVE  /\ t.runtimes[p].observed <= t.runtimes[p].gen
                 /\ (t.runtimes[p].publication = "Published") <=> (t.runtimes[p].desired # None)
      <3>1. CASE p = id[1]
        BY <1>2, <1>3, <1>6, <1>8, <1>9, <3>1 DEF RuntimeOf
      <3>2. CASE p # id[1]
        BY <1>1, <1>8, <3>2 DEF validate_snapshot
      <3>3. QED
        BY <3>1, <3>2
    <2>2. ASSUME NEW x \in OpId, Known(t, x)
          PROVE  /\ t.outbox[x].gen = t.operations[x].gen
                 /\ t.operations[x].gen <= RuntimeOf(t, x).gen
      <3>1. CASE x = id
        BY <1>2, <1>3, <1>6, <1>7, <1>8, <3>1 DEF RuntimeOf
      <3>2. CASE x # id
        <4>1. t.operations[x] = s.operations[x] /\ t.outbox[x] = s.outbox[x]
          BY <1>8, <3>2
        <4>2. s.outbox[x].gen = s.operations[x].gen /\ s.operations[x].gen <= RuntimeOf(s, x).gen
          BY <1>1, <2>2, <4>1 DEF validate_snapshot, Known
        <4>3. x[1] \in Projects
          BY OpIdFacts
        <4>4. QED
          BY <1>3, <1>6, <1>8, <1>9, <1>11, <4>1, <4>2, <4>3 DEF RuntimeOf
      <3>3. QED
        BY <3>1, <3>2
    <2>3. QED
      BY <2>1, <2>2 DEF validate_snapshot
  <1>13. OneOwnerPerGeneration(t)
    <2>1. ASSUME NEW p \in Projects, NEW n \in 1..t.runtimes[p].gen
          PROVE  \E k \in Keys : t.operations[<<p, k>>].gen = n
      <3>1. CASE p = id[1] /\ n = g
        BY <1>2, <1>7, <1>8, <3>1
      <3>2. CASE ~(p = id[1] /\ n = g)
        <4>1. n \in 1..s.runtimes[p].gen
          BY <1>3, <1>6, <1>8, <1>9, <3>2 DEF RuntimeOf
        <4>2. PICK k \in Keys : s.operations[<<p, k>>].gen = n
          BY <1>1, <4>1 DEF OneOwnerPerGeneration
        <4>3. <<p, k>> \in OpId /\ <<p, k>> # id
          BY <1>10, <4>1, <4>2, OpIdPair
        <4>4. QED
          BY <1>8, <4>2, <4>3
      <3>3. QED
        BY <3>1, <3>2
    <2>2. ASSUME NEW p \in Projects, NEW k1 \in Keys, NEW k2 \in Keys,
                 t.operations[<<p, k1>>].gen = t.operations[<<p, k2>>].gen,
                 t.operations[<<p, k1>>].gen > 0
          PROVE  k1 = k2
      <3>1. /\ <<p, k1>> \in OpId /\ <<p, k2>> \in OpId
            /\ <<p, k1>>[1] = p /\ <<p, k2>>[1] = p
        BY OpIdPair
      <3>2. CASE <<p, k1>> # id /\ <<p, k2>> # id
        BY <1>1, <1>8, <2>2, <3>1, <3>2 DEF OneOwnerPerGeneration
      <3>3. CASE <<p, k1>> = id \/ <<p, k2>> = id
        BY <1>7, <1>8, <1>9, <1>11, <2>2, <3>1, <3>3
      <3>4. QED
        BY <3>2, <3>3
    <2>3. QED
      BY <2>1, <2>2 DEF OneOwnerPerGeneration
  <1>14. StillQueued(t)
    <2> SUFFICES ASSUME NEW p \in Projects, t.runtimes[p].observed < t.runtimes[p].gen
                 PROVE  \E k \in Keys :
                          /\ IsCurrent(t, <<p, k>>)
                          /\ ~is_terminal(t.operations[<<p, k>>].status)
                          /\ \/ t.outbox[<<p, k>>].status = "Pending"
                             \/ ReplayCandidate(t, <<p, k>>)
      BY DEF StillQueued
    <2>1. CASE p = id[1]
      <3>1. /\ t.operations[id] = op /\ t.outbox[id] = ev /\ RuntimeOf(t, id) = rt
        BY <1>2, <1>8, <2>1 DEF RuntimeOf
      <3>2. IsCurrent(t, id) /\ ~is_terminal(t.operations[id].status)
        BY <1>3, <1>6, <1>7, <3>1 DEF IsCurrent, Known, is_terminal
      <3>3. QED
        BY <1>2, <1>7, <2>1, <3>1, <3>2
    <2>2. CASE p # id[1]
      <3>1. t.runtimes[p] = s.runtimes[p]
        BY <1>8, <2>2
      <3>2. PICK k \in Keys :
              /\ IsCurrent(s, <<p, k>>)
              /\ ~is_terminal(s.operations[<<p, k>>].status)
              /\ \/ s.outbox[<<p, k>>].status = "Pending"
                 \/ ReplayCandidate(s, <<p, k>>)
        BY <1>1, <3>1 DEF StillQueued
      <3>3. /\ <<p, k>> \in OpId /\ <<p, k>> # id /\ <<p, k>>[1] = p
        BY <2>2, OpIdPair
      <3>4. t.operations[<<p, k>>] = s.operations[<<p, k>>] /\ t.outbox[<<p, k>>] = s.outbox[<<p, k>>]
        BY <1>8, <3>3
      <3>5. QED
        BY <3>1, <3>2, <3>3, <3>4 DEF IsCurrent, ReplayCandidate, Known, RuntimeOf
    <2>3. QED
      BY <2>1, <2>2
  <1>15. CompletionEarned(t)
    <2> SUFFICES ASSUME NEW x \in OpId, IsCurrent(t, x), t.operations[x].status = "Completed"
                 PROVE  /\ RuntimeOf(t, x).observed = RuntimeOf(t, x).gen
                        /\ RuntimeOf(t, x).current = RuntimeOf(t, x).desired
                        /\ t.outbox[x].status = "Delivered"
      BY DEF CompletionEarned
    <2>1. x # id
      BY <1>7, <1>8
    <2>2. t.operations[x] = s.operations[x] /\ t.outbox[x] = s.outbox[x]
      BY <1>8, <2>1
    <2>3. x[1] # id[1]
      BY <1>3, <1>6, <1>8, <1>9, <1>11, <2>2, OpIdFacts DEF IsCurrent, RuntimeOf
    <2>4. RuntimeOf(t, x) = RuntimeOf(s, x)
      BY <1>8, <2>3, OpIdFacts DEF RuntimeOf
    <2>5. QED
      BY <1>1, <2>2, <2>4 DEF CompletionEarned, IsCurrent, Known
  <1>16. Extends(s, t)
    <2>1. ASSUME NEW p \in Projects
          PROVE  /\ s.runtimes[p].gen <= t.runtimes[p].gen
                 /\ s.runtimes[p].observed <= t.runtimes[p].observed
                 /\ s.runtimes[p].gen > 0 => t.runtimes[p].host = s.runtimes[p].host
      BY <1>2, <1>3, <1>6, <1>8, <1>9 DEF RuntimeOf
    <2>2. ASSUME NEW x \in OpId, Known(s, x)
          PROVE  t.operations[x] = s.operations[x]
      BY <1>8, <1>10, <2>2 DEF Known
    <2>3. QED
      BY <2>1, <2>2 DEF Extends
  <1>17. HostsApart(t)
    <2> SUFFICES ASSUME NEW p \in Projects, NEW q \in Projects, p # q,
                        t.runtimes[p].host = t.runtimes[q].host
                 PROVE  t.runtimes[p].host = None
      BY DEF HostsApart
    (* the new slug is no other project's, and not None *)
    <2>1. \A x \in Projects : s.runtimes[x].host # host
      BY DEF FreeHosts
    <2>2. \A x \in Projects : t.runtimes[x].host \in {host, s.runtimes[x].host}
      BY <1>2, <1>6, <1>8 DEF RuntimeOf
    <2>3. \A x \in Projects : x # id[1] => t.runtimes[x].host = s.runtimes[x].host
      BY <1>8
    <2>4. t.runtimes[p].host = s.runtimes[p].host /\ t.runtimes[q].host = s.runtimes[q].host
      BY <2>1, <2>2, <2>3
    <2>5. QED
      BY <1>1, <2>4 DEF HostsApart
  <1>18. QED
    BY <1>8, <1>12, <1>13, <1>14, <1>15, <1>16, <1>17
       DEF SnapOK, ReportOf, IntentCommit, t, op, rt, ev

-----------------------------------------------------------------------------
(* What a client was told stays true in every later snapshot. *)
LEMMA HoldsForward ==
  ASSUME NEW s, NEW t, NEW id \in OpId, NEW ack,
         Holds(s, id, ack), ack.gen > 0, Extends(s, t)
  PROVE  Holds(t, id, ack)
  BY DEF Holds, Extends, Known

(* persist_commit of a good snapshot keeps Inv, whether it succeeds or fails. *)
LEMMA PersistPreserves ==
  ASSUME Inv, NEW STATE next, SnapOK(next), Extends(mem, next), persist_commit(next),
         phase' \in {"recovering", "serving"}, acked' = acked
  PROVE  Inv' /\ Extends(mem, mem')
PROOF
  <1>1. mem \in PublicationSnapshot /\ disk \in PublicationSnapshot /\ next \in PublicationSnapshot
    BY DEF Inv, TypeOK, SnapOK
  <1>2. Extends(mem, mem) /\ Extends(next, next) /\ Extends(mem, disk)
    BY <1>1, ExtendsRefl DEF Inv
  <1>3. \/ mem' = next /\ disk' = next
        \/ mem' = mem /\ disk' \in {disk, next}
    BY DEF persist_commit, Persisted, PersistFailed
  <1>4. Extends(mem, mem') /\ Extends(mem', disk') /\ Extends(mem, disk')
    BY <1>2, <1>3
  <1>5. SnapOK(mem') /\ SnapOK(disk')
    BY <1>3 DEF Inv
  <1>6. TypeOK'
    BY <1>5 DEF Inv, TypeOK, SnapOK
  <1>7. ASSUME NEW id \in OpId, acked'[id].gen > 0
        PROVE  Holds(mem', id, acked'[id]) /\ Holds(disk', id, acked'[id])
    <2>1. Holds(mem, id, acked'[id])
      BY <1>7 DEF Inv, AckedNeverLost
    <2>2. QED
      BY <1>4, <1>7, <2>1, HoldsForward
  <1>8. AckedNeverLost'
    BY <1>7 DEF AckedNeverLost, Holds
  <1>9. (SnapOK(mem) /\ SnapOK(disk) /\ Extends(mem, disk))'
    BY <1>4, <1>5 DEF SnapOK, Extends, validate_snapshot, OneOwnerPerGeneration,
       StillQueued, CompletionEarned, HostsApart, Known, RuntimeOf, IsCurrent, ReplayCandidate
  <1>10. QED
    BY <1>4, <1>6, <1>8, <1>9 DEF Inv

(* A commit that answers Ok adds to what clients were told; so does a retry. *)
LEMMA AcknowledgePreserves ==
  ASSUME Inv, NEW id \in OpId, NEW STATE next, SnapOK(next), Extends(mem, next),
         Known(next, id), mem' = next, Acknowledge(id), phase' \in {"recovering", "serving"},
         SnapOK(disk'), Extends(next, disk'), Extends(mem, disk')
  PROVE  Inv' /\ Extends(mem, mem')
PROOF
  <1> DEFINE told == [request |-> next.operations[id].request, gen |-> next.operations[id].gen]
  <1>1. next.operations[id] \in PublishOperation
    BY DEF SnapOK, PublicationSnapshot
  <1>2. told \in [request : PublicationIntent, gen : Nat] /\ told.gen > 0
    BY <1>1 DEF PublishOperation, Known
  <1>3. acked' = [acked EXCEPT ![id] = told] /\ acked \in [OpId -> [request : PublicationIntent, gen : Nat]]
    BY DEF Acknowledge, Inv, TypeOK
  <1>4. Holds(next, id, told)
    BY DEF Holds
  <1> HIDE DEF told
  <1>5. ASSUME NEW x \in OpId, acked'[x].gen > 0
        PROVE  Holds(mem', x, acked'[x]) /\ Holds(disk', x, acked'[x])
    <2>1. CASE x = id
      BY <1>2, <1>3, <1>4, <2>1, HoldsForward
    <2>2. CASE x # id
      <3>1. acked'[x] = acked[x]
        BY <1>3, <2>2
      <3>2. Holds(mem, x, acked'[x])
        BY <1>5, <3>1 DEF Inv, AckedNeverLost
      <3>3. QED
        BY <1>5, <3>2, HoldsForward
    <2>3. QED
      BY <2>1, <2>2
  <1>6. AckedNeverLost'
    BY <1>5 DEF AckedNeverLost, Holds
  <1>7. TypeOK'
    BY <1>2, <1>3 DEF TypeOK, SnapOK
  <1> SnapOK(mem') /\ Extends(mem', disk')
    OBVIOUS
  <1>8. (SnapOK(mem) /\ SnapOK(disk) /\ Extends(mem, disk))'
    BY DEF SnapOK, Extends, validate_snapshot, OneOwnerPerGeneration,
       StillQueued, CompletionEarned, HostsApart, Known, RuntimeOf, IsCurrent, ReplayCandidate
  <1>9. QED
    BY <1>6, <1>7, <1>8 DEF Inv

-----------------------------------------------------------------------------
(* An empty store satisfies the invariant. *)
LEMMA InitInv == Init => Inv
PROOF
  <1> SUFFICES ASSUME Init PROVE Inv
    OBVIOUS
  <1>1. /\ NoIntent \in PublicationIntent
        /\ NoIntent.kind = "Publish"
    BY DEF NoIntent, PublicationIntent, PublishOperationKind, Option
  <1>2. initial_runtime \in WorkRuntimeState
    <2>1. "Unpublished" \in WorkRuntimeStatus
      BY DEF WorkRuntimeStatus
    <2>2. QED
      BY <2>1, OptionFacts DEF initial_runtime, WorkRuntimeState
  <1>3. NoOperation \in PublishOperation /\ NoEvent \in PublicationOutboxEvent
    BY <1>1, BackoffCapAssumption DEF NoOperation, NoEvent, PublishOperation, PublicationOutboxEvent,
       PublishOperationStatus, PublishCheckpoint
  <1>4. EmptySnapshot \in PublicationSnapshot
    BY <1>2, <1>3 DEF EmptySnapshot, PublicationSnapshot
  <1>5. /\ \A id \in OpId : EmptySnapshot.operations[id].gen = 0
        /\ \A p \in Projects : EmptySnapshot.runtimes[p] = initial_runtime
    BY DEF EmptySnapshot, NoOperation
  <1>6. initial_runtime.gen = 0 /\ initial_runtime.observed = 0
        /\ initial_runtime.publication = "Unpublished" /\ initial_runtime.desired = None
    BY DEF initial_runtime
  <1> HIDE DEF EmptySnapshot
  <1>7. validate_snapshot(EmptySnapshot)
    BY <1>5, <1>6 DEF validate_snapshot, Known
  <1>8. OneOwnerPerGeneration(EmptySnapshot)
    BY <1>5, <1>6, OpIdPair DEF OneOwnerPerGeneration
  <1>9. StillQueued(EmptySnapshot) /\ CompletionEarned(EmptySnapshot)
    BY <1>5, <1>6 DEF StillQueued, CompletionEarned, IsCurrent, Known
  <1>10. HostsApart(EmptySnapshot)
    BY <1>5 DEF HostsApart, initial_runtime
  <1>11. SnapOK(EmptySnapshot) /\ Extends(EmptySnapshot, EmptySnapshot)
    BY <1>4, <1>7, <1>8, <1>9, <1>10, ExtendsRefl DEF SnapOK
  <1>12. TypeOK /\ AckedNeverLost
    BY <1>1, <1>4 DEF Init, TypeOK, AckedNeverLost
  <1>13. QED
    BY <1>11, <1>12 DEF Init, Inv

(* Every step keeps the invariant and only moves the snapshot in memory forward. *)
LEMMA NextInv ==
  ASSUME Inv, [Next]_vars
  PROVE  Inv' /\ Extends(mem, mem')
PROOF
  <1>1. SnapOK(mem) /\ SnapOK(disk) /\ Extends(mem, disk) /\ Extends(mem, mem) /\ Extends(disk, disk)
        /\ phase \in {"recovering", "serving"}
    BY ExtendsRefl DEF Inv, SnapOK, TypeOK
  <1>2. ASSUME NEW id \in OpId, NEW intent \in PublicationIntent, commit_intent(id, intent)
        PROVE  Inv' /\ Extends(mem, mem')
    <2>1. PICK host \in FreeHosts(mem) :
            LET next == IntentCommit(mem, id, intent, host)
            IN \/ Persisted(next) /\ Acknowledge(id)
               \/ PersistFailed(next) /\ UNCHANGED acked
      BY <1>2 DEF commit_intent
    <2> DEFINE next == IntentCommit(mem, id, intent, host)
    <2>2. ReportOf(mem, id, next)
      BY <1>1, <1>2, IntentCommitFits DEF commit_intent
    <2>3. SnapOK(next) /\ Extends(mem, next) /\ Extends(next, next)
      BY <2>2, ExtendsRefl DEF ReportOf, SnapOK
    <2>4. phase' \in {"recovering", "serving"}
      BY <1>1, <1>2 DEF commit_intent
    <2>5. Known(next, id)
      <3>1. mem \in PublicationSnapshot /\ id[1] \in Projects
        BY <1>1, OpIdFacts DEF SnapOK
      <3>2. next.operations[id].gen = RuntimeOf(mem, id).gen + 1
        BY <3>1 DEF IntentCommit, apply_commit, PublicationSnapshot
      <3>3. RuntimeOf(mem, id).gen \in Nat
        BY <3>1 DEF RuntimeOf, PublicationSnapshot, WorkRuntimeState
      <3>4. QED
        BY <3>2, <3>3 DEF Known
    <2> HIDE DEF next
    <2>6. CASE Persisted(next) /\ Acknowledge(id)
      <3>1. mem' = next /\ disk' = next
        BY <2>6 DEF Persisted
      <3>2. QED
        BY <2>3, <2>4, <2>5, <2>6, <3>1, AcknowledgePreserves
    <2>7. CASE PersistFailed(next) /\ UNCHANGED acked
      BY <2>3, <2>4, <2>7, PersistPreserves DEF persist_commit
    <2>8. QED
      BY <2>1, <2>6, <2>7 DEF next
  <1>3. ASSUME NEW id \in OpId, commit_intent_retry(id, mem.operations[id].request)
        PROVE  Inv' /\ Extends(mem, mem')
    <2>1. mem' = mem /\ disk' = disk /\ phase' = phase /\ Acknowledge(id) /\ Known(mem, id)
      BY <1>3 DEF commit_intent_retry
    <2>2. QED
      BY <1>1, <2>1, AcknowledgePreserves
  <1>4. ASSUME NEW id \in OpId, NEW STATE next, Report(id, next),
               Updatable(mem, id) => ReportOf(mem, id, next)
        PROVE  Inv' /\ Extends(mem, mem')
    <2>1. SnapOK(next) /\ Extends(mem, next) /\ persist_commit(next)
          /\ phase' \in {"recovering", "serving"} /\ acked' = acked
      BY <1>1, <1>4 DEF Report, ReportOf
    <2>2. QED
      BY <2>1, PersistPreserves
  <1>5. ASSUME NEW id \in OpId, replay_nonterminal_outbox(id)
        PROVE  Inv' /\ Extends(mem, mem')
    <2>1. Updatable(mem, id)
      <3>1. Known(mem, id) /\ RuntimeOf(mem, id).gen = mem.outbox[id].gen
        BY <1>5 DEF replay_nonterminal_outbox, ReplayCandidate
      <3>2. mem.outbox[id].gen = mem.operations[id].gen
        BY <1>1, <3>1 DEF SnapOK, validate_snapshot
      <3>3. QED
        BY <3>1, <3>2 DEF Updatable
    <2>2. ReportOf(mem, id, Replayed(mem, id))
      BY <1>1, <2>1, RequeueFits
    <2>3. QED
      BY <1>1, <1>5, <2>2, PersistPreserves DEF replay_nonterminal_outbox, ReportOf
  <1>6. CASE CrashAndOpen
    <2>1. mem' = disk /\ disk' = disk /\ phase' = "recovering" /\ acked' = acked
      BY <1>6 DEF CrashAndOpen
    <2> SnapOK(mem') /\ SnapOK(disk') /\ Extends(mem', disk')
      BY <1>1, <2>1
    <2>2. (SnapOK(mem) /\ SnapOK(disk) /\ Extends(mem, disk))'
      BY DEF SnapOK, Extends, validate_snapshot, OneOwnerPerGeneration,
         StillQueued, CompletionEarned, HostsApart, Known, RuntimeOf, IsCurrent, ReplayCandidate
    <2>3. TypeOK' /\ AckedNeverLost'
      BY <2>1 DEF Inv, TypeOK, AckedNeverLost, Holds
    <2>4. QED
      BY <1>1, <2>1, <2>2, <2>3 DEF Inv
  <1>7. CASE RecoveryComplete \/ UNCHANGED vars
    <2>1. mem' = mem /\ disk' = disk /\ phase' \in {"recovering", "serving"} /\ acked' = acked
      BY <1>1, <1>7 DEF RecoveryComplete, vars
    <2> SnapOK(mem') /\ SnapOK(disk') /\ Extends(mem', disk')
      BY <1>1, <2>1
    <2>2. (SnapOK(mem) /\ SnapOK(disk) /\ Extends(mem, disk))'
      BY DEF SnapOK, Extends, validate_snapshot, OneOwnerPerGeneration,
         StillQueued, CompletionEarned, HostsApart, Known, RuntimeOf, IsCurrent, ReplayCandidate
    <2>3. TypeOK' /\ AckedNeverLost'
      BY <2>1 DEF Inv, TypeOK, AckedNeverLost, Holds
    <2>4. QED
      BY <1>1, <2>1, <2>2, <2>3 DEF Inv
  <1>8. ASSUME NEW id \in OpId, ClientStep(id)
        PROVE  Inv' /\ Extends(mem, mem')
    <2>1. CASE commit_intent_retry(id, mem.operations[id].request)
      BY <1>3, <2>1
    <2>2. CASE ~commit_intent_retry(id, mem.operations[id].request)
      <3>1. PICK kind \in PublishOperationKind, release \in Option(Releases),
                 current \in Option(Releases), gen \in 0..RuntimeOf(mem, id).gen :
              commit_intent(id, [kind |-> kind, release |-> release,
                                 expectedCurrent |-> current, expectedGeneration |-> gen])
        BY <1>8, <2>2 DEF ClientStep
      <3>2. [kind |-> kind, release |-> release,
             expectedCurrent |-> current, expectedGeneration |-> gen] \in PublicationIntent
        BY DEF PublicationIntent
      <3>3. QED
        BY <1>2, <3>1, <3>2
    <2>3. QED
      BY <2>1, <2>2
  <1>9. ASSUME NEW id \in OpId, ReportStep(id)
        PROVE  Inv' /\ Extends(mem, mem')
    <2>1. CASE record_delivery_attempt(id)
      BY <1>1, <1>4, <2>1, DeliveryAttemptFits DEF record_delivery_attempt
    <2>2. CASE record_delivered(id)
      BY <1>1, <1>4, <2>2, DeliveredFits DEF record_delivered
    <2>3. ASSUME NEW dep \in DepIds, NEW svc \in SvcIds, NEW ing \in Option(IngIds),
                 record_workload_ready(id, dep, svc, ing)
          PROVE  Inv' /\ Extends(mem, mem')
      BY <1>1, <1>4, <2>3, WorkloadReadyFits DEF record_workload_ready
    <2>4. ASSUME NEW svc \in SvcIds, NEW ing \in Option(IngIds),
                 record_traffic_switched(id, svc, ing)
          PROVE  Inv' /\ Extends(mem, mem')
      BY <1>1, <1>4, <2>4, TrafficSwitchedFits DEF record_traffic_switched
    <2>5. CASE record_unpublished(id)
      BY <1>1, <1>4, <2>5, UnpublishedFits DEF record_unpublished
    <2>6. CASE record_reconcile_failure(id)
      BY <1>1, <1>4, <2>6, RequeueFits DEF record_reconcile_failure
    <2>7. ASSUME NEW uid \in DepIds, authorize_deployment_recreation(id, uid)
          PROVE  Inv' /\ Extends(mem, mem')
      BY <1>1, <1>4, <2>7, RequeueFits DEF authorize_deployment_recreation
    <2>8. QED
      BY <1>9, <2>1, <2>2, <2>3, <2>4, <2>5, <2>6, <2>7 DEF ReportStep
  <1>10. QED
    BY <1>5, <1>6, <1>7, <1>8, <1>9 DEF Next

-----------------------------------------------------------------------------
(* The inductive invariant holds in every reachable state of the store. *)
THEOREM InvHolds == Spec => []Inv
  BY InitInv, NextInv, PTL DEF Spec

(* Every store call and every restart leaves records of the Rust types. *)
THEOREM TypeCorrect == Spec => []TypeOK
PROOF
  <1>1. Inv => TypeOK
    BY DEF Inv
  <1>2. QED
    BY <1>1, InvHolds, PTL

(* Every desired generation belongs to exactly one operation: the          *)
(* expectedGeneration compare-and-set of commit_intent serialises intents. *)
THEOREM GenerationsOwned == Spec => []GenerationOwned
PROOF
  <1>1. Inv => GenerationOwned
    BY DEF Inv, SnapOK, GenerationOwned
  <1>2. QED
    BY <1>1, InvHolds, PTL

(* An operation that commit_intent reported Ok survives every storage      *)
(* failure and every restart with its request and its generation.          *)
THEOREM AcknowledgedSurvives == Spec => []AckedNeverLost
PROOF
  <1>1. Inv => AckedNeverLost
    BY DEF Inv
  <1>2. QED
    BY <1>1, InvHolds, PTL

(* A generation that is not observed yet always has a live operation with  *)
(* an event in the outbox, or one that replay_nonterminal_outbox requeues. *)
THEOREM DesiredStaysQueued == Spec => []DesiredNeverForgotten
PROOF
  <1>1. Inv => DesiredNeverForgotten
    BY DEF Inv, SnapOK, DesiredNeverForgotten
  <1>2. QED
    BY <1>1, InvHolds, PTL

(* The current operation is Completed only when its release is observed.   *)
THEOREM CompletionIsEarned == Spec => []CompletedIsObserved
PROOF
  <1>1. Inv => CompletedIsObserved
    BY DEF Inv, SnapOK, CompletedIsObserved
  <1>2. QED
    BY <1>1, InvHolds, PTL

(* No two projects ever share a host slug, in memory or in what a restart  *)
(* recovers: each commit draws from the slugs its own snapshot does not    *)
(* hold, and no report changes one.                                        *)
THEOREM HostsStayUnique == Spec => []HostsUnique
PROOF
  <1>1. Inv => HostsUnique
    BY DEF Inv, SnapOK, HostsApart, HostsUnique
  <1>2. QED
    BY <1>1, InvHolds, PTL

(* No step changes an operation that a newer generation superseded.        *)
THEOREM SupersededStaysFrozen == Spec => SupersededFrozen
PROOF
  <1>1. ASSUME Inv, [Next]_vars
        PROVE  [\A id \in OpId :
                 Known(mem, id) /\ mem.operations[id].gen < RuntimeOf(mem, id).gen
                 => mem'.operations[id] = mem.operations[id]]_vars
    BY <1>1, NextInv DEF Extends
  <1>2. QED
    BY <1>1, InvHolds, PTL DEF Spec, SupersededFrozen

(* No step, restarts included, moves a generation backwards or gives a     *)
(* project that clients know another host slug.                            *)
THEOREM NothingRunsBackwards == Spec => NeverBackwards
PROOF
  <1>1. ASSUME Inv, [Next]_vars
        PROVE  [\A p \in Projects :
                 /\ mem.runtimes[p].gen <= mem'.runtimes[p].gen
                 /\ mem.runtimes[p].observed <= mem'.runtimes[p].observed
                 /\ mem.runtimes[p].gen > 0 => mem'.runtimes[p].host = mem.runtimes[p].host]_vars
    BY <1>1, NextInv DEF Extends
  <1>2. QED
    BY <1>1, InvHolds, PTL DEF Spec, NeverBackwards
-----------------------------------------------------------------------------
(* The publish workflow on top of the store *)

WorkflowRecords ==
    [status : WorkflowStatus \cup {None}, checkpoint : WorkflowCheckpoint,
     release : Option(Releases), op : OpId \cup {None},
     expectedCurrent : Option(Releases), expectedGeneration : Nat]

Copies ==
    [id : Workflows, checkpoint : WorkflowCheckpoint,
     release : Option(Releases), op : OpId \cup {None},
     expectedCurrent : Option(Releases), expectedGeneration : Nat]

WorkflowTypes ==
    /\ wf \in [Workflows -> WorkflowRecords]
    /\ packaged \in [Workflows -> {"unsettled", "Validated", "Failed"}]
    /\ pass \in Seq(Copies)
    /\ WorkflowTypeOK

(* What a workflow has earned when it stands at its checkpoint *)
Earned(w) ==
    /\ wf[w].status \in {"Completed", "RolledBack"} => wf[w].checkpoint = wf[w].status
    /\ wf[w].checkpoint \notin {"Requested", "SourceFrozen", "Building", "Validating",
                                "ReleasePackaging"}
       => packaged[w] = "Validated"
    /\ wf[w].checkpoint \in Observed \cup {"Completed"} =>
         /\ wf[w].op = PublishOp(w)
         /\ Known(mem, PublishOp(w))
         /\ mem.operations[PublishOp(w)].request.release = wf[w].release
    /\ wf[w].checkpoint \in {"RollingBack", "RolledBack"} => wf[w].op = RollbackOp(w)
    /\ wf[w].checkpoint = "Completed" => PublishOp(w) \in completed
    /\ wf[w].checkpoint = "RolledBack" => RollbackOp(w) \in completed

(* Whatever generation w's publish key owns was committed over the one that *)
(* w's client saw                                                           *)
Generations(w) ==
    \A g \in {mem.operations[PublishOp(w)].gen, disk.operations[PublishOp(w)].gen} : g > 0 =>
        /\ Started(w)
        /\ g = wf[w].expectedGeneration + 1
        /\ packaged[w] = "Validated"

Open(w) == Started(w) /\ wf[w].status \notin {"Completed", "Failed", "RolledBack"}

CopiesAgree ==
    /\ \A i, j \in 1..Len(pass) : pass[i].id = pass[j].id => i = j
    /\ \A i \in 1..Len(pass) : pass[i] = CopyOf(pass[i].id) /\ Open(pass[i].id)

(* An advance of w to `to' on the way to `goal' is justified *)
Leads(w, to, goal, release, op) ==
    \/ /\ <<wf[w].checkpoint, to>> \in {<<"Requested", "SourceFrozen">>,
            <<"SourceFrozen", "Building">>, <<"Building", "Validating">>}
       /\ goal = to /\ release = None /\ op = None
    \/ /\ wf[w].checkpoint = "Validating" /\ to = "ReleasePackaging" /\ goal = to
       /\ release = ReleaseOf[w] /\ op = None
    \/ /\ wf[w].checkpoint = "ReleasePackaging" /\ to = "ReleaseValidated" /\ goal = to
       /\ release = None /\ op = None
       /\ packaged[w] = "Validated"
    \/ /\ wf[w].checkpoint = "ReleaseValidated" /\ to = "DesiredStateCommitted" /\ goal = to
       /\ release = None /\ op = PublishOp(w)
       /\ Known(mem, PublishOp(w))
       /\ mem.operations[PublishOp(w)].request.release = wf[w].release
    \/ /\ wf[w].checkpoint \in Observed /\ to = next_publication_checkpoint(wf[w].checkpoint)
       /\ release = None /\ op = None
       /\ goal \in {to, "Completed"}
       /\ goal = "Completed" => PublishOp(w) \in completed
    \/ /\ wf[w].checkpoint \in Observed /\ to = "RollingBack" /\ goal = to
       /\ release = None /\ op = RollbackOp(w)
    \/ /\ wf[w].checkpoint = "RollingBack" /\ to = "RolledBack" /\ goal = to
       /\ release = None /\ op = None
       /\ RollbackOp(w) \in completed

StepEarned ==
    \/ step = Begin \/ step = Fail
    \/ /\ pass # <<>> /\ step.at = "advance"
       /\ step = AdvanceTo(step.to, step.goal, step.release, step.op)
       /\ Leads(w0, step.to, step.goal, step.release, step.op)
    \/ /\ pass # <<>> /\ step.at = "rollback"
       /\ step.intent \in PublicationIntent
       /\ wf[w0].checkpoint \in Observed

WInv ==
    /\ Inv
    /\ WorkflowTypes
    /\ CopiesAgree
    /\ StepEarned
    /\ \A w \in Workflows : Earned(w) /\ Generations(w)

-----------------------------------------------------------------------------
(* The operations a workflow commits are its own. *)
LEMMA OwnIds ==
  ASSUME NEW w \in Workflows
  PROVE  /\ PublishOp(w) \in OpId /\ RollbackOp(w) \in OpId
         /\ PublishOp(w)[1] = ProjectOf[w] /\ RollbackOp(w)[1] = ProjectOf[w]
         /\ ProjectOf[w] \in Projects /\ PublishOp(w) # None /\ RollbackOp(w) # None
         /\ PublishOp(w)[2] = PublishKey[w] /\ RollbackOp(w)[2] = RollbackKey[w]
         /\ PublishOp(w) \in OwnOps /\ RollbackOp(w) \in OwnOps
         /\ \A v \in Workflows : /\ PublishOp(v) = PublishOp(w) => v = w
                                 /\ RollbackOp(v) # PublishOp(w)
PROOF
  <1>1. ProjectOf[w] \in Projects /\ PublishKey[w] \in Keys /\ RollbackKey[w] \in Keys
    BY WorkflowAssumption
  <1>2. PublishOp(w) \in OpId /\ RollbackOp(w) \in OpId
    BY <1>1 DEF OpId, PublishOp, RollbackOp
  <1>3. /\ PublishOp(w)[1] = ProjectOf[w] /\ RollbackOp(w)[1] = ProjectOf[w]
        /\ PublishOp(w)[2] = PublishKey[w] /\ RollbackOp(w)[2] = RollbackKey[w]
    BY DEF PublishOp, RollbackOp
  <1>4. \A v \in Workflows : /\ PublishOp(v) = PublishOp(w) => v = w
                             /\ RollbackOp(v) # PublishOp(w)
    BY KeysAssumption DEF PublishOp, RollbackOp
  <1>5. QED
    BY <1>1, <1>2, <1>3, <1>4, NoWorkflowAssumption DEF OwnOps

(* What both snapshots say of the generation operation x owns *)
GensOf(x) == {mem.operations[x].gen, disk.operations[x].gen}

(* The store's invariant types both snapshots. *)
LEMMA StoreTypes ==
  ASSUME Inv
  PROVE  /\ mem.operations \in [OpId -> PublishOperation]
         /\ disk.operations \in [OpId -> PublishOperation]
         /\ mem.runtimes \in [Projects -> WorkRuntimeState]
         /\ \A p \in Projects : /\ mem.runtimes[p].gen \in Nat
                                /\ mem.runtimes[p].current \in Option(Releases)
         /\ \A x \in OpId : mem.operations[x].gen \in Nat /\ disk.operations[x].gen \in Nat
PROOF
  <1>1. mem \in PublicationSnapshot /\ disk \in PublicationSnapshot
    BY DEF Inv, TypeOK
  <1>2. QED
    BY <1>1 DEF PublicationSnapshot, WorkRuntimeState, PublishOperation

(* A commit of one operation's records leaves the other operations' alone. *)
LEMMA OtherOperations ==
  ASSUME Inv, NEW id \in OpId, NEW x \in OpId, NEW op, NEW rt, NEW ev
  PROVE  /\ apply_commit(mem, id, op, rt, ev).operations[id] = op
         /\ x # id => apply_commit(mem, id, op, rt, ev).operations[x] = mem.operations[x]
  BY StoreTypes DEF apply_commit

(* Once persist_commit returns, both snapshots are old ones or the new one. *)
LEMMA PersistedGens ==
  ASSUME Inv, NEW STATE next, persist_commit(next), NEW x \in OpId
  PROVE  GensOf(x)' \subseteq GensOf(x) \cup {next.operations[x].gen}
PROOF
  <1>1. \/ mem' = next /\ disk' = next
        \/ mem' = mem /\ disk' \in {disk, next}
    BY DEF persist_commit, Persisted, PersistFailed
  <1>2. QED
    BY <1>1 DEF GensOf

(* A report gives no operation another generation. *)
LEMMA ReportGens ==
  ASSUME Inv, NEW id \in OpId, NEW STATE op, NEW STATE rt, NEW STATE ev,
         op.gen = mem.operations[id].gen, persist_commit(apply_commit(mem, id, op, rt, ev)),
         NEW x \in OpId
  PROVE  GensOf(x)' \subseteq GensOf(x)
PROOF
  <1>1. apply_commit(mem, id, op, rt, ev).operations[x].gen = mem.operations[x].gen
    BY OtherOperations
  <1>2. QED
    BY <1>1, PersistedGens DEF GensOf

(* commit_intent of a workflow or of another client is a step of the store. *)
LEMMA IntentIsStoreStep ==
  ASSUME Inv, NEW id \in OpId, NEW intent \in PublicationIntent, commit_intent(id, intent)
  PROVE  Next
PROOF
  <1>1. /\ intent.kind \in PublishOperationKind /\ intent.release \in Option(Releases)
        /\ intent.expectedCurrent \in Option(Releases) /\ intent.expectedGeneration \in Nat
        /\ intent = [kind |-> intent.kind, release |-> intent.release,
                     expectedCurrent |-> intent.expectedCurrent,
                     expectedGeneration |-> intent.expectedGeneration]
    BY DEF PublicationIntent
  <1>2. intent.expectedGeneration = RuntimeOf(mem, id).gen
    BY DEF commit_intent, validate_compare_and_set
  <1>3. intent.expectedGeneration \in 0..RuntimeOf(mem, id).gen
    BY <1>1, <1>2
  <1>4. ClientStep(id)
    BY <1>1, <1>3 DEF ClientStep
  <1>5. QED
    BY <1>4 DEF Next

(* What commit_intent makes of the generations, and what an Ok answer means. *)
LEMMA IntentGens ==
  ASSUME Inv, NEW id \in OpId, NEW intent \in PublicationIntent, commit_intent(id, intent)
  PROVE  /\ \A x \in OpId : x # id => GensOf(x)' \subseteq GensOf(x)
         /\ GensOf(id)' \subseteq GensOf(id) \cup {intent.expectedGeneration + 1}
         /\ acked' # acked => Known(mem', id) /\ mem'.operations[id].request = intent
PROOF
  <1>1. PICK host \in FreeHosts(mem) :
          LET next == IntentCommit(mem, id, intent, host)
          IN \/ Persisted(next) /\ Acknowledge(id)
             \/ PersistFailed(next) /\ UNCHANGED acked
    BY DEF commit_intent
  <1> DEFINE next == IntentCommit(mem, id, intent, host)
  <1>2. intent.expectedGeneration = RuntimeOf(mem, id).gen /\ intent.expectedGeneration \in Nat
    BY DEF commit_intent, validate_compare_and_set, PublicationIntent
  <1>3. /\ next.operations[id].request = intent
        /\ next.operations[id].gen = intent.expectedGeneration + 1
        /\ \A x \in OpId : x # id => next.operations[x] = mem.operations[x]
    BY <1>2, OtherOperations DEF IntentCommit
  <1> HIDE DEF next
  <1>4. persist_commit(next) /\ (acked' # acked => mem' = next)
    BY <1>1 DEF persist_commit, Persisted, next, PersistFailed
  <1>5. \A x \in OpId : GensOf(x)' \subseteq GensOf(x) \cup {next.operations[x].gen}
    BY <1>4, PersistedGens
  <1>6. acked' # acked => Known(mem', id) /\ mem'.operations[id].request = intent
    BY <1>2, <1>3, <1>4 DEF Known
  <1>7. QED
    BY <1>3, <1>5, <1>6 DEF GensOf

(* The work-runtime controller's reports are steps of the store that leave *)
(* the generations alone.                                                  *)
LEMMA ReportedStep ==
  ASSUME Inv, NEW id \in OpId, Reported(id) \/ replay_nonterminal_outbox(id)
  PROVE  Next /\ \A x \in OpId : GensOf(x)' \subseteq GensOf(x)
PROOF
  <1>1. Next
    BY DEF Reported, Next, ReportStep, Option
  <1>2. mem.operations[id] \in PublishOperation
    BY StoreTypes
  <1>3. ASSUME NEW status \in PublishOperationStatus, NEW checkpoint \in PublishCheckpoint
        PROVE  /\ [mem.operations[id] EXCEPT !.status = status, !.checkpoint = checkpoint].gen
                  = mem.operations[id].gen
               /\ [mem.operations[id] EXCEPT !.status = status].gen = mem.operations[id].gen
    BY <1>2 DEF PublishOperation
  <1>4. \E op, rt, ev : /\ op.gen = mem.operations[id].gen
                        /\ persist_commit(apply_commit(mem, id, op, rt, ev))
    <2>1. ASSUME NEW dep \in DepIds, NEW svc \in SvcIds, NEW ing \in Option(IngIds),
                 record_workload_ready(id, dep, svc, ing)
          PROVE  \E op, rt, ev : /\ op.gen = mem.operations[id].gen
                                 /\ persist_commit(apply_commit(mem, id, op, rt, ev))
      <3>1. persist_commit(WorkloadReady(mem, id, dep, svc, ing))
        BY <2>1 DEF record_workload_ready, Report
      <3> DEFINE op == CASE ing # None ->
                              [mem.operations[id] EXCEPT !.status = "Completed",
                                                         !.checkpoint = "Completed"]
                         [] ing = None /\ mem.operations[id].status \notin
                              {"TrafficSwitched", "ExternalProbePassed", "Completed"} ->
                              [mem.operations[id] EXCEPT !.status = "WorkloadReady",
                                                         !.checkpoint = "WorkloadReady"]
                         [] OTHER -> mem.operations[id]
      <3>2. op.gen = mem.operations[id].gen
        BY <1>3 DEF PublishOperationStatus, PublishCheckpoint
      <3>3. \E rt, ev : WorkloadReady(mem, id, dep, svc, ing) = apply_commit(mem, id, op, rt, ev)
        BY DEF WorkloadReady
      <3>4. QED
        BY <3>1, <3>2, <3>3
    <2>2. ASSUME NEW svc \in SvcIds, NEW ing \in IngIds, record_traffic_switched(id, svc, ing)
          PROVE  \E op, rt, ev : /\ op.gen = mem.operations[id].gen
                                 /\ persist_commit(apply_commit(mem, id, op, rt, ev))
      <3>1. persist_commit(TrafficSwitched(mem, id, svc, ing))
        BY <2>2 DEF record_traffic_switched, Report
      <3>2. QED
        BY <1>3, <3>1 DEF TrafficSwitched, PublishOperationStatus, PublishCheckpoint
    <2>3. CASE record_unpublished(id)
      <3>1. persist_commit(Unpublished(mem, id))
        BY <2>3 DEF record_unpublished, Report
      <3>2. QED
        BY <1>3, <3>1 DEF Unpublished, PublishOperationStatus, PublishCheckpoint
    <2>4. CASE record_reconcile_failure(id)
      <3>1. persist_commit(ReconcileFailure(mem, id))
        BY <2>4 DEF record_reconcile_failure, Report
      <3>2. QED
        BY <1>3, <3>1 DEF ReconcileFailure, PublishOperationStatus, PublishCheckpoint
    <2>5. CASE replay_nonterminal_outbox(id)
      <3>1. persist_commit(Replayed(mem, id))
        BY <2>5 DEF replay_nonterminal_outbox
      <3>2. QED
        BY <1>3, <3>1 DEF Replayed, PublishOperationStatus, PublishCheckpoint
    <2>6. QED
      BY <2>1, <2>2, <2>3, <2>4, <2>5 DEF Reported
  <1>5. QED
    BY <1>1, <1>4, ReportGens

-----------------------------------------------------------------------------
(* A step of the store, the history with it *)
Forward ==
    /\ Inv' /\ Extends(mem, mem')
    /\ completed' = completed \cup {id \in OwnOps : mem'.operations[id].status = "Completed"}

(* Nothing undoes the packager's verdict *)
VerdictStands == \A w \in Workflows : packaged[w] = "Validated" => packaged'[w] = "Validated"

(* The fields of a workflow, its packaging and the copies in the pass. *)
LEMMA WorkflowFacts ==
  ASSUME WInv, NEW w \in Workflows
  PROVE  /\ wf[w] \in WorkflowRecords
         /\ wf[w].release \in Option(Releases) /\ wf[w].expectedCurrent \in Option(Releases)
         /\ wf[w].expectedGeneration \in Nat /\ wf[w].checkpoint \in WorkflowCheckpoint
         /\ wf[w].status \in WorkflowStatus \cup {None}
         /\ wf[w].release \in Option({ReleaseOf[w]})
         /\ wf[w].op \in Option({PublishOp(w), RollbackOp(w)})
         /\ Earned(w) /\ Generations(w)
PROOF
  <1>1. wf[w] \in WorkflowRecords
    BY DEF WInv, WorkflowTypes
  <1>2. QED
    BY <1>1 DEF WInv, WorkflowTypes, WorkflowTypeOK, WorkflowRecords

(* What is known and asked for stays so. *)
LEMMA KnownStays ==
  ASSUME Forward, NEW x \in OpId, Known(mem, x)
  PROVE  Known(mem', x) /\ mem'.operations[x].request = mem.operations[x].request
  BY DEF Forward, Extends, Known

(* A workflow that a step leaves alone keeps what it has earned. *)
LEMMA EarnedKept ==
  ASSUME WInv, Forward, VerdictStands, NEW w \in Workflows,
         wf'[w].checkpoint = wf[w].checkpoint, wf'[w].release = wf[w].release,
         wf'[w].op = wf[w].op,
         wf'[w].status \in {"Completed", "RolledBack"} => wf'[w].status = wf[w].status
  PROVE  Earned(w)'
PROOF
  <1>1. PublishOp(w) \in OpId /\ UNCHANGED <<PublishOp(w), RollbackOp(w)>>
    BY OwnIds DEF PublishOp, RollbackOp
  <1>2. Known(mem, PublishOp(w)) =>
          /\ Known(mem', PublishOp(w))
          /\ mem'.operations[PublishOp(w)].request = mem.operations[PublishOp(w)].request
    BY <1>1, KnownStays
  <1>3. completed \subseteq completed'
    BY DEF Forward
  <1>4. Earned(w) /\ (packaged[w] = "Validated" => packaged'[w] = "Validated")
    BY DEF WInv, VerdictStands
  <1>5. QED
    BY <1>1, <1>2, <1>3, <1>4 DEF Earned, Known

(* So do the generations. *)
LEMMA GenerationsKept ==
  ASSUME WInv, VerdictStands, NEW w \in Workflows, Started(w) => Started(w)',
         Started(w) => wf'[w].expectedGeneration = wf[w].expectedGeneration,
         GensOf(PublishOp(w))' \subseteq GensOf(PublishOp(w))
  PROVE  Generations(w)'
PROOF
  <1>1. Generations(w) /\ UNCHANGED PublishOp(w)
    BY DEF WInv, PublishOp
  <1>2. packaged[w] = "Validated" => packaged'[w] = "Validated"
    BY DEF VerdictStands
  <1>3. GensOf(PublishOp(w))' = {mem'.operations[PublishOp(w)].gen, disk'.operations[PublishOp(w)].gen}
    BY <1>1 DEF GensOf
  <1>4. QED
    BY <1>1, <1>2, <1>3 DEF Generations, GensOf

(* An advance stays justified while its workflow stays where it is. *)
LEMMA LeadsKept ==
  ASSUME WInv, Forward, VerdictStands, NEW w \in Workflows,
         wf'[w].checkpoint = wf[w].checkpoint, wf'[w].release = wf[w].release,
         NEW to, NEW goal, NEW release, NEW op, Leads(w, to, goal, release, op)
  PROVE  Leads(w, to, goal, release, op)'
PROOF
  <1>1. PublishOp(w) \in OpId /\ UNCHANGED <<PublishOp(w), RollbackOp(w)>>
    BY OwnIds DEF PublishOp, RollbackOp
  <1>2. Known(mem, PublishOp(w)) =>
          /\ Known(mem', PublishOp(w))
          /\ mem'.operations[PublishOp(w)].request = mem.operations[PublishOp(w)].request
    BY <1>1, KnownStays
  <1>3. completed \subseteq completed'
    BY DEF Forward
  <1>4. packaged[w] = "Validated" => packaged'[w] = "Validated"
    BY DEF VerdictStands
  <1>5. QED
    BY <1>1, <1>2, <1>3, <1>4 DEF Leads, Known

(* The head of the pass is a copy of its workflow. *)
LEMMA HeadFacts ==
  ASSUME WInv, pass # <<>>
  PROVE  /\ w0 \in Workflows /\ Open(w0) /\ copy = CopyOf(w0)
         /\ copy = pass[1] /\ w0 = pass[1].id /\ Len(pass) \in Nat \ {0}
PROOF
  <1>1. pass \in Seq(Copies) /\ Len(pass) \in Nat /\ Len(pass) >= 1 /\ Head(pass) = pass[1]
    BY DEF WInv, WorkflowTypes
  <1>2. pass[1] \in Copies /\ 1 \in 1..Len(pass)
    BY <1>1
  <1>3. pass[1].id \in Workflows
    BY <1>2 DEF Copies
  <1>4. pass[1] = CopyOf(pass[1].id) /\ Open(pass[1].id)
    BY <1>2 DEF WInv, CopiesAgree
  <1>5. QED
    BY <1>1, <1>3, <1>4 DEF w0, copy

(* What the copy of a workflow says. *)
LEMMA CopyFields ==
  ASSUME NEW w \in Workflows
  PROVE  /\ CopyOf(w).id = w /\ CopyOf(w).checkpoint = wf[w].checkpoint
         /\ CopyOf(w).release = wf[w].release /\ CopyOf(w).op = wf[w].op
         /\ CopyOf(w).expectedCurrent = wf[w].expectedCurrent
         /\ CopyOf(w).expectedGeneration = wf[w].expectedGeneration
  BY DEF CopyOf

(* A copy is of a workflow. *)
LEMMA PassIds ==
  ASSUME WInv
  PROVE  \A i \in 1..Len(pass) : pass[i].id \in Workflows
PROOF
  <1>1. \A i \in 1..Len(pass) : pass[i] \in Copies
    BY DEF WInv, WorkflowTypes
  <1>2. QED
    BY <1>1 DEF Copies

(* A step that leaves the pass alone, and of its workflows all but their    *)
(* status, which it does not end, leaves the copies as good as they were.   *)
LEMMA CopiesKept ==
  ASSUME WInv, UNCHANGED pass,
         \A w \in Workflows : Open(w) => CopyOf(w)' = CopyOf(w) /\ Open(w)'
  PROVE  CopiesAgree'
PROOF
  <1>1. \A i \in 1..Len(pass) : pass[i].id \in Workflows
    BY PassIds
  <1>2. \A i \in 1..Len(pass) : CopyOf(pass[i].id)' = CopyOf(pass[i].id) /\ Open(pass[i].id)'
    BY <1>1 DEF WInv, CopiesAgree
  <1>3. QED
    BY <1>2 DEF WInv, CopiesAgree

(* When the reconcile of the head ends, the rest of the pass is good if the *)
(* rest of the workflows was left alone.                                    *)
LEMMA CopiesFinish ==
  ASSUME WInv, pass # <<>>, pass' = Tail(pass),
         \A w \in Workflows \ {w0} : wf'[w] = wf[w]
  PROVE  pass' \in Seq(Copies) /\ CopiesAgree'
PROOF
  <1>1. pass \in Seq(Copies) /\ Len(pass) \in Nat /\ Len(pass) >= 1
    BY DEF WInv, WorkflowTypes
  <1>2. /\ pass' \in Seq(Copies) /\ Len(pass') = Len(pass) - 1
        /\ \A i \in 1..Len(pass') : i + 1 \in 1..Len(pass) /\ pass'[i] = pass[i + 1]
    BY <1>1
  <1>3. 1 \in 1..Len(pass) /\ w0 = pass[1].id
    BY <1>1, HeadFacts
  <1>4. ASSUME NEW i \in 1..Len(pass')
        PROVE  /\ pass'[i].id \in Workflows \ {w0}
               /\ pass'[i] = CopyOf(pass'[i].id) /\ Open(pass'[i].id)
    <2>1. i + 1 \in 1..Len(pass) /\ pass'[i] = pass[i + 1] /\ i + 1 # 1
      BY <1>1, <1>2
    <2>2. pass[i + 1].id \in Workflows /\ pass[i + 1].id # pass[1].id
      BY <1>3, <2>1, PassIds DEF WInv, CopiesAgree
    <2>3. pass[i + 1] = CopyOf(pass[i + 1].id) /\ Open(pass[i + 1].id)
      BY <2>1 DEF WInv, CopiesAgree
    <2>4. QED
      BY <1>3, <2>1, <2>2, <2>3
  <1>5. \A w \in Workflows \ {w0} : CopyOf(w)' = CopyOf(w) /\ (Open(w) => Open(w)')
    BY DEF CopyOf, Open, Started
  <1>6. ASSUME NEW i \in 1..Len(pass')
        PROVE  (pass[i] = CopyOf(pass[i].id) /\ Open(pass[i].id))'
    <2>1. PICK w \in Workflows \ {w0} : w = pass'[i].id
      BY <1>4
    <2>2. (CopyOf(w) = CopyOf(pass[i].id) /\ (Open(w) <=> Open(pass[i].id)))'
      BY <2>1
    <2>3. pass'[i] = CopyOf(w) /\ Open(w)
      BY <1>4, <2>1
    <2>4. QED
      BY <1>5, <2>2, <2>3
  <1>7. \A i, j \in 1..Len(pass') : pass'[i].id = pass'[j].id => i = j
    BY <1>1, <1>2 DEF WInv, CopiesAgree
  <1>8. QED
    BY <1>2, <1>6, <1>7 DEF CopiesAgree

(* The step of the running reconcile stays justified through what others do. *)
LEMMA StepKept ==
  ASSUME WInv, Forward, VerdictStands, UNCHANGED <<pass, step>>,
         \A w \in Workflows : Open(w) =>
             wf'[w].checkpoint = wf[w].checkpoint /\ wf'[w].release = wf[w].release
  PROVE  StepEarned'
PROOF
  <1>1. CASE step = Begin \/ step = Fail
    BY <1>1 DEF StepEarned, Begin, Fail
  <1>2. CASE /\ pass # <<>> /\ step.at = "advance"
             /\ step = AdvanceTo(step.to, step.goal, step.release, step.op)
             /\ Leads(w0, step.to, step.goal, step.release, step.op)
    <2>1. PICK w, to, goal, release, op :
            w = w0 /\ to = step.to /\ goal = step.goal /\ release = step.release /\ op = step.op
      OBVIOUS
    <2>2. w \in Workflows /\ Open(w)
      BY <1>2, <2>1, HeadFacts
    <2>3. Leads(w, to, goal, release, op)
      BY <1>2, <2>1
    <2>4. Leads(w, to, goal, release, op)'
      BY <2>2, <2>3, LeadsKept
    <2>5. w0' = w /\ step'.to = to /\ step'.goal = goal /\ step'.release = release /\ step'.op = op
      BY <2>1 DEF w0
    <2>6. Leads(w0, step.to, step.goal, step.release, step.op)'
      BY <2>4, <2>5
    <2>7. (step = AdvanceTo(step.to, step.goal, step.release, step.op))'
      BY <1>2 DEF AdvanceTo
    <2>8. QED
      BY <1>2, <2>6, <2>7 DEF StepEarned
  <1>3. CASE /\ pass # <<>> /\ step.at = "rollback"
             /\ step.intent \in PublicationIntent
             /\ wf[w0].checkpoint \in Observed
    <2>1. w0 \in Workflows /\ Open(w0) /\ w0' = w0
      BY <1>3, HeadFacts DEF w0
    <2>2. QED
      BY <1>3, <2>1 DEF StepEarned
  <1>4. QED
    BY <1>1, <1>2, <1>3 DEF WInv, StepEarned

(* What a step has to show when the workflows stay as they are. *)
LEMMA WorkflowsKept ==
  ASSUME WInv, Forward, UNCHANGED <<wf, packaged>>, pass' \in Seq(Copies), CopiesAgree', StepEarned',
         \A w \in Workflows : GensOf(PublishOp(w))' \subseteq GensOf(PublishOp(w)) \/ Generations(w)'
  PROVE  WInv'
PROOF
  <1>1. VerdictStands
    BY DEF VerdictStands
  <1>2. WorkflowTypes'
    BY DEF WInv, WorkflowTypes, WorkflowTypeOK, PublishOp, RollbackOp
  <1>3. ASSUME NEW w \in Workflows PROVE Earned(w)' /\ Generations(w)'
    <2>1. Earned(w)'
      BY <1>1, EarnedKept
    <2>2. Started(w) => Started(w)'
      BY DEF Started
    <2>3. Generations(w)'
      BY <1>1, <2>2, GenerationsKept
    <2>4. QED
      BY <2>1, <2>3
  <1>4. QED
    BY <1>2, <1>3 DEF WInv, Forward

(* Where nothing of the store changes, the generations do not. *)
LEMMA GensQuiet ==
  ASSUME UNCHANGED vars
  PROVE  \A w \in Workflows : GensOf(PublishOp(w))' \subseteq GensOf(PublishOp(w))
  BY DEF vars, GensOf, PublishOp

(* A pass that is left alone holds good copies of workflows left alone. *)
LEMMA CopiesQuiet ==
  ASSUME WInv, UNCHANGED <<wf, pass>>
  PROVE  pass' \in Seq(Copies) /\ CopiesAgree'
PROOF
  <1>1. \A w \in Workflows : Open(w) => CopyOf(w)' = CopyOf(w) /\ Open(w)'
    BY DEF CopyOf, Open, Started
  <1>2. QED
    BY <1>1, CopiesKept DEF WInv, WorkflowTypes

(* The reconcile of the head decides on an advance it can justify. *)
LEMMA Advances ==
  ASSUME WInv, Forward, UNCHANGED <<wf, packaged, pass>>, pass # <<>>,
         \A w \in Workflows : GensOf(PublishOp(w))' \subseteq GensOf(PublishOp(w)) \/ Generations(w)',
         NEW w, w = w0, NEW to, NEW goal, NEW release, NEW op,
         step' = AdvanceTo(to, goal, release, op), Leads(w, to, goal, release, op)'
  PROVE  WInv'
PROOF
  <1>1. /\ step'.at = "advance" /\ step'.to = to /\ step'.goal = goal
        /\ step'.release = release /\ step'.op = op /\ w0' = w
    BY DEF AdvanceTo, w0
  <1>2. Leads(w0, step.to, step.goal, step.release, step.op)'
    BY <1>1
  <1>3. (step = AdvanceTo(step.to, step.goal, step.release, step.op))'
    BY <1>1 DEF AdvanceTo
  <1>4. StepEarned'
    BY <1>1, <1>2, <1>3 DEF StepEarned
  <1>5. QED
    BY <1>4, CopiesQuiet, WorkflowsKept

(* The reconcile of the head fails, or is about to. *)
LEMMA Fails ==
  ASSUME WInv, Forward, UNCHANGED <<wf, packaged, pass>>, step' = Fail,
         \A w \in Workflows : GensOf(PublishOp(w))' \subseteq GensOf(PublishOp(w)) \/ Generations(w)'
  PROVE  WInv'
PROOF
  <1>1. StepEarned'
    BY DEF StepEarned, Fail
  <1>2. QED
    BY <1>1, CopiesQuiet, WorkflowsKept

(* The reconcile of the head has nothing to do. *)
LEMMA Finishes ==
  ASSUME WInv, Forward, UNCHANGED vars, UNCHANGED <<wf, packaged>>, pass # <<>>, Finish
  PROVE  WInv'
PROOF
  <1>1. StepEarned' /\ pass' = Tail(pass)
    BY DEF Finish, StepEarned, Begin
  <1>2. QED
    BY <1>1, CopiesFinish, GensQuiet, WorkflowsKept

-----------------------------------------------------------------------------
(* The steps of a reconcile that leave the publication store alone. *)
LEMMA QuietReconcile ==
  ASSUME WInv, Forward, UNCHANGED vars,
         \/ freeze_source \/ advance_to_building \/ build_and_promote_version \/ prepare_release
         \/ observe_release \/ observe_publication \/ read_for_rollback \/ observe_rollback
  PROVE  WInv'
PROOF
  <1>1. UNCHANGED <<wf, packaged>> /\ pass # <<>>
    BY DEF freeze_source, advance_to_building, build_and_promote_version, prepare_release,
       observe_release, observe_publication, read_for_rollback, observe_rollback,
       Produces, ProduceFails, Reconciling
  <1>2. PICK w \in Workflows : w = w0
    BY <1>1, HeadFacts
  <1>3. /\ copy.checkpoint = wf[w].checkpoint /\ copy.release = wf[w].release
        /\ copy.op = wf[w].op /\ Earned(w)
    BY <1>1, <1>2, HeadFacts, CopyFields DEF WInv
  <1>4. /\ PublishOp(w) \in OwnOps /\ RollbackOp(w) \in OwnOps
        /\ UNCHANGED <<wf[w], packaged[w], PublishOp(w), RollbackOp(w)>> /\ mem' = mem
    BY <1>1, OwnIds DEF PublishOp, RollbackOp, vars
  <1>5. ASSUME UNCHANGED pass, step' = Fail PROVE WInv'
    BY <1>1, <1>5, GensQuiet, Fails
  <1>6. ASSUME Finish PROVE WInv'
    BY <1>1, <1>6, Finishes
  <1>7. ASSUME NEW to, NEW goal, NEW release, NEW op, UNCHANGED pass,
               step' = AdvanceTo(to, goal, release, op), Leads(w, to, goal, release, op)'
        PROVE  WInv'
    BY <1>1, <1>2, <1>7, GensQuiet, Advances
  <1>8. CASE freeze_source \/ advance_to_building \/ build_and_promote_version
    <2>1. UNCHANGED pass
      BY <1>8 DEF freeze_source, advance_to_building, build_and_promote_version, Produces, ProduceFails
    <2>2. \/ step' = Fail
          \/ \E to : /\ <<wf[w].checkpoint, to>> \in {<<"Requested", "SourceFrozen">>,
                          <<"SourceFrozen", "Building">>, <<"Building", "Validating">>}
                     /\ step' = AdvanceTo(to, to, None, None)
      BY <1>3, <1>8 DEF freeze_source, advance_to_building, build_and_promote_version,
         Produces, ProduceFails, Reconciling
    <2>3. ASSUME NEW to, <<wf[w].checkpoint, to>> \in {<<"Requested", "SourceFrozen">>,
                           <<"SourceFrozen", "Building">>, <<"Building", "Validating">>}
          PROVE  Leads(w, to, to, None, None)'
      BY <1>4, <2>3 DEF Leads
    <2>4. QED
      BY <1>5, <1>7, <2>1, <2>2, <2>3
  <1>9. CASE prepare_release
    <2>1. PICK r : r = ReleaseOf[w]
      OBVIOUS
    <2>2. /\ UNCHANGED pass /\ wf[w].checkpoint = "Validating"
          /\ step' = Fail \/ step' = AdvanceTo("ReleasePackaging", "ReleasePackaging", r, None)
      BY <1>2, <1>3, <1>9, <2>1 DEF prepare_release, Produces, ProduceFails, Reconciling
    <2>3. Leads(w, "ReleasePackaging", "ReleasePackaging", r, None)'
      BY <1>4, <2>1, <2>2 DEF Leads
    <2>4. QED
      BY <1>5, <1>7, <2>2, <2>3
  <1>10. CASE observe_release
    <2>1. \/ UNCHANGED pass /\ step' = Fail
          \/ Finish
          \/ /\ wf[w].checkpoint = "ReleasePackaging" /\ packaged[w] = "Validated"
             /\ UNCHANGED pass
             /\ step' = AdvanceTo("ReleaseValidated", "ReleaseValidated", None, None)
      BY <1>2, <1>3, <1>10 DEF observe_release, Reconciling
    <2>2. wf[w].checkpoint = "ReleasePackaging" /\ packaged[w] = "Validated"
          => Leads(w, "ReleaseValidated", "ReleaseValidated", None, None)'
      BY <1>4 DEF Leads
    <2>3. QED
      BY <1>5, <1>6, <1>7, <2>1, <2>2
  <1>11. CASE observe_publication
    <2>1. PICK next : next = next_publication_checkpoint(wf[w].checkpoint)
      OBVIOUS
    <2>2. wf[w].checkpoint \in Observed /\ wf[w].op = PublishOp(w)
      BY <1>3, <1>11 DEF observe_publication, Reconciling, Earned
    <2>3. ASSUME NEW target \in {"Reconciling", "WorkloadReady", "TrafficSwitched"}, Follow(target)
          PROVE  WInv'
      <3>1. CASE checkpoint_rank(copy.checkpoint) < checkpoint_rank(target)
        <4>1. UNCHANGED pass /\ step' = AdvanceTo(next, next, None, None)
          BY <1>3, <2>1, <2>3, <3>1 DEF Follow
        <4>2. wf[w].checkpoint # "ExternalProbePassed"
          BY <1>3, <2>3, <3>1 DEF checkpoint_rank
        <4>3. next # "Completed"
          BY <2>1, <2>2, <4>2 DEF Observed, next_publication_checkpoint
        <4>4. Leads(w, next, next, None, None)'
          BY <1>4, <2>1, <2>2, <4>3 DEF Leads
        <4>5. QED
          BY <1>7, <4>1, <4>4
      <3>2. CASE ~(checkpoint_rank(copy.checkpoint) < checkpoint_rank(target))
        BY <1>6, <2>3, <3>2 DEF Follow
      <3>3. QED
        BY <3>1, <3>2
    <2>4. ASSUME mem.operations[copy.op].status = "Completed", UNCHANGED pass,
                 \/ step' = Fail
                 \/ step' = AdvanceTo(next_publication_checkpoint(copy.checkpoint),
                                      "Completed", None, None)
          PROVE  WInv'
      <3>1. PublishOp(w) \in completed'
        BY <1>3, <1>4, <2>2, <2>4 DEF Forward
      <3>2. Leads(w, next, "Completed", None, None)'
        BY <1>4, <2>1, <2>2, <3>1 DEF Leads
      <3>3. step' = Fail \/ step' = AdvanceTo(next, "Completed", None, None)
        BY <1>3, <2>1, <2>4
      <3>4. QED
        BY <1>5, <1>7, <2>4, <3>2, <3>3
    <2>5. QED
      BY <1>6, <1>11, <2>3, <2>4 DEF observe_publication
  <1>12. CASE read_for_rollback
    <2>1. PICK rt : rt = mem.runtimes[ProjectOf[w]]
      OBVIOUS
    <2>2. rt.current \in Option(Releases) /\ rt.gen \in Nat
      BY <2>1, OwnIds, StoreTypes DEF WInv
    <2>3. PICK intent : intent = [kind |-> IF rt.current # None THEN "Rollback" ELSE "Unpublish",
                                  release |-> rt.current, expectedCurrent |-> rt.current,
                                  expectedGeneration |-> rt.gen]
      OBVIOUS
    <2>4. intent \in PublicationIntent
      BY <2>2, <2>3 DEF PublicationIntent, PublishOperationKind
    <2>5. /\ UNCHANGED pass /\ wf[w].checkpoint \in Observed
          /\ step' = [at |-> "rollback", intent |-> intent]
      BY <1>2, <1>3, <1>12, <2>1, <2>3 DEF read_for_rollback, Reconciling, RuntimeFor
    <2>6. w0' = w /\ wf'[w].checkpoint \in Observed
      BY <1>1, <1>2, <2>5 DEF w0
    <2>7. StepEarned'
      BY <1>1, <2>4, <2>5, <2>6 DEF StepEarned
    <2>8. QED
      BY <1>1, <2>5, <2>7, CopiesQuiet, GensQuiet, WorkflowsKept
  <1>13. CASE observe_rollback
    <2>1. wf[w].checkpoint = "RollingBack" /\ wf[w].op = RollbackOp(w)
      BY <1>3, <1>13 DEF observe_rollback, Reconciling, Earned
    <2>2. CASE Finish
      BY <1>6, <2>2
    <2>3. CASE /\ mem.operations[copy.op].status = "Completed" /\ UNCHANGED pass
               /\ step' \in {Fail, AdvanceTo("RolledBack", "RolledBack", None, None)}
      <3>1. RollbackOp(w) \in completed'
        BY <1>3, <1>4, <2>1, <2>3 DEF Forward
      <3>2. Leads(w, "RolledBack", "RolledBack", None, None)'
        BY <1>4, <2>1, <3>1 DEF Leads
      <3>3. QED
        BY <1>5, <1>7, <2>3, <3>2
    <2>4. QED
      BY <1>13, <2>2, <2>3 DEF observe_rollback
  <1>14. QED
    BY <1>8, <1>9, <1>10, <1>11, <1>12, <1>13

(* What a workflow's call of commit_intent comes to. *)
LEMMA CommitOutcome ==
  ASSUME Inv, NEW id \in OpId, NEW intent \in PublicationIntent, NEW then, Commit(id, intent, then)
  PROVE  /\ [Next]_vars
         /\ \A x \in OpId : x # id => GensOf(x)' \subseteq GensOf(x)
         /\ GensOf(id)' \subseteq GensOf(id) \cup {intent.expectedGeneration + 1}
         /\ \/ step' = Fail
            \/ step' = then /\ Known(mem', id) /\ mem'.operations[id].request = intent
PROOF
  <1>1. CASE commit_intent(id, intent) /\ step' = IF acked' # acked THEN then ELSE Fail
    BY <1>1, IntentIsStoreStep, IntentGens
  <1>2. CASE commit_intent_retry(id, intent) /\ step' = then
    <2>1. commit_intent_retry(id, mem.operations[id].request)
      BY <1>2 DEF commit_intent_retry
    <2>2. Next
      BY <2>1 DEF Next, ClientStep
    <2>3. mem' = mem /\ disk' = disk /\ Known(mem', id) /\ mem'.operations[id].request = intent
      BY <1>2 DEF commit_intent_retry
    <2>4. QED
      BY <1>2, <2>2, <2>3 DEF GensOf
  <1>3. CASE step' = Fail /\ UNCHANGED vars
    BY <1>3 DEF vars, GensOf
  <1>4. QED
    BY <1>1, <1>2, <1>3 DEF Commit

(* The intent of a copy carries what the workflow's client saw. *)
LEMMA IntentFacts ==
  ASSUME WInv, pass # <<>>, NEW w \in Workflows, w = w0
  PROVE  /\ Intent(copy) \in PublicationIntent
         /\ Intent(copy).release = wf[w].release
         /\ Intent(copy).expectedGeneration = wf[w].expectedGeneration
PROOF
  <1>1. /\ copy.release = wf[w].release /\ copy.expectedCurrent = wf[w].expectedCurrent
        /\ copy.expectedGeneration = wf[w].expectedGeneration
    BY HeadFacts, CopyFields
  <1>2. /\ wf[w].release \in Option(Releases) /\ wf[w].expectedCurrent \in Option(Releases)
        /\ wf[w].expectedGeneration \in Nat
    BY WorkflowFacts
  <1>3. QED
    BY <1>1, <1>2 DEF Intent, PublicationIntent, PublishOperationKind

(* The commit of the publication and of the rollback: steps of the store, *)
(* after which the workflow may claim the operation as its own.           *)
LEMMA CommitSteps ==
  ASSUME WInv, commit_publication \/ commit_rollback, [Next]_vars => Forward
  PROVE  [Next]_vars /\ WInv'
PROOF
  <1>1. UNCHANGED <<wf, packaged, pass>> /\ pass # <<>>
    BY DEF commit_publication, commit_rollback, Reconciling
  <1>2. PICK w \in Workflows : w = w0
    BY <1>1, HeadFacts
  <1>3. PICK pub : pub = PublishOp(w)
    OBVIOUS
  <1>4. PICK back : back = RollbackOp(w)
    OBVIOUS
  <1>5. /\ pub \in OpId /\ back \in OpId /\ pub # back
        /\ \A v \in Workflows : PublishOp(v) \in OpId /\ PublishOp(v) # back
                                /\ (v # w => PublishOp(v) # pub)
    BY <1>3, <1>4, OwnIds
  <1>6. /\ UNCHANGED <<PublishOp(w), RollbackOp(w)>> /\ wf' = wf /\ packaged' = packaged
    BY <1>1 DEF PublishOp, RollbackOp
  <1>7. wf[w].checkpoint = copy.checkpoint /\ Earned(w) /\ Generations(w) /\ Open(w)
    BY <1>1, <1>2, HeadFacts, CopyFields DEF WInv
  <1>8. CASE commit_publication
    <2>1. PICK intent \in PublicationIntent :
            /\ intent = Intent(copy) /\ intent.release = wf[w].release
            /\ intent.expectedGeneration = wf[w].expectedGeneration
      BY <1>1, <1>2, IntentFacts
    <2>2. PICK then : then = AdvanceTo("DesiredStateCommitted", "DesiredStateCommitted", None, pub)
      OBVIOUS
    <2>3. Commit(pub, intent, then) /\ wf[w].checkpoint = "ReleaseValidated"
      BY <1>2, <1>3, <1>7, <1>8, <2>1, <2>2 DEF commit_publication, Reconciling
    <2>4. /\ [Next]_vars
          /\ \A x \in OpId : x # pub => GensOf(x)' \subseteq GensOf(x)
          /\ GensOf(pub)' \subseteq GensOf(pub) \cup {intent.expectedGeneration + 1}
          /\ \/ step' = Fail
             \/ step' = then /\ Known(mem', pub) /\ mem'.operations[pub].request = intent
      BY <1>5, <2>3, CommitOutcome DEF WInv
    <2>5. Generations(w)'
      <3>1. packaged[w] = "Validated" /\ Started(w)
        BY <1>7, <2>3 DEF Earned, Open
      <3>2. GensOf(pub) = {mem.operations[pub].gen, disk.operations[pub].gen}
            /\ GensOf(pub)' = {mem'.operations[pub].gen, disk'.operations[pub].gen}
        BY DEF GensOf
      <3>3. \A g \in GensOf(pub)' : g > 0 => g = wf[w].expectedGeneration + 1
        BY <1>3, <1>7, <2>1, <2>4, <3>2 DEF Generations
      <3>4. QED
        BY <1>3, <1>6, <3>1, <3>2, <3>3 DEF Generations, Started
    <2>6. \A v \in Workflows :
            GensOf(PublishOp(v))' \subseteq GensOf(PublishOp(v)) \/ Generations(v)'
      <3>1. ASSUME NEW v \in Workflows, v # w
            PROVE  GensOf(PublishOp(v))' \subseteq GensOf(PublishOp(v))
        <4>1. PICK x \in OpId : x = PublishOp(v) /\ x # pub
          BY <1>5, <3>1
        <4>2. UNCHANGED PublishOp(v)
          BY DEF PublishOp
        <4>3. QED
          BY <2>4, <4>1, <4>2 DEF GensOf
      <3>2. QED
        BY <2>5, <3>1
    <2>7. CASE step' = Fail
      BY <1>1, <2>4, <2>6, <2>7, Fails
    <2>8. CASE step' = then /\ Known(mem', pub) /\ mem'.operations[pub].request = intent
      <3>1. Leads(w, "DesiredStateCommitted", "DesiredStateCommitted", None, pub)'
        BY <1>3, <1>6, <2>1, <2>3, <2>8 DEF Leads, Known
      <3>2. QED
        BY <1>1, <1>2, <2>2, <2>4, <2>6, <2>8, <3>1, Advances
    <2>9. QED
      BY <2>4, <2>7, <2>8
  <1>9. CASE commit_rollback
    <2>1. step.at = "rollback" /\ step # Begin /\ step # Fail
      BY <1>9 DEF commit_rollback, Begin, Fail
    <2>2. PICK intent \in PublicationIntent : intent = step.intent
      BY <2>1 DEF WInv, StepEarned
    <2>3. wf[w].checkpoint \in Observed
      BY <1>2, <2>1 DEF WInv, StepEarned
    <2>4. PICK then : then = AdvanceTo("RollingBack", "RollingBack", None, back)
      OBVIOUS
    <2>5. Commit(back, intent, then)
      BY <1>2, <1>4, <1>9, <2>2, <2>4 DEF commit_rollback
    <2>6. /\ [Next]_vars
          /\ \A x \in OpId : x # back => GensOf(x)' \subseteq GensOf(x)
          /\ step' = Fail \/ step' = then
      BY <1>5, <2>5, CommitOutcome DEF WInv
    <2>7. \A v \in Workflows : GensOf(PublishOp(v))' \subseteq GensOf(PublishOp(v))
      <3>1. ASSUME NEW v \in Workflows PROVE GensOf(PublishOp(v))' \subseteq GensOf(PublishOp(v))
        <4>1. PICK x \in OpId : x = PublishOp(v) /\ x # back
          BY <1>5
        <4>2. UNCHANGED PublishOp(v)
          BY DEF PublishOp
        <4>3. QED
          BY <2>6, <4>1, <4>2 DEF GensOf
      <3>2. QED
        BY <3>1
    <2>8. CASE step' = Fail
      BY <1>1, <2>6, <2>7, <2>8, Fails
    <2>9. CASE step' = then
      <3>1. Leads(w, "RollingBack", "RollingBack", None, back)'
        BY <1>4, <1>6, <2>3 DEF Leads
      <3>2. QED
        BY <1>1, <1>2, <2>4, <2>6, <2>7, <2>9, <3>1, Advances
    <2>10. QED
      BY <2>6, <2>8, <2>9
  <1>10. QED
    BY <1>8, <1>9

-----------------------------------------------------------------------------
(* Steps that write one workflow: what they have to show. *)
LEMMA OneWorkflow ==
  ASSUME WInv, Forward, UNCHANGED vars, VerdictStands, NEW w \in Workflows,
         NEW r \in WorkflowRecords, wf' = [wf EXCEPT ![w] = r],
         packaged' \in [Workflows -> {"unsettled", "Validated", "Failed"}],
         r.release \in Option({ReleaseOf[w]}), r.op \in Option({PublishOp(w), RollbackOp(w)}),
         Started(w) => r.status # None /\ r.expectedGeneration = wf[w].expectedGeneration,
         Earned(w)', pass' \in Seq(Copies), CopiesAgree', StepEarned'
  PROVE  WInv'
PROOF
  <1>1. wf \in [Workflows -> WorkflowRecords]
    BY DEF WInv, WorkflowTypes
  <1>2. wf' \in [Workflows -> WorkflowRecords] /\ wf'[w] = r /\ \A v \in Workflows : v # w => wf'[v] = wf[v]
    BY <1>1
  <1>3. WorkflowTypeOK'
    <2>1. \A v \in Workflows : UNCHANGED <<PublishOp(v), RollbackOp(v)>>
      BY DEF PublishOp, RollbackOp
    <2>2. r.status \in WorkflowStatus \cup {None} /\ r.checkpoint \in WorkflowCheckpoint
      BY DEF WorkflowRecords
    <2>3. QED
      BY <1>2, <2>1, <2>2 DEF WInv, WorkflowTypes, WorkflowTypeOK
  <1>4. ASSUME NEW v \in Workflows PROVE Earned(v)' /\ Generations(v)'
    <2>1. Earned(v)'
      <3>1. CASE v = w
        BY <3>1
      <3>2. CASE v # w
        BY <1>2, <3>2, EarnedKept
      <3>3. QED
        BY <3>1, <3>2
    <2>2. Started(v) => Started(v)' /\ wf'[v].expectedGeneration = wf[v].expectedGeneration
      BY <1>2 DEF Started
    <2>3. Generations(v)'
      BY <2>2, GensQuiet, GenerationsKept
    <2>4. QED
      BY <2>1, <2>3
  <1>5. QED
    BY <1>2, <1>3, <1>4 DEF WInv, WorkflowTypes, Forward

(* start, cancel and the packager's verdict come from outside the pass. *)
LEMMA OutsideSteps ==
  ASSUME WInv, Forward, UNCHANGED vars, NEW w \in Workflows,
         start(w) \/ cancel(w) \/ PackagingSettles(w)
  PROVE  WInv'
PROOF
  <1>1. /\ wf \in [Workflows -> WorkflowRecords] /\ pass \in Seq(Copies)
        /\ packaged \in [Workflows -> {"unsettled", "Validated", "Failed"}]
    BY DEF WInv, WorkflowTypes
  <1>2. UNCHANGED <<pass, step>>
    BY DEF start, cancel, PackagingSettles
  <1>3. CASE start(w)
    <2>1. PICK r : r = [NoWorkflow EXCEPT !.status = "Requested",
                                          !.expectedCurrent = RuntimeFor(w).current,
                                          !.expectedGeneration = RuntimeFor(w).gen]
      OBVIOUS
    <2>2. RuntimeFor(w).current \in Option(Releases) /\ RuntimeFor(w).gen \in Nat
      BY OwnIds, StoreTypes DEF WInv, RuntimeFor
    <2>3. /\ r \in WorkflowRecords /\ r.release = None /\ r.op = None /\ r.status = "Requested"
          /\ r.checkpoint = "Requested"
      BY <2>1, <2>2 DEF NoWorkflow, WorkflowRecords, WorkflowStatus, WorkflowCheckpoint, Option
    <2>4. wf' = [wf EXCEPT ![w] = r] /\ ~Started(w) /\ UNCHANGED packaged
      BY <1>3, <2>1 DEF start
    <2>5. wf'[w] = r /\ \A v \in Workflows : v # w => wf'[v] = wf[v]
      BY <1>1, <2>4
    <2>6. VerdictStands
      BY <2>4 DEF VerdictStands
    <2>7. Earned(w)'
      BY <2>3, <2>5 DEF Earned, Observed
    <2>8. \A v \in Workflows : Open(v) => CopyOf(v)' = CopyOf(v) /\ Open(v)'
      BY <2>4, <2>5 DEF Open, CopyOf, Started
    <2>9. \A v \in Workflows : Open(v) =>
            wf'[v].checkpoint = wf[v].checkpoint /\ wf'[v].release = wf[v].release
      BY <2>4, <2>5 DEF Open
    <2>10. CopiesAgree' /\ StepEarned' /\ pass' \in Seq(Copies)
      BY <1>1, <1>2, <2>6, <2>8, <2>9, CopiesKept, StepKept
    <2>11. QED
      BY <1>1, <2>3, <2>4, <2>6, <2>7, <2>10, OneWorkflow DEF Option
  <1>4. CASE cancel(w)
    <2>1. PICK r : r = [wf[w] EXCEPT !.status = "Cancelled"]
      OBVIOUS
    <2>2. wf[w] \in WorkflowRecords
      BY <1>1
    <2>3. /\ r \in WorkflowRecords /\ r.release = wf[w].release /\ r.op = wf[w].op
          /\ r.checkpoint = wf[w].checkpoint /\ r.status = "Cancelled"
          /\ r.expectedCurrent = wf[w].expectedCurrent
          /\ r.expectedGeneration = wf[w].expectedGeneration
      BY <2>1, <2>2 DEF WorkflowRecords, WorkflowStatus
    <2>4. wf' = [wf EXCEPT ![w] = r] /\ UNCHANGED packaged
      BY <1>4, <2>1 DEF cancel
    <2>5. wf'[w] = r /\ \A v \in Workflows : v # w => wf'[v] = wf[v]
      BY <1>1, <2>4
    <2>6. VerdictStands
      BY <2>4 DEF VerdictStands
    <2>7. Earned(w)'
      BY <2>3, <2>5, <2>6, EarnedKept
    <2>8. r.status # None
      BY <2>3, NoWorkflowAssumption DEF WorkflowStatus
    <2>9. \A v \in Workflows : Open(v) => CopyOf(v)' = CopyOf(v) /\ Open(v)'
      BY <2>3, <2>5, <2>8 DEF Open, CopyOf, Started
    <2>10. \A v \in Workflows : wf'[v].checkpoint = wf[v].checkpoint /\ wf'[v].release = wf[v].release
      BY <2>3, <2>5
    <2>11. CopiesAgree' /\ StepEarned' /\ pass' \in Seq(Copies)
      BY <1>1, <1>2, <2>6, <2>9, <2>10, CopiesKept, StepKept
    <2>12. r.release \in Option({ReleaseOf[w]}) /\ r.op \in Option({PublishOp(w), RollbackOp(w)})
      BY <2>3, WorkflowFacts
    <2>13. QED
      BY <1>1, <2>3, <2>4, <2>6, <2>7, <2>8, <2>11, <2>12, OneWorkflow
  <1>5. CASE PackagingSettles(w)
    <2>1. /\ packaged[w] = "unsettled" /\ wf' = wf
          /\ \E outcome \in {"Validated", "Failed"} : packaged' = [packaged EXCEPT ![w] = outcome]
      BY <1>5 DEF PackagingSettles
    <2>2. packaged' \in [Workflows -> {"unsettled", "Validated", "Failed"}] /\ VerdictStands
      BY <1>1, <2>1 DEF VerdictStands
    <2>3. PICK r \in WorkflowRecords : r = wf[w]
      BY <1>1
    <2>4. wf' = [wf EXCEPT ![w] = r]
      BY <1>1, <2>1, <2>3
    <2>5. Earned(w)'
      BY <2>1, <2>2, EarnedKept
    <2>6. CopiesAgree' /\ pass' \in Seq(Copies)
      BY <1>2, <2>1, CopiesQuiet
    <2>7. StepEarned'
      BY <1>2, <2>1, <2>2, StepKept
    <2>8. r.release \in Option({ReleaseOf[w]}) /\ r.op \in Option({PublishOp(w), RollbackOp(w)})
      BY <2>3, WorkflowFacts
    <2>9. Started(w) => r.status # None
      BY <2>3 DEF Started
    <2>10. QED
      BY <2>2, <2>3, <2>4, <2>5, <2>6, <2>7, <2>8, <2>9, OneWorkflow
  <1>6. QED
    BY <1>3, <1>4, <1>5

(* A new pass copies every workflow that is not terminal, each once. *)
LEMMA PassStarts ==
  ASSUME WInv, Forward, StartPass
  PROVE  WInv'
PROOF
  <1> DEFINE live == {w \in Workflows : Started(w) /\ ~terminal(wf[w].status)}
             n == Cardinality(live)
  <1>1. /\ UNCHANGED <<wf, packaged>> /\ UNCHANGED vars /\ step' = Begin
        /\ \E order \in Perms(live) : pass' = [i \in 1..n |-> CopyOf(order[i])]
    BY DEF StartPass
  <1>2. n \in Nat
    <2>1. IsFiniteSet(live)
      BY WorkflowAssumption, FS_Subset
    <2>2. QED
      BY <2>1, FS_CardinalityType
  <1>3. PICK order \in Perms(live) : pass' = [i \in 1..n |-> CopyOf(order[i])]
    BY <1>1
  <1>4. /\ order \in [1..n -> live]
        /\ \A i, j \in 1..n : order[i] = order[j] => i = j
    BY <1>3 DEF Perms
  <1>5. \A w \in live : w \in Workflows /\ Open(w)
    BY DEF Open, terminal
  <1>6. \A w \in Workflows : CopyOf(w) \in Copies /\ CopyOf(w).id = w
    <2>1. wf \in [Workflows -> WorkflowRecords]
      BY DEF WInv, WorkflowTypes
    <2>2. QED
      BY <2>1 DEF CopyOf, Copies, WorkflowRecords
  <1> HIDE DEF live, n
  <1>7. \A i \in 1..n : /\ order[i] \in Workflows /\ Open(order[i])
                        /\ CopyOf(order[i]) \in Copies /\ CopyOf(order[i]).id = order[i]
    BY <1>4, <1>5, <1>6
  <1>8. /\ pass' \in Seq(Copies) /\ Len(pass') = n
        /\ \A i \in 1..n : pass'[i] = CopyOf(order[i]) /\ pass'[i].id = order[i]
    BY <1>2, <1>3, <1>7
  <1>9. \A w \in Workflows : CopyOf(w)' = CopyOf(w) /\ (Open(w)' <=> Open(w))
    BY <1>1 DEF CopyOf, Open, Started
  <1>10. ASSUME NEW i \in 1..n PROVE (pass[i] = CopyOf(pass[i].id) /\ Open(pass[i].id))'
    <2>1. PICK w \in Workflows : w = order[i]
      BY <1>7
    <2>2. pass'[i].id = w /\ pass'[i] = CopyOf(w) /\ Open(w)
      BY <1>7, <1>8, <2>1
    <2>3. (CopyOf(w) = CopyOf(pass[i].id) /\ (Open(w) <=> Open(pass[i].id)))'
      BY <2>2
    <2>4. QED
      BY <1>9, <2>2, <2>3
  <1>11. CopiesAgree'
    BY <1>4, <1>8, <1>10 DEF CopiesAgree
  <1>12. StepEarned'
    BY <1>1 DEF StepEarned, Begin
  <1>13. QED
    BY <1>1, <1>8, <1>11, <1>12, GensQuiet, WorkflowsKept

(* An advance that was justified earns what its checkpoint promises. *)
LEMMA AdvanceEarns ==
  ASSUME WInv, Forward, UNCHANGED vars, UNCHANGED packaged, NEW w \in Workflows,
         NEW to, NEW goal, NEW release, NEW op, Leads(w, to, goal, release, op),
         wf'[w].status = to, wf'[w].checkpoint = to,
         wf'[w].release = IF release # None THEN release ELSE wf[w].release,
         wf'[w].op = IF op # None THEN op ELSE wf[w].op
  PROVE  Earned(w)'
PROOF
  <1>1. /\ UNCHANGED <<PublishOp(w), RollbackOp(w)>> /\ mem' = mem /\ packaged'[w] = packaged[w]
        /\ PublishOp(w) # None /\ RollbackOp(w) # None /\ completed \subseteq completed'
    BY OwnIds DEF PublishOp, RollbackOp, vars, Forward
  <1>2. Earned(w)
    BY DEF WInv
  <1>3. CASE to \in {"SourceFrozen", "Building", "Validating", "ReleasePackaging"}
    BY <1>3 DEF Earned, Observed
  <1>4. CASE to = "ReleaseValidated"
    <2>1. packaged[w] = "Validated"
      BY <1>4 DEF Leads, Observed, next_publication_checkpoint
    <2>2. QED
      BY <1>1, <1>4, <2>1 DEF Earned, Observed
  <1>5. CASE to = "DesiredStateCommitted"
    <2>1. /\ wf[w].checkpoint = "ReleaseValidated" /\ release = None /\ op = PublishOp(w)
          /\ Known(mem, PublishOp(w))
          /\ mem.operations[PublishOp(w)].request.release = wf[w].release
      BY <1>5 DEF Leads, Observed, next_publication_checkpoint
    <2>2. packaged[w] = "Validated"
      BY <1>2, <2>1 DEF Earned
    <2>3. QED
      BY <1>1, <1>5, <2>1, <2>2 DEF Earned, Observed, Known
  <1>6. CASE wf[w].checkpoint \in Observed /\ to = next_publication_checkpoint(wf[w].checkpoint)
             /\ release = None /\ op = None /\ goal \in {to, "Completed"}
             /\ (goal = "Completed" => PublishOp(w) \in completed)
    <2>1. to \in {"Reconciling", "WorkloadReady", "TrafficSwitched", "ExternalProbePassed", "Completed"}
      BY <1>6 DEF Observed, next_publication_checkpoint
    <2>2. /\ packaged[w] = "Validated" /\ wf[w].op = PublishOp(w) /\ Known(mem, PublishOp(w))
          /\ mem.operations[PublishOp(w)].request.release = wf[w].release
      BY <1>2, <1>6 DEF Earned, Observed
    <2>3. to = "Completed" => PublishOp(w) \in completed
      BY <1>6
    <2>4. QED
      BY <1>1, <1>6, <2>1, <2>2, <2>3 DEF Earned, Observed, Known
  <1>7. CASE wf[w].checkpoint \in Observed /\ to = "RollingBack" /\ op = RollbackOp(w)
    <2>1. packaged[w] = "Validated"
      BY <1>2, <1>7 DEF Earned, Observed
    <2>2. QED
      BY <1>1, <1>7, <2>1 DEF Earned, Observed
  <1>8. CASE /\ wf[w].checkpoint = "RollingBack" /\ to = "RolledBack" /\ op = None
             /\ RollbackOp(w) \in completed
    <2>1. packaged[w] = "Validated" /\ wf[w].op = RollbackOp(w)
      BY <1>2, <1>8 DEF Earned
    <2>2. QED
      BY <1>1, <1>8, <2>1 DEF Earned, Observed
  <1>9. QED
    BY <1>3, <1>4, <1>5, <1>6, <1>7, <1>8 DEF Leads

(* Where an advance may lead, and what it may write. *)
LEMMA LeadsTypes ==
  ASSUME NEW w \in Workflows, NEW to, NEW goal, NEW release, NEW op, Leads(w, to, goal, release, op)
  PROVE  /\ to \in WorkflowCheckpoint
         /\ release \in Option({ReleaseOf[w]}) /\ op \in Option({PublishOp(w), RollbackOp(w)})
  BY DEF Leads, WorkflowCheckpoint, Option, Observed, next_publication_checkpoint

(* Only the way to Completed takes several advances. *)
LEMMA LeadsOn ==
  ASSUME NEW w \in Workflows, NEW to, NEW goal, NEW release, NEW op,
         Leads(w, to, goal, release, op), to # goal
  PROVE  /\ goal = "Completed" /\ PublishOp(w) \in completed /\ to \in Observed
         /\ release = None /\ op = None
  BY DEF Leads, Observed, next_publication_checkpoint

(* advance: the compare-and-set on the checkpoint succeeds or the append fails. *)
LEMMA AdvanceStep ==
  ASSUME WInv, Forward, advance
  PROVE  WInv'
PROOF
  <1>1. UNCHANGED packaged /\ UNCHANGED vars /\ pass # <<>> /\ step.at = "advance"
    BY DEF advance
  <1>2. PICK w \in Workflows : w = w0
    BY <1>1, HeadFacts
  <1>3. step = AdvanceTo(step.to, step.goal, step.release, step.op)
        /\ Leads(w0, step.to, step.goal, step.release, step.op)
    BY <1>1 DEF WInv, StepEarned, Begin, Fail
  <1>4. PICK to, goal, release, op :
          /\ to = step.to /\ goal = step.goal /\ release = step.release /\ op = step.op
          /\ Leads(w, to, goal, release, op)
    BY <1>2, <1>3
  <1>5. CASE step' = Fail /\ UNCHANGED <<wf, pass>>
    BY <1>1, <1>5, GensQuiet, Fails
  <1>6. ASSUME wf' = [wf EXCEPT ![w].status = to, ![w].checkpoint = to,
                                ![w].release = IF release # None THEN release ELSE @,
                                ![w].op = IF op # None THEN op ELSE @],
               IF to = goal
               THEN Finish
               ELSE /\ step' = AdvanceTo(next_publication_checkpoint(to), goal, None, None)
                    /\ pass' = [pass EXCEPT ![1].checkpoint = to]
        PROVE  WInv'
    <2>1. /\ wf \in [Workflows -> WorkflowRecords] /\ wf[w] \in WorkflowRecords
          /\ wf[w].release \in Option(Releases) /\ wf[w].op \in OpId \cup {None}
          /\ wf[w].release \in Option({ReleaseOf[w]})
          /\ wf[w].op \in Option({PublishOp(w), RollbackOp(w)})
      BY WorkflowFacts DEF WInv, WorkflowTypes, WorkflowRecords
    <2>2. /\ to \in WorkflowCheckpoint
          /\ release \in Option({ReleaseOf[w]}) /\ op \in Option({PublishOp(w), RollbackOp(w)})
      BY <1>4, LeadsTypes
    <2>3. PICK newRelease : newRelease = IF release # None THEN release ELSE wf[w].release
      OBVIOUS
    <2>4. PICK newOp : newOp = IF op # None THEN op ELSE wf[w].op
      OBVIOUS
    <2>5. PICK r : r = [wf[w] EXCEPT !.status = to, !.checkpoint = to,
                                     !.release = newRelease, !.op = newOp]
      OBVIOUS
    <2>6. newRelease \in Option({ReleaseOf[w]}) /\ newOp \in Option({PublishOp(w), RollbackOp(w)})
      BY <2>1, <2>2, <2>3, <2>4
    <2>7. newRelease \in Option(Releases) /\ newOp \in OpId \cup {None}
      BY <2>6, WorkflowAssumption, OwnIds DEF Option
    <2>8. /\ r \in WorkflowRecords /\ r.status = to /\ r.checkpoint = to
          /\ r.release = newRelease /\ r.op = newOp
          /\ r.expectedCurrent = wf[w].expectedCurrent
          /\ r.expectedGeneration = wf[w].expectedGeneration
      BY <2>1, <2>2, <2>5, <2>7 DEF WorkflowRecords, WorkflowStatus
    <2>9. wf' = [wf EXCEPT ![w] = r]
      BY <1>6, <2>1, <2>3, <2>4, <2>5 DEF WorkflowRecords
    <2>10. wf'[w] = r /\ \A v \in Workflows : v # w => wf'[v] = wf[v]
      BY <2>1, <2>9
    <2>11. Earned(w)'
      BY <1>1, <1>4, <2>3, <2>4, <2>8, <2>10, AdvanceEarns
    <2>12. r.status # None
      BY <2>2, <2>8, NoWorkflowAssumption DEF WorkflowStatus
    <2>13. VerdictStands /\ packaged' \in [Workflows -> {"unsettled", "Validated", "Failed"}]
      BY <1>1 DEF VerdictStands, WInv, WorkflowTypes
    <2>14. ASSUME pass' \in Seq(Copies), CopiesAgree', StepEarned' PROVE WInv'
      BY <1>1, <2>6, <2>8, <2>9, <2>11, <2>12, <2>13, <2>14, OneWorkflow
    <2>15. CASE to = goal
      <3>1. pass' = Tail(pass) /\ step' = Begin
        BY <1>6, <2>15 DEF Finish
      <3>2. pass' \in Seq(Copies) /\ CopiesAgree'
        BY <1>1, <1>2, <2>10, <3>1, CopiesFinish
      <3>3. StepEarned'
        BY <3>1 DEF StepEarned, Begin
      <3>4. QED
        BY <2>14, <3>2, <3>3
    <2>16. CASE to # goal
      <3>1. /\ step' = AdvanceTo(next_publication_checkpoint(to), goal, None, None)
            /\ pass' = [pass EXCEPT ![1].checkpoint = to]
        BY <1>6, <2>16
      <3>2. /\ goal = "Completed" /\ PublishOp(w) \in completed /\ to \in Observed
            /\ release = None /\ op = None
        BY <1>4, <2>16, LeadsOn
      <3>3. /\ pass \in Seq(Copies) /\ Len(pass) \in Nat /\ 1 \in 1..Len(pass)
            /\ pass[1] = CopyOf(w) /\ pass[1].id = w
        BY <1>1, <1>2, HeadFacts DEF WInv, WorkflowTypes
      <3>4. PICK c : c = [CopyOf(w) EXCEPT !.checkpoint = to]
        OBVIOUS
      <3>5. c \in Copies /\ c.id = w /\ c.checkpoint = to
        BY <2>1, <2>2, <3>4 DEF CopyOf, Copies, WorkflowRecords
      <3>6. pass' = [pass EXCEPT ![1] = c]
        BY <3>1, <3>3, <3>4
      <3>7. /\ pass' \in Seq(Copies) /\ Len(pass') = Len(pass) /\ pass'[1] = c
            /\ \A i \in 1..Len(pass) : i # 1 => pass'[i] = pass[i]
        BY <3>3, <3>5, <3>6
      <3>8. c = CopyOf(w)'
        <4>1. /\ wf'[w].checkpoint = to /\ wf'[w].release = wf[w].release /\ wf'[w].op = wf[w].op
              /\ wf'[w].expectedCurrent = wf[w].expectedCurrent
              /\ wf'[w].expectedGeneration = wf[w].expectedGeneration
          BY <2>3, <2>4, <2>8, <2>10, <3>2
        <4>2. c = [id |-> w, checkpoint |-> to, release |-> wf[w].release, op |-> wf[w].op,
                   expectedCurrent |-> wf[w].expectedCurrent,
                   expectedGeneration |-> wf[w].expectedGeneration]
          BY <3>4 DEF CopyOf
        <4>3. QED
          BY <4>1, <4>2 DEF CopyOf
      <3>9. Open(w)'
        BY <2>8, <2>10, <2>12, <3>2 DEF Open, Started, Observed
      <3>10. \A v \in Workflows : v # w => CopyOf(v)' = CopyOf(v) /\ (Open(v) => Open(v)')
        BY <2>10 DEF CopyOf, Open, Started
      <3>11. ASSUME NEW i \in 1..Len(pass) PROVE (pass[i] = CopyOf(pass[i].id) /\ Open(pass[i].id))'
        <4>1. PICK v \in Workflows : v = pass[i].id
          BY PassIds
        <4>2. pass[i] = CopyOf(v) /\ Open(v)
          BY <4>1 DEF WInv, CopiesAgree
        <4>3. i # 1 => v # w
          BY <3>3, <4>1 DEF WInv, CopiesAgree
        <4>4. pass'[i] = CopyOf(v)' /\ Open(v)' /\ pass'[i].id = v
          BY <3>3, <3>5, <3>7, <3>8, <3>9, <3>10, <4>1, <4>2, <4>3
        <4>5. (CopyOf(v) = CopyOf(pass[i].id) /\ (Open(v) <=> Open(pass[i].id)))'
          BY <4>4
        <4>6. QED
          BY <4>4, <4>5
      <3>12. \A i \in 1..Len(pass) : pass'[i].id = pass[i].id
        BY <3>3, <3>5, <3>7
      <3>13. CopiesAgree'
        BY <3>7, <3>11, <3>12 DEF WInv, CopiesAgree
      <3>14. PICK next : next = next_publication_checkpoint(to)
        OBVIOUS
      <3>15. w0' = w /\ pass' # <<>>
        BY <3>3, <3>5, <3>7 DEF w0
      <3>16. UNCHANGED PublishOp(w) /\ completed \subseteq completed'
        BY DEF PublishOp, Forward
      <3>17. Leads(w, next, "Completed", None, None)'
        BY <2>8, <2>10, <3>2, <3>14, <3>16 DEF Leads
      <3>18. step' = AdvanceTo(next, "Completed", None, None)
        BY <3>1, <3>2, <3>14
      <3>19. /\ step'.at = "advance" /\ step'.to = next /\ step'.goal = "Completed"
             /\ step'.release = None /\ step'.op = None
        BY <3>18 DEF AdvanceTo
      <3>20. Leads(w0, step.to, step.goal, step.release, step.op)'
        BY <3>15, <3>17, <3>19
      <3>21. (step = AdvanceTo(step.to, step.goal, step.release, step.op))'
        BY <3>18, <3>19 DEF AdvanceTo
      <3>22. StepEarned'
        BY <3>15, <3>19, <3>20, <3>21 DEF StepEarned
      <3>23. QED
        BY <2>14, <3>7, <3>13, <3>22
    <2>17. QED
      BY <2>15, <2>16
  <1>7. QED
    BY <1>2, <1>4, <1>5, <1>6 DEF advance

(* reconcile_once ends the reconcile of the head with an error. *)
LEMMA ErrorStep ==
  ASSUME WInv, Forward, record_error
  PROVE  WInv'
PROOF
  <1>1. /\ UNCHANGED packaged /\ UNCHANGED vars /\ pass # <<>> /\ pass' = Tail(pass)
        /\ step' = Begin /\ Finish
    BY DEF record_error, Finish
  <1>2. PICK w \in Workflows : w = w0
    BY <1>1, HeadFacts
  <1>3. CASE UNCHANGED wf
    BY <1>1, <1>3, Finishes
  <1>4. ASSUME NEW status \in {"RollingBack", "Failed"}, wf' = [wf EXCEPT ![w].status = status]
        PROVE  WInv'
    <2>1. wf \in [Workflows -> WorkflowRecords] /\ wf[w] \in WorkflowRecords
      BY DEF WInv, WorkflowTypes
    <2>2. PICK r : r = [wf[w] EXCEPT !.status = status]
      OBVIOUS
    <2>3. /\ r \in WorkflowRecords /\ r.release = wf[w].release /\ r.op = wf[w].op
          /\ r.checkpoint = wf[w].checkpoint /\ r.status = status
          /\ r.expectedGeneration = wf[w].expectedGeneration
      BY <2>1, <2>2 DEF WorkflowRecords, WorkflowStatus, WorkflowCheckpoint
    <2>4. wf' = [wf EXCEPT ![w] = r]
      BY <1>4, <2>2
    <2>5. wf'[w] = r /\ \A v \in Workflows : v # w => wf'[v] = wf[v]
      BY <2>1, <2>4
    <2>6. VerdictStands /\ packaged' \in [Workflows -> {"unsettled", "Validated", "Failed"}]
      BY <1>1 DEF VerdictStands, WInv, WorkflowTypes
    <2>7. Earned(w)'
      BY <2>3, <2>5, <2>6, EarnedKept
    <2>8. r.status # None
      BY <2>3, NoWorkflowAssumption DEF WorkflowStatus, WorkflowCheckpoint
    <2>9. pass' \in Seq(Copies) /\ CopiesAgree'
      BY <1>1, <1>2, <2>5, CopiesFinish
    <2>10. StepEarned'
      BY <1>1 DEF StepEarned, Begin
    <2>11. r.release \in Option({ReleaseOf[w]}) /\ r.op \in Option({PublishOp(w), RollbackOp(w)})
      BY <2>3, WorkflowFacts
    <2>12. QED
      BY <1>1, <2>3, <2>4, <2>6, <2>7, <2>8, <2>9, <2>10, <2>11, OneWorkflow
  <1>5. QED
    BY <1>2, <1>3, <1>4 DEF record_error

(* Other clients, the work-runtime controller and the recovery of the store. *)
LEMMA StoreSteps ==
  ASSUME WInv, StoreStep
  PROVE  [Next]_vars /\ \A w \in Workflows : GensOf(PublishOp(w))' \subseteq GensOf(PublishOp(w))
PROOF
  <1>1. \A w \in Workflows : PublishOp(w) \in OpId /\ UNCHANGED PublishOp(w)
    BY OwnIds DEF PublishOp
  <1>2. ASSUME NEW S \in SUBSET OpId, \A x \in S : GensOf(x)' \subseteq GensOf(x),
               \A w \in Workflows : PublishOp(w) \in S
        PROVE  \A w \in Workflows : GensOf(PublishOp(w))' \subseteq GensOf(PublishOp(w))
    <2>1. ASSUME NEW w \in Workflows PROVE GensOf(PublishOp(w))' \subseteq GensOf(PublishOp(w))
      <3>1. PICK x \in S : x = PublishOp(w)
        BY <1>2
      <3>2. QED
        BY <1>1, <1>2, <3>1 DEF GensOf
    <2>2. QED
      BY <2>1
  <1>3. CASE RecoveryComplete
    BY <1>3 DEF RecoveryComplete, Next, GensOf, PublishOp
  <1>4. ASSUME NEW p \in Projects, NEW k \in Keys, k \notin WorkflowKeys, OtherClient(<<p, k>>)
        PROVE  Next /\ \A w \in Workflows : GensOf(PublishOp(w))' \subseteq GensOf(PublishOp(w))
    <2>1. PICK id \in OpId : id = <<p, k>> /\ id[1] = p /\ id[2] = k
      BY OpIdPair
    <2>2. RuntimeOf(mem, id).current \in Option(Releases) /\ RuntimeOf(mem, id).gen \in Nat
      BY <2>1, StoreTypes DEF WInv, RuntimeOf
    <2>3. PICK kind \in PublishOperationKind, release \in Option(Releases) :
            commit_intent(id, [kind |-> kind, release |-> release,
                               expectedCurrent |-> RuntimeOf(mem, id).current,
                               expectedGeneration |-> RuntimeOf(mem, id).gen])
      BY <1>4, <2>1 DEF OtherClient, Option
    <2>4. PICK intent \in PublicationIntent :
            intent = [kind |-> kind, release |-> release,
                      expectedCurrent |-> RuntimeOf(mem, id).current,
                      expectedGeneration |-> RuntimeOf(mem, id).gen]
      BY <2>2 DEF PublicationIntent
    <2>5. commit_intent(id, intent)
      BY <2>3, <2>4
    <2>6. Next /\ \A x \in OpId \ {id} : GensOf(x)' \subseteq GensOf(x)
      BY <2>5, IntentIsStoreStep, IntentGens DEF WInv
    <2>7. \A w \in Workflows : PublishOp(w) \in OpId \ {id}
      BY <1>4, <2>1, OwnIds DEF WorkflowKeys
    <2>8. QED
      BY <1>2, <2>6, <2>7
  <1>5. ASSUME NEW p \in Projects, NEW k \in Keys,
               Reported(<<p, k>>) \/ replay_nonterminal_outbox(<<p, k>>)
        PROVE  Next /\ \A w \in Workflows : GensOf(PublishOp(w))' \subseteq GensOf(PublishOp(w))
    <2>1. PICK id \in OpId : id = <<p, k>>
      BY OpIdPair
    <2>2. Next /\ \A x \in OpId : GensOf(x)' \subseteq GensOf(x)
      BY <1>5, <2>1, ReportedStep DEF WInv
    <2>3. QED
      BY <1>1, <1>2, <2>2
  <1>6. QED
    BY <1>3, <1>4, <1>5 DEF StoreStep

-----------------------------------------------------------------------------
(* The initial state. *)
LEMMA WorkflowInitInv == WorkflowInit => WInv
PROOF
  <1> SUFFICES ASSUME WorkflowInit PROVE WInv
    OBVIOUS
  <1>1. Inv
    BY InitInv DEF WorkflowInit
  <1>2. /\ wf = [w \in Workflows |-> NoWorkflow] /\ pass = <<>> /\ step = Begin
        /\ packaged = [w \in Workflows |-> "unsettled"]
        /\ mem = EmptySnapshot /\ disk = EmptySnapshot
    BY DEF WorkflowInit, Init
  <1>3. /\ NoWorkflow \in WorkflowRecords /\ NoWorkflow.status = None
        /\ NoWorkflow.checkpoint = "Requested" /\ NoWorkflow.release = None /\ NoWorkflow.op = None
    BY DEF NoWorkflow, WorkflowRecords, WorkflowCheckpoint, Option
  <1>4. pass \in Seq(Copies) /\ Len(pass) = 0
    BY <1>2
  <1>5. WorkflowTypes
    BY <1>2, <1>3, <1>4 DEF WorkflowTypes, WorkflowTypeOK, WorkflowCheckpoint, Option
  <1>6. CopiesAgree
    BY <1>4 DEF CopiesAgree
  <1>7. StepEarned
    BY <1>2 DEF StepEarned
  <1>8. ASSUME NEW w \in Workflows PROVE Earned(w) /\ Generations(w)
    <2>1. Earned(w)
      BY <1>2, <1>3, NoWorkflowAssumption DEF Earned, Observed, WorkflowStatus, WorkflowCheckpoint
    <2>2. PICK id \in OpId : id = PublishOp(w)
      BY OwnIds
    <2>3. mem.operations[id].gen = 0 /\ disk.operations[id].gen = 0
      BY <1>2 DEF EmptySnapshot, NoOperation
    <2>4. QED
      BY <2>1, <2>2, <2>3 DEF Generations
  <1>9. QED
    BY <1>1, <1>5, <1>6, <1>7, <1>8 DEF WInv

(* Every step of the composition is a step of the publication store or     *)
(* leaves it alone, and keeps the invariant.                               *)
LEMMA WorkflowNextInv ==
  ASSUME WInv, [WorkflowNext]_allVars
  PROVE  [Next]_vars /\ WInv'
PROOF
  <1>1. ASSUME History, [Next]_vars PROVE Forward
    BY <1>1, NextInv DEF History, Forward, WInv
  <1>2. CASE UNCHANGED allVars
    <2>1. UNCHANGED vars /\ UNCHANGED <<wf, packaged, pass, step, completed>>
      BY <1>2 DEF allVars, workflowVars
    <2>2. Inv'
      BY <2>1, NextInv DEF WInv
    <2>3. WorkflowTypes' /\ CopiesAgree' /\ StepEarned'
      BY <2>1 DEF WInv, WorkflowTypes, WorkflowTypeOK, CopiesAgree, StepEarned, CopyOf, Open,
         Started, Leads, PublishOp, RollbackOp, w0, Known, vars, Begin, Fail, AdvanceTo
    <2>4. \A w \in Workflows : Earned(w)' /\ Generations(w)'
      BY <2>1 DEF WInv, Earned, Generations, PublishOp, RollbackOp, Known, Started, vars
    <2>5. QED
      BY <2>1, <2>2, <2>3, <2>4 DEF WInv
  <1>3. CASE WorkflowNext
    <2>1. History
      BY <1>3 DEF WorkflowNext
    <2>2. ASSUME UNCHANGED vars PROVE [Next]_vars /\ Forward
      BY <1>1, <2>1, <2>2
    <2>3. ASSUME NEW w \in Workflows, start(w) \/ cancel(w) \/ PackagingSettles(w)
          PROVE  [Next]_vars /\ WInv'
      <3>1. UNCHANGED vars
        BY <2>3 DEF start, cancel, PackagingSettles
      <3>2. QED
        BY <2>2, <2>3, <3>1, OutsideSteps
    <2>4. CASE StartPass
      <3>1. UNCHANGED vars
        BY <2>4 DEF StartPass
      <3>2. QED
        BY <2>2, <2>4, <3>1, PassStarts
    <2>5. CASE \/ freeze_source \/ advance_to_building \/ build_and_promote_version
               \/ prepare_release \/ observe_release \/ observe_publication
               \/ read_for_rollback \/ observe_rollback
      <3>1. UNCHANGED vars
        BY <2>5 DEF freeze_source, advance_to_building, build_and_promote_version, prepare_release,
           observe_release, observe_publication, read_for_rollback, observe_rollback,
           Produces, ProduceFails
      <3>2. QED
        BY <2>2, <2>5, <3>1, QuietReconcile
    <2>6. CASE commit_publication \/ commit_rollback
      BY <1>1, <2>1, <2>6, CommitSteps
    <2>7. CASE advance \/ record_error
      <3>1. UNCHANGED vars
        BY <2>7 DEF advance, record_error
      <3>2. QED
        BY <2>2, <2>7, <3>1, AdvanceStep, ErrorStep
    <2>8. CASE StoreStep
      <3>1. /\ [Next]_vars /\ UNCHANGED <<wf, packaged, pass, step>>
            /\ \A w \in Workflows : GensOf(PublishOp(w))' \subseteq GensOf(PublishOp(w))
        BY <2>8, StoreSteps DEF StoreStep
      <3>2. Forward /\ VerdictStands
        BY <1>1, <2>1, <3>1 DEF VerdictStands
      <3>3. StepEarned'
        BY <3>1, <3>2, StepKept
      <3>4. QED
        BY <3>1, <3>2, <3>3, CopiesQuiet, WorkflowsKept
    <2>9. CASE Restart
      <3>1. CrashAndOpen /\ pass' = <<>> /\ step' = Begin /\ UNCHANGED <<wf, packaged>>
        BY <2>9 DEF Restart
      <3>2. Next /\ Forward
        BY <1>1, <2>1, <3>1 DEF Next
      <3>3. \A w \in Workflows : GensOf(PublishOp(w))' \subseteq GensOf(PublishOp(w))
        BY <3>1 DEF CrashAndOpen, GensOf, PublishOp
      <3>4. pass' \in Seq(Copies) /\ Len(pass') = 0
        BY <3>1
      <3>5. CopiesAgree'
        BY <3>4 DEF CopiesAgree
      <3>6. StepEarned'
        BY <3>1 DEF StepEarned, Begin
      <3>7. QED
        BY <3>1, <3>2, <3>3, <3>4, <3>5, <3>6, WorkflowsKept
    <2>10. QED
      BY <1>3, <2>3, <2>4, <2>5, <2>6, <2>7, <2>8, <2>9 DEF WorkflowNext, Reconcile
  <1>4. QED
    BY <1>2, <1>3

-----------------------------------------------------------------------------
(* The inductive invariant holds in every reachable state. *)
THEOREM WorkflowInvariance == WorkflowSpec => []WInv
  BY WorkflowInitInv, WorkflowNextInv, PTL DEF WorkflowSpec

(* A publish workflow, its passes, its rollbacks and its restarts use the   *)
(* publication store only as any client may: whatever is proved of the      *)
(* store holds of the composition (commit_publication, begin_rollback).     *)
THEOREM UsesTheStore == WorkflowSpec => Spec
PROOF
  <1>1. WorkflowInit => Init
    BY DEF WorkflowInit
  <1>2. WInv /\ [WorkflowNext]_allVars => [Next]_vars
    BY WorkflowNextInv
  <1>3. QED
    BY <1>1, <1>2, WorkflowInvariance, PTL DEF WorkflowSpec, Spec

(* The workflow records keep the shape of their Rust types. *)
THEOREM WorkflowTypeCorrect == WorkflowSpec => []WorkflowTypeOK
PROOF
  <1>1. WInv => WorkflowTypeOK
    BY DEF WInv, WorkflowTypes
  <1>2. QED
    BY <1>1, WorkflowInvariance, PTL

(* Completed and RolledBack are said only of an operation that completed.  *)
THEOREM OutcomesAreTrue == WorkflowSpec => []OutcomeIsTrue
PROOF
  <1>1. ASSUME WInv PROVE OutcomeIsTrue
    <2>1. ASSUME NEW w \in Workflows
          PROVE  /\ wf[w].status = "Completed" =>
                      /\ wf[w].op \in completed
                      /\ mem.operations[wf[w].op].request.release = wf[w].release
                 /\ wf[w].status = "RolledBack" => RollbackOp(w) \in completed
      <3>1. Earned(w)
        BY <1>1 DEF WInv
      <3>2. QED
        BY <3>1 DEF Earned
    <2>2. QED
      BY <2>1 DEF OutcomeIsTrue
  <1>2. QED
    BY <1>1, WorkflowInvariance, PTL

(* A workflow publishes only over the generation its client saw, and only   *)
(* what the packager validated.                                             *)
THEOREM NoUpdateIsLost == WorkflowSpec => []NoLostUpdate
PROOF
  <1>1. ASSUME WInv PROVE NoLostUpdate
    <2>1. \A w \in Workflows : Generations(w)
      BY <1>1 DEF WInv
    <2>2. QED
      BY <2>1 DEF NoLostUpdate, Generations, Known
  <1>2. QED
    BY <1>1, WorkflowInvariance, PTL

(* Completed, Failed and RolledBack are final, and so is a cancellation     *)
(* that no copy of the running pass can overtake.                           *)
THEOREM OutcomesStand == WorkflowSpec => OutcomeStands
PROOF
  <1> DEFINE Stands(w) ==
         /\ wf[w].status \in {"Completed", "Failed", "RolledBack"} => wf'[w] = wf[w]
         /\ wf[w].status = "Cancelled" /\ (\A i \in DOMAIN pass : pass[i].id # w)
            => /\ wf'[w] = wf[w]
               /\ \A i \in DOMAIN pass' : pass'[i].id # w
  <1>1. ASSUME WInv, WorkflowNext, NEW w \in Workflows PROVE Stands(w)
    <2>1. /\ wf \in [Workflows -> WorkflowRecords] /\ pass \in Seq(Copies)
          /\ Len(pass) \in Nat /\ DOMAIN pass = 1..Len(pass)
      BY <1>1 DEF WInv, WorkflowTypes
    <2>2. ASSUME pass # <<>> PROVE w0 = pass[1].id /\ 1 \in DOMAIN pass /\ Open(w0) /\ w0 \in Workflows
      BY <1>1, <2>1, <2>2, HeadFacts
    <2>3. ASSUME pass # <<>>, pass' = Tail(pass), \A i \in DOMAIN pass : pass[i].id # w
          PROVE  \A i \in DOMAIN pass' : pass'[i].id # w
      <3>1. /\ DOMAIN pass' = 1..(Len(pass) - 1)
            /\ \A i \in 1..(Len(pass) - 1) : i + 1 \in 1..Len(pass) /\ pass'[i] = pass[i + 1]
        BY <2>1, <2>3
      <3>2. QED
        BY <2>1, <2>3, <3>1
    <2>4. CASE UNCHANGED <<wf, pass>>
      BY <2>4
    <2>5. CASE UNCHANGED wf /\ pass # <<>> /\ Finish
      BY <2>3, <2>5 DEF Finish
    <2>6. ASSUME NEW v \in Workflows, start(v) \/ cancel(v)
          PROVE  Stands(w)
      <3>1. UNCHANGED pass /\ \A x \in Workflows : x # v => wf'[x] = wf[x]
        BY <2>1, <2>6 DEF start, cancel
      <3>2. wf[v].status \notin {"Completed", "Failed", "RolledBack", "Cancelled"}
        BY <2>6, NoWorkflowAssumption
           DEF start, cancel, Started, Cancellable, terminal, WorkflowStatus, WorkflowCheckpoint
      <3>3. QED
        BY <3>1, <3>2
    <2>7. CASE StartPass
      <3> DEFINE live == {x \in Workflows : Started(x) /\ ~terminal(wf[x].status)}
                 n == Cardinality(live)
      <3>1. PICK order \in Perms(live) : pass' = [i \in 1..n |-> CopyOf(order[i])]
        BY <2>7 DEF StartPass
      <3>2. order \in [1..n -> live] /\ wf' = wf
        BY <2>7, <3>1 DEF Perms, StartPass
      <3>3. wf[w].status = "Cancelled" => w \notin live
        BY DEF terminal
      <3>4. \A x \in live : x \in Workflows /\ CopyOf(x).id = x
        BY CopyFields
      <3> HIDE DEF live, n
      <3>5. DOMAIN pass' = 1..n /\ \A i \in 1..n : pass'[i].id = order[i] /\ order[i] \in live
        BY <3>1, <3>2, <3>4
      <3>6. QED
        BY <3>2, <3>3, <3>5
    <2>8. CASE advance \/ record_error
      <3>1. /\ pass # <<>> /\ \A x \in Workflows : x # w0 => wf'[x] = wf[x]
        BY <2>1, <2>8 DEF advance, record_error
      <3>2. /\ w0 = pass[1].id /\ 1 \in DOMAIN pass
            /\ wf[w0].status \notin {"Completed", "Failed", "RolledBack"}
        BY <2>2, <3>1 DEF Open
      <3>3. ASSUME \A i \in DOMAIN pass : pass[i].id # w
            PROVE  \A i \in DOMAIN pass' : pass'[i].id # w
        <4>1. pass' = Tail(pass) \/ pass' = pass \/ \E to : pass' = [pass EXCEPT ![1].checkpoint = to]
          BY <2>8 DEF advance, record_error, Finish
        <4>2. ASSUME NEW to, pass' = [pass EXCEPT ![1].checkpoint = to]
              PROVE  \A i \in DOMAIN pass' : pass'[i].id # w
          <5>1. pass[1] = CopyOf(w0) /\ w0 \in Workflows
            BY <1>1, <3>1, HeadFacts
          <5>2. [pass[1] EXCEPT !.checkpoint = to].id = pass[1].id
            BY <5>1 DEF CopyOf
          <5>3. QED
            BY <2>1, <3>2, <3>3, <4>2, <5>2
        <4>3. QED
          BY <2>3, <3>1, <3>3, <4>1, <4>2
      <3>4. QED
        BY <3>1, <3>2, <3>3
    <2>9. CASE Restart
      BY <2>9 DEF Restart
    <2>10. QED
      BY <1>1, <2>4, <2>5, <2>6, <2>7, <2>8, <2>9 DEF WorkflowNext, Reconcile, PackagingSettles,
         freeze_source, advance_to_building, build_and_promote_version, prepare_release, Produces,
         ProduceFails, observe_release, commit_publication, observe_publication, Follow,
         read_for_rollback, commit_rollback, observe_rollback, StoreStep, Reconciling
  <1>2. ASSUME WInv, [WorkflowNext]_allVars PROVE [\A w \in Workflows : Stands(w)]_allVars
    BY <1>1, <1>2
  <1>3. QED
    BY <1>2, WorkflowInvariance, PTL DEF WorkflowSpec, OutcomeStands

-----------------------------------------------------------------------------
(* The files under the store                                               *)

Logs == Seq(1..MaxAttempts)

(* The snapshot whose log is l *)
Snap(l) == [sequence |-> Len(l), log |-> l]

Importing == {"import_checkpoint", "import_journal"}

(* No write can be torn. *)
Clean == ~({"step_error", "torn_write"} \subseteq faulty)

(* What a start that follows will read *)
NextJournal == IF pc \in Importing THEN journal ELSE RestoredJournal
NextCheckpoint == IF pc \in Importing THEN ckpt ELSE RestoredCheckpoint

JournalTypes ==
    /\ JournalTypeOK
    /\ rows.journal # Absent => \A i \in 1..(Len(rows.journal) - 1) : rows.journal[i].newline
    /\ faulty \in Scenarios
    /\ tries \subseteq Logs
    /\ ackedLog \in Logs

(* The table is written only when it is used; it is empty up to the first   *)
(* start, at which it takes the files, and there are none unless the        *)
(* installation has moved to it.                                            *)
MirrorInv ==
    /\ rows # NoRows => mirrored /\ rows.other
    /\ pc \in Running /\ mirrored => rows # NoRows
    /\ pc \in Importing => rows # NoRows /\ rows.journal = Absent
    /\ pc = "import_checkpoint" => rows.ckpt = Absent
    /\ pc = "import_journal" => rows.ckpt = ckpt
    /\ /\ "migration" \notin faulty /\ mirrored
       /\ rows = NoRows \/ pc \in Importing
       => journal = <<>> /\ ckpt = Absent

(* The commit in flight is one more than the snapshot. *)
FlightInv ==
    /\ pc \in Running \ {"idle"} =>
         /\ attempts \in 1..MaxAttempts
         /\ next_snapshot = apply_commit_with_key(snapshot, InFlight)
         /\ next_snapshot.sequence = snapshot.sequence + 1
         /\ next_snapshot.log \in tries
    /\ pc = "sync_checkpoint" => ckpt = next_snapshot

(* What a restart may settle on: the snapshot, or it and one commit more *)
TriesInv ==
    /\ snapshot = Snap(snapshot.log) /\ snapshot.log \in tries
    /\ \A l \in tries :
         l = snapshot.log \/ \E id \in 1..MaxAttempts : l = Append(snapshot.log, id)

Whole(lines) == \A i \in DOMAIN lines : lines[i].record # Absent /\ lines[i].newline

Within(lines) == \A i \in DOMAIN lines : lines[i].record.sequence <= snapshot.sequence + 1

Settles(lines, checkpoint) == \E l \in tries : Recovered(lines, checkpoint) = Snap(l)

(* Without torn writes a start settles on one of the tries. While the       *)
(* process runs, so it does with the journal as it is now and the           *)
(* checkpoint that a start will find.                                       *)
SettleInv ==
    /\ Whole(journal) /\ Whole(RestoredJournal)
    /\ Settles(NextJournal, NextCheckpoint)
    /\ pc \in Running =>
         /\ Within(journal) /\ Within(RestoredJournal)
         /\ Settles(journal, RestoredCheckpoint)

(* Without failing steps the journal alone gives what it gives with the     *)
(* checkpoint.                                                              *)
LossInv ==
    "checkpoint_loss" \in faulty /\ rows = NoRows =>
      /\ Recovered(journal, Absent) = Recovered(journal, ckpt)
      /\ pc \in {"idle", "append_commit"} => Recovered(journal, ckpt) = snapshot
      /\ pc \in Running \ {"idle", "append_commit"} => Recovered(journal, ckpt) = next_snapshot

(* What was acknowledged is in the checkpoint, unless that may be lost. *)
AckedInv ==
    /\ pc \in Running => IsPrefix(ackedLog, snapshot.log)
    /\ Clean => \A l \in tries : IsPrefix(ackedLog, l)
    /\ "checkpoint_loss" \notin faulty /\ ackedLog # <<>> =>
         NextCheckpoint # Absent /\ IsPrefix(ackedLog, NextCheckpoint.log)

JInv ==
    /\ JournalTypes
    /\ MirrorInv
    /\ FlightInv
    /\ Clean => TriesInv /\ SettleInv
    /\ LossInv
    /\ AckedInv

(* What the faults of a behaviour leave whole *)
FaultsSurvivable == \A s \in Scenarios : Survivable(s)

-----------------------------------------------------------------------------
(* Replaying a journal                                                     *)

(* What holds at 0 and passes from each number to the next one holds up to n. *)
LEMMA FiniteInduction ==
  ASSUME NEW n \in Nat, NEW S, 0 \in S, \A i \in 1..n : i - 1 \in S => i \in S
  PROVE  0..n \subseteq S
PROOF
  <1> DEFINE T == {i \in Nat : i \in 0..n /\ i \notin S}
             R == OpToRel(<, Nat)
  <1>1. SUFFICES ASSUME T # {} PROVE FALSE
    OBVIOUS
  <1>2. PICK k \in T : \A m \in T : ~(<<m, k>> \in R)
    <2>1. T \subseteq Nat
      OBVIOUS
    <2> HIDE DEF R, T
    <2>2. IsWellFoundedOn(R, Nat)
      BY NatLessThanWellFounded, Zenon DEF R
    <2>3. QED
      BY <1>1, <2>1, <2>2, WFMin
  <1>3. \A m \in T : ~(m < k)
    <2>1. SUFFICES ASSUME NEW m \in T, m < k PROVE FALSE
      OBVIOUS
    <2>2. <<m, k>> \in R
      BY <2>1, Zenon DEF OpToRel
    <2>3. QED
      BY <1>2, <2>1, <2>2
  <1>4. /\ k \in 1..n /\ k \notin S
        /\ k - 1 \in 0..n /\ k - 1 < k /\ k - 1 \in Nat
    OBVIOUS
  <1>5. k - 1 \notin T
    BY <1>3, <1>4
  <1>6. QED
    BY <1>4, <1>5

(* f replays the first n lines. *)
Replays(f, lines, first, n) ==
    /\ f = [i \in 0..n |-> f[i]]
    /\ f[0] = first
    /\ \A i \in 1..n : f[i] = Replay(f[i - 1], lines[i])

(* Each journal can be replayed. *)
LEMMA ReplayExists ==
  ASSUME NEW lines \in Seq(Line), NEW first
  PROVE  \E f : Replays(f, lines, first, Len(lines))
PROOF
  <1> DEFINE S == {n \in 0..Len(lines) : \E f : Replays(f, lines, first, n)}
  <1>1. Len(lines) \in Nat
    OBVIOUS
  <1>2. 0 \in S
    <2>1. Replays([i \in 0..0 |-> first], lines, first, 0)
      BY DEF Replays
    <2>2. QED
      BY <1>1, <2>1
  <1>3. ASSUME NEW k \in 1..Len(lines), k - 1 \in S PROVE k \in S
    <2>1. PICK f : Replays(f, lines, first, k - 1)
      BY <1>3
    <2> DEFINE g == [i \in 0..k |-> IF i = k THEN Replay(f[k - 1], lines[k]) ELSE f[i]]
    <2>2. g = [i \in 0..k |-> g[i]]
      OBVIOUS
    <2>3. g[0] = first
      BY <1>1, <2>1 DEF Replays
    <2>4. ASSUME NEW i \in 1..k PROVE g[i] = Replay(g[i - 1], lines[i])
      <3>1. CASE i = k
        BY <1>1, <3>1
      <3>2. CASE i # k
        <4>1. i \in 1..(k - 1) /\ i - 1 \in 0..k /\ i - 1 # k /\ i \in 0..k
          BY <1>1, <3>2
        <4>2. f[i] = Replay(f[i - 1], lines[i])
          BY <2>1, <4>1 DEF Replays
        <4>3. QED
          BY <3>2, <4>1, <4>2
      <3>3. QED
        BY <3>1, <3>2
    <2>5. Replays(g, lines, first, k)
      <3> HIDE DEF g
      <3>1. QED
        BY <2>2, <2>3, <2>4 DEF Replays
    <2>6. QED
      BY <2>5
  <1>4. 0..Len(lines) \subseteq S
    <2> HIDE DEF S
    <2>1. QED
      BY <1>1, <1>2, <1>3, FiniteInduction
  <1>5. QED
    BY <1>1, <1>4

(* ReplayOf is the replay. *)
LEMMA ReplayOfReplays ==
  ASSUME NEW lines \in Seq(Line), NEW first
  PROVE  Replays(ReplayOf(lines, first), lines, first, Len(lines))
PROOF
  <1> DEFINE F(f) == [i \in 0..Len(lines) |-> IF i = 0 THEN first ELSE Replay(f[i - 1], lines[i])]
             r == ReplayOf(lines, first)
  <1>1. Len(lines) \in Nat
    OBVIOUS
  <1>2. PICK f : Replays(f, lines, first, Len(lines))
    BY ReplayExists
  <1>3. f = F(f)
    <2>1. F(f) = [i \in 0..Len(lines) |-> f[i]]
      BY <1>1, <1>2 DEF Replays
    <2>2. QED
      BY <1>2, <2>1 DEF Replays
  <1>4. r = CHOOSE g : g = F(g)
    BY DEF ReplayOf
  <1>5. r = F(r)
    <2> HIDE DEF F, r
    <2>1. QED
      BY <1>3, <1>4
  <1>6. r[0] = first
    <2>1. F(r)[0] = first
      BY <1>1
    <2> HIDE DEF r, F
    <2>2. QED
      BY <1>5, <2>1
  <1>7. ASSUME NEW i \in 1..Len(lines) PROVE r[i] = Replay(r[i - 1], lines[i])
    <2>1. F(r)[i] = Replay(r[i - 1], lines[i])
      BY <1>1
    <2> HIDE DEF r, F
    <2>2. QED
      BY <1>5, <2>1
  <1>8. r = [i \in 0..Len(lines) |-> r[i]]
    <2> DEFINE D == 0..Len(lines)
    <2>1. F(r) = [i \in D |-> F(r)[i]]
      OBVIOUS
    <2> HIDE DEF r, F
    <2>2. QED
      BY <1>5, <2>1
  <1>9. QED
    <2> HIDE DEF r
    <2>1. QED
      BY <1>6, <1>7, <1>8 DEF Replays

-----------------------------------------------------------------------------
(* Prefixes                                                                *)

(* A prefix is shorter and agrees element by element. *)
LEMMA PrefixByElements ==
  ASSUME NEW S, NEW s \in Seq(S), NEW t \in Seq(S)
  PROVE  IsPrefix(s, t) <=> Len(s) <= Len(t) /\ \A i \in 1..Len(s) : s[i] = t[i]
PROOF
  <1>1. Len(s) \in Nat /\ Len(t) \in Nat
    OBVIOUS
  <1>2. ASSUME IsPrefix(s, t)
        PROVE  Len(s) <= Len(t) /\ \A i \in 1..Len(s) : s[i] = t[i]
    <2>1. Len(s) <= Len(t) /\ SubSeq(s, 1, Len(s)) = SubSeq(t, 1, Len(s))
      BY <1>2 DEF IsPrefix
    <2>2. ASSUME NEW i \in 1..Len(s) PROVE s[i] = t[i]
      <3>1. SubSeq(s, 1, Len(s))[i] = s[i] /\ SubSeq(t, 1, Len(s))[i] = t[i]
        BY <1>1, <2>1
      <3>2. QED
        BY <2>1, <3>1
    <2>3. QED
      BY <2>1, <2>2
  <1>3. ASSUME Len(s) <= Len(t), \A i \in 1..Len(s) : s[i] = t[i]
        PROVE  IsPrefix(s, t)
    <2>1. SubSeq(s, 1, Len(s)) = SubSeq(t, 1, Len(s))
      BY <1>1, <1>3
    <2>2. QED
      BY <1>3, <2>1 DEF IsPrefix
  <1>4. QED
    BY <1>2, <1>3

(* Every log is a prefix of itself, and the empty one of each. *)
LEMMA PrefixReflexive ==
  ASSUME NEW S, NEW s \in Seq(S)
  PROVE  IsPrefix(s, s) /\ IsPrefix(<<>>, s)
PROOF
  <1> DEFINE e == <<>>
  <1>1. e \in Seq(S) /\ Len(e) = 0 /\ Len(s) \in Nat
    OBVIOUS
  <1> HIDE DEF e
  <1>2. IsPrefix(s, s)
    BY <1>1, PrefixByElements
  <1>3. IsPrefix(e, s)
    <2>1. Len(e) <= Len(s) /\ \A i \in 1..Len(e) : e[i] = s[i]
      BY <1>1
    <2>2. QED
      BY <1>1, <2>1, PrefixByElements
  <1>4. QED
    BY <1>2, <1>3 DEF e

(* Being a prefix is transitive. *)
LEMMA PrefixTransitive ==
  ASSUME NEW S, NEW s \in Seq(S), NEW t \in Seq(S), NEW u \in Seq(S),
         IsPrefix(s, t), IsPrefix(t, u)
  PROVE  IsPrefix(s, u)
PROOF
  <1>1. Len(s) \in Nat /\ Len(t) \in Nat /\ Len(u) \in Nat
    OBVIOUS
  <1>2. Len(s) <= Len(t) /\ \A i \in 1..Len(s) : s[i] = t[i]
    BY PrefixByElements
  <1>3. Len(t) <= Len(u) /\ \A i \in 1..Len(t) : t[i] = u[i]
    BY PrefixByElements
  <1>4. Len(s) <= Len(u) /\ \A i \in 1..Len(s) : s[i] = u[i]
    BY <1>1, <1>2, <1>3
  <1>5. QED
    BY <1>4, PrefixByElements

(* A log that grows keeps its prefixes. *)
LEMMA PrefixAppend ==
  ASSUME NEW S, NEW s \in Seq(S), NEW t \in Seq(S), NEW x \in S, IsPrefix(s, t)
  PROVE  IsPrefix(s, Append(t, x))
PROOF
  <1>1. Append(t, x) \in Seq(S) /\ Len(Append(t, x)) = Len(t) + 1 /\ Len(t) \in Nat
    OBVIOUS
  <1>2. \A i \in 1..Len(t) : Append(t, x)[i] = t[i]
    OBVIOUS
  <1>3. Len(s) <= Len(t) /\ \A i \in 1..Len(s) : s[i] = t[i]
    BY PrefixByElements
  <1>4. Len(s) <= Len(Append(t, x)) /\ \A i \in 1..Len(s) : s[i] = Append(t, x)[i]
    BY <1>1, <1>2, <1>3
  <1>5. QED
    BY <1>1, <1>4, PrefixByElements

-----------------------------------------------------------------------------
(* What recovery makes of a journal and a checkpoint                       *)

(* The snapshot that a replay starts from *)
Base(checkpoint) == IF checkpoint = Absent THEN DefaultSnapshot ELSE checkpoint

(* A checkpoint is a snapshot or missing. *)
Checkpoints == Snapshot \cup {Absent}

(* A replay starts from a snapshot. *)
LEMMA BaseIsSnapshot ==
  ASSUME NEW c \in Checkpoints
  PROVE  Base(c) \in Snapshot
PROOF
  <1>1. DefaultSnapshot \in Snapshot
    BY DEF DefaultSnapshot, Snapshot
  <1>2. QED
    BY <1>1 DEF Base, Checkpoints

(* One line more: a snapshot again, that has not gone back, and not behind the line. *)
LEMMA ReplayAdvances ==
  ASSUME NEW s \in Snapshot, NEW line \in Line
  PROVE  /\ Replay(s, line) \in Snapshot
         /\ IsPrefix(s.log, Replay(s, line).log)
         /\ s.sequence <= Replay(s, line).sequence
         /\ line.record # Absent => line.record.sequence <= Replay(s, line).sequence
PROOF
  <1>1. s.sequence \in Nat /\ s.log \in Seq(1..MaxAttempts) /\ IsPrefix(s.log, s.log)
    <2>1. s.sequence \in Nat /\ s.log \in Seq(1..MaxAttempts)
      BY DEF Snapshot
    <2>2. QED
      BY <2>1, PrefixReflexive
  <1>2. CASE line.record # Absent /\ line.record.sequence > s.sequence
    <2>1. line.record \in CommitRecord
      BY <1>2 DEF Line
    <2>2. line.record.sequence \in Nat /\ line.record.id \in 1..MaxAttempts
      BY <2>1 DEF CommitRecord
    <2>3. Replay(s, line) = [sequence |-> line.record.sequence, log |-> Append(s.log, line.record.id)]
      BY <1>2 DEF Replay, apply_commit_with_key
    <2>4. Replay(s, line) \in Snapshot
      BY <1>1, <2>2, <2>3 DEF Snapshot
    <2>5. IsPrefix(s.log, Append(s.log, line.record.id))
      BY <1>1, <2>2, PrefixAppend
    <2>6. QED
      BY <1>1, <1>2, <2>2, <2>3, <2>4, <2>5
  <1>3. CASE ~(line.record # Absent /\ line.record.sequence > s.sequence)
    <2>1. Replay(s, line) = s
      BY <1>3 DEF Replay
    <2>2. line.record # Absent => line.record.sequence \in Nat
      BY DEF Line, CommitRecord
    <2>3. QED
      BY <1>1, <1>3, <2>1, <2>2
  <1>4. QED
    BY <1>2, <1>3

(* Recovery never goes behind the checkpoint or a line of the journal, and *)
(* keeps what the checkpoint reflects; a checkpoint no line is newer than  *)
(* is what it gives.                                                       *)
LEMMA RecoveredFacts ==
  ASSUME NEW lines \in Seq(Line), NEW c \in Checkpoints
  PROVE  /\ Recovered(lines, c) \in Snapshot
         /\ IsPrefix(Base(c).log, Recovered(lines, c).log)
         /\ Base(c).sequence <= Recovered(lines, c).sequence
         /\ \A j \in 1..Len(lines) :
              lines[j].record # Absent
              => lines[j].record.sequence <= Recovered(lines, c).sequence
         /\ (\A j \in 1..Len(lines) :
               lines[j].record # Absent => lines[j].record.sequence <= Base(c).sequence)
            => Recovered(lines, c) = Base(c)
PROOF
  <1> DEFINE r == ReplayOf(lines, Base(c))
             n == Len(lines)
             Old == \A j \in 1..n :
                      lines[j].record # Absent => lines[j].record.sequence <= Base(c).sequence
             P(i) == /\ r[i] \in Snapshot
                     /\ IsPrefix(Base(c).log, r[i].log)
                     /\ Base(c).sequence <= r[i].sequence
                     /\ \A j \in 1..i : lines[j].record # Absent
                                        => lines[j].record.sequence <= r[i].sequence
                     /\ Old => r[i] = Base(c)
             S == {i \in 0..n : P(i)}
  <1>1. n \in Nat /\ Base(c) \in Snapshot
    BY BaseIsSnapshot
  <1>2. Base(c).sequence \in Nat /\ Base(c).log \in Seq(1..MaxAttempts)
    BY <1>1 DEF Snapshot
  <1>3. r[0] = Base(c) /\ \A i \in 1..n : r[i] = Replay(r[i - 1], lines[i])
    BY ReplayOfReplays DEF Replays
  <1>4. Recovered(lines, c) = r[n]
    BY DEF Recovered, Base
  <1> HIDE DEF r
  <1>5. 0 \in S
    <2>1. IsPrefix(Base(c).log, Base(c).log)
      BY <1>2, PrefixReflexive
    <2>2. QED
      BY <1>1, <1>2, <1>3, <2>1
  <1>6. ASSUME NEW i \in 1..n, i - 1 \in S PROVE i \in S
    <2> DEFINE s == r[i - 1]
               line == lines[i]
    <2>1. P(i - 1) /\ i \in 0..n /\ i - 1 \in Nat
      BY <1>1, <1>6
    <2>2. line \in Line
      BY <1>1
    <2>3. s \in Snapshot /\ r[i] = Replay(s, line)
      BY <1>3, <2>1
    <2> HIDE DEF s, line
    <2>4. /\ r[i] \in Snapshot
          /\ IsPrefix(s.log, r[i].log)
          /\ s.sequence <= r[i].sequence
          /\ line.record # Absent => line.record.sequence <= r[i].sequence
      BY <2>2, <2>3, ReplayAdvances
    <2>5. s.sequence \in Nat /\ s.log \in Seq(1..MaxAttempts)
          /\ r[i].sequence \in Nat /\ r[i].log \in Seq(1..MaxAttempts)
      BY <2>3, <2>4 DEF Snapshot
    <2>6. IsPrefix(Base(c).log, s.log) /\ Base(c).sequence <= s.sequence
      BY <2>1 DEF s
    <2>7. IsPrefix(Base(c).log, r[i].log)
      BY <1>2, <2>4, <2>5, <2>6, PrefixTransitive
    <2>8. ASSUME NEW j \in 1..i, lines[j].record # Absent
          PROVE  lines[j].record.sequence <= r[i].sequence
      <3>1. CASE j = i
        BY <2>4, <2>8, <3>1 DEF line
      <3>2. CASE j # i
        <4>1. j \in 1..(i - 1) /\ j \in 1..n
          BY <1>1, <3>2
        <4>2. lines[j].record.sequence <= s.sequence
          BY <2>1, <2>8, <4>1 DEF s
        <4>3. lines[j].record.sequence \in Nat
          <5>1. lines[j] \in Line
            BY <4>1
          <5>2. QED
            BY <2>8, <5>1 DEF Line, CommitRecord
        <4>4. QED
          BY <2>4, <2>5, <4>2, <4>3
      <3>3. QED
        BY <3>1, <3>2
    <2>9. ASSUME Old PROVE r[i] = Base(c)
      <3>1. s = Base(c)
        BY <2>1, <2>9 DEF s
      <3>2. line.record # Absent => line.record.sequence <= s.sequence
        BY <2>9, <3>1 DEF line
      <3>3. line.record # Absent => line.record.sequence \in Nat
        BY <2>2 DEF Line, CommitRecord
      <3>4. Replay(s, line) = s
        BY <2>5, <3>2, <3>3 DEF Replay
      <3>5. QED
        BY <2>3, <3>1, <3>4
    <2>10. Base(c).sequence <= r[i].sequence
      BY <1>2, <2>4, <2>5, <2>6
    <2>11. P(i)
      BY <2>4, <2>7, <2>8, <2>9, <2>10
    <2>12. QED
      BY <2>1, <2>11
  <1>7. 0..n \subseteq S
    <2> HIDE DEF S, n
    <2>1. QED
      BY <1>1, <1>5, <1>6, FiniteInduction
  <1>8. P(n)
    BY <1>1, <1>7
  <1>9. QED
    BY <1>4, <1>8

(* An empty journal leaves the checkpoint. *)
LEMMA NothingToReplay ==
  ASSUME NEW c
  PROVE  Recovered(<<>>, c) = Base(c)
PROOF
  <1> DEFINE e == <<>>
  <1>1. e \in Seq(Line) /\ Len(e) = 0
    OBVIOUS
  <1> HIDE DEF e
  <1>2. ReplayOf(e, Base(c))[0] = Base(c)
    BY <1>1, ReplayOfReplays DEF Replays
  <1>3. Recovered(e, c) = Base(c)
    BY <1>1, <1>2 DEF Recovered, Base
  <1>4. QED
    BY <1>3 DEF e

(* A line more is one step of the replay more. *)
LEMMA OneLineMore ==
  ASSUME NEW lines \in Seq(Line), NEW line \in Line, NEW c
  PROVE  Recovered(Append(lines, line), c) = Replay(Recovered(lines, c), line)
PROOF
  <1> DEFINE more == Append(lines, line)
             n == Len(lines)
             f == ReplayOf(lines, Base(c))
             g == ReplayOf(more, Base(c))
             S == {i \in 0..n : g[i] = f[i]}
  <1>1. n \in Nat /\ more \in Seq(Line) /\ Len(more) = n + 1 /\ more[n + 1] = line
        /\ \A i \in 1..n : more[i] = lines[i]
    OBVIOUS
  <1> HIDE DEF more
  <1>2. f[0] = Base(c) /\ \A i \in 1..n : f[i] = Replay(f[i - 1], lines[i])
    BY ReplayOfReplays DEF Replays
  <1>3. g[0] = Base(c) /\ \A i \in 1..(n + 1) : g[i] = Replay(g[i - 1], more[i])
    <2>1. Replays(g, more, Base(c), Len(more))
      BY <1>1, ReplayOfReplays
    <2>2. QED
      BY <1>1, <2>1 DEF Replays
  <1>4. Recovered(lines, c) = f[n] /\ Recovered(more, c) = g[n + 1]
    BY <1>1 DEF Recovered, Base
  <1> HIDE DEF f, g
  <1>5. 0 \in S
    BY <1>1, <1>2, <1>3
  <1>6. ASSUME NEW i \in 1..n, i - 1 \in S PROVE i \in S
    <2>1. i \in 1..(n + 1) /\ i \in 0..n /\ g[i - 1] = f[i - 1]
      BY <1>1, <1>6
    <2>2. g[i] = Replay(g[i - 1], more[i]) /\ f[i] = Replay(f[i - 1], lines[i])
      BY <1>2, <1>3, <2>1
    <2>3. more[i] = lines[i]
      BY <1>1
    <2>4. QED
      BY <2>1, <2>2, <2>3
  <1>7. 0..n \subseteq S
    <2> HIDE DEF S, n
    <2>1. QED
      BY <1>1, <1>5, <1>6, FiniteInduction
  <1>8. g[n] = f[n]
    BY <1>1, <1>7
  <1>9. g[n + 1] = Replay(g[n], line)
    <2>1. n + 1 \in 1..(n + 1) /\ (n + 1) - 1 = n
      BY <1>1
    <2>2. QED
      BY <1>1, <1>3, <2>1
  <1>10. QED
    BY <1>4, <1>8, <1>9 DEF more

-----------------------------------------------------------------------------
(* The files                                                               *)

(* Only the last line can lack its newline. *)
Ended(lines) == \A i \in 1..(Len(lines) - 1) : lines[i].newline

(* An append leaves a journal. *)
LEMMA AppendedIsJournal ==
  ASSUME NEW lines \in Seq(Line), NEW line \in Line, Ended(lines)
  PROVE  Appended(lines, line) \in Seq(Line) /\ Ended(Appended(lines, line))
PROOF
  <1>1. Len(lines) \in Nat /\ line.newline \in BOOLEAN
    BY DEF Line
  <1>2. CASE lines # <<>> /\ ~Last(lines).newline
    <2> DEFINE front == Front(lines)
               cut == [record |-> Absent, newline |-> line.newline]
    <2>1. cut \in Line
      BY <1>1 DEF Line
    <2>2. front \in Seq(Line) /\ Len(front) = Len(lines) - 1
          /\ \A i \in 1..Len(front) : front[i] = lines[i]
      <3>1. Len(lines) >= 1 /\ front = SubSeq(lines, 1, Len(lines) - 1)
        BY <1>1, <1>2 DEF Front
      <3> DEFINE k == Len(lines) - 1
      <3>2. k \in Nat /\ k <= Len(lines) /\ front = SubSeq(lines, 1, k)
        BY <1>1, <3>1
      <3> HIDE DEF front, k
      <3>3. Len(front) = k /\ \A i \in 1..k : front[i] = lines[i]
        BY <1>1, <3>2
      <3>4. front = [i \in 1..k |-> lines[i]]
        BY <1>1, <3>2
      <3>5. \A i \in 1..k : lines[i] \in Line
        BY <1>1, <3>2
      <3>6. front \in Seq(Line)
        BY <3>2, <3>4, <3>5
      <3>7. QED
        BY <3>3, <3>6 DEF k
    <2>3. Appended(lines, line) = Append(front, cut)
      BY <1>2 DEF Appended
    <2> HIDE DEF front, cut
    <2>4. \A i \in 1..Len(front) : Append(front, cut)[i].newline
      BY <2>2 DEF Ended
    <2>5. QED
      BY <2>1, <2>2, <2>3, <2>4 DEF Ended
  <1>3. CASE ~(lines # <<>> /\ ~Last(lines).newline)
    <2>1. Appended(lines, line) = Append(lines, line)
      BY <1>3 DEF Appended
    <2>2. \A i \in 1..Len(lines) : lines[i].newline
      BY <1>1, <1>3 DEF Ended, Last
    <2>3. \A i \in 1..Len(lines) : Append(lines, line)[i].newline
      BY <2>2
    <2>4. QED
      BY <2>1, <2>3 DEF Ended
  <1>4. QED
    BY <1>2, <1>3

(* A journal that is whole stays so, one line longer. *)
LEMMA AppendedWhole ==
  ASSUME NEW lines \in Seq(Line), NEW line \in Line, Whole(lines),
         line.record # Absent, line.newline
  PROVE  Appended(lines, line) = Append(lines, line) /\ Whole(Append(lines, line))
PROOF
  <1>1. Len(lines) \in Nat
    OBVIOUS
  <1>2. lines # <<>> => Last(lines).newline
    BY <1>1 DEF Last, Whole
  <1>3. Whole(Append(lines, line))
    <2>1. ASSUME NEW i \in DOMAIN Append(lines, line)
          PROVE  Append(lines, line)[i].record # Absent /\ Append(lines, line)[i].newline
      <3>1. CASE i \in DOMAIN lines
        BY <3>1 DEF Whole
      <3>2. CASE i \notin DOMAIN lines
        BY <1>1, <3>2
      <3>3. QED
        BY <3>1, <3>2
    <2>2. QED
      BY <2>1 DEF Whole
  <1>4. QED
    BY <1>2, <1>3 DEF Appended

(* What a start will read is a journal and a checkpoint. *)
LEMMA FilesTyped ==
  ASSUME JournalTypes
  PROVE  /\ journal \in Seq(Line) /\ Ended(journal) /\ ckpt \in Checkpoints
         /\ JournalRow \in Seq(Line) /\ Ended(JournalRow)
         /\ RestoredJournal \in Seq(Line) /\ Ended(RestoredJournal)
         /\ RestoredCheckpoint \in Checkpoints
         /\ NextJournal \in Seq(Line) /\ NextCheckpoint \in Checkpoints
PROOF
  <1>1. journal \in Seq(Line) /\ Ended(journal) /\ ckpt \in Checkpoints
        /\ rows.ckpt \in Checkpoints
    BY DEF JournalTypes, JournalTypeOK, Ended, Checkpoints
  <1>2. JournalRow \in Seq(Line) /\ Ended(JournalRow)
    <2>1. CASE rows.journal = Absent
      <3>1. JournalRow = <<>>
        BY <2>1 DEF JournalRow
      <3>2. QED
        BY <3>1 DEF Ended
    <2>2. CASE rows.journal # Absent
      BY <2>2 DEF JournalRow, JournalTypes, JournalTypeOK, Ended
    <2>3. QED
      BY <2>1, <2>2
  <1>3. QED
    BY <1>1, <1>2 DEF RestoredJournal, RestoredCheckpoint, NextJournal, NextCheckpoint

(* Every line of a journal is one. *)
LEMMA RecordsTyped ==
  ASSUME NEW lines \in Seq(Line)
  PROVE  \A i \in DOMAIN lines :
           lines[i].record # Absent
           => lines[i].record \in CommitRecord /\ lines[i].record.sequence \in Nat
PROOF
  <1>1. ASSUME NEW i \in DOMAIN lines, lines[i].record # Absent
        PROVE  lines[i].record \in CommitRecord /\ lines[i].record.sequence \in Nat
    <2>1. lines[i] \in Line
      OBVIOUS
    <2>2. QED
      BY <1>1, <2>1 DEF Line, CommitRecord
  <1>2. QED
    BY <1>1

-----------------------------------------------------------------------------
(* What each step does                                                     *)

(* The line of the commit in flight *)
FlightLine == [record |-> InFlight, newline |-> TRUE]

(* The commit in flight leads from the snapshot to next_snapshot. *)
LEMMA FlightFacts ==
  ASSUME JInv, pc \in Running \ {"idle"}
  PROVE  /\ snapshot \in Snapshot /\ next_snapshot \in Snapshot
         /\ snapshot.sequence \in Nat /\ snapshot.log \in Logs /\ next_snapshot.log \in Logs
         /\ next_snapshot = [sequence |-> snapshot.sequence + 1, log |-> Append(snapshot.log, attempts)]
         /\ attempts \in 1..MaxAttempts
         /\ InFlight \in CommitRecord /\ InFlight # Absent
         /\ InFlight.sequence = snapshot.sequence + 1
         /\ FlightLine \in Line /\ FlightLine.record = InFlight /\ FlightLine.newline
         /\ next_snapshot # Absent /\ next_snapshot \in Checkpoints
         /\ Base(next_snapshot) = next_snapshot
         /\ \A l \in Logs : IsPrefix(l, snapshot.log) => IsPrefix(l, next_snapshot.log)
PROOF
  <1>1. snapshot \in Snapshot /\ next_snapshot \in Snapshot /\ attempts \in 1..MaxAttempts
        /\ next_snapshot = apply_commit_with_key(snapshot, InFlight)
        /\ next_snapshot.sequence = snapshot.sequence + 1
    BY DEF JInv, JournalTypes, JournalTypeOK, FlightInv
  <1>2. snapshot.sequence \in Nat /\ snapshot.log \in Logs /\ next_snapshot.log \in Logs
    BY <1>1 DEF Snapshot, Logs
  <1>3. InFlight \in CommitRecord /\ InFlight.sequence = snapshot.sequence + 1
        /\ InFlight.id = attempts
    BY <1>1, <1>2 DEF InFlight, CommitRecord
  <1>4. next_snapshot = [sequence |-> snapshot.sequence + 1, log |-> Append(snapshot.log, attempts)]
    BY <1>1, <1>3 DEF apply_commit_with_key
  <1>5. InFlight # Absent /\ next_snapshot # Absent
    BY <1>1, <1>3, JournalAssumption
  <1>6. FlightLine \in Line /\ FlightLine.record = InFlight /\ FlightLine.newline
    BY <1>3 DEF FlightLine, Line
  <1>7. ASSUME NEW l \in Logs, IsPrefix(l, snapshot.log) PROVE IsPrefix(l, next_snapshot.log)
    <2>1. l \in Seq(1..MaxAttempts) /\ snapshot.log \in Seq(1..MaxAttempts)
      BY <1>2 DEF Logs
    <2>2. IsPrefix(l, Append(snapshot.log, attempts))
      BY <1>1, <1>7, <2>1, PrefixAppend
    <2>3. QED
      BY <1>4, <2>2
  <1>8. QED
    BY <1>1, <1>2, <1>3, <1>4, <1>5, <1>6, <1>7 DEF Checkpoints, Base

(* The line of the commit in flight makes next_snapshot of the snapshot,    *)
(* and changes nothing where it has been replayed already.                  *)
LEMMA FlightReplay ==
  ASSUME JInv, Clean, pc = "append_commit", NEW c \in Checkpoints
  PROVE  /\ Appended(journal, FlightLine) = Append(journal, FlightLine)
         /\ Whole(Append(journal, FlightLine)) /\ Within(Append(journal, FlightLine))
         /\ Settles(journal, c) => Settles(Append(journal, FlightLine), c)
         /\ Recovered(journal, c) = snapshot
            => Recovered(Append(journal, FlightLine), c) = next_snapshot
PROOF
  <1>1. /\ journal \in Seq(Line) /\ FlightLine \in Line /\ Whole(journal) /\ Within(journal)
        /\ FlightLine.record = InFlight /\ InFlight # Absent /\ FlightLine.newline
        /\ snapshot.sequence \in Nat /\ InFlight.sequence = snapshot.sequence + 1
        /\ TriesInv /\ pc \in Running \ {"idle"} /\ snapshot.log \in Logs
        /\ next_snapshot = apply_commit_with_key(snapshot, InFlight) /\ next_snapshot.log \in tries
        /\ next_snapshot = [sequence |-> snapshot.sequence + 1, log |-> Append(snapshot.log, attempts)]
        /\ attempts \in 1..MaxAttempts
    <2>1. pc \in Running \ {"idle"}
      BY DEF Running
    <2>2. /\ Whole(journal) /\ Within(journal) /\ TriesInv
          /\ next_snapshot = apply_commit_with_key(snapshot, InFlight)
          /\ next_snapshot.log \in tries
      BY <2>1 DEF JInv, SettleInv, FlightInv
    <2>3. journal \in Seq(Line)
      BY FilesTyped DEF JInv
    <2>4. QED
      BY <2>1, <2>2, <2>3, FlightFacts
  <1>2. Appended(journal, FlightLine) = Append(journal, FlightLine)
        /\ Whole(Append(journal, FlightLine))
    BY <1>1, AppendedWhole
  <1>3. Within(Append(journal, FlightLine))
    <2>1. ASSUME NEW i \in DOMAIN Append(journal, FlightLine)
          PROVE  Append(journal, FlightLine)[i].record.sequence <= snapshot.sequence + 1
      <3>1. CASE i \in DOMAIN journal
        BY <1>1, <3>1 DEF Within
      <3>2. CASE i \notin DOMAIN journal
        <4>1. Append(journal, FlightLine)[i] = FlightLine
          BY <1>1, <3>2
        <4>2. QED
          BY <1>1, <4>1
      <3>3. QED
        BY <3>1, <3>2
    <2>2. QED
      BY <2>1 DEF Within
  <1>4. Recovered(Append(journal, FlightLine), c) = Replay(Recovered(journal, c), FlightLine)
    BY <1>1, OneLineMore
  <1>5. Replay(snapshot, FlightLine) = next_snapshot
    BY <1>1 DEF Replay
  <1>6. ASSUME Settles(journal, c) PROVE Settles(Append(journal, FlightLine), c)
    <2>1. PICK l \in tries : Recovered(journal, c) = Snap(l)
      BY <1>6 DEF Settles
    <2>2. CASE l = snapshot.log
      <3>1. Recovered(Append(journal, FlightLine), c) = next_snapshot
        BY <1>1, <1>4, <1>5, <2>1, <2>2 DEF TriesInv
      <3>2. next_snapshot = Snap(next_snapshot.log)
        <4>1. snapshot.sequence = Len(snapshot.log)
          BY <1>1 DEF TriesInv, Snap
        <4>2. Len(Append(snapshot.log, attempts)) = Len(snapshot.log) + 1
          BY <1>1 DEF Logs
        <4>3. QED
          BY <1>1, <4>1, <4>2 DEF Snap
      <3>3. QED
        BY <1>1, <3>1, <3>2 DEF Settles
    <2>3. CASE l # snapshot.log
      <3>1. PICK id \in 1..MaxAttempts : l = Append(snapshot.log, id)
        BY <1>1, <2>3 DEF TriesInv
      <3>2. Snap(l).sequence = snapshot.sequence + 1
        <4>1. snapshot.sequence = Len(snapshot.log)
          BY <1>1 DEF TriesInv, Snap
        <4>2. Len(l) = Len(snapshot.log) + 1
          BY <1>1, <3>1 DEF Logs
        <4>3. QED
          BY <4>1, <4>2 DEF Snap
      <3>3. Replay(Snap(l), FlightLine) = Snap(l)
        BY <1>1, <3>2 DEF Replay
      <3>4. QED
        BY <1>4, <2>1, <3>3 DEF Settles
    <2>4. QED
      BY <2>2, <2>3
  <1>7. QED
    BY <1>2, <1>3, <1>4, <1>5, <1>6

(* A commit begins. *)
LEMMA BeginKeeps ==
  ASSUME JInv, begin_commit, UNCHANGED faulty
  PROVE  JInv'
PROOF
  <1> DEFINE record == [sequence |-> snapshot.sequence + 1, id |-> attempts + 1]
  <1>1. /\ pc = "idle" /\ pc' = "append_commit" /\ attempts < MaxAttempts
        /\ attempts' = attempts + 1
        /\ next_snapshot' = apply_commit_with_key(snapshot, record)
        /\ tries' = tries \cup {next_snapshot'.log}
        /\ UNCHANGED <<snapshot, journal, ckpt, mirrored, rows, ackedLog, faulty>>
    BY DEF begin_commit, files
  <1>2. /\ JournalTypes /\ snapshot \in Snapshot /\ attempts \in 0..MaxAttempts
        /\ MaxAttempts \in Nat
    BY JournalAssumption DEF JInv, JournalTypes, JournalTypeOK
  <1>3. snapshot.sequence \in Nat /\ snapshot.log \in Logs /\ attempts' \in 1..MaxAttempts
    BY <1>1, <1>2 DEF Snapshot, Logs
  <1>4. next_snapshot' = [sequence |-> snapshot.sequence + 1, log |-> Append(snapshot.log, attempts')]
    BY <1>1 DEF apply_commit_with_key
  <1>5. next_snapshot' \in Snapshot /\ next_snapshot'.log \in Logs
    BY <1>3, <1>4 DEF Snapshot, Logs
  <1>6. InFlight' = record /\ next_snapshot'.sequence = snapshot.sequence + 1
        /\ next_snapshot'.log = Append(snapshot.log, attempts')
    BY <1>1, <1>4 DEF InFlight
  <1>7. pc \in Running /\ pc' \in Running /\ pc \notin Importing /\ pc' \notin Importing
    BY <1>1 DEF Running, Importing
  <1>8. /\ RestoredJournal' = RestoredJournal /\ RestoredCheckpoint' = RestoredCheckpoint
        /\ NextJournal' = NextJournal /\ NextCheckpoint' = NextCheckpoint
    BY <1>1, <1>7 DEF RestoredJournal, RestoredCheckpoint, JournalRow, NextJournal, NextCheckpoint
  <1>9. JournalTypes'
    BY <1>1, <1>2, <1>3, <1>5, <1>7 DEF JournalTypes, JournalTypeOK
  <1>10. MirrorInv'
    BY <1>1, <1>7 DEF JInv, MirrorInv
  <1>11. FlightInv'
    BY <1>1, <1>3, <1>6 DEF FlightInv
  <1>12. ASSUME Clean PROVE TriesInv' /\ SettleInv'
    <2>1. TriesInv /\ SettleInv
      BY <1>12 DEF JInv
    <2>2. TriesInv'
      BY <1>1, <1>3, <1>6, <2>1 DEF TriesInv
    <2>3. \A lines, c : Settles(lines, c) => Settles(lines, c)'
      BY <1>1 DEF Settles
    <2>4. SettleInv'
      BY <1>1, <1>7, <1>8, <2>1, <2>3 DEF SettleInv, Settles, Within
    <2>5. QED
      BY <2>2, <2>4
  <1>13. LossInv'
    BY <1>1 DEF JInv, LossInv, Running
  <1>14. AckedInv'
    <2>1. pc' \in Running => IsPrefix(ackedLog, snapshot.log)'
      BY <1>1, <1>7 DEF JInv, AckedInv
    <2>2. ASSUME Clean, NEW l \in tries' PROVE IsPrefix(ackedLog, l)'
      <3>1. CASE l \in tries
        BY <1>1, <2>2, <3>1 DEF JInv, AckedInv
      <3>2. CASE l = next_snapshot'.log
        <4>1. IsPrefix(ackedLog, snapshot.log) /\ ackedLog \in Logs
          BY <1>2, <1>7 DEF JInv, AckedInv, JournalTypes
        <4>2. IsPrefix(ackedLog, Append(snapshot.log, attempts'))
          BY <1>3, <4>1, PrefixAppend DEF Logs
        <4>3. QED
          BY <1>1, <1>6, <3>2, <4>2
      <3>3. QED
        BY <1>1, <2>2, <3>1, <3>2
    <2>3. ("checkpoint_loss" \notin faulty /\ ackedLog # <<>> =>
             NextCheckpoint # Absent /\ IsPrefix(ackedLog, NextCheckpoint.log))'
      BY <1>1, <1>8 DEF JInv, AckedInv
    <2>4. QED
      BY <1>1, <2>1, <2>2, <2>3 DEF AckedInv, Clean
  <1>15. QED
    BY <1>1, <1>9, <1>10, <1>11, <1>12, <1>13, <1>14 DEF JInv, Clean

(* The record of the commit is written, whatever becomes of the call. *)
RecordWritten(to) ==
    /\ pc = "append_commit"
    /\ journal' = Appended(journal, FlightLine)
    /\ pc' = to
    /\ UNCHANGED <<snapshot, next_snapshot, ckpt, mirrored, rows, attempts, tries, ackedLog,
                   faulty>>

(* What a start will find in the files while the process runs. *)
LEMMA RunningReads ==
  ASSUME JInv, pc \in Running
  PROVE  /\ NextJournal = RestoredJournal /\ NextCheckpoint = RestoredCheckpoint
         /\ mirrored => rows # NoRows /\ RestoredJournal = JournalRow
                        /\ RestoredCheckpoint = rows.ckpt
         /\ ~mirrored => rows = NoRows /\ RestoredJournal = journal
                         /\ RestoredCheckpoint = ckpt
PROOF
  <1>1. pc \notin Importing
    BY DEF Running, Importing
  <1>2. (mirrored => rows # NoRows) /\ (~mirrored => rows = NoRows)
    BY DEF JInv, MirrorInv
  <1>3. QED
    BY <1>1, <1>2 DEF NextJournal, NextCheckpoint, RestoredJournal, RestoredCheckpoint

(* No step fails and no write is torn where the checkpoint may be lost, and *)
(* no import is cut off where the installation may move.                    *)
LEMMA FaultsApart ==
  ASSUME JournalTypes, FaultsSurvivable
  PROVE  /\ "checkpoint_loss" \in faulty => Clean /\ "step_error" \notin faulty
         /\ "cut_import" \in faulty => "migration" \notin faulty
  BY DEF JournalTypes, FaultsSurvivable, Survivable, Clean

(* A written record keeps the invariant. *)
LEMMA RecordWrittenKeeps ==
  ASSUME JInv, FaultsSurvivable, NEW to \in {"idle", "sync_journal"}, RecordWritten(to),
         to = "idle" => "step_error" \in faulty
  PROVE  JInv'
PROOF
  <1>1. /\ pc = "append_commit" /\ pc' = to /\ journal' = Appended(journal, FlightLine)
        /\ pc \in Running \ {"idle"} /\ pc \in Running /\ pc' \in Running
        /\ pc \notin Importing /\ pc' \notin Importing
        /\ pc' # "sync_checkpoint"
        /\ UNCHANGED <<snapshot, next_snapshot, ckpt, mirrored, rows, attempts, tries,
                       ackedLog, faulty>>
    BY DEF RecordWritten, Running, Importing
  <1>2. /\ journal \in Seq(Line) /\ Ended(journal) /\ FlightLine \in Line
        /\ ckpt \in Checkpoints /\ RestoredCheckpoint \in Checkpoints /\ JournalTypes
    BY <1>1, FilesTyped, FlightFacts DEF JInv
  <1>3. journal' \in Seq(Line) /\ Ended(journal')
    BY <1>1, <1>2, AppendedIsJournal
  <1>4. /\ RestoredCheckpoint' = RestoredCheckpoint /\ NextCheckpoint' = NextCheckpoint
        /\ NextJournal' = RestoredJournal' /\ NextCheckpoint = RestoredCheckpoint
        /\ NextJournal = RestoredJournal
    BY <1>1 DEF RestoredJournal, RestoredCheckpoint, NextJournal, NextCheckpoint
  <1>5. /\ mirrored => RestoredJournal' = RestoredJournal
        /\ ~mirrored => RestoredJournal' = journal' /\ RestoredJournal = journal
        /\ RestoredCheckpoint = IF mirrored THEN rows.ckpt ELSE ckpt
    <2>1. mirrored => rows # NoRows
      BY <1>1 DEF JInv, MirrorInv
    <2>2. QED
      BY <1>1, <2>1 DEF RestoredJournal, RestoredCheckpoint, JournalRow
  <1>6. JournalTypes'
    BY <1>1, <1>2, <1>3 DEF JournalTypes, JournalTypeOK, Ended
  <1>7. MirrorInv'
    BY <1>1 DEF JInv, MirrorInv
  <1>8. FlightInv'
    BY <1>1 DEF JInv, FlightInv, InFlight, Running
  <1>9. ASSUME Clean
        PROVE  /\ journal' = Append(journal, FlightLine) /\ Whole(journal') /\ Within(journal')
               /\ \A c \in Checkpoints :
                    /\ Settles(journal, c) => Settles(journal', c)
                    /\ Recovered(journal, c) = snapshot => Recovered(journal', c) = next_snapshot
    <2>1. /\ journal' = Append(journal, FlightLine)
          /\ Whole(Append(journal, FlightLine)) /\ Within(Append(journal, FlightLine))
      BY <1>1, <1>2, <1>9, FlightReplay
    <2>2. ASSUME NEW c \in Checkpoints
          PROVE  /\ Settles(journal, c) => Settles(Append(journal, FlightLine), c)
                 /\ Recovered(journal, c) = snapshot
                    => Recovered(Append(journal, FlightLine), c) = next_snapshot
      BY <1>1, <1>9, FlightReplay
    <2>3. QED
      BY <2>1, <2>2
  <1>10. ASSUME Clean PROVE TriesInv' /\ SettleInv'
    <2>1. TriesInv /\ SettleInv
      BY <1>10 DEF JInv
    <2>2. TriesInv'
      BY <1>1, <2>1 DEF TriesInv
    <2>3. Settles(journal', RestoredCheckpoint)
      BY <1>1, <1>2, <1>9, <1>10, <2>1 DEF SettleInv
    <2>4. Settles(RestoredJournal', RestoredCheckpoint)
      BY <1>1, <1>4, <1>5, <2>1, <2>3 DEF SettleInv
    <2>5. Whole(RestoredJournal') /\ Within(RestoredJournal')
      BY <1>1, <1>5, <1>9, <1>10, <2>1 DEF SettleInv
    <2>6. \A lines, c : (Settles(lines, c) => Settles(lines, c)')
      BY <1>1 DEF Settles
    <2>7. QED
      BY <1>1, <1>4, <1>9, <1>10, <2>2, <2>3, <2>4, <2>5 DEF SettleInv, Settles, Within
  <1>11. LossInv'
    <2>1. SUFFICES ASSUME "checkpoint_loss" \in faulty, rows = NoRows
                   PROVE  /\ Recovered(journal', Absent) = Recovered(journal', ckpt)
                          /\ Recovered(journal', ckpt) = next_snapshot
      <3>1. "checkpoint_loss" \in faulty => to # "idle"
        BY <1>2, FaultsApart
      <3>2. QED
        BY <1>1, <3>1 DEF LossInv
    <2>2. Clean /\ Absent \in Checkpoints
      BY <1>2, <2>1, FaultsApart DEF Checkpoints
    <2>3. /\ Recovered(journal, Absent) = Recovered(journal, ckpt)
          /\ Recovered(journal, ckpt) = snapshot
      BY <1>1, <2>1 DEF JInv, LossInv
    <2>4. QED
      BY <1>2, <1>9, <2>2, <2>3
  <1>12. AckedInv'
    BY <1>1, <1>4 DEF JInv, AckedInv, Clean
  <1>13. QED
    BY <1>1, <1>6, <1>7, <1>8, <1>10, <1>11, <1>12 DEF JInv, Clean

(* A step fails and has no effect. *)
NoEffect ==
    /\ pc \in Running \ {"idle"}
    /\ "step_error" \in faulty
    /\ pc' = "idle"
    /\ UNCHANGED <<snapshot, next_snapshot, journal, ckpt, mirrored, rows, attempts, tries,
                   ackedLog, faulty>>

(* A step that fails without an effect keeps the invariant. *)
LEMMA FailureKeeps ==
  ASSUME JInv, FaultsSurvivable, NoEffect
  PROVE  JInv'
PROOF
  <1>1. /\ pc \in Running /\ pc' \in Running /\ pc' = "idle" /\ "checkpoint_loss" \notin faulty
        /\ pc \notin Importing /\ pc' \notin Importing
        /\ UNCHANGED <<snapshot, next_snapshot, journal, ckpt, mirrored, rows, attempts, tries,
                       ackedLog, faulty>>
    BY FaultsApart DEF NoEffect, JInv, Running, Importing
  <1>2. /\ RestoredJournal' = RestoredJournal /\ RestoredCheckpoint' = RestoredCheckpoint
        /\ NextJournal' = NextJournal /\ NextCheckpoint' = NextCheckpoint
    BY <1>1 DEF RestoredJournal, RestoredCheckpoint, JournalRow, NextJournal, NextCheckpoint
  <1>3. JournalTypes'
    BY <1>1 DEF JInv, JournalTypes, JournalTypeOK
  <1>4. MirrorInv'
    BY <1>1 DEF JInv, MirrorInv
  <1>5. FlightInv'
    BY <1>1 DEF FlightInv
  <1>6. Clean => TriesInv' /\ SettleInv'
    BY <1>1, <1>2 DEF JInv, TriesInv, SettleInv, Settles, Within
  <1>7. LossInv'
    BY <1>1 DEF LossInv
  <1>8. AckedInv'
    BY <1>1, <1>2 DEF JInv, AckedInv, Clean
  <1>9. QED
    BY <1>1, <1>3, <1>4, <1>5, <1>6, <1>7, <1>8 DEF JInv, Clean

(* The record of the commit is written. *)
LEMMA AppendKeeps ==
  ASSUME JInv, FaultsSurvivable, append_commit, UNCHANGED faulty
  PROVE  JInv'
PROOF
  <1>1. RecordWritten("sync_journal")
    BY DEF append_commit, RecordWritten, FlightLine
  <1>2. QED
    BY <1>1, RecordWrittenKeeps

(* The append fails: nothing, everything or a part has been written. *)
LEMMA AppendErrorKeeps ==
  ASSUME JInv, FaultsSurvivable, append_commit_error, UNCHANGED faulty
  PROVE  JInv'
PROOF
  <1>1. CASE UNCHANGED journal
    <2>1. NoEffect
      BY <1>1 DEF append_commit_error, NoEffect, Running
    <2>2. QED
      BY <2>1, FailureKeeps
  <1>2. CASE journal' = Appended(journal, FlightLine)
    <2>1. RecordWritten("idle") /\ "step_error" \in faulty
      BY <1>2 DEF append_commit_error, RecordWritten
    <2>2. QED
      BY <2>1, RecordWrittenKeeps
  <1>3. CASE /\ "torn_write" \in faulty
             /\ \E record \in {InFlight, Absent} :
                  journal' = Appended(journal, [record |-> record, newline |-> FALSE])
    <2>1. /\ pc = "append_commit" /\ pc' = "idle" /\ pc \in Running \ {"idle"}
          /\ pc \in Running /\ pc' \in Running /\ pc \notin Importing /\ pc' \notin Importing
          /\ ~Clean /\ "step_error" \in faulty
          /\ UNCHANGED <<snapshot, next_snapshot, ckpt, mirrored, rows, attempts, tries,
                         ackedLog, faulty>>
      BY <1>3 DEF append_commit_error, Clean, Running, Importing
    <2>2. JournalTypes /\ "checkpoint_loss" \notin faulty
      BY <2>1, FaultsApart DEF JInv
    <2>3. journal' \in Seq(Line) /\ Ended(journal')
      <3>1. PICK record \in {InFlight, Absent} :
               journal' = Appended(journal, [record |-> record, newline |-> FALSE])
        BY <1>3
      <3>2. InFlight \in CommitRecord
        BY <2>1, FlightFacts
      <3>3. [record |-> record, newline |-> FALSE] \in Line
        BY <3>2 DEF Line
      <3>4. journal \in Seq(Line) /\ Ended(journal)
        BY <2>2, FilesTyped
      <3>5. QED
        BY <3>1, <3>3, <3>4, AppendedIsJournal
    <2>4. RestoredCheckpoint' = RestoredCheckpoint /\ NextCheckpoint' = NextCheckpoint
      BY <2>1 DEF RestoredCheckpoint, NextCheckpoint
    <2>5. JournalTypes'
      BY <2>1, <2>2, <2>3 DEF JournalTypes, JournalTypeOK, Ended
    <2>6. MirrorInv'
      BY <2>1 DEF JInv, MirrorInv
    <2>7. FlightInv'
      BY <2>1 DEF FlightInv
    <2>8. LossInv'
      BY <2>1, <2>2 DEF LossInv
    <2>9. AckedInv'
      BY <2>1, <2>4 DEF JInv, AckedInv, Clean
    <2>10. QED
      BY <2>1, <2>5, <2>6, <2>7, <2>8, <2>9 DEF JInv, Clean
  <1>4. QED
    BY <1>1, <1>2, <1>3 DEF append_commit_error, FlightLine

(* The journal has reached the table, if it is used. *)
JournalCopied(to) ==
    /\ pc = "sync_journal"
    /\ rows' = IF mirrored THEN [rows EXCEPT !.journal = journal] ELSE rows
    /\ pc' = to
    /\ UNCHANGED <<snapshot, next_snapshot, journal, ckpt, mirrored, attempts, tries, ackedLog,
                   faulty>>

(* A copied journal keeps the invariant. *)
LEMMA JournalCopiedKeeps ==
  ASSUME JInv, FaultsSurvivable, NEW to \in {"idle", "write_checkpoint"}, JournalCopied(to),
         to = "idle" => "step_error" \in faulty
  PROVE  JInv'
PROOF
  <1>1. /\ pc = "sync_journal" /\ pc' = to /\ pc' # "sync_checkpoint"
        /\ pc \in Running \ {"idle"} /\ pc \in Running /\ pc' \in Running
        /\ pc \notin Importing /\ pc' \notin Importing
        /\ rows' = IF mirrored THEN [rows EXCEPT !.journal = journal] ELSE rows
        /\ UNCHANGED <<snapshot, next_snapshot, journal, ckpt, mirrored, attempts, tries,
                       ackedLog, faulty>>
    BY DEF JournalCopied, Running, Importing
  <1>2. /\ JournalTypes /\ journal \in Seq(Line) /\ Ended(journal) /\ journal # Absent
        /\ rows \in [other : BOOLEAN, ckpt : Checkpoints, journal : Seq(Line) \cup {Absent}]
    BY FilesTyped, JournalAssumption DEF JInv, JournalTypes, JournalTypeOK, Checkpoints
  <1>3. /\ mirrored => rows # NoRows /\ rows.other
        /\ ~mirrored => rows = NoRows
    BY <1>1 DEF JInv, MirrorInv
  <1>4. /\ rows' \in [other : BOOLEAN, ckpt : Checkpoints, journal : Seq(Line) \cup {Absent}]
        /\ mirrored => rows'.journal = journal /\ rows'.ckpt = rows.ckpt /\ rows'.other
        /\ ~mirrored => rows' = rows
    BY <1>1, <1>2, <1>3
  <1>5. mirrored => rows' # NoRows
    BY <1>2, <1>4 DEF NoRows
  <1>6. RestoredJournal' = journal /\ RestoredCheckpoint' = RestoredCheckpoint
    BY <1>1, <1>2, <1>3, <1>4, <1>5 DEF RestoredJournal, RestoredCheckpoint, JournalRow
  <1>7. NextJournal' = journal /\ NextCheckpoint' = NextCheckpoint
    BY <1>1, <1>6 DEF NextJournal, NextCheckpoint
  <1>8. JournalTypes'
    BY <1>1, <1>2, <1>4 DEF JournalTypes, JournalTypeOK, Ended, Checkpoints
  <1>9. MirrorInv'
    BY <1>1, <1>3, <1>4, <1>5 DEF MirrorInv
  <1>10. FlightInv'
    BY <1>1 DEF JInv, FlightInv, InFlight
  <1>11. Clean => TriesInv' /\ SettleInv'
    <2>1. SUFFICES ASSUME Clean PROVE TriesInv' /\ SettleInv'
      OBVIOUS
    <2>2. /\ TriesInv /\ Whole(journal) /\ Within(journal)
          /\ Settles(journal, RestoredCheckpoint)
      BY <1>1, <2>1 DEF JInv, SettleInv
    <2>3. TriesInv'
      BY <1>1, <2>2 DEF TriesInv
    <2>4. \A lines, c : (Settles(lines, c) => Settles(lines, c)')
      BY <1>1 DEF Settles
    <2>5. SettleInv'
      BY <1>1, <1>6, <1>7, <2>2, <2>4 DEF SettleInv, Settles, Within, NextCheckpoint
    <2>6. QED
      BY <2>3, <2>5
  <1>12. LossInv'
    <2>1. "checkpoint_loss" \in faulty => to # "idle"
      BY <1>2, FaultsApart
    <2>2. rows' = NoRows => rows = NoRows
      BY <1>4, <1>5
    <2>3. QED
      BY <1>1, <2>1, <2>2 DEF JInv, LossInv
  <1>13. AckedInv'
    BY <1>1, <1>7 DEF JInv, AckedInv, Clean
  <1>14. QED
    BY <1>1, <1>8, <1>9, <1>10, <1>11, <1>12, <1>13 DEF JInv, Clean

(* The journal is copied. *)
LEMMA SyncJournalKeeps ==
  ASSUME JInv, FaultsSurvivable, sync_journal, UNCHANGED faulty
  PROVE  JInv'
PROOF
  <1>1. JournalCopied("write_checkpoint")
    BY DEF sync_journal, JournalCopied, files
  <1>2. QED
    BY <1>1, JournalCopiedKeeps

(* Copying the journal fails. *)
LEMMA SyncJournalErrorKeeps ==
  ASSUME JInv, FaultsSurvivable, sync_journal_error, UNCHANGED faulty
  PROVE  JInv'
PROOF
  <1>1. CASE UNCHANGED rows
    <2>1. NoEffect
      BY <1>1 DEF sync_journal_error, NoEffect, Running, files
    <2>2. QED
      BY <2>1, FailureKeeps
  <1>2. CASE rows' = [rows EXCEPT !.journal = journal]
    <2>1. JournalCopied("idle") /\ "step_error" \in faulty
      BY <1>2 DEF sync_journal_error, JournalCopied, files
    <2>2. QED
      BY <2>1, JournalCopiedKeeps
  <1>3. QED
    BY <1>1, <1>2 DEF sync_journal_error

(* No line is newer than the commit in flight: with its snapshot as the    *)
(* checkpoint, a start finds that snapshot.                                 *)
LEMMA NextRecovers ==
  ASSUME JInv, Clean, pc \in Running \ {"idle"}, NEW lines \in Seq(Line), Within(lines)
  PROVE  Recovered(lines, next_snapshot) = next_snapshot /\ next_snapshot = Snap(next_snapshot.log)
PROOF
  <1>1. /\ next_snapshot \in Checkpoints /\ Base(next_snapshot) = next_snapshot
        /\ next_snapshot.sequence = snapshot.sequence + 1
        /\ next_snapshot = [sequence |-> snapshot.sequence + 1, log |-> Append(snapshot.log, attempts)]
        /\ attempts \in 1..MaxAttempts
    BY FlightFacts
  <1>2. \A j \in 1..Len(lines) :
          lines[j].record # Absent => lines[j].record.sequence <= Base(next_snapshot).sequence
    BY <1>1 DEF Within
  <1>3. Recovered(lines, next_snapshot) = next_snapshot
    BY <1>1, <1>2, RecoveredFacts
  <1>4. snapshot.sequence = Len(snapshot.log) /\ snapshot.log \in Logs
    BY FlightFacts DEF JInv, TriesInv, Snap
  <1>5. Len(Append(snapshot.log, attempts)) = Len(snapshot.log) + 1
    BY <1>1, <1>4 DEF Logs
  <1>6. QED
    BY <1>1, <1>3, <1>4, <1>5 DEF Snap

(* The new checkpoint has taken the place of the old one. *)
CheckpointWritten(to) ==
    /\ pc = "write_checkpoint"
    /\ ckpt' = next_snapshot
    /\ pc' = to
    /\ UNCHANGED <<snapshot, next_snapshot, journal, mirrored, rows, attempts, tries, ackedLog,
                   faulty>>

(* A written checkpoint keeps the invariant. *)
LEMMA CheckpointWrittenKeeps ==
  ASSUME JInv, FaultsSurvivable, NEW to \in {"idle", "sync_checkpoint"}, CheckpointWritten(to),
         to = "idle" => "step_error" \in faulty
  PROVE  JInv'
PROOF
  <1>1. /\ pc = "write_checkpoint" /\ pc' = to /\ ckpt' = next_snapshot
        /\ pc \in Running \ {"idle"} /\ pc \in Running /\ pc' \in Running
        /\ pc \notin Importing /\ pc' \notin Importing
        /\ UNCHANGED <<snapshot, next_snapshot, journal, mirrored, rows, attempts, tries,
                       ackedLog, faulty>>
    BY DEF CheckpointWritten, Running, Importing
  <1>2. /\ JournalTypes /\ journal \in Seq(Line)
        /\ next_snapshot \in Snapshot /\ next_snapshot # Absent /\ next_snapshot \in Checkpoints
    BY <1>1, FilesTyped, FlightFacts DEF JInv
  <1>3. /\ NextJournal = RestoredJournal /\ NextCheckpoint = RestoredCheckpoint
        /\ mirrored => rows # NoRows
        /\ ~mirrored => rows = NoRows /\ RestoredJournal = journal
    BY <1>1, RunningReads
  <1>4. /\ RestoredJournal' = RestoredJournal /\ NextJournal' = NextJournal
        /\ NextCheckpoint' = RestoredCheckpoint'
        /\ mirrored => RestoredCheckpoint' = RestoredCheckpoint
        /\ ~mirrored => RestoredCheckpoint' = next_snapshot
    BY <1>1, <1>3 DEF RestoredJournal, RestoredCheckpoint, JournalRow, NextJournal, NextCheckpoint
  <1>5. JournalTypes'
    BY <1>1, <1>2 DEF JournalTypes, JournalTypeOK
  <1>6. MirrorInv'
    BY <1>1, <1>3 DEF JInv, MirrorInv
  <1>7. FlightInv'
    BY <1>1 DEF JInv, FlightInv, InFlight
  <1>8. ASSUME Clean
        PROVE  /\ TriesInv /\ SettleInv /\ next_snapshot.log \in tries
               /\ Recovered(journal, next_snapshot) = next_snapshot
               /\ next_snapshot = Snap(next_snapshot.log)
    <2>1. TriesInv /\ SettleInv /\ next_snapshot.log \in tries /\ Within(journal)
      BY <1>1, <1>8 DEF JInv, FlightInv, SettleInv
    <2>2. QED
      BY <1>1, <1>2, <1>8, <2>1, NextRecovers
  <1>9. Clean => TriesInv' /\ SettleInv'
    <2>1. SUFFICES ASSUME Clean PROVE TriesInv' /\ SettleInv'
      OBVIOUS
    <2>2. TriesInv'
      BY <1>1, <1>8, <2>1 DEF TriesInv
    <2>3. Settles(RestoredJournal, RestoredCheckpoint') /\ Settles(journal, RestoredCheckpoint')
      <3>1. CASE mirrored
        BY <1>1, <1>3, <1>4, <1>8, <2>1, <3>1 DEF SettleInv
      <3>2. CASE ~mirrored
        <4>1. Settles(journal, next_snapshot)
          BY <1>8, <2>1 DEF Settles
        <4>2. QED
          BY <1>3, <1>4, <3>2, <4>1
      <3>3. QED
        BY <3>1, <3>2
    <2>4. Whole(journal) /\ Whole(RestoredJournal) /\ Within(journal) /\ Within(RestoredJournal)
      BY <1>1, <1>8, <2>1 DEF SettleInv
    <2>5. QED
      BY <1>1, <1>3, <1>4, <2>2, <2>3, <2>4 DEF SettleInv, Settles, Within
  <1>10. LossInv'
    <2>1. SUFFICES ASSUME "checkpoint_loss" \in faulty, rows = NoRows
                   PROVE  to # "idle" /\ Recovered(journal, Absent) = next_snapshot
                          /\ Recovered(journal, next_snapshot) = next_snapshot
      BY <1>1 DEF LossInv
    <2>2. Clean /\ to # "idle"
      BY <1>2, <2>1, FaultsApart
    <2>3. /\ Recovered(journal, Absent) = Recovered(journal, ckpt)
          /\ Recovered(journal, ckpt) = next_snapshot
      BY <1>1, <2>1 DEF JInv, LossInv
    <2>4. QED
      BY <1>8, <2>2, <2>3
  <1>11. AckedInv'
    <2>1. IsPrefix(ackedLog, next_snapshot.log)
      <3>1. IsPrefix(ackedLog, snapshot.log) /\ ackedLog \in Logs
        BY <1>1, <1>2 DEF JInv, AckedInv, JournalTypes
      <3>2. QED
        BY <1>1, <3>1, FlightFacts
    <2>2. QED
      BY <1>1, <1>2, <1>3, <1>4, <2>1 DEF JInv, AckedInv, Clean
  <1>12. QED
    BY <1>1, <1>5, <1>6, <1>7, <1>9, <1>10, <1>11 DEF JInv, Clean

(* The new checkpoint takes the place of the old one. *)
LEMMA WriteCheckpointKeeps ==
  ASSUME JInv, FaultsSurvivable, write_checkpoint, UNCHANGED faulty
  PROVE  JInv'
PROOF
  <1>1. CheckpointWritten("sync_checkpoint")
    BY DEF write_checkpoint, CheckpointWritten
  <1>2. QED
    BY <1>1, CheckpointWrittenKeeps

(* Writing the checkpoint fails, before the rename or after it. *)
LEMMA WriteCheckpointErrorKeeps ==
  ASSUME JInv, FaultsSurvivable, write_checkpoint_error, UNCHANGED faulty
  PROVE  JInv'
PROOF
  <1>1. CASE ckpt' = ckpt
    <2>1. NoEffect
      BY <1>1 DEF write_checkpoint_error, NoEffect, Running
    <2>2. QED
      BY <2>1, FailureKeeps
  <1>2. CASE ckpt' = next_snapshot
    <2>1. CheckpointWritten("idle") /\ "step_error" \in faulty
      BY <1>2 DEF write_checkpoint_error, CheckpointWritten
    <2>2. QED
      BY <2>1, CheckpointWrittenKeeps
  <1>3. QED
    BY <1>1, <1>2 DEF write_checkpoint_error

(* The checkpoint is copied: what a start will find in the files then.      *)
LEMMA CopiedCheckpoint ==
  ASSUME JInv, pc = "sync_checkpoint", pc' = "idle",
         rows' = IF mirrored THEN [rows EXCEPT !.ckpt = ckpt] ELSE rows,
         UNCHANGED <<next_snapshot, journal, ckpt, mirrored, attempts, faulty>>
  PROVE  /\ RestoredJournal' = RestoredJournal /\ NextJournal' = RestoredJournal
         /\ RestoredCheckpoint' = next_snapshot /\ NextCheckpoint' = next_snapshot
         /\ rows' \in [other : BOOLEAN, ckpt : Checkpoints, journal : Seq(Line) \cup {Absent}]
         /\ rows'.journal = rows.journal
         /\ MirrorInv'
         /\ rows' = NoRows => rows = NoRows
PROOF
  <1>1. /\ pc \in Running \ {"idle"} /\ pc \in Running /\ pc' \in Running
        /\ pc \notin Importing /\ pc' \notin Importing
        /\ pc' \notin {"import_checkpoint", "import_journal"}
    BY DEF Running, Importing
  <1>2. /\ JournalTypes /\ next_snapshot \in Checkpoints /\ next_snapshot # Absent
        /\ ckpt = next_snapshot
        /\ rows \in [other : BOOLEAN, ckpt : Checkpoints, journal : Seq(Line) \cup {Absent}]
    BY <1>1, FlightFacts DEF JInv, FlightInv, JournalTypes, JournalTypeOK, Checkpoints
  <1>3. /\ mirrored => rows # NoRows /\ RestoredJournal = JournalRow /\ rows.other
        /\ ~mirrored => rows = NoRows /\ RestoredJournal = journal
    BY <1>1, RunningReads DEF JInv, MirrorInv
  <1>4. /\ rows' \in [other : BOOLEAN, ckpt : Checkpoints, journal : Seq(Line) \cup {Absent}]
        /\ rows'.journal = rows.journal
        /\ mirrored => rows'.ckpt = next_snapshot /\ rows'.other
        /\ ~mirrored => rows' = rows
    BY <1>2, <1>3
  <1>5. mirrored => rows' # NoRows
    BY <1>2, <1>4 DEF NoRows
  <1>6. RestoredJournal' = RestoredJournal /\ RestoredCheckpoint' = next_snapshot
    BY <1>2, <1>3, <1>4, <1>5 DEF RestoredJournal, RestoredCheckpoint, JournalRow
  <1>7. NextJournal' = RestoredJournal /\ NextCheckpoint' = next_snapshot
    BY <1>1, <1>6 DEF NextJournal, NextCheckpoint
  <1>8. MirrorInv'
    BY <1>1, <1>3, <1>4, <1>5 DEF MirrorInv
  <1>9. QED
    BY <1>3, <1>4, <1>5, <1>6, <1>7, <1>8

(* The checkpoint is copied and the commit acknowledged. *)
LEMMA SyncCheckpointKeeps ==
  ASSUME JInv, FaultsSurvivable, sync_checkpoint, UNCHANGED faulty
  PROVE  JInv'
PROOF
  <1>1. /\ pc = "sync_checkpoint" /\ pc' = "idle"
        /\ snapshot' = next_snapshot /\ tries' = {next_snapshot.log}
        /\ ackedLog' = next_snapshot.log
        /\ rows' = IF mirrored THEN [rows EXCEPT !.ckpt = ckpt] ELSE rows
        /\ pc \in Running \ {"idle"} /\ pc \in Running /\ pc' \in Running
        /\ UNCHANGED <<next_snapshot, journal, ckpt, mirrored, attempts, faulty>>
    BY DEF sync_checkpoint, Running, files
  <1>2. /\ RestoredJournal' = RestoredJournal /\ NextJournal' = RestoredJournal
        /\ RestoredCheckpoint' = next_snapshot /\ NextCheckpoint' = next_snapshot
        /\ rows' \in [other : BOOLEAN, ckpt : Checkpoints, journal : Seq(Line) \cup {Absent}]
        /\ rows'.journal = rows.journal
        /\ MirrorInv'
        /\ rows' = NoRows => rows = NoRows
    BY <1>1, CopiedCheckpoint
  <1>3. /\ JournalTypes /\ next_snapshot \in Snapshot /\ next_snapshot # Absent
        /\ next_snapshot.log \in Logs
        /\ snapshot.sequence \in Nat /\ next_snapshot.sequence = snapshot.sequence + 1
        /\ journal \in Seq(Line) /\ RestoredJournal \in Seq(Line)
    BY <1>1, FlightFacts, FilesTyped DEF JInv, FlightInv
  <1>4. IsPrefix(next_snapshot.log, next_snapshot.log) /\ IsPrefix(<<>>, next_snapshot.log)
    BY <1>3, PrefixReflexive DEF Logs
  <1>5. JournalTypes'
    BY <1>1, <1>2, <1>3 DEF JournalTypes, JournalTypeOK, Checkpoints
  <1>6. FlightInv'
    BY <1>1 DEF FlightInv
  <1>7. Clean => TriesInv' /\ SettleInv'
    <2>1. SUFFICES ASSUME Clean PROVE TriesInv' /\ SettleInv'
      OBVIOUS
    <2>2. /\ Whole(journal) /\ Whole(RestoredJournal)
          /\ Within(journal) /\ Within(RestoredJournal)
      BY <1>1, <2>1 DEF JInv, SettleInv
    <2>3. /\ Recovered(journal, next_snapshot) = next_snapshot
          /\ Recovered(RestoredJournal, next_snapshot) = next_snapshot
          /\ next_snapshot = Snap(next_snapshot.log)
      BY <1>1, <1>3, <2>1, <2>2, NextRecovers
    <2>4. TriesInv'
      BY <1>1, <2>3 DEF TriesInv
    <2>5. Settles(journal, next_snapshot)' /\ Settles(RestoredJournal, next_snapshot)'
      BY <1>1, <1>2, <2>3 DEF Settles
    <2>6. ASSUME NEW lines \in {journal, RestoredJournal}, NEW i \in DOMAIN lines
          PROVE  lines[i].record.sequence <= next_snapshot.sequence + 1
      <3>1. lines[i].record.sequence \in Nat
        BY <1>3, <2>2, <2>6, RecordsTyped DEF Whole
      <3>2. lines[i].record.sequence <= snapshot.sequence + 1
        BY <2>2, <2>6 DEF Within
      <3>3. QED
        BY <1>3, <3>1, <3>2
    <2>7. Within(journal)' /\ Within(RestoredJournal)'
      BY <1>1, <1>2, <2>6 DEF Within
    <2>8. QED
      BY <1>1, <1>2, <2>2, <2>4, <2>5, <2>7 DEF SettleInv, Settles, Whole
  <1>8. LossInv'
    BY <1>1, <1>2 DEF JInv, LossInv, Running
  <1>9. AckedInv'
    BY <1>1, <1>2, <1>3, <1>4 DEF AckedInv
  <1>10. QED
    BY <1>1, <1>2, <1>5, <1>6, <1>7, <1>8, <1>9 DEF JInv, Clean

(* Copying the checkpoint fails. *)
LEMMA SyncCheckpointErrorKeeps ==
  ASSUME JInv, FaultsSurvivable, sync_checkpoint_error, UNCHANGED faulty
  PROVE  JInv'
PROOF
  <1>1. CASE UNCHANGED rows
    <2>1. NoEffect
      BY <1>1 DEF sync_checkpoint_error, NoEffect, Running, files
    <2>2. QED
      BY <2>1, FailureKeeps
  <1>2. CASE rows' = [rows EXCEPT !.ckpt = ckpt]
    <2>1. /\ pc = "sync_checkpoint" /\ pc' = "idle" /\ "step_error" \in faulty
          /\ rows' = IF mirrored THEN [rows EXCEPT !.ckpt = ckpt] ELSE rows
          /\ pc \in Running \ {"idle"} /\ pc \in Running /\ pc' \in Running
          /\ UNCHANGED <<snapshot, next_snapshot, journal, ckpt, mirrored, attempts, tries,
                         ackedLog, faulty>>
      BY <1>2 DEF sync_checkpoint_error, Running, files
    <2>2. /\ RestoredJournal' = RestoredJournal /\ NextJournal' = RestoredJournal
          /\ RestoredCheckpoint' = next_snapshot /\ NextCheckpoint' = next_snapshot
          /\ rows' \in [other : BOOLEAN, ckpt : Checkpoints, journal : Seq(Line) \cup {Absent}]
          /\ rows'.journal = rows.journal
          /\ MirrorInv'
          /\ rows' = NoRows => rows = NoRows
      BY <2>1, CopiedCheckpoint
    <2>3. /\ JournalTypes /\ next_snapshot # Absent /\ "checkpoint_loss" \notin faulty
          /\ journal \in Seq(Line) /\ RestoredJournal \in Seq(Line)
      BY <2>1, FlightFacts, FilesTyped, FaultsApart DEF JInv
    <2>4. JournalTypes'
      BY <2>1, <2>2, <2>3 DEF JournalTypes, JournalTypeOK, Checkpoints
    <2>5. FlightInv'
      BY <2>1 DEF FlightInv
    <2>6. Clean => TriesInv' /\ SettleInv'
      <3>1. SUFFICES ASSUME Clean PROVE TriesInv' /\ SettleInv'
        OBVIOUS
      <3>2. /\ Whole(journal) /\ Whole(RestoredJournal) /\ TriesInv /\ next_snapshot.log \in tries
            /\ Within(journal) /\ Within(RestoredJournal)
        BY <2>1, <3>1 DEF JInv, SettleInv, FlightInv
      <3>3. /\ Recovered(journal, next_snapshot) = next_snapshot
            /\ Recovered(RestoredJournal, next_snapshot) = next_snapshot
            /\ next_snapshot = Snap(next_snapshot.log)
        BY <2>1, <2>3, <3>1, <3>2, NextRecovers
      <3>4. Settles(journal, next_snapshot) /\ Settles(RestoredJournal, next_snapshot)
        BY <3>2, <3>3 DEF Settles
      <3>5. QED
        BY <2>1, <2>2, <3>2, <3>4 DEF SettleInv, TriesInv, Settles, Whole, Within
    <2>7. LossInv'
      BY <2>1, <2>3 DEF LossInv
    <2>8. AckedInv'
      <3>1. IsPrefix(ackedLog, snapshot.log) /\ ackedLog \in Logs
        BY <2>1, <2>3 DEF JInv, AckedInv, JournalTypes
      <3>2. IsPrefix(ackedLog, next_snapshot.log)
        BY <2>1, <3>1, FlightFacts
      <3>3. QED
        BY <2>1, <2>2, <2>3, <3>1, <3>2 DEF JInv, AckedInv, Clean
    <2>9. QED
      BY <2>1, <2>2, <2>4, <2>5, <2>6, <2>7, <2>8 DEF JInv, Clean
  <1>3. QED
    BY <1>1, <1>2 DEF sync_checkpoint_error

(* The process stops; what a start will find is what it would have found. *)
LEMMA StopKeeps ==
  ASSUME JInv, FaultsSurvivable, process_stop, UNCHANGED faulty
  PROVE  JInv'
PROOF
  <1>1. /\ pc' = "down" /\ pc # "down" /\ pc' \notin Running /\ pc' \notin Importing
        /\ pc' \notin {"sync_checkpoint", "import_checkpoint", "import_journal"}
        /\ UNCHANGED <<snapshot, next_snapshot, journal, ckpt, mirrored, rows, attempts, tries,
                       ackedLog, faulty>>
    BY DEF process_stop, Running, Importing, files
  <1>2. JournalTypes /\ pc \in Starting \cup Running
    BY DEF JInv, JournalTypes, JournalTypeOK
  <1>3. /\ RestoredJournal' = RestoredJournal /\ RestoredCheckpoint' = RestoredCheckpoint
        /\ NextJournal' = RestoredJournal /\ NextCheckpoint' = RestoredCheckpoint
    BY <1>1 DEF RestoredJournal, RestoredCheckpoint, JournalRow, NextJournal, NextCheckpoint
  <1>4. pc \notin Running => pc \in Importing /\ "cut_import" \in faulty
    BY <1>1, <1>2 DEF process_stop, Starting, Importing
  <1>5. /\ NextJournal = RestoredJournal /\ NextCheckpoint = RestoredCheckpoint
        /\ mirrored /\ rows = NoRows => journal = <<>> /\ ckpt = Absent
    <2>1. CASE pc \in Running
      BY <2>1, RunningReads
    <2>2. CASE pc \notin Running
      <3>1. pc \in Importing /\ "migration" \notin faulty
        BY <1>2, <1>4, <2>2, FaultsApart
      <3>2. /\ rows # NoRows /\ mirrored /\ rows.journal = Absent
            /\ pc = "import_checkpoint" => rows.ckpt = Absent
            /\ pc = "import_journal" => rows.ckpt = ckpt
            /\ journal = <<>> /\ ckpt = Absent
        BY <3>1 DEF JInv, MirrorInv
      <3>3. rows.ckpt = Absent
        BY <3>1, <3>2 DEF Importing
      <3>4. QED
        BY <3>1, <3>2, <3>3 DEF RestoredJournal, RestoredCheckpoint, JournalRow, NextJournal,
           NextCheckpoint
    <2>3. QED
      BY <2>1, <2>2
  <1>6. JournalTypes'
    BY <1>1, <1>2 DEF JournalTypes, JournalTypeOK, Starting
  <1>7. MirrorInv'
    BY <1>1, <1>5 DEF JInv, MirrorInv
  <1>8. FlightInv'
    BY <1>1 DEF FlightInv
  <1>9. Clean => TriesInv' /\ SettleInv'
    BY <1>1, <1>3, <1>5 DEF JInv, TriesInv, SettleInv, Settles, Whole
  <1>10. LossInv'
    BY <1>1 DEF JInv, LossInv, Running
  <1>11. AckedInv'
    BY <1>1, <1>3, <1>5 DEF JInv, AckedInv, Clean
  <1>12. QED
    BY <1>1, <1>6, <1>7, <1>8, <1>9, <1>10, <1>11 DEF JInv, Clean

(* The checkpoint is lost: the journal gives what it gave with it. *)
LEMMA LossKeeps ==
  ASSUME JInv, FaultsSurvivable, LoseCheckpoint, UNCHANGED faulty
  PROVE  JInv'
PROOF
  <1>1. /\ "checkpoint_loss" \in faulty /\ pc = "down" /\ pc' = "down" /\ ckpt' = Absent
        /\ pc \notin Running /\ pc \notin Importing
        /\ pc \notin {"sync_checkpoint", "import_checkpoint", "import_journal"}
        /\ UNCHANGED <<snapshot, next_snapshot, journal, mirrored, rows, attempts, tries,
                       ackedLog, faulty>>
    BY DEF LoseCheckpoint, Running, Importing
  <1>2. JournalTypes /\ Clean
    BY <1>1, FaultsApart DEF JInv
  <1>3. /\ RestoredJournal' = RestoredJournal
        /\ NextJournal = RestoredJournal /\ NextCheckpoint = RestoredCheckpoint
        /\ NextJournal' = RestoredJournal /\ NextCheckpoint' = RestoredCheckpoint'
        /\ mirrored /\ rows # NoRows => RestoredCheckpoint' = RestoredCheckpoint
        /\ ~(mirrored /\ rows # NoRows) =>
             RestoredCheckpoint = ckpt /\ RestoredCheckpoint' = Absent /\ RestoredJournal = journal
    BY <1>1 DEF RestoredJournal, RestoredCheckpoint, JournalRow, NextJournal, NextCheckpoint
  <1>4. Recovered(RestoredJournal, RestoredCheckpoint') = Recovered(RestoredJournal, RestoredCheckpoint)
    <2>1. CASE mirrored /\ rows # NoRows
      BY <1>3, <2>1
    <2>2. CASE ~(mirrored /\ rows # NoRows)
      <3>1. rows = NoRows
        BY <2>2 DEF JInv, MirrorInv
      <3>2. Recovered(journal, Absent) = Recovered(journal, ckpt)
        BY <1>1, <3>1 DEF JInv, LossInv
      <3>3. QED
        BY <1>3, <2>2, <3>2
    <2>3. QED
      BY <2>1, <2>2
  <1>5. JournalTypes'
    BY <1>1, <1>2 DEF JournalTypes, JournalTypeOK
  <1>6. MirrorInv'
    BY <1>1 DEF JInv, MirrorInv
  <1>7. FlightInv'
    BY <1>1 DEF FlightInv
  <1>8. TriesInv' /\ SettleInv'
    <2>1. TriesInv /\ SettleInv
      BY <1>2 DEF JInv
    <2>2. Settles(RestoredJournal, RestoredCheckpoint)
      BY <1>3, <2>1 DEF SettleInv
    <2>3. Settles(RestoredJournal, RestoredCheckpoint')
      BY <1>4, <2>2 DEF Settles
    <2>4. QED
      BY <1>1, <1>3, <2>1, <2>3 DEF TriesInv, SettleInv, Settles, Whole
  <1>9. LossInv'
    BY <1>1 DEF LossInv
  <1>10. AckedInv'
    BY <1>1, <1>3 DEF JInv, AckedInv, Clean
  <1>11. QED
    BY <1>1, <1>5, <1>6, <1>7, <1>8, <1>9, <1>10 DEF JInv, Clean

(* The installation moves to an empty table. *)
LEMMA MigrateKeeps ==
  ASSUME JInv, FaultsSurvivable, Migrate, UNCHANGED faulty
  PROVE  JInv'
PROOF
  <1>1. /\ "migration" \in faulty /\ pc = "down" /\ pc' = "down" /\ ~mirrored /\ mirrored' = TRUE
        /\ pc \notin Running /\ pc \notin Importing
        /\ pc \notin {"sync_checkpoint", "import_checkpoint", "import_journal"}
        /\ UNCHANGED <<snapshot, next_snapshot, journal, ckpt, rows, attempts, tries, ackedLog,
                       faulty>>
    BY DEF Migrate, Running, Importing, files
  <1>2. rows = NoRows
    BY <1>1 DEF JInv, MirrorInv
  <1>3. /\ RestoredJournal' = RestoredJournal /\ RestoredCheckpoint' = RestoredCheckpoint
        /\ NextJournal' = NextJournal /\ NextCheckpoint' = NextCheckpoint
    BY <1>1, <1>2 DEF RestoredJournal, RestoredCheckpoint, NextJournal, NextCheckpoint
  <1>4. JournalTypes'
    BY <1>1 DEF JInv, JournalTypes, JournalTypeOK
  <1>5. MirrorInv'
    BY <1>1, <1>2 DEF JInv, MirrorInv
  <1>6. FlightInv'
    BY <1>1 DEF FlightInv
  <1>7. Clean => TriesInv' /\ SettleInv'
    BY <1>1, <1>3 DEF JInv, TriesInv, SettleInv, Settles, Whole
  <1>8. LossInv'
    BY <1>1 DEF JInv, LossInv
  <1>9. AckedInv'
    BY <1>1, <1>3 DEF JInv, AckedInv, Clean
  <1>10. QED
    BY <1>1, <1>4, <1>5, <1>6, <1>7, <1>8, <1>9 DEF JInv, Clean

(* The import of the files begins. *)
LEMMA ImportOtherKeeps ==
  ASSUME JInv, FaultsSurvivable, import_other, UNCHANGED faulty
  PROVE  JInv'
PROOF
  <1>1. /\ pc = "down" /\ pc' = "import_checkpoint" /\ mirrored /\ rows = NoRows
        /\ rows' = [other |-> TRUE, ckpt |-> Absent, journal |-> Absent]
        /\ pc \notin Running /\ pc \notin Importing /\ pc' \notin Running /\ pc' \in Importing
        /\ UNCHANGED <<snapshot, next_snapshot, journal, ckpt, mirrored, attempts, tries,
                       ackedLog, faulty>>
    BY DEF import_other, Running, Importing, NoRows, files
  <1>2. rows' # NoRows /\ rows'.other /\ rows'.ckpt = Absent /\ rows'.journal = Absent
    BY <1>1 DEF NoRows
  <1>3. /\ RestoredJournal' = <<>> /\ NextJournal = journal /\ NextCheckpoint = ckpt
        /\ NextJournal' = NextJournal /\ NextCheckpoint' = NextCheckpoint
    BY <1>1, <1>2 DEF RestoredJournal, RestoredCheckpoint, JournalRow, NextJournal, NextCheckpoint
  <1>4. JournalTypes'
    BY <1>1, <1>2 DEF JInv, JournalTypes, JournalTypeOK, Starting
  <1>5. MirrorInv'
    BY <1>1, <1>2 DEF JInv, MirrorInv
  <1>6. FlightInv'
    BY <1>1 DEF FlightInv
  <1>7. Clean => TriesInv' /\ SettleInv'
    <2>1. Whole(RestoredJournal)'
      BY <1>3 DEF Whole
    <2>2. QED
      BY <1>1, <1>3, <2>1 DEF JInv, TriesInv, SettleInv, Settles, Whole
  <1>8. LossInv'
    BY <1>2 DEF LossInv
  <1>9. AckedInv'
    BY <1>1, <1>3 DEF JInv, AckedInv, Clean
  <1>10. QED
    BY <1>1, <1>4, <1>5, <1>6, <1>7, <1>8, <1>9 DEF JInv, Clean

(* The checkpoint is imported. *)
LEMMA ImportCheckpointKeeps ==
  ASSUME JInv, FaultsSurvivable, import_checkpoint, UNCHANGED faulty
  PROVE  JInv'
PROOF
  <1>1. /\ pc = "import_checkpoint" /\ pc' = "import_journal"
        /\ rows' = [rows EXCEPT !.ckpt = ckpt]
        /\ pc \notin Running /\ pc \in Importing /\ pc' \notin Running /\ pc' \in Importing
        /\ UNCHANGED <<snapshot, next_snapshot, journal, ckpt, mirrored, attempts, tries,
                       ackedLog, faulty>>
    BY DEF import_checkpoint, Running, Importing, files
  <1>2. /\ JournalTypes /\ ckpt \in Checkpoints
        /\ rows \in [other : BOOLEAN, ckpt : Checkpoints, journal : Seq(Line) \cup {Absent}]
        /\ rows # NoRows /\ mirrored /\ rows.other /\ rows.journal = Absent
    BY <1>1 DEF JInv, MirrorInv, JournalTypes, JournalTypeOK, Checkpoints
  <1>3. /\ rows' \in [other : BOOLEAN, ckpt : Checkpoints, journal : Seq(Line) \cup {Absent}]
        /\ rows'.other /\ rows'.ckpt = ckpt /\ rows'.journal = Absent
    BY <1>1, <1>2
  <1>4. rows' # NoRows
    BY <1>3 DEF NoRows
  <1>5. /\ RestoredJournal' = <<>>
        /\ NextJournal' = NextJournal /\ NextCheckpoint' = NextCheckpoint
    BY <1>1, <1>2, <1>3, <1>4 DEF RestoredJournal, JournalRow, NextJournal, NextCheckpoint
  <1>6. JournalTypes'
    BY <1>1, <1>2, <1>3 DEF JournalTypes, JournalTypeOK, Starting, Checkpoints
  <1>7. MirrorInv'
    BY <1>1, <1>2, <1>3, <1>4 DEF JInv, MirrorInv
  <1>8. FlightInv'
    BY <1>1 DEF FlightInv, Running
  <1>9. Clean => TriesInv' /\ SettleInv'
    <2>1. Whole(RestoredJournal)'
      BY <1>5 DEF Whole
    <2>2. QED
      BY <1>1, <1>5, <2>1 DEF JInv, TriesInv, SettleInv, Settles, Whole
  <1>10. LossInv'
    BY <1>4 DEF LossInv
  <1>11. AckedInv'
    BY <1>1, <1>5 DEF JInv, AckedInv, Clean
  <1>12. QED
    BY <1>1, <1>6, <1>7, <1>8, <1>9, <1>10, <1>11 DEF JInv, Clean

(* A start settles on one of the tries, or at least on what was acknowledged. *)
LEMMA SettleFacts ==
  ASSUME JInv, FaultsSurvivable, Settle(NextJournal, NextCheckpoint), pc \notin Running,
         UNCHANGED faulty
  PROVE  /\ snapshot' = Recovered(NextJournal, NextCheckpoint) /\ tries' = {snapshot'.log}
         /\ pc' = "idle" /\ UNCHANGED <<next_snapshot, mirrored, attempts, ackedLog>>
         /\ snapshot' \in Snapshot /\ snapshot'.log \in Logs /\ ackedLog \in Logs
         /\ NextJournal \in Seq(Line) /\ NextCheckpoint \in Checkpoints
         /\ IsPrefix(ackedLog, snapshot'.log)
         /\ NextCheckpoint # Absent => IsPrefix(NextCheckpoint.log, snapshot'.log)
         /\ Clean => /\ TriesInv' /\ Whole(NextJournal)
                     /\ \A i \in DOMAIN NextJournal :
                          NextJournal[i].record.sequence <= snapshot'.sequence + 1
         /\ Clean => snapshot'.log \in tries
PROOF
  <1> DEFINE lines == NextJournal
             c == NextCheckpoint
  <1>1. /\ snapshot' = Recovered(lines, c) /\ tries' = {snapshot'.log} /\ pc' = "idle"
        /\ UNCHANGED <<next_snapshot, mirrored, attempts, ackedLog>>
    BY DEF Settle
  <1>2. lines \in Seq(Line) /\ c \in Checkpoints /\ JournalTypes /\ ackedLog \in Logs
    BY FilesTyped DEF JInv, JournalTypes
  <1>3. Clean => Whole(lines) /\ Settles(lines, c)
    BY DEF JInv, SettleInv, NextJournal
  <1>4. /\ "checkpoint_loss" \notin faulty /\ ackedLog # <<>> => c # Absent /\ IsPrefix(ackedLog,
         c.log)
        /\ Clean => \A l \in tries : IsPrefix(ackedLog, l)
    BY DEF JInv, AckedInv
  <1> HIDE DEF lines, c
  <1>5. /\ Recovered(lines, c) \in Snapshot
        /\ IsPrefix(Base(c).log, Recovered(lines, c).log)
        /\ \A j \in 1..Len(lines) :
             lines[j].record # Absent
             => lines[j].record.sequence <= Recovered(lines, c).sequence
    BY <1>2, RecoveredFacts
  <1>6. snapshot' \in Snapshot /\ snapshot'.log \in Logs /\ snapshot'.sequence \in Nat
    BY <1>1, <1>5 DEF Snapshot, Logs
  <1>7. c # Absent => IsPrefix(c.log, snapshot'.log)
    BY <1>1, <1>5 DEF Base
  <1>8. ASSUME Clean PROVE snapshot'.log \in tries /\ snapshot' = Snap(snapshot'.log)
    <2>1. PICK l \in tries : Recovered(lines, c) = Snap(l)
      BY <1>3, <1>8 DEF Settles
    <2>2. QED
      BY <1>1, <2>1 DEF Snap
  <1>9. Clean => TriesInv'
    BY <1>1, <1>8 DEF TriesInv, Snap
  <1>10. ASSUME Clean, NEW i \in DOMAIN lines
         PROVE  lines[i].record.sequence <= snapshot'.sequence + 1
    <2>1. lines[i].record # Absent /\ i \in 1..Len(lines)
      BY <1>2, <1>3, <1>10 DEF Whole
    <2>2. lines[i].record.sequence \in Nat
      BY <1>2, <1>10, <2>1, RecordsTyped
    <2>3. lines[i].record.sequence <= snapshot'.sequence
      BY <1>1, <1>5, <2>1
    <2>4. QED
      BY <1>6, <2>2, <2>3
  <1>11. IsPrefix(ackedLog, snapshot'.log)
    <2>1. CASE Clean
      BY <1>4, <1>8, <2>1
    <2>2. CASE ~Clean /\ ackedLog = <<>>
      BY <1>6, <2>2, PrefixReflexive DEF Logs
    <2>3. CASE ~Clean /\ ackedLog # <<>>
      <3>1. "checkpoint_loss" \notin faulty
        BY <1>2, <2>3, FaultsApart
      <3>2. c # Absent /\ IsPrefix(ackedLog, c.log) /\ IsPrefix(c.log, snapshot'.log)
        BY <1>4, <1>7, <2>3, <3>1
      <3>3. c.log \in Seq(1..MaxAttempts) /\ ackedLog \in Seq(1..MaxAttempts)
            /\ snapshot'.log \in Seq(1..MaxAttempts)
        BY <1>2, <1>6, <3>2 DEF Checkpoints, Snapshot, Logs
      <3>4. QED
        BY <3>2, <3>3, PrefixTransitive
    <2>4. QED
      BY <2>1, <2>2, <2>3
  <1>12. QED
    BY <1>1, <1>2, <1>3, <1>6, <1>7, <1>8, <1>9, <1>10, <1>11 DEF lines, c

(* What a start has settled on is what the next one will find. *)
LEMMA SettledKeeps ==
  ASSUME JInv, FaultsSurvivable, Settle(NextJournal, NextCheckpoint), pc \notin Running,
         UNCHANGED faulty,
         journal' = NextJournal, ckpt' = NextCheckpoint,
         RestoredJournal' = NextJournal, RestoredCheckpoint' = NextCheckpoint,
         JournalTypes', MirrorInv',
         rows' = NoRows => /\ rows = NoRows /\ NextJournal = journal /\ NextCheckpoint = ckpt
  PROVE  JInv'
PROOF
  <1>1. /\ snapshot' = Recovered(NextJournal, NextCheckpoint) /\ tries' = {snapshot'.log}
        /\ pc' = "idle" /\ UNCHANGED <<next_snapshot, mirrored, attempts, ackedLog>>
        /\ IsPrefix(ackedLog, snapshot'.log)
        /\ NextJournal \in Seq(Line) /\ NextCheckpoint \in Checkpoints
        /\ Clean => /\ TriesInv' /\ Whole(NextJournal)
                    /\ \A i \in DOMAIN NextJournal :
                         NextJournal[i].record.sequence <= snapshot'.sequence + 1
    BY SettleFacts
  <1>2. pc' \in Running /\ pc' \notin Importing
    BY <1>1 DEF Running, Importing
  <1>3. NextJournal' = NextJournal /\ NextCheckpoint' = NextCheckpoint
    <2>1. NextJournal' = RestoredJournal' /\ NextCheckpoint' = RestoredCheckpoint'
      BY <1>2 DEF NextJournal, NextCheckpoint
    <2>2. QED
      BY <2>1
  <1>4. FlightInv'
    BY <1>1 DEF FlightInv
  <1>5. Clean => SettleInv'
    <2> DEFINE lines == NextJournal
               c == NextCheckpoint
    <2>1. SUFFICES ASSUME Clean PROVE SettleInv'
      OBVIOUS
    <2>2. Recovered(lines, c) = Snap(snapshot'.log)
      BY <1>1, <2>1 DEF TriesInv
    <2>3. \E l \in tries' : Recovered(lines, c) = Snap(l)
      BY <1>1, <2>2
    <2>4. /\ lines = journal' /\ lines = RestoredJournal' /\ lines = NextJournal'
          /\ c = RestoredCheckpoint' /\ c = NextCheckpoint'
          /\ Whole(lines)
          /\ \A i \in DOMAIN lines : lines[i].record.sequence <= snapshot'.sequence + 1
      BY <1>1, <1>3, <2>1
    <2> HIDE DEF lines, c
    <2>5. Whole(journal') /\ Whole(RestoredJournal')
      BY <2>4
    <2>6. Within(journal)' /\ Within(RestoredJournal)'
      BY <2>4 DEF Within
    <2>7. Settles(NextJournal, NextCheckpoint)' /\ Settles(journal, RestoredCheckpoint)'
      BY <2>3, <2>4 DEF Settles
    <2>8. QED
      BY <2>5, <2>6, <2>7 DEF SettleInv, Whole
  <1>6. LossInv'
    <2>1. SUFFICES ASSUME "checkpoint_loss" \in faulty, rows' = NoRows
                   PROVE  /\ Recovered(journal, Absent)' = Recovered(journal, ckpt)'
                          /\ Recovered(journal, ckpt)' = snapshot'
      BY <1>1 DEF LossInv, Running
    <2>2. /\ Recovered(journal, Absent) = Recovered(journal, ckpt)
          /\ journal' = journal /\ ckpt' = ckpt
      BY <2>1 DEF JInv, LossInv
    <2>3. Recovered(journal, Absent)' = Recovered(journal', Absent)
          /\ Recovered(journal, ckpt)' = Recovered(journal', ckpt')
      OBVIOUS
    <2>4. QED
      BY <1>1, <2>1, <2>2, <2>3
  <1>7. AckedInv'
    <2>1. /\ pc' \in Running => IsPrefix(ackedLog', snapshot'.log)
          /\ Clean' => \A l \in tries' : IsPrefix(ackedLog', l)
      BY <1>1
    <2>2. "checkpoint_loss" \notin faulty' /\ ackedLog' # <<>> =>
            NextCheckpoint' # Absent /\ IsPrefix(ackedLog', NextCheckpoint'.log)
      BY <1>1, <1>3 DEF JInv, AckedInv
    <2>3. QED
      BY <2>1, <2>2 DEF AckedInv
  <1>8. QED
    BY <1>1, <1>4, <1>5, <1>6, <1>7 DEF JInv, Clean

(* The journal is imported, the last of the files. *)
LEMMA ImportJournalKeeps ==
  ASSUME JInv, FaultsSurvivable, import_journal, UNCHANGED faulty
  PROVE  JInv'
PROOF
  <1>1. /\ pc = "import_journal" /\ Settle(journal, ckpt)
        /\ rows' = [rows EXCEPT !.journal = IF journal = <<>> THEN Absent ELSE journal]
        /\ UNCHANGED <<journal, ckpt>>
        /\ pc \notin Running /\ pc \in Importing
    BY DEF import_journal, Running, Importing, files
  <1>2. NextJournal = journal /\ NextCheckpoint = ckpt
    BY <1>1 DEF NextJournal, NextCheckpoint
  <1>3. Settle(NextJournal, NextCheckpoint)
    BY <1>1, <1>2
  <1>4. /\ tries' = {snapshot'.log} /\ pc' = "idle" /\ snapshot' \in Snapshot
        /\ snapshot'.log \in Logs /\ UNCHANGED <<next_snapshot, mirrored, attempts, ackedLog>>
    BY <1>1, <1>3, SettleFacts
  <1>5. /\ JournalTypes /\ journal \in Seq(Line) /\ Ended(journal) /\ journal # Absent
        /\ rows \in [other : BOOLEAN, ckpt : Checkpoints, journal : Seq(Line) \cup {Absent}]
        /\ rows # NoRows /\ mirrored /\ rows.other /\ rows.ckpt = ckpt
    BY <1>1, FilesTyped, JournalAssumption
       DEF JInv, MirrorInv, JournalTypes, JournalTypeOK, Checkpoints
  <1>6. /\ rows' \in [other : BOOLEAN, ckpt : Checkpoints, journal : Seq(Line) \cup {Absent}]
        /\ rows'.other /\ rows'.ckpt = ckpt
        /\ rows'.journal = IF journal = <<>> THEN Absent ELSE journal
    BY <1>1, <1>5
  <1>7. rows' # NoRows
    BY <1>6 DEF NoRows
  <1>8. RestoredJournal' = journal /\ RestoredCheckpoint' = ckpt
    <2>1. mirrored' /\ rows' # NoRows
      BY <1>4, <1>5, <1>7
    <2>2. JournalRow' = journal
      BY <1>5, <1>6 DEF JournalRow
    <2>3. QED
      BY <1>6, <2>1, <2>2 DEF RestoredJournal, RestoredCheckpoint
  <1>9. pc' \in Running /\ pc' \notin {"import_checkpoint", "import_journal"}
        /\ pc' \notin Importing
    BY <1>4 DEF Running, Importing
  <1>10. JournalTypes'
    <2>1. rows'.journal # Absent => rows'.journal = journal
      BY <1>6
    <2>2. QED
      BY <1>1, <1>4, <1>5, <1>6, <1>9, <2>1 DEF JournalTypes, JournalTypeOK, Ended, Checkpoints
  <1>11. MirrorInv'
    BY <1>4, <1>5, <1>6, <1>7, <1>9 DEF MirrorInv
  <1>12. journal' = NextJournal /\ ckpt' = NextCheckpoint
         /\ RestoredJournal' = NextJournal /\ RestoredCheckpoint' = NextCheckpoint
    BY <1>1, <1>2, <1>8
  <1>13. QED
    BY <1>1, <1>3, <1>7, <1>10, <1>11, <1>12, SettledKeeps

(* The files are restored from the table and the store is opened. *)
LEMMA OpenKeeps ==
  ASSUME JInv, FaultsSurvivable, open_with_mirror, UNCHANGED faulty
  PROVE  JInv'
PROOF
  <1>1. /\ pc = "down" /\ (mirrored => rows # NoRows)
        /\ journal' = RestoredJournal /\ ckpt' = RestoredCheckpoint
        /\ Settle(RestoredJournal, RestoredCheckpoint)
        /\ rows' = rows
        /\ pc \notin Running /\ pc \notin Importing
    BY DEF open_with_mirror, Running, Importing
  <1>2. NextJournal = RestoredJournal /\ NextCheckpoint = RestoredCheckpoint
    BY <1>1 DEF NextJournal, NextCheckpoint
  <1>3. Settle(NextJournal, NextCheckpoint)
    BY <1>1, <1>2
  <1>4. /\ tries' = {snapshot'.log} /\ pc' = "idle" /\ snapshot' \in Snapshot
        /\ snapshot'.log \in Logs /\ UNCHANGED <<next_snapshot, mirrored, attempts, ackedLog>>
    BY <1>1, <1>3, SettleFacts
  <1>5. /\ JournalTypes /\ RestoredJournal \in Seq(Line) /\ Ended(RestoredJournal)
        /\ RestoredCheckpoint \in Checkpoints
    BY FilesTyped DEF JInv
  <1>6. /\ rows # NoRows => mirrored /\ rows.other
    BY DEF JInv, MirrorInv
  <1>7. RestoredJournal' = RestoredJournal /\ RestoredCheckpoint' = RestoredCheckpoint
    BY <1>1, <1>4 DEF RestoredJournal, RestoredCheckpoint, JournalRow
  <1>8. pc' \in Running /\ pc' \notin {"import_checkpoint", "import_journal"}
        /\ pc' \notin Importing
    BY <1>4 DEF Running, Importing
  <1>9. JournalTypes'
    BY <1>1, <1>4, <1>5, <1>8 DEF JournalTypes, JournalTypeOK, Ended, Checkpoints
  <1>10. MirrorInv'
    BY <1>1, <1>4, <1>6, <1>8 DEF MirrorInv
  <1>11. rows' = NoRows => rows = NoRows /\ NextJournal = journal /\ NextCheckpoint = ckpt
    BY <1>1, <1>2 DEF RestoredJournal, RestoredCheckpoint
  <1>12. journal' = NextJournal /\ ckpt' = NextCheckpoint
         /\ RestoredJournal' = NextJournal /\ RestoredCheckpoint' = NextCheckpoint
    BY <1>1, <1>2, <1>7
  <1>13. QED
    BY <1>1, <1>3, <1>9, <1>10, <1>11, <1>12, SettledKeeps

-----------------------------------------------------------------------------
(* The theorems about the journal                                          *)

(* A new installation satisfies the invariant. *)
LEMMA JournalInitKeeps ==
  ASSUME JournalInit
  PROVE  JInv
PROOF
  <1>1. /\ snapshot = DefaultSnapshot /\ next_snapshot = DefaultSnapshot /\ pc = "down"
        /\ journal = <<>> /\ ckpt = Absent /\ mirrored \in BOOLEAN /\ rows = NoRows
        /\ attempts = 0 /\ faulty \in Scenarios /\ tries = {<<>>} /\ ackedLog = <<>>
        /\ pc \notin Running /\ pc \notin Importing
        /\ MaxAttempts \in Nat
    BY JournalAssumption DEF JournalInit, Running, Importing
  <1>2. DefaultSnapshot \in Snapshot /\ DefaultSnapshot = Snap(<<>>) /\ <<>> \in Logs
        /\ DefaultSnapshot.log = <<>>
    BY DEF DefaultSnapshot, Snapshot, Snap, Logs
  <1>3. /\ RestoredJournal = <<>> /\ RestoredCheckpoint = Absent
        /\ NextJournal = <<>> /\ NextCheckpoint = Absent
    BY <1>1 DEF RestoredJournal, RestoredCheckpoint, NextJournal, NextCheckpoint
  <1>4. Recovered(<<>>, Absent) = Snap(<<>>)
    BY <1>2, NothingToReplay DEF Base
  <1>5. JournalTypes
    BY <1>1, <1>2 DEF JournalTypes, JournalTypeOK, Starting, NoRows
  <1>6. MirrorInv
    BY <1>1 DEF MirrorInv
  <1>7. FlightInv
    BY <1>1 DEF FlightInv
  <1>8. TriesInv
    BY <1>1, <1>2 DEF TriesInv
  <1>9. SettleInv
    <2>1. Settles(<<>>, Absent)
      BY <1>1, <1>4 DEF Settles
    <2>2. Whole(<<>>)
      BY DEF Whole
    <2>3. QED
      BY <1>1, <1>3, <2>1, <2>2 DEF SettleInv
  <1>10. LossInv
    BY <1>1 DEF LossInv, Running
  <1>11. AckedInv
    <2>1. IsPrefix(<<>>, <<>>)
      BY <1>2, PrefixReflexive DEF Logs
    <2>2. QED
      BY <1>1, <2>1 DEF AckedInv
  <1>12. QED
    BY <1>5, <1>6, <1>7, <1>8, <1>9, <1>10, <1>11 DEF JInv

(* Every step keeps the invariant. *)
LEMMA JournalNextKeeps ==
  ASSUME JInv, FaultsSurvivable, [JournalNext]_journalVars
  PROVE  JInv'
PROOF
  <1>1. CASE UNCHANGED journalVars
    <2>1. UNCHANGED <<snapshot, next_snapshot, pc, journal, ckpt, mirrored, rows, attempts, faulty, tries,
                      ackedLog>>
      BY <1>1 DEF journalVars, files
    <2>2. /\ RestoredJournal' = RestoredJournal /\ RestoredCheckpoint' = RestoredCheckpoint
          /\ NextJournal' = NextJournal /\ NextCheckpoint' = NextCheckpoint
      BY <2>1 DEF RestoredJournal, RestoredCheckpoint, JournalRow, NextJournal, NextCheckpoint
    <2>3. JournalTypes' /\ MirrorInv' /\ FlightInv' /\ LossInv'
      BY <2>1 DEF JInv, JournalTypes, JournalTypeOK, MirrorInv, FlightInv, InFlight, LossInv
    <2>4. Clean => TriesInv' /\ SettleInv'
      BY <2>1, <2>2 DEF JInv, TriesInv, SettleInv, Settles, Whole, Within
    <2>5. AckedInv'
      BY <2>1, <2>2 DEF JInv, AckedInv, Clean
    <2>6. QED
      BY <2>1, <2>3, <2>4, <2>5 DEF JInv, Clean
  <1>2. CASE JournalStep /\ UNCHANGED faulty
    <2>1. CASE begin_commit
      BY <1>2, <2>1, BeginKeeps
    <2>2. CASE append_commit
      BY <1>2, <2>2, AppendKeeps
    <2>3. CASE append_commit_error
      BY <1>2, <2>3, AppendErrorKeeps
    <2>4. CASE sync_journal
      BY <1>2, <2>4, SyncJournalKeeps
    <2>5. CASE sync_journal_error
      BY <1>2, <2>5, SyncJournalErrorKeeps
    <2>6. CASE write_checkpoint
      BY <1>2, <2>6, WriteCheckpointKeeps
    <2>7. CASE write_checkpoint_error
      BY <1>2, <2>7, WriteCheckpointErrorKeeps
    <2>8. CASE sync_checkpoint
      BY <1>2, <2>8, SyncCheckpointKeeps
    <2>9. CASE sync_checkpoint_error
      BY <1>2, <2>9, SyncCheckpointErrorKeeps
    <2>10. CASE process_stop
      BY <1>2, <2>10, StopKeeps
    <2>11. CASE LoseCheckpoint
      BY <1>2, <2>11, LossKeeps
    <2>12. CASE Migrate
      BY <1>2, <2>12, MigrateKeeps
    <2>13. CASE import_other
      BY <1>2, <2>13, ImportOtherKeeps
    <2>14. CASE import_checkpoint
      BY <1>2, <2>14, ImportCheckpointKeeps
    <2>15. CASE import_journal
      BY <1>2, <2>15, ImportJournalKeeps
    <2>16. CASE open_with_mirror
      BY <1>2, <2>16, OpenKeeps
    <2>17. QED
      BY <1>2, <2>1, <2>2, <2>3, <2>4, <2>5, <2>6, <2>7, <2>8, <2>9, <2>10, <2>11, <2>12, <2>13,
         <2>14, <2>15, <2>16 DEF JournalStep
  <1>3. QED
    BY <1>1, <1>2 DEF JournalNext

(* The journal, the checkpoint and their copies always give what a start   *)
(* may settle on, as long as the faults that strike together are ones that *)
(* the files survive.                                                       *)
THEOREM JournalInvariance ==
  ASSUME FaultsSurvivable
  PROVE  JournalSpec => []JInv
PROOF
  <1>1. JournalInit => JInv
    BY JournalInitKeeps
  <1>2. JInv /\ [JournalNext]_journalVars => JInv'
    BY JournalNextKeeps
  <1>3. QED
    BY <1>1, <1>2, PTL DEF JournalSpec

(* Every file of the store keeps its shape, and only the last line of the   *)
(* journal can lack its newline.                                            *)
THEOREM JournalTypeCorrect ==
  ASSUME FaultsSurvivable
  PROVE  JournalSpec => []JournalTypeOK
PROOF
  <1>1. JInv => JournalTypeOK
    BY DEF JInv, JournalTypes
  <1>2. QED
    BY <1>1, JournalInvariance, PTL

(* An open store holds every commit that persist_commit returned Ok for,   *)
(* and unless a write was torn read_journal accepts what a start reads,    *)
(* whatever failed or stopped between the steps of any number of commits.  *)
THEOREM AckedKeptTheorem ==
  ASSUME FaultsSurvivable
  PROVE  JournalSpec => []AckedKept
PROOF
  <1>1. ASSUME JInv PROVE AckedKept
    <2>1. pc \in Running => IsPrefix(ackedLog, snapshot.log)
      BY <1>1 DEF JInv, AckedInv
    <2>2. ASSUME ~Torn PROVE Readable(RestoredJournal)
      <3>1. Clean
        BY <2>2 DEF Torn, Clean
      <3>2. Whole(RestoredJournal)
        BY <1>1, <3>1 DEF JInv, SettleInv
      <3>3. QED
        BY <3>2 DEF Whole, Readable
    <2>3. QED
      BY <2>1, <2>2 DEF AckedKept
  <1>2. QED
    BY <1>1, JournalInvariance, PTL

(* A new installation is the empty durable snapshot. *)
LEMMA DurableInit ==
  ASSUME JournalInit
  PROVE  DS!Init
  BY DEF JournalInit, DefaultSnapshot, DS!Init

(* A start settles on one of the values the abstract store may settle on. *)
LEMMA SettleCommits ==
  ASSUME JInv, FaultsSurvivable, Settle(NextJournal, NextCheckpoint), pc \notin Running,
         UNCHANGED faulty, ~Torn
  PROVE  DS!Next
PROOF
  <1>1. Clean /\ ~Torn'
    BY DEF Torn, Clean
  <1>2. snapshot'.log \in tries /\ tries' = {snapshot'.log}
    BY <1>1, SettleFacts
  <1>3. DS!Commit(snapshot'.log)
    BY <1>1, <1>2 DEF DS!Commit
  <1>4. QED
    BY <1>1, <1>2, <1>3 DEF DS!Next

(* Every step is one of the abstract store or leaves its snapshot alone. *)
LEMMA DurableStep ==
  ASSUME JInv, FaultsSurvivable, [JournalNext]_journalVars
  PROVE  [DS!Next]_<<IF Torn THEN <<>> ELSE snapshot.log, IF Torn THEN {<<>>} ELSE tries>>
PROOF
  <1> DEFINE Same == UNCHANGED <<IF Torn THEN <<>> ELSE snapshot.log, IF Torn THEN {<<>>} ELSE tries>>
  <1> SUFFICES Same \/ DS!Next
    OBVIOUS
  <1>1. UNCHANGED faulty
    BY DEF JournalNext, journalVars
  <1>2. Torn' = Torn
    BY <1>1 DEF Torn
  <1>3. CASE Torn
    BY <1>2, <1>3
  <1>4. ASSUME UNCHANGED <<snapshot, tries>> PROVE Same
    BY <1>2, <1>4
  <1>5. CASE ~Torn /\ begin_commit
    <2>1. /\ next_snapshot'.log = Append(snapshot.log, attempts + 1)
          /\ tries' = tries \cup {next_snapshot'.log} /\ snapshot' = snapshot
          /\ attempts \in 0..MaxAttempts /\ attempts < MaxAttempts /\ MaxAttempts \in Nat
      BY <1>5, JournalAssumption DEF begin_commit, apply_commit_with_key, JInv, JournalTypes,
         JournalTypeOK
    <2>2. attempts + 1 \in 1..MaxAttempts
      BY <2>1
    <2>3. DS!Attempt(attempts + 1)
      BY <1>2, <1>5, <2>1 DEF DS!Attempt
    <2>4. QED
      BY <2>2, <2>3 DEF DS!Next
  <1>6. CASE ~Torn /\ sync_checkpoint
    <2>1. snapshot' = next_snapshot /\ tries' = {next_snapshot.log} /\ next_snapshot.log \in tries
      BY <1>6 DEF sync_checkpoint, JInv, FlightInv, Running
    <2>2. DS!Commit(next_snapshot.log)
      BY <1>2, <1>6, <2>1 DEF DS!Commit
    <2>3. QED
      BY <1>6, <2>1, <2>2 DEF DS!Next
  <1>7. CASE ~Torn /\ import_journal
    <2>1. Settle(NextJournal, NextCheckpoint) /\ pc \notin Running
      BY <1>7 DEF import_journal, NextJournal, NextCheckpoint, Importing, Running
    <2>2. QED
      BY <1>1, <1>7, <2>1, SettleCommits
  <1>8. CASE ~Torn /\ open_with_mirror
    <2>1. Settle(NextJournal, NextCheckpoint) /\ pc \notin Running
      BY <1>8 DEF open_with_mirror, NextJournal, NextCheckpoint, Importing, Running
    <2>2. QED
      BY <1>1, <1>8, <2>1, SettleCommits
  <1>9. CASE \/ append_commit \/ append_commit_error \/ sync_journal \/ sync_journal_error
             \/ write_checkpoint \/ write_checkpoint_error \/ sync_checkpoint_error
             \/ process_stop \/ LoseCheckpoint \/ Migrate \/ import_other \/ import_checkpoint
    <2>1. UNCHANGED <<snapshot, tries>>
      BY <1>9 DEF append_commit, append_commit_error, sync_journal, sync_journal_error,
         write_checkpoint, write_checkpoint_error, sync_checkpoint_error,
         process_stop, LoseCheckpoint, Migrate, import_other, import_checkpoint
    <2>2. QED
      BY <1>4, <2>1
  <1>10. CASE UNCHANGED journalVars
    BY <1>4, <1>10 DEF journalVars
  <1>11. QED
    BY <1>3, <1>5, <1>6, <1>7, <1>8, <1>9, <1>10 DEF JournalNext, JournalStep

(* The files implement one durable snapshot: a restart settles on the last *)
(* commit that returned Ok or on one attempted after it, and later ones    *)
(* stay with it.                                                            *)
THEOREM JournalIsDurable ==
  ASSUME FaultsSurvivable
  PROVE  JournalSpec => Durable
PROOF
  <1>1. JournalInit => DS!Init
    BY DurableInit
  <1>2. JInv /\ [JournalNext]_journalVars
        => [DS!Next]_<<IF Torn THEN <<>> ELSE snapshot.log, IF Torn THEN {<<>>} ELSE tries>>
    BY DurableStep
  <1>3. QED
    BY <1>1, <1>2, JournalInvariance, PTL DEF JournalSpec, Durable, DS!Spec
===============================================================================
