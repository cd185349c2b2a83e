--------------------- MODULE WorkRuntimeControllerProofs ----------------------
(***************************************************************************)
(* Proofs about WorkRuntimeController for any set of releases, clients and *)
(* faults. The composition takes only steps of the publication store, so   *)
(* the store's invariant Inv and Extends hold in it. CInv adds what the    *)
(* controller's copy of the runtime record still says about the store's    *)
(* (ViewOK), what it did on the way to a step that is still there          *)
(* (PublishPathOK, DeletePathOK), and what a status or a route promises    *)
(* about the cluster (StatusOK, VisitorsOK). A step keeps CInv because it  *)
(* either leaves the store alone (Quiet) or reports with the record it     *)
(* read: a report that a newer intent has overtaken changes nothing.       *)
(***************************************************************************)
EXTENDS WorkRuntimeController, PublicationProofs

PublishSteps ==
    {"policy", "deployment", "ready", "probe", "probing", "service", "ingress", "switch",
     "endpoints", "external", "restore", "report_ready", "report_switched"}

DeleteSteps ==
    {"del_ingress", "del_service", "del_deployments", "del_policy", "report_unpublished"}

WorkingSteps == PublishSteps \cup DeleteSteps \cup {"failed"}

(* Steps behind wait_ready, and behind the Service's being there *)
DeployedSteps == PublishSteps \ {"policy", "deployment", "ready"}

ServedSteps == {"endpoints", "external", "restore", "report_ready", "report_switched"}

Service == [uid : Uids, version : Versions, release : Releases, gen : Nat]

Reconciliation ==
    [step : WorkingSteps, event : OpId, rt : WorkRuntimeState,
     checkpoint : PublishCheckpoint, dep : Option(DepIds)]

ControllerTypeOK ==
    /\ ctl \in {Idle} \cup [step : {"listed"}, event : OpId] \cup Reconciliation
    /\ deps \in [Releases -> Option(Uids)]
    /\ svc \in Option(Service)
    /\ ing \in Option(Uids)
    /\ policy \in BOOLEAN
    /\ disk = mem

(* A newer intent leaves the status at one of these until it is reported on *)
InProgress == {"Publishing", "Updating", "Unpublishing", "ReconcileRequired"}

(* The record the controller works on is the store's, or an older one that *)
(* a newer intent has overtaken; the release in service is the same.       *)
ViewOK ==
    /\ ctl # Idle => Known(mem, ctl.event)
    /\ ctl.step \in WorkingSteps =>
         /\ mem.operations[ctl.event].gen <= ctl.rt.gen
         /\ ctl.rt.gen <= runtime.gen
         /\ ctl.rt.current = runtime.current
         /\ IF ctl.rt.gen = runtime.gen
            THEN ctl.rt.desired = runtime.desired /\ ctl.rt.publication = runtime.publication
            ELSE runtime.status \in InProgress

AskedToUnpublish ==
    \E id \in OpId : Known(mem, id) /\ mem.operations[id].request.kind = "Unpublish"

(* What the controller did on the way to a step of the publish path is     *)
(* still there ...                                                         *)
PublishPathOK ==
    /\ ctl.step \in PublishSteps =>
         ctl.rt.publication = "Published" /\ ctl.rt.desired \in Releases
    /\ ctl.step \in {"switch", "endpoints", "restore", "report_switched"} => Switching
    /\ ctl.step = "service" => ~Switching
    /\ ctl.step \in DeployedSteps => ctl.dep # None
    /\ ctl.step \in DeployedSteps /\ ~drift => deps[ctl.rt.desired] # None
    /\ ctl.step \in ServedSteps \/ (ctl.step = "ingress" /\ ~Switching) => svc # None
    /\ ctl.step = "report_ready" /\ exposed =>
         ing # None /\ (~drift => svc.release = ctl.rt.desired)

(* ... and what it took away on the delete path is still gone *)
DeletePathOK ==
    /\ ctl.step \in DeleteSteps => ctl.rt.publication = "Unpublished" /\ AskedToUnpublish
    /\ ctl.step \in DeleteSteps \ {"del_ingress"} => ing = None
    /\ ctl.step \in DeleteSteps \ {"del_ingress", "del_service"} => svc = None
    /\ ctl.step \in {"del_policy", "report_unpublished"} =>
         \A release \in Releases : deps[release] = None
    /\ ctl.step = "report_unpublished" => policy = FALSE

StatusOK ==
    /\ runtime.status = "Published" =>
         /\ runtime.publication = "Published"
         /\ runtime.current = runtime.desired
         /\ exposed /\ ~drift =>
              /\ ing # None /\ svc # None
              /\ svc.release = runtime.current
    /\ runtime.status = "Unpublished" =>
         /\ runtime.publication = "Unpublished"
         /\ ing = None /\ svc = None /\ policy = FALSE
         /\ \A release \in Releases : deps[release] = None

VisitorsOK ==
    /\ ~drift /\ svc # None =>
         /\ deps[svc.release] # None
         /\ runtime.current # None => deps[runtime.current] # None
    /\ exposed /\ runtime.current # None => AskedToUnpublish \/ (ing # None /\ svc # None)
    /\ runtime.gen > 0 /\ runtime.publication = "Unpublished" => AskedToUnpublish

CInv ==
    /\ Inv
    /\ ControllerTypeOK
    /\ ViewOK
    /\ PublishPathOK
    /\ DeletePathOK
    /\ StatusOK
    /\ VisitorsOK

(* There is one project, and every operation is about it. *)
LEMMA OneProject ==
  /\ project \in Projects
  /\ \A id \in OpId : id[1] = project
PROOF
  <1>1. PICK p \in Projects : Projects = {p}
    BY ControllerAssumption
  <1>2. project \in Projects
    BY <1>1 DEF project
  <1>3. QED
    BY <1>1, <1>2, OpIdFacts

(* None is the identity of nothing, and a UID or a resourceVersion other   *)
(* than the known ones can always be had.                                  *)
LEMMA FreshFacts ==
  /\ None \notin Uids /\ None \notin Releases /\ None \notin Service
  /\ DepIds = Uids /\ IngIds = Uids /\ SvcIds = Uids \X Versions
  /\ \A recorded : FreshUid(recorded) \in Uids
  /\ FreshVersion \in Versions
PROOF
  <1>1. /\ None \notin Uids /\ None \notin Releases /\ None \notin Service
        /\ DepIds = Uids /\ IngIds = Uids /\ SvcIds = Uids \X Versions
    BY NoneAssumption, ControllerAssumption DEF Service
  <1>2. \A recorded : FreshUid(recorded) \in Uids
    BY ControllerAssumption DEF FreshUid
  <1>3. FreshVersion \in Versions
    <2>1. \E v \in Versions : v # RecordedVersion /\ (svc # None => v # svc.version)
      BY ControllerAssumption
    <2>2. QED
      BY <2>1 DEF FreshVersion
  <1>4. QED
    BY <1>1, <1>2, <1>3

(* The record the store has for the project, and what an operation's is. *)
LEMMA RuntimeFacts ==
  ASSUME Inv
  PROVE  /\ runtime \in WorkRuntimeState
         /\ (runtime.publication = "Published") <=> (runtime.desired # None)
         /\ \A id \in OpId : RuntimeOf(mem, id) = runtime
         /\ \A id \in OpId : mem.operations[id] \in PublishOperation
         /\ \A id \in OpId : Known(mem, id) => mem.operations[id].gen <= runtime.gen
PROOF
  <1>1. mem \in PublicationSnapshot /\ validate_snapshot(mem)
    BY DEF Inv, SnapOK
  <1>2. QED
    BY <1>1, OneProject DEF PublicationSnapshot, validate_snapshot, RuntimeOf, runtime

(* Off the idle and listed steps the controller holds a whole record. *)
LEMMA AtWork ==
  ASSUME ControllerTypeOK, ctl.step \in WorkingSteps
  PROVE  /\ ctl \in Reconciliation
         /\ ctl # Idle
PROOF
  <1>1. Idle.step = "idle" /\ "idle" \notin WorkingSteps
    BY DEF Idle, WorkingSteps, PublishSteps, DeleteSteps
  <1>2. \A c \in [step : {"listed"}, event : OpId] : c.step = "listed"
    OBVIOUS
  <1>3. "listed" \notin WorkingSteps
    BY DEF WorkingSteps, PublishSteps, DeleteSteps
  <1>4. QED
    BY <1>1, <1>2, <1>3 DEF ControllerTypeOK

(* Moving on to another step keeps what the controller holds. *)
LEMMA GotoKeeps ==
  ASSUME ctl \in Reconciliation, NEW to \in WorkingSteps, Goto(to)
  PROVE  /\ ctl' \in Reconciliation
         /\ ctl'.step = to
         /\ ctl'.event = ctl.event
         /\ ctl'.rt = ctl.rt
         /\ ctl'.dep = ctl.dep
         /\ ctl'.checkpoint = ctl.checkpoint
  BY DEF Goto, Reconciliation

(* A snapshot that only moved on knows what the old one knew. *)
LEMMA AskedForward ==
  ASSUME Extends(mem, mem'), Inv
  PROVE  /\ AskedToUnpublish => AskedToUnpublish'
         /\ \A id \in OpId : Known(mem, id) =>
              /\ mem'.operations[id].gen = mem.operations[id].gen
              /\ mem'.operations[id].gen > 0
PROOF
  <1>1. \A id \in OpId : Known(mem, id) =>
          /\ mem'.operations[id].gen = mem.operations[id].gen
          /\ mem'.operations[id].request = mem.operations[id].request
    BY DEF Extends
  <1>2. QED
    BY <1>1 DEF AskedToUnpublish, Known

-----------------------------------------------------------------------------
(* Steps that leave the store alone *)

Quiet == mem' = mem /\ disk' = disk /\ UNCHANGED config

(* What is true of the store while the controller is publishing. *)
LEMMA Publishing ==
  ASSUME CInv, ctl.step \in PublishSteps
  PROVE  /\ ctl.rt.desired \in Releases
         /\ ctl.rt.current = runtime.current
         /\ runtime.status # "Unpublished"
         /\ runtime.status = "Published" => ctl.rt.desired = runtime.current
PROOF
  <1>1. ctl.step \in WorkingSteps
    BY DEF WorkingSteps
  <1>2. ctl.rt.publication = "Published" /\ ctl.rt.desired \in Releases
    BY DEF CInv, PublishPathOK
  <1>3. /\ ctl.rt.current = runtime.current
        /\ IF ctl.rt.gen = runtime.gen
           THEN ctl.rt.desired = runtime.desired /\ ctl.rt.publication = runtime.publication
           ELSE runtime.status \in InProgress
    BY <1>1 DEF CInv, ViewOK
  <1>4. /\ runtime.status = "Published" => runtime.current = runtime.desired
        /\ runtime.status = "Unpublished" => runtime.publication = "Unpublished"
    BY DEF CInv, StatusOK
  <1>5. QED
    BY <1>2, <1>3, <1>4 DEF InProgress

(* ... and while it is taking everything down. *)
LEMMA Unpublishing ==
  ASSUME CInv, ctl.step \in DeleteSteps
  PROVE  runtime.status # "Published" /\ AskedToUnpublish
PROOF
  <1>1. ctl.step \in WorkingSteps
    BY DEF WorkingSteps
  <1>2. ctl.rt.publication = "Unpublished" /\ AskedToUnpublish
    BY DEF CInv, DeletePathOK
  <1>3. IF ctl.rt.gen = runtime.gen
        THEN ctl.rt.publication = runtime.publication
        ELSE runtime.status \in InProgress
    BY <1>1 DEF CInv, ViewOK
  <1>4. runtime.status = "Published" => runtime.publication = "Published"
    BY DEF CInv, StatusOK
  <1>5. QED
    BY <1>2, <1>3, <1>4 DEF InProgress

(* As long as neither the store nor the controller's copy changes, the     *)
(* copy stays what it was.                                                 *)
LEMMA QuietView ==
  ASSUME CInv, Quiet, ctl.step \in WorkingSteps, ctl'.event = ctl.event, ctl'.rt = ctl.rt
  PROVE  ViewOK'
PROOF
  <1>1. ctl # Idle
    BY AtWork DEF CInv
  <1>2. runtime' = runtime
    BY DEF Quiet, runtime
  <1>3. QED
    BY <1>1, <1>2 DEF CInv, ViewOK, Quiet, Known

ClusterTyped ==
    /\ deps \in [Releases -> Option(Uids)]
    /\ svc \in Option(Service)
    /\ ing \in Option(Uids)
    /\ policy \in BOOLEAN

(* What a step of the publish path may do: it keeps what is Published      *)
(* routed, never routes to a missing Deployment, and takes nothing away.   *)
LEMMA PublishMove ==
  ASSUME CInv, ctl.step \in PublishSteps, Quiet,
         ctl' \in Reconciliation, ctl'.step \in PublishSteps \cup {"failed"},
         ctl'.event = ctl.event, ctl'.rt = ctl.rt,
         ClusterTyped',
         runtime.status = "Published" /\ exposed /\ ~drift =>
           ing' # None /\ svc' # None /\ svc'.release = runtime.current,
         ~drift /\ svc' # None =>
           /\ deps'[svc'.release] # None
           /\ runtime.current # None => deps'[runtime.current] # None,
         ing # None => ing' # None,
         svc # None => svc' # None,
         PublishPathOK'
  PROVE  ControllerTypeOK' /\ ViewOK' /\ PublishPathOK' /\ DeletePathOK'
         /\ StatusOK' /\ VisitorsOK'
PROOF
  <1>1. ctl.step \in WorkingSteps
    BY DEF WorkingSteps
  <1>2. ViewOK'
    BY <1>1, QuietView
  <1>3. ControllerTypeOK'
    <2>1. disk' = mem'
      BY DEF CInv, ControllerTypeOK, Quiet
    <2>2. QED
      BY <2>1 DEF ControllerTypeOK, ClusterTyped
  <1>4. DeletePathOK'
    <2>1. ctl'.step \notin DeleteSteps
      BY DEF PublishSteps, DeleteSteps
    <2>2. QED
      BY <2>1 DEF DeletePathOK, DeleteSteps
  <1>5. runtime' = runtime /\ (AskedToUnpublish => AskedToUnpublish') /\ UNCHANGED <<exposed, drift>>
    BY DEF Quiet, runtime, AskedToUnpublish, Known, config
  <1>6. StatusOK'
    BY <1>5, Publishing DEF CInv, StatusOK
  <1>7. VisitorsOK'
    BY <1>5 DEF CInv, VisitorsOK
  <1>8. QED
    BY <1>2, <1>3, <1>4, <1>6, <1>7

(* What a step of the delete path may do: it only takes away, and a        *)
(* Deployment only once the Service is gone.                               *)
LEMMA DeleteMove ==
  ASSUME CInv, ctl.step \in DeleteSteps, Quiet,
         ctl' \in Reconciliation, ctl'.step \in DeleteSteps \cup {"failed"},
         ctl'.event = ctl.event, ctl'.rt = ctl.rt,
         ClusterTyped',
         ing' \in {ing, None}, svc' \in {svc, None}, policy' \in {policy, FALSE},
         \A release \in Releases : deps'[release] \in {deps[release], None},
         svc' # None => deps' = deps,
         ctl'.step \in DeleteSteps \ {"del_ingress"} => ing' = None,
         ctl'.step \in DeleteSteps \ {"del_ingress", "del_service"} => svc' = None,
         ctl'.step \in {"del_policy", "report_unpublished"} =>
           \A release \in Releases : deps'[release] = None,
         ctl'.step = "report_unpublished" => policy' = FALSE
  PROVE  ControllerTypeOK' /\ ViewOK' /\ PublishPathOK' /\ DeletePathOK'
         /\ StatusOK' /\ VisitorsOK'
PROOF
  <1>1. ctl.step \in WorkingSteps
    BY DEF WorkingSteps
  <1>2. ViewOK'
    BY <1>1, QuietView
  <1>3. ControllerTypeOK'
    <2>1. disk' = mem'
      BY DEF CInv, ControllerTypeOK, Quiet
    <2>2. QED
      BY <2>1 DEF ControllerTypeOK, ClusterTyped
  <1>4. runtime' = runtime /\ (AskedToUnpublish => AskedToUnpublish') /\ UNCHANGED <<exposed, drift>>
    BY DEF Quiet, runtime, AskedToUnpublish, Known, config
  <1>5. PublishPathOK'
    <2>1. ctl'.step \notin PublishSteps /\ ctl'.step # "ingress"
      BY DEF PublishSteps, DeleteSteps
    <2>2. QED
      BY <2>1 DEF PublishPathOK, PublishSteps, DeployedSteps, ServedSteps
  <1>6. DeletePathOK'
    BY <1>4 DEF CInv, DeletePathOK
  <1>7. StatusOK'
    BY <1>4, Unpublishing DEF CInv, StatusOK
  <1>8. VisitorsOK'
    <2>1. ~drift /\ svc' # None =>
            /\ deps'[svc'.release] # None
            /\ runtime.current # None => deps'[runtime.current] # None
      BY DEF CInv, VisitorsOK
    <2>2. QED
      BY <1>4, <2>1, Unpublishing DEF CInv, VisitorsOK
  <1>9. QED
    BY <1>2, <1>3, <1>5, <1>6, <1>7, <1>8

(* A step of the publish path that leaves Deployments, Service and Ingress *)
(* alone has only its own promise to keep.                                 *)
LEMMA PublishWait ==
  ASSUME CInv, ctl.step \in PublishSteps, Quiet,
         ctl' \in Reconciliation, ctl'.step \in PublishSteps \cup {"failed"},
         ctl'.event = ctl.event, ctl'.rt = ctl.rt,
         UNCHANGED <<deps, svc, ing>>, policy' \in BOOLEAN,
         PublishPathOK'
  PROVE  ControllerTypeOK' /\ ViewOK' /\ PublishPathOK' /\ DeletePathOK'
         /\ StatusOK' /\ VisitorsOK'
PROOF
  <1>1. ClusterTyped'
    BY DEF CInv, ControllerTypeOK, ClusterTyped
  <1>2. runtime.status = "Published" /\ exposed /\ ~drift =>
          ing' # None /\ svc' # None /\ svc'.release = runtime.current
    BY DEF CInv, StatusOK
  <1>3. ~drift /\ svc' # None =>
          /\ deps'[svc'.release] # None
          /\ runtime.current # None => deps'[runtime.current] # None
    BY DEF CInv, VisitorsOK
  <1>4. QED
    BY <1>1, <1>2, <1>3, PublishMove

(* What the promise of a publish step comes to, step by step. *)
LEMMA PublishPathStep ==
  ASSUME CInv, ctl.step \in PublishSteps, UNCHANGED config,
         ctl' \in Reconciliation, ctl'.rt = ctl.rt,
         ctl'.step \in {"switch", "endpoints", "restore", "report_switched"} => Switching,
         ctl'.step = "service" => ~Switching,
         ctl'.step \in DeployedSteps => ctl'.dep # None,
         ctl'.step \in DeployedSteps /\ ~drift => deps'[ctl.rt.desired] # None,
         ctl'.step \in ServedSteps \/ (ctl'.step = "ingress" /\ ~Switching) => svc' # None,
         ctl'.step = "report_ready" /\ exposed =>
           ing' # None /\ (~drift => svc'.release = ctl.rt.desired)
  PROVE  PublishPathOK'
PROOF
  <1>1. ctl.rt.publication = "Published" /\ ctl.rt.desired \in Releases
    BY DEF CInv, PublishPathOK
  <1>2. Switching' <=> Switching
    BY DEF Switching, release_id
  <1>3. exposed' = exposed /\ drift' = drift
    BY DEF config
  <1>4. QED
    BY <1>1, <1>2, <1>3 DEF PublishPathOK

(* The NetworkPolicy comes first and promises nothing. *)
LEMMA PolicyStep ==
  ASSUME CInv, Quiet, apply_network_policy
  PROVE  ControllerTypeOK' /\ ViewOK' /\ PublishPathOK' /\ DeletePathOK'
         /\ StatusOK' /\ VisitorsOK'
PROOF
  <1>1. ctl.step = "policy" /\ ctl.step \in PublishSteps /\ ctl \in Reconciliation
    BY AtWork DEF apply_network_policy, At, CInv, PublishSteps, WorkingSteps
  <1>2. ctl' \in Reconciliation /\ ctl'.step = "deployment" /\ ctl'.event = ctl.event
        /\ ctl'.rt = ctl.rt
    <2>1. "deployment" \in WorkingSteps
      BY DEF WorkingSteps, PublishSteps
    <2>2. QED
      BY <1>1, <2>1, GotoKeeps DEF apply_network_policy
  <1>3. PublishPathOK'
    BY <1>1, <1>2, PublishPathStep DEF DeployedSteps, PublishSteps, ServedSteps, Quiet
  <1>4. UNCHANGED <<deps, svc, ing>> /\ policy' \in BOOLEAN
    BY DEF apply_network_policy
  <1>5. QED
    BY <1>1, <1>2, <1>3, <1>4, PublishWait DEF PublishSteps

(* The Deployment of the release is created, never one taken away. *)
LEMMA DeploymentStep ==
  ASSUME CInv, Quiet, apply_deployment
  PROVE  ControllerTypeOK' /\ ViewOK' /\ PublishPathOK' /\ DeletePathOK'
         /\ StatusOK' /\ VisitorsOK'
PROOF
  <1>1. ctl.step = "deployment" /\ ctl.step \in PublishSteps /\ ctl \in Reconciliation
    BY AtWork DEF apply_deployment, At, CInv, PublishSteps, WorkingSteps
  <1>2. ctl' \in Reconciliation /\ ctl'.step \in {"ready", "failed"} /\ ctl'.event = ctl.event
        /\ ctl'.rt = ctl.rt
    <2>1. {"ready", "failed"} \subseteq WorkingSteps
      BY DEF WorkingSteps, PublishSteps
    <2>2. QED
      BY <1>1, <2>1, GotoKeeps DEF apply_deployment
  <1>3. PublishPathOK'
    BY <1>1, <1>2, PublishPathStep DEF DeployedSteps, PublishSteps, ServedSteps, Quiet
  <1>4. UNCHANGED <<svc, ing, policy>> /\ ClusterTyped
    BY DEF apply_deployment, CInv, ControllerTypeOK, ClusterTyped
  <1>5. /\ deps' \in [Releases -> Option(Uids)]
        /\ \A release \in Releases : deps[release] # None => deps'[release] # None
    <2>1. PICK new \in Uids : new = FreshUid(runtime.dep)
      BY FreshFacts
    <2>2. deps' = deps \/ deps' = [deps EXCEPT ![ctl.rt.desired] = IF @ = None THEN new ELSE @]
      BY <2>1 DEF apply_deployment, release_id
    <2>3. deps \in [Releases -> Option(Uids)] /\ ctl.rt.desired \in Releases
      BY <1>1, <1>4, Publishing DEF ClusterTyped
    <2>4. QED
      BY <2>2, <2>3, FreshFacts DEF Option
  <1>6. ClusterTyped'
    BY <1>4, <1>5 DEF ClusterTyped
  <1>7. runtime.status = "Published" /\ exposed /\ ~drift =>
          ing' # None /\ svc' # None /\ svc'.release = runtime.current
    BY <1>4 DEF CInv, StatusOK
  <1>8. ~drift /\ svc' # None =>
          /\ deps'[svc'.release] # None
          /\ runtime.current # None => deps'[runtime.current] # None
    <2>1. svc # None => svc.release \in Releases
      BY <1>4 DEF ClusterTyped, Option, Service
    <2>2. runtime.current # None => runtime.current \in Releases
      BY RuntimeFacts DEF CInv, WorkRuntimeState, Option
    <2>3. QED
      BY <1>4, <1>5, <2>1, <2>2 DEF CInv, VisitorsOK
  <1>9. QED
    BY <1>1, <1>2, <1>3, <1>4, <1>6, <1>7, <1>8, PublishMove DEF PublishSteps

(* wait_ready goes on only with the Deployment it saw. *)
LEMMA ReadyStep ==
  ASSUME CInv, Quiet, wait_ready
  PROVE  ControllerTypeOK' /\ ViewOK' /\ PublishPathOK' /\ DeletePathOK'
         /\ StatusOK' /\ VisitorsOK'
PROOF
  <1>1. ctl.step = "ready" /\ ctl.step \in PublishSteps /\ ctl \in Reconciliation
    BY AtWork DEF wait_ready, At, CInv, PublishSteps, WorkingSteps
  <1>2. /\ ctl' \in Reconciliation /\ ctl'.event = ctl.event /\ ctl'.rt = ctl.rt
        /\ ctl'.dep = deps[ctl.rt.desired]
        /\ ctl'.step \in {"probe", "failed"}
        /\ ctl'.step = "probe" => deps[ctl.rt.desired] # None
    <2>1. deps[ctl.rt.desired] \in Option(DepIds)
      BY <1>1, Publishing, FreshFacts DEF CInv, ControllerTypeOK, Option
    <2>2. PICK dep \in Option(DepIds) : dep = deps[ctl.rt.desired]
      BY <2>1
    <2>3. PICK to \in {"probe", "failed"} :
            to = IF deps[ctl.rt.desired] # None THEN "probe" ELSE "failed"
      OBVIOUS
    <2>4. ctl' = [ctl EXCEPT !.step = to, !.dep = dep]
      BY <2>2, <2>3 DEF wait_ready, release_id
    <2>5. to \in WorkingSteps
      BY <2>3 DEF WorkingSteps, PublishSteps
    <2>6. /\ ctl' \in Reconciliation /\ ctl'.event = ctl.event /\ ctl'.rt = ctl.rt
          /\ ctl'.dep = dep /\ ctl'.step = to
      BY <1>1, <2>4, <2>5 DEF Reconciliation
    <2>7. QED
      BY <2>2, <2>3, <2>6
  <1>3. UNCHANGED <<deps, svc, ing, policy>> /\ policy' \in BOOLEAN
    BY DEF wait_ready, cluster, CInv, ControllerTypeOK
  <1>4. PublishPathOK'
    BY <1>1, <1>2, <1>3, PublishPathStep DEF DeployedSteps, PublishSteps, ServedSteps, Quiet
  <1>5. QED
    BY <1>1, <1>2, <1>3, <1>4, PublishWait DEF PublishSteps

(* What the controller has behind it once wait_ready is done. *)
LEMMA Deployed ==
  ASSUME CInv, ctl.step \in DeployedSteps
  PROVE  /\ ctl.step \in PublishSteps
         /\ ctl \in Reconciliation
         /\ ctl.dep # None
         /\ ~drift => deps[ctl.rt.desired] # None
         /\ ClusterTyped
         /\ ctl.rt.desired \in Releases
PROOF
  <1>1. ctl.step \in PublishSteps /\ ctl.step \in WorkingSteps
    BY DEF DeployedSteps, WorkingSteps
  <1>2. QED
    BY <1>1, AtWork, Publishing
       DEF CInv, PublishPathOK, ControllerTypeOK, ClusterTyped

(* The probe Service of the release stands beside the stable one. *)
LEMMA ProbeStep ==
  ASSUME CInv, Quiet, probe_release
  PROVE  ControllerTypeOK' /\ ViewOK' /\ PublishPathOK' /\ DeletePathOK'
         /\ StatusOK' /\ VisitorsOK'
PROOF
  <1>1. ctl.step = "probe" /\ ctl.step \in DeployedSteps
    BY DEF probe_release, At, DeployedSteps, PublishSteps
  <1>2. ctl' \in Reconciliation /\ ctl'.step = "probing" /\ ctl'.event = ctl.event
        /\ ctl'.rt = ctl.rt /\ ctl'.dep = ctl.dep
    <2>1. "probing" \in WorkingSteps
      BY DEF WorkingSteps, PublishSteps
    <2>2. QED
      BY <1>1, <2>1, Deployed, GotoKeeps DEF probe_release
  <1>3. UNCHANGED <<deps, svc, ing, policy>> /\ policy' \in BOOLEAN
    BY <1>1, Deployed DEF probe_release, ClusterTyped
  <1>4. PublishPathOK'
    BY <1>1, <1>2, <1>3, Deployed, PublishPathStep
       DEF DeployedSteps, PublishSteps, ServedSteps, Quiet
  <1>5. QED
    BY <1>1, <1>2, <1>3, <1>4, Deployed, PublishWait DEF PublishSteps

(* The prober decides whether the release gets to the stable Service. *)
LEMMA ProberStep ==
  ASSUME CInv, Quiet, run_release_prober
  PROVE  ControllerTypeOK' /\ ViewOK' /\ PublishPathOK' /\ DeletePathOK'
         /\ StatusOK' /\ VisitorsOK'
PROOF
  <1>1. ctl.step = "probing" /\ ctl.step \in DeployedSteps
    BY DEF run_release_prober, At, DeployedSteps, PublishSteps
  <1>2. PICK to \in {"failed", "service", "ingress", "switch"} :
          /\ Goto(to)
          /\ to = "service" => ~Switching
          /\ to \in {"ingress", "switch"} => Switching
    BY DEF run_release_prober
  <1>3. ctl' \in Reconciliation /\ ctl'.step = to /\ ctl'.event = ctl.event
        /\ ctl'.rt = ctl.rt /\ ctl'.dep = ctl.dep
    <2>1. to \in WorkingSteps
      BY <1>2 DEF WorkingSteps, PublishSteps
    <2>2. QED
      BY <1>1, <1>2, <2>1, Deployed, GotoKeeps
  <1>4. UNCHANGED <<deps, svc, ing, policy>> /\ policy' \in BOOLEAN
    BY <1>1, Deployed DEF run_release_prober, ClusterTyped
  <1>5. PublishPathOK'
    BY <1>1, <1>2, <1>3, <1>4, Deployed, PublishPathStep
       DEF DeployedSteps, PublishSteps, ServedSteps, Quiet
  <1>6. QED
    BY <1>1, <1>2, <1>3, <1>4, <1>5, Deployed, PublishWait DEF PublishSteps

(* The selector of the stable Service only ever moves to the release in    *)
(* hand, and only when no other one is in service.                         *)
LEMMA ServiceStep ==
  ASSUME CInv, Quiet, apply_service
  PROVE  ControllerTypeOK' /\ ViewOK' /\ PublishPathOK' /\ DeletePathOK'
         /\ StatusOK' /\ VisitorsOK'
PROOF
  <1>1. ctl.step = "service" /\ ctl.step \in DeployedSteps
    BY DEF apply_service, At, DeployedSteps, PublishSteps
  <1>2. ~Switching /\ ctl.rt.current = runtime.current
    BY <1>1, Deployed, Publishing DEF CInv, PublishPathOK
  <1>3. PICK to \in {"failed", "ingress", "report_ready"} :
          /\ Goto(to)
          /\ to = "failed" => svc' = svc
          /\ to # "failed" => svc' = AppliedService
          /\ to = "report_ready" => ~exposed
    BY DEF apply_service
  <1>4. ctl' \in Reconciliation /\ ctl'.step = to /\ ctl'.event = ctl.event
        /\ ctl'.rt = ctl.rt /\ ctl'.dep = ctl.dep
    <2>1. to \in WorkingSteps
      BY <1>3 DEF WorkingSteps, PublishSteps
    <2>2. QED
      BY <1>1, <1>3, <2>1, Deployed, GotoKeeps
  <1>5. AppliedService \in Service /\ AppliedService.release = ctl.rt.desired
    <2>1. PICK uid \in Uids : uid = FreshUid(IF runtime.svc = None THEN None ELSE runtime.svc[1])
      BY FreshFacts
    <2>2. PICK v \in Versions : v = FreshVersion
      BY FreshFacts
    <2>3. ctl.rt.desired \in Releases /\ ctl.rt.gen \in Nat /\ svc \in Option(Service)
      BY <1>1, Deployed DEF Reconciliation, WorkRuntimeState, ClusterTyped
    <2>4. CASE svc = None
      BY <2>1, <2>2, <2>3, <2>4 DEF AppliedService, release_id, Service
    <2>5. CASE svc # None /\ svc.release = release_id /\ svc.gen = ctl.rt.gen
      BY <2>3, <2>5 DEF AppliedService, release_id, Option
    <2>6. CASE svc # None /\ ~(svc.release = release_id /\ svc.gen = ctl.rt.gen)
      BY <2>2, <2>3, <2>6 DEF AppliedService, release_id, Service, Option
    <2>7. QED
      BY <2>4, <2>5, <2>6
  <1>6. UNCHANGED <<deps, ing, policy>>
    BY DEF apply_service
  <1>7. /\ ClusterTyped'
        /\ svc' = svc \/ (svc' # None /\ svc'.release = ctl.rt.desired)
        /\ svc # None => svc' # None
        /\ to # "failed" => svc' # None
    BY <1>1, <1>3, <1>5, <1>6, Deployed, FreshFacts DEF ClusterTyped, Option
  <1>8. PublishPathOK'
    BY <1>1, <1>2, <1>3, <1>4, <1>6, <1>7, Deployed, PublishPathStep
       DEF DeployedSteps, PublishSteps, ServedSteps, Quiet
  <1>9. runtime.status = "Published" /\ exposed /\ ~drift =>
          ing' # None /\ svc' # None /\ svc'.release = runtime.current
    BY <1>1, <1>6, <1>7, Deployed, Publishing DEF CInv, StatusOK
  <1>10. ~drift /\ svc' # None =>
          /\ deps'[svc'.release] # None
          /\ runtime.current # None => deps'[runtime.current] # None
    BY <1>1, <1>2, <1>6, <1>7, Deployed DEF CInv, VisitorsOK, Switching, release_id
  <1>11. QED
    BY <1>1, <1>3, <1>4, <1>6, <1>7, <1>8, <1>9, <1>10, Deployed, PublishMove DEF PublishSteps

(* The Ingress is added in front of a Service that is there or still to be *)
(* switched.                                                               *)
LEMMA IngressStep ==
  ASSUME CInv, Quiet, apply_ingress
  PROVE  ControllerTypeOK' /\ ViewOK' /\ PublishPathOK' /\ DeletePathOK'
         /\ StatusOK' /\ VisitorsOK'
PROOF
  <1>1. ctl.step = "ingress" /\ ctl.step \in DeployedSteps
    BY DEF apply_ingress, At, DeployedSteps, PublishSteps
  <1>2. ~Switching => svc # None
    BY <1>1 DEF CInv, PublishPathOK
  <1>3. PICK to \in {"failed", "switch", "external"} :
          /\ Goto(to)
          /\ to = "switch" => Switching
          /\ to = "external" => ~Switching
    BY DEF apply_ingress
  <1>4. ctl' \in Reconciliation /\ ctl'.step = to /\ ctl'.event = ctl.event
        /\ ctl'.rt = ctl.rt /\ ctl'.dep = ctl.dep
    <2>1. to \in WorkingSteps
      BY <1>3 DEF WorkingSteps, PublishSteps
    <2>2. QED
      BY <1>1, <1>3, <2>1, Deployed, GotoKeeps
  <1>5. UNCHANGED <<deps, svc, policy>>
    BY DEF apply_ingress
  <1>6. ing' \in Option(Uids) /\ (ing # None => ing' # None)
    <2>1. PICK uid \in Uids : uid = FreshUid(runtime.ing)
      BY FreshFacts
    <2>2. ing' = ing \/ (ing = None /\ ing' = uid)
      BY <2>1 DEF apply_ingress
    <2>3. QED
      BY <1>1, <2>2, Deployed DEF ClusterTyped, Option
  <1>7. ClusterTyped'
    BY <1>1, <1>5, <1>6, Deployed DEF ClusterTyped
  <1>8. PublishPathOK'
    BY <1>1, <1>2, <1>3, <1>4, <1>5, Deployed, PublishPathStep
       DEF DeployedSteps, PublishSteps, ServedSteps, Quiet
  <1>9. runtime.status = "Published" /\ exposed /\ ~drift =>
          ing' # None /\ svc' # None /\ svc'.release = runtime.current
    BY <1>5, <1>6 DEF CInv, StatusOK
  <1>10. ~drift /\ svc' # None =>
          /\ deps'[svc'.release] # None
          /\ runtime.current # None => deps'[runtime.current] # None
    BY <1>5 DEF CInv, VisitorsOK
  <1>11. QED
    BY <1>1, <1>3, <1>4, <1>5, <1>6, <1>7, <1>8, <1>9, <1>10, Deployed, PublishMove
       DEF PublishSteps

(* Moving the selector keeps the Service. *)
LEMMA SwitchedFacts ==
  ASSUME svc \in Service, NEW to \in Releases
  PROVE  Switched(to) \in Service /\ Switched(to).release = to
PROOF
  <1>1. PICK v \in Versions : v = FreshVersion
    BY FreshFacts
  <1>2. QED
    BY <1>1 DEF Switched, Service

(* A switch is for a release other than the one in service, so nothing is  *)
(* Published meanwhile.                                                    *)
LEMMA SwitchingFacts ==
  ASSUME CInv, ctl.step \in PublishSteps, Switching
  PROVE  /\ runtime.status # "Published"
         /\ ctl.rt.current = runtime.current
         /\ ctl.rt.current \in Releases
PROOF
  <1>1. ctl.rt.current = runtime.current /\ ctl.rt.current # None /\ ctl.rt.current # ctl.rt.desired
        /\ (runtime.status = "Published" => ctl.rt.desired = runtime.current)
    BY Publishing DEF Switching, release_id
  <1>2. runtime.current \in Option(Releases)
    BY RuntimeFacts DEF CInv, WorkRuntimeState
  <1>3. QED
    BY <1>1, <1>2 DEF Option

(* The selector moves to green only while green's Deployment is there. *)
LEMMA SwitchStep ==
  ASSUME CInv, Quiet, switch_stable_service
  PROVE  ControllerTypeOK' /\ ViewOK' /\ PublishPathOK' /\ DeletePathOK'
         /\ StatusOK' /\ VisitorsOK'
PROOF
  <1>1. ctl.step = "switch" /\ ctl.step \in DeployedSteps
    BY DEF switch_stable_service, At, DeployedSteps, PublishSteps
  <1>2. Switching
    BY <1>1 DEF CInv, PublishPathOK
  <1>3. PICK to \in {"failed", "endpoints"} :
          /\ Goto(to)
          /\ to = "failed" => svc' = svc
          /\ to = "endpoints" => svc # None /\ svc' = Switched(ctl.rt.desired)
    BY DEF switch_stable_service, CanSwitch, release_id
  <1>4. ctl' \in Reconciliation /\ ctl'.step = to /\ ctl'.event = ctl.event
        /\ ctl'.rt = ctl.rt /\ ctl'.dep = ctl.dep
    <2>1. to \in WorkingSteps
      BY <1>3 DEF WorkingSteps, PublishSteps
    <2>2. QED
      BY <1>1, <1>3, <2>1, Deployed, GotoKeeps
  <1>5. UNCHANGED <<deps, ing, policy>>
    BY DEF switch_stable_service
  <1>6. /\ svc' \in Option(Service)
        /\ svc' = svc \/ (svc # None /\ svc' # None /\ svc'.release = ctl.rt.desired)
        /\ to = "endpoints" => svc' # None
    <2>1. svc # None => svc \in Service
      BY <1>1, Deployed DEF ClusterTyped, Option
    <2>2. QED
      BY <1>1, <1>3, <2>1, Deployed, SwitchedFacts, FreshFacts DEF ClusterTyped, Option
  <1>7. ClusterTyped' /\ (svc # None => svc' # None)
    BY <1>1, <1>5, <1>6, Deployed DEF ClusterTyped
  <1>8. PublishPathOK'
    BY <1>1, <1>2, <1>3, <1>4, <1>5, <1>6, Deployed, PublishPathStep
       DEF DeployedSteps, PublishSteps, ServedSteps, Quiet
  <1>9. ~(runtime.status = "Published")
    BY <1>1, <1>2, Deployed, SwitchingFacts
  <1>10. ~drift /\ svc' # None =>
          /\ deps'[svc'.release] # None
          /\ runtime.current # None => deps'[runtime.current] # None
    BY <1>1, <1>5, <1>6, Deployed DEF CInv, VisitorsOK
  <1>11. QED
    BY <1>1, <1>3, <1>4, <1>5, <1>7, <1>8, <1>9, <1>10, Deployed, PublishMove
       DEF PublishSteps

(* Endpoints that never show green send the switch back. *)
LEMMA EndpointsStep ==
  ASSUME CInv, Quiet, wait_endpoint_slice_release
  PROVE  ControllerTypeOK' /\ ViewOK' /\ PublishPathOK' /\ DeletePathOK'
         /\ StatusOK' /\ VisitorsOK'
PROOF
  <1>1. ctl.step = "endpoints" /\ ctl.step \in DeployedSteps
    BY DEF wait_endpoint_slice_release, At, DeployedSteps, PublishSteps
  <1>2. Switching /\ svc # None
    BY <1>1 DEF CInv, PublishPathOK, ServedSteps
  <1>3. PICK to \in {"restore", "report_switched", "external", "report_ready"} :
          Goto(to) /\ (to = "report_ready" => ~exposed)
    BY DEF wait_endpoint_slice_release
  <1>4. ctl' \in Reconciliation /\ ctl'.step = to /\ ctl'.event = ctl.event
        /\ ctl'.rt = ctl.rt /\ ctl'.dep = ctl.dep
    <2>1. to \in WorkingSteps
      BY <1>3 DEF WorkingSteps, PublishSteps
    <2>2. QED
      BY <1>1, <1>3, <2>1, Deployed, GotoKeeps
  <1>5. UNCHANGED <<deps, svc, ing, policy>> /\ policy' \in BOOLEAN
    BY <1>1, Deployed DEF wait_endpoint_slice_release, cluster, ClusterTyped
  <1>6. PublishPathOK'
    BY <1>1, <1>2, <1>3, <1>4, <1>5, Deployed, PublishPathStep
       DEF DeployedSteps, PublishSteps, ServedSteps, Quiet
  <1>7. QED
    BY <1>1, <1>3, <1>4, <1>5, <1>6, Deployed, PublishWait DEF PublishSteps

(* The public host is asked for the release before it is reported. *)
LEMMA ExternalStep ==
  ASSUME CInv, Quiet, verify_external_release
  PROVE  ControllerTypeOK' /\ ViewOK' /\ PublishPathOK' /\ DeletePathOK'
         /\ StatusOK' /\ VisitorsOK'
PROOF
  <1>1. ctl.step = "external" /\ ctl.step \in DeployedSteps
    BY DEF verify_external_release, At, DeployedSteps, PublishSteps
  <1>2. svc # None
    BY <1>1 DEF CInv, PublishPathOK, ServedSteps
  <1>3. PICK to \in {"report_ready", "restore", "failed"} :
          /\ Goto(to)
          /\ to = "report_ready" => Traffic = ctl.rt.desired
          /\ to = "restore" => Switching
    BY DEF verify_external_release, release_id
  <1>4. ctl' \in Reconciliation /\ ctl'.step = to /\ ctl'.event = ctl.event
        /\ ctl'.rt = ctl.rt /\ ctl'.dep = ctl.dep
    <2>1. to \in WorkingSteps
      BY <1>3 DEF WorkingSteps, PublishSteps
    <2>2. QED
      BY <1>1, <1>3, <2>1, Deployed, GotoKeeps
  <1>5. UNCHANGED <<deps, svc, ing, policy>> /\ policy' \in BOOLEAN
    BY <1>1, Deployed DEF verify_external_release, cluster, ClusterTyped
  <1>6. to = "report_ready" => ing # None /\ svc.release = ctl.rt.desired
    BY <1>1, <1>3, Deployed, FreshFacts DEF Traffic
  <1>7. PublishPathOK'
    BY <1>1, <1>2, <1>3, <1>4, <1>5, <1>6, Deployed, PublishPathStep
       DEF DeployedSteps, PublishSteps, ServedSteps, Quiet
  <1>8. QED
    BY <1>1, <1>3, <1>4, <1>5, <1>7, Deployed, PublishWait DEF PublishSteps

(* Going back to blue finds blue's Deployment still there. *)
LEMMA RestoreStep ==
  ASSUME CInv, Quiet, restore_previous_release
  PROVE  ControllerTypeOK' /\ ViewOK' /\ PublishPathOK' /\ DeletePathOK'
         /\ StatusOK' /\ VisitorsOK'
PROOF
  <1>1. ctl.step = "restore" /\ ctl.step \in DeployedSteps
    BY DEF restore_previous_release, At, DeployedSteps, PublishSteps
  <1>2. Switching /\ svc # None
    BY <1>1 DEF CInv, PublishPathOK, ServedSteps
  <1>3. ctl' \in Reconciliation /\ ctl'.step = "failed" /\ ctl'.event = ctl.event
        /\ ctl'.rt = ctl.rt /\ ctl'.dep = ctl.dep
    <2>1. "failed" \in WorkingSteps
      BY DEF WorkingSteps
    <2>2. QED
      BY <1>1, <2>1, Deployed, GotoKeeps DEF restore_previous_release
  <1>4. UNCHANGED <<deps, ing, policy>>
    BY DEF restore_previous_release
  <1>5. /\ runtime.status # "Published"
        /\ ctl.rt.current = runtime.current
        /\ ctl.rt.current \in Releases
    BY <1>1, <1>2, Deployed, SwitchingFacts
  <1>6. /\ svc' \in Service
        /\ svc' = svc \/ svc'.release = runtime.current
    <2>1. svc \in Service
      BY <1>1, <1>2, Deployed DEF ClusterTyped, Option
    <2>2. QED
      BY <1>5, <2>1, SwitchedFacts DEF restore_previous_release
  <1>7. ClusterTyped' /\ svc' # None
    BY <1>1, <1>4, <1>6, Deployed, FreshFacts DEF ClusterTyped, Option
  <1>8. PublishPathOK'
    BY <1>1, <1>2, <1>3, <1>4, <1>6, Deployed, PublishPathStep
       DEF DeployedSteps, PublishSteps, ServedSteps, Quiet
  <1>9. ~drift /\ svc' # None =>
          /\ deps'[svc'.release] # None
          /\ runtime.current # None => deps'[runtime.current] # None
    BY <1>2, <1>4, <1>5, <1>6, FreshFacts DEF CInv, VisitorsOK
  <1>10. QED
    BY <1>1, <1>3, <1>4, <1>5, <1>7, <1>8, <1>9, Deployed, PublishMove DEF PublishSteps

-----------------------------------------------------------------------------
(* The delete path *)

(* On the delete path the controller holds a whole record. *)
LEMMA DeletingFacts ==
  ASSUME CInv, ctl.step \in DeleteSteps
  PROVE  ctl \in Reconciliation /\ ClusterTyped
  BY AtWork DEF CInv, ControllerTypeOK, ClusterTyped, WorkingSteps

(* Taking the Ingress away leaves no public route. *)
LEMMA DeleteIngressStep ==
  ASSUME CInv, Quiet, delete_ingress
  PROVE  ControllerTypeOK' /\ ViewOK' /\ PublishPathOK' /\ DeletePathOK'
         /\ StatusOK' /\ VisitorsOK'
PROOF
  <1>1. ctl.step = "del_ingress" /\ ctl.step \in DeleteSteps
    BY DEF delete_ingress, At, DeleteSteps
  <1>2. PICK to \in {"failed", "del_service"} :
          /\ Goto(to) /\ ing' \in {ing, None}
          /\ to = "del_service" => ing' = None
    BY DEF delete_ingress
  <1>3. ctl' \in Reconciliation /\ ctl'.step = to /\ ctl'.event = ctl.event /\ ctl'.rt = ctl.rt
    <2>1. to \in WorkingSteps
      BY <1>2 DEF WorkingSteps, DeleteSteps
    <2>2. QED
      BY <1>1, <1>2, <2>1, DeletingFacts, GotoKeeps
  <1>4. UNCHANGED <<deps, svc, policy>> /\ ClusterTyped'
    BY <1>1, <1>2, DeletingFacts DEF delete_ingress, ClusterTyped, Option
  <1>5. \A release \in Releases : deps'[release] \in {deps[release], None}
    BY <1>4
  <1>6. QED
    BY <1>1, <1>2, <1>3, <1>4, <1>5, DeleteMove DEF DeleteSteps

(* The Service goes once the Ingress is gone. *)
LEMMA DeleteServiceStep ==
  ASSUME CInv, Quiet, delete_service
  PROVE  ControllerTypeOK' /\ ViewOK' /\ PublishPathOK' /\ DeletePathOK'
         /\ StatusOK' /\ VisitorsOK'
PROOF
  <1>1. ctl.step = "del_service" /\ ctl.step \in DeleteSteps /\ ing = None
    BY DEF delete_service, At, DeleteSteps, CInv, DeletePathOK
  <1>2. PICK to \in {"failed", "del_deployments"} :
          /\ Goto(to) /\ svc' \in {svc, None}
          /\ to = "del_deployments" => svc' = None
    BY DEF delete_service
  <1>3. ctl' \in Reconciliation /\ ctl'.step = to /\ ctl'.event = ctl.event /\ ctl'.rt = ctl.rt
    <2>1. to \in WorkingSteps
      BY <1>2 DEF WorkingSteps, DeleteSteps
    <2>2. QED
      BY <1>1, <1>2, <2>1, DeletingFacts, GotoKeeps
  <1>4. UNCHANGED <<deps, ing, policy>> /\ ClusterTyped'
    BY <1>1, <1>2, DeletingFacts DEF delete_service, ClusterTyped, Option
  <1>5. \A release \in Releases : deps'[release] \in {deps[release], None}
    BY <1>4
  <1>6. QED
    BY <1>1, <1>2, <1>3, <1>4, <1>5, DeleteMove DEF DeleteSteps

(* The Deployments go once the Service is gone. *)
LEMMA DeleteDeploymentsStep ==
  ASSUME CInv, Quiet, delete_deployments
  PROVE  ControllerTypeOK' /\ ViewOK' /\ PublishPathOK' /\ DeletePathOK'
         /\ StatusOK' /\ VisitorsOK'
PROOF
  <1>1. ctl.step = "del_deployments" /\ ctl.step \in DeleteSteps /\ ing = None /\ svc = None
    BY DEF delete_deployments, At, DeleteSteps, CInv, DeletePathOK
  <1>2. PICK to \in {"del_deployments", "del_policy"} :
          /\ ctl' = ctl \/ Goto(to)
          /\ to = "del_deployments" => ctl' = ctl
          /\ to = "del_policy" =>
               Goto(to) /\ deps' = deps /\ \A release \in Releases : deps[release] = None
    BY DEF delete_deployments
  <1>3. ctl' \in Reconciliation /\ ctl'.step = to /\ ctl'.event = ctl.event /\ ctl'.rt = ctl.rt
    <2>1. to \in WorkingSteps
      BY <1>2 DEF WorkingSteps, DeleteSteps
    <2>2. QED
      BY <1>1, <1>2, <2>1, DeletingFacts, GotoKeeps
  <1>4. /\ deps' \in [Releases -> Option(Uids)]
        /\ \A release \in Releases : deps'[release] \in {deps[release], None}
    BY <1>1, DeletingFacts DEF delete_deployments, ClusterTyped, Option
  <1>5. UNCHANGED <<svc, ing, policy>> /\ ClusterTyped'
    BY <1>1, <1>4, DeletingFacts DEF delete_deployments, ClusterTyped
  <1>6. QED
    BY <1>1, <1>2, <1>3, <1>4, <1>5, DeleteMove DEF DeleteSteps

(* The NetworkPolicy goes last. *)
LEMMA DeletePolicyStep ==
  ASSUME CInv, Quiet, delete_policy
  PROVE  ControllerTypeOK' /\ ViewOK' /\ PublishPathOK' /\ DeletePathOK'
         /\ StatusOK' /\ VisitorsOK'
PROOF
  <1>1. ctl.step = "del_policy" /\ ctl.step \in DeleteSteps /\ ing = None /\ svc = None
        /\ \A release \in Releases : deps[release] = None
    BY DEF delete_policy, At, DeleteSteps, CInv, DeletePathOK
  <1>2. ctl' \in Reconciliation /\ ctl'.step = "report_unpublished" /\ ctl'.event = ctl.event
        /\ ctl'.rt = ctl.rt
    <2>1. "report_unpublished" \in WorkingSteps
      BY DEF WorkingSteps, DeleteSteps
    <2>2. QED
      BY <1>1, <2>1, DeletingFacts, GotoKeeps DEF delete_policy
  <1>3. UNCHANGED <<deps, svc, ing>> /\ policy' = FALSE /\ ClusterTyped'
    BY <1>1, DeletingFacts DEF delete_policy, ClusterTyped
  <1>4. \A release \in Releases : deps'[release] = None
    BY <1>1, <1>3
  <1>5. QED
    BY <1>1, <1>2, <1>3, <1>4, DeleteMove DEF DeleteSteps

-----------------------------------------------------------------------------
(* Failures and drift, picking up work, and restarts *)

(* A call that fails leaves the cluster as it is and ends the reconcile,   *)
(* or takes the switch back.                                               *)
LEMMA FailStep ==
  ASSUME CInv, Quiet, StepFails
  PROVE  ControllerTypeOK' /\ ViewOK' /\ PublishPathOK' /\ DeletePathOK'
         /\ StatusOK' /\ VisitorsOK'
PROOF
  <1>1. PICK to \in {"failed", "restore"} :
          /\ Goto(to)
          /\ to = "restore" =>
               ctl.step = "endpoints" \/ (ctl.step = "external" /\ Switching)
    BY DEF StepFails
  <1>2. ctl.step \in PublishSteps \cup DeleteSteps
    BY DEF StepFails, PublishSteps, DeleteSteps
  <1>3. ctl \in Reconciliation /\ ClusterTyped
    BY <1>2, AtWork DEF CInv, ControllerTypeOK, ClusterTyped, WorkingSteps
  <1>4. ctl' \in Reconciliation /\ ctl'.step = to /\ ctl'.event = ctl.event
        /\ ctl'.rt = ctl.rt /\ ctl'.dep = ctl.dep
    <2>1. to \in WorkingSteps
      BY <1>1 DEF WorkingSteps, PublishSteps
    <2>2. QED
      BY <1>1, <1>3, <2>1, GotoKeeps
  <1>5. UNCHANGED <<deps, svc, ing, policy>> /\ policy' \in BOOLEAN
    BY <1>3 DEF StepFails, ClusterTyped
  <1>6. CASE ctl.step \in PublishSteps
    <2>1. to = "restore" => /\ ctl.step \in DeployedSteps /\ ctl.step \in ServedSteps
                              /\ Switching /\ svc # None
      BY <1>1 DEF CInv, PublishPathOK, DeployedSteps, ServedSteps, PublishSteps
    <2>2. PublishPathOK'
      BY <1>1, <1>4, <1>5, <1>6, <2>1, Deployed, PublishPathStep
         DEF DeployedSteps, PublishSteps, ServedSteps, Quiet
    <2>3. QED
      BY <1>1, <1>4, <1>5, <1>6, <2>2, PublishWait DEF PublishSteps
  <1>7. CASE ctl.step \in DeleteSteps
    <2>1. to = "failed"
      BY <1>1, <1>7 DEF DeleteSteps
    <2>2. \A release \in Releases : deps'[release] \in {deps[release], None}
      BY <1>5
    <2>3. ClusterTyped'
      BY <1>3, <1>5 DEF ClusterTyped
    <2>4. QED
      BY <1>4, <1>5, <1>7, <2>1, <2>2, <2>3, DeleteMove DEF DeleteSteps
  <1>8. QED
    BY <1>2, <1>6, <1>7

(* With drift, a Deployment may be gone at any time; nothing here says     *)
(* otherwise.                                                              *)
LEMMA DriftStep ==
  ASSUME CInv, Quiet, DeleteDeployment
  PROVE  ControllerTypeOK' /\ ViewOK' /\ PublishPathOK' /\ DeletePathOK'
         /\ StatusOK' /\ VisitorsOK'
PROOF
  <1>1. drift /\ drift' /\ exposed' = exposed
    BY DEF DeleteDeployment, Quiet, config
  <1>2. UNCHANGED <<ctl, svc, ing, policy>>
    BY DEF DeleteDeployment
  <1>3. /\ deps' \in [Releases -> Option(Uids)]
        /\ \A release \in Releases : deps[release] = None => deps'[release] = None
    BY DEF DeleteDeployment, CInv, ControllerTypeOK, Option
  <1>4. runtime' = runtime /\ (AskedToUnpublish => AskedToUnpublish') /\ disk' = mem'
    BY DEF Quiet, runtime, AskedToUnpublish, Known, CInv, ControllerTypeOK
  <1>5. ControllerTypeOK'
    BY <1>2, <1>3, <1>4 DEF CInv, ControllerTypeOK, Quiet
  <1>6. ViewOK'
    BY <1>2, <1>4 DEF CInv, ViewOK, Quiet, Known
  <1>7. PublishPathOK'
    BY <1>1, <1>2 DEF CInv, PublishPathOK, Switching, release_id
  <1>8. DeletePathOK'
    BY <1>2, <1>3, <1>4 DEF CInv, DeletePathOK
  <1>9. StatusOK'
    BY <1>1, <1>2, <1>3, <1>4 DEF CInv, StatusOK
  <1>10. VisitorsOK'
    BY <1>1, <1>2, <1>4 DEF CInv, VisitorsOK
  <1>11. QED
    BY <1>5, <1>6, <1>7, <1>8, <1>9, <1>10

(* At rest, or with an event in hand and nothing read, the controller      *)
(* promises nothing: any step that leaves store and cluster alone is fine. *)
LEMMA RestStep ==
  ASSUME CInv, Quiet, UNCHANGED <<deps, svc, ing, policy>>,
         ctl' = Idle \/ (/\ ctl' \in [step : {"listed"}, event : OpId]
                         /\ Known(mem, ctl'.event))
  PROVE  ControllerTypeOK' /\ ViewOK' /\ PublishPathOK' /\ DeletePathOK'
         /\ StatusOK' /\ VisitorsOK'
PROOF
  <1>1. ctl'.step \in {"idle", "listed"} /\ (ctl' # Idle => Known(mem, ctl'.event))
    BY DEF Idle
  <1>2. ctl'.step \notin WorkingSteps
    BY <1>1 DEF WorkingSteps, PublishSteps, DeleteSteps
  <1>3. /\ runtime' = runtime /\ (AskedToUnpublish => AskedToUnpublish') /\ disk' = mem'
        /\ exposed' = exposed /\ drift' = drift
    BY DEF Quiet, runtime, AskedToUnpublish, Known, CInv, ControllerTypeOK, config
  <1>4. ControllerTypeOK'
    BY <1>3 DEF CInv, ControllerTypeOK, Idle
  <1>5. ViewOK'
    BY <1>1, <1>2, <1>3 DEF ViewOK, Quiet, Known
  <1>6. PublishPathOK' /\ DeletePathOK'
    BY <1>1, <1>2 DEF PublishPathOK, DeletePathOK, WorkingSteps, PublishSteps, DeleteSteps,
       DeployedSteps, ServedSteps
  <1>7. StatusOK'
    BY <1>3 DEF CInv, StatusOK
  <1>8. VisitorsOK'
    BY <1>3 DEF CInv, VisitorsOK
  <1>9. QED
    BY <1>4, <1>5, <1>6, <1>7, <1>8

(* What the invariant says stays true when nothing it speaks of changes. *)
LEMMA StandStill ==
  ASSUME CInv, Quiet, UNCHANGED <<ctl, deps, svc, ing, policy>>
  PROVE  ControllerTypeOK' /\ ViewOK' /\ PublishPathOK' /\ DeletePathOK'
         /\ StatusOK' /\ VisitorsOK'
PROOF
  <1>1. /\ runtime' = runtime /\ (AskedToUnpublish => AskedToUnpublish') /\ disk' = mem'
        /\ exposed' = exposed /\ drift' = drift
    BY DEF Quiet, runtime, AskedToUnpublish, Known, CInv, ControllerTypeOK, config
  <1>2. ControllerTypeOK'
    BY <1>1 DEF CInv, ControllerTypeOK
  <1>3. ViewOK'
    BY <1>1 DEF CInv, ViewOK, Quiet, Known
  <1>4. PublishPathOK'
    BY <1>1 DEF CInv, PublishPathOK, Switching, release_id
  <1>5. DeletePathOK'
    BY <1>1 DEF CInv, DeletePathOK
  <1>6. StatusOK' /\ VisitorsOK'
    BY <1>1 DEF CInv, StatusOK, VisitorsOK
  <1>7. QED
    BY <1>2, <1>3, <1>4, <1>5, <1>6

(* Reading the record again gives the controller the store's present one;  *)
(* an Unpublished one was asked for.                                       *)
LEMMA BeginStep ==
  ASSUME CInv, Quiet, begin_reconcile
  PROVE  ControllerTypeOK' /\ ViewOK' /\ PublishPathOK' /\ DeletePathOK'
         /\ StatusOK' /\ VisitorsOK'
PROOF
  <1>1. ctl.step = "listed" /\ ctl.event \in OpId /\ Known(mem, ctl.event)
    <2>1. ctl.step = "listed" /\ "listed" \notin WorkingSteps /\ Idle.step # "listed"
      BY DEF begin_reconcile, At, WorkingSteps, PublishSteps, DeleteSteps, Idle
    <2>2. ctl \notin Reconciliation /\ ctl # Idle
      BY <2>1 DEF Reconciliation
    <2>3. ctl \in [step : {"listed"}, event : OpId]
      BY <2>2 DEF CInv, ControllerTypeOK
    <2>4. QED
      BY <2>1, <2>2, <2>3 DEF CInv, ViewOK
  <1>2. PICK to \in {"policy", "del_ingress"} :
          to = IF runtime.publication = "Published" THEN "policy" ELSE "del_ingress"
    OBVIOUS
  <1>3. runtime \in WorkRuntimeState /\ mem.operations[ctl.event] \in PublishOperation
        /\ mem.operations[ctl.event].gen <= runtime.gen
        /\ ((runtime.publication = "Published") <=> (runtime.desired # None))
    BY <1>1, RuntimeFacts DEF CInv
  <1>4. /\ ctl' \in Reconciliation /\ ctl'.step = to /\ ctl'.event = ctl.event
        /\ ctl'.rt = runtime /\ ctl' # Idle
    <2>1. PICK checkpoint \in PublishCheckpoint : checkpoint = mem.operations[ctl.event].checkpoint
      BY <1>3 DEF PublishOperation
    <2>2. ctl' = [step |-> to, event |-> ctl.event, rt |-> runtime,
                  checkpoint |-> checkpoint, dep |-> None]
      BY <1>2, <2>1 DEF begin_reconcile
    <2>3. to \in WorkingSteps
      BY <1>2 DEF WorkingSteps, PublishSteps, DeleteSteps
    <2>4. /\ ctl' \in Reconciliation /\ ctl'.step = to /\ ctl'.event = ctl.event
          /\ ctl'.rt = runtime
      BY <1>1, <1>3, <2>2, <2>3 DEF Reconciliation, Option
    <2>5. ctl' # Idle
      BY <1>2, <2>4 DEF Idle
    <2>6. QED
      BY <2>4, <2>5
  <1>5. UNCHANGED <<deps, svc, ing, policy>>
    BY DEF begin_reconcile, cluster
  <1>6. /\ runtime' = runtime /\ (AskedToUnpublish => AskedToUnpublish') /\ disk' = mem'
        /\ exposed' = exposed /\ drift' = drift
    BY DEF Quiet, runtime, AskedToUnpublish, Known, CInv, ControllerTypeOK, config
  <1>7. ControllerTypeOK'
    BY <1>4, <1>5, <1>6 DEF CInv, ControllerTypeOK
  <1>8. ViewOK'
    <2>1. runtime.gen \in Nat
      BY <1>3 DEF WorkRuntimeState
    <2>2. QED
      BY <1>1, <1>3, <1>4, <1>6, <2>1 DEF ViewOK, Quiet, Known
  <1>9. PublishPathOK'
    <2>1. to = "policy" => runtime.publication = "Published" /\ runtime.desired \in Releases
      BY <1>2, <1>3 DEF WorkRuntimeState, Option
    <2>2. QED
      BY <1>2, <1>4, <2>1 DEF PublishPathOK, PublishSteps, DeployedSteps, ServedSteps
  <1>10. DeletePathOK'
    <2>1. to = "del_ingress" => runtime.publication = "Unpublished" /\ runtime.gen > 0
      BY <1>1, <1>2, <1>3 DEF WorkRuntimeState, PublishOperation, Known
    <2>2. to = "del_ingress" => AskedToUnpublish'
      BY <1>6, <2>1 DEF CInv, VisitorsOK
    <2>3. QED
      BY <1>2, <1>4, <2>1, <2>2 DEF DeletePathOK, DeleteSteps
  <1>11. StatusOK'
    BY <1>5, <1>6 DEF CInv, StatusOK
  <1>12. VisitorsOK'
    BY <1>5, <1>6 DEF CInv, VisitorsOK
  <1>13. QED
    BY <1>7, <1>8, <1>9, <1>10, <1>11, <1>12

-----------------------------------------------------------------------------
(* Steps that change the store *)

(* A commit for an event of the project replaces the project's record. *)
LEMMA CommitRuntime ==
  ASSUME Inv, NEW id \in OpId, NEW op, NEW rt, NEW ev,
         mem' = apply_commit(mem, id, op, rt, ev)
  PROVE  runtime' = rt
PROOF
  <1>1. mem \in PublicationSnapshot
    BY DEF Inv, SnapOK
  <1>2. mem'.runtimes = [mem.runtimes EXCEPT ![project] = rt]
    BY OneProject DEF apply_commit
  <1>3. QED
    BY <1>1, <1>2, OneProject DEF PublicationSnapshot, runtime

(* A report the store accepts is about the record the controller read: no  *)
(* newer intent came in between.                                           *)
LEMMA AcceptedIsFresh ==
  ASSUME CInv, ctl.step \in WorkingSteps, Updatable(mem, ctl.event)
  PROVE  /\ ctl \in Reconciliation
         /\ ctl.event \in OpId
         /\ RuntimeOf(mem, ctl.event) = runtime
         /\ ctl.rt.desired = runtime.desired
         /\ ctl.rt.publication = runtime.publication
         /\ ctl.rt.current = runtime.current
PROOF
  <1>1. ctl \in Reconciliation /\ ctl.event \in OpId
    BY AtWork DEF CInv, Reconciliation
  <1>2. runtime \in WorkRuntimeState /\ RuntimeOf(mem, ctl.event) = runtime
    BY <1>1, RuntimeFacts DEF CInv
  <1>3. mem.operations[ctl.event].gen = runtime.gen
    BY <1>2 DEF Updatable
  <1>4. /\ mem.operations[ctl.event].gen <= ctl.rt.gen
        /\ ctl.rt.gen <= runtime.gen
        /\ ctl.rt.current = runtime.current
        /\ IF ctl.rt.gen = runtime.gen
           THEN ctl.rt.desired = runtime.desired /\ ctl.rt.publication = runtime.publication
           ELSE runtime.status \in InProgress
    BY DEF CInv, ViewOK
  <1>5. ctl.rt.gen \in Nat /\ runtime.gen \in Nat
    BY <1>1, <1>2 DEF Reconciliation, WorkRuntimeState
  <1>6. ctl.rt.gen = runtime.gen
    BY <1>3, <1>4, <1>5
  <1>7. QED
    BY <1>1, <1>2, <1>4, <1>6

(* An accepted report puts the controller to rest; what is left to show is *)
(* that the store now says what is true.                                   *)
LEMMA ReportKeeps ==
  ASSUME CInv, Extends(mem, mem'), ctl' = Idle, disk' = mem',
         UNCHANGED <<deps, svc, ing>>, UNCHANGED policy, UNCHANGED config,
         runtime'.publication = runtime.publication,
         runtime'.gen = runtime.gen,
         StatusOK',
         runtime'.current = runtime.current \/
           /\ exposed /\ runtime'.current # None => ing # None /\ svc # None
           /\ ~drift /\ runtime'.current # None => deps[runtime'.current] # None
  PROVE  ControllerTypeOK' /\ ViewOK' /\ PublishPathOK' /\ DeletePathOK'
         /\ StatusOK' /\ VisitorsOK'
PROOF
  <1>1. Idle.step \notin WorkingSteps
    BY DEF Idle, WorkingSteps, PublishSteps, DeleteSteps
  <1>2. AskedToUnpublish => AskedToUnpublish'
    BY AskedForward DEF CInv
  <1>3. exposed' = exposed /\ drift' = drift
    BY DEF config
  <1>4. ControllerTypeOK'
    BY DEF CInv, ControllerTypeOK
  <1>5. ViewOK'
    BY <1>1 DEF ViewOK
  <1>6. PublishPathOK' /\ DeletePathOK'
    BY <1>1 DEF PublishPathOK, DeletePathOK, WorkingSteps, PublishSteps, DeleteSteps,
       DeployedSteps, ServedSteps
  <1>7. VisitorsOK'
    BY <1>2, <1>3 DEF CInv, VisitorsOK
  <1>8. QED
    BY <1>4, <1>5, <1>6, <1>7

(* What record_workload_ready makes of the project's record. *)
LEMMA ReadyRuntime ==
  ASSUME Inv, NEW id \in OpId, RuntimeOf(mem, id) = runtime, NEW dep, NEW named, NEW route,
         mem' = WorkloadReady(mem, id, dep, named, route)
  PROVE  /\ runtime'.current = runtime.desired
         /\ runtime'.desired = runtime.desired
         /\ runtime'.publication = runtime.publication
         /\ runtime'.gen = runtime.gen
         /\ runtime'.status \in {"Published", "Updating", "Publishing"}
         /\ runtime'.status = "Published" => route # None \/ runtime.status = "Published"
PROOF
  <1> DEFINE previous == IF runtime.current # runtime.desired
                         THEN runtime.current ELSE runtime.previous
             status == CASE route # None \/ runtime.status = "Published" -> "Published"
                         [] previous # None -> "Updating"
                         [] OTHER -> "Publishing"
             rt == [runtime EXCEPT !.previous = previous,
                                   !.current = runtime.desired,
                                   !.lastSuccessful = runtime.desired,
                                   !.dep = dep,
                                   !.svc = named,
                                   !.ing = IF route # None THEN route ELSE runtime.ing,
                                   !.observed = runtime.gen,
                                   !.status = status]
  <1>1. PICK op, ev : mem' = apply_commit(mem, id, op, rt, ev)
    BY DEF WorkloadReady
  <1>2. /\ status \in {"Published", "Updating", "Publishing"}
        /\ status = "Published" => route # None \/ runtime.status = "Published"
    OBVIOUS
  <1> HIDE DEF status, previous
  <1>3. runtime \in WorkRuntimeState
    BY RuntimeFacts
  <1>4. runtime' = rt
    BY <1>1, CommitRuntime
  <1>5. QED
    BY <1>2, <1>3, <1>4 DEF WorkRuntimeState

(* record_workload_ready: what is now current is deployed and routed. *)
LEMMA ReadyReported ==
  ASSUME CInv, Extends(mem, mem'), UNCHANGED config, At("report_ready"),
         Updatable(mem, ctl.event), runtime.desired # None,
         Persisted(WorkloadReady(mem, ctl.event, ctl.dep, <<svc.uid, svc.version>>,
                                 IF exposed THEN ing ELSE None)),
         ctl' = Idle, UNCHANGED cluster
  PROVE  ControllerTypeOK' /\ ViewOK' /\ PublishPathOK' /\ DeletePathOK'
         /\ StatusOK' /\ VisitorsOK'
PROOF
  <1>1. ctl.step = "report_ready" /\ ctl.step \in PublishSteps /\ ctl.step \in WorkingSteps
        /\ ctl.step \in DeployedSteps /\ ctl.step \in ServedSteps
    BY DEF At, PublishSteps, WorkingSteps, DeployedSteps, ServedSteps
  <1>2. /\ ctl.event \in OpId
        /\ RuntimeOf(mem, ctl.event) = runtime
        /\ ctl.rt.desired = runtime.desired
        /\ ctl.rt.publication = runtime.publication
    BY <1>1, AcceptedIsFresh
  <1>3. /\ ctl.rt.publication = "Published" /\ ctl.rt.desired \in Releases
        /\ ~drift => deps[ctl.rt.desired] # None
        /\ svc # None
        /\ exposed => ing # None /\ (~drift => svc.release = ctl.rt.desired)
    BY <1>1 DEF CInv, PublishPathOK
  <1>4. runtime \in WorkRuntimeState
    BY RuntimeFacts DEF CInv
  <1>5. PICK route : route = IF exposed THEN ing ELSE None
    OBVIOUS
  <1>6. mem' = WorkloadReady(mem, ctl.event, ctl.dep, <<svc.uid, svc.version>>, route)
    BY <1>5 DEF Persisted
  <1>7. /\ runtime'.current = runtime.desired
        /\ runtime'.desired = runtime.desired
        /\ runtime'.publication = runtime.publication
        /\ runtime'.gen = runtime.gen
        /\ runtime'.status \in {"Published", "Updating", "Publishing"}
        /\ runtime'.status = "Published" => exposed \/ runtime.status = "Published"
    BY <1>2, <1>5, <1>6, ReadyRuntime DEF CInv
  <1>8. disk' = mem' /\ exposed' = exposed /\ drift' = drift
    BY DEF Persisted, config
  <1>9. StatusOK'
    <2>1. runtime'.status # "Unpublished"
      BY <1>7
    <2>2. runtime'.status = "Published" =>
            /\ runtime'.publication = "Published"
            /\ runtime'.current = runtime'.desired
            /\ exposed /\ ~drift => ing # None /\ svc # None /\ svc.release = runtime'.current
      BY <1>2, <1>3, <1>7
    <2>3. QED
      BY <1>7, <1>8, <2>1, <2>2 DEF StatusOK, cluster
  <1>10. UNCHANGED <<deps, svc, ing>> /\ UNCHANGED policy
    BY DEF cluster
  <1>11. /\ exposed /\ runtime'.current # None => ing # None /\ svc # None
         /\ ~drift /\ runtime'.current # None => deps[runtime'.current] # None
    BY <1>2, <1>3, <1>7
  <1>12. QED
    BY <1>7, <1>8, <1>9, <1>10, <1>11, ReportKeeps

(* record_traffic_switched: blue stays current until green has answered. *)
LEMMA SwitchReported ==
  ASSUME CInv, Extends(mem, mem'), UNCHANGED config, At("report_switched"),
         Updatable(mem, ctl.event),
         Persisted(TrafficSwitched(mem, ctl.event, <<svc.uid, svc.version>>,
                                   IF exposed THEN ing ELSE None)),
         ctl' = Idle, UNCHANGED cluster
  PROVE  ControllerTypeOK' /\ ViewOK' /\ PublishPathOK' /\ DeletePathOK'
         /\ StatusOK' /\ VisitorsOK'
PROOF
  <1>1. ctl.step \in WorkingSteps
    BY DEF At, PublishSteps, WorkingSteps
  <1>2. ctl.event \in OpId /\ RuntimeOf(mem, ctl.event) = runtime /\ runtime \in WorkRuntimeState
    BY <1>1, AcceptedIsFresh, RuntimeFacts DEF CInv
  <1>3. PICK op, ev, named, route :
          mem' = apply_commit(mem, ctl.event, op,
                   [runtime EXCEPT !.svc = named, !.ing = route, !.status = "Updating"], ev)
    BY <1>2 DEF Persisted, TrafficSwitched
  <1>4. /\ runtime'.current = runtime.current
        /\ runtime'.publication = runtime.publication
        /\ runtime'.gen = runtime.gen
        /\ runtime'.status = "Updating"
    <2>1. runtime' = [runtime EXCEPT !.svc = named, !.ing = route, !.status = "Updating"]
      BY <1>2, <1>3, CommitRuntime DEF CInv
    <2>2. QED
      BY <1>2, <2>1 DEF WorkRuntimeState
  <1>5. disk' = mem' /\ UNCHANGED <<deps, svc, ing>> /\ UNCHANGED policy
    BY DEF Persisted, cluster
  <1>6. StatusOK'
    BY <1>4 DEF StatusOK
  <1>7. QED
    BY <1>4, <1>5, <1>6, ReportKeeps

(* record_unpublished: everything is gone. *)
LEMMA UnpublishReported ==
  ASSUME CInv, Extends(mem, mem'), UNCHANGED config, At("report_unpublished"),
         Updatable(mem, ctl.event),
         Persisted(Unpublished(mem, ctl.event)),
         ctl' = Idle, UNCHANGED cluster
  PROVE  ControllerTypeOK' /\ ViewOK' /\ PublishPathOK' /\ DeletePathOK'
         /\ StatusOK' /\ VisitorsOK'
PROOF
  <1>1. ctl.step = "report_unpublished" /\ ctl.step \in DeleteSteps /\ ctl.step \in WorkingSteps
    BY DEF At, DeleteSteps, WorkingSteps
  <1>2. /\ ctl.event \in OpId /\ RuntimeOf(mem, ctl.event) = runtime
        /\ ctl.rt.publication = runtime.publication /\ runtime \in WorkRuntimeState
    BY <1>1, AcceptedIsFresh, RuntimeFacts DEF CInv
  <1>3. /\ ctl.rt.publication = "Unpublished"
        /\ ing = None /\ svc = None /\ policy = FALSE
        /\ \A release \in Releases : deps[release] = None
    BY <1>1 DEF CInv, DeletePathOK, DeleteSteps
  <1>4. PICK op, ev, previous :
          mem' = apply_commit(mem, ctl.event, op,
                   [runtime EXCEPT !.previous = previous, !.current = None,
                                   !.dep = None, !.svc = None, !.ing = None,
                                   !.observed = runtime.gen, !.status = "Unpublished"], ev)
    BY <1>2 DEF Persisted, Unpublished
  <1>5. /\ runtime'.current = None
        /\ runtime'.publication = runtime.publication
        /\ runtime'.gen = runtime.gen
        /\ runtime'.status = "Unpublished"
    <2>1. runtime' = [runtime EXCEPT !.previous = previous, !.current = None,
                                     !.dep = None, !.svc = None, !.ing = None,
                                     !.observed = runtime.gen, !.status = "Unpublished"]
      BY <1>2, <1>4, CommitRuntime DEF CInv
    <2>2. QED
      BY <1>2, <2>1 DEF WorkRuntimeState
  <1>6. disk' = mem' /\ UNCHANGED <<deps, svc, ing>> /\ UNCHANGED policy
    BY DEF Persisted, cluster
  <1>7. StatusOK'
    BY <1>2, <1>3, <1>5, <1>6 DEF StatusOK
  <1>8. QED
    BY <1>5, <1>6, <1>7, ReportKeeps

(* record_reconcile_failure: nothing is claimed any more. *)
LEMMA FailureReported ==
  ASSUME CInv, Extends(mem, mem'), UNCHANGED config, At("failed"),
         Updatable(mem, ctl.event),
         Persisted(ReconcileFailure(mem, ctl.event)),
         ctl' = Idle, UNCHANGED cluster
  PROVE  ControllerTypeOK' /\ ViewOK' /\ PublishPathOK' /\ DeletePathOK'
         /\ StatusOK' /\ VisitorsOK'
PROOF
  <1>1. ctl.step \in WorkingSteps
    BY DEF At, WorkingSteps
  <1>2. ctl.event \in OpId /\ RuntimeOf(mem, ctl.event) = runtime /\ runtime \in WorkRuntimeState
    BY <1>1, AcceptedIsFresh, RuntimeFacts DEF CInv
  <1>3. PICK op, ev :
          mem' = apply_commit(mem, ctl.event, op,
                   [runtime EXCEPT !.status = "ReconcileRequired"], ev)
    BY <1>2 DEF Persisted, ReconcileFailure
  <1>4. /\ runtime'.current = runtime.current
        /\ runtime'.publication = runtime.publication
        /\ runtime'.gen = runtime.gen
        /\ runtime'.status = "ReconcileRequired"
    <2>1. runtime' = [runtime EXCEPT !.status = "ReconcileRequired"]
      BY <1>2, <1>3, CommitRuntime DEF CInv
    <2>2. QED
      BY <1>2, <2>1 DEF WorkRuntimeState
  <1>5. disk' = mem' /\ UNCHANGED <<deps, svc, ing>> /\ UNCHANGED policy
    BY DEF Persisted, cluster
  <1>6. StatusOK'
    BY <1>4 DEF StatusOK
  <1>7. QED
    BY <1>4, <1>5, <1>6, ReportKeeps

(* A client's intent: the record moves on to the next generation and is in *)
(* progress; what is in service stays, and an Unpublish is on record.      *)
LEMMA ClientEffect ==
  ASSUME CInv, Client
  PROVE  /\ Next
         /\ disk' = mem' /\ UNCHANGED <<ctl, cluster>>
         /\ runtime'.gen = runtime.gen + 1
         /\ runtime'.current = runtime.current
         /\ runtime'.status \in InProgress
         /\ runtime'.publication = "Unpublished" => AskedToUnpublish'
PROOF
  <1>1. PICK id \in OpId, kind \in Kinds, release \in Option(Releases) :
          /\ ~Known(mem, id)
          /\ commit_intent(id,
              [kind |-> kind, release |-> release,
               expectedCurrent |-> IF kind = "Publish" THEN None ELSE runtime.current,
               expectedGeneration |-> runtime.gen])
    BY DEF Client
  <1>2. mem' # mem /\ disk' = mem' /\ UNCHANGED <<ctl, cluster>>
    BY DEF Client
  <1>3. /\ runtime \in WorkRuntimeState /\ RuntimeOf(mem, id) = runtime
        /\ kind \in PublishOperationKind
    BY RuntimeFacts, ControllerAssumption DEF CInv
  <1>4. PICK current \in Option(Releases) :
          current = IF kind = "Publish" THEN None ELSE runtime.current
    BY <1>3 DEF WorkRuntimeState, Option
  <1>5. PICK gen \in Nat : gen = runtime.gen
    BY <1>3 DEF WorkRuntimeState
  <1>6. PICK intent : intent = [kind |-> kind, release |-> release,
                                expectedCurrent |-> current, expectedGeneration |-> gen]
    OBVIOUS
  <1>7. commit_intent(id, intent) /\ intent.kind = kind
    BY <1>1, <1>4, <1>5, <1>6
  <1>8. Next
    <2>1. gen \in 0..RuntimeOf(mem, id).gen
      BY <1>3, <1>5
    <2>2. ClientStep(id)
      BY <1>3, <1>6, <1>7, <2>1 DEF ClientStep
    <2>3. QED
      BY <2>2 DEF Next
  <1>9. PICK host : mem' = IntentCommit(mem, id, intent, host)
    BY <1>2, <1>7 DEF commit_intent, Persisted, PersistFailed
  <1>10. PICK op, rt, ev :
          /\ mem' = apply_commit(mem, id, op, rt, ev)
          /\ op = [request |-> intent, gen |-> runtime.gen + 1,
                   status |-> "DesiredStateCommitted", checkpoint |-> "DesiredStateCommitted"]
          /\ rt = [runtime EXCEPT !.gen = runtime.gen + 1,
                    !.desired = intent.release,
                    !.publication = IF intent.kind = "Unpublish"
                                    THEN "Unpublished" ELSE "Published",
                    !.status = StatusOfKind(intent.kind),
                    !.host = IF runtime.gen = 0 THEN host ELSE runtime.host]
    BY <1>3, <1>9 DEF IntentCommit
  <1>11. runtime' = rt
    BY <1>10, CommitRuntime DEF CInv
  <1>12. /\ runtime'.gen = runtime.gen + 1
         /\ runtime'.current = runtime.current
         /\ runtime'.status = StatusOfKind(kind)
         /\ runtime'.publication = "Unpublished" => kind = "Unpublish"
    BY <1>3, <1>7, <1>10, <1>11 DEF WorkRuntimeState
  <1>13. StatusOfKind(kind) \in InProgress
    BY DEF StatusOfKind, InProgress
  <1>14. mem'.operations[id] = op
    <2>1. mem \in PublicationSnapshot
      BY DEF CInv, Inv, SnapOK
    <2>2. mem'.operations = [mem.operations EXCEPT ![id] = op]
      BY <1>10 DEF apply_commit
    <2>3. QED
      BY <2>1, <2>2 DEF PublicationSnapshot
  <1>15. runtime'.publication = "Unpublished" => AskedToUnpublish'
    <2>1. op.request.kind = kind /\ op.gen > 0
      BY <1>3, <1>5, <1>7, <1>10
    <2>2. QED
      BY <1>12, <1>14, <2>1 DEF AskedToUnpublish, Known
  <1>16. QED
    BY <1>2, <1>8, <1>12, <1>13, <1>15

(* A reconcile that a client's intent overtakes keeps what it has done. *)
LEMMA ClientKeeps ==
  ASSUME CInv, Extends(mem, mem'), UNCHANGED config, Client
  PROVE  ControllerTypeOK' /\ ViewOK' /\ PublishPathOK' /\ DeletePathOK'
         /\ StatusOK' /\ VisitorsOK'
PROOF
  <1>1. /\ disk' = mem' /\ UNCHANGED <<ctl, deps, svc, ing>> /\ UNCHANGED policy
        /\ runtime'.gen = runtime.gen + 1
        /\ runtime'.current = runtime.current
        /\ runtime'.status \in InProgress
        /\ runtime'.publication = "Unpublished" => AskedToUnpublish'
    BY ClientEffect DEF cluster
  <1>2. (AskedToUnpublish => AskedToUnpublish') /\ exposed' = exposed /\ drift' = drift
        /\ \A id \in OpId : Known(mem, id) =>
              /\ mem'.operations[id].gen = mem.operations[id].gen
              /\ mem'.operations[id].gen > 0
    BY AskedForward DEF CInv, config
  <1>3. runtime \in WorkRuntimeState /\ runtime.gen \in Nat
    BY RuntimeFacts DEF CInv, WorkRuntimeState
  <1>4. ControllerTypeOK'
    BY <1>1 DEF CInv, ControllerTypeOK
  <1>5. ViewOK'
    <2>1. ASSUME ctl # Idle
          PROVE  Known(mem, ctl.event) /\ ctl.event \in OpId
      BY <2>1 DEF CInv, ViewOK, ControllerTypeOK, Reconciliation
    <2>2. ASSUME ctl # Idle
          PROVE  Known(mem, ctl.event)' /\ mem'.operations[ctl.event].gen = mem.operations[ctl.event].gen
      BY <1>1, <1>2, <2>1, <2>2 DEF Known
    <2>3. ASSUME ctl.step \in WorkingSteps
          PROVE  /\ ctl # Idle /\ ctl.rt.gen \in Nat
                 /\ mem.operations[ctl.event].gen <= ctl.rt.gen
                 /\ ctl.rt.gen <= runtime.gen
                 /\ ctl.rt.current = runtime.current
      BY <2>3, AtWork DEF CInv, ViewOK, Reconciliation, WorkRuntimeState
    <2>4. ASSUME ctl.step \in WorkingSteps
          PROVE  ctl.rt.gen <= runtime.gen + 1 /\ ctl.rt.gen # runtime.gen + 1
      BY <1>3, <2>3, <2>4
    <2>5. QED
      BY <1>1, <2>2, <2>3, <2>4 DEF ViewOK
  <1>6. PublishPathOK'
    BY <1>1, <1>2 DEF CInv, PublishPathOK, Switching, release_id
  <1>7. DeletePathOK'
    BY <1>1, <1>2 DEF CInv, DeletePathOK
  <1>8. StatusOK'
    BY <1>1 DEF StatusOK, InProgress
  <1>9. VisitorsOK'
    BY <1>1, <1>2 DEF CInv, VisitorsOK
  <1>10. QED
    BY <1>4, <1>5, <1>6, <1>7, <1>8, <1>9

(* Authorising the recreation of a lost Deployment forgets its UID and     *)
(* puts the event back.                                                    *)
LEMMA AuthorizeKeeps ==
  ASSUME CInv, Extends(mem, mem'), UNCHANGED config, AuthorizeRecreation
  PROVE  ControllerTypeOK' /\ ViewOK' /\ PublishPathOK' /\ DeletePathOK'
         /\ StatusOK' /\ VisitorsOK'
PROOF
  <1>1. PICK id \in OpId : mem' = RecreationAuthorized(mem, id) /\ disk' = mem'
    BY DEF AuthorizeRecreation, Persisted
  <1>2. UNCHANGED <<ctl, deps, svc, ing>> /\ UNCHANGED policy
    BY DEF AuthorizeRecreation, cluster
  <1>3. runtime \in WorkRuntimeState /\ RuntimeOf(mem, id) = runtime
    BY RuntimeFacts DEF CInv
  <1>4. PICK op, ev :
          mem' = apply_commit(mem, id, op,
                   [runtime EXCEPT !.status = "ReconcileRequired", !.dep = None], ev)
    BY <1>1, <1>3 DEF RecreationAuthorized
  <1>5. /\ runtime'.current = runtime.current
        /\ runtime'.desired = runtime.desired
        /\ runtime'.publication = runtime.publication
        /\ runtime'.gen = runtime.gen
        /\ runtime'.status = "ReconcileRequired"
    <2>1. runtime' = [runtime EXCEPT !.status = "ReconcileRequired", !.dep = None]
      BY <1>3, <1>4, CommitRuntime DEF CInv
    <2>2. QED
      BY <1>3, <2>1 DEF WorkRuntimeState
  <1>6. (AskedToUnpublish => AskedToUnpublish') /\ exposed' = exposed /\ drift' = drift
        /\ \A x \in OpId : Known(mem, x) =>
              /\ mem'.operations[x].gen = mem.operations[x].gen
              /\ mem'.operations[x].gen > 0
    BY AskedForward DEF CInv, config
  <1>7. ControllerTypeOK'
    BY <1>1, <1>2 DEF CInv, ControllerTypeOK
  <1>8. ViewOK'
    <2>1. ASSUME ctl # Idle
          PROVE  Known(mem, ctl.event) /\ ctl.event \in OpId
      BY <2>1 DEF CInv, ViewOK, ControllerTypeOK, Reconciliation
    <2>2. ASSUME ctl # Idle
          PROVE  Known(mem, ctl.event)' /\ mem'.operations[ctl.event].gen = mem.operations[ctl.event].gen
      BY <1>2, <1>6, <2>1, <2>2 DEF Known
    <2>3. ctl.step \in WorkingSteps => ctl # Idle
      BY AtWork DEF CInv
    <2>4. QED
      BY <1>2, <1>5, <2>2, <2>3 DEF CInv, ViewOK, InProgress
  <1>9. PublishPathOK'
    BY <1>2, <1>6 DEF CInv, PublishPathOK, Switching, release_id
  <1>10. DeletePathOK'
    BY <1>2, <1>6 DEF CInv, DeletePathOK
  <1>11. StatusOK'
    BY <1>5 DEF StatusOK
  <1>12. VisitorsOK'
    BY <1>2, <1>5, <1>6 DEF CInv, VisitorsOK
  <1>13. QED
    BY <1>7, <1>8, <1>9, <1>10, <1>11, <1>12

-----------------------------------------------------------------------------
(* Every step of the controller and its environment is one the store       *)
(* allows, or leaves the store alone.                                      *)

Reporting == report_ready \/ report_switched \/ report_unpublished \/ report_failure

(* A report, once the store has taken it, is one of the store's calls; one *)
(* it rejects restarts the process.                                        *)
LEMMA ReportOutcome ==
  ASSUME CInv, Reporting
  PROVE  \/ Next /\ mem' = disk' /\ Updatable(mem, ctl.event) /\ ctl' = Idle /\ UNCHANGED cluster
         \/ Next /\ mem' = mem /\ disk' = disk /\ ctl' = Idle /\ UNCHANGED cluster
PROOF
  <1>1. CASE Stop
    <2>1. mem' = disk /\ disk = mem /\ disk' = disk
      BY <1>1 DEF Stop, CrashAndOpen, CInv, ControllerTypeOK
    <2>2. Next
      BY <1>1 DEF Stop, Next
    <2>3. QED
      BY <1>1, <2>1, <2>2 DEF Stop
  <1>2. CASE ~Stop
    <2>1. ctl.step \in WorkingSteps /\ phase = "serving"
      BY DEF Reporting, report_ready, report_switched, report_unpublished, report_failure,
         At, WorkingSteps, PublishSteps, DeleteSteps
    <2>2. /\ Updatable(mem, ctl.event) /\ ctl' = Idle
          /\ UNCHANGED <<phase, acked, cluster>>
      BY <1>2 DEF Reporting, report_ready, report_switched, report_unpublished,
         report_failure, Conclude
    <2>3. ctl \in Reconciliation /\ ctl.event \in OpId /\ RuntimeOf(mem, ctl.event) = runtime
          /\ ctl.rt.publication = runtime.publication
      BY <2>1, <2>2, AcceptedIsFresh
    <2>4. CASE report_ready
      <3>1. /\ Persisted(WorkloadReady(mem, ctl.event, ctl.dep, <<svc.uid, svc.version>>,
                                       IF exposed THEN ing ELSE None))
            /\ runtime.desired # None
        BY <1>2, <2>4 DEF report_ready, Conclude
      <3>2. ctl.step \in DeployedSteps /\ ctl.step \in ServedSteps
        BY <2>4 DEF report_ready, At, DeployedSteps, ServedSteps, PublishSteps
      <3>3. ctl.dep # None /\ svc # None /\ ctl.dep \in Option(DepIds) /\ svc \in Option(Service)
            /\ ing \in Option(Uids)
        BY <2>3, <3>2 DEF CInv, PublishPathOK, ControllerTypeOK, Reconciliation
      <3>4. PICK dep \in DepIds : dep = ctl.dep
        BY <3>3 DEF Option
      <3>5. PICK named \in SvcIds : named = <<svc.uid, svc.version>>
        BY <3>3, FreshFacts DEF Option, Service
      <3>6. PICK route \in Option(IngIds) : route = IF exposed THEN ing ELSE None
        BY <3>3, FreshFacts DEF Option
      <3>7. Persisted(WorkloadReady(mem, ctl.event, dep, named, route))
        BY <3>1, <3>4, <3>5, <3>6
      <3>8. record_workload_ready(ctl.event, dep, named, route)
        BY <2>1, <2>2, <2>3, <3>1, <3>7 DEF record_workload_ready, Report, persist_commit
      <3>9. Next
        BY <2>3, <3>8 DEF Next, ReportStep
      <3>10. QED
        BY <2>2, <3>7, <3>9 DEF Persisted
    <2>5. CASE report_switched
      <3>1. /\ Persisted(TrafficSwitched(mem, ctl.event, <<svc.uid, svc.version>>,
                                         IF exposed THEN ing ELSE None))
            /\ runtime.current # runtime.desired
        BY <1>2, <2>5 DEF report_switched, Conclude
      <3>2. ctl.step \in ServedSteps /\ ctl.step \in PublishSteps
        BY <2>5 DEF report_switched, At, ServedSteps, PublishSteps
      <3>3. svc # None /\ svc \in Option(Service) /\ ing \in Option(Uids)
            /\ ctl.rt.publication = "Published"
        BY <3>2 DEF CInv, PublishPathOK, ControllerTypeOK
      <3>4. PICK named \in SvcIds : named = <<svc.uid, svc.version>>
        BY <3>3, FreshFacts DEF Option, Service
      <3>5. PICK route \in Option(IngIds) : route = IF exposed THEN ing ELSE None
        BY <3>3, FreshFacts DEF Option
      <3>6. Persisted(TrafficSwitched(mem, ctl.event, named, route))
        BY <3>1, <3>4, <3>5
      <3>7. record_traffic_switched(ctl.event, named, route)
        BY <2>1, <2>2, <2>3, <3>1, <3>6 DEF record_traffic_switched, Report, persist_commit
      <3>8. Next
        BY <2>3, <3>3, <3>7 DEF Next, ReportStep
      <3>9. QED
        BY <2>2, <3>6, <3>8 DEF Persisted
    <2>6. CASE report_unpublished
      <3>1. Persisted(Unpublished(mem, ctl.event)) /\ runtime.publication = "Unpublished"
        BY <1>2, <2>6 DEF report_unpublished, Conclude
      <3>2. runtime.desired = None
        BY <3>1, RuntimeFacts DEF CInv
      <3>3. record_unpublished(ctl.event)
        BY <2>1, <2>2, <2>3, <3>1, <3>2 DEF record_unpublished, Report, persist_commit
      <3>4. QED
        BY <2>2, <2>3, <3>1, <3>3 DEF Next, ReportStep, Persisted
    <2>7. CASE report_failure
      <3>1. Persisted(ReconcileFailure(mem, ctl.event))
        BY <1>2, <2>7 DEF report_failure, Conclude
      <3>2. record_reconcile_failure(ctl.event)
        BY <2>1, <2>2, <3>1 DEF record_reconcile_failure, Report, persist_commit
      <3>3. QED
        BY <2>2, <2>3, <3>1, <3>2 DEF Next, ReportStep, Persisted
    <2>8. QED
      BY <2>4, <2>5, <2>6, <2>7 DEF Reporting
  <1>3. QED
    BY <1>1, <1>2

(* The steps that call Kubernetes or wait do not touch the store. *)
LEMMA WorkingLeavesStore ==
  ASSUME ControllerStep, ~Reporting
  PROVE  UNCHANGED store
  BY DEF ControllerStep, Reporting, begin_reconcile, apply_network_policy, apply_deployment,
     wait_ready, probe_release, run_release_prober, apply_service, apply_ingress,
     switch_stable_service, wait_endpoint_slice_release, verify_external_release,
     restore_previous_release, delete_ingress, delete_service, delete_deployments,
     delete_policy

(* Every step of the composition is a step of the store, or none. *)
LEMMA StepOfStore ==
  ASSUME CInv, [ControllerNext]_<<controllerVars, config>>
  PROVE  [Next]_vars
PROOF
  <1>1. CASE Client
    BY <1>1, ClientEffect
  <1>2. CASE \E id \in OpId : pick_event(id)
    BY <1>2 DEF pick_event, store, vars
  <1>3. CASE ControllerStep
    <2>1. CASE Reporting
      BY <2>1, ReportOutcome
    <2>2. CASE ~Reporting
      BY <1>3, <2>2, WorkingLeavesStore DEF store, vars
    <2>3. QED
      BY <2>1, <2>2
  <1>4. CASE Recover
    BY <1>4 DEF Recover, Next
  <1>5. CASE StepFails \/ DeleteDeployment
    BY <1>5 DEF StepFails, DeleteDeployment, store, vars
  <1>6. CASE Crash
    BY <1>6 DEF Crash, Stop, Next
  <1>7. CASE AuthorizeRecreation
    <2>1. PICK id \in OpId, uid \in DepIds : authorize_deployment_recreation(id, uid)
      BY <1>7 DEF AuthorizeRecreation
    <2>2. QED
      BY <2>1 DEF Next, ReportStep
  <1>8. CASE UNCHANGED <<controllerVars, config>>
    BY <1>8 DEF controllerVars, store, vars
  <1>9. QED
    BY <1>1, <1>2, <1>3, <1>4, <1>5, <1>6, <1>7, <1>8 DEF ControllerNext, Step

(* The controller starts on an empty cluster and an empty store. *)
LEMMA ControllerInitInv == ControllerInit => CInv
PROOF
  <1> SUFFICES ASSUME ControllerInit PROVE CInv
    OBVIOUS
  <1>1. Init /\ ctl = Idle /\ deps = [release \in Releases |-> None]
        /\ svc = None /\ ing = None /\ policy = FALSE
    BY DEF ControllerInit
  <1>2. Inv
    BY <1>1, InitInv
  <1>3. runtime = initial_runtime
    BY <1>1, OneProject DEF Init, EmptySnapshot, runtime
  <1>4. Idle.step \notin WorkingSteps
    BY DEF Idle, WorkingSteps, PublishSteps, DeleteSteps
  <1>5. ControllerTypeOK
    BY <1>1 DEF ControllerTypeOK, Option, Init
  <1>6. ViewOK
    BY <1>1, <1>4 DEF ViewOK
  <1>7. PublishPathOK /\ DeletePathOK
    BY <1>1, <1>4 DEF PublishPathOK, DeletePathOK, WorkingSteps, PublishSteps, DeleteSteps,
       DeployedSteps, ServedSteps
  <1>8. StatusOK /\ VisitorsOK
    BY <1>1, <1>3 DEF StatusOK, VisitorsOK, initial_runtime
  <1>9. QED
    BY <1>2, <1>5, <1>6, <1>7, <1>8 DEF CInv

(* Every step keeps the controller's invariant. *)
LEMMA ControllerNextInv ==
  ASSUME CInv, [ControllerNext]_<<controllerVars, config>>
  PROVE  CInv'
PROOF
  <1>1. Inv' /\ Extends(mem, mem')
    BY StepOfStore, NextInv DEF CInv
  <1> DEFINE Kept == ControllerTypeOK' /\ ViewOK' /\ PublishPathOK' /\ DeletePathOK'
                     /\ StatusOK' /\ VisitorsOK'
  <1>2. ASSUME UNCHANGED config, Client PROVE Kept
    BY <1>1, <1>2, ClientKeeps
  <1>3. ASSUME UNCHANGED config, NEW id \in OpId, pick_event(id) PROVE Kept
    <2>1. Quiet /\ UNCHANGED <<deps, svc, ing>> /\ UNCHANGED policy
      BY <1>3 DEF pick_event, store, cluster, Quiet
    <2>2. ctl' \in [step : {"listed"}, event : OpId] /\ Known(mem, ctl'.event)
      BY <1>3 DEF pick_event, Listed, IsCurrent
    <2>3. QED
      BY <2>1, <2>2, RestStep
  <1>4. ASSUME UNCHANGED config, ControllerStep, ~Reporting PROVE Kept
    <2>1. Quiet
      BY <1>4, WorkingLeavesStore DEF Quiet, store
    <2>2. QED
      BY <1>4, <2>1, BeginStep, PolicyStep, DeploymentStep, ReadyStep, ProbeStep, ProberStep,
         ServiceStep, IngressStep, SwitchStep, EndpointsStep, ExternalStep, RestoreStep,
         DeleteIngressStep, DeleteServiceStep, DeleteDeploymentsStep, DeletePolicyStep
         DEF ControllerStep, Reporting
  <1>5. ASSUME UNCHANGED config, Reporting PROVE Kept
    <2>1. CASE mem' = mem /\ disk' = disk /\ ctl' = Idle /\ UNCHANGED cluster
      <3>1. Quiet /\ UNCHANGED <<deps, svc, ing>> /\ UNCHANGED policy
        BY <1>5, <2>1 DEF Quiet, cluster
      <3>2. QED
        BY <2>1, <3>1, RestStep
    <2>2. CASE ~(mem' = mem /\ disk' = disk /\ ctl' = Idle /\ UNCHANGED cluster)
      <3>1. Updatable(mem, ctl.event) /\ ctl' = Idle /\ UNCHANGED cluster
        BY <1>5, <2>2, ReportOutcome
      <3>2. ~Stop
        BY <2>2 DEF Stop, CrashAndOpen, CInv, ControllerTypeOK
      <3>3. CASE report_ready
        BY <1>1, <1>5, <3>1, <3>2, <3>3, ReadyReported DEF report_ready, Conclude
      <3>4. CASE report_switched
        BY <1>1, <1>5, <3>1, <3>2, <3>4, SwitchReported DEF report_switched, Conclude
      <3>5. CASE report_unpublished
        BY <1>1, <1>5, <3>1, <3>2, <3>5, UnpublishReported DEF report_unpublished, Conclude
      <3>6. CASE report_failure
        BY <1>1, <1>5, <3>1, <3>2, <3>6, FailureReported DEF report_failure, Conclude
      <3>7. QED
        BY <1>5, <3>3, <3>4, <3>5, <3>6 DEF Reporting
    <2>3. QED
      BY <2>1, <2>2
  <1>6. ASSUME UNCHANGED config, Recover \/ Crash PROVE Kept
    <2>1. CASE Crash
      <3>1. Quiet /\ UNCHANGED <<deps, svc, ing>> /\ UNCHANGED policy /\ ctl' = Idle
        BY <1>6, <2>1 DEF Crash, Stop, CrashAndOpen, Quiet, cluster, CInv, ControllerTypeOK
      <3>2. QED
        BY <3>1, RestStep
    <2>2. CASE Recover
      <3>1. Quiet /\ UNCHANGED <<ctl, deps, svc, ing, policy>>
        BY <1>6, <2>2 DEF Recover, RecoveryComplete, Quiet, cluster
      <3>2. QED
        BY <3>1, StandStill
    <2>3. QED
      BY <1>6, <2>1, <2>2
  <1>7. ASSUME UNCHANGED config, StepFails PROVE Kept
    <2>1. Quiet
      BY <1>7 DEF StepFails, store, Quiet
    <2>2. QED
      BY <1>7, <2>1, FailStep
  <1>8. ASSUME UNCHANGED config, DeleteDeployment PROVE Kept
    <2>1. Quiet
      BY <1>8 DEF DeleteDeployment, store, Quiet
    <2>2. QED
      BY <1>8, <2>1, DriftStep
  <1>9. ASSUME UNCHANGED config, AuthorizeRecreation PROVE Kept
    BY <1>1, <1>9, AuthorizeKeeps
  <1>10. CASE UNCHANGED <<controllerVars, config>>
    <2>1. Quiet /\ UNCHANGED <<ctl, deps, svc, ing, policy>>
      BY <1>10 DEF controllerVars, store, cluster, Quiet
    <2>2. QED
      BY <1>1, <2>1, StandStill DEF CInv
  <1>11. CASE ControllerNext
    <2>1. UNCHANGED config /\ Step
      BY <1>11 DEF ControllerNext
    <2>2. Kept
      BY <2>1, <1>2, <1>3, <1>4, <1>5, <1>6, <1>7, <1>8, <1>9 DEF Step
    <2>3. QED
      BY <1>1, <2>2 DEF CInv
  <1>12. QED
    BY <1>10, <1>11

-----------------------------------------------------------------------------
(* The invariant of the controller holds in every reachable state. *)
LEMMA ControllerInvHolds == ControllerSpec => []CInv
  BY ControllerInitInv, ControllerNextInv, PTL DEF ControllerSpec

(* The controller and its clients use the store as PublicationStore says:  *)
(* whatever is proved of the store holds in the composition.               *)
THEOREM ControllerUsesStore == ControllerSpec => Spec
PROOF
  <1>1. ControllerInit => Init
    BY DEF ControllerInit
  <1>2. CInv /\ [ControllerNext]_<<controllerVars, config>> => [Next]_vars
    BY StepOfStore
  <1>3. QED
    BY <1>1, <1>2, ControllerInvHolds, PTL DEF ControllerSpec, Spec

(* While the store says Published, the public host serves exactly the      *)
(* release it calls current; once it says Unpublished, nothing of the      *)
(* project is left in the cluster: for any releases, clients and faults.   *)
THEOREM StatusStaysTrue == ControllerSpec => []StatusIsTrue
PROOF
  <1>1. CInv => StatusIsTrue
    <2> SUFFICES ASSUME CInv PROVE StatusIsTrue
      OBVIOUS
    <2>1. ASSUME ~drift, exposed, runtime.status = "Published"
          PROVE  Traffic = runtime.current
      <3>1. ing # None /\ svc # None /\ svc.release = runtime.current
        BY <2>1 DEF CInv, StatusOK
      <3>2. deps[svc.release] # None
        BY <2>1, <3>1 DEF CInv, VisitorsOK
      <3>3. QED
        BY <3>1, <3>2 DEF Traffic
    <2>2. QED
      BY <2>1 DEF StatusIsTrue, CInv, StatusOK
  <1>2. QED
    BY <1>1, ControllerInvHolds, PTL

(* A public route never leads to a release without a Deployment, and a     *)
(* project that nobody asked to unpublish does not go dark.                *)
THEOREM VisitorsStayServed == ControllerSpec => []VisitorsAreServed
PROOF
  <1>1. CInv => VisitorsAreServed
    <2> SUFFICES ASSUME CInv, ~drift PROVE
                 /\ ing # None /\ svc # None => deps[svc.release] # None
                 /\ exposed /\ runtime.current # None
                    /\ (\A id \in OpId : mem.operations[id].request.kind # "Unpublish")
                    => Traffic # None
      BY DEF VisitorsAreServed
    <2>1. svc # None => deps[svc.release] # None
      BY DEF CInv, VisitorsOK
    <2>2. exposed /\ runtime.current # None => AskedToUnpublish \/ (ing # None /\ svc # None)
      BY DEF CInv, VisitorsOK
    <2>3. svc # None => svc.release # None
      BY FreshFacts DEF CInv, ControllerTypeOK, Option, Service
    <2>4. QED
      BY <2>1, <2>2, <2>3 DEF Traffic, AskedToUnpublish
  <1>2. QED
    BY <1>1, ControllerInvHolds, PTL
===============================================================================
