------------------------ MODULE WorkRuntimeController ------------------------
(***************************************************************************)
(* The work-runtime controller (publication/controller.rs) driving the     *)
(* Kubernetes backend (publication/kubernetes*.rs) for one project, on top *)
(* of PublicationStore.  The controller is one task; clients commit new    *)
(* intents between any two of its steps, and it works on the copy of the   *)
(* runtime record it read when it took up the event.  One action is one    *)
(* Kubernetes call or wait.                                                *)
(*                                                                         *)
(* Abstractions: waits, probes and API calls fail as the environment       *)
(* likes, MaxFaults times; an answer lost after its call took effect is a  *)
(* failure of the next step.  Store writes succeed here (PublicationStore  *)
(* has the failures): a report that could not be stored ends the process,  *)
(* which is Crash before or after the report.  A UID or resourceVersion is *)
(* only ever compared with the recorded one, so a fresh one is any other.  *)
(* Releases are validated and packaged; namespaces are managed; host       *)
(* clashes with foreign Ingresses are left out.                            *)
(*                                                                         *)
(* An operator whose name ends in an underscore and a capitalised word is  *)
(* a faulty variant of the operator so named; it tests a property.         *)
(***************************************************************************)
EXTENDS PublicationStore, FiniteSets

CONSTANTS
    Uids,       \* Kubernetes object UIDs
    Versions,   \* Service resourceVersions
    Kinds,      \* the kinds of intent clients send
    Situations, \* values of <<exposed, drift, patient>> to consider
    MaxFaults   \* bound on failures, crashes and deletions

ASSUME ControllerAssumption ==
    /\ \E p \in Projects : Projects = {p}
    /\ DepIds = Uids /\ IngIds = Uids /\ SvcIds = Uids \X Versions
    /\ \E u, v \in Uids : u # v
    /\ \E u, v, w \in Versions : u # v /\ v # w /\ u # w
    /\ None \notin [uid : Uids, version : Versions, release : Releases, gen : Nat]
    /\ Kinds \subseteq PublishOperationKind
    /\ Situations \subseteq BOOLEAN \X BOOLEAN \X BOOLEAN
    /\ MaxFaults \in Nat

VARIABLES
    ctl,      \* the controller: its step, the event, what it read when it began
    deps,     \* release -> UID of its Deployment
    svc,      \* the stable Service: uid, version, release selector, generation label
    ing,      \* UID of the Ingress
    policy,   \* the NetworkPolicy exists
    probes,   \* releases with a temporary probe Service
    faults,   \* faults used up
    exposed,  \* the backend is configured with an Ingress exposure
    drift,    \* somebody else may delete Deployments
    patient   \* clients wait for their intent and do not repeat the current release

cluster == <<deps, svc, ing, policy, probes>>
store == <<mem, disk, phase, acked>>
controllerVars == <<store, ctl, cluster, faults>>
config == <<exposed, drift, patient>>

project == CHOOSE p \in Projects : TRUE
runtime == mem.runtimes[project]

(* What a visitor of the public host gets *)
Traffic ==
    IF ing # None /\ svc # None /\ deps[svc.release] # None THEN svc.release ELSE None

Idle == [step |-> "idle"]

Goto(to) == ctl' = [ctl EXCEPT !.step = to]

At(at) == phase = "serving" /\ ctl.step = at

Fault == faults < MaxFaults /\ faults' = faults + 1

FreshUid(recorded) == CHOOSE uid \in Uids : uid # recorded

RecordedVersion == IF runtime.svc = None THEN None ELSE runtime.svc[2]

FreshVersion ==
    CHOOSE v \in Versions : v # RecordedVersion /\ (svc # None => v # svc.version)

-----------------------------------------------------------------------------
(* reconcile_once *)

Listed_PendingOnly(id) ==
    /\ IsCurrent(mem, id)
    /\ mem.outbox[id].status = "Pending"

(* pending_outbox, and published_reconcile_outbox on a drift audit: only   *)
(* events of the current generation.                                       *)
Listed(id) ==
    /\ IsCurrent(mem, id)
    /\ mem.outbox[id].status = "Pending" \/ runtime.publication = "Published"

pick_event(id) ==
    /\ At("idle")
    /\ Listed(id)
    /\ ctl' = [step |-> "listed", event |-> id]
    /\ UNCHANGED <<store, cluster, faults>>

begin_reconcile_WorkloadsFirst ==
    /\ At("listed")
    /\ ctl' = [step |-> IF runtime.publication = "Published" THEN "policy" ELSE "del_deployments",
               event |-> ctl.event,
               rt |-> runtime,
               checkpoint |-> mem.operations[ctl.event].checkpoint,
               dep |-> None]
    /\ UNCHANGED <<store, cluster, faults>>

(* The runtime record is read again: a newer intent may be in it by now *)
begin_reconcile ==
    /\ At("listed")
    /\ ctl' = [step |-> IF runtime.publication = "Published" THEN "policy" ELSE "del_ingress",
               event |-> ctl.event,
               rt |-> runtime,
               checkpoint |-> mem.operations[ctl.event].checkpoint,
               dep |-> None]
    /\ UNCHANGED <<store, cluster, faults>>

release_id == ctl.rt.desired

Switching == ctl.rt.current # None /\ ctl.rt.current # release_id

-----------------------------------------------------------------------------
(* KubernetesWorkRuntimeBackend::reconcile *)

apply_network_policy ==
    /\ At("policy")
    /\ policy' = TRUE
    /\ Goto("deployment")
    /\ UNCHANGED <<store, deps, svc, ing, probes, faults>>

(* from_records expects a Deployment UID only for the current release *)
expected_deployment_uid == IF ctl.rt.current = release_id THEN ctl.rt.dep ELSE None

(* assert_expected_identity: nothing recorded, or exactly what is there *)
identity_ok(expected, actual) == expected = None \/ expected = actual

apply_deployment_Replaces ==
    /\ At("deployment")
    /\ IF identity_ok(expected_deployment_uid, deps[release_id])
       THEN /\ deps' = [release \in Releases |->
                          CASE release # release_id -> None
                            [] release = release_id /\ deps[release] = None -> FreshUid(runtime.dep)
                            [] OTHER -> deps[release]]
            /\ Goto("ready")
       ELSE UNCHANGED deps /\ Goto("failed")
    /\ UNCHANGED <<store, svc, ing, policy, probes, faults>>

apply_deployment ==
    /\ At("deployment")
    /\ IF identity_ok(expected_deployment_uid, deps[release_id])
       THEN /\ deps' = [deps EXCEPT ![release_id] =
                          IF @ = None THEN FreshUid(runtime.dep) ELSE @]
            /\ Goto("ready")
       ELSE UNCHANGED deps /\ Goto("failed")
    /\ UNCHANGED <<store, svc, ing, policy, probes, faults>>

(* The Deployment seen here is the one a report will name *)
wait_ready ==
    /\ At("ready")
    /\ ctl' = [ctl EXCEPT !.step = IF deps[release_id] # None THEN "probe" ELSE "failed",
                          !.dep = deps[release_id]]
    /\ UNCHANGED <<store, cluster, faults>>

probe_release ==
    /\ At("probe")
    /\ probes' = probes \cup {release_id}
    /\ Goto("probing")
    /\ UNCHANGED <<store, deps, svc, ing, policy, faults>>

run_release_prober ==
    /\ At("probing")
    /\ probes' = probes \ {release_id}
    /\ Goto(CASE deps[release_id] = None -> "failed"
              [] deps[release_id] # None /\ ~Switching -> "service"
              [] deps[release_id] # None /\ Switching -> IF exposed THEN "ingress" ELSE "switch")
    /\ UNCHANGED <<store, deps, svc, ing, policy, faults>>

(* The Service as server-side apply leaves it; an apply that changes       *)
(* nothing keeps the resourceVersion.                                      *)
AppliedService ==
    IF svc = None
    THEN [uid |-> FreshUid(IF runtime.svc = None THEN None ELSE runtime.svc[1]),
          version |-> FreshVersion, release |-> release_id, gen |-> ctl.rt.gen]
    ELSE IF svc.release = release_id /\ svc.gen = ctl.rt.gen
    THEN svc
    ELSE [svc EXCEPT !.version = FreshVersion, !.release = release_id, !.gen = ctl.rt.gen]

apply_service ==
    /\ At("service")
    /\ IF ctl.rt.svc = None \/ (svc # None /\ ctl.rt.svc = <<svc.uid, svc.version>>)
       THEN svc' = AppliedService /\ Goto(IF exposed THEN "ingress" ELSE "report_ready")
       ELSE UNCHANGED svc /\ Goto("failed")
    /\ UNCHANGED <<store, deps, ing, policy, probes, faults>>

apply_ingress ==
    /\ At("ingress")
    /\ IF identity_ok(ctl.rt.ing, ing)
       THEN /\ ing' = IF ing = None THEN FreshUid(runtime.ing) ELSE ing
            /\ Goto(IF Switching THEN "switch" ELSE "external")
       ELSE UNCHANGED ing /\ Goto("failed")
    /\ UNCHANGED <<store, deps, svc, policy, probes, faults>>

CanSwitch_BlueOnly(from, to) ==
    /\ svc # None
    /\ ctl.rt.svc # None => ctl.rt.svc[1] = svc.uid
    /\ svc.release = from

(* The Service must be the recorded one and select `from` or `to` already *)
CanSwitch(from, to) ==
    /\ svc # None
    /\ ctl.rt.svc # None => ctl.rt.svc[1] = svc.uid
    /\ svc.release \in {from, to}

Switched(to) ==
    IF svc.release = to THEN svc ELSE [svc EXCEPT !.release = to, !.version = FreshVersion]

switch_stable_service ==
    /\ At("switch")
    /\ IF CanSwitch(ctl.rt.current, release_id)
       THEN svc' = Switched(release_id) /\ Goto("endpoints")
       ELSE UNCHANGED svc /\ Goto("failed")
    /\ UNCHANGED <<store, deps, ing, policy, probes, faults>>

wait_endpoint_slice_release ==
    /\ At("endpoints")
    /\ Goto(CASE deps[release_id] = None -> "restore"
              [] deps[release_id] # None /\ ctl.checkpoint # "TrafficSwitched" -> "report_switched"
              [] deps[release_id] # None /\ ctl.checkpoint = "TrafficSwitched" ->
                   IF exposed THEN "external" ELSE "report_ready")
    /\ UNCHANGED <<store, cluster, faults>>

verify_external_release ==
    /\ At("external")
    /\ Goto(CASE Traffic = release_id -> "report_ready"
              [] Traffic # release_id -> IF Switching THEN "restore" ELSE "failed")
    /\ UNCHANGED <<store, cluster, faults>>

(* Blue again; the reconcile fails whether or not the restore succeeds *)
restore_previous_release ==
    /\ At("restore")
    /\ svc' = IF CanSwitch(release_id, ctl.rt.current) THEN Switched(ctl.rt.current) ELSE svc
    /\ Goto("failed")
    /\ UNCHANGED <<store, deps, ing, policy, probes, faults>>

-----------------------------------------------------------------------------
(* delete_published_resources *)

delete_ok(expected, actual) == actual = None \/ identity_ok(expected, actual)

delete_ingress ==
    /\ At("del_ingress")
    /\ IF delete_ok(ctl.rt.ing, ing)
       THEN ing' = None /\ Goto("del_service")
       ELSE UNCHANGED ing /\ Goto("failed")
    /\ UNCHANGED <<store, deps, svc, policy, probes, faults>>

(* verify_external_closed has succeeded: the Ingress is gone *)
delete_service ==
    /\ At("del_service")
    /\ IF svc = None \/ ctl.rt.svc = None \/ ctl.rt.svc[1] = svc.uid
       THEN svc' = None /\ Goto("del_deployments")
       ELSE UNCHANGED svc /\ Goto("failed")
    /\ UNCHANGED <<store, deps, ing, policy, probes, faults>>

delete_deployments ==
    /\ At("del_deployments")
    /\ \/ /\ \E release \in Releases :
               deps[release] # None /\ deps' = [deps EXCEPT ![release] = None]
          /\ UNCHANGED ctl
       \/ /\ \A release \in Releases : deps[release] = None
          /\ UNCHANGED deps
          /\ Goto("del_policy")
    /\ UNCHANGED <<store, svc, ing, policy, probes, faults>>

delete_policy ==
    /\ At("del_policy")
    /\ policy' = FALSE
    /\ Goto("report_unpublished")
    /\ UNCHANGED <<store, deps, svc, ing, probes, faults>>

-----------------------------------------------------------------------------
(* Reports.  One that the store rejects ends the controller task, which    *)
(* the supervisor treats as fatal: the process exits and starts again.     *)

Stop == CrashAndOpen /\ ctl' = Idle /\ UNCHANGED cluster

Conclude(accepted, next) ==
    /\ \/ /\ Updatable(mem, ctl.event) /\ accepted
          /\ Persisted(next)
          /\ ctl' = Idle
          /\ UNCHANGED <<phase, acked, cluster>>
       \/ ~(Updatable(mem, ctl.event) /\ accepted) /\ Stop
    /\ UNCHANGED faults

report_ready ==
    /\ At("report_ready")
    /\ Conclude(runtime.desired # None,
                WorkloadReady(mem, ctl.event, ctl.dep, <<svc.uid, svc.version>>,
                              IF exposed THEN ing ELSE None))

report_switched ==
    /\ At("report_switched")
    /\ Conclude(runtime.current # runtime.desired,
                TrafficSwitched(mem, ctl.event, <<svc.uid, svc.version>>,
                                IF exposed THEN ing ELSE None))

report_unpublished ==
    /\ At("report_unpublished")
    /\ Conclude(runtime.publication = "Unpublished", Unpublished(mem, ctl.event))

report_failure ==
    /\ At("failed")
    /\ Conclude(TRUE, ReconcileFailure(mem, ctl.event))

ControllerStep ==
    \/ begin_reconcile
    \/ apply_network_policy \/ apply_deployment \/ wait_ready
    \/ probe_release \/ run_release_prober
    \/ apply_service \/ apply_ingress
    \/ switch_stable_service \/ wait_endpoint_slice_release
    \/ verify_external_release \/ restore_previous_release
    \/ delete_ingress \/ delete_service \/ delete_deployments \/ delete_policy
    \/ report_ready \/ report_switched \/ report_unpublished \/ report_failure

-----------------------------------------------------------------------------
(* Environment *)

(* An API error, a wait that timed out, a probe that failed *)
StepFails ==
    /\ phase = "serving"
    /\ Fault
    /\ \/ /\ ctl.step \in {"policy", "deployment", "ready", "probe", "service", "ingress",
                           "switch", "endpoints", "restore", "del_ingress", "del_service",
                           "del_deployments", "del_policy", "report_unpublished"}
             \/ (ctl.step = "external" /\ ~Switching)
          /\ Goto("failed")
          /\ UNCHANGED probes
       \/ /\ ctl.step = "endpoints" \/ (ctl.step = "external" /\ Switching)
          /\ Goto("restore")
          /\ UNCHANGED probes
       \/ /\ ctl.step = "probing"
          /\ probes' \in {probes, probes \ {release_id}}
          /\ Goto("failed")
    /\ UNCHANGED <<store, deps, svc, ing, policy>>

Crash == phase = "serving" /\ Fault /\ Stop

DeleteDeployment ==
    /\ drift
    /\ Fault
    /\ \E release \in Releases :
         deps[release] # None /\ deps' = [deps EXCEPT ![release] = None]
    /\ UNCHANGED <<store, ctl, svc, ing, policy, probes>>

AuthorizeRecreation ==
    /\ \E id \in OpId, uid \in DepIds :
         /\ runtime.dep = uid /\ deps[runtime.current] # uid
         /\ authorize_deployment_recreation(id, uid)
         /\ Persisted(RecreationAuthorized(mem, id))
    /\ UNCHANGED <<ctl, cluster, faults>>

(* A client sends the next intent; the key it takes does not matter.  The  *)
(* routes require expectedCurrentReleaseId for all but a Publish.          *)
Client ==
    /\ \E id \in OpId : ~Known(mem, id)
    /\ patient => runtime.observed = runtime.gen
    /\ LET id == CHOOSE id \in OpId : ~Known(mem, id) IN
       \E kind \in Kinds, release \in Option(Releases) :
         /\ kind # "Publish" => runtime.current # None
         /\ patient => release = None \/ release # runtime.current
         /\ commit_intent(id,
              [kind |-> kind, release |-> release,
               expectedCurrent |-> IF kind = "Publish" THEN None ELSE runtime.current,
               expectedGeneration |-> runtime.gen])
    /\ mem' # mem /\ disk' = mem'
    /\ UNCHANGED <<ctl, cluster, faults>>

(* This backend never leaves an event Delivered and unobserved, so there   *)
(* is nothing to replay: RecoveryComplete would be disabled otherwise.     *)
Recover == RecoveryComplete /\ UNCHANGED <<ctl, cluster, faults>>

ControllerInit ==
    /\ Init
    /\ ctl = Idle
    /\ deps = [release \in Releases |-> None]
    /\ svc = None
    /\ ing = None
    /\ policy = FALSE
    /\ probes = {}
    /\ faults = 0
    /\ \E s \in Situations : exposed = s[1] /\ drift = s[2] /\ patient = s[3]

Step ==
    \/ Client
    \/ \E id \in OpId : pick_event(id)
    \/ ControllerStep
    \/ Recover
    \/ StepFails
    \/ Crash
    \/ DeleteDeployment
    \/ AuthorizeRecreation

ControllerNext == Step /\ UNCHANGED config

ControllerSpec == ControllerInit /\ [][ControllerNext]_<<controllerVars, config>>

(* The controller task is always scheduled and each wait is bounded by a   *)
(* timeout; the process is restarted when it stops.                        *)
FairSpec ==
    /\ ControllerSpec
    /\ WF_controllerVars(ControllerStep)
    /\ WF_controllerVars(\E id \in OpId : pick_event(id))
    /\ WF_controllerVars(Recover)

-----------------------------------------------------------------------------
(* Properties *)

(* The store's status is what a visitor gets, whatever races, failures and *)
(* restarts came before: while it says Published, the public host serves   *)
(* exactly the release it calls current; once it says Unpublished, no      *)
(* Ingress, Service, Deployment or NetworkPolicy of the project is left.   *)
StatusIsTrue ==
    /\ ~drift /\ exposed /\ runtime.status = "Published" => Traffic = runtime.current
    /\ runtime.status = "Unpublished" =>
          /\ ing = None /\ svc = None /\ policy = FALSE
          /\ \A release \in Releases : deps[release] = None

(* A public route never leads to a release without a Deployment: an        *)
(* unpublish takes the Ingress and the Service away before the workloads,  *)
(* and a switch moves the selector only to a Deployment that is there.  And *)
(* a project that is only published and updated never goes dark once its   *)
(* first release is live: a failed or interrupted blue/green switch leaves *)
(* the host on the old or the new release.                                 *)
VisitorsAreServed ==
    ~drift =>
        /\ ing # None /\ svc # None => deps[svc.release] # None
        /\ exposed /\ runtime.current # None
           /\ (\A id \in OpId : mem.operations[id].request.kind # "Unpublish")
           => Traffic # None

(* The drift audit notices: a work does not stay Published in the store    *)
(* while its current Deployment is gone.                                   *)
DriftNoticed ==
    (drift /\ runtime.status = "Published" /\ deps[runtime.current] = None)
        ~> (runtime.status # "Published" \/ deps[runtime.current] # None)

(* A generation that a client got accepted is observed in the end, or      *)
(* superseded by a newer one, when crashes and failures stop and clients   *)
(* wait for it.                                                            *)
IntentObserved ==
    \A g \in 1..Cardinality(Keys) :
        (patient /\ ~drift /\ runtime.gen = g) ~> (runtime.observed >= g \/ runtime.gen > g)
=============================================================================
