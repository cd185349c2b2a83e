# TLA+ specifications of the zeronDesign runtime

zeronDesign turns a conversation into a web project: an agent edits the project
in a sandbox, the result becomes a *version*, a version is packaged into a
*release*, and a release can be *published* on a public host. Model calls go
through a gateway that accounts for them. This directory holds TLA+ modules for
the parts of the Rust services (`services/runtime`, `services/provider-gateway`)
in which a mistake loses an accepted request, repeats an effect, or takes a
published site down. TLC checks small instances of every module; TLAPS proves
the safety properties of eight of them for every value of their constants
(section 5).

Paths below are relative to `services/runtime/src/` unless they name another
service.

## 1. Inventory

| Component | State | Operations | Talks to | Module |
|---|---|---|---|---|
| Publication HTTP routes (`http_api/routes/publication.rs`) | none | publish, update, rollback, unpublish, workflow start and cancel | publication store, workflow store | partly: clients of `WorkRuntimeController`, `PublishWorkflow` |
| Publish workflow (`publish_workflow/`) | per workflow: checkpoint, status, release, operation | start, one pass of the controller, cancel, rollback | build, release store, publication store | `PublishWorkflow` |
| Release store, packager, collector (`release/`) | packaging and release records, evidence (digest, scan, signature) | prepare, build, push, scan, sign, validate, collect | registry, publication references | `ReleasePackaging` |
| Publication store (`publication/store.rs`, `store_reconcile.rs`, `model.rs`) | per project desired and observed state, per request an operation and an outbox event | `commit_intent`, the `record_*` reports, replay | journal | `PublicationStore` |
| Journal, checkpoint, mirror (`publication/store.rs`, `control_plane_persistence.rs`) | two files, rows in PostgreSQL | `persist_commit`, `open_with_mirror`, `restore_or_import` | file system, PostgreSQL | `PublicationJournal`, `DurableSnapshot` |
| Work-runtime controller and Kubernetes backend (`publication/controller.rs`, `kubernetes*.rs`) | the cluster's objects | `reconcile_once` | publication store, Kubernetes | `WorkRuntimeController` |
| Artifact publishing and promotion (`conversation.rs`, `artifact_publisher.rs`, `preview.rs`) | publish records, promotion commits, files, outbox | report a candidate, publish, complete a run, reconcile, collect | run records, publish workflow | `ArtifactPromotion` |
| Runs and tool execution (`run_lifecycle/`, `agent_loop.rs`, `tools/`, `conversation.rs`) | run status, checkpoint, permissions, tool-execution ledger | start, continue, cancel, resolve a permission, turn, wave of calls, recover | everything a tool touches | partly: `ToolRuntime`, `AgentLoop`, `RunLifecycle`, `RunSuccession` |
| Draft previews and edit guard (`draft_preview.rs`, `edit_guard.rs`, `tools/sandbox/preview/dev.rs`) | sessions with lease, epoch and revisions; edit plans and approvals | dev server start, status and stop, edits, takeover, restore, plan, confirm | sandbox, publish workflow | partly: `DraftPreviews` |
| Project initialisation (`project/workspace_transaction.rs`, `tools/sandbox/project/initializer.rs`) | workspace, journal, backup, project state | begin, materialise, commit, roll back, recover | sandbox, runtime store | `ProjectInit` |
| Provider gateway (`services/provider-gateway`) | turns, usage, leases, circuits, configuration | execute or replay a turn, administrative writes, refresh | model providers, PostgreSQL | partly: `GatewayTurns`, `ProviderGateway` |
| Supervisor and bootstrap (`runtime/supervisor.rs`, `runtime/bootstrap.rs`) | task table | start in order, recover, refuse duplicate tasks | all of the above | partly, in the modules that use it |
| Sandbox bindings and channel leases (`channel_manager.rs`, `sandbox_manager*.rs`) | bindings, leases by pod and runtime epoch | acquire, wait, release | Kubernetes | not modelled |
| Content-plan approvals (`content_plan_approval.rs`) | approvals by plan revision | propose, approve | conversation | not modelled |
| Profile token sync, design profiles (`profile_token_sync.rs`, `design_profile_service/`) | operations, bindings | preview, confirm, apply | child runs | not modelled |
| Web application (`apps/web`), templates (`templates/`) | none of their own | – | – | not modelled |

What is hard, and what makes each part correct:

| Part | Hard | Correct when |
|---|---|---|
| Publication | clients commit while a reconcile is between two Kubernetes calls; storage calls fail after having taken effect; recorded identities are preconditions of later calls | accepted intents are never lost, each is observed in the end, and a published site stays up |
| Packaging | lost answers, resumption in the middle, collection on an old snapshot | what is validated is proven for one image; what is referenced stays |
| Workflow | works on copies while others commit and cancel | it reports what happened and overwrites nobody |
| Promotion | two stores, files and an outbox in several steps | a promoted version stays, replaces what it saw, is announced once |
| Runs | cancellation, deadlines, crashes in a wave of calls | no effect twice or without permission; every call answered; every run ends |
| Successors | a start checks, creates, binds and acquires in steps; two parties may take up the same run; the log is written after the lock is released | a workspace has one line of workers; a run is taken up once |
| Drafts | late events of replaced processes, edits during a freeze | what is called ready was seen, what is called durable is complete |
| Initialisation | failure or stop at any file operation, in recovery too | one template's whole workspace, and the store agrees |
| Gateway | repeated requests on several pods, executors that die | a turn is executed and billed once; every request ends |

`PROJECT.json` lists the components with their sources and, under "hazards", what
is hard to test in this code, line by line.

## 2. Modules

| Module | Extends | Models |
|---|---|---|
| `PublicationStore` | – | the store: one action per call |
| `DurableSnapshot`, `PublicationJournal` | – | the promise of a snapshot store, and the files and mirror that implement it |
| `WorkRuntimeController` | `PublicationStore` | controller, backend, cluster and clients |
| `ReleasePackaging` | – | release store, packager, collector |
| `PublishWorkflow` | `PublicationStore` | workflow store and controller over the publication store |
| `ArtifactPromotion` | – | publish records, commits, files, outbox |
| `ToolRuntime` ⊂ `AgentLoop` ⊂ `RunLifecycle` | each the one before | tool calls, the session that makes them, the life of the run |
| `RunSuccession` | – | the runs of a project, their successors and sandboxes |
| `DraftPreviews` | – | draft sessions and edit plans |
| `ProjectInit` | – | the initialisation transaction |
| `GatewayTurns` ⊂ `ProviderGateway` | the former | turns, and the configuration they read |
| `ReleasePackagingProofs`, `ArtifactPromotionProofs`, `DraftPreviewsProofs`, `ProviderGatewayProofs`, `RunLifecycleProofs` | the module of that name | theorems about it |
| `ProjectProofs` | `ProjectInit`, `RunSuccession` | theorems about both |
| `PublicationProofs` | `PublishWorkflow`, `PublicationJournal` | theorems about the publication store, the workflow on top of it and the files under it |
| `WorkRuntimeControllerProofs` | `WorkRuntimeController`, `PublicationProofs` | theorems about the controller on top of the store |
| `MC*` | the module of that name | constants and symmetry for TLC |

In every module an operator such as `Updatable_Stale`, a name followed by an
underscore and a capitalised word, is a faulty variant of `Updatable`: what a
plausible slip in that code would have produced. `PROJECT.json` ("mutants") says
which property each one breaks. No specification uses them.

### PublicationStore

`mem` is `Mutex<PublicationSnapshot>`; a call holds the mutex up to the end of
`persist_commit`, so one call is one action. `disk` is the snapshot the next
start will find. `phase` separates the start-up replay from serving. `acked` is
a history variable: what clients were told.

| Action | Code |
|---|---|
| `commit_intent`, `commit_intent_retry` | `commit_intent`: validation, idempotency key, compare-and-set on generation and current release, host slug, commit |
| `record_delivery_attempt`, `record_delivered`, `record_workload_ready`, `record_traffic_switched`, `record_unpublished`, `record_reconcile_failure` | the methods of those names; the guard of `update_outbox` is `Updatable` |
| `authorize_deployment_recreation` | the method of that name; in the repository only tests call it, and it stands for an operator's decision |
| `CrashAndOpen`, `replay_nonterminal_outbox`, `RecoveryComplete` | process stop, `open_with_mirror`, the replay in `runtime/bootstrap.rs` |

`persist_commit` succeeds (`Persisted`) or returns an error (`PersistFailed`):
memory is then unchanged, and the commit may or may not be found by the next
start. Request hashes are taken as injective; timestamps are dropped, so a
pending event may always be due; `attempts` stops at `BackoffCap`, beyond which
the code's backoff does not grow either.

### PublicationJournal and DurableSnapshot

A snapshot is its sequence number and the list of commits it reflects. A journal
line is what `read_journal` can tell of it: the record it parses to, if any, and
whether a newline ends it; appending to a line without a newline extends that
line. `persist_commit` is four steps (append, sync of the journal to
PostgreSQL, checkpoint by rename, sync of the checkpoint), each with the error
outcomes it can have: `begin_commit`, then `append_commit` … `sync_checkpoint`, memory
taking `next_snapshot` at the end. `restore_or_import` and `open_with_mirror` are the
start. `faulty` fixes which kinds of fault a behaviour has; the process can stop
(`process_stop`) in all. A missing file or row is `Absent`. `Survivable` says which kinds
may strike together: it leaves out a failed step with a lost checkpoint, and a move to
PostgreSQL with an import cut off, since either pair loses acknowledged commits
(section 6).

`DurableSnapshot` is the promise: a restart finds the last Ok commit or one
attempted after it. `Durable` states that the files implement it. This is what
`PublicationStore` assumes with `disk`.

### WorkRuntimeController

`ctl` is the controller task: its step, the event it works on, the copy of
the runtime record it read when it began, and the Deployment UID that `wait_ready` saw,
which is the one it reports. One action is one Kubernetes call or
wait. `deps`, `svc`, `ing`, `policy` and `probes` are the cluster. Store calls are
the operators of `PublicationStore`. A report that the store rejects ends the
task, which the supervisor treats as fatal: `Stop`.

| Actions | Code |
|---|---|
| `pick_event`, `begin_reconcile` | `reconcile_once`: list, then read the runtime record again |
| `apply_network_policy` … `apply_ingress` | `KubernetesWorkRuntimeBackend::reconcile` |
| `switch_stable_service`, `wait_endpoint_slice_release`, `verify_external_release`, `restore_previous_release` | `kubernetes_switch.rs` |
| `delete_ingress` … `delete_policy` | `delete_published_resources` |
| `report_*` | the store call that ends the reconcile |
| `StepFails`, `Crash`, `DeleteDeployment` | API errors, timeouts and failed probes; process stop; drift |
| `Client` | what the routes commit |

`exposed` (an Ingress is configured), `drift` (somebody else deletes Deployments) and
`patient` (clients wait until their intent is observed, and do not ask for the
release that is current) are fixed by the initial state; the constant `Situations`
lists the combinations. Kubernetes itself is external: server-side apply keeps a
UID, changes the resourceVersion only when the object changes, and refuses a
resourceVersion that is not the present one.

### ReleasePackaging

`mem` and `disk` hold a packaging together with its release, which the store
writes as a pair; `stale` records that the last journal event never reached
memory, so that the next one reuses its sequence number. `registry` is the tag of
each release. `may` is a history variable: the records a restart may find. A write
that fails (`PersistErr`) has left nothing, the journal event alone, the event and
the record in memory, or the checkpoint as well.

| Actions | Code |
|---|---|
| `Prepare` | `prepare_packaging` with its idempotency key |
| `Pass`, `Dispatch` | the controller's pass over unfinished packagings, four at a time; the step each one resumes at is the one its evidence allows |
| `Build`, `Lookup`, `Push`, `RecordPush`, `Scan`, `Sign` | `packager.rs` and the `record_*` methods of the store |
| `HelperFails`, `MarkReconcileRequired` | a backend call that fails, with or without its effect |
| `ReadProtection`, `MarkCollectable`, `DeleteImage`, `RecordCollected` | `collect_failed`, which decides on a protection snapshot taken earlier |
| `Publish`, `Crash` | a publication starts to refer to the release; process stop |

Builder, registry, scanner and signer are external. A digest is the one the
deterministic build yields, or some other.

### PublishWorkflow

`wf` are the workflow records, `pass` the copies the controller has still to
reconcile in this pass, `step` what the reconcile of the first copy has come to.
Between taking a copy and `advance` anything may happen: a cancellation, another
client's intent, a report of the work-runtime controller, a restart. The
publication store is `PublicationStore` itself, with its failing commits.

| Actions | Code |
|---|---|
| `start`, `cancel` | the store methods behind the routes |
| `StartPass` | `nonterminal()`, a copy of each |
| `freeze_source`, `advance_to_building`, `build_and_promote_version`, `prepare_release`, `observe_release`, `commit_publication`, `observe_publication` | the steps of `reconcile_one` |
| `read_for_rollback`, `commit_rollback`, `observe_rollback` | `begin_rollback` and what follows |
| `advance`, `record_error` | the store methods that end a step |
| `PackagingSettles`, `StoreStep`, `Restart` | the packager's verdict; other clients and the controller's reports; process stop |

### ArtifactPromotion

The store reads its logs again before each operation, so a record is what the log
says. A driver (a run, or a publish workflow) takes a version through `Stage`,
`Validate`, `Gate`, `Ready`, `Promoting`, `Promote` (files), `RecordUri`,
`GateAgain` and `Commit` (`artifact_publisher.rs`, `preview.rs`,
`commit_artifact_promotion`); each may be cut off or fail after its effect.
`Complete` is `run.complete` with its coupled promotion, `Announce` and
`MarkDelivered` the outbox. `Startup` reconciles, delivers and collects.

### ToolRuntime, AgentLoop, RunLifecycle

`ToolRuntime` has the records the store keeps of one run: `run`, `perms`
(permission requests), `ledger` (reservations and results), and the batch being
executed with the place of each call. A call passes the gates, the permission
engine, the reservation, the tool and the record of its result
(`tools/runtime.rs`); `execute_calls` (`tools/streaming.rs`) runs read-only
calls of a batch together and the others alone, and stops them on a cancellation,
an interrupt, a deadline or a failed shell command.

`AgentLoop` is `QuerySession::run_inner` (`agent_loop.rs`): the start, an approved
permission first, the checkpoint, the workflow driver, the model's answer, the
batch, and finalisation, which sets the status and then records `run.completed`.
What the model answers and which budget runs out are choices.

`RunLifecycle` is the service around it: `start` with its compensation,
`continue_run`, `resolve_permission`, `cancel`, the launcher and its watchdog, the
supervisor's refusal of a second task, `Crash` and `recover_run`. An API call reads
the run, updates the store and launches a session in separate steps.

### RunSuccession

`runs` are the run records in memory, `disk` the latest record of each in the log,
`busy` the sandboxes marked Busy, `frozen` and `continued` the continuation snapshots
and the RunContinuationCreated events. `calls` has the start that each caller, or the
continuation controller, has in flight.

| Actions | Code |
|---|---|
| `StartInitial`, `StartChild`, `dispatch_replan_successor`, `dispatch_continuation_successor` | where a start comes from: a client, a review, a confirmed replacement plan, the pass of `runtime/continuation.rs` |
| `validate_sandbox_context`, `validate_project_lifecycle_context` | the two checks whose result other requests can outdate |
| `Create`, `RecordPredecessor`, `RecordRun`, `RecordContinuation` | the insertion under the lock, and the appends after it |
| `StepFails`, `set_run_edit_context_error`, `StartPauses` | the ways out of a start: compensated, not compensated, left to the user |
| `bind_run_to_sandbox`, `Acquire`, `WorkspaceReady` | the sandbox, the workspace, the first checkpoint, the session |
| `FinalizePartial`, `create_run_continuation_snapshot`, `record_progress_fingerprint`, `mark_run_replan_required`, `SessionPauses`, `EndOrCancel`, `continue_run` | what a session, a cancellation and a user's message do to the run; the session itself is `RunLifecycle`'s |
| `Crash`, `runs_requiring_recovery`, `recover_run`, `Serve` | process stop and start-up recovery, during which the continuation controller is already at work |

### DraftPreviews

`sessions` are the records of `DraftPreviewStore`; a lease is named by the epoch
that minted it. `files`, `process` and `devState` are the sandbox; `plans`,
`approved`, `consumed` the edit guard. A tool is a sequence of steps (`op`) between
which other runs, routes and the dev server act: `DevStart` … `DevState`
(`preview.dev_start`), `StatusRead` … `StatusRestart` (`dev_status`),
`preflight_edit_mutation` … `MarkDurable` (a file mutation, its commit and its
durable snapshot), `StopProcess`, `StopSession`, `Restore`. `takeover`,
`create_plan`, `confirm` and `resolve_source` are the routes; `Expire`, `Exit`,
`Abandon`, `Crash` are time, the dev server's end, a dropped tool and a process
stop. Sources are the set of edits the workspace holds.

### ProjectInit

One action per file operation of `ProjectInitializer::initialize` and of the
transaction around it (`SnapApp` … `Complete`), of the rollback (`UndoRemoveApp` …
`UndoForget`) and of the completion (`RedoRecord` … `RedoForget`). Each can be done
wholly, in part or not at all, with an error for the caller or the process gone;
recovery itself as well. A removal or copy of a directory may stop after any of its
files, and the removal of the transaction directory leaves any of journal, file backups
and backed up app files behind. `store` and `log` are the project state in memory and in
the store's log. `scars` remembers four faults the protocol has no answer to
(section 6), and the properties say where they except them.

### GatewayTurns and ProviderGateway

`db` is the PostgreSQL database shared by the pods, `memory` the idempotency map
of each, `req` the requests. A request is one action per storage call: `Reserve`,
`Lookup`, `Woken`, `Poll` (find out whether to execute, replay or wait), `Select`
and `Check` (candidates, circuits, bulkhead), `ReserveTokens`, `AcquireLease`,
`Call`, `Upstream`, `RecordFailure`, `RecordSuccess` (attempts and switches),
`Settle`, `ReleaseTokens`, `ReleaseLease`, `Persist`, `Publish` (every way out).
`StorageFails`, `Disconnect`, `Late` and `Restart` are the faults. `Scenarios` fixes
what clients send and which faults a behaviour has, in its initial state.

`ProviderGateway` adds administrative writes (`Send`, `Write`, `WriteFails`) and
the refreshes that follow them and the two-second poll (`Poll2s`, `Refresh`): a
load reads the version, the tables one by one, and the version again. A pod that
restarts (`Restart`) has no snapshot and takes no requests until it has read the
version, one table and the other (`StartVersion`, `StartFirst`, `StartRest`), as
`GatewayService::new` does, without looking at the version again. `started` is a
history variable: pods that serve what they loaded so while something was written.

## 3. Runs

To repeat one: `tlc -workers 2 -config MCRuns.cfg MCRunLifecycle`.

| Run | Module, configuration | Bounds | Distinct states |
|---|---|---|---|
| `store` | `MCPublicationStore`, `MCPublicationStore.cfg` | 1 project, 2 releases, 2 keys, restarts and storage failures without bound | 218,196 |
| `hosts` | `MCPublicationStore`, `MCPublicationHosts.cfg` | 2 projects, 3 hosts, 1 release, 1 key | 136,998 |
| `journal` | `MCPublicationJournal`, `MCJournal.cfg` | 4 commits; each of the 18 sets of faults that the files survive | 99,972 |
| `controller` | `MCWorkRuntimeController`, `MCController.cfg` | 2 releases, 3 intents of all kinds, 1 fault; exposed or not, drift or not, patient clients or, with an Ingress and without drift, others; fairness | 526,591 |
| `packaging` | `MCReleasePackaging`, `MCPackaging.cfg` | 3 requests with 2 keys, 2 faults, 1 crash, fairness | 240,378 |
| `workflow` | `MCPublishWorkflow`, `MCWorkflow.cfg` | 1 workflow and 1 other client, 1 crash, 1 commit that fails but is found again | 1,158,361 |
| `runs` | `MCRunLifecycle`, `MCRuns.cfg` | a read, a shell call that asks, `run.complete`, a driver action; 2 turns, batches of 2, 1 crash, 1 further API request, fairness | 1,420,181 |
| `succession` | `MCRunSuccession`, `MCSuccession.cfg` | 2 callers and the controller, 3 runs, 1 sandbox offered and 1 provisioned, 1 crash | 3,159,373 |
| `drafts` | `MCDraftPreviews`, `MCDrafts.cfg` | 2 runs, 1 session, 2 edits, 2 epochs, 3 tools, 1 plan, 1 restart | 3,454,281 |
| `init` | `MCProjectInit`, `MCInit.cfg` | 2 templates, 3 faults, 2 edits | 3,930,772 |
| `promotion` | `MCArtifactPromotion`, `MCPromotion.cfg` | 2 versions, 2 runs and a workflow, 2 crashes, 1 fault, fairness | 812,460 |
| `gateway` | `MCProviderGateway`, `MCGateway.cfg` | 2 pods, 2 turn keys, 2 models, 10 scenarios, 1 fault, fairness | 877,938 |

All properties hold. What they say:

**store.** `GenerationOwned`: the compare-and-set serialises intents although
failed commits come back after a restart. `AckedNeverLost`: what a client was
told stays. `DesiredNeverForgotten`: a generation that is not observed has a live
event, or one the replay finds. `CompletedIsObserved`: Completed implies that the
release is the observed one. `SupersededFrozen`: late reports about an old
generation change nothing. Two keys give two competing intents and a superseded
one; keys are never reused, so they bound the generations, and nothing else
bounds the run. Projects are independent but for host slugs, which is why one
project is enough here and `hosts` has two.

**hosts.** `HostsUnique`: two projects never share a slug, also when the commit
that allocated one failed and comes back. There is one host more than projects:
the code draws 80-bit slugs up to 16 times until one is free, and running out of
them is not modelled.

**journal.** `AckedKept`: an open store has every Ok commit, in order, and, unless
a write was torn, it can be opened. `Durable`: refinement of `DurableSnapshot`.
Four commits allow a failed commit, its successor with the same sequence number,
a further failure and a recovery after it. With each of the other 14 sets TLC finds
`AckedKept` violated, so `Survivable` excludes no more than it has to. With torn writes a commit that failed,
was recovered and was never acknowledged can be torn away again by a later append;
the refinement mapping is therefore constant in those scenarios.

**controller.** `VisitorsAreServed`: a public host never leads to nothing, and an
update or a rollback keeps a release served from the old one to the new one
(`Traffic` is what a visitor gets). `StatusIsTrue`: Published and Unpublished are what
the cluster shows. `IntentObserved`: an accepted generation is observed or superseded,
if clients are patient; otherwise two of the cases of section 6 apply. `DriftNoticed`:
a work does not stay Published while its Deployment is gone. Two releases are the two
colours of a switch. Three intents allow publish, update and a third that supersedes
either, or publish, unpublish, publish. One fault at any step, on top of the
interleavings, reaches every error path. Impatient clients are checked where they can
do most, with an Ingress and without drift; with the other combinations (751,550 and
1,476,020 states), and with three releases and two faults (3.07 million states), the
safety properties held as well. Three resourceVersions are enough because a version is
only compared with the recorded one and the present one.

**packaging.** `ValidatedIsProven`: a validated release has all its evidence for
one digest, which the tag still names. `AckedKept`: a restart finds the last
acknowledged record or one tried after it. `ReferencedKept`: the image of a
release that a publication refers to stays and is the one its record names,
although the collector works on an old protection snapshot. It does not say that the
record stays Validated: a publication may have read one whose writer was told of a
failure, and a restart takes that back to an earlier step. `Settles`: each packaging ends validated or rejected.
Two requests share a key, so that a retried preparation meets a packaging under
way; two faults allow a lost answer and a second failure in the retry.

**workflow.** `OutcomeIsTrue`: Completed and RolledBack are what the workflow's own
operation came to. `NoLostUpdate`: a workflow publishes a validated release over
the generation its client saw, or fails. `OutcomeStands`: what a workflow ended with
stays, with the exception section 6 describes for cancellations. The other client
has every kind of intent; the workflow, its rollback and that client make up three
generations.

**runs.** `EffectsAllowed`: a tool takes effect at most once per id, and one that
asks only when a user allowed that call. `EveryCallAnswered`: when a batch returns,
each call has a result. `AnnouncedTruly`: `run.completed` tells the run's status for
good. `RunningEnds`: a run does not stay Running. Two turns let a repeated id and an
approval meet a later turn; a batch of two has a read-only wave and a serial call,
or a call that stops its neighbour. One crash reaches every recovery path, the
second one being the same with a later checkpoint.

**succession.** `OneWorker`: of two runs that prepare or work in the same sandbox one
descends from the other, and the sandbox is marked Busy; runs that paused before they
acquired it are excepted (section 6). `ContinuedOnce`: of the successors of a run that
are not children at most one ever works, whether a continuation or a replaced plan made
it, and no successor has two automatic continuations in its line. Two callers race each other and the
controller for one offered sandbox and one predecessor; three runs are a predecessor and
two that could succeed it, or a run, its continuation and the continuation's. A request
that has not created its run yet counts towards the three, so that each can finish.
Children are reviews. Apart from the records of a creation, a change of a run and its
append are one step; appends do not fail; a session whose run is closed counts as
stopped; a client continues a run only after its start has answered.

**drafts.** `DurableIsComplete`: the durable snapshot holds every edit of its
revision. `ReadyWasSeen`: ready revisions were in the workspace when the dev server
was sampled, by the process the session has now, and what a publish workflow takes
was shown and is durable. `ApprovalOnce`: a plan that needs confirmation has it
before a file changes, and serves one run. Two runs compete for a session; two
edits let one be committed while the other is frozen; two epochs and one restart
give a replaced process whose events arrive late. With two sessions and one edit
the properties held over 17 million states.

**init.** `WholeProject`: with no transaction pending the workspace is one
template's, with the agent's edits. `StoreAgrees`: the store names that template,
after a restart too. Where the removal that ends a rollback has been cut off before the
journal with a part of the backed up app root gone, the next rollback restores what is
left: files may then be absent, and both properties still say that none is another
template's and that style contract, hint, store and log name one template. Three faults
are a failure, an interrupted rollback and an interrupted recovery; two templates are the
old and the new one.

**promotion.** `PromotedIsKept`, `ReplacesWhatItSaw`, `AnnouncedOnce`: a promoted
version stays with its files, replaces the version it was begun against, and is
announced at most once. `RestartSettles`: a start of the process commits or gives up
what was half done and makes the announcements owed. Two versions compete for the
same predecessor. An instance with three versions, one crash and one fault (4.1
million states) held as well.

**gateway.** `ExecutedOnce`: one execution per turn, one revision per
administrative write. `AnswersAgree`: all successful answers for a turn are the
stored one. `NothingLeaks`: usage and leases are what requests used and hold.
`ConcurrencyBounded`: no more turns call providers than the policy allows.
`EveryRequestEnds` and `ConfigurationFollows`: every request ends, and every pod
comes to serve the configuration of the database, with two of the exceptions of
section 6; the configuration a pod serves is one the database had, never a mixture of
two, unless the pod has started while something was written, and then its version is
behind, which makes its poll replace what it serves. A scenario says which requests are sent to which pod (the same key
twice, on one pod or two, with the same or another body, after its replay window;
two keys competing for quota, bulkhead and lease; writes to one table or both, and
refreshes and starts that fall between them) and which
faults may happen; every action is enabled in one of them.

*Symmetry.* Declared for releases, keys and hosts of the store, hosts of the
workflow, callers of the succession, runs of the drafts and templates of the initialisation; no operator
chooses among them, and no run that checks liveness uses it.

*Deadlock.* Checked in `store`, `hosts` and `init`. In the other runs a state in
which all requests are served and all faults used is the system at rest.

## 4. Fairness

Weak fairness is assumed of what a task or a deadline of the code brings about:

- controller: its step, taking up each sweep's event, and recovery. It is a task
  with a loop and an interval (`publication/controller.rs`), every Kubernetes wait
  has a timeout, and a fatal failure ends the process, which the deployment
  restarts;
- packaging: the pass (an interval loop, `release/controller.rs`) and each
  packager it dispatched;
- runs: the session (a task whose waits have deadlines), the rest of an API call
  that has begun, and `recover_run`, which the start of the process calls;
- promotion: `Startup`, which the bootstrap awaits before it serves;
- gateway: each step of a request, its deadline (`Late`), each administrative
  write that has begun, the two-second poll with the refresh it starts, and the start
  of a pod.

No fairness is assumed of clients, users, models, faults, crashes, drift or an
operator: a behaviour may have none of them. Faults are finitely many, so
progress is claimed for when they stop.

## 5. Proofs

To repeat one: `tlapm DraftPreviewsProofs.tla`. Every theorem holds for all sets and
bounds that satisfy the named assumptions; those only keep `None` and the like apart
from real values and say that bounds are natural numbers. TLC evaluates them in the
runs of their modules.

| Module | Theorem | States | Property |
|---|---|---|---|
| `PublicationProofs` | `InvHolds` | inductive invariant `Inv` | |
| | `TypeCorrect` | records have their types | |
| | `GenerationsOwned` | always | `GenerationOwned` |
| | `AcknowledgedSurvives` | always | `AckedNeverLost` |
| | `DesiredStaysQueued` | always | `DesiredNeverForgotten` |
| | `CompletionIsEarned` | always | `CompletedIsObserved` |
| | `HostsStayUnique` | always | `HostsUnique` |
| | `SupersededStaysFrozen` | of every step | `SupersededFrozen` |
| | `NothingRunsBackwards` | of every step | (`NeverBackwards`) |
| | `WorkflowInvariance`, `WorkflowTypeCorrect` | inductive invariant, types | |
| | `UsesTheStore` | implements `PublicationStore`'s `Spec` | |
| | `OutcomesAreTrue` | always | `OutcomeIsTrue` |
| | `NoUpdateIsLost` | always | `NoLostUpdate` |
| | `OutcomesStand` | of every step | `OutcomeStands` |
| | `JournalInvariance`, `JournalTypeCorrect` | inductive invariant, types | |
| | `AckedKeptTheorem` | always | `AckedKept` of `PublicationJournal` |
| | `JournalIsDurable` | implements `DurableSnapshot` | `Durable` |
| `WorkRuntimeControllerProofs` | `ControllerUsesStore` | implements `PublicationStore`'s `Spec` | |
| | `StatusStaysTrue` | always | `StatusIsTrue` |
| | `VisitorsStayServed` | always | `VisitorsAreServed` |
| `ReleasePackagingProofs` | `Invariance`, `TypeCorrect` | inductive invariant, types | |
| | `EvidenceTheorem` | always | `ValidatedIsProven` |
| | `DurabilityTheorem` | always | `AckedKept` |
| | `ReferenceTheorem` | always | `ReferencedKept` |
| `ProviderGatewayProofs` | `Invariance` | inductive invariant | |
| | `ExecutedOnceTheorem` | always | `ExecutedOnce` |
| | `AnswersAgreeTheorem` | always | `AnswersAgree` |
| | `ConcurrencyTheorem` | always | `ConcurrencyBounded` |
| | `ConfigurationTheorem` | always | (`ConfigurationReal`) |
| | `AccountInvariance` | inductive invariant of the books | |
| | `NothingLeaksTheorem` | always | `NothingLeaks` |
| `ArtifactPromotionProofs` | `Invariance` | inductive invariant | |
| | `KeptTheorem` | always | `PromotedIsKept` |
| | `SwapTheorem` | always | `ReplacesWhatItSaw` |
| | `AnnouncementTheorem` | always | `AnnouncedOnce` |
| `ProjectProofs` | `Invariance`, `TypeCorrect` | inductive invariant, types, of `ProjectInit` | |
| | `WholeTheorem` | always | `WholeProject` |
| | `StoreTheorem` | always | `StoreAgrees` |
| | `SuccessionInvariance` | inductive invariant of `RunSuccession` | |
| | `OneWorkerTheorem` | always | `OneWorker` |
| | `ContinuedOnceTheorem` | always | `ContinuedOnce` |
| `DraftPreviewsProofs` | `Invariance`, `TypeCorrect` | inductive invariant, types | |
| | `DurableTheorem` | always | `DurableIsComplete` |
| | `ReadyTheorem` | always | `ReadyWasSeen` |
| | `ApprovalTheorem` | always | `ApprovalOnce` |
| `RunLifecycleProofs` | `RunInvariance`, `RunTypeCorrect` | inductive invariant, types | |
| | `EffectsStayAllowed` | always | `EffectsAllowed` |
| | `CallsAreAnswered` | always | `EveryCallAnswered` |
| | `EventsAreTrue` | always | `AnnouncedTruly` |

A property in parentheses is defined for the proof and no run checks it. None of the
others is inductive alone. What each invariant adds, and why:

**PublicationStore.** `Inv == TypeOK /\ SnapOK(mem) /\ SnapOK(disk) /\ Extends(mem, disk) /\ AckedNeverLost`.
A restart replaces `mem` by `disk`, so what is said of one has to hold of both.
`SnapOK` says of one snapshot that it is valid, that each generation has one owner,
that what is not observed is queued, and that what is Completed is observed.
`Extends(mem, disk)` says what may distinguish the two: `disk` has every operation
that `mem` has, with its request and generation, the same record of superseded
operations, and no smaller generation. It gives `NeverBackwards` and
`SupersededFrozen` for the restart, and together with `AckedNeverLost` it lets a
failed commit be overwritten on `disk` by the next one. Assumptions:
`BackoffCapAssumption` (a positive cap; 6 in the code), `NoneAssumption`.

**PublicationJournal.** `Recovered` folds over the journal, and the library's induction
theorems take an operator, so the lemma `FiniteInduction` gets induction from the least
number outside a set, which the well-foundedness of the natural numbers provides. With it:
the recursive function of `ReplayOf` exists; one line more is one step of the replay more
(`OneLineMore`); recovery never goes behind the checkpoint or a line, keeps the checkpoint's
log as a prefix, and returns a checkpoint that no line is newer than (`RecoveredFacts`).
`JInv` then has to speak of the next start at every step of a commit. `SettleInv`: what it
will read (`NextJournal`, `NextCheckpoint`, wherever these are) settles on one of the
tries, and so would the local journal with that checkpoint, which is why copying the journal
ahead of the checkpoint is harmless; no line is more than one ahead of the snapshot
(`Within`), which is why the new checkpoint makes the journal irrelevant. `LossInv`: while
no step fails, the journal alone gives what it gives with the checkpoint. `MirrorInv`: an
empty table means that there is nothing to import or that the installation has moved.
`AckedInv`: unless it may be lost, the checkpoint has what was acknowledged, torn
journals or not. `TriesInv` and `SettleInv` are claimed while no write can be torn
(`Clean`). The refinement maps `begin_commit` to `Attempt`, `sync_checkpoint` and
the two ways a start ends to `Commit`, and the other steps to none. Assumptions:
`JournalAssumption`, and `FaultsSurvivable` as a hypothesis of each theorem.

**ReleasePackaging.** `IInv` speaks of one key at a time. `RecordOK`, of the record in
memory and of the one on disk: all evidence is about the pushed image, and the status of
the packaging and of the release say the same. `WorkOK`: the step the packager is at
fits the record it read. `RegistryOK`: the tag is what either record says was pushed,
or it is gone and both records are of a rejected release. The last part carries
`ReferencedKept`: a publication refers to validated releases, the collector deletes
rejected ones, and neither memory nor disk can turn one into the other, however old
the collector's snapshot. Assumption: `InputsKeyed`.

**ProviderGateway.** `KeyInv` relates a turn's row to the calls made for it and the
responses returned; `ReqInv` says what a request at each step may rely on;
`OneExecutor`, that a key has one request past its reservation. That is what makes the
row's state stable between the storage calls of an executor, and `ExecutedOnce` and
`AnswersAgree` follow from it. `LeaseInv` bounds the leases of a scope, and `ReqInv`
that who calls a provider has one. `ConfigInv` says of a load that the sum of versions
it began with bounds what it has read: equal sums before and after then mean that no
table changed between, so what a refresh installs was the database's configuration at
one moment. Of a start it says that what was read is the configuration or older, table by
table, and that its version is that of a moment before the reads: unless nothing was
written, the version is behind, and it stays so until a refresh installs over it
(`ServeInv` has what this rests on: a pod without a snapshot is one that starts, handlers
and their refreshes run in pods that serve, and a refresh that stores its version has
already replaced what a start left). For `NothingLeaks`, tokens are counted one by one: what a function gives is
the cardinality of a set of pairs (`Tokens`), so that a reservation, a release or a
settlement adds or removes the pairs of one member. `AccountInv` says what each
request holds at each of its steps (`HeldInv`), that the day's usage is at least what is
due, and exactly that until a fault strikes (`UsageInv`), and that a lease is the one of
a request past its acquisition and before its release (`LeasedInv`). Assumptions:
`GatewayAssumption`, `NoneAssumption`, `TableAssumption`, `RefresherAssumption` (an
operation is not a pod, so that each load has one owner).

**ArtifactPromotion.** `PInv`: a recorded URI has its files in place (`VersionInv`); a
driver works on a record of its own, so no two work on one version (`JobInv`); a
completed run has a promoted output and begins nothing more (`RunInv`); what the outbox
holds has happened (`EventInv`). Assumption: `PromotionAssumption`, in which versions
and runs are disjoint because the outbox is keyed by both.

**ProjectInit.** `WholeProject` says nothing while a transaction is pending, so the
invariant has to say where a pending one leads. `Reversible`: there is a workspace, whole
and recorded in the log, that the backup holds and to which the steps done so far can be
undone, from any point of initialisation and of rollback itself. Once a removal has
thinned the backup (`Thin`), what is left of it (`Remnant`) is a workspace with files absent
and none wrong, and the copy step of the next rollback makes that the workspace which
`Reversible` speaks of. `Completes`: a committed
journal's template is in place but for the steps of completion. `PcInv`: journal and
transaction agree. All this is claimed while the journal was not removed without its
backup and no written commit mark was retracted (`Clear`), and of the log while no append
was lost. Assumption: `ProjectInitAssumption`.

**RunSuccession.** `SInv` has a part for each thing that two starts could disagree about.
`RunOK`: the log has a run as memory has it, or the start that made it is about to record
it; the run it succeeds is recorded and out of its own start. `CallOK`, `NewRunOK`: a run
that is being started is in the hands of one start. `HoldersOK`: the active runs that
acquired a sandbox are of one line of descent, and the sandbox is Busy; what is acquired
again after a restart counts from then on. `HeirsOK`: of the successors of a run that are
not its children one at most is open or was launched, and its predecessor says
in memory and in the log that it has one. `ContinuationsOK`: a run that may still be
continued has no continuation in its line. A line of ancestors (`Lineage`) may have any
length; it is taken as the least set closed under predecessors, so that what is said of
a run and of its predecessor carries to the whole line without recursion. Assumption:
`SuccessionBounds`.

**DraftPreviews.** `Sound` relates a session, its commits and its samples. `ToolInv`
says that what a tool holds of a session was true of it once (`Holds`), and of a
snapshot frozen and not yet marked that it has all commits up to the revision it will
be marked for, less what restores dropped. Such facts survive the steps of others
because sessions, revisions, epochs, commits and drops only grow (`Grows`, proved of
every step). For approvals, `Spends(r, p)`: a run that has passed its preflight under a
risky plan has consumed it, and no two runs have; a crash takes a run's preflight back and
never the consumption. Assumption: `Bounds`.

**PublishWorkflow.** The step lemma shows two things at once: a step of the
composition is a step of the publication store or leaves it alone (`UsesTheStore`), and it
keeps `WInv`. The first half makes the store's `Inv` and `Extends`
available to the second, so that a request once known stays as it is, restarts
included. `WInv` adds `CopiesAgree` (a pass holds each workflow at most once, the copies
agree with the workflows in all but the status, and none of them has ended);
`StepEarned` (an advance under way is one of those `Leads` lists, with what it needs:
the packager's verdict, the committed operation, its completion); `Earned` (the same, of
a workflow at its checkpoint), and `Generations`: a generation that a publish key owns,
in memory or on disk, is the one after what the client saw. `OutcomeStands` needs
`CopiesAgree`: `advance` compares the checkpoint alone, so a workflow that has ended is
safe only because no copy of it is left in the pass. Assumptions: `WorkflowAssumption`
(finitely many workflows); `KeysAssumption` (publish and rollback keys are distinct: a
workflow id is a prefix and a hash, with no colon in it); `NoWorkflowAssumption`.

**WorkRuntimeController.** `CInv` says what a controller that works on a copy may rely
on. `ViewOK`: its record is the store's, or an older one; in both the release in service is
the same, since only the controller itself reports, and while it is overtaken the status
is one that promises nothing. `PublishPathOK` and `DeletePathOK`: what the
steps before this one created or deleted is still so, and a delete path was asked for by
somebody. `StatusOK`: a status of Published or Unpublished describes the cluster as it is.
`VisitorsOK`: the release that the Service selects, and the one the store calls current,
each have a Deployment, and the route is there once anything was published, until an
Unpublish is asked for. A client's commit changes the record and none of the cluster,
and leaves the status at one of `InProgress`, so a step is harmless to `StatusOK` whether
or not it has been overtaken; a report is accepted only while it has not (`Updatable`). That
the controller takes only steps of the store (`ControllerUsesStore`) makes `Inv` and
`Extends` available. Assumption: `ControllerAssumption` (one project, at least two UIDs and
three resourceVersions, so that a fresh one can always be had).

**RunLifecycle.** `LInv` has a part for each property. `Effects`: the call of a tool that
changes something is reserved in the ledger before it begins and has had no effect then;
once it has, the record is there and it is not called again, and the in-doubt pause
keeps that true across deadlines, the watchdog and crashes, which forget where a call was
and not its record. An approval comes from a user, and who is called, or had its effect,
had one if the permission engine asks about it. `Answers`: while a batch runs, a call
without a result is in the queue or under way; the wave taken from the queue is a prefix of
it, for which the lemma `WaveIsPrefix` needs that a least number exists where the run of
safe calls ends. `LoopEvents`, `LifeEvents`: the session before its event, `start` after its
compensation, the confirmation of a brief and a cancellation have each set the status they
are about to announce, and `StatusKept`, shown of every step, keeps a terminal status.
`AnnouncedTruly` excepts the launcher for what section 6 says. `SessionOK` bounds the turn
by the budget, and `DownIsQuiet` says that a crash leaves no session for `recover_run` to
meet. Assumptions: `CallKinds`, `LoopBounds`, `LifecycleBounds`.

Each proof has a lemma per operation of the component and one step per action; the
invariants were checked by TLC on the instances of section 3 before they were proved.

Every invariant and every property of single steps that the runs check is proved, and so
is the refinement. Only model-checked are the properties under fairness: `IntentObserved`,
`DriftNoticed`, `Settles`, `RunningEnds`, `RestartSettles`, `EveryRequestEnds` and
`ConfigurationFollows`. The prover handles neither fairness nor ENABLED. The bounds of the
runs are not in the theorems; what section 7 leaves out of the models is out of them too.

## 6. Observed disagreements

What the code does where a document, a comment or a test says otherwise, or where
a property had to be restricted. Line numbers are those of the file named;
the dated documents are at the repository's root.

### Publication

- `publication/store.rs:693`: `append_commit` never repairs the tail. An append that
  failed half way leaves a fragment; the next commit, which returns Ok, is glued to
  it, and `read_journal` refuses that line at every later start.
  `publication-control-plane-g5.md:33` says a truncated final record is ignored: it
  is not the final one any more.
- `publication/store.rs:544`: a commit that failed after its journal record was
  written and the next Ok commit have the same sequence number. When the checkpoint
  is missing the replay takes the failed one and skips the acknowledged one; compare
  `store_tests.rs:47`.
- `control_plane_persistence.rs:86`: any row in the table is taken as proof of a
  complete import. A start that stops during the import makes the next start delete
  the local files that have no row yet, against
  `2026-07-18-namespace-workspace-greenfield-implementation-plan.md:499`.
- `publication/kubernetes.rs:268`: the first audit after an Update relabels the
  Service. A failure between that and the report leaves the recorded
  resourceVersion behind; each later `apply_service` is refused and the work stays
  ReconcileRequired, against
  `2026-07-12-generic-template-artifact-sandbox-ingress-plan.md:1088`. The site is
  still served.
- `publication/kubernetes.rs:537`: a Publish accepted while an Unpublish has deleted
  some objects is never observed, since the record still names their UIDs (`:929` of
  the same plan).
- `publication/kubernetes.rs:293`: a crash while the prober runs, then an Unpublish,
  leaves the probe Service for good (`:1161`).

### Packaging

- Two faults in a row can lose a Validated record that readers saw and no caller was
  told of.
- A packaging whose first recorded build strayed from the deterministic digest is
  refused for ever; `Settles` excepts it.
- `collect_failed` has no caller in production.

### Publish workflow

- `publish_workflow/store.rs:243`: `advance` compares the checkpoint and not the
  status, so a step in flight overwrites a cancellation.
  `2026-07-19-visual-react-runtime-capability-implementation-plan.md:921` counts
  cancelled among the terminal states.
- `publish_workflow/controller.rs:640`: a workflow can end Failed although traffic has
  switched (`:922-923`).
- `publish_workflow/controller.rs:610`: `begin_rollback` reads the generation it commits
  over after the failure, so it may supersede an intent newer than its own update. A
  rollback by Unpublish expects no current release and can take down one that became
  healthy meanwhile.
- A workflow whose operation was superseded is looked at in every pass and never ends.
- A commit that returned an error and is found again by a restart publishes although
  the workflow says Failed.
- The branch that records RollbackFailed cannot be reached.

### Promotion

- `tools/sandbox/preview/publish.rs:360` says a candidate is promoted with its run's
  completion. A second candidate of the run loses that coupling
  (`conversation.rs:7285`), and a restart promotes an abandoned one.
- The outbox is delivered only by the caller that filled it or by a restart.
- A candidate rejected at the second gate can be promoted by reconciliation, which
  has no gate. Staging and Validating records are never collected. The retry of a
  workflow reads the expected version again. Hydration applies old commits again.

### Runs

- `runtime/supervisor.rs:134`: a launch refused as a duplicate task leaves its run
  Running; `2026-07-04-rust-runtime-spec.md:1572` wants none to stay so.
- `agent_loop.rs:1776-1945`: a run that waits for the user goes on to another model
  turn when the driver pauses it in doubt (`:89` of the specification).
- A denied permission ends in Blocked without `run.completed`
  (`2026-07-09-run-events-live-sse-plan.md:206`); a crash or the watchdog between
  status and event leaves a terminal run unannounced.
- Cancellation and finalisation can both record `run.completed`; the launcher can
  record "failed" for a cancelled run (`runtime/session_launcher.rs:71-85`), which
  `AnnouncedTruly` excepts.
- An error of `set_run_edit_context` leaves a Queued run, which the recovery of the
  next start runs. Blocked does not stop the batch that is being executed.

### Successors

- `run_lifecycle/start.rs:335-483`: a start that leaves its run to the user returns before
  `acquire_sandbox_binding_for_run`, and `continue_run` does not acquire either: the run may
  work in a sandbox that another one has acquired meanwhile. `OneWorker` excepts it.
- A run cancelled during its start is still bound, acquires the sandbox and has its
  workspace restored: none of these steps looks at the status again.
- `recovery.rs:43`: recovery acquires without an allowed parent, so of a parent and a child
  on one sandbox one is failed after a restart.
- `runtime/bootstrap.rs:91-113`: the continuation controller is spawned before
  `recover_interrupted_runs`, which may take a successor that is just being started for an
  interrupted run and fail it, having no checkpoint yet. Nothing continues its predecessor
  then; the same holds of a successor that a crash cuts off before its first checkpoint.
- A crash between the records of predecessor and successor leaves a pointer to a run that
  does not exist, and the predecessor is not continued.
- `create_child_run` overwrites the successor of its parent. The limit of one continuation
  (`2026-07-22-runtime-context-token-efficiency-remediation-plan.md:2124`) is a count frozen
  in the run's snapshot (`conversation.rs:5669`), so two partial runs of one operation, a
  parent and its child, can both be continued. `ContinuedOnce` counts along one line.

### Drafts

- `draft_preview.rs`: a takeover does not look at other sessions of the project, so
  two leases may be live;
  `2026-07-19-visual-react-runtime-capability-implementation-plan.md:187` and `:599` allow
  one writer.
- `tools/sandbox/preview/dev.rs:502`: `record_dev_mutation` reads lease and epoch after
  the write, so nothing stops the bytes of a writer that lost its lease
  (`2026-07-20-generation-context-and-prebuild-exploration-optimization-plan.md:2387`).
- `begin_restart` checks neither the epoch nor Stopped; a restore can run while an edit
  is not committed; the check for an active mutable run races; ready is read from the
  tail of a log, where the plan has what the browser showed (`:591`).
- A torn line of `sessions.jsonl` keeps the store from opening. A crash between the
  consumed approval and the append of the run blocks that run.

### Initialisation

`scars` names the faults that the properties except:

- the removal that ends a rollback cut off before the journal, with a part of the backed
  up app root gone (`project/workspace_transaction.rs:297`, `:499`): the journal is still
  Prepared, so the next `recover_pending` removes the app root that had been restored,
  copies what is left of the backup (`:273`-`:279`) and reports success; files, the agent's
  edits among them, are lost without an error. The properties then claim only that nothing
  wrong is there;
- the removal of the transaction directory cut off after the journal and before the
  backup: its stale backup may be restored later (TXN-001,
  `2026-07-11-sandbox-tools-architecture-split-plan.md:40`);
- a failed append to the store, whose state recovery then finds in memory and does not
  write again (STATE-001, `:39`);
- a commit mark that was written but reported as failed, followed by a rollback that is
  cut off.

A torn journal keeps `project.init` from working at all, a Prepared journal left behind
by a lost acknowledgement undoes later edits, and the start recovers the projects of
unfinished runs only.

### Provider gateway

- `lib.rs:1025`: a request that waits for an executor in its own process has no
  deadline; if the executor's handler was dropped it waits for ever (`Orphaned`).
- `lib.rs:4822`: two refreshes of a pod are not serialised. One may install an older
  snapshot after the other and leave the newer version number with it, and the pod
  stays stale (`2026-07-22-provider-model-service-simplification-optimization-plan.md:426`,
  `:552`).
- `lib.rs:897`: `GatewayService::new` reads the version and then the tables in separate
  queries (`services/provider-gateway/src/postgres_store.rs:569-573`), without the second
  look at the version and the retry of `refresh_configuration`. A pod that starts while
  another one writes two tables may serve a pair the database never had; its version is
  then behind, so the poll replaces the pair within two seconds, unless reads fail
  (`ConfigurationFollows` excepts it).
- A reservation whose acknowledgement was lost stays in progress, so its turn is never
  executed. An administrative row left in progress blocks its key. A write that
  succeeded behind an error is answered with a revision conflict when it is repeated
  (`services/provider-gateway/README.md:63`).
- A half-open circuit admits any number of probes, the check of the circuit may be old
  when the call is made, and a deadline that the client set counts as a failure of the
  provider. A failed settlement keeps its lease until it expires. The scope of a lease
  has the policy's revision in it, so the bound is per revision.

### Read, without a module

- Sandbox bindings and channels: `wait_ready` and `mark_sandbox_binding_busy` write the
  status unconditionally, so a late one revives a deleted binding; a crash between the
  start of a port-forward and Ready leaks the child process; `release_binding` racing
  with `endpoint` leaves a live forward with a Released lease; an error during
  acquisition leaves the lease Acquiring; concurrent calls of `endpoint` share a lease
  id; runs of the Export phase bind without acquiring.
- Token sync: the comment at `run_lifecycle/profile_token_sync.rs:109-114` says that a
  process that dies after `style.update_tokens` is resumed from RecoveryRequired; nothing
  moves Applying there after a crash. Two confirmations at once may create two children
  that reject each other.

## 7. Limits

- `PublicationStore` assumes of `disk` what `Durable` establishes. The three
  disagreements about the journal are the cases in which the files do worse; a store
  that met one of them can lose an acknowledged operation. Torn writes are outside the
  refinement, and the other two are the pairs of faults that `Survivable` leaves out.
- `WorkRuntimeController` has one project, and store writes succeed in it: a write that
  fails ends the controller task, which is a crash before or after the report. Failing
  writes are in `PublicationStore`.
- Backoff, intervals and lease times are not measured: a pending event may be taken up,
  and a lease may expire, at any time. This allows more behaviours than the code, not
  fewer.
- Probes answer what the cluster state says, or fail. Builders, registries, scanners,
  providers and models are choices.
- `RunLifecycle` follows one run: its records have `run`, not a map of runs, and
  `update_run_status`, which changes memory before its appends, is one step.
- `DraftPreviews` leaves out the reuse of a snapshot by `draft.snapshot_create`.
- `ProviderGateway` leaves out draining, GitOps reconciliation, secrets, readiness, key
  conflicts of administrative requests, what SQLite does differently, and metrics; a pod
  stops in one step.
- Authorization, release validation, namespace checks and clashes with foreign Ingresses
  are left out.

Not modelled:

- sandbox bindings and channel leases, profile token sync, repair runs with their
  findings: state machines of the kind modelled here, next in the plan;
- content-plan approvals: a log that is appended to and applied under one mutex;
- design profiles, generation contracts, visual reports, style checks: validation and
  formatting of documents, without concurrent state;
- prompting, context compaction and budgets of the agent loop beyond the choices they
  lead to: text;
- the web application, which forwards requests and renders state, and the templates and
  sandbox images, which are data.

These, together with the tests inside the source files, are the larger part of the
repository's lines.

## 8. Plan

1. `ChannelLeases`: a call reaches only the pod it was leased for; no forward without a
   lease.
2. `ProfileTokenSync`: preview, confirmation, apply and recovery; no user edit is
   overwritten silently.
