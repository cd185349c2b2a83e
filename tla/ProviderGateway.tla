--------------------------- MODULE ProviderGateway ---------------------------
(***************************************************************************)
(* The provider gateway as a whole: the turns of GatewayTurns, and the     *)
(* configuration they read.  Administrative writes change the resources    *)
(* and policies in the database and bump configuration_version in the same *)
(* transaction; every pod keeps a snapshot, which the write's own handler  *)
(* and a poll every two seconds refresh.  A pod that starts loads one      *)
(* before it serves, without the refresh's second look at the version.     *)
(*                                                                         *)
(* An administrative operation is identified with its Idempotency-Key and  *)
(* payload.  The version is the number of writes, hence the sum of the two *)
(* revisions.                                                              *)
(***************************************************************************)
EXTENDS GatewayTurns

CONSTANTS
  Operations,      \* administrative writes
  MaxLoads,        \* tries of one load of the configuration: 3 in the code
  Table(_)         \* the table an operation writes: "resources" or "policies"

ASSUME TableAssumption == \A o \in Operations : Table(o) \in {"resources", "policies"}

\* An operation is not a pod.
ASSUME RefresherAssumption == Operations \cap Pods = {}

VARIABLES
  config,      \* the database: the current revision of each table
  admin,       \* the database: admin_idempotency_records, per operation
  op,          \* the handlers of the operations
  refresh,     \* loads under way, per operation and per pod (its start, its poll)
  version,     \* per pod: configuration_version of its snapshot
  applied,     \* history: revisions an operation has created
  trail,       \* history: the configurations the database has had
  overtaken,   \* history: pods where an older refresh overtook a newer one
  started      \* history: pods that serve what they loaded at their start, with
               \* a write in between

configVars == <<config, admin, op, refresh, version, applied, trail, overtaken, started>>

vars == <<gatewayVars, configVars>>

Version(c) == c.resources + c.policies

Refreshers == Operations \cup Pods

NoRefresh == [pc |-> "idle", pod |-> None, before |-> 0, read |-> None, tries |-> 0]

\* A storage mutex per pod covers the reads of one load.
Free(p) == \A f \in Refreshers : ~(refresh[f].pc = "loading" /\ refresh[f].pod = p)

SetOp(o, new) == op' = [op EXCEPT ![o] = new]

SetRefresh(f, new) == refresh' = [refresh EXCEPT ![f] = new]

(***************************************************************************)
(* Administrative writes                                                   *)
(***************************************************************************)
\* An operator sends a write to a pod that serves, against the revision read
\* before the first try, or repeats one that was not acknowledged.
Send(o) ==
  /\ op[o].pc \in {"idle", "failed", "gone"}
  /\ \E p \in {x \in Pods : <<o, x>> \in scenario.writes /\ conf[x] # None} :
       SetOp(o, [pc |-> "reserve", pod |-> p,
                 expected |-> IF op[o].pc = "idle" THEN config[Table(o)] ELSE op[o].expected])
  /\ UNCHANGED <<gatewayVars, config, admin, refresh, version, applied, trail, overtaken, started>>

\* reserve_admin_write
ReserveWrite(o) ==
  /\ op[o].pc = "reserve" /\ Free(op[o].pod)
  /\ \/ /\ admin[o] = None
        /\ admin' = [admin EXCEPT ![o] = "in_progress"]
        /\ SetOp(o, [op[o] EXCEPT !.pc = "save"])
     \/ /\ admin[o] # None
        /\ SetOp(o, [op[o] EXCEPT !.pc = IF admin[o] = "completed" THEN "acked" ELSE "failed"])
        /\ UNCHANGED admin
  /\ UNCHANGED <<gatewayVars, config, refresh, version, applied, trail, overtaken, started>>

check_revision(o) == config[Table(o)] = op[o].expected

\* One transaction: the new revision becomes current, the version is bumped.
Saved(o) ==
  LET c == [config EXCEPT ![Table(o)] = @ + 1] IN
  /\ config' = c
  /\ trail' = trail \cup {c}
  /\ applied' = [applied EXCEPT ![o] = @ + 1]

\* save_model_resource, save_model_selection_policy and the like
Save(o) ==
  /\ op[o].pc = "save" /\ Free(op[o].pod)
  /\ \/ /\ check_revision(o) /\ config[Table(o)] + 1 \in Revisions
        /\ Saved(o)
        /\ SetOp(o, [op[o] EXCEPT !.pc = "refresh"])
        /\ SetRefresh(o, [NoRefresh EXCEPT !.pc = "load", !.pod = op[o].pod])
     \/ /\ ~check_revision(o)
        /\ SetOp(o, [op[o] EXCEPT !.pc = "discard"])
        /\ UNCHANGED <<config, trail, applied, refresh>>
  /\ UNCHANGED <<gatewayVars, admin, version, overtaken, started>>

\* complete_admin_write
Complete(o) ==
  /\ op[o].pc = "complete" /\ Free(op[o].pod)
  /\ admin' = [admin EXCEPT ![o] = "completed"]
  /\ SetOp(o, [op[o] EXCEPT !.pc = "acked"])
  /\ UNCHANGED <<gatewayVars, config, refresh, version, applied, trail, overtaken, started>>

\* discard_admin_write: the reservation goes, and the caller gets the error.
Discard(o) ==
  /\ op[o].pc = "discard" /\ Free(op[o].pod)
  /\ admin' = [admin EXCEPT ![o] = IF @ = "in_progress" THEN None ELSE @]
  /\ SetOp(o, [op[o] EXCEPT !.pc = "failed"])
  /\ UNCHANGED <<gatewayVars, config, refresh, version, applied, trail, overtaken, started>>

\* A storage call of the handler reports an error, with or without its effect.
\* Failed saves, audits and refreshes discard the reservation; a failed
\* completion and a failed discard leave it.
WriteFails(o) ==
  /\ op[o].pc \in {"save", "refresh", "complete", "discard"}
  /\ op[o].pc = "refresh" => refresh[o].pc \in {"load", "loading"}
  /\ Fault("storage")
  /\ SetOp(o, [op[o] EXCEPT !.pc = IF @ \in {"save", "refresh"} THEN "discard" ELSE "failed"])
  /\ SetRefresh(o, NoRefresh)
  /\ \/ UNCHANGED <<config, trail, applied>>
     \/ op[o].pc = "save" /\ check_revision(o) /\ config[Table(o)] + 1 \in Revisions /\ Saved(o)
  /\ UNCHANGED <<db, memory, req, conf, scenario, spent, billed, oks>>
  /\ UNCHANGED <<admin, version, overtaken, started>>

(***************************************************************************)
(* refresh_configuration                                                   *)
(***************************************************************************)
Stale(p) == Version(config) > version[p]

\* refresh_configuration_if_stale, every two seconds
Poll2s(p) ==
  /\ refresh[p].pc = "idle" /\ Free(p)
  /\ Stale(p)
  /\ SetRefresh(p, [NoRefresh EXCEPT !.pc = "load", !.pod = p])
  /\ UNCHANGED <<gatewayVars, config, admin, op, version, applied, trail, overtaken, started>>

\* The version, then the first table
LoadFirst(f) ==
  /\ refresh[f].pc = "load" /\ Free(refresh[f].pod)
  /\ SetRefresh(f, [refresh[f] EXCEPT !.pc = "loading", !.before = Version(config),
                                      !.read = [resources |-> config.resources, policies |-> 0]])
  /\ UNCHANGED <<gatewayVars, config, admin, op, version, applied, trail, overtaken, started>>

\* Faulty variant: what was read is taken, whatever was written meanwhile.
Whole_Assumed(f) == TRUE

\* No write came between the reads of the version.
Whole(f) == refresh[f].before = Version(config)

\* The other table, then the version again; MaxLoads tries.
LoadRest(f) ==
  /\ refresh[f].pc = "loading"
  /\ LET read == [refresh[f].read EXCEPT !.policies = config.policies] IN
     \/ /\ Whole(f)
        /\ SetRefresh(f, [refresh[f] EXCEPT !.pc = "install", !.read = read])
        /\ UNCHANGED op
     \/ /\ ~Whole(f) /\ refresh[f].tries < MaxLoads - 1
        /\ SetRefresh(f, [refresh[f] EXCEPT !.pc = "load", !.tries = @ + 1, !.read = None])
        /\ UNCHANGED op
     \/ /\ ~Whole(f) /\ refresh[f].tries = MaxLoads - 1
        /\ SetRefresh(f, NoRefresh)
        /\ op' = IF f \in Operations THEN [op EXCEPT ![f].pc = "discard"] ELSE op
  /\ UNCHANGED <<gatewayVars, config, admin, version, applied, trail, overtaken, started>>

\* The reads of a poll fail, or what they return does not validate: the pod
\* keeps its snapshot.
PollFails(p) ==
  /\ refresh[p].pc \in {"load", "loading"} /\ Fault("storage")
  /\ SetRefresh(p, NoRefresh)
  /\ UNCHANGED <<db, memory, req, conf, scenario, spent, billed, oks>>
  /\ UNCHANGED <<config, admin, op, version, applied, trail, overtaken, started>>

\* The snapshot is replaced under its lock ...
Install(f) ==
  LET p == refresh[f].pod IN
  /\ refresh[f].pc = "install"
  /\ conf' = [conf EXCEPT ![p] = refresh[f].read]
  /\ SetRefresh(f, [refresh[f] EXCEPT !.pc = "mark"])
  /\ overtaken' = IF \E g \in Refreshers : /\ refresh[g].pc = "mark" /\ refresh[g].pod = p
                                           /\ refresh[g].before > refresh[f].before
                  THEN overtaken \cup {p} ELSE overtaken
  /\ started' = started \ {p}
  /\ UNCHANGED <<db, memory, req, scenario, faults, spent, billed, oks>>
  /\ UNCHANGED <<config, admin, op, version, applied, trail>>

\* ... and its version stored after that.
Mark(f) ==
  /\ refresh[f].pc = "mark"
  /\ version' = [version EXCEPT ![refresh[f].pod] = refresh[f].before]
  /\ SetRefresh(f, NoRefresh)
  /\ op' = IF f \in Operations THEN [op EXCEPT ![f].pc = "complete"] ELSE op
  /\ UNCHANGED <<gatewayVars, config, admin, applied, trail, overtaken, started>>

\* A pod stops, and its replacement starts; a start that fails is a further stop.
Restart(p) ==
  /\ Crash(p)
  /\ conf' = [conf EXCEPT ![p] = None]
  /\ version' = [version EXCEPT ![p] = 0]
  /\ op' = [o \in Operations |->
              IF op[o].pod = p /\ op[o].pc \notin {"idle", "acked", "failed"}
              THEN [op[o] EXCEPT !.pc = "gone"] ELSE op[o]]
  /\ refresh' = [f \in Refreshers |->
                   IF f = p THEN [NoRefresh EXCEPT !.pc = "start", !.pod = p]
                   ELSE IF refresh[f].pod = p THEN NoRefresh ELSE refresh[f]]
  /\ started' = started \ {p}
  /\ UNCHANGED <<config, admin, applied, trail, overtaken>>

(***************************************************************************)
(* GatewayService::new                                                     *)
(***************************************************************************)
\* The version ...
StartVersion(p) ==
  /\ refresh[p].pc = "start"
  /\ SetRefresh(p, [refresh[p] EXCEPT !.pc = "opened", !.before = Version(config)])
  /\ UNCHANGED <<gatewayVars, config, admin, op, version, applied, trail, overtaken, started>>

\* ... the first table, at the end of initialize_configuration ...
StartFirst(p) ==
  /\ refresh[p].pc = "opened"
  /\ SetRefresh(p, [refresh[p] EXCEPT !.pc = "starting",
                                      !.read = [resources |-> config.resources, policies |-> 0]])
  /\ UNCHANGED <<gatewayVars, config, admin, op, version, applied, trail, overtaken, started>>

\* ... and the other one: the pod serves, whatever was written meanwhile.
StartRest(p) ==
  /\ refresh[p].pc = "starting"
  /\ conf' = [conf EXCEPT ![p] = [refresh[p].read EXCEPT !.policies = config.policies]]
  /\ version' = [version EXCEPT ![p] = refresh[p].before]
  /\ SetRefresh(p, NoRefresh)
  /\ started' = IF refresh[p].before = Version(config) THEN started ELSE started \cup {p}
  /\ UNCHANGED <<db, memory, req, scenario, faults, spent, billed, oks>>
  /\ UNCHANGED <<config, admin, op, applied, trail, overtaken>>

Init ==
  /\ TurnsInit
  /\ config = [resources |-> scenario.ahead, policies |-> 0]  \* written, not polled yet
  /\ admin = [o \in Operations |-> None]
  /\ op = [o \in Operations |-> [pc |-> "idle", pod |-> None, expected |-> 0]]
  /\ refresh = [f \in Refreshers |-> NoRefresh]
  /\ version = [p \in Pods |-> 0]
  /\ applied = [o \in Operations |-> 0]
  /\ trail = {[resources |-> n, policies |-> 0] : n \in 0..scenario.ahead}
  /\ overtaken = {} /\ started = {}

Write(o) == ReserveWrite(o) \/ Save(o) \/ Complete(o) \/ Discard(o)

Refresh(f) == LoadFirst(f) \/ LoadRest(f) \/ Install(f) \/ Mark(f)

Start(p) == StartVersion(p) \/ StartFirst(p) \/ StartRest(p)

Next ==
  \/ TurnsNext /\ UNCHANGED configVars
  \/ \E p \in Pods : Poll2s(p) \/ PollFails(p) \/ Restart(p) \/ Start(p)
  \/ \E o \in Operations : Send(o) \/ Write(o) \/ WriteFails(o)
  \/ \E f \in Refreshers : Refresh(f)

Spec == Init /\ [][Next]_vars

(***************************************************************************)
(* Handlers run, the provider answers or the client times out, deadlines   *)
(* pass, pods come up, and their poll runs again and again.  Nothing makes *)
(* a client send.                                                          *)
(* A request takes finitely many steps, so that fairness to all of them    *)
(* together is enough.                                                     *)
(***************************************************************************)
FairSpec ==
  /\ Spec
  /\ WF_vars((\E r \in AllRequests : Step(r) \/ Late(r)) /\ UNCHANGED configVars)
  /\ WF_vars(\E o \in Operations : Write(o))
  /\ WF_vars((\E p \in Pods : Poll2s(p) \/ Start(p)) \/ (\E f \in Refreshers : Refresh(f)))

-----------------------------------------------------------------------------
(***************************************************************************)
(* Properties                                                              *)
(***************************************************************************)
\* Rows, requests, snapshots and histories keep their types: a row holds an
\* outcome exactly when it says completed or failed, a request past its selection
\* names candidates it was given, and no counter passes its bound.
TypeOK ==
  /\ \A k \in Keys : db.turns[k] # None =>
       /\ db.turns[k].state \in TurnStates /\ db.turns[k].body \in Bodies
       /\ db.turns[k].out \in Outcomes
       /\ (db.turns[k].out # None) = (db.turns[k].state \in {"completed", "failed"})
       /\ db.turns[k].state = "completed" => db.turns[k].out.ok
  /\ db.usage \in Nat
  /\ \A l \in db.leases : l.key \in Keys /\ l.scope \in Revisions
  /\ \A c \in Circuits : db.health[c] \in
       [failures : 0..Threshold, state : {"closed", "open", "half_open"}, cooling : BOOLEAN]
  /\ memory \in [Pods -> [Keys -> {None, "in_progress", "settled"}]]
  /\ \A r \in AllRequests :
       /\ req[r].out \in Outcomes /\ req[r].tries \in 0..MaxAttempts
       /\ req[r].at \in 0..Len(req[r].able) /\ req[r].held \in {0, 1}
  /\ conf \in [Pods -> [resources : Revisions, policies : Revisions] \cup {None}]
  /\ \A p \in Pods : version[p] \in 0..Version(config)
  /\ admin \in [Operations -> {None, "in_progress", "completed"}]

\* A turn is executed once whatever is repeated, dropped or restarted, on however
\* many pods: all its upstream calls are made for one request, and no more of
\* them than one execution may make (execute_turn, reserve_turn; the plan calls
\* anything else double billing).  Nor does repeating an administrative write,
\* after an error that hides its success or a stop of the pod, create a second
\* revision (reserve_admin_write and the revision check together).
ExecutedOnce ==
  /\ \A k \in Keys :
       /\ \A c, d \in spent[k] : c[1] = d[1]
       /\ Cardinality(spent[k]) <= MaxAttempts * (MaxSwitches + 1)
  /\ \A o \in Operations : applied[o] <= 1

\* All requests for a turn that succeed return the same response, and it is one
\* that is stored, or was until its replay window ended: no success is answered
\* that a later request would see fail (execute_turn: persist, then publish).
AnswersAgree ==
  \A k \in Keys : oks[k] # {} =>
    /\ Cardinality(oks[k]) = 1
    /\ db.turns[k] # None
    /\ \/ db.turns[k].state = "expired"
       \/ db.turns[k].state = "completed" /\ db.turns[k].out.by \in oks[k]

\* Tokens one by one: those counted for each member of S.
Tokens(count, S) == UNION {{x} \X (1..count[x]) : x \in S}

Held == [r \in AllRequests |-> IF Live(r) THEN req[r].held ELSE 0]

Due == Cardinality(Tokens(billed, Keys)) + Cardinality(Tokens(Held, AllRequests))

\* The day's usage never falls below what settled turns used and running ones
\* hold; and while no fault has struck it is exactly that, and the leases are
\* exactly those of running requests: every path of execute_new_turn gives back
\* what acquire_policy_quota took.
NothingLeaks ==
  /\ db.usage >= Due
  /\ faults = 0 =>
       /\ db.usage = Due
       /\ \A l \in db.leases : req[l.by].leased /\ Live(l.by)

\* At no time do more turns of a project call providers under one revision of a
\* policy than its maxConcurrentTurns, although leases expire and outlive their
\* requests (acquire_project_concurrency_lease).
ConcurrencyBounded ==
  \A s \in Revisions :
     Cardinality({r \in AllRequests : req[r].pc = "calling" /\ req[r].snapshot.policies = s})
       <= MaxConcurrent

\* A waiter in the pod where the executing request was dropped: nobody will
\* replace the in-memory entry it waits on.
Orphaned(r) ==
  /\ req[r].pc = "subscribed"
  /\ \E q \in AllRequests : /\ req[q].pc = "gone" /\ req[q].key = req[r].key
                            /\ req[q].pod = req[r].pod

\* Every request ends: executed, replayed, or given up at its deadline. The
\* exception is the orphaned waiter, whose wait has no deadline
\* (execute_turn, wait_for_durable_turn).
EveryRequestEnds == []<>(\A r \in AllRequests : ~Live(r) \/ Orphaned(r))

\* The pod serves from a configuration the database has had, or it has started
\* while something was written, and then its poll will replace what it serves.
ServesReal(p) == conf[p] # None => conf[p] \in trail \/ (p \in started /\ Stale(p))

\* No pod serves turns from a configuration the database never had: tables read
\* before and after another pod's write are not combined (refresh_configuration).
\* The exception is a pod that has started while something was written and may have
\* combined them (GatewayService::new): its version is then behind, so that its
\* poll replaces what it serves.  And writes reach every pod: its snapshot comes to
\* be the database's and stays so, after a start too, unless a refresh that read an
\* older version installed it between another's installing and storing its version
\* (refresh_configuration, refresh_configuration_if_stale).
ConfigurationFollows ==
  /\ [](\A p \in Pods : ServesReal(p))
  /\ <>[](\A p \in Pods : conf[p] = config \/ p \in overtaken)
=============================================================================
