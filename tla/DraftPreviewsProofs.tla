------------------------- MODULE DraftPreviewsProofs -------------------------
(***************************************************************************)
(* Proofs about DraftPreviews: durable snapshots, ready revisions and edit *)
(* approvals, for any runs and any bounds on sessions, edits, restarts,    *)
(* tools and plans.                                                        *)
(***************************************************************************)
EXTENDS DraftPreviews, TLAPS

Records == [status : Statuses, epoch : Nat, lease : Nat, live : BOOLEAN,
            ws : Nat, ready : Nat, durable : Nat, snap : SUBSET Nat,
            publish : Nat, restarts : Nat]
Samples == [rev : Nat, epoch : Nat, since : Nat]
Copies == [lease : Nat, epoch : Nat, ws : Nat]
Bases == [s : Nat, epoch : Nat, rev : Nat, snap : SUBSET Nat, lease : Nat]
Plans == [base : Bases, risky : BOOLEAN]
Agents == [st : {"new", "admitted", "active", "ended"}, plan : Plans \cup {None},
           base : Bases \cup {None}, preflight : BOOLEAN]

StoreTypes ==
    /\ sessions \in Seq(Records) /\ history \in Seq(Seq(Nat)) /\ seen \in Seq(Samples)
    /\ Len(history) = Len(sessions) /\ Len(seen) = Len(sessions)

(* The workspace: every edit made is there, or a restore took it out. *)
FilesInv ==
    /\ edits \in 0..MaxEdits /\ files \subseteq 1..edits /\ frozen \subseteq SUBSET (1..edits)
    /\ (1..edits) \ dropped \subseteq files
    /\ devState \in 0..Len(sessions)

(* What a session x with commits h and samples z has of revisions and      *)
(* snapshot.                                                               *)
Sound(x, h, z) ==
    /\ x.ready \in 0..x.ws /\ x.durable \in 0..x.ws /\ x.ws = Len(h)
    /\ x.restarts \in 0..MaxRestarts /\ x.lease \in 1..x.epoch
    /\ \A i \in 1..x.ws : h[i] \in 1..edits
    /\ {h[i] : i \in 1..x.durable} \ dropped \subseteq x.snap
    /\ x.ready <= z.rev
    /\ x.status = "Ready" => z.epoch >= z.since
    /\ z.since <= x.epoch
    /\ x.publish <= x.durable /\ x.publish <= z.rev

SessionInv(s) == Sound(sessions[s], history[s], seen[s])

StoreInv == StoreTypes /\ FilesInv /\ \A s \in Ids : SessionInv(s)

(* What a tool holds of a session is what the session was, or is. *)
Holds(copy, s) ==
    /\ s \in Ids /\ copy \in Copies
    /\ copy.ws <= sessions[s].ws /\ copy.epoch <= sessions[s].epoch

ToolInv(r) ==
    /\ op[r].pc \in {"idle", "validate", "write", "record", "commit", "freeze", "durable",
                     "devFreeze", "devOpen", "devLaunch", "devState", "sample", "apply",
                     "restart", "stop", "restoreStop", "restore"}
    /\ op[r].pc \in {"record", "commit"} => op[r].edit \in 1..edits
    /\ op[r].pc \in {"commit", "freeze", "durable", "sample", "apply"} => Holds(op[r].copy, op[r].s)
    /\ op[r].pc = "durable" =>
          /\ op[r].snap \subseteq 1..edits
          /\ Committed(op[r].s, op[r].copy.ws) \ dropped \subseteq op[r].snap
    /\ op[r].pc = "devOpen" => op[r].snap \subseteq 1..edits
    /\ op[r].pc \in {"devLaunch", "devState", "restart", "stop", "restoreStop"} => op[r].s \in Ids
    /\ op[r].pc = "apply" => /\ Holds(op[r].at, op[r].s)
                             /\ op[r].copy.ws <= op[r].at.ws
                             /\ op[r].copy.epoch <= op[r].at.epoch

ToolsInv == DOMAIN op = Runs /\ \A r \in Runs : ToolInv(r)

(* A run that mutates under a plan that needs confirmation has consumed    *)
(* its approval, and no other run has.                                     *)
Spends(r, p) == run[r].preflight /\ run[r].plan = p /\ p # None /\ p.risky

PlanInv ==
    /\ plans \subseteq Plans /\ approved \subseteq plans /\ consumed \subseteq approved
    /\ run \in [Runs -> Agents]
    /\ \A r \in Runs :
          /\ run[r].plan \in plans \cup {None}
          /\ run[r].st \in {"new", "admitted"} => ~run[r].preflight
          /\ op[r].pc # "idle" => run[r].st = "active"
          /\ op[r].pc \in {"validate", "write"} => run[r].preflight
          /\ \A p \in plans : Spends(r, p) => p \in consumed
    /\ \A r, q \in Runs : \A p \in plans : Spends(r, p) /\ Spends(q, p) => r = q
    /\ used \subseteq Plans \X Runs
    /\ \A u \in used : run[u[2]].preflight /\ run[u[2]].plan = u[1] /\ u[1] # None

IInv == StoreInv /\ ToolsInv /\ PlanInv

-----------------------------------------------------------------------------
(* The store. *)

(* One entry of a sequence is replaced. *)
LEMMA ReplaceFacts ==
  ASSUME NEW T, NEW q \in Seq(T), NEW i \in 1..Len(q), NEW x \in T
  PROVE  /\ [q EXCEPT ![i] = x] \in Seq(T)
         /\ Len([q EXCEPT ![i] = x]) = Len(q)
         /\ [q EXCEPT ![i] = x][i] = x
         /\ \A k \in 1..Len(q) : k # i => [q EXCEPT ![i] = x][k] = q[k]
         /\ [q EXCEPT ![i] = q[i]] = q
PROOF
  OBVIOUS

(* One entry is appended to a sequence. *)
LEMMA AppendFacts ==
  ASSUME NEW T, NEW q \in Seq(T), NEW x \in T
  PROVE  /\ Append(q, x) \in Seq(T) /\ Len(Append(q, x)) = Len(q) + 1
         /\ Append(q, x)[Len(q) + 1] = x
         /\ \A k \in 1..Len(q) : Append(q, x)[k] = q[k]
PROOF
  OBVIOUS

(* A session counts in natural numbers. *)
LEMMA NumberFacts ==
  ASSUME StoreTypes, NEW s \in Ids
  PROVE  sessions[s].ws \in Nat /\ sessions[s].epoch \in Nat
PROOF
  <1>1. sessions[s] \in Records
    BY DEF StoreTypes, Ids
  <1>2. QED
    BY <1>1 DEF Records

(* The store only grows: what a tool has read of it stays true of the past. *)
Grows ==
    /\ Len(sessions) <= Len(sessions')
    /\ \A s \in Ids :
          /\ sessions[s].ws <= sessions'[s].ws /\ sessions[s].epoch <= sessions'[s].epoch
          /\ \A i \in 1..sessions[s].ws : history'[s][i] = history[s][i]
    /\ edits <= edits' /\ dropped \subseteq dropped'

(* One operation of the store on session s. *)
LEMMA Touched ==
  ASSUME StoreInv, NEW s \in Ids, NEW x \in Records, NEW h \in Seq(Nat), NEW z \in Samples,
         sessions' = [sessions EXCEPT ![s] = x],
         history' = [history EXCEPT ![s] = h],
         seen' = [seen EXCEPT ![s] = z],
         UNCHANGED <<files, edits, frozen, dropped>>, devState' \in 0..Len(sessions),
         Sound(x, h, z), sessions[s].ws <= x.ws, sessions[s].epoch <= x.epoch,
         \A i \in 1..sessions[s].ws : h[i] = history[s][i]
  PROVE  StoreInv' /\ Grows
PROOF
  <1>1. StoreTypes /\ FilesInv /\ s \in 1..Len(sessions) /\ s \in 1..Len(history) /\ s \in 1..Len(seen)
    BY DEF StoreInv, StoreTypes, Ids
  <1>2. /\ sessions' \in Seq(Records) /\ Len(sessions') = Len(sessions) /\ sessions'[s] = x
        /\ \A k \in Ids : k # s => sessions'[k] = sessions[k]
    BY <1>1, ReplaceFacts DEF StoreTypes, Ids
  <1>3. /\ history' \in Seq(Seq(Nat)) /\ Len(history') = Len(sessions) /\ history'[s] = h
        /\ \A k \in Ids : k # s => history'[k] = history[k]
    BY <1>1, ReplaceFacts DEF StoreTypes, Ids
  <1>4. /\ seen' \in Seq(Samples) /\ Len(seen') = Len(sessions) /\ seen'[s] = z
        /\ \A k \in Ids : k # s => seen'[k] = seen[k]
    BY <1>1, ReplaceFacts DEF StoreTypes, Ids
  <1>5. Ids' = Ids
    BY <1>2 DEF Ids
  <1>6. StoreTypes' /\ FilesInv'
    BY <1>1, <1>2, <1>3, <1>4 DEF StoreTypes, FilesInv
  <1>7. ASSUME NEW k \in Ids PROVE SessionInv(k)'
    <2>1. CASE k = s
      BY <1>2, <1>3, <1>4, <2>1, SMTT(40) DEF SessionInv, Sound
    <2>2. CASE k # s
      <3>1. SessionInv(k)
        BY DEF StoreInv
      <3>2. sessions'[k] = sessions[k] /\ history'[k] = history[k] /\ seen'[k] = seen[k]
        BY <1>2, <1>3, <1>4, <2>2
      <3>3. QED
        BY <3>1, <3>2, SMTT(40) DEF SessionInv, Sound
    <2>3. QED
      BY <2>1, <2>2
  <1>8. StoreInv'
    BY <1>5, <1>6, <1>7 DEF StoreInv
  <1>9. ASSUME NEW k \in Ids
        PROVE  /\ sessions[k].ws <= sessions'[k].ws /\ sessions[k].epoch <= sessions'[k].epoch
               /\ \A i \in 1..sessions[k].ws : history'[k][i] = history[k][i]
    <2>1. sessions[k].ws \in Nat /\ sessions[k].epoch \in Nat
      BY <1>1, NumberFacts
    <2>2. QED
      BY <1>2, <1>3, <2>1
  <1>10. edits \in Nat /\ Len(sessions) \in Nat
    BY <1>1 DEF FilesInv, StoreTypes
  <1>11. QED
    BY <1>2, <1>8, <1>9, <1>10 DEF Grows

(* A step that leaves the store alone. *)
LEMMA Untouched ==
  ASSUME StoreInv, UNCHANGED storeVars, edits' \in 0..MaxEdits, edits <= edits',
         files' \subseteq 1..edits', frozen' \subseteq SUBSET (1..edits'),
         (1..edits') \ dropped' \subseteq files', dropped \subseteq dropped',
         devState' \in 0..Len(sessions)
  PROVE  StoreInv' /\ Grows
PROOF
  <1>1. StoreTypes /\ FilesInv /\ Ids' = Ids /\ UNCHANGED <<sessions, history, seen>>
    BY DEF StoreInv, storeVars, Ids
  <1>2. StoreTypes' /\ FilesInv'
    BY <1>1 DEF StoreTypes, FilesInv
  <1>3. edits \in Nat /\ edits' \in Nat /\ Len(sessions) \in Nat
    BY <1>1, Bounds DEF FilesInv, StoreTypes
  <1>4. ASSUME NEW s \in Ids PROVE SessionInv(s)'
    <2>1. SessionInv(s)
      BY DEF StoreInv
    <2>2. QED
      BY <1>1, <1>3, <2>1 DEF SessionInv, Sound
  <1>5. \A s \in Ids : sessions[s].ws \in Nat /\ sessions[s].epoch \in Nat
    BY <1>1, NumberFacts
  <1>6. QED
    BY <1>1, <1>2, <1>3, <1>4, <1>5 DEF StoreInv, Grows

(* The types of session s, its commits and its samples. *)
LEMMA EntryFacts ==
  ASSUME StoreInv, NEW s \in Ids
  PROVE  /\ sessions[s] \in Records /\ history[s] \in Seq(Nat) /\ seen[s] \in Samples
         /\ Sound(sessions[s], history[s], seen[s])
         /\ sessions[s].ws \in Nat /\ sessions[s].epoch \in Nat
         /\ (UNCHANGED history => history' = [history EXCEPT ![s] = history[s]])
         /\ (UNCHANGED seen => seen' = [seen EXCEPT ![s] = seen[s]])
PROOF
  <1>1. StoreTypes /\ s \in 1..Len(sessions) /\ s \in 1..Len(history) /\ s \in 1..Len(seen)
    BY DEF StoreInv, StoreTypes, Ids
  <1>2. sessions[s] \in Records /\ history[s] \in Seq(Nat) /\ seen[s] \in Samples
    BY <1>1 DEF StoreTypes
  <1>3. [history EXCEPT ![s] = history[s]] = history /\ [seen EXCEPT ![s] = seen[s]] = seen
    BY <1>1, ReplaceFacts DEF StoreTypes
  <1>4. QED
    BY <1>2, <1>3 DEF StoreInv, SessionInv, Records

(* Operations that leave the commits and the samples alone: what they have *)
(* to keep of Sound.                                                       *)
LEMMA Changed ==
  ASSUME StoreInv, NEW s \in Ids, NEW x \in Records, sessions' = [sessions EXCEPT ![s] = x],
         UNCHANGED <<history, seen, files, edits, frozen, dropped, devState>>,
         x.ws = sessions[s].ws, x.ready = sessions[s].ready, sessions[s].epoch <= x.epoch,
         x.restarts = sessions[s].restarts, x.lease \in 1..x.epoch,
         x.durable \in 0..x.ws, {history[s][i] : i \in 1..x.durable} \ dropped \subseteq x.snap,
         x.status = "Ready" => sessions[s].status = "Ready",
         x.publish <= x.durable, x.publish <= seen[s].rev
  PROVE  StoreInv' /\ Grows
PROOF
  <1>1. /\ sessions[s] \in Records /\ history[s] \in Seq(Nat) /\ seen[s] \in Samples
        /\ Sound(sessions[s], history[s], seen[s])
        /\ sessions[s].ws \in Nat /\ sessions[s].epoch \in Nat
        /\ history' = [history EXCEPT ![s] = history[s]]
        /\ seen' = [seen EXCEPT ![s] = seen[s]]
    BY EntryFacts
  <1>2. PICK h \in Seq(Nat), z \in Samples : h = history[s] /\ z = seen[s]
    BY <1>1
  <1>3. /\ history' = [history EXCEPT ![s] = h] /\ seen' = [seen EXCEPT ![s] = z]
        /\ \A i \in 1..sessions[s].ws : h[i] = history[s][i]
        /\ Sound(sessions[s], h, z) /\ x.epoch \in Nat /\ z.since \in Nat
        /\ {h[i] : i \in 1..x.durable} \ dropped \subseteq x.snap /\ x.publish <= z.rev
    <2>1. history' = [history EXCEPT ![s] = h] /\ seen' = [seen EXCEPT ![s] = z]
      BY <1>1, <1>2
    <2>2. \A i \in 1..sessions[s].ws : h[i] = history[s][i]
      BY <1>2
    <2>3. Sound(sessions[s], h, z)
      BY <1>1, <1>2
    <2>4. x.epoch \in Nat /\ z.since \in Nat
      BY DEF Records, Samples
    <2>5. {h[i] : i \in 1..x.durable} \ dropped \subseteq x.snap /\ x.publish <= z.rev
      BY <1>2
    <2>6. QED
      BY <2>1, <2>2, <2>3, <2>4, <2>5
  <1>4. Sound(x, h, z) /\ sessions[s].ws <= x.ws
    BY <1>1, <1>3 DEF Sound
  <1>5. devState' \in 0..Len(sessions)
    BY DEF StoreInv, FilesInv
  <1>6. QED
    BY <1>3, <1>4, <1>5, Touched

(* The writer lease, the routes and the errors. *)
LEMMA StoreRoutes ==
  ASSUME StoreInv, NEW s \in Ids,
         \/ Expire(s) \/ takeover(s) \/ resolve_source(s)
  PROVE  StoreInv' /\ Grows
PROOF
  <1>1. /\ sessions[s] \in Records /\ Sound(sessions[s], history[s], seen[s])
        /\ sessions[s].ws \in Nat /\ sessions[s].epoch \in Nat
    BY EntryFacts
  <1>2. UNCHANGED <<history, seen, files, edits, frozen, dropped, devState>>
    BY DEF Expire, takeover, resolve_source, sandboxVars
  <1>3. CASE Expire(s)
    <2>1. PICK x \in Records : x = [sessions[s] EXCEPT !.live = FALSE]
      BY <1>1 DEF Records
    <2>2. /\ x.ws = sessions[s].ws /\ x.ready = sessions[s].ready /\ x.epoch = sessions[s].epoch
          /\ x.restarts = sessions[s].restarts /\ x.lease = sessions[s].lease
          /\ x.durable = sessions[s].durable /\ x.snap = sessions[s].snap
          /\ x.status = sessions[s].status /\ x.publish = sessions[s].publish
      BY <1>1, <2>1 DEF Records
    <2>3. sessions' = [sessions EXCEPT ![s] = x]
      BY <1>3, <2>1 DEF Expire, Update
    <2>4. /\ x.ws = sessions[s].ws /\ x.ready = sessions[s].ready /\ sessions[s].epoch <= x.epoch
          /\ x.restarts = sessions[s].restarts /\ x.lease \in 1..x.epoch
          /\ x.durable \in 0..x.ws /\ {history[s][i] : i \in 1..x.durable} \ dropped \subseteq x.snap
          /\ (x.status = "Ready" => sessions[s].status = "Ready")
          /\ x.publish <= x.durable /\ x.publish <= seen[s].rev
      BY <1>1, <2>2 DEF Sound
    <2>5. QED
      BY <1>2, <2>3, <2>4, Changed
  <1>4. CASE takeover(s)
    <2>1. PICK x \in Records : x = [sessions[s] EXCEPT !.epoch = sessions[s].epoch + 1,
                                     !.lease = sessions[s].epoch + 1, !.live = TRUE]
      <3>1. PICK e \in Nat : e = sessions[s].epoch + 1
        BY <1>1
      <3>2. [sessions[s] EXCEPT !.epoch = e, !.lease = e, !.live = TRUE] \in Records
        BY <1>1 DEF Records
      <3>3. QED
        BY <3>1, <3>2
    <2>2. /\ x.ws = sessions[s].ws /\ x.ready = sessions[s].ready /\ x.epoch = sessions[s].epoch + 1
          /\ x.restarts = sessions[s].restarts /\ x.lease = x.epoch
          /\ x.durable = sessions[s].durable /\ x.snap = sessions[s].snap
          /\ x.status = sessions[s].status /\ x.publish = sessions[s].publish
      BY <1>1, <2>1 DEF Records
    <2>3. sessions' = [sessions EXCEPT ![s] = x]
      BY <1>4, <2>1 DEF takeover, Update
    <2>4. /\ x.ws = sessions[s].ws /\ x.ready = sessions[s].ready /\ sessions[s].epoch <= x.epoch
          /\ x.restarts = sessions[s].restarts /\ x.lease \in 1..x.epoch
          /\ x.durable \in 0..x.ws /\ {history[s][i] : i \in 1..x.durable} \ dropped \subseteq x.snap
          /\ (x.status = "Ready" => sessions[s].status = "Ready")
          /\ x.publish <= x.durable /\ x.publish <= seen[s].rev
      BY <1>1, <2>2 DEF Sound
    <2>5. QED
      BY <1>2, <2>3, <2>4, Changed
  <1>5. CASE resolve_source(s)
    <2>1. PICK x \in Records : x = [sessions[s] EXCEPT !.publish = sessions[s].durable]
      BY <1>1 DEF Records
    <2>2. /\ x.ws = sessions[s].ws /\ x.ready = sessions[s].ready /\ x.epoch = sessions[s].epoch
          /\ x.restarts = sessions[s].restarts /\ x.lease = sessions[s].lease
          /\ x.durable = sessions[s].durable /\ x.snap = sessions[s].snap
          /\ x.status = sessions[s].status /\ x.publish = sessions[s].durable
      BY <1>1, <2>1 DEF Records
    <2>3. sessions' = [sessions EXCEPT ![s] = x] /\ sessions[s].durable <= sessions[s].ready
      BY <1>1, <1>5, <2>1 DEF resolve_source, Update, Records
    <2>4. sessions[s].durable \in Nat /\ sessions[s].ready \in Nat /\ seen[s].rev \in Nat
      BY <1>1, EntryFacts DEF Records, Samples
    <2>5. /\ x.ws = sessions[s].ws /\ x.ready = sessions[s].ready /\ sessions[s].epoch <= x.epoch
          /\ x.restarts = sessions[s].restarts /\ x.lease \in 1..x.epoch
          /\ x.durable \in 0..x.ws /\ {history[s][i] : i \in 1..x.durable} \ dropped \subseteq x.snap
          /\ (x.status = "Ready" => sessions[s].status = "Ready")
          /\ x.publish <= x.durable /\ x.publish <= seen[s].rev
      BY <1>1, <2>2, <2>3, <2>4 DEF Sound
    <2>6. QED
      BY <1>2, <2>3, <2>5, Changed
  <1>6. QED
    BY <1>3, <1>4, <1>5

(* Operations of the tools that change status and snapshot. *)
LEMMA StoreMarks ==
  ASSUME StoreInv, NEW s \in Ids, NEW copy, NEW snapshot \in SUBSET Nat,
         UNCHANGED <<history, seen, files, edits, frozen, dropped, devState>>,
         \/ stop(s)
         \/ \E st \in Statuses \ {"Ready"} : Update(s, [sessions[s] EXCEPT !.status = st])
         \/ /\ MayBeDurable(s, copy) /\ mark_durable(s, copy, snapshot)
            /\ {history[s][i] : i \in 1..copy.ws} \ dropped \subseteq snapshot
  PROVE  StoreInv' /\ Grows
PROOF
  <1>1. /\ sessions[s] \in Records /\ Sound(sessions[s], history[s], seen[s])
        /\ sessions[s].ws \in Nat /\ sessions[s].epoch \in Nat
    BY EntryFacts
  <1>2. CASE stop(s)
    <2>1. PICK x \in Records : x = [sessions[s] EXCEPT !.status = "Stopped", !.live = FALSE]
      BY <1>1 DEF Records, Statuses
    <2>2. /\ x.ws = sessions[s].ws /\ x.ready = sessions[s].ready /\ x.epoch = sessions[s].epoch
          /\ x.restarts = sessions[s].restarts /\ x.lease = sessions[s].lease
          /\ x.durable = sessions[s].durable /\ x.snap = sessions[s].snap
          /\ x.status # "Ready" /\ x.publish = sessions[s].publish
      BY <1>1, <2>1 DEF Records
    <2>3. sessions' = [sessions EXCEPT ![s] = x]
      BY <1>2, <2>1 DEF stop, Update
    <2>4. /\ sessions[s].epoch <= x.epoch
          /\ x.lease \in 1..x.epoch
          /\ x.durable \in 0..x.ws /\ {history[s][i] : i \in 1..x.durable} \ dropped \subseteq x.snap
          /\ x.publish <= x.durable /\ x.publish <= seen[s].rev
      BY <1>1, <2>2 DEF Sound
    <2>5. QED
      BY <2>2, <2>3, <2>4, Changed
  <1>3. ASSUME NEW st \in Statuses \ {"Ready"}, Update(s, [sessions[s] EXCEPT !.status = st])
        PROVE  StoreInv' /\ Grows
    <2>1. PICK x \in Records : x = [sessions[s] EXCEPT !.status = st]
      BY <1>1 DEF Records
    <2>2. /\ x.ws = sessions[s].ws /\ x.ready = sessions[s].ready /\ x.epoch = sessions[s].epoch
          /\ x.restarts = sessions[s].restarts /\ x.lease = sessions[s].lease
          /\ x.durable = sessions[s].durable /\ x.snap = sessions[s].snap
          /\ x.status # "Ready" /\ x.publish = sessions[s].publish
      BY <1>1, <2>1 DEF Records
    <2>3. sessions' = [sessions EXCEPT ![s] = x]
      BY <1>3, <2>1 DEF Update
    <2>4. /\ sessions[s].epoch <= x.epoch
          /\ x.lease \in 1..x.epoch
          /\ x.durable \in 0..x.ws /\ {history[s][i] : i \in 1..x.durable} \ dropped \subseteq x.snap
          /\ x.publish <= x.durable /\ x.publish <= seen[s].rev
      BY <1>1, <2>2 DEF Sound
    <2>5. QED
      BY <2>2, <2>3, <2>4, Changed
  <1>4. CASE /\ MayBeDurable(s, copy) /\ mark_durable(s, copy, snapshot)
             /\ {history[s][i] : i \in 1..copy.ws} \ dropped \subseteq snapshot
    <2>1. PICK n \in Nat : n = copy.ws /\ n \in sessions[s].durable .. sessions[s].ws
      BY <1>1, <1>4 DEF MayBeDurable, Records
    <2>2. PICK x \in Records : x = [sessions[s] EXCEPT !.durable = n, !.snap = snapshot]
      BY <1>1 DEF Records
    <2>3. /\ x.ws = sessions[s].ws /\ x.ready = sessions[s].ready /\ x.epoch = sessions[s].epoch
          /\ x.restarts = sessions[s].restarts /\ x.lease = sessions[s].lease
          /\ x.durable = n /\ x.snap = snapshot
          /\ x.status = sessions[s].status /\ x.publish = sessions[s].publish
      BY <1>1, <2>2 DEF Records
    <2>4. sessions' = [sessions EXCEPT ![s] = x]
      BY <1>4, <2>1, <2>2 DEF mark_durable, Update
    <2>5. sessions[s].publish \in Nat /\ sessions[s].durable \in Nat
      BY <1>1 DEF Records
    <2>6. /\ sessions[s].epoch <= x.epoch
          /\ x.lease \in 1..x.epoch
          /\ x.durable \in 0..x.ws /\ {history[s][i] : i \in 1..x.durable} \ dropped \subseteq x.snap
          /\ x.publish <= x.durable /\ x.publish <= seen[s].rev
      BY <1>1, <1>4, <2>1, <2>3, <2>5 DEF Sound
    <2>7. QED
      BY <2>3, <2>4, <2>6, Changed
  <1>5. QED
    BY <1>2, <1>3, <1>4

(* mark_ready: the sample is at least as new as what is reported of it. *)
LEMMA StoreReady ==
  ASSUME StoreInv, NEW s \in Ids, NEW epoch \in Nat, NEW revision \in Nat, NEW sampled,
         sampled.rev \in Nat, sampled.epoch \in Nat, revision <= sampled.rev, epoch <= sampled.epoch,
         mark_ready(s, epoch, revision, sampled),
         UNCHANGED <<history, files, edits, frozen, dropped>>, devState' \in 0..Len(sessions)
  PROVE  StoreInv' /\ Grows
PROOF
  <1>1. /\ sessions[s] \in Records /\ history[s] \in Seq(Nat) /\ seen[s] \in Samples
        /\ Sound(sessions[s], history[s], seen[s])
        /\ sessions[s].ws \in Nat /\ sessions[s].epoch \in Nat
        /\ history' = [history EXCEPT ![s] = history[s]]
    BY EntryFacts
  <1>2. CASE ~Readiable(s, epoch, revision)
    <2>1. UNCHANGED storeVars
      BY <1>2 DEF mark_ready, storeVars
    <2>2. /\ edits' \in 0..MaxEdits /\ edits <= edits'
          /\ files' \subseteq 1..edits' /\ frozen' \subseteq SUBSET (1..edits')
          /\ (1..edits') \ dropped' \subseteq files' /\ dropped \subseteq dropped'
      BY Bounds DEF StoreInv, FilesInv
    <2>3. QED
      BY <2>1, <2>2, Untouched
  <1>3. CASE Readiable(s, epoch, revision)
    <2>1. revision \in sessions[s].ready .. sessions[s].ws /\ sessions[s].epoch = epoch
      BY <1>3 DEF Readiable, validate_process_epoch
    <2>2. PICK x \in Records : x = [sessions[s] EXCEPT !.ready = revision, !.status = "Ready"]
      BY <1>1 DEF Records, Statuses
    <2>3. /\ x.ws = sessions[s].ws /\ x.ready = revision /\ x.epoch = sessions[s].epoch
          /\ x.restarts = sessions[s].restarts /\ x.lease = sessions[s].lease
          /\ x.durable = sessions[s].durable /\ x.snap = sessions[s].snap
          /\ x.publish = sessions[s].publish
      BY <1>1, <2>2 DEF Records
    <2>4. PICK n \in Nat : n = IF sampled.rev > seen[s].rev THEN sampled.rev ELSE seen[s].rev
      BY <1>1 DEF Samples
    <2>5. PICK z \in Samples : z = [seen[s] EXCEPT !.rev = n, !.epoch = sampled.epoch]
      BY <1>1 DEF Samples
    <2>6. z.rev = n /\ z.epoch = sampled.epoch /\ z.since = seen[s].since
      BY <1>1, <2>5 DEF Samples
    <2>7. PICK h \in Seq(Nat) : h = history[s]
      BY <1>1
    <2>8. sessions' = [sessions EXCEPT ![s] = x] /\ history' = [history EXCEPT ![s] = h]
      BY <1>1, <1>3, <2>2, <2>7 DEF mark_ready, Update
    <2>9. seen' = [seen EXCEPT ![s] = z]
      <3>1. seen' = [seen EXCEPT ![s].rev = n, ![s].epoch = sampled.epoch]
        BY <1>3, <2>4 DEF mark_ready
      <3>2. s \in DOMAIN seen
        BY DEF StoreInv, StoreTypes, Ids
      <3>3. QED
        BY <1>1, <2>5, <3>1, <3>2
    <2>10. /\ seen[s].rev \in Nat /\ seen[s].since \in Nat /\ sessions[s].publish \in Nat
           /\ sessions[s].ready \in Nat
      BY <1>1 DEF Samples, Records
    <2>11. Sound(x, h, z)
      <3>1. Sound(sessions[s], h, seen[s])
        BY <1>1, <2>7
      <3>2. seen[s].since <= sessions[s].epoch /\ sessions[s].publish <= seen[s].rev
        BY <3>1 DEF Sound
      <3>3. /\ x.ready \in 0..x.ws /\ x.ready <= z.rev /\ z.epoch >= z.since
            /\ x.publish <= z.rev
        BY <1>1, <2>1, <2>3, <2>4, <2>6, <2>10, <3>2, SMTT(40)
      <3>4. QED
        BY <2>3, <2>6, <3>1, <3>3 DEF Sound
    <2>12. /\ sessions[s].ws <= x.ws /\ sessions[s].epoch <= x.epoch
           /\ \A i \in 1..sessions[s].ws : h[i] = history[s][i]
      BY <1>1, <2>3, <2>7
    <2>13. QED
      BY <2>8, <2>9, <2>11, <2>12, Touched
  <1>4. QED
    BY <1>2, <1>3

(* begin_restart: the epoch refuses what is reported of the old process. *)
LEMMA StoreRestart ==
  ASSUME StoreInv, NEW s \in Ids, begin_restart(s),
         UNCHANGED <<history, files, edits, frozen, dropped, devState>>
  PROVE  StoreInv' /\ Grows
PROOF
  <1>1. /\ sessions[s] \in Records /\ history[s] \in Seq(Nat) /\ seen[s] \in Samples
        /\ Sound(sessions[s], history[s], seen[s])
        /\ sessions[s].ws \in Nat /\ sessions[s].epoch \in Nat
        /\ history' = [history EXCEPT ![s] = history[s]]
    BY EntryFacts
  <1>2. CASE sessions[s].restarts >= MaxRestarts
    <2>1. Update(s, [sessions[s] EXCEPT !.status = "Failed"]) /\ UNCHANGED seen
      BY <1>2 DEF begin_restart
    <2>2. "Failed" \in Statuses \ {"Ready"} /\ {} \in SUBSET Nat
      BY DEF Statuses
    <2>3. QED
      BY <2>1, <2>2, StoreMarks
  <1>3. CASE ~(sessions[s].restarts >= MaxRestarts)
    <2>1. sessions[s].restarts \in Nat
      BY <1>1 DEF Records
    <2>2. PICK n \in Nat : n = sessions[s].restarts + 1
      BY <2>1
    <2>3. PICK e \in Nat : e = sessions[s].epoch + 1
      BY <1>1
    <2>4. PICK x \in Records : x = [sessions[s] EXCEPT !.restarts = n, !.epoch = e, !.status = "Restarting"]
      BY <1>1 DEF Records, Statuses
    <2>5. /\ x.ws = sessions[s].ws /\ x.ready = sessions[s].ready /\ x.epoch = e
          /\ x.restarts = n /\ x.lease = sessions[s].lease
          /\ x.durable = sessions[s].durable /\ x.snap = sessions[s].snap
          /\ x.publish = sessions[s].publish /\ x.status = "Restarting"
      BY <1>1, <2>4 DEF Records
    <2>6. PICK z \in Samples : z = [seen[s] EXCEPT !.since = e]
      BY <1>1 DEF Samples
    <2>7. z.rev = seen[s].rev /\ z.epoch = seen[s].epoch /\ z.since = e
      BY <1>1, <2>6 DEF Samples
    <2>8. PICK h \in Seq(Nat) : h = history[s]
      BY <1>1
    <2>9. /\ sessions' = [sessions EXCEPT ![s] = x] /\ history' = [history EXCEPT ![s] = h]
          /\ seen' = [seen EXCEPT ![s] = z]
      BY <1>1, <1>3, <2>2, <2>3, <2>4, <2>6, <2>8 DEF begin_restart, Update
    <2>10. sessions[s].restarts \in Nat /\ MaxRestarts \in Nat /\ sessions[s].lease \in Nat
      BY <1>1, Bounds DEF Records
    <2>11. Sound(x, h, z)
      <3>1. Sound(sessions[s], h, seen[s])
        BY <1>1, <2>8
      <3>2. sessions[s].lease \in 1..sessions[s].epoch
        BY <3>1 DEF Sound
      <3>3. x.restarts \in 0..MaxRestarts /\ x.lease \in 1..x.epoch /\ z.since <= x.epoch
        BY <1>1, <1>3, <2>2, <2>3, <2>5, <2>7, <2>10, <3>2
      <3>4. QED
        BY <2>5, <2>7, <3>1, <3>3 DEF Sound
    <2>12. /\ sessions[s].ws <= x.ws /\ sessions[s].epoch <= x.epoch
           /\ \A i \in 1..sessions[s].ws : h[i] = history[s][i]
      BY <1>1, <2>3, <2>5, <2>8
    <2>13. devState' \in 0..Len(sessions)
      BY DEF StoreInv, FilesInv
    <2>14. QED
      BY <2>9, <2>11, <2>12, <2>13, Touched
  <1>4. QED
    BY <1>2, <1>3

(* commit_revision *)
LEMMA StoreCommit ==
  ASSUME StoreInv, NEW s \in Ids, NEW edit \in 1..edits, commit_revision(s, edit),
         UNCHANGED <<seen, files, edits, frozen, dropped, devState>>
  PROVE  /\ StoreInv' /\ Grows /\ Len(sessions') = Len(sessions)
         /\ sessions'[s].ws = sessions[s].ws + 1 /\ sessions'[s].epoch = sessions[s].epoch
PROOF
  <1>1. /\ sessions[s] \in Records /\ history[s] \in Seq(Nat) /\ seen[s] \in Samples
        /\ Sound(sessions[s], history[s], seen[s])
        /\ sessions[s].ws \in Nat /\ sessions[s].epoch \in Nat
        /\ seen' = [seen EXCEPT ![s] = seen[s]]
    BY EntryFacts
  <1>2. PICK n \in Nat : n = sessions[s].ws + 1
    BY <1>1
  <1>3. PICK x \in Records : x = [sessions[s] EXCEPT !.ws = n, !.status = "Updating"]
    BY <1>1 DEF Records, Statuses
  <1>4. /\ x.ws = n /\ x.ready = sessions[s].ready /\ x.epoch = sessions[s].epoch
        /\ x.restarts = sessions[s].restarts /\ x.lease = sessions[s].lease
        /\ x.durable = sessions[s].durable /\ x.snap = sessions[s].snap
        /\ x.publish = sessions[s].publish /\ x.status = "Updating"
    BY <1>1, <1>3 DEF Records
  <1>5. edits \in Nat /\ edit \in Nat
    BY Bounds DEF StoreInv, FilesInv
  <1>6. PICK h \in Seq(Nat) : h = Append(history[s], edit)
    BY <1>1, <1>5, AppendFacts
  <1>7. Len(history[s]) = sessions[s].ws
    BY <1>1 DEF Sound
  <1>8. /\ Len(h) = n /\ h[n] = edit
        /\ \A i \in 1..sessions[s].ws : h[i] = history[s][i]
    BY <1>1, <1>2, <1>5, <1>6, <1>7
  <1>9. PICK z \in Samples : z = seen[s]
    BY <1>1
  <1>10. /\ sessions' = [sessions EXCEPT ![s] = x] /\ history' = [history EXCEPT ![s] = h]
         /\ seen' = [seen EXCEPT ![s] = z]
    BY <1>1, <1>2, <1>3, <1>6, <1>9 DEF commit_revision, Update
  <1>11. Sound(x, h, z)
    <2>1. Sound(sessions[s], history[s], z)
      BY <1>1, <1>9
    <2>2. x.ready \in 0..x.ws /\ x.durable \in 0..x.ws
      <3>1. sessions[s].ready \in 0..sessions[s].ws /\ sessions[s].durable \in 0..sessions[s].ws
        BY <2>1 DEF Sound
      <3>2. QED
        BY <1>1, <1>2, <1>4, <3>1
    <2>3. \A i \in 1..x.ws : h[i] \in 1..edits
      <3>1. \A i \in 1..sessions[s].ws : history[s][i] \in 1..edits
        BY <2>1 DEF Sound
      <3>2. \A i \in 1..n : i \in 1..sessions[s].ws \/ i = n
        BY <1>1, <1>2
      <3>3. QED
        BY <1>4, <1>8, <3>1, <3>2
    <2>4. {h[i] : i \in 1..x.durable} \ dropped \subseteq x.snap
      <3>1. /\ {history[s][i] : i \in 1..sessions[s].durable} \ dropped \subseteq sessions[s].snap
            /\ sessions[s].durable \in 0..sessions[s].ws
        BY <2>1 DEF Sound
      <3>2. \A i \in 1..sessions[s].durable : h[i] = history[s][i]
        BY <1>1, <1>8, <3>1
      <3>3. QED
        BY <1>4, <3>1, <3>2
    <2>5. QED
      BY <1>4, <1>8, <2>1, <2>2, <2>3, <2>4 DEF Sound
  <1>12. /\ sessions[s].ws <= x.ws /\ sessions[s].epoch <= x.epoch /\ devState' \in 0..Len(sessions)
    BY <1>1, <1>2, <1>4 DEF StoreInv, FilesInv
  <1>13. StoreInv' /\ Grows
    BY <1>8, <1>10, <1>11, <1>12, Touched
  <1>14. sessions'[s] = x /\ Len(sessions') = Len(sessions)
    BY <1>10, ReplaceFacts DEF StoreInv, StoreTypes, Ids
  <1>15. QED
    BY <1>2, <1>4, <1>13, <1>14

(* start: a new session, the newest. *)
LEMMA StoreStart ==
  ASSUME StoreInv, NEW snapshot \in SUBSET Nat, start(snapshot),
         UNCHANGED <<files, edits, frozen, dropped, devState>>
  PROVE  StoreInv' /\ Grows /\ Len(sessions) + 1 \in Ids'
PROOF
  <1>1. StoreTypes /\ FilesInv
    BY DEF StoreInv
  <1>2. PICK n \in Nat : n = Len(sessions)
    BY <1>1 DEF StoreTypes
  <1>3. PICK x \in Records : x = NewSession(snapshot)
    BY DEF NewSession, Records, Statuses
  <1>4. PICK h \in Seq(Nat) : h = <<>>
    <2>1. <<>> \in Seq(Nat)
      OBVIOUS
    <2>2. QED
      BY <2>1
  <1>5. PICK z \in Samples : z = Unseen
    BY DEF Unseen, Samples
  <1>6. sessions' = Append(sessions, x) /\ history' = Append(history, h) /\ seen' = Append(seen, z)
    BY <1>3, <1>4, <1>5 DEF start
  <1>7. /\ sessions' \in Seq(Records) /\ Len(sessions') = n + 1 /\ sessions'[n + 1] = x
        /\ \A k \in 1..n : sessions'[k] = sessions[k]
    BY <1>1, <1>2, <1>6 DEF StoreTypes
  <1>8. /\ history' \in Seq(Seq(Nat)) /\ Len(history') = n + 1 /\ history'[n + 1] = h
        /\ \A k \in 1..n : history'[k] = history[k]
    BY <1>1, <1>2, <1>6, AppendFacts DEF StoreTypes
  <1>9. /\ seen' \in Seq(Samples) /\ Len(seen') = n + 1 /\ seen'[n + 1] = z
        /\ \A k \in 1..n : seen'[k] = seen[k]
    BY <1>1, <1>2, <1>6 DEF StoreTypes
  <1>10. Ids = 1..n /\ Ids' = 1..(n + 1)
    BY <1>2, <1>7 DEF Ids
  <1>11. StoreTypes' /\ FilesInv'
    BY <1>1, <1>2, <1>7, <1>8, <1>9 DEF StoreTypes, FilesInv
  <1>12. Sound(x, h, z)
    <2>1. Len(h) = 0 /\ MaxRestarts \in Nat
      BY <1>4, Bounds
    <2>2. /\ x.status = "Starting" /\ x.epoch = 1 /\ x.lease = 1 /\ x.ws = 0 /\ x.ready = 0
          /\ x.durable = 0 /\ x.publish = 0 /\ x.restarts = 0
          /\ z.rev = 0 /\ z.epoch = 1 /\ z.since = 1
      BY <1>3, <1>5 DEF NewSession, Unseen
    <2>3. 1..0 = {}
      OBVIOUS
    <2>4. QED
      BY <2>1, <2>2, <2>3 DEF Sound
  <1>13. ASSUME NEW k \in Ids' PROVE SessionInv(k)'
    <2>1. CASE k = n + 1
      BY <1>7, <1>8, <1>9, <1>12, <2>1, ZenonT(40) DEF SessionInv, Sound
    <2>2. CASE k # n + 1
      <3>1. k \in 1..n /\ k \in Ids
        BY <1>2, <1>10, <2>2
      <3>2. SessionInv(k)
        BY <3>1 DEF StoreInv
      <3>3. sessions'[k] = sessions[k] /\ history'[k] = history[k] /\ seen'[k] = seen[k]
        BY <1>7, <1>8, <1>9, <3>1
      <3>4. QED
        BY <3>2, <3>3 DEF SessionInv, Sound
    <2>3. QED
      BY <2>1, <2>2
  <1>14. Grows
    <2>1. ASSUME NEW k \in Ids
          PROVE  /\ sessions[k].ws <= sessions'[k].ws /\ sessions[k].epoch <= sessions'[k].epoch
                 /\ \A i \in 1..sessions[k].ws : history'[k][i] = history[k][i]
      BY <1>1, <1>7, <1>8, <1>10, NumberFacts
    <2>2. edits \in Nat
      BY <1>1 DEF FilesInv
    <2>3. QED
      BY <1>2, <1>7, <2>1, <2>2 DEF Grows
  <1>15. QED
    BY <1>2, <1>10, <1>11, <1>13, <1>14 DEF StoreInv

(* A step that changes none of the store and the workspace. *)
LEMMA StoreStutter ==
  ASSUME StoreInv, UNCHANGED <<sessions, history, seen, files, edits, frozen, dropped>>,
         devState' \in 0..Len(sessions)
  PROVE  StoreInv' /\ Grows
PROOF
  <1>1. UNCHANGED storeVars
    BY DEF storeVars
  <1>2. /\ edits' \in 0..MaxEdits /\ edits <= edits'
        /\ files' \subseteq 1..edits' /\ frozen' \subseteq SUBSET (1..edits')
        /\ (1..edits') \ dropped' \subseteq files' /\ dropped \subseteq dropped'
    BY Bounds DEF StoreInv, FilesInv
  <1>3. QED
    BY <1>1, <1>2, Untouched

-----------------------------------------------------------------------------
(* The tools. *)

(* What a tool holds stays true while the store grows. *)
LEMMA HoldsGrows ==
  ASSUME StoreTypes, StoreTypes', Grows, NEW copy, NEW s, Holds(copy, s)
  PROVE  Holds(copy, s)' /\ Committed(s, copy.ws)' = Committed(s, copy.ws)
PROOF
  <1>1. s \in Ids /\ copy \in Copies /\ copy.ws \in Nat /\ copy.epoch \in Nat
    BY DEF Holds, Copies
  <1>2. Len(sessions) \in Nat /\ Len(sessions') \in Nat /\ Len(sessions) <= Len(sessions')
    BY DEF StoreTypes, Grows
  <1>3. s \in Ids'
    BY <1>1, <1>2 DEF Ids
  <1>4. sessions[s].ws \in Nat /\ sessions[s].epoch \in Nat
    BY <1>1, NumberFacts
  <1>5. sessions'[s] \in Records
    BY <1>3 DEF StoreTypes, Ids
  <1>6. sessions'[s].ws \in Nat /\ sessions'[s].epoch \in Nat
    BY <1>5 DEF Records
  <1>7. /\ sessions[s].ws <= sessions'[s].ws /\ sessions[s].epoch <= sessions'[s].epoch
        /\ \A i \in 1..sessions[s].ws : history'[s][i] = history[s][i]
    BY <1>1 DEF Grows
  <1>8. copy.ws <= sessions[s].ws /\ copy.epoch <= sessions[s].epoch
    BY DEF Holds
  <1>9. Holds(copy, s)'
    BY <1>1, <1>3, <1>4, <1>6, <1>7, <1>8 DEF Holds
  <1>10. \A i \in 1..copy.ws : history'[s][i] = history[s][i]
    BY <1>1, <1>4, <1>7, <1>8
  <1>11. QED
    BY <1>9, <1>10 DEF Committed

(* A tool of another run. *)
LEMMA ToolKept ==
  ASSUME StoreInv, StoreInv', Grows, NEW q \in Runs, ToolInv(q), op'[q] = op[q]
  PROVE  ToolInv(q)'
PROOF
  <1>1. StoreTypes /\ StoreTypes'
    BY DEF StoreInv
  <1>2. edits \in Nat /\ edits' \in Nat /\ edits <= edits' /\ dropped \subseteq dropped'
    BY Bounds DEF StoreInv, FilesInv, Grows
  <1>3. 1..edits \subseteq 1..edits'
    BY <1>2
  <1>4. Ids \subseteq Ids'
    BY <1>1 DEF Ids, StoreTypes, Grows
  <1>5. PICK o : o = op[q]
    OBVIOUS
  <1>6. op[q] = o /\ op'[q] = o
    BY <1>5
  <1>7. PICK c, s, a, n : c = o.copy /\ s = o.s /\ a = o.at /\ n = o.copy.ws
    OBVIOUS
  <1>8. o.pc \in {"commit", "freeze", "durable", "sample", "apply"} =>
          Holds(c, s)' /\ Committed(s, c.ws)' = Committed(s, c.ws)
    BY <1>1, <1>6, <1>7, HoldsGrows DEF ToolInv
  <1>9. o.pc = "apply" => Holds(a, s)'
    BY <1>1, <1>6, <1>7, HoldsGrows DEF ToolInv
  <1>10. o.pc = "durable" =>
          /\ o.snap \subseteq 1..edits'
          /\ (Committed(o.s, o.copy.ws) \ dropped)' \subseteq o.snap
    BY <1>2, <1>3, <1>6, <1>7, <1>8 DEF ToolInv
  <1>11. QED
    BY <1>3, <1>4, <1>6, <1>7, <1>8, <1>9, <1>10 DEF ToolInv

(* One run moves. *)
Moves(r) == DOMAIN op' = Runs /\ \A q \in Runs : q # r => op'[q] = op[q]

(* The other tools are kept, so it is enough to look at run r's. *)
LEMMA ToolsMove ==
  ASSUME StoreInv, StoreInv', Grows, ToolsInv, NEW r \in Runs, Moves(r), ToolInv(r)'
  PROVE  ToolsInv'
PROOF
  <1>1. ASSUME NEW q \in Runs PROVE ToolInv(q)'
    <2>1. CASE q = r
      BY <2>1
    <2>2. CASE q # r
      <3>1. ToolInv(q) /\ op'[q] = op[q]
        BY <2>2 DEF ToolsInv, Moves
      <3>2. QED
        BY <3>1, ToolKept
    <2>3. QED
      BY <2>1, <2>2
  <1>2. QED
    BY <1>1 DEF ToolsInv, Moves

(* No tool moves. *)
LEMMA ToolsStay ==
  ASSUME StoreInv, StoreInv', Grows, ToolsInv, UNCHANGED op
  PROVE  ToolsInv'
PROOF
  <1>1. ASSUME NEW q \in Runs PROVE ToolInv(q)'
    <2>1. ToolInv(q) /\ op'[q] = op[q]
      BY DEF ToolsInv
    <2>2. QED
      BY <2>1, ToolKept
  <1>2. QED
    BY <1>1 DEF ToolsInv

(* Goto and Begin move one run. *)
LEMMA GotoFacts ==
  ASSUME ToolsInv, NEW r \in Runs, NEW o, op' = [op EXCEPT ![r] = o]
  PROVE  Moves(r) /\ op'[r] = o
PROOF
  BY DEF ToolsInv, Moves

(* A tool that holds nothing. *)
LEMMA FreeHands ==
  ASSUME NEW r \in Runs,
         op'[r].pc \in {"idle", "validate", "write", "devFreeze", "restore"}
  PROVE  ToolInv(r)'
PROOF
  BY DEF ToolInv

(* What a tool reads of a session now. *)
LEMMA SeenHolds ==
  ASSUME StoreInv, NEW s \in Ids
  PROVE  Holds(Seen(s), s) /\ Seen(s).ws = sessions[s].ws /\ Seen(s).epoch = sessions[s].epoch
PROOF
  <1>1. sessions[s] \in Records /\ sessions[s].ws \in Nat /\ sessions[s].epoch \in Nat
    BY EntryFacts
  <1>2. Seen(s) \in Copies
    BY <1>1 DEF Seen, Copies, Records
  <1>3. QED
    BY <1>1, <1>2 DEF Holds, Seen

-----------------------------------------------------------------------------
(* The steps of the tools that change neither plans nor runs. *)

(* The plans and the runs stay what they are while run r's tool moves. *)
LEMMA PlansStay ==
  ASSUME PlanInv, NEW r \in Runs, Moves(r), UNCHANGED <<guardVars, run>>,
         op'[r].pc # "idle" => run[r].st = "active",
         op'[r].pc \in {"validate", "write"} => run[r].preflight
  PROVE  PlanInv'
PROOF
  <1>1. UNCHANGED <<plans, approved, consumed, used, run>>
    BY DEF guardVars
  <1>2. \A q \in Runs : /\ op'[q].pc # "idle" => run[q].st = "active"
                        /\ op'[q].pc \in {"validate", "write"} => run[q].preflight
    BY DEF PlanInv, Moves
  <1>3. QED
    BY <1>1, <1>2 DEF PlanInv, Spends

(* A step of run r's tool keeps IInv if it keeps the store and its own part. *)
LEMMA ToolStep ==
  ASSUME IInv, NEW r \in Runs, StoreInv', Grows, Moves(r), ToolInv(r)',
         UNCHANGED <<guardVars, run>>,
         op'[r].pc # "idle" => run[r].st = "active",
         op'[r].pc \in {"validate", "write"} => run[r].preflight
  PROVE  IInv'
PROOF
  BY ToolsMove, PlansStay DEF IInv

(* A tool that is under way belongs to an active run. *)
LEMMA UnderWay ==
  ASSUME IInv, NEW r \in Runs, op[r].pc # "idle" \/ Free(r)
  PROVE  run[r].st = "active"
PROOF
  BY DEF IInv, PlanInv, Free

(* A tool returns, or its future is dropped. *)
LEMMA ToolEnds ==
  ASSUME IInv, NEW r \in Runs, StoreInv', Grows, op' = [op EXCEPT ![r] = Idle],
         UNCHANGED <<guardVars, run>>
  PROVE  IInv'
PROOF
  <1>1. Moves(r) /\ op'[r] = Idle
    BY GotoFacts DEF IInv
  <1>2. op'[r].pc = "idle"
    BY <1>1 DEF Idle
  <1>3. ToolInv(r)'
    BY <1>2, FreeHands
  <1>4. QED
    BY <1>1, <1>2, <1>3, ToolStep

(* A tool is dropped at an await. *)
LEMMA AbandonStep ==
  ASSUME IInv, NEW r \in Runs, Abandon(r)
  PROVE  IInv'
PROOF
  <1>1. op' = [op EXCEPT ![r] = Idle] /\ UNCHANGED <<guardVars, run>>
    BY DEF Abandon, Goto
  <1>2. /\ UNCHANGED <<sessions, history, seen, files, edits, frozen, dropped>>
        /\ devState' \in 0..Len(sessions)
    BY DEF Abandon, storeVars, sandboxVars, IInv, StoreInv, FilesInv
  <1>3. StoreInv' /\ Grows
    BY <1>2, StoreStutter DEF IInv
  <1>4. QED
    BY <1>1, <1>3, ToolEnds

(* validate_dev_mutation changes nothing but the tool's position. *)
LEMMA ValidateStep ==
  ASSUME IInv, NEW r \in Runs, validate_dev_mutation(r)
  PROVE  IInv'
PROOF
  <1>1. /\ op[r].pc = "validate" /\ UNCHANGED <<guardVars, run>>
        /\ \E o \in {[pc |-> "write"], Idle} : op' = [op EXCEPT ![r] = o]
    BY DEF validate_dev_mutation, Goto, At
  <1>2. /\ UNCHANGED <<sessions, history, seen, files, edits, frozen, dropped>>
        /\ devState' \in 0..Len(sessions)
    BY DEF validate_dev_mutation, storeVars, sandboxVars, IInv, StoreInv, FilesInv
  <1>3. StoreInv' /\ Grows
    BY <1>2, StoreStutter DEF IInv
  <1>4. PICK o \in {[pc |-> "write"], Idle} : op' = [op EXCEPT ![r] = o]
    BY <1>1
  <1>5. Moves(r) /\ op'[r] = o
    BY <1>4, GotoFacts DEF IInv
  <1>6. op'[r].pc \in {"write", "idle"}
    BY <1>5 DEF Idle
  <1>7. ToolInv(r)'
    BY <1>6, FreeHands
  <1>8. run[r].st = "active" /\ run[r].preflight
    BY <1>1 DEF IInv, PlanInv
  <1>9. QED
    BY <1>1, <1>3, <1>5, <1>7, <1>8, ToolStep

(* record_dev_mutation holds what it reads of the session now. *)
LEMMA ReadStep ==
  ASSUME IInv, NEW r \in Runs, ReadSession(r)
  PROVE  IInv'
PROOF
  <1>1. op[r].pc = "record" /\ op[r].edit \in 1..edits /\ UNCHANGED <<guardVars, run>>
    BY DEF ReadSession, At, IInv, ToolsInv, ToolInv
  <1>2. /\ UNCHANGED <<sessions, history, seen, files, edits, frozen, dropped>>
        /\ devState' \in 0..Len(sessions)
    BY DEF ReadSession, storeVars, sandboxVars, IInv, StoreInv, FilesInv
  <1>3. StoreInv' /\ Grows
    BY <1>2, StoreStutter DEF IInv
  <1>4. CASE op' = [op EXCEPT ![r] = Idle]
    BY <1>1, <1>3, <1>4, ToolEnds
  <1>5. ASSUME NEW s \in Ids,
               op' = [op EXCEPT ![r] = [pc |-> "commit", s |-> s, copy |-> Seen(s),
                                        edit |-> op[r].edit]]
        PROVE  IInv'
    <2>1. PICK o : o = [pc |-> "commit", s |-> s, copy |-> Seen(s), edit |-> op[r].edit]
      OBVIOUS
    <2>2. Moves(r) /\ op'[r] = o
      BY <1>5, <2>1, GotoFacts DEF IInv
    <2>3. o.pc = "commit" /\ o.s = s /\ o.copy = Seen(s) /\ o.edit \in 1..edits
      BY <1>1, <2>1
    <2>4. Holds(Seen(s), s) /\ Seen(s)' = Seen(s)
      BY <1>2, SeenHolds DEF IInv, Seen
    <2>5. Holds(o.copy, o.s)'
      BY <1>2, <2>3, <2>4 DEF Holds, Ids
    <2>6. ToolInv(r)'
      BY <1>2, <2>2, <2>3, <2>5 DEF ToolInv
    <2>7. run[r].st = "active"
      BY <1>1, UnderWay
    <2>8. QED
      BY <1>1, <1>3, <2>2, <2>3, <2>6, <2>7, ToolStep
  <1>6. QED
    BY <1>4, <1>5 DEF ReadSession, Goto

(* commit_revision: the tool goes on with the revision it has made. *)
LEMMA CommitStep ==
  ASSUME IInv, NEW r \in Runs, CommitRevision(r)
  PROVE  IInv'
PROOF
  <1>1. /\ op[r].pc = "commit" /\ op[r].edit \in 1..edits /\ UNCHANGED <<guardVars, run>>
        /\ Holds(op[r].copy, op[r].s)
        /\ UNCHANGED <<seen, files, edits, frozen, dropped, devState>>
    BY DEF CommitRevision, At, IInv, ToolsInv, ToolInv, sandboxVars
  <1>2. PICK s \in Ids : s = op[r].s
    BY <1>1 DEF Holds
  <1>3. PICK c \in Copies : c = op[r].copy
    BY <1>1 DEF Holds
  <1>4. CASE ~Committable(s, c)
    <2>1. op' = [op EXCEPT ![r] = Idle] /\ UNCHANGED <<sessions, history>>
      BY <1>2, <1>3, <1>4 DEF CommitRevision, Goto
    <2>2. devState' \in 0..Len(sessions)
      BY <1>1 DEF IInv, StoreInv, FilesInv
    <2>3. StoreInv' /\ Grows
      BY <1>1, <2>1, <2>2, StoreStutter DEF IInv
    <2>4. QED
      BY <1>1, <2>1, <2>3, ToolEnds
  <1>5. CASE Committable(s, c)
    <2>1. PICK edit \in 1..edits : edit = op[r].edit
      BY <1>1
    <2>2. /\ commit_revision(s, edit)
          /\ op' = [op EXCEPT ![r] = [pc |-> "freeze", s |-> s, copy |-> [c EXCEPT !.ws = c.ws + 1]]]
      BY <1>2, <1>3, <1>5, <2>1 DEF CommitRevision, Goto
    <2>3. /\ StoreInv' /\ Grows /\ Len(sessions') = Len(sessions)
          /\ sessions'[s].ws = sessions[s].ws + 1 /\ sessions'[s].epoch = sessions[s].epoch
      BY <1>1, <2>2, StoreCommit DEF IInv
    <2>4. c.ws = sessions[s].ws /\ c.epoch = sessions[s].epoch /\ c.ws \in Nat /\ c.epoch \in Nat
      BY <1>5 DEF Committable, validate_writer, validate_process_epoch, Copies
    <2>5. PICK n \in Nat : n = c.ws + 1
      BY <2>4
    <2>6. PICK d \in Copies : d = [c EXCEPT !.ws = n]
      BY DEF Copies
    <2>7. d.ws = n /\ d.epoch = c.epoch
      BY <2>6 DEF Copies
    <2>8. Holds(d, s)'
      BY <2>3, <2>4, <2>5, <2>7 DEF Holds, Ids
    <2>9. PICK o : o = [pc |-> "freeze", s |-> s, copy |-> d]
      OBVIOUS
    <2>10. op' = [op EXCEPT ![r] = o] /\ o.pc = "freeze" /\ o.s = s /\ o.copy = d
      BY <2>2, <2>5, <2>6, <2>9
    <2>11. Moves(r) /\ op'[r] = o
      BY <2>10, GotoFacts DEF IInv
    <2>12. ToolInv(r)'
      BY <2>8, <2>10, <2>11 DEF ToolInv
    <2>13. run[r].st = "active"
      BY <1>1, UnderWay
    <2>14. QED
      BY <1>1, <2>3, <2>10, <2>11, <2>12, <2>13, ToolStep
  <1>6. QED
    BY <1>4, <1>5

(* A snapshot of the sources holds what has been committed and not dropped. *)
LEMMA FreezeStep ==
  ASSUME IInv, NEW r \in Runs, freeze_draft_revision(r) \/ DevFreeze(r)
  PROVE  IInv'
PROOF
  <1>1. /\ op[r].pc \in {"freeze", "devFreeze"} /\ UNCHANGED <<guardVars, run>>
        /\ UNCHANGED <<sessions, history, seen, files, edits, dropped, devState>>
        /\ frozen' = frozen \union {files}
    BY DEF freeze_draft_revision, DevFreeze, At, storeVars
  <1>2. /\ edits \in Nat /\ edits \in 0..MaxEdits /\ files \subseteq 1..edits
        /\ frozen \subseteq SUBSET (1..edits)
        /\ (1..edits) \ dropped \subseteq files /\ devState \in 0..Len(sessions)
    BY DEF IInv, StoreInv, FilesInv
  <1>3. StoreInv' /\ Grows
    <2>1. /\ UNCHANGED storeVars /\ edits' \in 0..MaxEdits /\ edits <= edits'
          /\ files' \subseteq 1..edits' /\ frozen' \subseteq SUBSET (1..edits')
          /\ (1..edits') \ dropped' \subseteq files' /\ dropped \subseteq dropped'
          /\ devState' \in 0..Len(sessions)
      BY <1>1, <1>2 DEF storeVars
    <2>2. QED
      BY <2>1, Untouched DEF IInv
  <1>4. run[r].st = "active"
    BY <1>1, UnderWay
  <1>5. CASE DevFreeze(r)
    <2>1. PICK o : o = [pc |-> "devOpen", snap |-> files]
      OBVIOUS
    <2>2. op' = [op EXCEPT ![r] = o] /\ o.pc = "devOpen" /\ o.snap = files
      BY <1>5, <2>1 DEF DevFreeze, Goto
    <2>3. Moves(r) /\ op'[r] = o
      BY <2>2, GotoFacts DEF IInv
    <2>4. ToolInv(r)'
      BY <1>1, <1>2, <2>2, <2>3 DEF ToolInv
    <2>5. QED
      BY <1>1, <1>3, <1>4, <2>2, <2>3, <2>4, ToolStep
  <1>6. CASE freeze_draft_revision(r)
    <2>1. op[r].pc = "freeze" /\ Holds(op[r].copy, op[r].s)
      BY <1>6 DEF freeze_draft_revision, At, IInv, ToolsInv, ToolInv
    <2>2. PICK s \in Ids : s = op[r].s
      BY <2>1 DEF Holds
    <2>3. PICK c \in Copies : c = op[r].copy
      BY <2>1 DEF Holds
    <2>4. c.ws \in Nat /\ c.ws <= sessions[s].ws
      BY <2>1, <2>2, <2>3 DEF Holds, Copies
    <2>5. sessions[s].ws \in Nat /\ \A i \in 1..sessions[s].ws : history[s][i] \in 1..edits
      BY EntryFacts DEF IInv, Sound
    <2>6. Committed(s, c.ws) \ dropped \subseteq files
      BY <1>2, <2>4, <2>5 DEF Committed
    <2>7. PICK o : o = [pc |-> "durable", s |-> s, copy |-> c, snap |-> files]
      OBVIOUS
    <2>8. /\ op' = [op EXCEPT ![r] = o]
          /\ o.pc = "durable" /\ o.s = s /\ o.copy = c /\ o.snap = files
      BY <1>6, <2>2, <2>3, <2>7 DEF freeze_draft_revision, Goto
    <2>9. Moves(r) /\ op'[r] = o
      BY <2>8, GotoFacts DEF IInv
    <2>10. Holds(c, s)' /\ (Committed(s, c.ws) \ dropped)' \subseteq files
      BY <1>1, <2>1, <2>2, <2>3, <2>6 DEF Holds, Ids, Committed
    <2>11. ToolInv(r)'
      BY <1>1, <1>2, <2>8, <2>9, <2>10 DEF ToolInv
    <2>12. QED
      BY <1>1, <1>3, <1>4, <2>8, <2>9, <2>11, ToolStep
  <1>7. QED
    BY <1>5, <1>6

(* preview.dev_start *)
LEMMA DevStartStep ==
  ASSUME IInv, NEW r \in Runs, DevStart(r)
  PROVE  IInv'
PROOF
  <1>1. PICK o : o = [pc |-> "devFreeze"]
    OBVIOUS
  <1>2. Free(r) /\ op' = [op EXCEPT ![r] = o] /\ UNCHANGED <<guardVars, run>> /\ o.pc = "devFreeze"
    BY <1>1 DEF DevStart, Begin
  <1>3. /\ UNCHANGED <<sessions, history, seen, files, edits, frozen, dropped>>
        /\ devState' \in 0..Len(sessions)
    BY DEF DevStart, storeVars, sandboxVars, IInv, StoreInv, FilesInv
  <1>4. StoreInv' /\ Grows
    BY <1>3, StoreStutter DEF IInv
  <1>5. Moves(r) /\ op'[r] = o
    BY <1>2, GotoFacts DEF IInv
  <1>6. ToolInv(r)'
    BY <1>2, <1>5, FreeHands
  <1>7. run[r].st = "active"
    BY <1>2, UnderWay
  <1>8. QED
    BY <1>2, <1>4, <1>5, <1>6, <1>7, ToolStep

(* A tool goes on with a session it names. *)
LEMMA NamedStep ==
  ASSUME IInv, NEW r \in Runs, StoreInv', Grows, UNCHANGED <<guardVars, run>>,
         run[r].st = "active", NEW s, s \in Ids',
         NEW pc \in {"devLaunch", "devState", "restart", "stop", "restoreStop"},
         op' = [op EXCEPT ![r] = [pc |-> pc, s |-> s]]
  PROVE  IInv'
PROOF
  <1>1. PICK o : o = [pc |-> pc, s |-> s]
    OBVIOUS
  <1>2. Moves(r) /\ op'[r] = o
    BY <1>1, GotoFacts DEF IInv
  <1>3. op'[r].pc = pc /\ op'[r].s = s
    BY <1>1, <1>2
  <1>4. ToolInv(r)'
    BY <1>3 DEF ToolInv
  <1>5. QED
    BY <1>2, <1>3, <1>4, ToolStep

(* The session a dev_start opens is a new one; it may find one open. *)
LEMMA DevOpenStep ==
  ASSUME IInv, NEW r \in Runs, DevOpen(r)
  PROVE  IInv'
PROOF
  <1>1. /\ op[r].pc = "devOpen" /\ op[r].snap \subseteq 1..edits /\ UNCHANGED <<guardVars, run>>
        /\ UNCHANGED <<files, edits, frozen, dropped, devState>>
    BY DEF DevOpen, At, IInv, ToolsInv, ToolInv
  <1>2. edits \in Nat /\ devState \in 0..Len(sessions) /\ Len(sessions) \in Nat
    BY DEF IInv, StoreInv, StoreTypes, FilesInv
  <1>3. CASE ~NoneActive
    <2>1. op' = [op EXCEPT ![r] = Idle] /\ UNCHANGED <<sessions, history, seen>>
      BY <1>3 DEF DevOpen, Goto, storeVars
    <2>2. StoreInv' /\ Grows
      BY <1>1, <1>2, <2>1, StoreStutter DEF IInv
    <2>3. QED
      BY <1>1, <2>1, <2>2, ToolEnds
  <1>4. CASE NoneActive
    <2>1. PICK snapshot \in SUBSET Nat : snapshot = op[r].snap
      BY <1>1, <1>2
    <2>2. PICK s \in Nat : s = Len(sessions) + 1
      BY <1>2
    <2>3. start(snapshot) /\ op' = [op EXCEPT ![r] = [pc |-> "devLaunch", s |-> s]]
      BY <1>4, <2>1, <2>2 DEF DevOpen, Goto
    <2>4. StoreInv' /\ Grows /\ s \in Ids'
      BY <1>1, <2>2, <2>3, StoreStart DEF IInv
    <2>5. run[r].st = "active"
      BY <1>1, UnderWay
    <2>6. "devLaunch" \in {"devLaunch", "devState", "restart", "stop", "restoreStop"}
      OBVIOUS
    <2>7. QED
      BY <1>1, <2>3, <2>4, <2>5, <2>6, NamedStep
  <1>5. QED
    BY <1>3, <1>4

(* A session is never removed. *)
LEMMA IdsGrow ==
  ASSUME StoreTypes, StoreTypes', Grows
  PROVE  Ids \subseteq Ids'
PROOF
  BY DEF StoreTypes, Grows, Ids

(* The dev server is launched or its session stopped. *)
LEMMA DevLaunchStep ==
  ASSUME IInv, NEW r \in Runs, DevLaunch(r)
  PROVE  IInv'
PROOF
  <1>1. /\ op[r].pc = "devLaunch" /\ op[r].s \in Ids /\ UNCHANGED <<guardVars, run>>
        /\ UNCHANGED <<history, seen, files, edits, frozen, dropped, devState>>
    BY DEF DevLaunch, At, IInv, ToolsInv, ToolInv
  <1>2. PICK s \in Ids : s = op[r].s
    BY <1>1
  <1>3. devState \in 0..Len(sessions) /\ run[r].st = "active"
    BY <1>1, UnderWay DEF IInv, StoreInv, FilesInv
  <1>4. CASE UNCHANGED sessions /\ op' = [op EXCEPT ![r] = [pc |-> "devState", s |-> s]]
    <2>1. StoreInv' /\ Grows /\ Ids' = Ids
      BY <1>1, <1>3, <1>4, StoreStutter DEF IInv, Ids
    <2>2. "devState" \in {"devLaunch", "devState", "restart", "stop", "restoreStop"}
      OBVIOUS
    <2>3. QED
      BY <1>1, <1>3, <1>4, <2>1, <2>2, NamedStep
  <1>5. CASE stop(s) /\ op' = [op EXCEPT ![r] = Idle]
    <2>1. StoreInv' /\ Grows
      BY <1>1, <1>5, StoreMarks DEF IInv
    <2>2. QED
      BY <1>1, <1>5, <2>1, ToolEnds
  <1>6. QED
    BY <1>2, <1>4, <1>5 DEF DevLaunch, Goto

(* A dev server may be ready at once. *)
LEMMA DevStateStep ==
  ASSUME IInv, NEW r \in Runs, DevState(r)
  PROVE  IInv'
PROOF
  <1>1. /\ op[r].pc = "devState" /\ op[r].s \in Ids /\ UNCHANGED <<guardVars, run>>
        /\ UNCHANGED <<history, files, edits, frozen, dropped>>
        /\ devState' = op[r].s /\ op' = [op EXCEPT ![r] = Idle]
    BY DEF DevState, At, Goto, IInv, ToolsInv, ToolInv
  <1>2. PICK s \in Ids : s = op[r].s
    BY <1>1
  <1>3. devState' \in 0..Len(sessions)
    BY <1>1 DEF Ids, IInv, StoreInv, StoreTypes
  <1>4. CASE UNCHANGED <<sessions, seen>>
    <2>1. StoreInv' /\ Grows
      BY <1>1, <1>3, <1>4, StoreStutter DEF IInv
    <2>2. QED
      BY <1>1, <2>1, ToolEnds
  <1>5. CASE mark_ready(s, 1, 0, Unseen)
    <2>1. PICK sampled : sampled = Unseen
      OBVIOUS
    <2>2. /\ sampled.rev = 0 /\ sampled.epoch = 1 /\ mark_ready(s, 1, 0, sampled)
      BY <1>5, <2>1 DEF Unseen
    <2>3. sampled.rev \in Nat /\ sampled.epoch \in Nat /\ 0 <= sampled.rev /\ 1 <= sampled.epoch
      BY <2>2
    <2>4. StoreInv' /\ Grows
      BY <1>1, <1>3, <2>2, <2>3, StoreReady DEF IInv
    <2>5. QED
      BY <1>1, <2>4, ToolEnds
  <1>6. QED
    BY <1>2, <1>4, <1>5 DEF DevState

(* preview.dev_status *)
LEMMA StatusReadStep ==
  ASSUME IInv, NEW r \in Runs, StatusRead(r)
  PROVE  IInv'
PROOF
  <1>1. /\ UNCHANGED <<sessions, history, seen, files, edits, frozen, dropped>>
        /\ devState' \in 0..Len(sessions) /\ UNCHANGED <<guardVars, run>> /\ Free(r)
    BY DEF StatusRead, Begin, storeVars, sandboxVars, IInv, StoreInv, FilesInv
  <1>2. StoreInv' /\ Grows
    BY <1>1, StoreStutter DEF IInv
  <1>3. devState \in Ids
    BY DEF StatusRead, Ids, IInv, StoreInv, StoreTypes, FilesInv
  <1>4. PICK s \in Ids : s = devState
    BY <1>3
  <1>5. PICK o : o = [pc |-> "sample", s |-> s, copy |-> Seen(s), status |-> sessions[s].status]
    OBVIOUS
  <1>6. op' = [op EXCEPT ![r] = o] /\ o.pc = "sample" /\ o.s = s /\ o.copy = Seen(s)
    BY <1>4, <1>5 DEF StatusRead, Begin
  <1>7. Moves(r) /\ op'[r] = o
    BY <1>6, GotoFacts DEF IInv
  <1>8. Holds(Seen(s), s)
    BY SeenHolds DEF IInv
  <1>9. Holds(o.copy, o.s)'
    BY <1>1, <1>6, <1>8 DEF Holds, Ids, Seen
  <1>10. ToolInv(r)'
    BY <1>6, <1>7, <1>9 DEF ToolInv
  <1>11. run[r].st = "active"
    BY <1>1, UnderWay
  <1>12. QED
    BY <1>1, <1>2, <1>6, <1>7, <1>10, <1>11, ToolStep

(* The sample is of the session as it is now, not as it was read. *)
LEMMA SampleStep ==
  ASSUME IInv, NEW r \in Runs, process_status(r)
  PROVE  IInv'
PROOF
  <1>1. /\ UNCHANGED <<sessions, history, seen, files, edits, frozen, dropped>>
        /\ devState' \in 0..Len(sessions) /\ UNCHANGED <<guardVars, run>>
    BY DEF process_status, storeVars, sandboxVars, IInv, StoreInv, FilesInv
  <1>2. StoreInv' /\ Grows
    BY <1>1, StoreStutter DEF IInv
  <1>3. op[r].pc = "sample" /\ Holds(op[r].copy, op[r].s)
    BY DEF process_status, At, IInv, ToolsInv, ToolInv
  <1>4. PICK s \in Ids : s = op[r].s
    BY <1>3 DEF Holds
  <1>5. PICK c \in Copies : c = op[r].copy
    BY <1>3 DEF Holds
  <1>6. PICK saw : op' = [op EXCEPT ![r] = [pc |-> "apply", s |-> s, copy |-> c,
                            status |-> op[r].status, saw |-> saw, at |-> Seen(s)]]
    BY <1>4, <1>5 DEF process_status, Goto
  <1>7. PICK o : o = [pc |-> "apply", s |-> s, copy |-> c,
                      status |-> op[r].status, saw |-> saw, at |-> Seen(s)]
    OBVIOUS
  <1>8. op' = [op EXCEPT ![r] = o] /\ o.pc = "apply" /\ o.s = s /\ o.copy = c /\ o.at = Seen(s)
    BY <1>6, <1>7
  <1>9. Moves(r) /\ op'[r] = o
    BY <1>8, GotoFacts DEF IInv
  <1>10. /\ Holds(Seen(s), s) /\ Holds(c, s)
         /\ Seen(s).ws = sessions[s].ws /\ Seen(s).epoch = sessions[s].epoch
    BY <1>3, <1>4, <1>5, SeenHolds DEF IInv
  <1>11. Holds(o.copy, o.s)' /\ Holds(o.at, o.s)'
    BY <1>1, <1>8, <1>10 DEF Holds, Ids, Seen
  <1>12. o.copy.ws <= o.at.ws /\ o.copy.epoch <= o.at.epoch
    BY <1>8, <1>10 DEF Holds
  <1>13. ToolInv(r)'
    BY <1>8, <1>9, <1>11, <1>12 DEF ToolInv
  <1>14. run[r].st = "active"
    BY <1>3, UnderWay
  <1>15. QED
    BY <1>1, <1>2, <1>8, <1>9, <1>13, <1>14, ToolStep

(* The report of a sample: compile error, ready, or exited. *)
LEMMA ApplyStep ==
  ASSUME IInv, NEW r \in Runs, StatusApply(r)
  PROVE  IInv'
PROOF
  <1>1. /\ op[r].pc = "apply" /\ UNCHANGED <<guardVars, run>>
        /\ UNCHANGED <<history, files, edits, frozen, dropped, devState>>
        /\ devState' \in 0..Len(sessions)
    BY DEF StatusApply, At, sandboxVars, IInv, StoreInv, FilesInv
  <1>2. /\ Holds(op[r].copy, op[r].s) /\ Holds(op[r].at, op[r].s)
        /\ op[r].copy.ws <= op[r].at.ws /\ op[r].copy.epoch <= op[r].at.epoch
    BY <1>1 DEF IInv, ToolsInv, ToolInv
  <1>3. PICK s \in Ids : s = op[r].s
    BY <1>2 DEF Holds
  <1>4. run[r].st = "active"
    BY <1>1, UnderWay
  <1>5. CASE UNCHANGED <<sessions, seen>> /\ op' = [op EXCEPT ![r] = Idle]
    <2>1. StoreInv' /\ Grows
      BY <1>1, <1>5, StoreStutter DEF IInv
    <2>2. QED
      BY <1>1, <1>5, <2>1, ToolEnds
  <1>6. CASE /\ mark_compile_error(s, op[r].copy.epoch)
             /\ op' = [op EXCEPT ![r] = Idle] /\ UNCHANGED seen
    <2>1. CASE UNCHANGED sessions
      BY <1>5, <1>6, <2>1
    <2>2. CASE Update(s, [sessions[s] EXCEPT !.status = "CompileError"])
      <3>1. "CompileError" \in Statuses \ {"Ready"} /\ {} \in SUBSET Nat
        BY DEF Statuses
      <3>2. StoreInv' /\ Grows
        BY <1>1, <1>6, <2>2, <3>1, StoreMarks DEF IInv
      <3>3. QED
        BY <1>1, <1>6, <3>2, ToolEnds
    <2>3. QED
      BY <1>6, <2>1, <2>2 DEF mark_compile_error
  <1>7. CASE /\ mark_ready(s, op[r].copy.epoch, op[r].copy.ws,
                           [rev |-> op[r].at.ws, epoch |-> op[r].at.epoch])
             /\ op' = [op EXCEPT ![r] = Idle]
    <2>1. PICK e \in Nat : e = op[r].copy.epoch
      BY <1>2 DEF Holds, Copies
    <2>2. PICK v \in Nat : v = op[r].copy.ws
      BY <1>2 DEF Holds, Copies
    <2>3. PICK sampled : sampled = [rev |-> op[r].at.ws, epoch |-> op[r].at.epoch]
      OBVIOUS
    <2>4. op[r].at.ws \in Nat /\ op[r].at.epoch \in Nat
      BY <1>2 DEF Holds, Copies
    <2>5. /\ sampled.rev \in Nat /\ sampled.epoch \in Nat
          /\ v <= sampled.rev /\ e <= sampled.epoch
      BY <1>2, <2>1, <2>2, <2>3, <2>4
    <2>6. mark_ready(s, e, v, sampled)
      BY <1>7, <2>1, <2>2, <2>3
    <2>7. StoreInv' /\ Grows
      BY <1>1, <2>5, <2>6, StoreReady DEF IInv
    <2>8. QED
      BY <1>1, <1>7, <2>7, ToolEnds
  <1>8. CASE /\ begin_restart(s)
             /\ \/ op' = [op EXCEPT ![r] = Idle]
                \/ op' = [op EXCEPT ![r] = [pc |-> "restart", s |-> s]]
    <2>1. StoreInv' /\ Grows
      BY <1>1, <1>8, StoreRestart DEF IInv
    <2>2. s \in Ids'
      BY <2>1, IdsGrow DEF IInv, StoreInv
    <2>3. CASE op' = [op EXCEPT ![r] = Idle]
      BY <1>1, <2>1, <2>3, ToolEnds
    <2>4. CASE op' = [op EXCEPT ![r] = [pc |-> "restart", s |-> s]]
      <3>1. "restart" \in {"devLaunch", "devState", "restart", "stop", "restoreStop"}
        OBVIOUS
      <3>2. QED
        BY <1>1, <1>4, <2>1, <2>2, <2>4, <3>1, NamedStep
    <2>5. QED
      BY <1>8, <2>3, <2>4
  <1>9. QED
    BY <1>3, <1>5, <1>6, <1>7, <1>8 DEF StatusApply, Goto

(* A restart launches the dev server again. *)
LEMMA RestartStep ==
  ASSUME IInv, NEW r \in Runs, StatusRestart(r)
  PROVE  IInv'
PROOF
  <1>1. op' = [op EXCEPT ![r] = Idle] /\ UNCHANGED <<guardVars, run>>
    BY DEF StatusRestart, Goto
  <1>2. /\ UNCHANGED <<sessions, history, seen, files, edits, frozen, dropped>>
        /\ devState' \in 0..Len(sessions)
    BY DEF StatusRestart, storeVars, IInv, StoreInv, FilesInv
  <1>3. StoreInv' /\ Grows
    BY <1>2, StoreStutter DEF IInv
  <1>4. QED
    BY <1>1, <1>3, ToolEnds

(* preview.dev_stop and draft.restore *)
LEMMA StopProcessStep ==
  ASSUME IInv, NEW r \in Runs, StopProcess(r)
  PROVE  IInv'
PROOF
  <1>1. /\ UNCHANGED <<sessions, history, seen, files, edits, frozen, dropped>>
        /\ devState' \in 0..Len(sessions) /\ UNCHANGED <<guardVars, run>> /\ Free(r)
    BY DEF StopProcess, Begin, storeVars, IInv, StoreInv, FilesInv
  <1>2. StoreInv' /\ Grows
    BY <1>1, StoreStutter DEF IInv
  <1>3. devState \in Ids
    BY DEF StopProcess, Ids, IInv, StoreInv, StoreTypes, FilesInv
  <1>4. PICK s \in Ids : s = devState
    BY <1>3
  <1>5. PICK pc \in {"devLaunch", "devState", "restart", "stop", "restoreStop"} :
           op' = [op EXCEPT ![r] = [pc |-> pc, s |-> s]]
    BY <1>4 DEF StopProcess, Begin
  <1>6. run[r].st = "active" /\ s \in Ids'
    BY <1>1, UnderWay DEF Ids
  <1>7. QED
    BY <1>1, <1>2, <1>5, <1>6, NamedStep

(* The session is stopped after its process. *)
LEMMA StopSessionStep ==
  ASSUME IInv, NEW r \in Runs, StopSession(r)
  PROVE  IInv'
PROOF
  <1>1. /\ op[r].pc \in {"stop", "restoreStop"} /\ UNCHANGED <<guardVars, run>>
        /\ UNCHANGED <<history, seen, files, edits, frozen, dropped, devState>>
    BY DEF StopSession, sandboxVars
  <1>2. op[r].s \in Ids
    BY <1>1 DEF IInv, ToolsInv, ToolInv
  <1>3. PICK s \in Ids : s = op[r].s
    BY <1>2
  <1>4. stop(s)
    BY <1>3 DEF StopSession
  <1>5. StoreInv' /\ Grows
    BY <1>1, <1>4, StoreMarks DEF IInv
  <1>6. PICK o \in {Idle, [pc |-> "restore"]} : op' = [op EXCEPT ![r] = o]
    BY DEF StopSession, Goto
  <1>7. Moves(r) /\ op'[r] = o /\ o.pc \in {"idle", "restore"}
    <2>1. Moves(r) /\ op'[r] = o
      BY <1>6, GotoFacts DEF IInv
    <2>2. o.pc \in {"idle", "restore"}
      BY <1>6 DEF Idle
    <2>3. QED
      BY <2>1, <2>2
  <1>8. ToolInv(r)'
    BY <1>7, FreeHands
  <1>9. run[r].st = "active"
    BY <1>1, UnderWay
  <1>10. QED
    BY <1>1, <1>5, <1>7, <1>8, <1>9, ToolStep

(* What a restore takes out of the workspace is dropped. *)
LEMMA RestoreStep ==
  ASSUME IInv, NEW r \in Runs, Restore(r)
  PROVE  IInv'
PROOF
  <1>1. /\ op[r].pc = "restore" /\ UNCHANGED <<guardVars, run>>
        /\ UNCHANGED <<sessions, history, seen, edits, frozen, devState>>
        /\ files' \in frozen /\ dropped' = dropped \union ((1..edits) \ files')
    BY DEF Restore, At, storeVars
  <1>2. /\ edits \in Nat /\ edits \in 0..MaxEdits /\ frozen \subseteq SUBSET (1..edits)
        /\ devState \in 0..Len(sessions)
    BY DEF IInv, StoreInv, FilesInv
  <1>3. /\ UNCHANGED storeVars /\ edits' \in 0..MaxEdits /\ edits <= edits'
        /\ files' \subseteq 1..edits' /\ frozen' \subseteq SUBSET (1..edits')
        /\ (1..edits') \ dropped' \subseteq files' /\ dropped \subseteq dropped'
        /\ devState' \in 0..Len(sessions)
    BY <1>1, <1>2 DEF storeVars
  <1>4. StoreInv' /\ Grows
    BY <1>3, Untouched DEF IInv
  <1>5. PICK o \in {Idle, [pc |-> "devFreeze"]} : op' = [op EXCEPT ![r] = o]
    BY DEF Restore, Goto
  <1>6. Moves(r) /\ op'[r] = o /\ o.pc \in {"idle", "devFreeze"}
    <2>1. Moves(r) /\ op'[r] = o
      BY <1>5, GotoFacts DEF IInv
    <2>2. o.pc \in {"idle", "devFreeze"}
      BY <1>5 DEF Idle
    <2>3. QED
      BY <2>1, <2>2
  <1>7. ToolInv(r)'
    BY <1>6, FreeHands
  <1>8. run[r].st = "active"
    BY <1>1, UnderWay
  <1>9. QED
    BY <1>1, <1>4, <1>6, <1>7, <1>8, ToolStep

-----------------------------------------------------------------------------
(* The steps of the plans and the runs. *)

(* A file mutation: the only step that makes an edit and uses a plan. *)
LEMMA WriteStep ==
  ASSUME IInv, NEW r \in Runs, Write(r)
  PROVE  IInv'
PROOF
  <1>1. /\ op[r].pc = "write" /\ edits < MaxEdits /\ edits' = edits + 1
        /\ files' = files \union {edits + 1} /\ UNCHANGED <<plans, approved, consumed, run>>
        /\ UNCHANGED <<sessions, history, seen, frozen, dropped, devState>>
    BY DEF Write, At, storeVars
  <1>2. /\ edits \in Nat /\ edits \in 0..MaxEdits /\ frozen \subseteq SUBSET (1..edits)
        /\ files \subseteq 1..edits /\ (1..edits) \ dropped \subseteq files
        /\ devState \in 0..Len(sessions) /\ MaxEdits \in Nat
    BY Bounds DEF IInv, StoreInv, FilesInv
  <1>3. PICK n \in Nat : n = edits + 1
    BY <1>2
  <1>4. n \in 0..MaxEdits /\ edits <= n /\ 1..edits \subseteq 1..n /\ 1..n = (1..edits) \union {n}
    BY <1>1, <1>2, <1>3
  <1>5. /\ UNCHANGED storeVars /\ edits' \in 0..MaxEdits /\ edits <= edits'
        /\ files' \subseteq 1..edits' /\ frozen' \subseteq SUBSET (1..edits')
        /\ (1..edits') \ dropped' \subseteq files' /\ dropped \subseteq dropped'
        /\ devState' \in 0..Len(sessions)
    BY <1>1, <1>2, <1>3, <1>4 DEF storeVars
  <1>6. StoreInv' /\ Grows
    BY <1>5, Untouched DEF IInv
  <1>7. PICK o : o = [pc |-> "record", edit |-> n]
    OBVIOUS
  <1>8. op' = [op EXCEPT ![r] = o] /\ o.pc = "record" /\ o.edit = n
    BY <1>3, <1>7 DEF Write, Goto
  <1>9. Moves(r) /\ op'[r] = o
    BY <1>8, GotoFacts DEF IInv
  <1>10. n \in 1..edits'
    BY <1>1, <1>2, <1>3
  <1>11. ToolInv(r)'
    BY <1>8, <1>9, <1>10 DEF ToolInv
  <1>12. ToolsInv'
    BY <1>6, <1>9, <1>11, ToolsMove DEF IInv
  <1>13. /\ run[r].st = "active" /\ run[r].preflight /\ run[r].plan \in plans \cup {None}
         /\ plans \subseteq Plans
    BY <1>1 DEF IInv, PlanInv
  <1>14. /\ used' \subseteq Plans \X Runs
         /\ \A u \in used' : run[u[2]].preflight /\ run[u[2]].plan = u[1] /\ u[1] # None
    <2>1. /\ used \subseteq Plans \X Runs
          /\ \A u \in used : run[u[2]].preflight /\ run[u[2]].plan = u[1] /\ u[1] # None
      BY DEF IInv, PlanInv
    <2>2. used' = used \/ (run[r].plan # None /\ used' = used \union {<<run[r].plan, r>>})
      BY DEF Write
    <2>3. QED
      BY <1>13, <2>1, <2>2
  <1>15. \A q \in Runs : /\ op'[q].pc # "idle" => run[q].st = "active"
                         /\ op'[q].pc \in {"validate", "write"} => run[q].preflight
    BY <1>8, <1>9, <1>13 DEF IInv, PlanInv, Moves
  <1>16. PlanInv'
    BY <1>1, <1>14, <1>15 DEF IInv, PlanInv, Spends
  <1>17. QED
    BY <1>6, <1>12, <1>16 DEF IInv

(* The fields of a run. *)
LEMMA RunFields ==
  ASSUME PlanInv, NEW r \in Runs, NEW a \in Agents, run' = [run EXCEPT ![r] = a]
  PROVE  /\ run' \in [Runs -> Agents] /\ run'[r] = a
         /\ \A q \in Runs : q # r => run'[q] = run[q]
PROOF
  BY DEF PlanInv

(* The first mutation of a run consumes the approval of its plan. *)
LEMMA PreflightStep ==
  ASSUME IInv, NEW r \in Runs, preflight_edit_mutation(r)
  PROVE  IInv'
PROOF
  <1>1. /\ UNCHANGED <<plans, approved, used>> /\ Free(r)
        /\ UNCHANGED <<sessions, history, seen, files, edits, frozen, dropped, devState>>
        /\ devState' \in 0..Len(sessions)
    BY DEF preflight_edit_mutation, Begin, storeVars, sandboxVars, IInv, StoreInv, FilesInv
  <1>2. StoreInv' /\ Grows
    BY <1>1, StoreStutter DEF IInv
  <1>3. PICK o : o = [pc |-> "validate"]
    OBVIOUS
  <1>4. op' = [op EXCEPT ![r] = o] /\ o.pc = "validate"
    BY <1>3 DEF preflight_edit_mutation, Begin
  <1>5. Moves(r) /\ op'[r] = o
    BY <1>4, GotoFacts DEF IInv
  <1>6. ToolInv(r)'
    BY <1>4, <1>5, FreeHands
  <1>7. ToolsInv'
    BY <1>2, <1>5, <1>6, ToolsMove DEF IInv
  <1>8. PlanInv /\ run[r] \in Agents /\ run[r].plan \in plans \cup {None}
    BY DEF IInv, PlanInv
  <1>9. PICK a \in Agents : a = [run[r] EXCEPT !.preflight = TRUE]
    BY <1>8 DEF Agents
  <1>10. a.st = run[r].st /\ a.plan = run[r].plan /\ a.base = run[r].base /\ a.preflight = TRUE
    BY <1>8, <1>9 DEF Agents
  <1>11. run' = [run EXCEPT ![r] = a]
    BY <1>9 DEF preflight_edit_mutation
  <1>12. /\ run' \in [Runs -> Agents] /\ run'[r] = a
         /\ \A q \in Runs : q # r => run'[q] = run[q]
    BY <1>8, <1>11, RunFields
  <1>13. \/ (run[r].plan = None \/ run[r].preflight) /\ consumed' = consumed
         \/ /\ run[r].plan # None /\ ~run[r].preflight
            /\ consumed' = IF run[r].plan.risky THEN consumed \union {run[r].plan} ELSE consumed
            /\ run[r].plan.risky => run[r].plan \in approved \ consumed
    BY DEF preflight_edit_mutation, consume, Executable
  <1>14. consumed \subseteq consumed' /\ consumed' \subseteq approved
    BY <1>8, <1>13 DEF PlanInv
  <1>15. ASSUME NEW q \in Runs, NEW p \in plans, Spends(q, p)'
         PROVE  p \in consumed' /\ (Spends(q, p) \/ (q = r /\ p \notin consumed))
    <2>1. CASE q # r
      <3>1. Spends(q, p)
        BY <1>12, <1>15, <2>1 DEF Spends
      <3>2. QED
        BY <1>8, <1>14, <3>1 DEF PlanInv
    <2>2. CASE q = r /\ run[r].preflight
      <3>1. Spends(q, p)
        BY <1>10, <1>12, <1>15, <2>2 DEF Spends
      <3>2. QED
        BY <1>8, <1>14, <3>1 DEF PlanInv
    <2>3. CASE q = r /\ ~run[r].preflight
      <3>1. run[r].plan = p /\ p # None /\ p.risky
        BY <1>10, <1>12, <1>15, <2>3 DEF Spends
      <3>2. QED
        BY <1>13, <2>3, <3>1
    <2>4. QED
      BY <2>1, <2>2, <2>3
  <1>16. ASSUME NEW p \in plans, NEW x \in Runs, NEW y \in Runs, Spends(x, p)', Spends(y, p)'
         PROVE  x = y
    <2>1. /\ Spends(x, p) \/ (x = r /\ p \notin consumed)
          /\ Spends(y, p) \/ (y = r /\ p \notin consumed)
      BY <1>15, <1>16
    <2>2. QED
      BY <1>8, <2>1 DEF PlanInv
  <1>17. ASSUME NEW q \in Runs
         PROVE  /\ run'[q].plan \in plans' \cup {None}
                /\ run'[q].st \in {"new", "admitted"} => ~run'[q].preflight
                /\ op'[q].pc # "idle" => run'[q].st = "active"
                /\ op'[q].pc \in {"validate", "write"} => run'[q].preflight
                /\ \A p \in plans' : Spends(q, p)' => p \in consumed'
    <2>1. \A p \in plans' : Spends(q, p)' => p \in consumed'
      BY <1>1, <1>15
    <2>2. CASE q # r
      BY <1>1, <1>5, <1>8, <1>12, <2>1, <2>2 DEF PlanInv, Moves
    <2>3. CASE q = r
      BY <1>1, <1>8, <1>10, <1>12, <2>1, <2>3 DEF Free
    <2>4. QED
      BY <2>2, <2>3
  <1>18. \A u \in used' : run'[u[2]].preflight /\ run'[u[2]].plan = u[1] /\ u[1] # None
    <2>1. \A u \in used : /\ run[u[2]].preflight /\ run[u[2]].plan = u[1] /\ u[1] # None
                          /\ u[2] \in Runs
      BY <1>8 DEF PlanInv
    <2>2. QED
      BY <1>1, <1>10, <1>12, <2>1
  <1>19. plans' \subseteq Plans /\ approved' \subseteq plans' /\ used' \subseteq Plans \X Runs
    BY <1>1, <1>8 DEF PlanInv
  <1>20. \A x, y \in Runs : \A p \in plans' : Spends(x, p)' /\ Spends(y, p)' => x = y
    BY <1>1, <1>16
  <1>21. PlanInv'
    BY <1>1, <1>12, <1>14, <1>17, <1>18, <1>19, <1>20 DEF PlanInv
  <1>22. QED
    BY <1>2, <1>7, <1>21 DEF IInv

(* A run moves on and spends no approval by it. *)
LEMMA RunMoves ==
  ASSUME PlanInv, NEW r \in Runs, NEW a \in Agents, run' = [run EXCEPT ![r] = a],
         UNCHANGED guardVars, a.plan \in plans \cup {None},
         a.preflight => run[r].preflight /\ a.plan = run[r].plan,
         a.st \in {"new", "admitted"} => ~a.preflight,
         \A u \in used : u[2] = r => a.preflight,
         \A q \in Runs : /\ op'[q].pc # "idle" => run'[q].st = "active"
                         /\ op'[q].pc \in {"validate", "write"} => run'[q].preflight
  PROVE  PlanInv'
PROOF
  <1>1. /\ run' \in [Runs -> Agents] /\ run'[r] = a
        /\ \A q \in Runs : q # r => run'[q] = run[q]
    BY RunFields
  <1>2. UNCHANGED <<plans, approved, consumed, used>>
    BY DEF guardVars
  <1>3. ASSUME NEW q \in Runs, NEW p \in plans, Spends(q, p)'
        PROVE  Spends(q, p)
    <2>1. CASE q # r
      BY <1>1, <1>3, <2>1 DEF Spends
    <2>2. CASE q = r
      BY <1>1, <1>3, <2>2 DEF Spends
    <2>3. QED
      BY <2>1, <2>2
  <1>4. \A q \in Runs : /\ run'[q].plan \in plans' \cup {None}
                        /\ run'[q].st \in {"new", "admitted"} => ~run'[q].preflight
    BY <1>1, <1>2 DEF PlanInv
  <1>5. \A q \in Runs : \A p \in plans' : Spends(q, p)' => p \in consumed'
    BY <1>2, <1>3 DEF PlanInv
  <1>6. \A x, y \in Runs : \A p \in plans' : Spends(x, p)' /\ Spends(y, p)' => x = y
    BY <1>2, <1>3 DEF PlanInv
  <1>7. \A u \in used' : run'[u[2]].preflight /\ run'[u[2]].plan = u[1] /\ u[1] # None
    <2>1. \A u \in used : /\ run[u[2]].preflight /\ run[u[2]].plan = u[1] /\ u[1] # None
                          /\ u[2] \in Runs
      BY DEF PlanInv
    <2>2. QED
      BY <1>1, <1>2, <2>1
  <1>8. /\ plans' \subseteq Plans /\ approved' \subseteq plans' /\ consumed' \subseteq approved'
        /\ used' \subseteq Plans \X Runs
    BY <1>2 DEF PlanInv
  <1>9. QED
    BY <1>1, <1>4, <1>5, <1>6, <1>7, <1>8 DEF PlanInv

(* What PlanInv says of run r. *)
LEMMA RunFacts ==
  ASSUME PlanInv, NEW r \in Runs
  PROVE  /\ run[r] \in Agents /\ run[r].plan \in plans \cup {None}
         /\ run[r].st \in {"new", "admitted"} =>
               ~run[r].preflight /\ op[r].pc = "idle" /\ \A u \in used : u[2] # r
         /\ \A u \in used : u[2] = r => run[r].preflight
         /\ \A q \in Runs : /\ op[q].pc # "idle" => run[q].st = "active"
                            /\ op[q].pc \in {"validate", "write"} => run[q].preflight
PROOF
  BY DEF PlanInv

(* A run is admitted, created or ends. *)
LEMMA RunStep ==
  ASSUME IInv, NEW r \in Runs, NEW plan \in plans \cup {None},
         Admit(r, plan) \/ Create(r) \/ End(r)
  PROVE  IInv'
PROOF
  <1>1. /\ UNCHANGED <<sessions, history, seen, files, edits, frozen, dropped>> /\ UNCHANGED op
        /\ devState' \in 0..Len(sessions) /\ UNCHANGED guardVars
    BY DEF Admit, Create, End, storeVars, sandboxVars, IInv, StoreInv, FilesInv
  <1>2. StoreInv' /\ Grows
    BY <1>1, StoreStutter DEF IInv
  <1>3. ToolsInv'
    BY <1>1, <1>2, ToolsStay DEF IInv
  <1>4. /\ PlanInv /\ run[r] \in Agents /\ run[r].plan \in plans \cup {None}
        /\ run[r].st \in {"new", "admitted"} =>
              ~run[r].preflight /\ op[r].pc = "idle" /\ \A u \in used : u[2] # r
        /\ \A u \in used : u[2] = r => run[r].preflight
        /\ \A q \in Runs : /\ op[q].pc # "idle" => run[q].st = "active"
                           /\ op[q].pc \in {"validate", "write"} => run[q].preflight
    BY RunFacts DEF IInv
  <1>5. plans \subseteq Plans
    BY <1>4 DEF PlanInv
  <1>6. PICK a \in Agents :
          /\ run' = [run EXCEPT ![r] = a]
          /\ a.preflight = run[r].preflight /\ a.plan \in plans \cup {None}
          /\ a.preflight => a.plan = run[r].plan
          /\ a.st \in {"new", "admitted"} => run[r].st = "new"
          /\ op[r].pc = "idle"
    <2>1. CASE Admit(r, plan)
      <3>1. PICK a \in Agents : a = [run[r] EXCEPT !.st = "admitted", !.plan = plan]
        BY <1>4, <1>5 DEF Agents
      <3>2. a.st = "admitted" /\ a.plan = plan /\ a.preflight = run[r].preflight
        BY <1>4, <3>1 DEF Agents
      <3>3. run' = [run EXCEPT ![r] = a] /\ run[r].st = "new"
        BY <2>1, <3>1 DEF Admit
      <3>4. QED
        BY <1>4, <3>2, <3>3
    <2>2. CASE Create(r)
      <3>1. PICK b \in Bases \cup {None} :
              b = IF run[r].plan = None THEN None ELSE run[r].plan.base
        BY <1>4, <1>5 DEF Plans
      <3>2. PICK a \in Agents : a = [run[r] EXCEPT !.st = "active", !.base = b]
        BY <1>4 DEF Agents
      <3>3. a.st = "active" /\ a.plan = run[r].plan /\ a.preflight = run[r].preflight
        BY <1>4, <3>2 DEF Agents
      <3>4. run' = [run EXCEPT ![r] = a] /\ run[r].st = "admitted"
        BY <2>2, <3>1, <3>2 DEF Create
      <3>5. QED
        BY <1>4, <3>3, <3>4
    <2>3. CASE End(r)
      <3>1. PICK a \in Agents : a = [run[r] EXCEPT !.st = "ended"]
        BY <1>4 DEF Agents
      <3>2. a.st = "ended" /\ a.plan = run[r].plan /\ a.preflight = run[r].preflight
        BY <1>4, <3>1 DEF Agents
      <3>3. run' = [run EXCEPT ![r] = a] /\ op[r].pc = "idle"
        BY <2>3, <3>1 DEF End, Idle
      <3>4. QED
        BY <1>4, <3>2, <3>3
    <2>4. QED
      BY <2>1, <2>2, <2>3
  <1>7. /\ a.preflight => run[r].preflight /\ a.plan = run[r].plan
        /\ a.st \in {"new", "admitted"} => ~a.preflight
        /\ \A u \in used : u[2] = r => a.preflight
    BY <1>4, <1>6
  <1>8. \A q \in Runs : q # r => run'[q] = run[q]
    BY <1>4, <1>6, RunFields
  <1>9. \A q \in Runs : /\ op'[q].pc # "idle" => run'[q].st = "active"
                        /\ op'[q].pc \in {"validate", "write"} => run'[q].preflight
    BY <1>1, <1>4, <1>6, <1>8
  <1>10. PlanInv'
    BY <1>1, <1>4, <1>6, <1>7, <1>9, RunMoves
  <1>11. QED
    BY <1>2, <1>3, <1>10 DEF IInv

(* The process stops before the run that consumed an approval is appended:  *)
(* the approval stays consumed and the run has not used it.                *)
LEMMA CrashStep ==
  ASSUME IInv, NEW r \in Runs, Crash(r)
  PROVE  IInv'
PROOF
  <1>1. /\ UNCHANGED <<sessions, history, seen, files, edits, frozen, dropped>>
        /\ devState' \in 0..Len(sessions) /\ UNCHANGED guardVars
        /\ op[r].pc = "validate" /\ op' = [o \in Runs |-> Idle] /\ \A u \in used : u[2] # r
    BY DEF Crash, At, storeVars, sandboxVars, IInv, StoreInv, FilesInv
  <1>2. StoreInv' /\ Grows
    BY <1>1, StoreStutter DEF IInv
  <1>3. DOMAIN op' = Runs /\ \A q \in Runs : op'[q].pc = "idle"
    BY <1>1 DEF Idle
  <1>4. \A q \in Runs : ToolInv(q)'
    BY <1>3, FreeHands
  <1>5. ToolsInv'
    BY <1>3, <1>4 DEF ToolsInv
  <1>6. PlanInv /\ run[r] \in Agents /\ run[r].plan \in plans \cup {None} /\ run[r].st = "active"
    BY <1>1, RunFacts DEF IInv
  <1>7. PICK a \in Agents : a = [run[r] EXCEPT !.preflight = FALSE]
    BY <1>6 DEF Agents
  <1>8. a.st = "active" /\ a.plan = run[r].plan /\ ~a.preflight
    BY <1>6, <1>7 DEF Agents
  <1>9. run' = [run EXCEPT ![r] = a]
    BY <1>7 DEF Crash
  <1>10. PlanInv'
    BY <1>1, <1>3, <1>6, <1>8, <1>9, RunMoves
  <1>11. QED
    BY <1>2, <1>5, <1>10 DEF IInv

(* mark_durable, and the EditBase of the run moves on with it. *)
LEMMA DurableStep ==
  ASSUME IInv, NEW r \in Runs, MarkDurable(r)
  PROVE  IInv'
PROOF
  <1>1. /\ op[r].pc = "durable" /\ UNCHANGED guardVars /\ op' = [op EXCEPT ![r] = Idle]
        /\ UNCHANGED <<history, seen, files, edits, frozen, dropped, devState>>
    BY DEF MarkDurable, At, Goto, sandboxVars
  <1>2. /\ Holds(op[r].copy, op[r].s) /\ op[r].snap \subseteq 1..edits
        /\ Committed(op[r].s, op[r].copy.ws) \ dropped \subseteq op[r].snap
    BY <1>1 DEF IInv, ToolsInv, ToolInv
  <1>3. PICK s \in Ids : s = op[r].s
    BY <1>2 DEF Holds
  <1>4. PICK c \in Copies : c = op[r].copy
    BY <1>2 DEF Holds
  <1>5. edits \in Nat /\ devState \in 0..Len(sessions)
    BY DEF IInv, StoreInv, FilesInv
  <1>6. PICK snapshot \in SUBSET Nat : snapshot = op[r].snap
    BY <1>2, <1>5
  <1>7. CASE ~MayBeDurable(s, c)
    <2>1. UNCHANGED <<sessions, run>>
      BY <1>3, <1>4, <1>7 DEF MarkDurable
    <2>2. StoreInv' /\ Grows
      BY <1>1, <1>5, <2>1, StoreStutter DEF IInv
    <2>3. QED
      BY <1>1, <2>1, <2>2, ToolEnds
  <1>8. CASE MayBeDurable(s, c)
    <2>1. /\ mark_durable(s, c, snapshot)
          /\ run' = [run EXCEPT ![r].base = Advanced(run[r].base, c, snapshot)]
      BY <1>3, <1>4, <1>6, <1>8 DEF MarkDurable
    <2>2. {history[s][i] : i \in 1..c.ws} \ dropped \subseteq snapshot
      BY <1>2, <1>3, <1>4, <1>6 DEF Committed
    <2>3. StoreInv' /\ Grows
      BY <1>1, <1>8, <2>1, <2>2, StoreMarks DEF IInv
    <2>4. Moves(r) /\ op'[r] = Idle
      BY <1>1, GotoFacts DEF IInv
    <2>5. op'[r].pc = "idle"
      BY <2>4 DEF Idle
    <2>6. ToolInv(r)'
      BY <2>5, FreeHands
    <2>7. ToolsInv'
      BY <2>3, <2>4, <2>6, ToolsMove DEF IInv
    <2>8. /\ PlanInv /\ run[r] \in Agents /\ run[r].plan \in plans \cup {None}
          /\ \A u \in used : u[2] = r => run[r].preflight
          /\ \A q \in Runs : /\ op[q].pc # "idle" => run[q].st = "active"
                             /\ op[q].pc \in {"validate", "write"} => run[q].preflight
      BY RunFacts DEF IInv
    <2>9. run[r].st = "active"
      BY <1>1, UnderWay
    <2>10. PICK b \in Bases \cup {None} : b = Advanced(run[r].base, c, snapshot)
      <3>1. run[r].base \in Bases \cup {None}
        BY <2>8 DEF Agents
      <3>2. PICK n \in Nat : n = c.ws
        BY DEF Copies
      <3>3. ASSUME NEW d \in Bases PROVE [d EXCEPT !.rev = n, !.snap = snapshot] \in Bases
        BY DEF Bases
      <3>4. Advanced(run[r].base, c, snapshot) \in Bases \cup {None}
        BY <3>1, <3>2, <3>3 DEF Advanced
      <3>5. QED
        BY <3>4
    <2>11. PICK a \in Agents : a = [run[r] EXCEPT !.base = b]
      BY <2>8 DEF Agents
    <2>12. a.st = "active" /\ a.plan = run[r].plan /\ a.preflight = run[r].preflight
      BY <2>8, <2>9, <2>11 DEF Agents
    <2>13. run' = [run EXCEPT ![r] = a]
      BY <2>1, <2>10, <2>11
    <2>14. \A q \in Runs : q # r => run'[q] = run[q]
      BY <2>8, <2>13, RunFields
    <2>15. \A q \in Runs : /\ op'[q].pc # "idle" => run'[q].st = "active"
                           /\ op'[q].pc \in {"validate", "write"} => run'[q].preflight
      BY <2>4, <2>5, <2>8, <2>14 DEF Moves
    <2>16. PlanInv'
      BY <1>1, <2>8, <2>12, <2>13, <2>15, RunMoves, ZenonT(40)
    <2>17. QED
      BY <2>3, <2>7, <2>16 DEF IInv
  <1>9. QED
    BY <1>7, <1>8

(* create_plan and confirm. *)
LEMMA PlanStep ==
  ASSUME IInv, \/ \E s \in Ids : \E risky \in BOOLEAN : create_plan(s, risky)
               \/ \E p \in plans : confirm(p)
  PROVE  IInv'
PROOF
  <1>1. /\ UNCHANGED <<sessions, history, seen, files, edits, frozen, dropped>>
        /\ devState' \in 0..Len(sessions) /\ UNCHANGED <<op, run, consumed, used>>
    BY DEF create_plan, confirm, storeVars, sandboxVars, IInv, StoreInv, FilesInv
  <1>2. StoreInv' /\ Grows
    BY <1>1, StoreStutter DEF IInv
  <1>3. ToolsInv'
    BY <1>1, <1>2, ToolsStay DEF IInv
  <1>4. /\ plans \subseteq plans' /\ plans' \subseteq Plans
        /\ approved \subseteq approved' /\ approved' \subseteq plans'
    <2>1. plans \subseteq Plans /\ approved \subseteq plans
      BY DEF IInv, PlanInv
    <2>2. ASSUME NEW s \in Ids, NEW risky \in BOOLEAN, create_plan(s, risky)
          PROVE  /\ plans \subseteq plans' /\ plans' \subseteq Plans
                 /\ approved \subseteq approved' /\ approved' \subseteq plans'
      <3>1. sessions[s] \in Records /\ s \in Nat
        BY EntryFacts DEF IInv, Ids
      <3>2. BaseOf(s) \in Bases
        BY <3>1 DEF BaseOf, Bases, Records
      <3>3. [base |-> BaseOf(s), risky |-> risky] \in Plans
        BY <3>2 DEF Plans
      <3>4. UNCHANGED approved /\ plans' = plans \union {[base |-> BaseOf(s), risky |-> risky]}
        BY <2>2 DEF create_plan
      <3>5. QED
        BY <2>1, <3>3, <3>4
    <2>3. ASSUME NEW p \in plans, confirm(p)
          PROVE  /\ plans \subseteq plans' /\ plans' \subseteq Plans
                 /\ approved \subseteq approved' /\ approved' \subseteq plans'
      BY <2>1, <2>3 DEF confirm
    <2>4. QED
      BY <2>2, <2>3
  <1>5. ASSUME NEW q \in Runs, NEW p \in plans', Spends(q, p)'
        PROVE  p \in plans /\ Spends(q, p)
    BY <1>1, <1>5 DEF IInv, PlanInv, Spends
  <1>6. \A q \in Runs : \A p \in plans' : Spends(q, p)' => p \in consumed'
    BY <1>1, <1>5 DEF IInv, PlanInv
  <1>7. \A x, y \in Runs : \A p \in plans' : Spends(x, p)' /\ Spends(y, p)' => x = y
    BY <1>5 DEF IInv, PlanInv
  <1>8. PlanInv'
    BY <1>1, <1>4, <1>6, <1>7 DEF IInv, PlanInv
  <1>9. QED
    BY <1>2, <1>3, <1>8 DEF IInv

(* The routes, the clock and the dev server. *)
LEMMA OutsideStep ==
  ASSUME IInv, NEW s \in Ids, \/ Expire(s) \/ takeover(s) \/ resolve_source(s) \/ Exit(s)
  PROVE  IInv'
PROOF
  <1>1. UNCHANGED <<guardVars, run, op>>
    BY DEF Expire, takeover, resolve_source, Exit
  <1>2. StoreInv' /\ Grows
    <2>1. CASE Exit(s)
      <3>1. /\ UNCHANGED <<sessions, history, seen, files, edits, frozen, dropped>>
            /\ devState' \in 0..Len(sessions)
        BY <2>1 DEF Exit, storeVars, IInv, StoreInv, FilesInv
      <3>2. QED
        BY <3>1, StoreStutter DEF IInv
    <2>2. CASE ~Exit(s)
      BY <2>2, StoreRoutes DEF IInv
    <2>3. QED
      BY <2>1, <2>2
  <1>3. ToolsInv'
    BY <1>1, <1>2, ToolsStay DEF IInv
  <1>4. PlanInv'
    BY <1>1 DEF guardVars, IInv, PlanInv, Spends
  <1>5. QED
    BY <1>2, <1>3, <1>4 DEF IInv

-----------------------------------------------------------------------------
(* IInv holds at the start. *)
LEMMA InitInv ==
  ASSUME Init
  PROVE  IInv
PROOF
  <1>1. PICK left \in 0..1 :
          /\ sessions = [i \in 1..left |-> NewSession({})]
          /\ history = [i \in 1..left |-> <<>>] /\ seen = [i \in 1..left |-> Unseen]
          /\ devState = left /\ frozen = {{} : i \in 1..left}
    BY DEF Init
  <1>2. PICK x \in Records : x = NewSession({})
    BY DEF NewSession, Records, Statuses
  <1>3. PICK h \in Seq(Nat) : h = <<>>
    <2>1. <<>> \in Seq(Nat)
      OBVIOUS
    <2>2. QED
      BY <2>1
  <1>4. PICK z \in Samples : z = Unseen
    BY DEF Unseen, Samples
  <1>5. /\ sessions \in Seq(Records) /\ Len(sessions) = left /\ \A i \in 1..left : sessions[i] = x
    BY <1>1, <1>2
  <1>6. /\ history \in Seq(Seq(Nat)) /\ Len(history) = left /\ \A i \in 1..left : history[i] = h
    <2>1. PICK T : T = Seq(Nat)
      OBVIOUS
    <2>2. h \in T /\ history = [i \in 1..left |-> h]
      BY <1>1, <1>3, <2>1
    <2>3. history \in Seq(T) /\ Len(history) = left /\ \A i \in 1..left : history[i] = h
      BY <2>2
    <2>4. QED
      BY <2>1, <2>3
  <1>7. /\ seen \in Seq(Samples) /\ Len(seen) = left /\ \A i \in 1..left : seen[i] = z
    BY <1>1, <1>4
  <1>8. StoreTypes
    BY <1>5, <1>6, <1>7 DEF StoreTypes
  <1>9. edits = 0 /\ files = {} /\ dropped = {} /\ MaxEdits \in Nat /\ MaxRestarts \in Nat
    BY Bounds DEF Init
  <1>10. FilesInv
    BY <1>1, <1>5, <1>9 DEF FilesInv
  <1>11. Sound(x, h, z)
    <2>1. Len(h) = 0
      BY <1>3
    <2>2. /\ x.status = "Starting" /\ x.epoch = 1 /\ x.lease = 1 /\ x.ws = 0 /\ x.ready = 0
          /\ x.durable = 0 /\ x.publish = 0 /\ x.restarts = 0
          /\ z.rev = 0 /\ z.epoch = 1 /\ z.since = 1
      BY <1>2, <1>4 DEF NewSession, Unseen
    <2>3. 1..0 = {}
      OBVIOUS
    <2>4. QED
      BY <1>9, <2>1, <2>2, <2>3 DEF Sound
  <1>12. StoreInv
    BY <1>5, <1>6, <1>7, <1>8, <1>10, <1>11 DEF StoreInv, SessionInv, Ids
  <1>13. \A r \in Runs : op[r].pc = "idle" /\ DOMAIN op = Runs
    BY DEF Init, Idle
  <1>14. ToolsInv
    BY <1>13 DEF Init, ToolsInv, ToolInv
  <1>15. NewRun \in Agents /\ ~NewRun.preflight /\ NewRun.plan = None
    BY DEF NewRun, Agents
  <1>16. run = [r \in Runs |-> NewRun] /\ plans = {} /\ approved = {} /\ consumed = {} /\ used = {}
    BY DEF Init
  <1>17. PlanInv
    BY <1>13, <1>15, <1>16 DEF PlanInv
  <1>18. QED
    BY <1>12, <1>14, <1>17 DEF IInv

(* Every step keeps IInv. *)
LEMMA NextInv ==
  ASSUME IInv, [Next]_vars
  PROVE  IInv'
PROOF
  <1>1. CASE UNCHANGED vars
    <2>1. /\ UNCHANGED <<sessions, history, seen, files, edits, frozen, dropped>>
          /\ devState' \in 0..Len(sessions) /\ UNCHANGED <<guardVars, run, op>>
      BY <1>1 DEF vars, storeVars, sandboxVars, IInv, StoreInv, FilesInv
    <2>2. StoreInv' /\ Grows
      BY <2>1, StoreStutter DEF IInv
    <2>3. ToolsInv' /\ PlanInv'
      BY <2>1, <2>2, ToolsStay DEF guardVars, IInv, PlanInv, Spends
    <2>4. QED
      BY <2>2, <2>3 DEF IInv
  <1>2. ASSUME NEW s \in Ids, \/ Expire(s) \/ takeover(s) \/ resolve_source(s) \/ Exit(s)
        PROVE  IInv'
    BY <1>2, OutsideStep
  <1>3. CASE \/ \E s \in Ids : \E risky \in BOOLEAN : create_plan(s, risky)
             \/ \E p \in plans : confirm(p)
    BY <1>3, PlanStep
  <1>4. ASSUME NEW r \in Runs, NEW plan \in plans \cup {None}, Admit(r, plan)
        PROVE  IInv'
    BY <1>4, RunStep
  <1>5. ASSUME NEW r \in Runs, Create(r) \/ End(r)
        PROVE  IInv'
    <2>1. PICK plan \in plans \cup {None} : TRUE
      OBVIOUS
    <2>2. QED
      BY <1>5, <2>1, RunStep
  <1>6. ASSUME NEW r \in Runs,
               \/ Abandon(r) \/ Crash(r)
               \/ preflight_edit_mutation(r) \/ validate_dev_mutation(r) \/ Write(r)
               \/ ReadSession(r) \/ CommitRevision(r) \/ freeze_draft_revision(r)
               \/ MarkDurable(r)
        PROVE  IInv'
    BY <1>6, AbandonStep, CrashStep, PreflightStep, ValidateStep, WriteStep, ReadStep,
       CommitStep, FreezeStep, DurableStep
  <1>7. ASSUME NEW r \in Runs,
               \/ DevStart(r) \/ DevFreeze(r) \/ DevOpen(r) \/ DevLaunch(r) \/ DevState(r)
               \/ StatusRead(r) \/ process_status(r) \/ StatusApply(r) \/ StatusRestart(r)
               \/ StopProcess(r) \/ StopSession(r) \/ Restore(r)
        PROVE  IInv'
    BY <1>7, DevStartStep, FreezeStep, DevOpenStep, DevLaunchStep, DevStateStep,
       StatusReadStep, SampleStep, ApplyStep, RestartStep, StopProcessStep,
       StopSessionStep, RestoreStep
  <1>8. QED
    BY <1>1, <1>2, <1>3, <1>4, <1>5, <1>6, <1>7 DEF Next

(* IInv is inductive: every step of the stores, the tools, the routes, the  *)
(* dev server and a crash keeps it.                                        *)
THEOREM Invariance == Spec => []IInv
PROOF
  <1>1. Init => IInv
    BY InitInv
  <1>2. IInv /\ [Next]_vars => IInv'
    BY NextInv
  <1>3. QED
    BY <1>1, <1>2, PTL DEF Spec

(* Revisions, leases and restarts stay within what the store has counted. *)
THEOREM TypeCorrect == Spec => []TypeOK
PROOF
  <1>1. IInv => TypeOK
    <2>1. SUFFICES ASSUME IInv PROVE TypeOK
      OBVIOUS
    <2>2. ASSUME NEW s \in Ids
          PROVE  /\ sessions[s].status \in Statuses
                 /\ sessions[s].ready \in 0..sessions[s].ws
                 /\ sessions[s].durable \in 0..sessions[s].ws
                 /\ sessions[s].ws = Len(history[s])
                 /\ sessions[s].restarts \in 0..MaxRestarts
                 /\ sessions[s].lease \in 1..sessions[s].epoch
      <3>1. sessions[s] \in Records /\ Sound(sessions[s], history[s], seen[s])
        BY <2>1, EntryFacts DEF IInv
      <3>2. QED
        BY <3>1 DEF Records, Sound
    <2>3. /\ devState \in 0..Len(sessions) /\ files \subseteq 1..edits /\ edits \in 0..MaxEdits
          /\ approved \subseteq plans /\ consumed \subseteq plans
      BY <2>1 DEF IInv, StoreInv, FilesInv, PlanInv
    <2>4. files \subseteq Edits
      BY <2>3, Bounds DEF Edits
    <2>5. QED
      BY <2>2, <2>3, <2>4 DEF TypeOK
  <1>2. QED
    BY <1>1, Invariance, PTL

(* The snapshot a session calls durable holds every edit committed up to    *)
(* its durable revision that no restore took out, however commits, freezes *)
(* and late marks of several runs interleave (mark_durable).                *)
THEOREM DurableTheorem == Spec => []DurableIsComplete
PROOF
  <1>1. IInv => DurableIsComplete
    BY EntryFacts DEF IInv, DurableIsComplete, Sound, Committed
  <1>2. QED
    BY <1>1, Invariance, PTL

(* What a session calls ready was there when the dev server was sampled,    *)
(* since its last restart, and a published revision was shown and is        *)
(* durable (mark_ready, begin_restart, resolve_source).                     *)
THEOREM ReadyTheorem == Spec => []ReadyWasSeen
PROOF
  <1>1. IInv => ReadyWasSeen
    BY EntryFacts DEF IInv, ReadyWasSeen, Sound
  <1>2. QED
    BY <1>1, Invariance, PTL

(* An edit plan that needs confirmation is confirmed before a file changes  *)
(* under it and serves one run, for any number of runs and plans (confirm,  *)
(* consume).                                                                *)
THEOREM ApprovalTheorem == Spec => []ApprovalOnce
PROOF
  <1>1. IInv => ApprovalOnce
    <2>1. SUFFICES ASSUME IInv PROVE ApprovalOnce
      OBVIOUS
    <2>2. /\ used \subseteq Plans \X Runs /\ consumed \subseteq approved
          /\ \A u \in used : run[u[2]].preflight /\ run[u[2]].plan = u[1] /\ u[1] # None
          /\ \A r \in Runs : run[r].plan \in plans \cup {None}
          /\ \A r \in Runs : \A p \in plans : Spends(r, p) => p \in consumed
          /\ \A r, q \in Runs : \A p \in plans : Spends(r, p) /\ Spends(q, p) => r = q
      BY <2>1 DEF IInv, PlanInv
    <2>3. ASSUME NEW u \in used, u[1].risky
          PROVE  u[2] \in Runs /\ u[1] \in plans /\ Spends(u[2], u[1])
      BY <2>2, <2>3 DEF Spends
    <2>4. ASSUME NEW u \in used, u[1].risky, NEW v \in used, v[1] = u[1] PROVE v = u
      <3>1. u[2] = v[2]
        BY <2>2, <2>3, <2>4
      <3>2. QED
        BY <2>2, <2>4, <3>1
    <2>5. QED
      BY <2>2, <2>3, <2>4 DEF ApprovalOnce
  <1>2. QED
    BY <1>1, Invariance, PTL
=============================================================================
