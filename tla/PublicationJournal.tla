------------------------- MODULE PublicationJournal -------------------------
(***************************************************************************)
(* The files under PublicationStore: the append-only journal, the          *)
(* checkpoint and, when DATABASE_URL names a PostgreSQL server, the copies *)
(* of both that PostgresControlPlaneMirror keeps.  The store's mutex is    *)
(* held over persist_commit, so one commit is in flight at a time; its     *)
(* steps are separate actions here because the process can stop, or a step *)
(* can fail, between any two of them.                                      *)
(*                                                                         *)
(* A commit is its sequence number and an id; a snapshot is its sequence   *)
(* number and the ids of the commits it reflects.  A journal line is what  *)
(* read_journal can tell of it: the record it parses to, or Absent, and    *)
(* whether it ends in a newline.  A commit that never reached the server   *)
(* and one whose answer was lost are both a failed sync.                   *)
(*                                                                         *)
(* Definitions that PublicationStore has as well carry another name here,  *)
(* so that one module can be about both.                                   *)
(*                                                                         *)
(* An operator whose name ends in an underscore and a capitalised word is  *)
(* a faulty variant of the operator so named; it tests a property.         *)
(***************************************************************************)
EXTENDS Naturals, Sequences, SequencesExt

CONSTANTS
    MaxAttempts,  \* bound on the commits attempted
    Scenarios,    \* sets of FaultKinds that can happen together; the process can always stop
    Absent

FaultKinds ==
    {"step_error",       \* a step of persist_commit returns Err
     "torn_write",       \* ... and write_all may have written a part of the record
     "checkpoint_loss",  \* the checkpoint is missing or unreadable at a start
     "migration",        \* a file-backed installation moves to PostgreSQL
     "cut_import"}       \* the process may stop during the import this causes

VARIABLES
    snapshot,  \* the store's snapshot
    next_snapshot,  \* what the commit in flight would make of it
    pc,        \* where the process is
    journal,   \* publication-commits.jsonl
    ckpt,      \* publication-checkpoint.json, Absent when missing
    mirrored,  \* DATABASE_URL is PostgreSQL
    rows,      \* runtime_control_plane_files
    attempts,  \* commits attempted so far
    faulty,    \* the faults of this behaviour
    tries,     \* history: the logs a restart may settle on
    ackedLog   \* history: the log of the last commit that returned Ok

files == <<journal, ckpt>>
journalVars ==
    <<snapshot, next_snapshot, pc, files, mirrored, rows, attempts, faulty, tries, ackedLog>>

DefaultSnapshot == [sequence |-> 0, log |-> <<>>]

Starting == {"down", "import_checkpoint", "import_journal"}

Running == {"idle", "append_commit", "sync_journal", "write_checkpoint", "sync_checkpoint"}

Snapshot == [sequence : Nat, log : Seq(1..MaxAttempts)]

CommitRecord == [sequence : Nat, id : 1..MaxAttempts]

Line == [record : CommitRecord \cup {Absent}, newline : BOOLEAN]

ASSUME JournalAssumption ==
    /\ MaxAttempts \in Nat
    /\ Scenarios \subseteq SUBSET FaultKinds
    /\ Absent \notin Snapshot \cup CommitRecord \cup Seq(Line)

-----------------------------------------------------------------------------
(* Recovery *)

apply_commit_with_key(s, commit) ==
    [sequence |-> commit.sequence, log |-> Append(s.log, commit.id)]

(* read_journal forgives an unparseable last line without a newline, no other *)
Readable(lines) ==
    \A i \in DOMAIN lines : lines[i].record = Absent => i = Len(lines) /\ ~lines[i].newline

Replay_NotNewer(s, line) ==
    IF line.record # Absent /\ line.record.sequence >= s.sequence
    THEN apply_commit_with_key(s, line.record) ELSE s

(* The snapshot after one more line; a fragment is no record *)
Replay(s, line) ==
    IF line.record # Absent /\ line.record.sequence > s.sequence
    THEN apply_commit_with_key(s, line.record) ELSE s

(* The snapshot after each line, the first one at 0 *)
ReplayOf(lines, first) ==
    LET state[i \in 0..Len(lines)] ==
          IF i = 0 THEN first ELSE Replay(state[i - 1], lines[i])
    IN  state

(* open_with_mirror, given the two files *)
Recovered(lines, checkpoint) ==
    ReplayOf(lines, IF checkpoint = Absent THEN DefaultSnapshot ELSE checkpoint)[Len(lines)]

NoRows == [other |-> FALSE, ckpt |-> Absent, journal |-> Absent]

JournalRow == IF rows.journal = Absent THEN <<>> ELSE rows.journal

(* restore_or_import replaces the local files when the table has rows *)
RestoredJournal == IF mirrored /\ rows # NoRows THEN JournalRow ELSE journal
RestoredCheckpoint == IF mirrored /\ rows # NoRows THEN rows.ckpt ELSE ckpt

-----------------------------------------------------------------------------
(* persist_commit: the commit is made, then its steps *)

begin_commit ==
    /\ pc = "idle"
    /\ attempts < MaxAttempts
    /\ attempts' = attempts + 1
    /\ next_snapshot' = apply_commit_with_key(
         snapshot, [sequence |-> snapshot.sequence + 1, id |-> attempts + 1])
    /\ tries' = tries \cup {next_snapshot'.log}
    /\ pc' = "append_commit"
    /\ UNCHANGED <<snapshot, files, mirrored, rows, ackedLog>>

(* Appending to a file whose last line has no newline extends that line *)
Appended(lines, line) ==
    IF lines # <<>> /\ ~Last(lines).newline
    THEN Append(Front(lines), [record |-> Absent, newline |-> line.newline])
    ELSE Append(lines, line)

InFlight == [sequence |-> next_snapshot.sequence, id |-> attempts]

append_commit ==
    /\ pc = "append_commit"
    /\ journal' = Appended(journal, [record |-> InFlight, newline |-> TRUE])
    /\ pc' = "sync_journal"
    /\ UNCHANGED <<snapshot, next_snapshot, ckpt, mirrored, rows, attempts, tries, ackedLog>>

(* Nothing written, all of it written but not synced, or a part of it *)
append_commit_error ==
    /\ "step_error" \in faulty
    /\ pc = "append_commit"
    /\ \/ UNCHANGED journal
       \/ journal' = Appended(journal, [record |-> InFlight, newline |-> TRUE])
       \/ /\ "torn_write" \in faulty
          /\ \E record \in {InFlight, Absent} :
               journal' = Appended(journal, [record |-> record, newline |-> FALSE])
    /\ pc' = "idle"
    /\ UNCHANGED <<snapshot, next_snapshot, ckpt, mirrored, rows, attempts, tries, ackedLog>>

sync_journal ==
    /\ pc = "sync_journal"
    /\ rows' = IF mirrored THEN [rows EXCEPT !.journal = journal] ELSE rows
    /\ pc' = "write_checkpoint"
    /\ UNCHANGED <<snapshot, next_snapshot, files, mirrored, attempts, tries, ackedLog>>

sync_journal_error ==
    /\ "step_error" \in faulty
    /\ pc = "sync_journal"
    /\ mirrored
    /\ \/ UNCHANGED rows
       \/ rows' = [rows EXCEPT !.journal = journal]
    /\ pc' = "idle"
    /\ UNCHANGED <<snapshot, next_snapshot, files, mirrored, attempts, tries, ackedLog>>

(* A temporary file renamed over the old checkpoint *)
write_checkpoint ==
    /\ pc = "write_checkpoint"
    /\ ckpt' = next_snapshot
    /\ pc' = "sync_checkpoint"
    /\ UNCHANGED <<snapshot, next_snapshot, journal, mirrored, rows, attempts, tries, ackedLog>>

(* Before the rename, or after it when the directory sync fails *)
write_checkpoint_error ==
    /\ "step_error" \in faulty
    /\ pc = "write_checkpoint"
    /\ ckpt' \in {ckpt, next_snapshot}
    /\ pc' = "idle"
    /\ UNCHANGED <<snapshot, next_snapshot, journal, mirrored, rows, attempts, tries, ackedLog>>

sync_checkpoint_Skipped ==
    /\ pc = "sync_checkpoint"
    /\ snapshot' = next_snapshot
    /\ tries' = {next_snapshot.log}
    /\ ackedLog' = next_snapshot.log
    /\ pc' = "idle"
    /\ UNCHANGED <<next_snapshot, files, mirrored, rows, attempts>>

(* The last step: memory takes the new snapshot and the caller is told Ok *)
sync_checkpoint ==
    /\ pc = "sync_checkpoint"
    /\ rows' = IF mirrored THEN [rows EXCEPT !.ckpt = ckpt] ELSE rows
    /\ snapshot' = next_snapshot
    /\ tries' = {next_snapshot.log}
    /\ ackedLog' = next_snapshot.log
    /\ pc' = "idle"
    /\ UNCHANGED <<next_snapshot, files, mirrored, attempts>>

sync_checkpoint_error ==
    /\ "step_error" \in faulty
    /\ pc = "sync_checkpoint"
    /\ mirrored
    /\ \/ UNCHANGED rows
       \/ rows' = [rows EXCEPT !.ckpt = ckpt]
    /\ pc' = "idle"
    /\ UNCHANGED <<snapshot, next_snapshot, files, mirrored, attempts, tries, ackedLog>>

-----------------------------------------------------------------------------
(* Stop and start *)

process_stop ==
    /\ pc \in Running \/ (pc # "down" /\ "cut_import" \in faulty)
    /\ pc' = "down"
    /\ UNCHANGED <<snapshot, next_snapshot, files, mirrored, rows, attempts, tries, ackedLog>>

LoseCheckpoint ==
    /\ "checkpoint_loss" \in faulty
    /\ pc = "down"
    /\ ckpt' = Absent
    /\ UNCHANGED <<snapshot, next_snapshot, pc, journal, mirrored, rows, attempts, tries, ackedLog>>

(* The operator points DATABASE_URL at an empty PostgreSQL database *)
Migrate ==
    /\ "migration" \in faulty
    /\ pc = "down"
    /\ ~mirrored
    /\ mirrored' = TRUE
    /\ UNCHANGED <<snapshot, next_snapshot, pc, files, rows, attempts, tries, ackedLog>>

(* An empty table: list_control_plane_files in path order, one sync each.  *)
(* Files of other components sort before publication/.                     *)
import_other ==
    /\ pc = "down"
    /\ mirrored
    /\ rows = NoRows
    /\ rows' = [rows EXCEPT !.other = TRUE]
    /\ pc' = "import_checkpoint"
    /\ UNCHANGED <<snapshot, next_snapshot, files, mirrored, attempts, tries, ackedLog>>

import_checkpoint ==
    /\ pc = "import_checkpoint"
    /\ rows' = [rows EXCEPT !.ckpt = ckpt]
    /\ pc' = "import_journal"
    /\ UNCHANGED <<snapshot, next_snapshot, files, mirrored, attempts, tries, ackedLog>>

Settle(lines, checkpoint) ==
    /\ Readable(lines)
    /\ snapshot' = Recovered(lines, checkpoint)
    /\ tries' = {snapshot'.log}
    /\ pc' = "idle"
    /\ UNCHANGED <<next_snapshot, mirrored, attempts, ackedLog>>

import_journal ==
    /\ pc = "import_journal"
    /\ rows' = [rows EXCEPT !.journal = IF journal = <<>> THEN Absent ELSE journal]
    /\ Settle(journal, ckpt)
    /\ UNCHANGED files

(* restore_or_import with rows in the table, then open_with_mirror *)
open_with_mirror ==
    /\ pc = "down"
    /\ mirrored => rows # NoRows
    /\ journal' = RestoredJournal
    /\ ckpt' = RestoredCheckpoint
    /\ Settle(RestoredJournal, RestoredCheckpoint)
    /\ UNCHANGED rows

JournalInit ==
    /\ snapshot = DefaultSnapshot
    /\ next_snapshot = DefaultSnapshot
    /\ pc = "down"
    /\ journal = <<>>
    /\ ckpt = Absent
    /\ mirrored \in BOOLEAN
    /\ rows = NoRows
    /\ attempts = 0
    /\ faulty \in Scenarios
    /\ tries = {<<>>}
    /\ ackedLog = <<>>

JournalStep ==
    \/ begin_commit
    \/ append_commit
    \/ append_commit_error
    \/ sync_journal
    \/ sync_journal_error
    \/ write_checkpoint
    \/ write_checkpoint_error
    \/ sync_checkpoint
    \/ sync_checkpoint_error
    \/ process_stop
    \/ LoseCheckpoint
    \/ Migrate
    \/ import_other
    \/ import_checkpoint
    \/ import_journal
    \/ open_with_mirror

JournalNext == JournalStep /\ UNCHANGED faulty

JournalSpec == JournalInit /\ [][JournalNext]_journalVars

-----------------------------------------------------------------------------
(* Every variable keeps its shape, and a line without a newline is the     *)
(* last one.                                                               *)
JournalTypeOK ==
    /\ snapshot \in Snapshot
    /\ next_snapshot \in Snapshot
    /\ pc \in Starting \cup Running
    /\ journal \in Seq(Line)
    /\ \A i \in 1..(Len(journal) - 1) : journal[i].newline
    /\ ckpt \in Snapshot \cup {Absent}
    /\ mirrored \in BOOLEAN
    /\ rows \in [other : BOOLEAN, ckpt : Snapshot \cup {Absent}, journal : Seq(Line) \cup {Absent}]
    /\ attempts \in 0..MaxAttempts

Torn == "torn_write" \in faulty

(* Faults that nothing acknowledged survives when they strike together: a  *)
(* checkpoint lost after a step has failed, and an import cut off while    *)
(* the files it copies are the only ones.                                  *)
Survivable(faults) ==
    /\ ~({"step_error", "checkpoint_loss"} \subseteq faults)
    /\ ~({"migration", "cut_import"} \subseteq faults)

(* A store that is open holds every commit that persist_commit ever        *)
(* returned Ok for, in order, whatever failed or stopped in between; and   *)
(* it can be opened: as long as no write is torn, no sequence of failed or *)
(* interrupted appends leaves a journal that read_journal rejects.  (A     *)
(* torn record that a later append extends is rejected.)                   *)
AckedKept ==
    /\ pc \in Running => IsPrefix(ackedLog, snapshot.log)
    /\ ~Torn => Readable(RestoredJournal)

(* Torn writes are left out of the mapping: a commit that a restart        *)
(* recovered although it had failed can be torn away by a later append     *)
(* before any Ok commit.                                                   *)
DS == INSTANCE DurableSnapshot
        WITH CommitIds <- 1..MaxAttempts,
             value <- IF Torn THEN <<>> ELSE snapshot.log,
             tries <- IF Torn THEN {<<>>} ELSE tries

(* Journal, checkpoint and mirror together behave as one durable snapshot: *)
(* a restart settles on the last Ok commit or on one attempted after it.   *)
Durable == DS!Spec
=============================================================================
