---------------------------- MODULE ProjectInit ----------------------------
(***************************************************************************)
(* The project.init tool of one project: the template is written into the  *)
(* sandbox workspace under a journal (project/workspace_transaction.rs) by *)
(* the steps of ProjectInitializer::initialize, and the project's state is *)
(* then recorded in the runtime store.  A call that finds a journal, and   *)
(* the start of the process, first roll the pending transaction back       *)
(* (status Prepared) or complete it (status WorkspaceCommitted).           *)
(*                                                                         *)
(* Every workspace call crosses a channel and can go wrong once in a       *)
(* while: it is then done wholly, in part or not at all, and the caller    *)
(* gets an error or the process dies.  A directory is done in part file by *)
(* file; a single file may be left torn.  An operator whose name ends in   *)
(* _Something is a faulty variant of the operator before the underscore.   *)
(***************************************************************************)
EXTENDS Integers, FiniteSets

CONSTANTS
  Templates,   \* ids of the built-in templates
  None,        \* no file, no record, no journal
  Torn,        \* content of a file whose write was cut short
  Shared,      \* a path every template has and replaces on init
  Kept,        \* a path every template has and preserves if present
  MaxFaults,   \* bound on calls that go wrong
  MaxEdits     \* bound on edits of the kept file

(* The journal file when it can be read. *)
Journals == [status : {"Prepared", "WorkspaceCommitted"}, t : Templates,
             app : BOOLEAN, style : BOOLEAN, hint : BOOLEAN]

ASSUME ProjectInitAssumption ==
  /\ None \notin Journals /\ Torn \notin Journals
  /\ None \notin Templates \cup Nat /\ Torn \notin Templates /\ None # Torn
  /\ Shared # Kept /\ Shared \notin Templates /\ Kept \notin Templates
  /\ MaxFaults \in Nat /\ MaxEdits \in Nat

VARIABLES
  app,      \* the app root: content of each path, None when absent
  style,    \* state/style-contract.json: the template it was rendered for
  hint,     \* state/project.json: the template it names
  store,    \* the project runtime state in memory
  log,      \* the project runtime state in the store's log
  journal,  \* the transaction's journal file
  backup,   \* the transaction's backup directory
  tx,       \* the transaction the process works on, in memory
  pc,       \* the call it makes next
  faults,   \* calls that went wrong
  edits,    \* edits made
  safe,     \* the last edit made while no transaction was pending
  scars     \* faults the protocol has no answer to, once they happened:
            \* "littered": removal of the transaction directory stopped after
            \* the journal and left a backup; "thinned": the removal that ends
            \* a rollback stopped before the journal, with a part of the backed
            \* up app root gone; "retracted": the commit mark was written and
            \* reported as failed; "unrecorded": the store's append failed and
            \* the process went on with the state it had already put in memory

files == <<app, style, hint>>

vars == <<app, style, hint, store, log, journal, backup, tx, pc, faults,
          edits, safe, scars>>

(* A template's own files are one path, named after it. *)
Paths == Templates \cup {Shared, Kept}

Empty == [p \in Paths |-> None]

NoBackup == [app |-> Empty, style |-> None, hint |-> None]

NoTx == [t |-> None, app |-> FALSE, style |-> FALSE, hint |-> FALSE,
         then |-> "idle"]

Init ==
  /\ app = Empty /\ style = None /\ hint = None
  /\ store = None /\ log = None
  /\ journal = None /\ backup = NoBackup /\ tx = NoTx
  /\ pc = "idle" /\ faults = 0 /\ edits = 0 /\ safe = 0 /\ scars = {}

-----------------------------------------------------------------------------
(* One call. *)

(* The call goes well and the next one is due, or it goes wrong: the caller *)
(* handles the error, or the process is gone.                               *)
Call(here, next, error) ==
  /\ pc = here
  /\ \/ pc' = next /\ UNCHANGED faults
     \/ /\ faults < MaxFaults /\ faults' = faults + 1
        /\ pc' \in {error, "down"}

Well == faults' = faults

(* What write_string leaves in a file. *)
Wrote(old, new) == IF Well THEN {new} ELSE {old, Torn, new}

(* What a call that works through a directory leaves in it. *)
Worked(old, new) ==
  IF Well THEN {new}
  ELSE {[p \in Paths |-> IF p \in done THEN new[p] ELSE old[p]] :
          done \in SUBSET Paths}

(* copy_dir_all copies over what is there and removes nothing. *)
Copied(from, to) ==
  [p \in Paths |-> IF from[p] = None THEN to[p] ELSE from[p]]

-----------------------------------------------------------------------------
(* recover_pending, rollback and complete_committed_recovery. *)

(* The first call of the recovery of what is pending, as part of what is   *)
(* to follow it: begin goes on with its snapshots, the start of the        *)
(* process with nothing.  An unreadable journal is an error.               *)
RecoverPending(then, t) ==
  \/ journal = None /\ pc' = then /\ tx' = [NoTx EXCEPT !.t = t]
  \/ journal = Torn /\ pc' = "idle" /\ tx' = NoTx
  \/ /\ journal \notin {None, Torn}
     /\ tx' = [t |-> t, app |-> journal.app, style |-> journal.style,
               hint |-> journal.hint, then |-> then]
     /\ pc' = IF journal.status = "Prepared" THEN "undo_app"
              ELSE "redo_record"

(* rollback: the app root is removed ... *)
UndoRemoveApp ==
  /\ Call("undo_app", "undo_copy", "idle")
  /\ app' \in Worked(app, Empty)
  /\ UNCHANGED <<style, hint, store, log, journal, backup, tx, edits, safe, scars>>

(* ... and copied back if it existed: what there is of the backup.  One    *)
(* that has no file left is an error if its directory is gone too.         *)
UndoCopyApp ==
  /\ \/ /\ Call("undo_copy", "undo_style", "idle")
        /\ app' \in Worked(app, IF tx.app THEN Copied(backup.app, app) ELSE app)
     \/ /\ pc = "undo_copy" /\ tx.app /\ backup.app = Empty
        /\ pc' = "idle" /\ UNCHANGED <<app, faults>>
  /\ UNCHANGED <<style, hint, store, log, journal, backup, tx, edits, safe, scars>>

(* restore_file: what may be in the target afterwards. *)
Restored(old, saved, existed) ==
  IF existed THEN Wrote(old, saved) \cup (IF Well THEN {} ELSE {None})
  ELSE Wrote(old, None) \ {Torn}

UndoStyle ==
  /\ \/ /\ tx.style => backup.style # None
        /\ Call("undo_style", "undo_hint", "idle")
        /\ style' \in Restored(style, backup.style, tx.style)
     \/ /\ pc = "undo_style" /\ tx.style /\ backup.style = None
        /\ pc' = "idle" /\ style' = None /\ UNCHANGED faults
  /\ UNCHANGED <<app, hint, store, log, journal, backup, tx, edits, safe, scars>>

UndoHint ==
  /\ \/ /\ tx.hint => backup.hint # None
        /\ Call("undo_hint", "undo_forget", "idle")
        /\ hint' \in Restored(hint, backup.hint, tx.hint)
     \/ /\ pc = "undo_hint" /\ tx.hint /\ backup.hint = None
        /\ pc' = "idle" /\ hint' = None /\ UNCHANGED faults
  /\ UNCHANGED <<app, style, store, log, journal, backup, tx, edits, safe, scars>>

(* The next rollback will find less of the app root than there was.        *)
Thinned ==
  /\ journal' \notin {None, Torn} /\ journal'.status = "Prepared"
  /\ backup'.app # backup.app

(* complete: the transaction directory, journal and backup, is removed,    *)
(* file by file and in any order.                                          *)
RemoveTransaction(here, next) ==
  /\ Call(here, next, "idle")
  /\ \/ journal' = None /\ backup' = NoBackup
     \/ /\ ~Well /\ journal' \in {journal, None}
        /\ \E left \in Worked(backup.app, Empty) :
             backup' \in [app : {left}, style : {backup.style, None}, hint : {backup.hint, None}]
  /\ scars' = scars \cup (IF journal' = None /\ backup' # NoBackup THEN {"littered"} ELSE {})
                    \cup (IF Thinned THEN {"thinned"} ELSE {})
  /\ UNCHANGED <<files, store, log, tx, edits, safe>>

UndoForget == RemoveTransaction("undo_forget", tx.then)

(* upsert_project_runtime_state: memory first, then the log.               *)
Upsert_Cached(t) ==
  /\ store' = t
  /\ UNCHANGED <<log, scars>>

Upsert(t) ==
  /\ store' = t
  /\ log' \in (IF Well THEN {t} ELSE {log, t})
  /\ scars' = IF pc' # "down" /\ log' # t THEN scars \cup {"unrecorded"}
              ELSE scars

(* complete_committed_recovery: a state that already matches is not        *)
(* written again.                                                          *)
RedoRecord ==
  /\ \/ /\ Call("redo_record", "redo_hint", "idle")
        /\ store # journal.t
        /\ Upsert(journal.t)
     \/ /\ pc = "redo_record" /\ store = journal.t
        /\ pc' = "redo_hint" /\ UNCHANGED <<store, log, scars, faults>>
  /\ UNCHANGED <<files, journal, backup, tx, edits, safe>>

RedoHint ==
  /\ Call("redo_hint", "redo_forget", "idle")
  /\ hint' \in Wrote(hint, journal.t)
  /\ UNCHANGED <<app, style, store, log, journal, backup, tx, edits, safe, scars>>

RedoForget == RemoveTransaction("redo_forget", tx.then)

-----------------------------------------------------------------------------
(* begin. *)

(* The agent calls project.init for template t. *)
Begin(t) ==
  /\ pc = "idle"
  /\ RecoverPending("snap_app", t)
  /\ UNCHANGED <<files, store, log, journal, backup, faults, edits, safe, scars>>

SnapApp ==
  /\ Call("snap_app", "snap_style", "idle")
  /\ tx' = [tx EXCEPT !.app = app # Empty]
  /\ \E saved \in Worked(backup.app, Copied(app, backup.app)) :
       backup' = [backup EXCEPT !.app = saved]
  /\ UNCHANGED <<files, store, log, journal, edits, safe, scars>>

(* snapshot_file *)
Saved(file, copy) == IF file = None THEN {copy} ELSE Wrote(copy, file)

SnapStyle ==
  /\ Call("snap_style", "snap_hint", "idle")
  /\ tx' = [tx EXCEPT !.style = style # None]
  /\ \E saved \in Saved(style, backup.style) :
       backup' = [backup EXCEPT !.style = saved]
  /\ UNCHANGED <<files, store, log, journal, edits, safe, scars>>

SnapHint ==
  /\ Call("snap_hint", "prepare", "idle")
  /\ tx' = [tx EXCEPT !.hint = hint # None]
  /\ \E saved \in Saved(hint, backup.hint) :
       backup' = [backup EXCEPT !.hint = saved]
  /\ UNCHANGED <<files, store, log, journal, edits, safe, scars>>

Journal(status) ==
  [status |-> status, t |-> tx.t, app |-> tx.app, style |-> tx.style,
   hint |-> tx.hint]

Prepare ==
  /\ Call("prepare", "clean", "idle")
  /\ journal' \in Wrote(journal, Journal("Prepared"))
  /\ tx' = [tx EXCEPT !.then = "idle"]
  /\ UNCHANGED <<files, store, log, backup, edits, safe, scars>>

-----------------------------------------------------------------------------
(* initialize. *)

(* The template state/project.json names, when it can be read. *)
OldTemplates == {hint} \cap Templates

(* cleanup_conflicting_template_files *)
Clean_Skipped ==
  /\ Call("clean", "write", "undo_app")
  /\ UNCHANGED <<files, store, log, journal, backup, tx, edits, safe, scars>>

Clean ==
  /\ Call("clean", "write", "undo_app")
  /\ app' \in Worked(app, [p \in Paths |->
                             IF p \in OldTemplates \ {tx.t} THEN None
                             ELSE app[p]])
  /\ UNCHANGED <<style, hint, store, log, journal, backup, tx, edits, safe, scars>>

(* write_project_template_files: one write mode per path. *)
WithTemplate(t) ==
  [p \in Paths |-> IF p \in {t, Shared} \/ (p = Kept /\ app[p] = None) THEN t
                   ELSE app[p]]

WriteTemplate ==
  /\ Call("write", "tokens", "undo_app")
  /\ app' \in Worked(app, WithTemplate(tx.t))
  /\ UNCHANGED <<style, hint, store, log, journal, backup, tx, edits, safe, scars>>

(* apply_design_profile_initial_tokens: a profile with an unusable token   *)
(* is an error of its own, whatever the channel does.                      *)
ApplyTokens ==
  /\ pc = "tokens" /\ pc' \in {"style", "undo_app"}
  /\ UNCHANGED <<files, store, log, journal, backup, tx, faults, edits, safe, scars>>

WriteStyle ==
  /\ Call("style", "commit", "undo_app")
  /\ style' \in Wrote(style, tx.t)
  /\ UNCHANGED <<app, hint, store, log, journal, backup, tx, edits, safe, scars>>

(* mark_workspace_committed: if it fails the workspace is rolled back.     *)
MarkCommitted ==
  /\ Call("commit", "record", "undo_app")
  /\ journal' \in Wrote(journal, Journal("WorkspaceCommitted"))
  /\ scars' = IF pc' = "undo_app" /\ journal' = Journal("WorkspaceCommitted")
              THEN scars \cup {"retracted"} ELSE scars
  /\ UNCHANGED <<files, store, log, backup, tx, edits, safe>>

Record ==
  /\ Call("record", "hint", "idle")
  /\ Upsert(tx.t)
  /\ UNCHANGED <<files, journal, backup, tx, edits, safe>>

WriteHint ==
  /\ Call("hint", "forget", "idle")
  /\ hint' \in Wrote(hint, tx.t)
  /\ UNCHANGED <<app, style, store, log, journal, backup, tx, edits, safe, scars>>

Complete == RemoveTransaction("forget", "idle")

-----------------------------------------------------------------------------
(* Around it. *)

(* The process is started again: the store is read from its log, and the   *)
(* transaction of a run that is not over is recovered.  A failure there    *)
(* ends that run and keeps the journal.                                    *)
Startup ==
  /\ pc = "down"
  /\ store' = log
  /\ \/ RecoverPending("idle", None)
     \/ pc' = "idle" /\ tx' = NoTx
  /\ UNCHANGED <<files, log, journal, backup, faults, edits, safe, scars>>

(* The process stops between two calls of the agent. *)
Stop ==
  /\ pc = "idle"
  /\ pc' = "down" /\ tx' = NoTx
  /\ UNCHANGED <<files, store, log, journal, backup, faults, edits, safe, scars>>

(* The agent edits a file of the project. *)
Edit ==
  /\ pc = "idle" /\ app[Shared] # None /\ edits < MaxEdits
  /\ edits' = edits + 1
  /\ app' = [app EXCEPT ![Kept] = edits']
  /\ safe' = IF journal = None THEN edits' ELSE safe
  /\ UNCHANGED <<style, hint, store, log, journal, backup, tx, pc, faults, scars>>

Next ==
  \/ \E t \in Templates : Begin(t)
  \/ SnapApp \/ SnapStyle \/ SnapHint \/ Prepare
  \/ Clean \/ WriteTemplate \/ ApplyTokens \/ WriteStyle \/ MarkCommitted
  \/ Record \/ WriteHint \/ Complete
  \/ UndoRemoveApp \/ UndoCopyApp \/ UndoStyle \/ UndoHint \/ UndoForget
  \/ RedoRecord \/ RedoHint \/ RedoForget
  \/ Startup \/ Stop \/ Edit

Spec == Init /\ [][Next]_vars

-----------------------------------------------------------------------------
(* Properties. *)

(* The workspace, the journal, the backup and the project state in memory  *)
(* and in the log keep their types; the backup holds only what was in the  *)
(* workspace.                                                              *)
TypeOK ==
  /\ app \in [Paths -> Templates \cup {None} \cup 1..MaxEdits]
  /\ {style, hint} \subseteq Templates \cup {None, Torn}
  /\ {store, log} \subseteq Templates \cup {None}
  /\ journal \in {None, Torn} \cup Journals
  /\ backup.app \in [Paths -> Templates \cup {None} \cup 1..MaxEdits]
  /\ faults \in 0..MaxFaults /\ edits \in 0..MaxEdits /\ safe \in 0..edits
  /\ scars \subseteq {"littered", "thinned", "retracted", "unrecorded"}

(* Nothing is being done and nothing is pending. *)
Quiet == pc = "idle" /\ journal = None

(* The journal was never removed without the backup, and the process was   *)
(* never told of a failure of the commit mark that was in fact written.    *)
Clear == scars \cap {"littered", "retracted"} = {}

(* A path has this content, or was lost with a part of a backup.           *)
Intact(p, content) == app[p] = content \/ ("thinned" \in scars /\ app[p] = None)

(* Once no transaction is pending the workspace is that of one template,   *)
(* whatever call of whatever step went wrong on the way and however the    *)
(* transaction was undone or completed: its files, the style contract and  *)
(* state/project.json name the same template, no file of another one is    *)
(* left, and an edit the agent made while no transaction was pending has   *)
(* survived.  A removal of the transaction directory that stops under way  *)
(* is the exception.  If the journal is gone, the next snapshot is copied  *)
(* over what is left of the backup, and nothing is claimed; if it is still *)
(* there, the next rollback restores what is left, and files may be absent *)
(* but none is another template's.                                         *)
WholeProject ==
  Quiet /\ Clear =>
    /\ style = hint /\ Intact(Shared, hint)
    /\ \A t \in Templates : Intact(t, IF t = hint THEN t ELSE None)
    /\ safe > 0 => app[Kept] \in safe..edits \/ "thinned" \in scars

(* Once no transaction is pending the runtime store, the authority on the  *)
(* project's state, names the template that state/project.json names and   *)
(* that is in the workspace, or in what a thinned backup left of it, also  *)
(* after a restart.  (A failed append is the exception: recovery finds the *)
(* state in memory and does not write it again.)                           *)
StoreAgrees ==
  Quiet /\ scars \subseteq {"thinned"} =>
    Intact(Shared, store) /\ store = hint /\ store = log
=============================================================================
