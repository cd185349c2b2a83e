---------------------------- MODULE ProjectProofs ----------------------------
(***************************************************************************)
(* Proofs about the two protocols that guard a project's workspace.  They  *)
(* share no variable, and each theorem is about one specification:         *)
(*                                                                         *)
(*   ProjectInit    the workspace and the store are those of one template  *)
(*                  whenever no transaction is pending, for any set of     *)
(*                  templates and any number of faults and edits;          *)
(*   RunSuccession  two open runs of one workspace are one line of         *)
(*                  succession, and a partial run is continued at most     *)
(*                  once, for any number of runs, callers and crashes.     *)
(***************************************************************************)
EXTENDS ProjectInit, RunSuccession, FiniteSetTheorems, TLAPS

(***************************************************************************)
(* The initialisation of a project's workspace                             *)
(***************************************************************************)

Undo == {"undo_app", "undo_copy", "undo_style", "undo_hint", "undo_forget"}
Redo == {"redo_record", "redo_hint", "redo_forget"}
Snap == {"snap_app", "snap_style", "snap_hint", "prepare"}
Build == {"clean", "write", "tokens", "style", "commit"}
Finish == {"record", "hint", "forget"}
Pcs == {"idle", "down"} \cup Undo \cup Redo \cup Snap \cup Build \cup Finish

Contents == Templates \cup {None} \cup 1..MaxEdits
Files == [Paths -> Contents]
Names == Templates \cup {None, Torn}
Backups == [app : Files, style : Names, hint : Names]
Txs == [t : Templates \cup {None}, app : BOOLEAN, style : BOOLEAN,
        hint : BOOLEAN, then : {"idle", "snap_app"}]

Types ==
  /\ app \in Files /\ style \in Names /\ hint \in Names
  /\ store \in Templates \cup {None} /\ log \in Templates \cup {None}
  /\ journal \in {None, Torn} \cup Journals
  /\ backup \in Backups /\ tx \in Txs /\ pc \in Pcs
  /\ faults \in 0..MaxFaults /\ edits \in 0..MaxEdits /\ safe \in 0..edits
  /\ scars \subseteq {"littered", "thinned", "retracted", "unrecorded"}

(* The journal and the transaction in memory agree, as far as the call     *)
(* that comes next relies on them.                                         *)
Same(status) ==
  /\ journal \in Journals /\ journal.status = status
  /\ journal.app = tx.app /\ journal.style = tx.style /\ journal.hint = tx.hint

PcInv ==
  /\ tx.then = "snap_app" => tx.t \in Templates
  /\ pc \in Snap => journal = None /\ tx.t \in Templates
  /\ pc \in Build => Same("Prepared") /\ journal.t = tx.t /\ tx.then = "idle"
  /\ pc \in Finish => Same("WorkspaceCommitted") /\ journal.t = tx.t
  /\ pc \in Redo => Same("WorkspaceCommitted")
  /\ pc \in Undo => \/ journal = Torn \/ Same("Prepared")
                    \/ Same("WorkspaceCommitted") /\ "retracted" \in scars

(* A removal that ends a rollback has stopped before the journal with a    *)
(* part of the backed up app root gone.                                    *)
Thin == "thinned" \in scars

(* The app root a is that of template h alone, or empty when h is None,    *)
(* and has the last edit that was made while nothing was pending; once a   *)
(* backup was thinned, a file may be absent but none is a wrong one.       *)
Whole(a, h) ==
  /\ h \in Templates \cup {None} /\ a \in Files
  /\ a[Shared] = h \/ (Thin /\ a[Shared] = None)
  /\ \A t \in Templates : a[t] = (IF t = h THEN t ELSE None) \/ (Thin /\ a[t] = None)
  /\ h = None => a = Empty
  /\ safe > 0 => a[Kept] \in safe..edits \/ Thin

(* What is left of a backup of app root a: all of it, unless it was        *)
(* thinned.                                                                *)
Remnant(b, a) == b = a \/ (Thin /\ \A p \in Paths : b[p] \in {a[p], None})

(* The backup, where it is still there, is that of workspace (a, h), and   *)
(* the flags f say what of it existed.                                     *)
Saves(a, h, f) ==
  /\ ~f.app => a = Empty
  /\ f.style = (h # None) /\ f.hint = (h # None)
  /\ f.app => Remnant(backup.app, a)
  /\ f.style => backup.style \in {h, None}
  /\ f.hint => backup.hint \in {h, None}

(* No transaction is pending. *)
Settled ==
  /\ Whole(app, hint) /\ style = hint
  /\ \A p \in Paths : backup.app[p] # None => app[p] # None
  /\ scars \subseteq {"thinned"} => log = hint

(* What begin has saved so far. *)
SnapInv ==
  /\ pc \in {"snap_style", "snap_hint", "prepare"} =>
        tx.app = (app # Empty) /\ backup.app = app
  /\ pc \in {"snap_hint", "prepare"} =>
        tx.style = (style # None) /\ (style # None => backup.style = style)
  /\ pc = "prepare" =>
        tx.hint = (hint # None) /\ (hint # None => backup.hint = hint)

(* How far initialize has got from workspace (a, h) to template t. *)
BuildInv(a, h, t) ==
  /\ pc \in Build => hint = h
  /\ pc = "clean" => app = a
  /\ pc = "write" => app = [p \in Paths |-> IF p = h /\ h \in Templates \ {t} THEN None ELSE a[p]]
  /\ pc \in {"tokens", "style", "commit"} => Whole(app, t)
  /\ pc = "commit" => style = t

(* How far rollback has got back to workspace (a, h). *)
UndoInv(a, h) ==
  /\ pc = "undo_copy" => app = Empty
  /\ pc \in {"undo_style", "undo_hint", "undo_forget"} => app = a
  /\ pc \in {"undo_hint", "undo_forget"} => style = h
  /\ pc = "undo_forget" => hint = h

(* A transaction that will be rolled back if the process stops now, or is  *)
(* being rolled back.                                                      *)
Prepared == pc \in Undo \/ (journal \in Journals /\ journal.status = "Prepared")

Flags == IF pc \in Undo THEN tx ELSE journal

LeadsBack(a, h) ==
  /\ Whole(a, h) /\ Saves(a, h, Flags)
  /\ scars \subseteq {"thinned"} => log = h
  /\ BuildInv(a, h, tx.t) /\ UndoInv(a, h)

Reversible == \E a \in Files, h \in Templates \cup {None} : LeadsBack(a, h)

(* A transaction that will be completed. *)
Completes(t) ==
  /\ Whole(app, t) /\ style = t
  /\ pc \in {"hint", "forget", "redo_hint", "redo_forget"} => store = t
  /\ pc \in {"forget", "redo_forget"} => hint = t

Committed == journal \in Journals /\ journal.status = "WorkspaceCommitted"

(* Under no scar the log is what a restart would find. *)
Logged == "unrecorded" \notin scars /\ pc # "down" => store = log

WorkInv ==
  /\ journal = None => Settled /\ SnapInv
  /\ Prepared => Reversible
  /\ Committed => Completes(journal.t)

IInv == Types /\ PcInv /\ Logged /\ (Clear => WorkInv)

-----------------------------------------------------------------------------
(* Helpers of the model. *)

(* The empty directory, backup and transaction. *)
LEMMA EmptyFacts ==
  /\ Empty \in Files /\ \A p \in Paths : Empty[p] = None
  /\ Shared \in Paths /\ Kept \in Paths /\ Templates \subseteq Paths
  /\ NoBackup \in Backups /\ NoBackup.app = Empty /\ NoTx \in Txs /\ NoTx.then = "idle"
PROOF
  <1>1. Empty \in Files /\ \A p \in Paths : Empty[p] = None
    BY DEF Empty, Files, Contents
  <1>2. Shared \in Paths /\ Kept \in Paths /\ Templates \subseteq Paths
    BY DEF Paths
  <1>3. NoBackup \in Backups /\ NoBackup.app = Empty
    BY <1>1 DEF NoBackup, Backups, Names
  <1>4. NoTx \in Txs /\ NoTx.then = "idle"
    BY DEF NoTx, Txs
  <1>5. QED
    BY <1>1, <1>2, <1>3, <1>4

(* A directory is a function from paths. *)
LEMMA SameFiles ==
  ASSUME NEW a \in Files, NEW b \in Files, \A p \in Paths : a[p] = b[p]
  PROVE  a = b
PROOF
  BY DEF Files

(* Whatever a call leaves of a directory, each file is an old or a new one. *)
LEMMA WorkedFacts ==
  ASSUME NEW old \in Files, NEW new \in Files, NEW left \in Worked(old, new)
  PROVE  /\ left \in Files
         /\ \A p \in Paths : left[p] = old[p] \/ left[p] = new[p]
         /\ Well => left = new
PROOF
  <1>1. CASE Well
    BY <1>1 DEF Worked
  <1>2. CASE ~Well
    <2>1. PICK done \in SUBSET Paths :
            left = [p \in Paths |-> IF p \in done THEN new[p] ELSE old[p]]
      BY <1>2 DEF Worked
    <2>2. QED
      BY <1>2, <2>1 DEF Files
  <1>3. QED
    BY <1>1, <1>2

(* copy_dir_all *)
LEMMA CopiedFacts ==
  ASSUME NEW from \in Files, NEW to \in Files
  PROVE  /\ Copied(from, to) \in Files
         /\ \A p \in Paths : Copied(from, to)[p] = IF from[p] = None THEN to[p] ELSE from[p]
         /\ (\A p \in Paths : to[p] # None => from[p] # None) => Copied(from, to) = from
         /\ to = Empty => Copied(from, to) = from
PROOF
  <1>1. /\ Copied(from, to) \in Files
        /\ \A p \in Paths : Copied(from, to)[p] = IF from[p] = None THEN to[p] ELSE from[p]
    BY DEF Copied, Files
  <1>2. ASSUME \A p \in Paths : to[p] # None => from[p] # None
        PROVE  Copied(from, to) = from
    BY <1>1, <1>2, SameFiles
  <1>3. to = Empty => \A p \in Paths : to[p] # None => from[p] # None
    BY EmptyFacts
  <1>4. QED
    BY <1>1, <1>2, <1>3

(* write_project_template_files *)
LEMMA TemplateFacts ==
  ASSUME Types, NEW t \in Templates
  PROVE  /\ WithTemplate(t) \in Files
         /\ \A p \in Paths : WithTemplate(t)[p] =
              IF p \in {t, Shared} \/ (p = Kept /\ app[p] = None) THEN t ELSE app[p]
PROOF
  BY DEF WithTemplate, Types, Files, Contents

-----------------------------------------------------------------------------
(* Types, and the agreement of journal and memory. *)

Kind == Types /\ PcInv

(* A fault leaves the count of faults within its bound. *)
LEMMA CallFacts ==
  ASSUME Types, NEW here, NEW after, NEW error, Call(here, after, error)
  PROVE  /\ pc = here /\ faults' \in 0..MaxFaults
         /\ (Well /\ pc' = after) \/ (~Well /\ pc' \in {error, "down"})
PROOF
  BY ProjectInitAssumption DEF Call, Types, Well

LEMMA KindBegin ==
  ASSUME Kind, NEW then \in {"idle", "snap_app"}, NEW t \in Templates \cup {None},
         then = "snap_app" => t \in Templates,
         RecoverPending(then, t) \/ (pc' = "idle" /\ tx' = NoTx),
         store' \in {store, log},
         UNCHANGED <<files, log, journal, backup, faults, edits, safe, scars>>
  PROVE  Kind'
PROOF
  <1>1. tx' \in Txs
    <2>1. NoTx \in Txs /\ [NoTx EXCEPT !.t = t] \in Txs
      BY DEF NoTx, Txs
    <2>2. journal \in Journals =>
            [t |-> t, app |-> journal.app, style |-> journal.style,
             hint |-> journal.hint, then |-> then] \in Txs
      BY DEF Txs, Journals
    <2>3. journal \in {None, Torn} \cup Journals
      BY DEF Kind, Types
    <2>4. QED
      BY <2>1, <2>2, <2>3 DEF RecoverPending
  <1>a. pc' \in Pcs
    BY DEF RecoverPending, Pcs, Undo, Redo, Snap
  <1>2. Types'
    BY <1>1, <1>a DEF Kind, Types, files
  <1>3. PcInv'
    BY DEF Kind, Types, PcInv, Same, files, RecoverPending, NoTx, Txs, Undo, Redo, Snap, Build,
           Finish, Journals
  <1>4. QED
    BY <1>2, <1>3 DEF Kind

(* One call after another of the same part of the transaction, or the end  *)
(* of it, or the turn to its rollback.                                     *)
LEMMA PcMove ==
  ASSUME Kind, UNCHANGED <<journal, tx>>, scars \subseteq scars',
         \/ pc' \in {"idle", "down"}
         \/ pc \in Snap /\ pc' \in Snap
         \/ pc \in Build /\ pc' \in Build \cup Undo
         \/ pc \in Finish /\ pc' \in Finish
         \/ pc \in Redo /\ pc' \in Redo
         \/ pc \in Undo /\ pc' \in Undo
  PROVE  PcInv' /\ pc' \in Pcs
PROOF
  <1>1. PcInv /\ (Same("Prepared")' <=> Same("Prepared"))
        /\ (Same("WorkspaceCommitted")' <=> Same("WorkspaceCommitted"))
    BY DEF Kind, Same
  <1>2. pc' \in Pcs
    BY DEF Pcs, Undo, Redo, Snap, Build, Finish
  <1>3. QED
    BY <1>1, <1>2 DEF PcInv, Undo, Redo, Snap, Build, Finish

(* What a write of a name into a file may leave. *)
LEMMA NameFacts ==
  ASSUME NEW old \in Names, NEW new \in Names
  PROVE  /\ Wrote(old, new) \subseteq Names
         /\ \A e \in BOOLEAN : Restored(old, new, e) \subseteq Names
         /\ Saved(old, new) \subseteq Names
         /\ Well => Wrote(old, new) = {new}
         /\ Well => \A e \in BOOLEAN : Restored(old, new, e) = {IF e THEN new ELSE None}
         /\ Well => Saved(old, new) = {IF old = None THEN new ELSE old}
PROOF
  BY ProjectInitAssumption DEF Wrote, Restored, Saved, Names

(* The steps of rollback. *)
LEMMA KindUndo ==
  ASSUME Kind, UndoRemoveApp \/ UndoCopyApp \/ UndoStyle \/ UndoHint
  PROVE  Kind'
PROOF
  <1>1. Types
    BY DEF Kind
  <1>2. backup.app \in Files /\ backup.style \in Names /\ backup.hint \in Names
        /\ tx.app \in BOOLEAN /\ tx.style \in BOOLEAN /\ tx.hint \in BOOLEAN
    BY <1>1 DEF Types, Backups, Txs
  <1>3. CASE UndoRemoveApp
    <2>1. app' \in Files /\ faults' \in 0..MaxFaults
      BY <1>1, <1>3, WorkedFacts, EmptyFacts, CallFacts DEF UndoRemoveApp, Types
    <2>2. PcInv' /\ pc' \in Pcs
      BY <1>1, <1>3, PcMove, CallFacts DEF UndoRemoveApp, Undo
    <2>3. QED
      BY <1>1, <1>3, <2>1, <2>2 DEF UndoRemoveApp, Types, Kind
  <1>4. CASE UndoCopyApp
    <2>1. Copied(backup.app, app) \in Files /\ app \in Files
      BY <1>1, <1>2, CopiedFacts DEF Types
    <2>2. app' \in Files /\ faults' \in 0..MaxFaults
      <3>1. CASE app' \in Worked(app, IF tx.app THEN Copied(backup.app, app) ELSE app)
                 /\ Call("undo_copy", "undo_style", "idle")
        BY <1>1, <2>1, <3>1, WorkedFacts, CallFacts
      <3>2. CASE UNCHANGED <<app, faults>>
        BY <1>1, <3>2 DEF Types
      <3>3. QED
        BY <1>4, <3>1, <3>2 DEF UndoCopyApp
    <2>3. PcInv' /\ pc' \in Pcs
      BY <1>1, <1>4, PcMove, CallFacts DEF UndoCopyApp, Undo
    <2>4. QED
      BY <1>1, <1>4, <2>2, <2>3 DEF UndoCopyApp, Types, Kind
  <1>5. CASE UndoStyle
    <2>1. style' \in Names /\ faults' \in 0..MaxFaults
      <3>1. style \in Names /\ faults \in 0..MaxFaults /\ None \in Names
        BY <1>1 DEF Types, Names
      <3>2. CASE style' \in Restored(style, backup.style, tx.style)
                 /\ Call("undo_style", "undo_hint", "idle")
        BY <1>1, <1>2, <3>1, <3>2, NameFacts, CallFacts
      <3>3. CASE style' = None /\ UNCHANGED faults
        BY <3>1, <3>3
      <3>4. QED
        BY <1>5, <3>2, <3>3 DEF UndoStyle
    <2>2. PcInv' /\ pc' \in Pcs
      BY <1>1, <1>5, PcMove, CallFacts DEF UndoStyle, Undo
    <2>3. QED
      BY <1>1, <1>5, <2>1, <2>2 DEF UndoStyle, Types, Kind
  <1>6. CASE UndoHint
    <2>1. hint' \in Names /\ faults' \in 0..MaxFaults
      <3>1. hint \in Names /\ faults \in 0..MaxFaults /\ None \in Names
        BY <1>1 DEF Types, Names
      <3>2. CASE hint' \in Restored(hint, backup.hint, tx.hint)
                 /\ Call("undo_hint", "undo_forget", "idle")
        BY <1>1, <1>2, <3>1, <3>2, NameFacts, CallFacts
      <3>3. CASE hint' = None /\ UNCHANGED faults
        BY <3>1, <3>3
      <3>4. QED
        BY <1>6, <3>2, <3>3 DEF UndoHint
    <2>2. PcInv' /\ pc' \in Pcs
      BY <1>1, <1>6, PcMove, CallFacts DEF UndoHint, Undo
    <2>3. QED
      BY <1>1, <1>6, <2>1, <2>2 DEF UndoHint, Types, Kind
  <1>7. QED
    BY <1>3, <1>4, <1>5, <1>6

(* The removal of the transaction directory. *)
LEMMA KindForget ==
  ASSUME Kind, NEW here \in {"undo_forget", "redo_forget", "forget"},
         NEW after \in {tx.then, "idle"}, RemoveTransaction(here, after)
  PROVE  Kind'
PROOF
  <1>1. Types /\ PcInv
    BY DEF Kind
  <1>2. /\ pc = here /\ faults' \in 0..MaxFaults
        /\ (Well /\ pc' = after) \/ (~Well /\ pc' \in {"idle", "down"})
    BY <1>1, CallFacts DEF RemoveTransaction
  <1>3. after \in {"idle", "snap_app"} /\ (after = "snap_app" => tx.t \in Templates)
    BY <1>1 DEF Types, PcInv, Txs
  <1>4. journal' \in {None, journal} /\ (Well => journal' = None)
    BY DEF RemoveTransaction
  <1>5. backup' \in Backups
    <2>1. backup \in Backups /\ Empty \in Files /\ None \in Names /\ NoBackup \in Backups
      BY <1>1, EmptyFacts DEF Types, Names
    <2>2. ASSUME NEW left \in Worked(backup.app, Empty)
          PROVE  [app : {left}, style : {backup.style, None}, hint : {backup.hint, None}]
                   \subseteq Backups
      <3>1. left \in Files
        BY <2>1, WorkedFacts DEF Backups
      <3>2. QED
        BY <2>1, <3>1 DEF Backups
    <2>3. QED
      BY <2>1, <2>2 DEF RemoveTransaction
  <1>6. scars' \subseteq {"littered", "thinned", "retracted", "unrecorded"}
    BY <1>1 DEF RemoveTransaction, Types
  <1>7. Types'
    BY <1>1, <1>2, <1>3, <1>4, <1>5, <1>6 DEF RemoveTransaction, files, Types, Pcs, Snap
  <1>8. PcInv'
    BY <1>1, <1>2, <1>3, <1>4 DEF RemoveTransaction, PcInv, Undo, Redo, Snap, Build, Finish
  <1>9. QED
    BY <1>7, <1>8 DEF Kind

(* The steps of begin. *)
LEMMA KindSnap ==
  ASSUME Kind, SnapApp \/ SnapStyle \/ SnapHint
  PROVE  /\ Kind' /\ journal = None /\ journal' = None
         /\ tx' \in Txs /\ tx'.t = tx.t /\ tx'.then = tx.then
         /\ pc' \in {"snap_style", "snap_hint", "prepare", "idle", "down"}
PROOF
  <1>1. Types /\ PcInv /\ tx \in Txs /\ backup \in Backups
    BY DEF Kind, Types
  <1>2. /\ pc \in Snap /\ journal = None /\ journal' = None /\ tx.t \in Templates
        /\ pc' \in {"snap_style", "snap_hint", "prepare", "idle", "down"} /\ faults' \in 0..MaxFaults
    <2>1. /\ pc \in Snap
          /\ pc' \in {"snap_style", "snap_hint", "prepare", "idle", "down"} /\ faults' \in 0..MaxFaults
      BY <1>1, CallFacts DEF SnapApp, SnapStyle, SnapHint, Snap
    <2>2. QED
      BY <1>1, <2>1 DEF PcInv, SnapApp, SnapStyle, SnapHint
  <1>3. tx' \in Txs /\ tx'.t = tx.t /\ tx'.then = tx.then
    <2>1. \A b \in BOOLEAN :
            /\ [tx EXCEPT !.app = b] \in Txs /\ [tx EXCEPT !.style = b] \in Txs
            /\ [tx EXCEPT !.hint = b] \in Txs
      BY <1>1 DEF Txs
    <2>2. \A b \in BOOLEAN :
            /\ [tx EXCEPT !.app = b].t = tx.t /\ [tx EXCEPT !.app = b].then = tx.then
            /\ [tx EXCEPT !.style = b].t = tx.t /\ [tx EXCEPT !.style = b].then = tx.then
            /\ [tx EXCEPT !.hint = b].t = tx.t /\ [tx EXCEPT !.hint = b].then = tx.then
      BY <1>1 DEF Txs
    <2>3. (app # Empty) \in BOOLEAN /\ (style # None) \in BOOLEAN /\ (hint # None) \in BOOLEAN
      OBVIOUS
    <2>4. QED
      BY <2>1, <2>2, <2>3 DEF SnapApp, SnapStyle, SnapHint
  <1>4. backup' \in Backups
    <2>1. backup.app \in Files /\ app \in Files /\ Copied(app, backup.app) \in Files
      BY <1>1, CopiedFacts DEF Types, Backups
    <2>2. backup.style \in Names /\ backup.hint \in Names /\ style \in Names /\ hint \in Names
      BY <1>1 DEF Types, Backups
    <2>3. /\ Saved(style, backup.style) \subseteq Names
          /\ Saved(hint, backup.hint) \subseteq Names
          /\ Worked(backup.app, Copied(app, backup.app)) \subseteq Files
      BY <2>1, <2>2, WorkedFacts DEF Saved, Wrote, Names
    <2>4. /\ \A a \in Files : [backup EXCEPT !.app = a] \in Backups
          /\ \A n \in Names : [backup EXCEPT !.style = n] \in Backups
          /\ \A n \in Names : [backup EXCEPT !.hint = n] \in Backups
      BY <1>1 DEF Backups
    <2>5. CASE SnapApp
      <3>1. PICK saved \in Worked(backup.app, Copied(app, backup.app)) :
              backup' = [backup EXCEPT !.app = saved]
        BY <2>5 DEF SnapApp
      <3>2. QED
        BY <2>3, <2>4, <3>1
    <2>6. CASE SnapStyle
      <3>1. PICK saved \in Saved(style, backup.style) : backup' = [backup EXCEPT !.style = saved]
        BY <2>6 DEF SnapStyle
      <3>2. QED
        BY <2>3, <2>4, <3>1
    <2>7. CASE SnapHint
      <3>1. PICK saved \in Saved(hint, backup.hint) : backup' = [backup EXCEPT !.hint = saved]
        BY <2>7 DEF SnapHint
      <3>2. QED
        BY <2>3, <2>4, <3>1
    <2>8. QED
      BY <2>5, <2>6, <2>7
  <1>5. UNCHANGED <<files, store, log, journal, edits, safe, scars>>
    BY DEF SnapApp, SnapStyle, SnapHint
  <1>6. Types'
    BY <1>1, <1>2, <1>3, <1>4, <1>5 DEF Types, files, Pcs, Snap
  <1>7. PcInv'
    BY <1>1, <1>2, <1>3, <1>5 DEF PcInv, Undo, Redo, Snap, Build, Finish
  <1>8. QED
    BY <1>2, <1>3, <1>6, <1>7 DEF Kind

(* The record of a journal is of its type. *)
LEMMA JournalFacts ==
  ASSUME tx \in Txs, tx.t \in Templates, NEW status \in {"Prepared", "WorkspaceCommitted"}
  PROVE  /\ Journal(status) \in Journals /\ Journal(status).status = status
         /\ Journal(status).t = tx.t /\ Journal(status).app = tx.app
         /\ Journal(status).style = tx.style /\ Journal(status).hint = tx.hint
PROOF
  BY DEF Journal, Journals, Txs

(* The journal is written, or torn, or not there. *)
LEMMA KindPrepare ==
  ASSUME Kind, Prepare
  PROVE  /\ Kind' /\ journal = None
         /\ tx' \in Txs /\ tx'.t = tx.t /\ tx'.app = tx.app /\ tx'.style = tx.style
         /\ tx'.hint = tx.hint /\ tx'.then = "idle"
         /\ Journal("Prepared") \in Journals
         /\ journal' \in {None, Torn, Journal("Prepared")}
         /\ \/ Well /\ pc' = "clean" /\ journal' = Journal("Prepared")
            \/ ~Well /\ pc' \in {"idle", "down"}
PROOF
  <1>1. Types /\ PcInv /\ tx \in Txs /\ pc = "prepare" /\ journal = None /\ tx.t \in Templates
    BY DEF Kind, Types, Prepare, Call, PcInv, Snap
  <1>2. /\ Journal("Prepared") \in Journals /\ Journal("Prepared").status = "Prepared"
        /\ Journal("Prepared").t = tx.t /\ Journal("Prepared").app = tx.app
        /\ Journal("Prepared").style = tx.style /\ Journal("Prepared").hint = tx.hint
    BY <1>1, JournalFacts
  <1>3. /\ faults' \in 0..MaxFaults
        /\ (Well /\ pc' = "clean") \/ (~Well /\ pc' \in {"idle", "down"})
    BY <1>1, CallFacts DEF Prepare
  <1>4. /\ tx' \in Txs /\ tx'.t = tx.t /\ tx'.app = tx.app /\ tx'.style = tx.style
        /\ tx'.hint = tx.hint /\ tx'.then = "idle"
    BY <1>1 DEF Prepare, Txs
  <1>5. journal' \in {None, Torn, Journal("Prepared")} /\ (Well => journal' = Journal("Prepared"))
    BY <1>1 DEF Prepare, Wrote
  <1>6. UNCHANGED <<files, store, log, backup, edits, safe, scars>>
    BY DEF Prepare
  <1>7. Types'
    BY <1>1, <1>2, <1>3, <1>4, <1>5, <1>6 DEF Types, files, Pcs, Build
  <1>8. PcInv'
    <2>1. CASE pc' = "clean"
      <3>1. journal' = Journal("Prepared")
        BY <1>3, <1>5, <2>1
      <3> HIDE DEF Journal
      <3>2. QED
        BY <1>2, <1>4, <2>1, <3>1 DEF PcInv, Same, Undo, Redo, Snap, Build, Finish
    <2>2. CASE pc' \in {"idle", "down"}
      BY <1>4, <2>2 DEF PcInv, Undo, Redo, Snap, Build, Finish
    <2>3. QED
      BY <1>3, <2>1, <2>2
  <1>9. QED
    BY <1>1, <1>2, <1>3, <1>4, <1>5, <1>7, <1>8 DEF Kind

(* The steps of initialize up to the commit mark. *)
LEMMA KindBuild ==
  ASSUME Kind, Clean \/ WriteTemplate \/ ApplyTokens \/ WriteStyle
  PROVE  Kind'
PROOF
  <1>1. Types /\ PcInv /\ app \in Files /\ style \in Names
    BY DEF Kind, Types
  <1>2. /\ pc \in Build /\ tx.t \in Templates /\ faults' \in 0..MaxFaults
        /\ pc' \in Build \cup {"undo_app", "down"}
    <2>1. /\ pc \in Build /\ faults' \in 0..MaxFaults
          /\ pc' \in Build \cup {"undo_app", "down"}
      BY <1>1, CallFacts DEF Clean, WriteTemplate, ApplyTokens, WriteStyle, Build, Types
    <2>2. QED
      BY <1>1, <2>1 DEF PcInv, Same, Journals
  <1>3. app' \in Files /\ style' \in Names
    <2>1. CASE Clean
      <3>1. [p \in Paths |-> IF p \in OldTemplates \ {tx.t} THEN None ELSE app[p]] \in Files
        BY <1>1 DEF Files, Contents
      <3>2. QED
        BY <1>1, <2>1, <3>1, WorkedFacts DEF Clean
    <2>2. CASE WriteTemplate
      BY <1>1, <1>2, <2>2, WorkedFacts, TemplateFacts DEF WriteTemplate
    <2>3. CASE ApplyTokens
      BY <1>1, <2>3 DEF ApplyTokens, files
    <2>4. CASE WriteStyle
      BY <1>1, <1>2, <2>4 DEF WriteStyle, Wrote, Names
    <2>5. QED
      BY <2>1, <2>2, <2>3, <2>4
  <1>4. UNCHANGED <<hint, store, log, journal, backup, tx, edits, safe, scars>>
    BY DEF Clean, WriteTemplate, ApplyTokens, WriteStyle, files
  <1>5. PcInv' /\ pc' \in Pcs
    BY <1>2, <1>4, PcMove DEF Undo
  <1>6. QED
    BY <1>1, <1>2, <1>3, <1>4, <1>5 DEF Kind, Types

(* The commit mark. *)
LEMMA KindMark ==
  ASSUME Kind, MarkCommitted
  PROVE  /\ Kind' /\ pc = "commit" /\ UNCHANGED tx
         /\ Journal("WorkspaceCommitted") \in Journals
         /\ journal' \in {journal, Torn, Journal("WorkspaceCommitted")}
         /\ \/ Well /\ pc' = "record" /\ journal' = Journal("WorkspaceCommitted")
            \/ ~Well /\ pc' \in {"undo_app", "down"}
PROOF
  <1>1. /\ Types /\ PcInv /\ tx \in Txs /\ pc = "commit" /\ Same("Prepared") /\ journal.t = tx.t
        /\ tx.t \in Templates /\ tx.then = "idle"
    BY DEF Kind, Types, MarkCommitted, Call, PcInv, Build, Same, Journals
  <1> DEFINE j == Journal("WorkspaceCommitted")
  <1>2. /\ j \in Journals /\ j.status = "WorkspaceCommitted" /\ j.t = tx.t /\ j.app = tx.app
        /\ j.style = tx.style /\ j.hint = tx.hint
    BY <1>1, JournalFacts
  <1>3. /\ faults' \in 0..MaxFaults
        /\ (Well /\ pc' = "record") \/ (~Well /\ pc' \in {"undo_app", "down"})
    BY <1>1, CallFacts DEF MarkCommitted
  <1>4. /\ journal' \in {journal, Torn, j} /\ (Well => journal' = j)
        /\ scars' = IF pc' = "undo_app" /\ journal' = j THEN scars \cup {"retracted"} ELSE scars
        /\ UNCHANGED <<files, store, log, backup, tx, edits, safe>>
    BY DEF MarkCommitted, Wrote
  <1> HIDE DEF j
  <1>5. Types'
    BY <1>1, <1>2, <1>3, <1>4 DEF Types, files, Pcs, Finish, Undo
  <1>6. PcInv'
    <2>1. CASE pc' = "record"
      <3>1. journal' = j
        BY <1>3, <1>4, <2>1
      <3>2. QED
        BY <1>1, <1>2, <1>4, <2>1, <3>1 DEF PcInv, Same, Undo, Redo, Snap, Build, Finish
    <2>2. CASE pc' = "undo_app"
      <3>1. CASE journal' = j
        BY <1>1, <1>2, <1>4, <2>2, <3>1 DEF PcInv, Same, Undo, Redo, Snap, Build, Finish
      <3>2. CASE journal' = Torn
        BY <1>1, <1>4, <2>2, <3>2 DEF PcInv, Undo, Redo, Snap, Build, Finish
      <3>3. CASE journal' = journal
        BY <1>1, <1>4, <2>2, <3>3 DEF PcInv, Same, Undo, Redo, Snap, Build, Finish
      <3>4. QED
        BY <1>4, <3>1, <3>2, <3>3
    <2>3. CASE pc' = "down"
      BY <1>1, <1>4, <2>3 DEF PcInv, Undo, Redo, Snap, Build, Finish
    <2>4. QED
      BY <1>3, <2>1, <2>2, <2>3
  <1>7. QED
    BY <1>1, <1>2, <1>3, <1>4, <1>5, <1>6 DEF Kind, j

(* The record in the store and state/project.json, also on recovery. *)
LEMMA KindFinish ==
  ASSUME Kind, Record \/ WriteHint \/ RedoRecord \/ RedoHint
  PROVE  Kind'
PROOF
  <1>1. Types /\ PcInv /\ hint \in Names /\ store \in Templates \cup {None}
        /\ log \in Templates \cup {None}
    BY DEF Kind, Types
  <1>2. /\ pc \in Finish \cup Redo /\ faults' \in 0..MaxFaults
        /\ pc' \in {"idle", "down"} \/ (pc \in Finish /\ pc' \in Finish) \/ (pc \in Redo /\ pc' \in Redo)
    BY <1>1, CallFacts DEF Record, WriteHint, RedoRecord, RedoHint, Finish, Redo, Types
  <1>3. journal.t \in Templates /\ (pc \in Finish => tx.t \in Templates)
    BY <1>1, <1>2 DEF PcInv, Same, Journals
  <1>4. /\ scars \subseteq scars' /\ scars' \subseteq scars \cup {"unrecorded"}
        /\ UNCHANGED <<app, style, journal, backup, tx, edits, safe>>
    BY DEF Record, WriteHint, RedoRecord, RedoHint, Upsert, files
  <1>5. PcInv' /\ pc' \in Pcs
    BY <1>2, <1>4, PcMove
  <1>6. hint' \in Names /\ store' \in Templates \cup {None} /\ log' \in Templates \cup {None}
    <2>1. CASE Record
      <3>1. tx.t \in Templates
        BY <1>3, <2>1 DEF Record, Call, Finish
      <3>2. QED
        BY <1>1, <2>1, <3>1 DEF Record, Upsert, files
    <2>2. CASE RedoRecord
      BY <1>1, <1>3, <2>2 DEF RedoRecord, Upsert, files
    <2>3. CASE WriteHint
      <3>1. tx.t \in Templates
        BY <1>3, <2>3 DEF WriteHint, Call, Finish
      <3>2. QED
        BY <1>1, <2>3, <3>1 DEF WriteHint, Wrote, Names
    <2>4. CASE RedoHint
      BY <1>1, <1>3, <2>4 DEF RedoHint, Wrote, Names
    <2>5. QED
      BY <2>1, <2>2, <2>3, <2>4
  <1>7. QED
    BY <1>1, <1>2, <1>4, <1>5, <1>6 DEF Kind, Types

(* The process and the agent. *)
LEMMA KindAround ==
  ASSUME Kind, Startup \/ Stop \/ Edit \/ UNCHANGED vars
  PROVE  Kind'
PROOF
  <1>1. CASE Startup
    BY <1>1, KindBegin DEF Startup
  <1>2. CASE Stop
    <2>1. Types'
      BY <1>2, EmptyFacts DEF Stop, Kind, Types, files, Pcs
    <2>2. PcInv'
      BY <1>2, EmptyFacts DEF Stop, PcInv, Undo, Redo, Snap, Build, Finish
    <2>3. QED
      BY <2>1, <2>2 DEF Kind
  <1>3. CASE Edit
    <2>1. edits' \in 1..MaxEdits /\ edits' = edits + 1 /\ safe' \in 0..edits'
      BY <1>3, ProjectInitAssumption DEF Edit, Kind, Types
    <2>2. app' \in Files
      BY <1>3, <2>1 DEF Edit, Kind, Types, Files, Contents
    <2>3. Types'
      BY <1>3, <2>1, <2>2 DEF Edit, Kind, Types
    <2>4. PcInv'
      BY <1>3 DEF Edit, Kind, PcInv, Same
    <2>5. QED
      BY <2>3, <2>4 DEF Kind
  <1>4. CASE UNCHANGED vars
    <2>1. Types'
      BY <1>4 DEF vars, Kind, Types
    <2>2. PcInv'
      BY <1>4 DEF vars, Kind, PcInv, Same
    <2>3. QED
      BY <2>1, <2>2 DEF Kind
  <1>5. QED
    BY <1>1, <1>2, <1>3, <1>4

-----------------------------------------------------------------------------
(* The workspace. *)

(* A workspace stays whole when only more edits are made. *)
LEMMA WholeKept ==
  ASSUME NEW a, NEW h, Whole(a, h), safe' = safe, edits \in Nat, edits' \in Nat,
         safe \in Nat, edits <= edits', scars \subseteq scars'
  PROVE  Whole(a, h)'
PROOF
  BY DEF Whole, Thin

(* A thinned backup of a whole workspace is one.                           *)
LEMMA RemnantWhole ==
  ASSUME NEW a, NEW h, NEW b \in Files, Whole(a, h), Remnant(b, a)
  PROVE  Whole(b, h)
PROOF
  <1>1. CASE b = a
    BY <1>1
  <1>2. CASE Thin /\ \A p \in Paths : b[p] \in {a[p], None}
    <2>1. h = None => b = Empty
      BY <1>2, EmptyFacts, SameFiles DEF Whole, Thin
    <2>2. QED
      BY <1>2, <2>1, EmptyFacts DEF Whole, Thin
  <1>3. QED
    BY <1>1, <1>2 DEF Remnant, Thin

(* No call of the rollback or of the template's steps is due: what is left *)
(* to say of a transaction is what its journal and its backup say.         *)
LEMMA Paused ==
  ASSUME Kind, WorkInv, Clear, pc' \in {"idle", "down"}, scars \subseteq scars',
         UNCHANGED <<journal, backup, edits, safe>>,
         log' = log \/ Committed,
         journal = None => UNCHANGED files,
         Committed => UNCHANGED <<app, style>>
  PROVE  WorkInv'
PROOF
  <1>1. Types /\ PcInv /\ edits \in Nat /\ safe \in Nat
    BY ProjectInitAssumption DEF Kind, Types
  <1>2. ASSUME journal' = None PROVE Settled' /\ SnapInv'
    <2>1. Settled /\ UNCHANGED files /\ ~Committed
      BY <1>2, ProjectInitAssumption DEF WorkInv, Committed
    <2>2. Settled'
      BY <2>1 DEF Settled, Whole, Thin, files
    <2>3. SnapInv'
      BY DEF SnapInv
    <2>4. QED
      BY <2>2, <2>3
  <1>3. ASSUME Prepared' PROVE Reversible'
    <2>1. /\ journal \in Journals /\ journal.status = "Prepared" /\ journal # Torn
          /\ Prepared /\ ~Committed
      BY <1>3, ProjectInitAssumption DEF Prepared, Committed, Undo
    <2>2. PICK a \in Files, h \in Templates \cup {None} : LeadsBack(a, h)
      BY <2>1 DEF WorkInv, Reversible
    <2>3. pc \in Undo => /\ journal.app = tx.app /\ journal.style = tx.style
                         /\ journal.hint = tx.hint
      BY <1>1, <2>1 DEF PcInv, Same
    <2>4. Saves(a, h, journal)
      BY <2>2, <2>3 DEF LeadsBack, Saves, Remnant, Thin, Flags
    <2>5. Flags' = journal /\ journal' = journal
      BY DEF Flags, Undo
    <2>6. Saves(a, h, Flags)'
      BY <2>4, <2>5 DEF Saves, Remnant, Thin
    <2>7. Whole(a, h)'
      BY <1>1, <2>2, WholeKept DEF LeadsBack
    <2>8. BuildInv(a, h, tx.t)' /\ UndoInv(a, h)'
      BY DEF BuildInv, UndoInv, Build
    <2>9. (scars \subseteq {"thinned"} => log = h)'
      BY <2>1, <2>2 DEF LeadsBack
    <2>10. QED
      BY <2>2, <2>6, <2>7, <2>8, <2>9 DEF Reversible, LeadsBack
  <1>4. ASSUME Committed' PROVE Completes(journal.t)'
    <2>1. Committed /\ UNCHANGED <<app, style>> /\ Completes(journal.t)
      BY <1>4 DEF Committed, WorkInv
    <2>2. QED
      BY <2>1 DEF Completes, Whole, Thin
  <1>5. QED
    BY <1>2, <1>3, <1>4 DEF WorkInv

(* initialize gives up and rolls back with the transaction in memory. *)
LEMMA TurnedBack ==
  ASSUME Kind, WorkInv, Clear, pc \in Build, pc' = "undo_app", scars \subseteq scars',
         journal' \in {journal, Torn}, UNCHANGED <<backup, tx, edits, safe, log>>
  PROVE  WorkInv'
PROOF
  <1>1. Types /\ PcInv /\ edits \in Nat /\ safe \in Nat
    BY ProjectInitAssumption DEF Kind, Types
  <1>2. Same("Prepared") /\ pc \notin Undo
    BY <1>1 DEF PcInv, Build, Undo
  <1>3. PICK a \in Files, h \in Templates \cup {None} : LeadsBack(a, h)
    BY <1>2 DEF WorkInv, Prepared, Reversible, Same
  <1>4. Flags' = tx /\ tx' = tx
    BY DEF Flags, Undo
  <1>5. Saves(a, h, Flags)'
    <2>1. Saves(a, h, journal)
      BY <1>2, <1>3 DEF LeadsBack, Flags
    <2>2. Saves(a, h, tx)
      BY <1>2, <2>1 DEF Saves, Remnant, Thin, Same
    <2>3. QED
      BY <1>4, <2>2 DEF Saves, Remnant, Thin
  <1>6. Whole(a, h)'
    BY <1>1, <1>3, WholeKept DEF LeadsBack
  <1>7. BuildInv(a, h, tx.t)' /\ UndoInv(a, h)'
    BY DEF BuildInv, UndoInv, Build
  <1>8. (scars \subseteq {"thinned"} => log = h)'
    BY <1>3 DEF LeadsBack
  <1>9. Reversible'
    BY <1>3, <1>5, <1>6, <1>7, <1>8 DEF Reversible, LeadsBack
  <1>10. journal' # None /\ ~Committed'
    BY <1>2, ProjectInitAssumption DEF Committed, Same
  <1>11. QED
    BY <1>9, <1>10 DEF WorkInv

(* A call of initialize goes well and the next one is due. *)
LEMMA Advanced ==
  ASSUME Kind, Clear, NEW a \in Files, NEW h \in Templates \cup {None}, LeadsBack(a, h),
         pc \in Build, pc' \in Build, BuildInv(a, h, tx.t)',
         UNCHANGED <<journal, backup, tx, edits, safe, log, scars>>
  PROVE  WorkInv'
PROOF
  <1>1. Types /\ PcInv /\ edits \in Nat /\ safe \in Nat
    BY ProjectInitAssumption DEF Kind, Types
  <1>2. Same("Prepared") /\ pc \notin Undo /\ pc' \notin Undo
    BY <1>1 DEF PcInv, Build, Undo
  <1>3. Saves(a, h, Flags)'
    BY <1>2 DEF LeadsBack, Saves, Remnant, Thin, Flags
  <1>4. Whole(a, h)'
    BY <1>1, WholeKept DEF LeadsBack
  <1>5. UndoInv(a, h)'
    BY DEF UndoInv, Build
  <1>6. Reversible'
    BY <1>3, <1>4, <1>5 DEF Reversible, LeadsBack
  <1>7. journal' # None /\ ~Committed'
    BY <1>2, ProjectInitAssumption DEF Committed, Same
  <1>8. QED
    BY <1>6, <1>7 DEF WorkInv

(* A call of the rollback goes well and the next one is due. *)
LEMMA Retreated ==
  ASSUME Kind, Clear, NEW a \in Files, NEW h \in Templates \cup {None}, LeadsBack(a, h),
         pc \in Undo, pc' \in Undo, UndoInv(a, h)',
         UNCHANGED <<journal, backup, tx, edits, safe, log, scars>>
  PROVE  WorkInv'
PROOF
  <1>1. Types /\ PcInv /\ edits \in Nat /\ safe \in Nat
    BY ProjectInitAssumption DEF Kind, Types
  <1>2. Saves(a, h, Flags)'
    BY DEF LeadsBack, Saves, Remnant, Thin, Flags
  <1>3. Whole(a, h)'
    BY <1>1, WholeKept DEF LeadsBack
  <1>4. BuildInv(a, h, tx.t)'
    BY DEF BuildInv, Undo, Build
  <1>5. Reversible'
    BY <1>2, <1>3, <1>4 DEF Reversible, LeadsBack
  <1>6. journal' # None /\ ~Committed'
    BY <1>1, ProjectInitAssumption DEF Committed, PcInv, Same, Clear
  <1>7. QED
    BY <1>5, <1>6 DEF WorkInv

-----------------------------------------------------------------------------
(* One lemma for the workspace per part of the transaction. *)

(* recover_pending, as part of a call or of the start of the process. *)
LEMMA WorkBegin ==
  ASSUME Kind, WorkInv, Clear, pc \in {"idle", "down"},
         NEW then \in {"idle", "snap_app"}, NEW t,
         RecoverPending(then, t) \/ (pc' = "idle" /\ tx' = NoTx),
         UNCHANGED <<files, log, journal, backup, edits, safe, scars>>
  PROVE  WorkInv'
PROOF
  <1>1. Types /\ PcInv /\ edits \in Nat /\ safe \in Nat
    BY ProjectInitAssumption DEF Kind, Types
  <1>2. CASE pc' \in {"idle", "down"}
    BY <1>2, Paused DEF files
  <1>3. CASE pc' = "snap_app"
    <2>1. journal = None /\ journal' = None
      BY <1>3 DEF RecoverPending
    <2>2. Settled' /\ SnapInv'
      BY <1>3, <2>1 DEF WorkInv, Settled, Whole, Thin, SnapInv, files
    <2>3. ~Prepared' /\ ~Committed'
      BY <1>3, <2>1, ProjectInitAssumption DEF Prepared, Committed, Undo
    <2>4. QED
      BY <2>2, <2>3 DEF WorkInv
  <1>4. CASE pc' = "undo_app"
    <2>1. /\ journal \in Journals /\ journal.status = "Prepared" /\ journal' = journal
          /\ tx' = [t |-> t, app |-> journal.app, style |-> journal.style,
                    hint |-> journal.hint, then |-> then]
      BY <1>1, <1>4 DEF RecoverPending, Types
    <2>2. PICK a \in Files, h \in Templates \cup {None} : LeadsBack(a, h)
      BY <2>1 DEF WorkInv, Prepared, Reversible
    <2>3. Saves(a, h, journal)
      BY <2>2 DEF LeadsBack, Flags, Undo
    <2>4. /\ Flags' = tx' /\ tx'.app = journal.app /\ tx'.style = journal.style
          /\ tx'.hint = journal.hint
      BY <1>4, <2>1 DEF Flags, Undo
    <2>5. Saves(a, h, Flags)'
      BY <2>3, <2>4 DEF Saves, Remnant, Thin
    <2>6. Whole(a, h)'
      BY <1>1, <2>2, WholeKept DEF LeadsBack
    <2>7. BuildInv(a, h, tx.t)' /\ UndoInv(a, h)' /\ (scars \subseteq {"thinned"} => log = h)'
      BY <1>4, <2>2 DEF BuildInv, UndoInv, Build, LeadsBack
    <2>8. Reversible'
      BY <2>2, <2>5, <2>6, <2>7 DEF Reversible, LeadsBack
    <2>9. journal' # None /\ ~Committed'
      BY <2>1, ProjectInitAssumption DEF Committed
    <2>10. QED
      BY <2>8, <2>9 DEF WorkInv
  <1>5. CASE pc' = "redo_record"
    <2>1. Committed /\ journal' = journal
      BY <1>1, <1>5 DEF RecoverPending, Types, Committed, Journals
    <2>2. Completes(journal.t)'
      BY <1>5, <2>1 DEF WorkInv, Completes, Whole, Thin, files
    <2>3. ~Prepared' /\ journal' # None
      BY <1>5, <2>1, ProjectInitAssumption DEF Prepared, Committed, Undo
    <2>4. QED
      BY <2>2, <2>3 DEF WorkInv
  <1>6. QED
    BY <1>2, <1>3, <1>4, <1>5 DEF RecoverPending

(* The snapshots of begin: the backup never has a file that the app root   *)
(* has not, so copying over what an earlier attempt left loses nothing.    *)
LEMMA WorkSnap ==
  ASSUME Kind, WorkInv, Clear, SnapApp \/ SnapStyle \/ SnapHint
  PROVE  WorkInv'
PROOF
  <1>1. Types /\ app \in Files /\ backup \in Backups /\ backup.app \in Files /\ tx \in Txs
    BY DEF Kind, Types, Backups
  <1>2. /\ journal = None /\ journal' = None
        /\ pc' \in {"snap_style", "snap_hint", "prepare", "idle", "down"}
    BY KindSnap
  <1>3. Settled /\ SnapInv
    BY <1>2 DEF WorkInv
  <1>4. UNCHANGED <<files, log, edits, safe, scars>>
    BY DEF SnapApp, SnapStyle, SnapHint
  <1>5. ~Prepared' /\ ~Committed'
    BY <1>2, ProjectInitAssumption DEF Prepared, Committed, Undo
  <1>6. CASE SnapApp
    <2>1. Copied(app, backup.app) = app
      BY <1>1, <1>3, CopiedFacts DEF Settled
    <2>2. PICK saved \in Worked(backup.app, app) : backup' = [backup EXCEPT !.app = saved]
      BY <1>6, <2>1 DEF SnapApp
    <2>3. /\ saved \in Files /\ (Well => saved = app)
          /\ \A p \in Paths : saved[p] = backup.app[p] \/ saved[p] = app[p]
      BY <1>1, <2>2, WorkedFacts
    <2>4. backup'.app = saved
      BY <1>1, <2>2 DEF Backups
    <2>5. Settled'
      BY <1>3, <1>4, <2>3, <2>4 DEF Settled, Whole, Thin, files
    <2>6. Well \/ pc' \in {"idle", "down"}
      BY <1>1, <1>6, CallFacts DEF SnapApp
    <2>7. tx'.app = (app # Empty) /\ app' = app /\ pc' \in {"snap_style", "idle", "down"}
      BY <1>1, <1>4, <1>6, CallFacts DEF SnapApp, Txs, files
    <2>8. SnapInv'
      BY <2>3, <2>4, <2>6, <2>7 DEF SnapInv
    <2>9. QED
      BY <1>5, <2>5, <2>8 DEF WorkInv
  <1>7. CASE SnapStyle
    <2>1. PICK saved \in Saved(style, backup.style) : backup' = [backup EXCEPT !.style = saved]
      BY <1>7 DEF SnapStyle
    <2>2. backup'.style = saved /\ backup'.app = backup.app
      BY <1>1, <2>1 DEF Backups
    <2>3. Well /\ style # None => saved = style
      BY <2>1 DEF Saved, Wrote
    <2>4. Settled'
      BY <1>3, <1>4, <2>2 DEF Settled, Whole, Thin, files
    <2>5. pc = "snap_style" /\ ((Well /\ pc' = "snap_hint") \/ pc' \in {"idle", "down"})
      BY <1>1, <1>7, CallFacts DEF SnapStyle
    <2>6. tx'.style = (style # None) /\ tx'.app = tx.app /\ app' = app /\ style' = style
      BY <1>1, <1>4, <1>7 DEF SnapStyle, Txs, files
    <2>7. SnapInv'
      BY <1>3, <2>2, <2>3, <2>5, <2>6 DEF SnapInv
    <2>8. QED
      BY <1>5, <2>4, <2>7 DEF WorkInv
  <1>8. CASE SnapHint
    <2>1. PICK saved \in Saved(hint, backup.hint) : backup' = [backup EXCEPT !.hint = saved]
      BY <1>8 DEF SnapHint
    <2>2. backup'.hint = saved /\ backup'.style = backup.style /\ backup'.app = backup.app
      BY <1>1, <2>1 DEF Backups
    <2>3. Well /\ hint # None => saved = hint
      BY <2>1 DEF Saved, Wrote
    <2>4. Settled'
      BY <1>3, <1>4, <2>2 DEF Settled, Whole, Thin, files
    <2>5. pc = "snap_hint" /\ ((Well /\ pc' = "prepare") \/ pc' \in {"idle", "down"})
      BY <1>1, <1>8, CallFacts DEF SnapHint
    <2>6. /\ tx'.hint = (hint # None) /\ tx'.style = tx.style /\ tx'.app = tx.app
          /\ app' = app /\ style' = style /\ hint' = hint
      BY <1>1, <1>4, <1>8 DEF SnapHint, Txs, files
    <2>7. SnapInv'
      BY <1>3, <2>2, <2>3, <2>5, <2>6 DEF SnapInv
    <2>8. QED
      BY <1>5, <2>4, <2>7 DEF WorkInv
  <1>9. QED
    BY <1>6, <1>7, <1>8

(* The journal makes the transaction one that is rolled back. *)
LEMMA WorkPrepare ==
  ASSUME Kind, WorkInv, Clear, Prepare
  PROVE  WorkInv'
PROOF
  <1>1. /\ Types /\ journal = None /\ pc = "prepare" /\ Torn \notin Journals /\ None \notin Journals
        /\ edits \in Nat /\ safe \in Nat
    BY KindPrepare, ProjectInitAssumption DEF Kind, Types, Prepare, Call
  <1>2. Settled /\ SnapInv
    BY <1>1 DEF WorkInv
  <1>3. UNCHANGED <<files, log, backup, edits, safe, scars>>
    BY DEF Prepare
  <1>4. /\ journal' \in {None, Torn, Journal("Prepared")}
        /\ pc' \in {"clean", "idle", "down"} /\ (pc' = "clean" => journal' = Journal("Prepared"))
    BY KindPrepare
  <1>5. CASE journal' \in {None, Torn} /\ pc' # "clean"
    <2>1. Settled' /\ SnapInv' /\ ~Prepared' /\ ~Committed'
      BY <1>1, <1>2, <1>3, <1>4, <1>5
         DEF Settled, SnapInv, Whole, Thin, files, Prepared, Committed, Undo
    <2>2. QED
      BY <2>1 DEF WorkInv
  <1>6. CASE journal' = Journal("Prepared")
    <2>1. /\ journal' \in Journals /\ journal'.status = "Prepared"
          /\ journal'.app = tx.app /\ journal'.style = tx.style /\ journal'.hint = tx.hint
      BY <1>1, <1>6, KindPrepare, JournalFacts DEF Types, Kind, PcInv, Snap
    <2>2. PICK a \in Files, h \in Templates \cup {None} : a = app /\ h = hint
      BY <1>1, <1>2 DEF Types, Settled, Whole, Thin
    <2>3. Flags' = journal'
      BY <1>4 DEF Flags, Undo
    <2>4. Saves(a, h, Flags)'
      BY <1>1, <1>2, <1>3, <2>1, <2>2, <2>3 DEF Settled, SnapInv, Saves, Remnant, Thin
    <2>5. Whole(a, h)'
      BY <1>1, <1>2, <1>3, <2>2, WholeKept DEF Settled
    <2>6. BuildInv(a, h, tx.t)' /\ UndoInv(a, h)' /\ (scars \subseteq {"thinned"} => log = h)'
      BY <1>2, <1>3, <1>4, <2>2 DEF BuildInv, UndoInv, Build, Settled, files
    <2>7. Reversible'
      BY <2>2, <2>4, <2>5, <2>6 DEF Reversible, LeadsBack
    <2>8. journal' # None /\ ~Committed'
      BY <1>1, <2>1 DEF Committed
    <2>9. QED
      BY <2>7, <2>8 DEF WorkInv
  <1>7. QED
    BY <1>4, <1>5, <1>6

(* The steps of initialize: the old template's file goes, the new ones     *)
(* come, and the kept file is only written where there is none.            *)
LEMMA WorkBuild ==
  ASSUME Kind, WorkInv, Clear, Clean \/ WriteTemplate \/ ApplyTokens \/ WriteStyle
  PROVE  WorkInv'
PROOF
  <1>1. /\ Types /\ PcInv /\ app \in Files /\ None \notin Journals /\ None \notin Nat
        /\ edits \in Nat /\ safe \in Nat
    BY ProjectInitAssumption DEF Kind, Types
  <1>2. UNCHANGED <<hint, log, journal, backup, tx, edits, safe, scars>>
    BY DEF Clean, WriteTemplate, ApplyTokens, WriteStyle, files
  <1>3. pc \in Build /\ pc' \in Build \cup {"undo_app", "down"}
        /\ (pc' \in Build => Well \/ ApplyTokens)
    BY <1>1, CallFacts DEF Clean, WriteTemplate, ApplyTokens, WriteStyle, Build
  <1>4. Same("Prepared") /\ tx.t \in Templates
    BY <1>1, <1>3 DEF PcInv, Same, Journals
  <1>5. CASE pc' = "undo_app"
    BY <1>2, <1>3, <1>5, TurnedBack
  <1>6. CASE pc' = "down"
    BY <1>1, <1>2, <1>4, <1>6, Paused DEF Same, Committed
  <1>7. CASE pc' \in Build
    <2>1. PICK a \in Files, h \in Templates \cup {None} : LeadsBack(a, h)
      BY <1>4 DEF WorkInv, Prepared, Reversible, Same
    <2>2. Whole(a, h) /\ BuildInv(a, h, tx.t) /\ hint = h
      BY <1>3, <2>1 DEF LeadsBack, BuildInv
    <2>3. PICK t \in Templates : t = tx.t
      BY <1>4
    <2>4. BuildInv(a, h, tx.t)'
      <3>1. CASE Clean
        <4>1. [p \in Paths |-> IF p \in OldTemplates \ {tx.t} THEN None ELSE app[p]] \in Files
          BY <1>1 DEF Files, Contents
        <4>2. pc = "clean" /\ pc' = "write" /\ Well
          BY <1>1, <1>3, <1>7, <3>1, CallFacts DEF Clean, ApplyTokens, Call, Build
        <4>3. app' = [p \in Paths |-> IF p \in OldTemplates \ {tx.t} THEN None ELSE app[p]]
          BY <1>1, <3>1, <4>1, <4>2, WorkedFacts DEF Clean
        <4>4. app = a /\ OldTemplates = {h} \cap Templates
          BY <2>2, <4>2 DEF BuildInv, OldTemplates
        <4>5. app' = [p \in Paths |-> IF p = h /\ h \in Templates \ {t} THEN None ELSE a[p]]
          BY <2>3, <4>3, <4>4
        <4>6. QED
          BY <1>2, <2>2, <2>3, <4>2, <4>5 DEF BuildInv, Build
      <3>2. CASE WriteTemplate
        <4>1. pc = "write" /\ pc' = "tokens" /\ Well
          BY <1>1, <1>3, <1>7, <3>2, CallFacts DEF WriteTemplate, ApplyTokens, Call, Build
        <4>2. /\ app' \in Files
              /\ \A p \in Paths : app'[p] =
                   IF p \in {t, Shared} \/ (p = Kept /\ app[p] = None) THEN t ELSE app[p]
          BY <1>1, <2>3, <3>2, <4>1, WorkedFacts, TemplateFacts DEF WriteTemplate
        <4>3. \A p \in Paths : app[p] = IF p = h /\ h \in Templates \ {t} THEN None ELSE a[p]
          BY <2>2, <2>3, <4>1 DEF BuildInv
        <4>4. app'[Shared] = t
          BY <4>2, EmptyFacts
        <4>5. \A x \in Templates : app'[x] = IF x = t THEN x ELSE None
          <5>1. ASSUME NEW x \in Templates PROVE app'[x] = IF x = t THEN x ELSE None
            <6>1. x \in Paths /\ x # Shared /\ x # Kept
              BY EmptyFacts, ProjectInitAssumption
            <6>2. app'[x] = IF x = t THEN t ELSE app[x]
              BY <4>2, <6>1
            <6>3. x # t => app[x] = None
              BY <2>2, <4>3, <6>1 DEF Whole, Thin
            <6>4. QED
              BY <6>2, <6>3
          <5>2. QED
            BY <5>1
        <4>6. safe > 0 => app'[Kept] \in safe..edits \/ Thin
          <5>1. Kept \in Paths /\ Kept # Shared /\ Kept # t /\ Kept \notin Templates
            BY EmptyFacts, ProjectInitAssumption
          <5>2. app[Kept] = a[Kept]
            BY <4>3, <5>1
          <5>3. safe > 0 => (a[Kept] \in safe..edits /\ a[Kept] # None) \/ Thin
            BY <1>1, <2>2 DEF Whole, Thin
          <5>4. QED
            BY <4>2, <5>1, <5>2, <5>3
        <4>7. Whole(app, t)' /\ t # None
          BY <1>2, <4>2, <4>4, <4>5, <4>6, ProjectInitAssumption DEF Whole, Thin
        <4>8. QED
          BY <1>2, <2>2, <2>3, <4>1, <4>7 DEF BuildInv, Build, Whole, Thin
      <3>3. CASE ApplyTokens
        <4>1. pc = "tokens" /\ pc' = "style" /\ app' = app
          BY <1>7, <3>3 DEF ApplyTokens, Build, files
        <4>2. QED
          BY <1>2, <2>2, <4>1 DEF BuildInv, Whole, Thin, Build
      <3>4. CASE WriteStyle
        <4>1. pc = "style" /\ pc' = "commit" /\ Well
          BY <1>1, <1>3, <1>7, <3>4, CallFacts DEF WriteStyle, ApplyTokens, Call, Build
        <4>2. app' = app /\ style' = t
          BY <2>3, <3>4, <4>1 DEF WriteStyle, Wrote
        <4>3. QED
          BY <1>2, <2>2, <2>3, <4>1, <4>2 DEF BuildInv, Whole, Thin, Build
      <3>5. QED
        BY <3>1, <3>2, <3>3, <3>4
    <2>5. QED
      BY <1>2, <1>3, <1>7, <2>1, <2>4, Advanced
  <1>8. QED
    BY <1>3, <1>5, <1>6, <1>7

(* The commit mark makes the transaction one that is completed. *)
LEMMA WorkMark ==
  ASSUME Kind, WorkInv, Clear, Clear', MarkCommitted
  PROVE  WorkInv'
PROOF
  <1>1. /\ Types /\ PcInv /\ pc = "commit" /\ pc \in Build /\ UNCHANGED tx
        /\ Torn \notin Journals /\ None \notin Journals
    BY KindMark, ProjectInitAssumption DEF Kind, Build
  <1>2. Same("Prepared") /\ journal.t = tx.t /\ tx.t \in Templates
    BY <1>1 DEF PcInv, Same, Journals
  <1> DEFINE j == Journal("WorkspaceCommitted")
  <1>3. j \in Journals /\ j.status = "WorkspaceCommitted" /\ j.t = tx.t
    BY <1>1, <1>2, JournalFacts DEF Types
  <1>4. /\ journal' \in {journal, Torn, j} /\ pc' \in {"record", "undo_app", "down"}
        /\ (pc' = "record" => journal' = j)
    BY KindMark
  <1>5. /\ UNCHANGED <<files, store, log, backup, tx, edits, safe>> /\ scars \subseteq scars'
        /\ scars' = IF pc' = "undo_app" /\ journal' = j THEN scars \cup {"retracted"} ELSE scars
    BY DEF MarkCommitted
  <1> HIDE DEF j
  <1>6. CASE journal' = j
    <2>1. pc' \in {"record", "down"}
      BY <1>4, <1>5, <1>6 DEF Clear
    <2>2. PICK a \in Files, h \in Templates \cup {None} : LeadsBack(a, h)
      BY <1>2 DEF WorkInv, Prepared, Reversible, Same
    <2>3. Whole(app, tx.t) /\ style = tx.t
      BY <1>1, <2>2 DEF LeadsBack, BuildInv
    <2>4. Completes(journal.t)'
      BY <1>3, <1>5, <1>6, <2>1, <2>3 DEF Completes, Whole, Thin, files
    <2>5. ~Prepared' /\ journal' # None
      BY <1>1, <1>3, <1>6, <2>1 DEF Prepared, Undo
    <2>6. QED
      BY <2>4, <2>5 DEF WorkInv
  <1>7. CASE journal' \in {journal, Torn} /\ pc' = "undo_app"
    BY <1>1, <1>5, <1>7, TurnedBack
  <1>8. CASE journal' = journal /\ pc' = "down"
    BY <1>1, <1>2, <1>5, <1>8, Paused DEF Committed, Same
  <1>9. CASE journal' = Torn /\ pc' = "down"
    BY <1>1, <1>9, ProjectInitAssumption DEF WorkInv, Prepared, Committed, Undo
  <1>10. QED
    BY <1>4, <1>6, <1>7, <1>8, <1>9

(* The record in the store and state/project.json, also on recovery. *)
LEMMA WorkFinish ==
  ASSUME Kind, WorkInv, Clear, Record \/ WriteHint \/ RedoRecord \/ RedoHint
  PROVE  WorkInv'
PROOF
  <1>1. Types /\ PcInv /\ None \notin Journals
    BY ProjectInitAssumption DEF Kind
  <1>2. /\ UNCHANGED <<app, style, journal, backup, tx, edits, safe>> /\ scars \subseteq scars'
    BY DEF Record, WriteHint, RedoRecord, RedoHint, Upsert, files
  <1>3. pc \in {"record", "hint", "redo_record", "redo_hint"}
    BY DEF Record, WriteHint, RedoRecord, RedoHint, Call
  <1>4. Committed /\ journal # None /\ (pc \in Finish => journal.t = tx.t)
    BY <1>1, <1>3 DEF PcInv, Same, Committed, Finish, Redo
  <1>5. PICK t \in Templates : t = journal.t
    BY <1>4 DEF Committed, Journals
  <1>6. Whole(app, t) /\ style = t /\ (pc \in {"hint", "redo_hint"} => store = t)
    BY <1>4, <1>5 DEF WorkInv, Completes
  <1>7. CASE pc' \in {"idle", "down"}
    BY <1>2, <1>4, <1>7, Paused
  <1>8. CASE pc' \notin {"idle", "down"}
    <2>1. /\ pc' \in {"hint", "redo_hint", "forget", "redo_forget"} /\ store' = t
          /\ (pc' \in {"forget", "redo_forget"} => hint' = t)
      <3>1. CASE Record
        BY <1>1, <1>4, <1>5, <1>8, <3>1, CallFacts DEF Record, Upsert, Finish
      <3>2. CASE RedoRecord
        BY <1>1, <1>5, <1>8, <3>2, CallFacts DEF RedoRecord, Upsert
      <3>3. CASE WriteHint
        BY <1>1, <1>4, <1>5, <1>6, <1>8, <3>3, CallFacts DEF WriteHint, Wrote, Finish
      <3>4. CASE RedoHint
        BY <1>1, <1>5, <1>6, <1>8, <3>4, CallFacts DEF RedoHint, Wrote
      <3>5. QED
        BY <3>1, <3>2, <3>3, <3>4
    <2>2. Completes(journal.t)'
      BY <1>2, <1>5, <1>6, <2>1 DEF Completes, Whole, Thin
    <2>3. ~Prepared' /\ journal' # None
      BY <1>2, <1>4, <2>1 DEF Prepared, Committed, Undo
    <2>4. QED
      BY <2>2, <2>3 DEF WorkInv
  <1>9. QED
    BY <1>7, <1>8

(* The steps of rollback: it leads back to what is left of the backup. *)
LEMMA WorkUndo ==
  ASSUME Kind, WorkInv, Clear, UndoRemoveApp \/ UndoCopyApp \/ UndoStyle \/ UndoHint
  PROVE  WorkInv'
PROOF
  <1>1. /\ Types /\ PcInv /\ app \in Files /\ None \notin Journals
        /\ backup.app \in Files /\ tx.app \in BOOLEAN /\ tx.style \in BOOLEAN /\ tx.hint \in BOOLEAN
    BY ProjectInitAssumption DEF Kind, Types, Backups, Txs
  <1>2. UNCHANGED <<log, journal, backup, tx, edits, safe, scars>>
    BY DEF UndoRemoveApp, UndoCopyApp, UndoStyle, UndoHint
  <1>3. pc \in Undo /\ pc' \in Undo \cup {"idle", "down"}
    BY <1>1, CallFacts DEF UndoRemoveApp, UndoCopyApp, UndoStyle, UndoHint, Undo
  <1>4. journal # None /\ ~Committed
    BY <1>1, <1>3, ProjectInitAssumption DEF PcInv, Same, Clear, Committed
  <1>5. CASE pc' \in {"idle", "down"}
    BY <1>2, <1>4, <1>5, Paused
  <1>6. CASE pc' \in Undo
    <2>1. PICK a \in Files, h \in Templates \cup {None} : LeadsBack(a, h)
      BY <1>3 DEF WorkInv, Prepared, Reversible
    <2>2. Whole(a, h) /\ Saves(a, h, tx) /\ UndoInv(a, h)
      BY <1>3, <2>1 DEF LeadsBack, Flags
    <2>3. CASE ~UndoCopyApp
      <3>1. ASSUME UndoRemoveApp PROVE UndoInv(a, h)'
        <4>1. pc' = "undo_copy" /\ Well
          BY <1>1, <1>6, <3>1, CallFacts DEF UndoRemoveApp, Undo
        <4>2. app' = Empty
          BY <1>1, <3>1, <4>1, WorkedFacts, EmptyFacts DEF UndoRemoveApp
        <4>3. QED
          BY <4>1, <4>2 DEF UndoInv
      <3>2. ASSUME UndoStyle PROVE UndoInv(a, h)'
        <4>1. /\ pc = "undo_style" /\ pc' = "undo_hint" /\ Well /\ app' = app
              /\ style' \in Restored(style, backup.style, tx.style)
              /\ tx.style => backup.style # None
          BY <1>1, <1>6, <3>2, CallFacts DEF UndoStyle, Undo
        <4>2. style' = IF tx.style THEN backup.style ELSE None
          BY <1>1, <4>1, ProjectInitAssumption DEF Restored, Wrote
        <4>3. style' = h
          BY <1>1, <2>2, <4>1, <4>2 DEF Saves
        <4>4. QED
          BY <2>2, <4>1, <4>3 DEF UndoInv
      <3>3. ASSUME UndoHint PROVE UndoInv(a, h)'
        <4>1. /\ pc = "undo_hint" /\ pc' = "undo_forget" /\ Well /\ app' = app /\ style' = style
              /\ hint' \in Restored(hint, backup.hint, tx.hint)
              /\ tx.hint => backup.hint # None
          BY <1>1, <1>6, <3>3, CallFacts DEF UndoHint, Undo
        <4>2. hint' = IF tx.hint THEN backup.hint ELSE None
          BY <1>1, <4>1, ProjectInitAssumption DEF Restored, Wrote
        <4>3. hint' = h
          BY <1>1, <2>2, <4>1, <4>2 DEF Saves
        <4>4. QED
          BY <2>2, <4>1, <4>3 DEF UndoInv
      <3>4. UndoInv(a, h)'
        BY <2>3, <3>1, <3>2, <3>3
      <3>5. QED
        BY <1>2, <1>3, <1>6, <2>1, <3>4, Retreated
    <2>4. CASE UndoCopyApp
      <3>1. /\ pc = "undo_copy" /\ pc' = "undo_style" /\ Well
            /\ app' \in Worked(app, IF tx.app THEN Copied(backup.app, app) ELSE app)
        BY <1>1, <1>6, <2>4, CallFacts DEF UndoCopyApp, Undo
      <3>2. app = Empty
        BY <2>2, <3>1 DEF UndoInv
      <3>3. app' = IF tx.app THEN backup.app ELSE Empty
        BY <1>1, <3>1, <3>2, CopiedFacts DEF Worked
      <3>4. PICK b \in Files : b = IF tx.app THEN backup.app ELSE Empty
        BY <1>1, EmptyFacts
      <3>5. Remnant(b, a)
        BY <1>1, <2>2, <3>4 DEF Saves, Remnant
      <3>6. Whole(b, h)
        BY <2>2, <3>5, RemnantWhole
      <3>7. Saves(b, h, tx)
        BY <1>1, <2>2, <3>4 DEF Saves, Remnant
      <3>8. LeadsBack(b, h)
        BY <1>3, <2>1, <3>1, <3>2, <3>6, <3>7 DEF LeadsBack, Flags, BuildInv, UndoInv, Build
      <3>9. UndoInv(b, h)'
        BY <3>1, <3>3, <3>4 DEF UndoInv
      <3>10. QED
        BY <1>2, <1>3, <1>6, <3>8, <3>9, Retreated
    <2>5. QED
      BY <2>3, <2>4
  <1>7. QED
    BY <1>3, <1>5, <1>6

(* The removal of the transaction directory ends a rollback or a           *)
(* completion; what it leaves of the backup is never a wrong file.         *)
LEMMA WorkForget ==
  ASSUME Kind, WorkInv, Logged, Clear, Clear', NEW here \in {"undo_forget", "redo_forget", "forget"},
         NEW after \in {tx.then, "idle"}, RemoveTransaction(here, after)
  PROVE  WorkInv'
PROOF
  <1>1. /\ Types /\ PcInv /\ None \notin Journals /\ backup \in Backups
        /\ edits \in Nat /\ safe \in Nat /\ tx.then \in {"idle", "snap_app"}
    BY ProjectInitAssumption DEF Kind, Types, Txs
  <1>2. /\ pc = here /\ pc' \in {"idle", "down", "snap_app"}
        /\ pc' = "snap_app" => Well
    BY <1>1, CallFacts DEF RemoveTransaction
  <1>3. /\ UNCHANGED <<files, store, log, tx, edits, safe>> /\ scars \subseteq scars'
        /\ journal' \in {None, journal} /\ (Well => journal' = None)
        /\ journal' = None => backup' = NoBackup
        /\ journal' = journal => \/ journal = None \/ backup' = backup
                                 \/ \E left \in Worked(backup.app, Empty) :
                                      backup' \in [app : {left}, style : {backup.style, None},
                                                  hint : {backup.hint, None}]
        /\ Thinned => Thin'
    BY DEF RemoveTransaction, Clear, Thin
  <1>4. pc' \notin Undo /\ pc' \notin Build /\ pc \notin {"idle", "down"}
    BY <1>2 DEF Undo, Build
  <1>5. ASSUME journal' = None PROVE WorkInv'
    <2>1. Whole(app, hint) /\ style = hint /\ (scars \subseteq {"thinned"} => log = hint)
      <3>1. CASE here = "undo_forget"
        <4>1. Prepared
          BY <1>2, <3>1 DEF Prepared, Undo
        <4>2. PICK a \in Files, h \in Templates \cup {None} : LeadsBack(a, h)
          BY <4>1 DEF WorkInv, Reversible
        <4>3. QED
          BY <1>2, <3>1, <4>2 DEF LeadsBack, UndoInv
      <3>2. CASE here # "undo_forget"
        <4>1. Committed
          BY <1>1, <1>2, <3>2 DEF PcInv, Same, Committed, Finish, Redo
        <4>2. QED
          BY <1>2, <3>2, <4>1 DEF WorkInv, Completes, Logged
      <3>3. QED
        BY <3>1, <3>2
    <2>2. Settled'
      BY <1>3, <1>5, <2>1, EmptyFacts DEF Settled, Whole, Thin, files
    <2>3. SnapInv'
      BY <1>2 DEF SnapInv
    <2>4. ~Prepared' /\ ~Committed'
      BY <1>1, <1>4, <1>5 DEF Prepared, Committed
    <2>5. QED
      BY <2>2, <2>3, <2>4 DEF WorkInv
  <1>6. ASSUME journal' = journal, journal # None PROVE WorkInv'
    <2>1. ASSUME Prepared' PROVE Reversible'
      <3>1. journal \in Journals /\ journal.status = "Prepared" /\ Prepared
        BY <1>4, <1>6, <2>1 DEF Prepared
      <3>2. journal # Torn /\ pc \in Undo
        BY <1>1, <1>2, <3>1, ProjectInitAssumption DEF PcInv, Same, Undo, Redo, Finish
      <3>3. PICK a \in Files, h \in Templates \cup {None} : LeadsBack(a, h)
        BY <3>1 DEF WorkInv, Reversible
      <3>4. Saves(a, h, journal)
        BY <1>1, <3>1, <3>2, <3>3 DEF PcInv, Same, LeadsBack, Saves, Remnant, Thin, Flags
      <3>5. /\ backup'.style \in {backup.style, None} /\ backup'.hint \in {backup.hint, None}
            /\ \/ backup'.app = backup.app
               \/ Thin' /\ \A p \in Paths : backup'.app[p] \in {backup.app[p], None}
        <4>1. CASE backup' = backup
          BY <4>1
        <4>2. CASE backup' # backup
          <5>1. PICK left \in Worked(backup.app, Empty) :
                  backup' \in [app : {left}, style : {backup.style, None},
                              hint : {backup.hint, None}]
            BY <1>3, <1>6, <4>2
          <5> backup.app \in Files
            BY <1>1 DEF Backups
          <5>2. \A p \in Paths : left[p] \in {backup.app[p], None}
            BY WorkedFacts, EmptyFacts
          <5>3. /\ backup'.app = left /\ backup'.style \in {backup.style, None}
                /\ backup'.hint \in {backup.hint, None}
            BY <5>1
          <5>4. backup'.app # backup.app => Thin'
            BY <1>1, <1>3, <1>6, <3>1, <3>2, <5>3 DEF Thinned
          <5>5. QED
            BY <5>2, <5>3, <5>4
        <4>3. QED
          BY <4>1, <4>2
      <3>6. Flags' = journal /\ journal' = journal
        BY <1>4, <1>6 DEF Flags
      <3>7. Saves(a, h, Flags)'
        <4>1. Thin => Thin'
          BY <1>3 DEF Thin
        <4>2. journal.app => Remnant(backup.app, a)'
          <5>1. ASSUME journal.app PROVE Remnant(backup.app, a)
            BY <3>4, <5>1 DEF Saves
          <5>2. ASSUME journal.app, backup'.app = backup.app PROVE Remnant(backup.app, a)'
            BY <4>1, <5>1, <5>2 DEF Remnant
          <5>3. ASSUME journal.app, Thin', \A p \in Paths : backup'.app[p] \in {backup.app[p], None}
                PROVE  Remnant(backup.app, a)'
            <6>1. \A p \in Paths : backup.app[p] \in {a[p], None}
              BY <5>1, <5>3 DEF Remnant
            <6>2. \A p \in Paths : backup'.app[p] \in {a[p], None}
              BY <5>3, <6>1
            <6>3. QED
              BY <5>3, <6>2 DEF Remnant
          <5>4. QED
            BY <3>5, <5>2, <5>3
        <4>3. /\ ~journal.app => a = Empty
              /\ journal.style = (h # None) /\ (journal.style => backup'.style \in {h, None})
              /\ journal.hint = (h # None) /\ (journal.hint => backup'.hint \in {h, None})
          BY <3>4, <3>5 DEF Saves
        <4>4. QED
          BY <3>6, <4>2, <4>3 DEF Saves
      <3>8. Whole(a, h)'
        BY <1>1, <1>3, <3>3, WholeKept DEF LeadsBack
      <3>9. BuildInv(a, h, tx.t)' /\ UndoInv(a, h)' /\ (scars \subseteq {"thinned"} => log = h)'
        BY <1>2, <1>3, <1>4, <3>3 DEF BuildInv, UndoInv, Build, LeadsBack
      <3>10. QED
        BY <3>3, <3>7, <3>8, <3>9 DEF Reversible, LeadsBack
    <2>2. ASSUME Committed' PROVE Completes(journal.t)'
      BY <1>2, <1>3, <1>6, <2>2 DEF Committed, WorkInv, Completes, Whole, Thin, files
    <2>3. QED
      BY <1>6, <2>1, <2>2 DEF WorkInv
  <1>7. QED
    BY <1>3, <1>5, <1>6

(* An edit made while nothing is pending is safe; one made while a         *)
(* transaction waits for its recovery may be rolled back.                  *)
LEMMA WorkEdit ==
  ASSUME Kind, WorkInv, Clear, Edit
  PROVE  WorkInv'
PROOF
  <1>1. /\ Types /\ app \in Files /\ edits \in Nat /\ safe \in 0..edits /\ None \notin Journals
        /\ pc = "idle" /\ pc' = "idle" /\ edits' = edits + 1 /\ edits' \in 1..MaxEdits
        /\ app' = [app EXCEPT ![Kept] = edits'] /\ app[Shared] # None
        /\ safe' = IF journal = None THEN edits' ELSE safe
        /\ UNCHANGED <<style, hint, log, journal, backup, tx, scars>>
    BY ProjectInitAssumption DEF Kind, Types, Edit
  <1>2. /\ app' \in Files /\ app'[Kept] = edits'
        /\ \A p \in Paths : p # Kept => app'[p] = app[p]
    BY <1>1, EmptyFacts DEF Files, Contents
  <1>3. ASSUME NEW h \in Templates, Whole(app, h)
        PROVE  (Whole(app, h))' /\ (\A p \in Paths : app[p] # None => app'[p] # None)
    <2>1. /\ app'[Shared] = h
          /\ \A t \in Templates : app'[t] = (IF t = h THEN t ELSE None) \/ (Thin /\ app'[t] = None)
      <3>1. Shared \in Paths /\ Shared # Kept /\ Kept \notin Templates /\ Templates \subseteq Paths
        BY EmptyFacts, ProjectInitAssumption
      <3>2. app[Shared] = h
        BY <1>1, <1>3 DEF Whole
      <3>3. \A t \in Templates : app'[t] = app[t]
        BY <1>2, <3>1
      <3>4. \A t \in Templates : app[t] = (IF t = h THEN t ELSE None) \/ (Thin /\ app[t] = None)
        BY <1>3 DEF Whole
      <3>5. app'[Shared] = h
        BY <1>2, <3>1, <3>2
      <3>6. QED
        BY <3>3, <3>4, <3>5
    <2>2. safe' > 0 => app'[Kept] \in safe'..edits'
      BY <1>1, <1>2
    <2>3. edits' # None /\ h # None
      BY <1>1, ProjectInitAssumption
    <2>4. \A p \in Paths : app[p] # None => app'[p] # None
      BY <1>2, <2>3
    <2>5. /\ app'[Shared] = h
          /\ \A t \in Templates : app'[t] = (IF t = h THEN t ELSE None) \/ (Thin' /\ app'[t] = None)
      BY <1>1, <2>1 DEF Thin
    <2>6. Whole(app, h)'
      BY <1>2, <2>2, <2>3, <2>5 DEF Whole
    <2>7. QED
      BY <2>4, <2>6
  <1>4. ASSUME journal' = None PROVE Settled' /\ SnapInv'
    <2>1. Settled /\ hint \in Templates
      BY <1>1, <1>4 DEF WorkInv, Settled, Whole, Thin
    <2>2. PICK h \in Templates : h = hint
      BY <2>1
    <2>3. Whole(app, h)' /\ (\A p \in Paths : app[p] # None => app'[p] # None)
      BY <1>3, <2>1, <2>2 DEF Settled
    <2>4. Settled'
      BY <1>1, <2>1, <2>2, <2>3 DEF Settled, Whole, Thin
    <2>5. SnapInv'
      BY <1>1 DEF SnapInv
    <2>6. QED
      BY <2>4, <2>5
  <1>5. ASSUME Prepared' PROVE Reversible'
    <2>1. Prepared /\ journal # None
      BY <1>1, <1>5 DEF Prepared, Undo
    <2>2. PICK a \in Files, h \in Templates \cup {None} : LeadsBack(a, h)
      BY <2>1 DEF WorkInv, Reversible
    <2>3. Whole(a, h)'
      BY <1>1, <2>1, <2>2, WholeKept DEF LeadsBack
    <2>4. Saves(a, h, Flags)' /\ (scars \subseteq {"thinned"} => log = h)'
      BY <1>1, <2>2 DEF LeadsBack, Saves, Remnant, Thin, Flags
    <2>5. BuildInv(a, h, tx.t)' /\ UndoInv(a, h)'
      BY <1>1 DEF BuildInv, UndoInv, Build
    <2>6. QED
      BY <2>2, <2>3, <2>4, <2>5 DEF Reversible, LeadsBack
  <1>6. ASSUME Committed' PROVE Completes(journal.t)'
    <2>1. Committed /\ Completes(journal.t)
      BY <1>1, <1>6 DEF Committed, WorkInv
    <2>2. PICK h \in Templates : h = journal.t
      BY <2>1 DEF Committed, Journals
    <2>3. Whole(app, h)'
      BY <1>3, <2>1, <2>2 DEF Completes
    <2>4. QED
      BY <1>1, <2>1, <2>2, <2>3 DEF Completes, Whole, Thin
  <1>7. QED
    BY <1>4, <1>5, <1>6 DEF WorkInv

-----------------------------------------------------------------------------
(* The store in memory is what its log says, unless an append failed and   *)
(* the process went on.                                                    *)
LEMMA LoggedStep ==
  ASSUME Kind, Logged, Next
  PROVE  Logged' /\ scars \subseteq scars'
PROOF
  <1>1. CASE Startup
    BY <1>1 DEF Startup, Logged
  <1>2. CASE Record \/ RedoRecord
    <2>1. pc # "down"
      BY <1>2 DEF Record, RedoRecord, Call
    <2>2. QED
      BY <1>2, <2>1 DEF Record, RedoRecord, Upsert, Logged
  <1>3. CASE ~Startup /\ ~Record /\ ~RedoRecord
    <2>1. pc # "down" /\ UNCHANGED <<store, log>> /\ scars \subseteq scars'
      BY <1>3 DEF Next, Begin, SnapApp, SnapStyle, SnapHint, Prepare, Clean, WriteTemplate,
                  ApplyTokens, WriteStyle, MarkCommitted, WriteHint, Complete, UndoRemoveApp,
                  UndoCopyApp, UndoStyle, UndoHint, UndoForget, RedoHint, RedoForget, Stop, Edit,
                  RemoveTransaction, Call, files
    <2>2. QED
      BY <2>1 DEF Logged
  <1>4. QED
    BY <1>1, <1>2, <1>3

LEMMA InitStep == Init => IInv
PROOF
  <1> SUFFICES ASSUME Init PROVE IInv
    OBVIOUS
  <1>1. Types
    BY EmptyFacts, ProjectInitAssumption DEF Init, Types, Names, Pcs
  <1>2. PcInv /\ Logged
    BY EmptyFacts DEF Init, PcInv, Logged, Undo, Redo, Snap, Build, Finish
  <1>3. Settled /\ SnapInv
    BY EmptyFacts DEF Init, Settled, SnapInv, Whole, Thin
  <1>4. ~Prepared /\ ~Committed
    BY ProjectInitAssumption DEF Init, Prepared, Committed, Undo
  <1>5. QED
    BY <1>1, <1>2, <1>3, <1>4 DEF IInv, WorkInv

(* Every step of the tool, of recovery, of the process and of the agent    *)
(* keeps the invariant.                                                    *)
LEMMA NextStep ==
  ASSUME IInv, [Next]_vars
  PROVE  IInv'
PROOF
  <1>1. Kind /\ Logged /\ (Clear => WorkInv)
    BY DEF IInv, Kind
  <1>2. CASE UNCHANGED vars
    <2>1. Kind' /\ Logged'
      BY <1>1, <1>2, KindAround DEF Logged, vars
    <2>2. WorkInv' <=> WorkInv
      BY <1>2 DEF vars, WorkInv, Settled, SnapInv, Whole, Prepared, Reversible, LeadsBack, Saves,
                  Remnant, Thin, Flags, BuildInv, UndoInv, Committed, Completes
    <2>3. QED
      BY <1>1, <1>2, <2>1, <2>2 DEF IInv, Kind, Clear, vars
  <1>3. CASE Next
    <2>1. Logged' /\ scars \subseteq scars' /\ (Clear' => Clear)
      BY <1>1, <1>3, LoggedStep DEF Clear
    <2>2. ASSUME NEW t \in Templates, Begin(t) PROVE Kind' /\ (Clear' => WorkInv')
      <3>1. Kind'
        BY <1>1, <2>2, KindBegin DEF Begin
      <3>2. Clear => WorkInv'
        BY <1>1, <2>2, WorkBegin DEF Begin
      <3>3. QED
        BY <2>1, <3>1, <3>2
    <2>3. ASSUME SnapApp \/ SnapStyle \/ SnapHint PROVE Kind' /\ (Clear' => WorkInv')
      BY <1>1, <2>1, <2>3, KindSnap, WorkSnap
    <2>4. ASSUME Prepare PROVE Kind' /\ (Clear' => WorkInv')
      BY <1>1, <2>1, <2>4, KindPrepare, WorkPrepare
    <2>5. ASSUME Clean \/ WriteTemplate \/ ApplyTokens \/ WriteStyle
         PROVE  Kind' /\ (Clear' => WorkInv')
      BY <1>1, <2>1, <2>5, KindBuild, WorkBuild
    <2>6. ASSUME MarkCommitted PROVE Kind' /\ (Clear' => WorkInv')
      BY <1>1, <2>1, <2>6, KindMark, WorkMark
    <2>7. ASSUME Record \/ WriteHint \/ RedoRecord \/ RedoHint PROVE Kind' /\ (Clear' => WorkInv')
      BY <1>1, <2>1, <2>7, KindFinish, WorkFinish
    <2>8. ASSUME UndoRemoveApp \/ UndoCopyApp \/ UndoStyle \/ UndoHint
         PROVE  Kind' /\ (Clear' => WorkInv')
      BY <1>1, <2>1, <2>8, KindUndo, WorkUndo
    <2>9. ASSUME Complete \/ UndoForget \/ RedoForget PROVE Kind' /\ (Clear' => WorkInv')
      <3>1. PICK here \in {"undo_forget", "redo_forget", "forget"}, after \in {tx.then, "idle"} :
              RemoveTransaction(here, after)
        BY <2>9 DEF Complete, UndoForget, RedoForget
      <3>2. QED
        BY <1>1, <2>1, <3>1, KindForget, WorkForget
    <2>10. ASSUME Startup PROVE Kind' /\ (Clear' => WorkInv')
      <3>1. Clear => WorkInv'
        BY <1>1, <2>10, WorkBegin DEF Startup
      <3>2. QED
        BY <1>1, <2>1, <2>10, <3>1, KindAround
    <2>11. ASSUME Stop PROVE Kind' /\ (Clear' => WorkInv')
      <3>1. Clear => WorkInv'
        BY <1>1, <2>11, Paused DEF Stop, files
      <3>2. QED
        BY <1>1, <2>1, <2>11, <3>1, KindAround
    <2>12. ASSUME Edit PROVE Kind' /\ (Clear' => WorkInv')
      BY <1>1, <2>1, <2>12, KindAround, WorkEdit
    <2>13. Kind' /\ (Clear' => WorkInv')
      BY <1>3, <2>2, <2>3, <2>4, <2>5, <2>6, <2>7, <2>8, <2>9, <2>10, <2>11, <2>12 DEF Next
    <2>14. QED
      BY <2>1, <2>13 DEF IInv, Kind
  <1>4. QED
    BY <1>2, <1>3

(* The inductive invariant holds in every reachable state: a settled       *)
(* workspace is whole, a prepared transaction leads back to a whole one,   *)
(* and a committed one completes to one; where the removal that ends a     *)
(* rollback was cut off before the journal, to what is left of one.        *)
THEOREM Invariance == Spec => []IInv
  BY InitStep, NextStep, PTL DEF Spec

(* Files, journal, backup and project state keep their types through every *)
(* torn write, partial copy and partial removal.                           *)
THEOREM TypeCorrect == Spec => []TypeOK
PROOF
  <1>1. IInv => TypeOK
    BY DEF IInv, Types, TypeOK, Files, Contents, Names, Backups
  <1>2. QED
    BY <1>1, Invariance, PTL

(* Once no transaction is pending the workspace is that of one template    *)
(* and has the last safe edit, whichever calls of initialize, rollback or  *)
(* complete_committed_recovery failed on the way.  Only a removal of the   *)
(* backup cut off while the journal is there can cost files: they are then *)
(* absent, and none is another template's.                                 *)
THEOREM WholeTheorem == Spec => []WholeProject
PROOF
  <1>1. IInv => WholeProject
    BY DEF IInv, WorkInv, Settled, Whole, Thin, Intact, WholeProject, Quiet
  <1>2. QED
    BY <1>1, Invariance, PTL

(* Once no transaction is pending the runtime store names the template in  *)
(* the workspace, or in what such a removal left of it, in memory and      *)
(* after a restart.                                                        *)
THEOREM StoreTheorem == Spec => []StoreAgrees
PROOF
  <1>1. IInv => StoreAgrees
    BY DEF IInv, WorkInv, Settled, Whole, Thin, Intact, Logged, StoreAgrees, Quiet, Clear
  <1>2. QED
    BY <1>1, Invariance, PTL

(***************************************************************************)
(* The succession of a project's runs                                      *)
(***************************************************************************)

MaybeRun == Ids \cup {Nobody}

Statuses == {"None", "Queued", "Running", "NeedsUserInput", "Partial", "Closed"}

Phases == Mutable \cup {"None", "Review"}

RunRecords ==
    [status : Statuses, phase : Phases, parent : MaybeRun, pred : MaybeRun,
     succ : MaybeRun, op : MaybeRun, sandbox : Sandboxes \cup {NoSandbox},
     checkpoint : BOOLEAN, snapshot : MaybeRun, replan : BOOLEAN]

(* The steps of a start: before it has a run, before the run is in the log, *)
(* and before it acquired its sandbox                                       *)
Asking == {"sandbox", "project", "create"}

Unrecorded == {"pred", "record"}

Unready == Unrecorded \cup {"event", "bind", "acquire"}

CallRecords ==
    [step : {"idle", "prepare"} \cup Asking \cup Unready,
     kind : {"none", "initial", "child", "replan", "continue"}, phase : Phases,
     from : MaybeRun, wanted : Sandboxes \cup {NoSandbox}, run : MaybeRun]

Starters == Api \cup {Controller}

SuccessionTypes ==
    /\ runs \in [Ids -> RunRecords] /\ disk \in [Ids -> RunRecords]
    /\ calls \in [Starters -> CallRecords]
    /\ next \in Nat \ {0} /\ next + Cardinality(Pending) <= MaxRuns + 1
    /\ frozen \in [Ids -> Nat]
    /\ continued \subseteq Ids /\ working \subseteq Ids /\ launched \subseteq Ids
    /\ freezing \subseteq Ids
    /\ boot \in [stage : {"up", "down", "recovering"}, todo : SUBSET Ids, resumed : SUBSET Ids]

Born(r) == runs[r].status # "None"

Recorded(r) == disk[r].status # "None"

(* The log has the run as memory has it, or a start is about to record it; *)
(* the one it succeeds is there and out of its own start.                  *)
RunOK(r) ==
    /\ ~Born(r) => runs[r] = NoRun
    /\ ~Recorded(r) => disk[r] = NoRun
    /\ Born(r) => r < next
    /\ Recorded(r) =>
         /\ Born(r)
         /\ disk[r] = [runs[r] EXCEPT !.succ = disk[r].succ]
         /\ disk[r].succ # Nobody => runs[r].succ # Nobody
    /\ Born(r) /\ ~Recorded(r) =>
         \E c \in Starters : calls[c].run = r /\ calls[c].step \in Unrecorded
    /\ runs[r].pred # Nobody =>
         /\ Recorded(runs[r].pred) /\ ~Starting(runs[r].pred)
         /\ runs[r].op = runs[runs[r].pred].op
    /\ runs[r].parent # Nobody => runs[r].parent = runs[r].pred

NewRunOK(c, r) ==
    /\ r \in Ids
    /\ runs[r].status \in {"Queued", "Closed"} /\ r \notin launched
    /\ runs[r].pred = calls[c].from
    /\ calls[c].kind = "continue" => ~runs[r].checkpoint
    /\ calls[c].step \notin Unrecorded => Recorded(r)
    /\ calls[c].step = "pred" =>
         /\ calls[c].from # Nobody /\ runs[calls[c].from].succ # Nobody
         /\ Recorded(r) => runs[r].status = "Closed"
    /\ calls[c].step = "record" /\ calls[c].from # Nobody => disk[calls[c].from].succ # Nobody
    /\ calls[c].kind = "continue" /\ calls[c].step \in Unrecorded \cup {"event"} =>
         Lineage(calls[c].from) \cap continued = {}
    /\ \A d \in Starters : calls[d].run = r => d = c

CallOK(c) ==
    /\ calls[c].step = "idle" => calls[c] = Idle
    /\ calls[c].step \in Asking => calls[c].run = Nobody
    /\ calls[c].step \in Unready \cup {"prepare"} => NewRunOK(c, calls[c].run)
    /\ calls[c].from # Nobody => Recorded(calls[c].from) /\ ~Starting(calls[c].from)
    /\ calls[c].kind \in {"child", "replan", "continue"} <=> calls[c].from # Nobody
    /\ boot.stage # "up" /\ calls[c].step # "idle" => calls[c].kind = "continue"
    /\ calls[c].step = "event" => calls[c].kind = "continue"

SessionsOK ==
    /\ \A r \in working : runs[r].status = "Running"
    /\ \A r \in launched : Recorded(r) /\ runs[r].pred # Nobody /\ runs[r].parent = Nobody
    /\ boot.stage # "recovering" => boot.todo = {} /\ boot.resumed = {}
    /\ \A r \in boot.resumed : Born(r) /\ ~Starting(r)

Awaiting(r) == Interrupted(r) /\ (boot.stage = "down" \/ r \in boot.todo)

(* An active run that acquired its sandbox, and did so in this life of the *)
(* process if a restart had to ask for it again                            *)
Holder(r) ==
    /\ Active(r) /\ runs[r].sandbox # NoSandbox /\ r \notin unacquired
    /\ \A c \in Starters : calls[c].run = r => calls[c].step = "prepare"
    /\ Awaiting(r) => r \in working \/ Starting(r)

HoldersOK ==
    \A a \in Ids : Holder(a) =>
        /\ runs[a].sandbox \in busy
        /\ \A b \in Ids \ {a} : Holder(b) /\ runs[a].sandbox = runs[b].sandbox =>
              a \in Lineage(b) \/ b \in Lineage(a)

(* A successor, children aside, that is open or was launched *)
Heir(r) ==
    /\ runs[r].pred # Nobody /\ runs[r].parent = Nobody
    /\ Active(r) \/ r \in launched

HeirsOK ==
    \A y \in Ids : Heir(y) =>
        /\ runs[runs[y].pred].succ # Nobody
        /\ Recorded(y) => disk[runs[y].pred].succ # Nobody
        /\ \A z \in Ids : Heir(z) /\ runs[z].pred = runs[y].pred => z = y

(* No continuation is in the line of a run that may be continued *)
ContinuationsOK ==
    /\ \A p \in Ids : runs[p].snapshot = p =>
         /\ ~Starting(p)
         /\ frozen[p] < 1 => Lineage(p) \cap continued = {}
    /\ \A y \in continued : Recorded(y) /\ Lineage(runs[y].pred) \cap continued = {}

SInv ==
    /\ SuccessionTypes
    /\ \A r \in Ids : RunOK(r)
    /\ \A c \in Starters : CallOK(c)
    /\ SessionsOK
    /\ HoldersOK
    /\ HeirsOK
    /\ ContinuationsOK

-----------------------------------------------------------------------------
(* Line(r, up) for a function up on the runs: r is in it, with a run the   *)
(* one above it is, and it is the least such set.                          *)
LEMMA LineFacts ==
  ASSUME NEW up \in [Ids -> MaybeRun], NEW r \in MaybeRun
  PROVE  /\ Line(r, up) \subseteq Ids
         /\ r # Nobody => r \in Line(r, up)
         /\ \A q \in Line(r, up) : up[q] \in Line(r, up) \cup {Nobody}
         /\ \A S \in SUBSET Ids :
              r \in S \cup {Nobody} /\ (\A q \in S : up[q] \in S \cup {Nobody})
              => Line(r, up) \subseteq S
PROOF
  <1>1. Line(r, up) \subseteq Ids
    BY DEF Line
  <1>2. r # Nobody => r \in Line(r, up)
    BY DEF Line, MaybeRun
  <1>3. ASSUME NEW q \in Line(r, up), up[q] # Nobody PROVE up[q] \in Line(r, up)
    <2>1. q \in Ids /\ up[q] \in Ids
      BY <1>1, <1>3 DEF MaybeRun
    <2>2. ASSUME NEW S \in SUBSET Ids, r \in S \cup {Nobody},
                 \A x \in S : up[x] \in S \cup {Nobody}
          PROVE  up[q] \in S
      BY <1>3, <2>2 DEF Line
    <2>3. QED
      BY <2>1, <2>2 DEF Line
  <1>4. ASSUME NEW S \in SUBSET Ids, r \in S \cup {Nobody},
               \A q \in S : up[q] \in S \cup {Nobody}
        PROVE  Line(r, up) \subseteq S
    BY <1>4 DEF Line
  <1>5. QED
    BY <1>1, <1>2, <1>3, <1>4

(* Nobody has no line; a run's line is the run and the line above it, and  *)
(* holds the lines of all its members.                                     *)
LEMMA LineAbove ==
  ASSUME NEW up \in [Ids -> MaybeRun]
  PROVE  /\ Line(Nobody, up) = {}
         /\ \A r \in Ids : Line(r, up) = {r} \cup Line(up[r], up)
         /\ \A r \in MaybeRun : \A q \in Line(r, up) : Line(q, up) \subseteq Line(r, up)
PROOF
  <1>0. Nobody \in MaybeRun /\ Ids \subseteq MaybeRun /\ \A r \in Ids : r # Nobody
    BY DEF MaybeRun, Nobody, Ids
  <1>1. Line(Nobody, up) = {}
    <2>1. {} \in SUBSET Ids /\ Nobody \in {} \cup {Nobody}
          /\ \A q \in {} : up[q] \in {} \cup {Nobody}
      OBVIOUS
    <2>2. Line(Nobody, up) \subseteq {}
      BY <2>1 DEF Line
    <2>3. QED
      BY <2>2
  <1>2. ASSUME NEW r \in MaybeRun, NEW q \in Line(r, up)
        PROVE  Line(q, up) \subseteq Line(r, up)
    <2>1. q \in Ids /\ Line(r, up) \in SUBSET Ids
      BY <1>2, LineFacts
    <2>2. \A x \in Line(r, up) : up[x] \in Line(r, up) \cup {Nobody}
      BY LineFacts
    <2>3. q \in MaybeRun /\ q \in Line(r, up) \cup {Nobody}
      BY <1>0, <1>2, <2>1
    <2>4. QED
      BY <2>1, <2>2, <2>3, LineFacts
  <1>3. ASSUME NEW r \in Ids PROVE Line(r, up) = {r} \cup Line(up[r], up)
    <2>1. up[r] \in MaybeRun /\ r \in MaybeRun /\ r \in Line(r, up)
      BY <1>0, LineFacts
    <2>2. Line(up[r], up) \subseteq Line(r, up)
      <3>1. CASE up[r] = Nobody
        BY <1>1, <3>1
      <3>2. CASE up[r] # Nobody
        <4>1. up[r] \in Line(r, up)
          BY <2>1, <3>2, LineFacts
        <4>2. QED
          BY <1>2, <2>1, <4>1
      <3>3. QED
        BY <3>1, <3>2
    <2>3. Line(r, up) \subseteq {r} \cup Line(up[r], up)
      <3> DEFINE S == {r} \cup Line(up[r], up)
      <3>1. S \in SUBSET Ids
        BY <2>1, LineFacts
      <3>2. \A q \in S : up[q] \in S \cup {Nobody}
        <4>1. up[r] \in S \cup {Nobody}
          BY <2>1, LineFacts
        <4>2. \A q \in Line(up[r], up) : up[q] \in S \cup {Nobody}
          BY <2>1, LineFacts
        <4>3. QED
          BY <4>1, <4>2
      <3>3. r \in S \cup {Nobody}
        OBVIOUS
      <3> HIDE DEF S
      <3>4. Line(r, up) \subseteq S
        BY <2>1, <3>1, <3>2, <3>3, LineFacts
      <3>5. QED
        BY <3>4 DEF S
    <2>4. QED
      BY <2>1, <2>2, <2>3
  <1>4. QED
    BY <1>1, <1>2, <1>3

(* Of two runs in one line one is in the line of the other. *)
LEMMA LineIsLinear ==
  ASSUME NEW up \in [Ids -> MaybeRun], NEW r \in MaybeRun,
         NEW a \in Line(r, up), NEW b \in Line(r, up)
  PROVE  a \in Line(b, up) \/ b \in Line(a, up)
PROOF
  <1> DEFINE S == {x \in Line(r, up) : a \in Line(x, up)} \cup Line(a, up)
  <1>0. Line(r, up) \subseteq Ids /\ a \in Ids /\ Ids \subseteq MaybeRun
    BY LineFacts DEF MaybeRun
  <1>1. S \in SUBSET Ids
    BY <1>0, LineFacts
  <1>2. r \in S \cup {Nobody}
    BY LineFacts
  <1>3. ASSUME NEW x \in S PROVE up[x] \in S \cup {Nobody}
    <2>1. CASE x \in Line(a, up)
      BY <1>0, <2>1, LineFacts
    <2>2. CASE x \in Line(r, up) /\ a \in Line(x, up)
      <3>1. CASE x = a
        <4>1. a \in Line(a, up)
          BY <2>2, <3>1
        <4>2. QED
          BY <1>0, <3>1, <4>1, LineFacts
      <3>2. CASE x # a /\ up[x] # Nobody
        <4>1. x \in Ids /\ Line(x, up) = {x} \cup Line(up[x], up)
          BY <1>0, <2>2, LineAbove
        <4>2. up[x] \in Line(r, up)
          BY <2>2, <3>2, LineFacts
        <4>3. QED
          BY <2>2, <3>2, <4>1, <4>2
      <3>3. QED
        BY <3>1, <3>2
    <2>3. QED
      BY <2>1, <2>2
  <1> HIDE DEF S
  <1>4. Line(r, up) \subseteq S
    BY <1>1, <1>2, <1>3, LineFacts
  <1>5. QED
    BY <1>4 DEF S

(* Two functions that agree on a line give the same line. *)
LEMMA LineAgrees ==
  ASSUME NEW up \in [Ids -> MaybeRun], NEW to \in [Ids -> MaybeRun],
         NEW r \in MaybeRun, \A q \in Line(r, up) : to[q] = up[q]
  PROVE  Line(r, to) = Line(r, up)
PROOF
  <1>1. Line(r, to) \subseteq Line(r, up)
    <2>1. Line(r, up) \in SUBSET Ids /\ r \in Line(r, up) \cup {Nobody}
      BY LineFacts
    <2>2. \A q \in Line(r, up) : to[q] \in Line(r, up) \cup {Nobody}
      BY LineFacts
    <2>3. QED
      BY <2>1, <2>2, LineFacts
  <1>2. Line(r, up) \subseteq Line(r, to)
    <2>1. Line(r, to) \in SUBSET Ids /\ r \in Line(r, to) \cup {Nobody}
      BY LineFacts
    <2>2. \A q \in Line(r, to) : to[q] \in Line(r, to) \cup {Nobody}
      BY LineFacts
    <2>3. \A q \in Line(r, to) : up[q] \in Line(r, to) \cup {Nobody}
      BY <1>1, <2>2
    <2>4. QED
      BY <2>1, <2>3, LineFacts
  <1>3. QED
    BY <1>1, <1>2

-----------------------------------------------------------------------------
(* The lines of the runs. *)
LEMMA LinesTyped ==
  ASSUME runs \in [Ids -> RunRecords]
  PROVE  /\ [q \in Ids |-> runs[q].pred] \in [Ids -> MaybeRun]
         /\ [q \in Ids |-> runs[q].parent] \in [Ids -> MaybeRun]
  BY DEF RunRecords

(* Nobody has ancestors; a run's are itself and those of its predecessor,  *)
(* and of two runs in one lineage one descends from the other.             *)
LEMMA LineageFacts ==
  ASSUME runs \in [Ids -> RunRecords]
  PROVE  /\ Lineage(Nobody) = {}
         /\ \A r \in Ids : /\ runs[r].pred \in MaybeRun /\ r \in Lineage(r)
                           /\ Lineage(r) = {r} \cup Lineage(runs[r].pred)
         /\ \A r \in MaybeRun : /\ Lineage(r) \subseteq Ids
                                /\ \A a, b \in Lineage(r) : a \in Lineage(b) \/ b \in Lineage(a)
PROOF
  <1> DEFINE up == [q \in Ids |-> runs[q].pred]
  <1>1. up \in [Ids -> MaybeRun] /\ \A r \in Ids : up[r] = runs[r].pred
    BY LinesTyped
  <1>2. \A r : Lineage(r) = Line(r, up)
    BY DEF Lineage
  <1>3. \A r \in Ids : r \in MaybeRun
    BY DEF MaybeRun
  <1> HIDE DEF up
  <1>4. Lineage(Nobody) = {}
    BY <1>1, <1>2, LineAbove
  <1>5. ASSUME NEW r \in Ids
        PROVE  /\ runs[r].pred \in MaybeRun /\ r \in Lineage(r)
               /\ Lineage(r) = {r} \cup Lineage(runs[r].pred)
    BY <1>1, <1>2, LineAbove
  <1>6. ASSUME NEW r \in MaybeRun
        PROVE  Lineage(r) \subseteq Ids
    BY <1>1, <1>2, LineFacts
  <1>7. ASSUME NEW r \in MaybeRun, NEW a \in Lineage(r), NEW b \in Lineage(r)
        PROVE  a \in Lineage(b) \/ b \in Lineage(a)
    BY <1>1, <1>2, <1>7, LineIsLinear
  <1>8. QED
    BY <1>4, <1>5, <1>6, <1>7

(* Steps that keep the predecessors keep the lineages. *)
LEMMA LineageKept ==
  ASSUME runs \in [Ids -> RunRecords], \A q \in Ids : runs'[q].pred = runs[q].pred
  PROVE  \A r : Lineage(r)' = Lineage(r)
PROOF
  <1>1. [q \in Ids |-> runs'[q].pred] = [q \in Ids |-> runs[q].pred]
    OBVIOUS
  <1>2. QED
    BY <1>1 DEF Lineage

(* The predecessors of a run, and it too if it is recorded and out of its  *)
(* start, are recorded, out of their start and of the same operation.      *)
LEMMA AncestorsSettled ==
  ASSUME SuccessionTypes, \A r \in Ids : RunOK(r),
         NEW r \in Ids, Recorded(r), ~Starting(r), NEW q \in Lineage(r)
  PROVE  q \in Ids /\ Recorded(q) /\ ~Starting(q) /\ runs[q].op = runs[r].op
PROOF
  <1> DEFINE S == {x \in Ids : Recorded(x) /\ ~Starting(x) /\ runs[x].op = runs[r].op}
             up == [x \in Ids |-> runs[x].pred]
  <1>1. up \in [Ids -> MaybeRun] /\ r \in MaybeRun
    BY LinesTyped DEF SuccessionTypes, MaybeRun
  <1>2. S \in SUBSET Ids /\ r \in S \cup {Nobody}
    OBVIOUS
  <1>3. ASSUME NEW x \in S PROVE up[x] \in S \cup {Nobody}
    <2>1. x \in Ids /\ runs[x].op = runs[r].op /\ up[x] = runs[x].pred
      OBVIOUS
    <2>2. up[x] # Nobody => up[x] \in Ids
      BY <1>1, <2>1 DEF MaybeRun
    <2>3. up[x] # Nobody => Recorded(up[x]) /\ ~Starting(up[x]) /\ runs[up[x]].op = runs[x].op
      BY <2>1 DEF RunOK
    <2>4. QED
      BY <2>1, <2>2, <2>3
  <1> HIDE DEF S, up
  <1>4. Line(r, up) \subseteq S
    BY <1>1, <1>2, <1>3, LineFacts
  <1>5. q \in Line(r, up)
    BY DEF up, Lineage
  <1>6. q \in S
    BY <1>4, <1>5
  <1>7. QED
    BY <1>6 DEF S

(* Whoever may be bound to a sandbox besides a run that `from' leads to is *)
(* of from's lineage.                                                      *)
LEMMA HoldersInLineage ==
  ASSUME SuccessionTypes, \A r \in Ids : RunOK(r), NEW from \in MaybeRun
  PROVE  allowed_workspace_holder_ids(from) \subseteq Lineage(from)
PROOF
  <1> DEFINE up == [x \in Ids |-> runs[x].pred]
             parent == [x \in Ids |-> runs[x].parent]
             S == Line(from, up)
  <1>1. up \in [Ids -> MaybeRun] /\ parent \in [Ids -> MaybeRun]
    BY LinesTyped DEF SuccessionTypes
  <1>2. \A x \in Ids : parent[x] # Nobody => parent[x] = up[x]
    BY DEF RunOK
  <1> HIDE DEF up, parent
  <1>3. S \in SUBSET Ids /\ from \in S \cup {Nobody} /\ \A x \in S : up[x] \in S \cup {Nobody}
    BY <1>1, LineFacts
  <1>4. \A x \in S : parent[x] \in S \cup {Nobody}
    BY <1>2, <1>3
  <1>5. Line(from, parent) \subseteq S
    BY <1>1, <1>3, <1>4, LineFacts
  <1>6. QED
    BY <1>5 DEF up, parent, Lineage, allowed_workspace_holder_ids

-----------------------------------------------------------------------------
(* What all steps do that neither create nor record a run and are not a    *)
(* crash: to one run ...                                                   *)
Evolves(r) ==
    /\ \/ runs'[r] = runs[r] /\ disk'[r] = disk[r]
       \/ /\ Born(r) /\ disk'[r] = runs'[r]
          /\ disk[r].status = "None" => runs'[r].status = "Closed" /\ r \notin launched'
    /\ runs'[r].pred = runs[r].pred /\ runs'[r].parent = runs[r].parent
    /\ runs'[r].op = runs[r].op /\ runs'[r].succ = runs[r].succ
    /\ runs'[r].status = "None" <=> runs[r].status = "None"
    /\ runs'[r].status \notin Closed => Active(r)
    /\ r \in launched => r \in launched'
    /\ r \in launched' => \/ r \in launched
                          \/ Active(r) /\ runs[r].pred # Nobody /\ runs[r].parent = Nobody
    /\ \/ runs'[r].snapshot = runs[r].snapshot /\ frozen'[r] = frozen[r]
       \/ ~Starting(r) /\ (frozen'[r] < 1 => Lineage(r) \cap continued = {})
    /\ (\E c \in Starters : calls'[c].run = r) =>
         /\ runs'[r].status \in {runs[r].status, "Closed"}
         /\ runs'[r].checkpoint = runs[r].checkpoint
         /\ r \in launched' => r \in launched

(* ... and to one start *)
Answered(c) == calls[c].step \notin Unrecorded /\ calls'[c] = Idle

Proceeds(c) ==
    \E to \in Asking \cup Unready \cup {"prepare"} :
        /\ calls'[c] = [calls[c] EXCEPT !.step = to]
        /\ \/ calls[c].step \in Asking /\ to \in Asking
           \/ calls[c].step \in {"bind", "acquire"} /\ to \in {"bind", "acquire", "prepare"}

Requested(c) ==
    /\ calls[c] = Idle
    /\ calls'[c].step \in Asking /\ calls'[c].run = Nobody
    /\ calls'[c].from # Nobody => Recorded(calls'[c].from) /\ ~Starting(calls'[c].from)
    /\ calls'[c].kind \in {"child", "replan", "continue"} <=> calls'[c].from # Nobody
    /\ boot'.stage # "up" => calls'[c].kind = "continue"

Moves(c) == calls'[c] = calls[c] \/ Answered(c) \/ Proceeds(c) \/ Requested(c)

Update ==
    /\ \A r \in Ids : Evolves(r)
    /\ \A c \in Starters : Moves(c)
    /\ next' = next /\ continued' = continued
    /\ boot'.stage # "up" => boot.stage # "up"
    /\ \A r \in working' : runs'[r].status = "Running"
    /\ boot'.stage # "recovering" => boot'.todo = {} /\ boot'.resumed = {}
    /\ \A r \in boot'.resumed : r \in boot.resumed \/ (Born(r) /\ ~Starting(r))

(* A start keeps its run. *)
LEMMA MovesKeepRun ==
  ASSUME SuccessionTypes, SuccessionTypes', NEW c \in Starters, Moves(c),
         calls'[c].run # Nobody
  PROVE  calls'[c].run = calls[c].run
PROOF
  <1>1. Idle.run = Nobody
    BY DEF Idle
  <1>2. CASE Proceeds(c)
    <2>1. PICK to : calls'[c] = [calls[c] EXCEPT !.step = to]
      BY <1>2 DEF Proceeds
    <2>2. calls[c] \in CallRecords
      BY DEF SuccessionTypes
    <2>3. QED
      BY <2>1, <2>2 DEF CallRecords
  <1>3. QED
    BY <1>1, <1>2 DEF Moves, Answered, Requested

(* Starts end or go on with their runs. *)
LEMMA StartingShrinks ==
  ASSUME SuccessionTypes, SuccessionTypes', \A c \in Starters : Moves(c)
  PROVE  /\ DOMAIN calls = Starters /\ DOMAIN calls' = Starters
         /\ \A r \in Ids : Starting(r)' => Starting(r)
PROOF
  <1>1. DOMAIN calls = Starters /\ DOMAIN calls' = Starters
    BY DEF SuccessionTypes
  <1>2. ASSUME NEW r \in Ids, Starting(r)' PROVE Starting(r)
    <2>1. PICK c \in Starters : calls'[c].run = r
      BY <1>1, <1>2 DEF Starting
    <2>2. r # Nobody
      BY DEF Ids, Nobody
    <2>3. QED
      BY <1>1, <2>1, <2>2, MovesKeepRun DEF Starting
  <1>3. QED
    BY <1>1, <1>2

(* Memory and log keep agreeing. *)
LEMMA UpdateKeepsRuns ==
  ASSUME SInv, SuccessionTypes', Update, NEW r \in Ids
  PROVE  RunOK(r)' /\ (Recorded(r) => Recorded(r)')
PROOF
  <1>1. RunOK(r) /\ Evolves(r) /\ SuccessionTypes
    BY DEF SInv, Update
  <1>2. runs[r] \in RunRecords /\ runs'[r] \in RunRecords /\ disk[r] \in RunRecords
        /\ disk'[r] \in RunRecords
    BY DEF SInv, SuccessionTypes
  <1>3. Born(r)' <=> Born(r)
    BY <1>1 DEF Evolves, Born
  <1>4. ~Born(r)' => runs'[r] = NoRun /\ disk'[r] = disk[r]
    BY <1>1, <1>3 DEF Evolves, RunOK, Born
  <1>5. ~Recorded(r)' => disk'[r] = NoRun
    BY <1>1, <1>3 DEF Evolves, RunOK, Born, Recorded
  <1>6. Born(r)' => r < next'
    BY <1>1, <1>3 DEF Update, RunOK
  <1>7. ASSUME Recorded(r)'
        PROVE  /\ Born(r)'
               /\ disk'[r] = [runs'[r] EXCEPT !.succ = disk'[r].succ]
               /\ disk'[r].succ # Nobody => runs'[r].succ # Nobody
    <2>1. CASE runs'[r] = runs[r] /\ disk'[r] = disk[r]
      BY <1>1, <1>3, <1>7, <2>1 DEF RunOK, Recorded
    <2>2. CASE Born(r) /\ disk'[r] = runs'[r]
      BY <1>2, <1>3, <2>2 DEF RunRecords
    <2>3. QED
      BY <1>1, <2>1, <2>2 DEF Evolves
  <1>8. Recorded(r) => Recorded(r)'
    BY <1>1, <1>3 DEF Evolves, Recorded, Born
  <1>9. ASSUME Born(r)', ~Recorded(r)'
        PROVE  \E c \in Starters : calls'[c].run = r /\ calls'[c].step \in Unrecorded
    <2>1. PICK c \in Starters : calls[c].run = r /\ calls[c].step \in Unrecorded
      BY <1>1, <1>3, <1>8, <1>9 DEF RunOK
    <2>2. calls[c].step \notin Asking /\ calls[c].step \notin {"bind", "acquire"}
      BY <2>1 DEF Unrecorded, Asking
    <2>3. calls[c] # Idle
      BY <2>1 DEF Idle, Unrecorded
    <2>4. calls'[c] = calls[c]
      BY <2>1, <2>2, <2>3 DEF Update, Moves, Answered, Proceeds, Requested
    <2>5. QED
      BY <2>1, <2>4
  <1>10. ASSUME runs'[r].pred # Nobody
         PROVE  /\ Recorded(runs[r].pred)' /\ ~Starting(runs[r].pred)'
                /\ runs'[r].pred = runs[r].pred
                /\ runs'[r].op = runs'[runs[r].pred].op
    <2>1. runs'[r].pred = runs[r].pred /\ runs'[r].op = runs[r].op
      BY <1>1 DEF Evolves
    <2>2. PICK p \in Ids : p = runs[r].pred
      BY <1>2, <1>10, <2>1 DEF RunRecords, MaybeRun
    <2>3. Recorded(p) /\ ~Starting(p) /\ runs[r].op = runs[p].op
      BY <1>1, <1>10, <2>1, <2>2 DEF RunOK
    <2>4. Evolves(p)
      BY DEF Update
    <2>5. Recorded(p)' /\ runs'[p].op = runs[p].op
      BY <2>3, <2>4 DEF Evolves, Recorded, Born
    <2>6. ~Starting(p)'
      BY <1>1, <2>3, StartingShrinks DEF Update
    <2>7. QED
      BY <2>1, <2>2, <2>3, <2>5, <2>6
  <1>11. runs'[r].parent # Nobody => runs'[r].parent = runs'[r].pred
    BY <1>1 DEF Evolves, RunOK
  <1>12. RunOK(r)'
    BY <1>4, <1>5, <1>6, <1>7, <1>9, <1>10, <1>11 DEF RunOK
  <1>13. QED
    BY <1>8, <1>12

(* No line changes, nor does what it has of continuations. *)
LEMMA UpdateKeepsLineages ==
  ASSUME SInv, Update
  PROVE  \A r : Lineage(r)' = Lineage(r) /\ (Lineage(r) \cap continued)' = Lineage(r) \cap continued
PROOF
  <1>1. \A q \in Ids : runs'[q].pred = runs[q].pred
    BY DEF Update, Evolves
  <1>2. \A r : Lineage(r)' = Lineage(r)
    BY <1>1, LineageKept DEF SInv, SuccessionTypes
  <1>3. QED
    BY <1>2 DEF Update

(* A start that goes on keeps what holds of its new run. *)
LEMMA NewRunStays ==
  ASSUME SInv, SuccessionTypes', Update, NEW c \in Starters, NEW r \in Ids,
         NewRunOK(c, r), calls[c].run = r, calls'[c].run = r,
         calls'[c].from = calls[c].from, calls'[c].kind = calls[c].kind,
         calls'[c].step \in Unrecorded \cup {"event"} => calls'[c].step = calls[c].step,
         calls'[c].step \notin Unrecorded => calls[c].step \notin Unrecorded
  PROVE  NewRunOK(c, r)'
PROOF
  <1>1. Evolves(r) /\ runs'[r].status \in {runs[r].status, "Closed"}
        /\ runs'[r].checkpoint = runs[r].checkpoint /\ r \notin launched'
    BY DEF Update, Evolves, NewRunOK
  <1>2. runs'[r].status \in {"Queued", "Closed"} /\ runs'[r].pred = calls'[c].from
        /\ (calls'[c].kind = "continue" => ~runs'[r].checkpoint)
    BY <1>1 DEF NewRunOK, Evolves
  <1>3. Recorded(r) => Recorded(r)'
    BY UpdateKeepsRuns
  <1>4. calls'[c].step \notin Unrecorded => Recorded(r)'
    BY <1>3 DEF NewRunOK
  <1>5. ASSUME calls'[c].step = "pred"
        PROVE  /\ calls'[c].from # Nobody /\ runs'[calls'[c].from].succ # Nobody
               /\ Recorded(r)' => runs'[r].status = "Closed"
    <2>1. calls[c].step = "pred"
      BY <1>5 DEF Unrecorded
    <2>2. PICK p \in Ids : p = calls[c].from
      BY <2>1 DEF NewRunOK, SInv, SuccessionTypes, CallRecords, MaybeRun
    <2>3. Evolves(p)
      BY DEF Update
    <2>4. runs'[p].succ # Nobody
      BY <2>1, <2>2, <2>3 DEF NewRunOK, Evolves
    <2>5. Recorded(r)' => runs'[r].status = "Closed"
      BY <1>1, <2>1 DEF NewRunOK, Evolves, Recorded
    <2>6. QED
      BY <2>1, <2>2, <2>4, <2>5 DEF NewRunOK
  <1>6. calls'[c].kind = "continue" /\ calls'[c].step \in Unrecorded \cup {"event"} =>
          (Lineage(calls[c].from) \cap continued)' = {}
    <2>1. (Lineage(calls[c].from) \cap continued)' = Lineage(calls[c].from)' \cap continued
      BY DEF Update
    <2>2. QED
      BY UpdateKeepsLineages DEF NewRunOK
  <1>7. \A d \in Starters : calls'[d].run = r => d = c
    <2>1. \A d \in Starters : calls'[d].run = r => calls[d].run = r
      <3>1. r # Nobody
        BY DEF Ids, Nobody
      <3>2. QED
        BY <3>1, MovesKeepRun DEF SInv, Update
    <2>2. QED
      BY <2>1 DEF NewRunOK
  <1>8. ASSUME calls'[c].step = "record", calls'[c].from # Nobody
        PROVE  disk'[calls'[c].from].succ # Nobody
    <2>1. calls[c].step = "record" /\ calls[c].from # Nobody /\ CallOK(c)
      BY <1>8 DEF Unrecorded, SInv
    <2>2. PICK p \in Ids : p = calls[c].from
      BY <2>1 DEF SInv, SuccessionTypes, CallRecords, MaybeRun
    <2>3. Evolves(p) /\ RunOK(p) /\ Recorded(p)
      BY <2>1, <2>2 DEF Update, SInv, CallOK
    <2>4. disk[p].succ # Nobody /\ runs[p].succ # Nobody
      BY <2>1, <2>2, <2>3 DEF NewRunOK, RunOK
    <2>5. disk'[p].succ # Nobody
      BY <2>3, <2>4 DEF Evolves
    <2>6. QED
      BY <2>2, <2>5
  <1>9. QED
    BY <1>1, <1>2, <1>4, <1>5, <1>6, <1>7, <1>8 DEF NewRunOK

(* Starts keep their promises while others go on. *)
LEMMA UpdateKeepsCalls ==
  ASSUME SInv, SuccessionTypes', Update, NEW c \in Starters
  PROVE  CallOK(c)'
PROOF
  <1>1. CallOK(c) /\ Moves(c) /\ SuccessionTypes
    BY DEF SInv, Update
  <1>2. ASSUME NEW p \in Ids, Recorded(p), ~Starting(p) PROVE Recorded(p)' /\ ~Starting(p)'
    BY <1>1, <1>2, UpdateKeepsRuns, StartingShrinks DEF Update
  <1>3. calls[c] \in CallRecords /\ calls'[c] \in CallRecords
    BY DEF SInv, SuccessionTypes
  <1>4. calls[c].from # Nobody =>
          \E p \in Ids : p = calls[c].from /\ Recorded(p)' /\ ~Starting(p)'
    <2>1. CASE calls[c].from # Nobody
      <3>1. PICK p \in Ids : p = calls[c].from
        BY <1>3, <2>1 DEF CallRecords, MaybeRun
      <3>2. QED
        BY <1>1, <1>2, <2>1, <3>1 DEF CallOK
    <2>2. QED
      BY <2>1
  <1>5. CASE Answered(c)
    <2>1. calls'[c] = Idle
      BY <1>5 DEF Answered
    <2>2. QED
      BY <2>1 DEF CallOK, Idle, Asking, Unready, Unrecorded, Nobody
  <1>6. CASE Requested(c)
    <2>1. calls'[c].from # Nobody =>
            \E p \in Ids : p = calls'[c].from /\ Recorded(p)' /\ ~Starting(p)'
      <3>1. CASE calls'[c].from # Nobody
        <4>1. PICK p \in Ids : p = calls'[c].from
          BY <1>3, <3>1 DEF CallRecords, MaybeRun
        <4>2. Recorded(p) /\ ~Starting(p)
          BY <1>6, <3>1, <4>1 DEF Requested
        <4>3. QED
          BY <1>2, <4>1, <4>2
      <3>2. QED
        BY <3>1
    <2>2. calls'[c].step \notin Unready \cup {"prepare"} /\ calls'[c].step \notin {"idle", "event"}
      BY <1>6 DEF Requested, Asking, Unready, Unrecorded
    <2>3. QED
      BY <1>6, <2>1, <2>2 DEF CallOK, Requested
  <1>7. CASE calls'[c] = calls[c]
    <2>1. calls[c].step \in Unready \cup {"prepare"} =>
            \E r \in Ids : r = calls'[c].run /\ NewRunOK(c, r)'
      <3>1. CASE calls[c].step \in Unready \cup {"prepare"}
        <4>1. PICK r \in Ids : r = calls[c].run
          BY <1>1, <3>1 DEF CallOK, NewRunOK
        <4>2. NewRunOK(c, r)
          BY <1>1, <3>1, <4>1 DEF CallOK
        <4>3. NewRunOK(c, r)'
          BY <1>7, <4>1, <4>2, NewRunStays
        <4>4. QED
          BY <1>7, <4>1, <4>3
      <3>2. QED
        BY <3>1
    <2>2. QED
      BY <1>1, <1>4, <1>7, <2>1 DEF CallOK, Update
  <1>8. CASE Proceeds(c)
    <2>1. PICK to \in Asking \cup Unready \cup {"prepare"} :
            /\ calls'[c] = [calls[c] EXCEPT !.step = to]
            /\ \/ calls[c].step \in Asking /\ to \in Asking
               \/ calls[c].step \in {"bind", "acquire"} /\ to \in {"bind", "acquire", "prepare"}
      BY <1>8 DEF Proceeds
    <2>2. /\ calls'[c].step = to /\ calls'[c].run = calls[c].run
          /\ calls'[c].from = calls[c].from /\ calls'[c].kind = calls[c].kind
      BY <1>3, <2>1 DEF CallRecords
    <2>3. calls'[c].step \notin {"idle", "event"} /\ calls[c].step # "idle"
      BY <2>1, <2>2 DEF Asking, Unready, Unrecorded
    <2>4. calls'[c].step \in Asking => calls'[c].run = Nobody
      BY <1>1, <2>1, <2>2 DEF CallOK, Asking
    <2>5. calls'[c].step \in Unready \cup {"prepare"} =>
            \E r \in Ids : r = calls'[c].run /\ NewRunOK(c, r)'
      <3>1. CASE calls'[c].step \in Unready \cup {"prepare"}
        <4>1. calls[c].step \in {"bind", "acquire"} /\ to \in {"bind", "acquire", "prepare"}
          BY <2>1, <2>2, <3>1 DEF Asking, Unready, Unrecorded
        <4>2. PICK r \in Ids : r = calls[c].run
          BY <1>1, <4>1 DEF CallOK, NewRunOK, Unready
        <4>3. NewRunOK(c, r)
          BY <1>1, <4>1, <4>2 DEF CallOK, Unready
        <4>4. NewRunOK(c, r)'
          BY <2>2, <4>1, <4>2, <4>3, NewRunStays DEF Unrecorded
        <4>5. QED
          BY <2>2, <4>2, <4>4
      <3>2. QED
        BY <3>1
    <2>6. QED
      BY <1>1, <1>4, <2>2, <2>3, <2>4, <2>5 DEF CallOK, Update
  <1>9. QED
    BY <1>1, <1>5, <1>6, <1>7, <1>8 DEF Moves

(* A successor that is open or was launched was so before. *)
LEMMA UpdateKeepsHeirs ==
  ASSUME SInv, SuccessionTypes', Update
  PROVE  HeirsOK'
PROOF
  <1>1. ASSUME NEW y \in Ids, Heir(y)'
        PROVE  Heir(y) /\ runs'[y].pred = runs[y].pred
    <2>1. Evolves(y)
      BY DEF Update
    <2>2. QED
      BY <1>1, <2>1 DEF Heir, Evolves, Active
  <1>2. ASSUME NEW y \in Ids, Heir(y)'
        PROVE  /\ runs'[runs'[y].pred].succ # Nobody
               /\ Recorded(y)' => disk'[runs'[y].pred].succ # Nobody
    <2>1. Heir(y) /\ runs'[y].pred = runs[y].pred /\ runs[y].pred # Nobody
      BY <1>1, <1>2 DEF Heir
    <2>2. PICK p \in Ids : p = runs[y].pred
      BY <2>1 DEF SInv, SuccessionTypes, RunRecords, MaybeRun
    <2>3. Evolves(p) /\ Evolves(y)
      BY DEF Update
    <2>4. runs[p].succ # Nobody /\ runs'[p].succ # Nobody
      BY <2>1, <2>2, <2>3 DEF SInv, HeirsOK, Evolves
    <2>5. ASSUME Recorded(y)' PROVE disk'[p].succ # Nobody
      <3>1. Recorded(y)
        <4>1. CASE Recorded(y)
          BY <4>1
        <4>2. CASE ~Recorded(y)
          <5>1. runs'[y].status = "Closed" /\ y \notin launched'
            BY <2>3, <2>5, <4>2 DEF Evolves, Recorded
          <5>2. QED
            BY <1>2, <5>1 DEF Heir, Active, Closed
        <4>3. QED
          BY <4>1, <4>2
      <3>2. disk[p].succ # Nobody
        BY <2>1, <2>2, <3>1 DEF SInv, HeirsOK
      <3>3. QED
        BY <2>3, <2>4, <3>2 DEF Evolves
    <2>6. QED
      BY <2>1, <2>2, <2>4, <2>5
  <1>3. ASSUME NEW y \in Ids, NEW z \in Ids, Heir(y)', Heir(z)', runs'[z].pred = runs'[y].pred
        PROVE  z = y
    BY <1>1, <1>3 DEF SInv, HeirsOK
  <1>4. QED
    BY <1>2, <1>3 DEF HeirsOK

(* What may be continued keeps a line without continuations. *)
LEMMA UpdateKeepsContinuations ==
  ASSUME SInv, SuccessionTypes', Update
  PROVE  ContinuationsOK'
PROOF
  <1>1. ASSUME NEW p \in Ids, runs'[p].snapshot = p
        PROVE  ~Starting(p)' /\ (frozen'[p] < 1 => (Lineage(p) \cap continued)' = {})
    <2>1. Evolves(p)
      BY DEF Update
    <2>2. ~Starting(p) /\ (frozen'[p] < 1 => Lineage(p) \cap continued = {})
      BY <1>1, <2>1 DEF SInv, ContinuationsOK, Evolves
    <2>3. QED
      BY <2>2, StartingShrinks, UpdateKeepsLineages DEF SInv, Update
  <1>2. ASSUME NEW y \in continued'
        PROVE  Recorded(y)' /\ Lineage(runs[y].pred)' \cap continued' = {}
               /\ runs'[y].pred = runs[y].pred
    <2>1. y \in continued /\ y \in Ids
      BY DEF Update, SInv, SuccessionTypes
    <2>2. Recorded(y)' /\ runs'[y].pred = runs[y].pred
      BY <2>1, UpdateKeepsRuns DEF SInv, ContinuationsOK, Update, Evolves
    <2>3. \A q : q = runs[y].pred => Lineage(q)' = Lineage(q)
      BY UpdateKeepsLineages
    <2>4. Lineage(runs[y].pred) \cap continued = {}
      BY <2>1 DEF SInv, ContinuationsOK
    <2>5. PICK q : q = runs[y].pred
      OBVIOUS
    <2>6. Lineage(q)' \cap continued' = {}
      BY <2>3, <2>4, <2>5 DEF Update
    <2>7. Lineage(runs[y].pred)' = Lineage(q)'
      BY <2>2, <2>5
    <2>8. QED
      BY <2>2, <2>6, <2>7
  <1>3. QED
    BY <1>1, <1>2 DEF ContinuationsOK, Starting

(* Sessions, and what a restart has to do. *)
LEMMA UpdateKeepsSessions ==
  ASSUME SInv, SuccessionTypes', Update
  PROVE  SessionsOK'
PROOF
  <1>1. ASSUME NEW r \in launched'
        PROVE  Recorded(r)' /\ runs'[r].pred # Nobody /\ runs'[r].parent = Nobody
    <2>1. r \in Ids /\ Evolves(r) /\ RunOK(r) /\ RunOK(r)'
      BY UpdateKeepsRuns DEF SInv, SuccessionTypes, Update
    <2>2. CASE r \in launched
      BY <2>1, <2>2, UpdateKeepsRuns DEF SInv, SessionsOK, Evolves
    <2>3. CASE r \notin launched
      <3>1. Active(r) /\ runs'[r].pred # Nobody /\ runs'[r].parent = Nobody
        BY <1>1, <2>1, <2>3 DEF Evolves
      <3>2. Recorded(r)'
        <4>1. CASE Recorded(r)
          BY <2>1, <4>1, UpdateKeepsRuns
        <4>2. CASE ~Recorded(r)
          <5>1. PICK c \in Starters : calls[c].run = r /\ calls[c].step \in Unrecorded
            BY <2>1, <3>1, <4>2 DEF RunOK, Active, Born, Closed
          <5>2. calls[c].step \notin Asking /\ calls[c].step \notin {"bind", "acquire"}
                /\ calls[c] # Idle
            BY <5>1 DEF Unrecorded, Asking, Idle
          <5>3. calls'[c] = calls[c]
            BY <5>1, <5>2 DEF Update, Moves, Answered, Proceeds, Requested
          <5>4. QED
            BY <1>1, <2>1, <2>3, <5>1, <5>3 DEF Evolves
        <4>3. QED
          BY <4>1, <4>2
      <3>3. QED
        BY <3>1, <3>2
    <2>4. QED
      BY <2>2, <2>3
  <1>2. ASSUME NEW r \in boot'.resumed PROVE Born(r)' /\ ~Starting(r)'
    <2>1. r \in Ids
      BY DEF SuccessionTypes
    <2>2. Born(r) /\ ~Starting(r)
      BY DEF SInv, SessionsOK, Update
    <2>3. Born(r)'
      BY <2>1, <2>2 DEF Update, Evolves, Born
    <2>4. QED
      BY <2>1, <2>2, <2>3, StartingShrinks DEF SInv, Update
  <1>3. QED
    BY <1>1, <1>2 DEF SessionsOK, Update

(* All but types and holders. *)
LEMMA UpdateKeeps ==
  ASSUME SInv, SuccessionTypes', Update, HoldersOK'
  PROVE  SInv'
PROOF
  <1>1. (\A r \in Ids : RunOK(r))'
    BY UpdateKeepsRuns
  <1>2. (\A c \in Starters : CallOK(c))'
    BY UpdateKeepsCalls
  <1>3. QED
    BY <1>1, <1>2, UpdateKeepsHeirs, UpdateKeepsContinuations, UpdateKeepsSessions DEF SInv

-----------------------------------------------------------------------------
(* Starts that may still create a run are finitely many. *)
LEMMA PendingFinite ==
  ASSUME SuccessionTypes
  PROVE  /\ IsFiniteSet(Pending) /\ Cardinality(Pending) \in Nat
         /\ Pending = {c \in Starters : calls[c] # Idle /\ calls[c].run = Nobody}
PROOF
  <1>1. IsFiniteSet(Starters)
    BY FS_AddElement, SuccessionBounds DEF Starters
  <1>2. Pending = {c \in Starters : calls[c] # Idle /\ calls[c].run = Nobody}
    BY DEF Pending, SuccessionTypes
  <1>3. QED
    BY <1>1, <1>2, FS_Subset, FS_CardinalityType

(* A step that adds none keeps the bound on runs. *)
LEMMA PendingShrinks ==
  ASSUME SuccessionTypes, calls' \in [Starters -> CallRecords], next' = next,
         \A c \in Starters : calls'[c] # Idle /\ calls'[c].run = Nobody =>
            calls[c] # Idle /\ calls[c].run = Nobody
  PROVE  next' \in Nat \ {0} /\ next' + Cardinality(Pending') <= MaxRuns + 1
PROOF
  <1>1. IsFiniteSet(Pending) /\ Cardinality(Pending) \in Nat
        /\ Pending = {c \in Starters : calls[c] # Idle /\ calls[c].run = Nobody}
    BY PendingFinite
  <1>2. Pending' = {c \in Starters : calls'[c] # Idle /\ calls'[c].run = Nobody}
    BY DEF Pending
  <1>3. Pending' \subseteq Pending
    BY <1>1, <1>2
  <1>4. Cardinality(Pending') <= Cardinality(Pending) /\ Cardinality(Pending') \in Nat
    BY <1>1, <1>3, FS_Subset, FS_CardinalityType
  <1>5. QED
    BY <1>1, <1>4, SuccessionBounds DEF SuccessionTypes

(* A run that is neither queued nor closed, or whose start is over, is in  *)
(* the log.                                                                *)
LEMMA BeyondStart ==
  ASSUME SInv, NEW r \in Ids, Born(r)
  PROVE  /\ ~Starting(r) => Recorded(r)
         /\ runs[r].status \notin {"Queued", "Closed"} => Recorded(r) /\ ~Starting(r)
PROOF
  <1>1. RunOK(r) /\ DOMAIN calls = Starters
    BY DEF SInv, SuccessionTypes
  <1>2. ~Starting(r) => Recorded(r)
    BY <1>1 DEF RunOK, Starting
  <1>3. ASSUME NEW c \in Starters, calls[c].run = r PROVE runs[r].status \in {"Queued", "Closed"}
    <2>1. r # Nobody /\ calls[c] \in CallRecords /\ Idle.run = Nobody
      BY DEF Ids, Nobody, SInv, SuccessionTypes, Idle
    <2>2. calls[c].step \notin Asking \cup {"idle"}
      BY <1>3, <2>1 DEF SInv, CallOK
    <2>3. calls[c].step \in Unready \cup {"prepare"}
      BY <2>1, <2>2 DEF CallRecords
    <2>4. QED
      BY <1>3, <2>3 DEF SInv, CallOK, NewRunOK
  <1>4. runs[r].status \notin {"Queued", "Closed"} => ~Starting(r)
    BY <1>1, <1>3 DEF Starting
  <1>5. QED
    BY <1>2, <1>4

(* The start of a run that is past `create'. *)
LEMMA StartOfRun ==
  ASSUME SInv, NEW c \in Starters, calls[c].step \in Unready \cup {"prepare"}
  PROVE  /\ calls[c].run \in Ids /\ NewRunOK(c, calls[c].run) /\ Born(calls[c].run)
         /\ Starting(calls[c].run) /\ calls[c] # Idle
PROOF
  <1>1. NewRunOK(c, calls[c].run)
    BY DEF SInv, CallOK
  <1>2. calls[c] # Idle
    BY DEF Idle, Unready, Unrecorded
  <1>3. QED
    BY <1>1, <1>2 DEF NewRunOK, Born, Starting, SInv, SuccessionTypes

(* Steps that touch one run, and no other's start *)
Rest(r) ==
    /\ \A a \in Ids \ {r} :
         /\ runs'[a] = runs[a] /\ disk'[a] = disk[a] /\ frozen'[a] = frozen[a]
         /\ a \in working' <=> a \in working
         /\ a \in unacquired' <=> a \in unacquired
         /\ a \in launched' <=> a \in launched
         /\ a \in boot'.todo <=> a \in boot.todo
         /\ a \in boot'.resumed => a \in boot.resumed
    /\ \A c \in Starters :
         calls[c].run \notin {r, Nobody} \/ calls'[c].run \notin {r, Nobody} =>
            calls'[c] = calls[c]
    /\ boot'.stage = boot.stage
    /\ next' = next /\ continued' = continued

(* The others hold what they held. *)
LEMMA OthersHold ==
  ASSUME SuccessionTypes, SuccessionTypes', NEW r \in Ids, Rest(r), NEW a \in Ids \ {r},
         Holder(a)'
  PROVE  Holder(a) /\ runs'[a] = runs[a]
PROOF
  <1>1. a # Nobody /\ DOMAIN calls = Starters /\ DOMAIN calls' = Starters
    BY DEF Ids, Nobody, SuccessionTypes
  <1>2. \A c \in Starters : calls'[c].run = a \/ calls[c].run = a => calls'[c] = calls[c]
    BY <1>1 DEF Rest
  <1>3. runs'[a] = runs[a] /\ (a \in working' <=> a \in working)
        /\ (a \in unacquired' <=> a \in unacquired)
        /\ (a \in boot'.todo <=> a \in boot.todo) /\ boot'.stage = boot.stage
    BY DEF Rest
  <1>4. Awaiting(a)' <=> Awaiting(a)
    BY <1>3 DEF Awaiting, Interrupted
  <1>5. Active(a) /\ runs[a].sandbox # NoSandbox /\ a \notin unacquired
    BY <1>3 DEF Active, Holder
  <1>6. \A c \in Starters : calls[c].run = a => calls[c].step = "prepare"
    BY <1>2 DEF Holder
  <1>7. Starting(a)' => Starting(a)
    BY <1>1, <1>2 DEF Starting
  <1>8. Awaiting(a) => a \in working \/ Starting(a)
    BY <1>3, <1>4, <1>7 DEF Holder
  <1>9. QED
    BY <1>3, <1>5, <1>6, <1>8 DEF Holder

(* A run that is not touched evolves by standing still. *)
LEMMA RestEvolves ==
  ASSUME NEW r \in Ids, Rest(r), NEW a \in Ids \ {r}
  PROVE  Evolves(a)
  BY DEF Rest, Evolves, Active

(* Closing a run leaves the sandboxes of all others busy. *)
LEMMA ReleasedKeeps ==
  ASSUME NEW r \in Ids, NEW a \in Ids \ {r}, Holder(a), runs[a].sandbox \in busy
  PROVE  runs[a].sandbox \in Released(r)
  BY DEF Holder, Released

(* What the step has to say of the run it touches: it holds what it held,  *)
(* or nobody outside its lineage is bound to what it holds now.            *)
HoldsRightly(r) ==
    Holder(r)' =>
        /\ runs'[r].sandbox \in busy'
        /\ \/ Holder(r) /\ runs'[r].sandbox = runs[r].sandbox
           \/ \A a \in Ids \ {r} :
                 Active(a) /\ runs[a].sandbox = runs'[r].sandbox => a \in Lineage(r)

(* Hence holders of one sandbox stay related. *)
LEMMA TouchKeepsHolders ==
  ASSUME SInv, SuccessionTypes', NEW r \in Ids, Rest(r), HoldsRightly(r),
         runs'[r].pred = runs[r].pred,
         busy' = Released(r) \/ busy \subseteq busy'
  PROVE  HoldersOK'
PROOF
  <1>1. \A q \in Ids : runs'[q].pred = runs[q].pred
    BY DEF Rest
  <1>2. \A q : Lineage(q)' = Lineage(q)
    BY <1>1, LineageKept DEF SInv, SuccessionTypes
  <1>3. ASSUME NEW a \in Ids \ {r}, Holder(a)'
        PROVE  Holder(a) /\ runs'[a] = runs[a] /\ runs[a].sandbox \in busy'
    <2>1. Holder(a) /\ runs'[a] = runs[a] /\ runs[a].sandbox \in busy
      BY <1>3, OthersHold DEF SInv, HoldersOK
    <2>2. QED
      BY <2>1, ReleasedKeeps
  <1>4. ASSUME NEW a \in Ids, Holder(a)' PROVE runs'[a].sandbox \in busy'
    BY <1>3, <1>4 DEF HoldsRightly
  <1>5. ASSUME NEW a \in Ids \ {r}, Holder(a)', Holder(r)', runs'[a].sandbox = runs'[r].sandbox
        PROVE  a \in Lineage(r) \/ r \in Lineage(a)
    <2>1. Holder(a) /\ runs'[a] = runs[a]
      BY <1>3, <1>5
    <2>2. CASE Holder(r) /\ runs'[r].sandbox = runs[r].sandbox
      BY <1>5, <2>1, <2>2 DEF SInv, HoldersOK
    <2>3. CASE \A b \in Ids \ {r} :
                 Active(b) /\ runs[b].sandbox = runs'[r].sandbox => b \in Lineage(r)
      BY <1>5, <2>1, <2>3 DEF Holder
    <2>4. QED
      BY <1>5, <2>2, <2>3 DEF HoldsRightly
  <1>6. ASSUME NEW a \in Ids, NEW b \in Ids \ {a}, Holder(a)', Holder(b)',
               runs'[a].sandbox = runs'[b].sandbox
        PROVE  a \in Lineage(b) \/ b \in Lineage(a)
    <2>1. CASE a = r
      BY <1>5, <1>6, <2>1
    <2>2. CASE b = r
      BY <1>5, <1>6, <2>2
    <2>3. CASE a # r /\ b # r
      <3>1. Holder(a) /\ Holder(b) /\ runs'[a] = runs[a] /\ runs'[b] = runs[b]
        BY <1>3, <1>6, <2>3
      <3>2. QED
        BY <1>6, <3>1 DEF SInv, HoldersOK
    <2>4. QED
      BY <2>1, <2>2, <2>3
  <1>7. QED
    BY <1>2, <1>4, <1>6 DEF HoldersOK

(* A step that touches one run keeps the invariant if that run evolves.    *)
LEMMA TouchKeeps ==
  ASSUME SInv, SuccessionTypes', NEW r \in Ids, Rest(r), HoldsRightly(r), Evolves(r),
         \A c \in Starters : Moves(c),
         busy' = Released(r) \/ busy \subseteq busy',
         r \in working' => runs'[r].status = "Running",
         r \in boot'.resumed => r \in boot.resumed \/ (Born(r) /\ ~Starting(r)),
         r \in boot'.todo => r \in boot.todo,
         boot.stage # "recovering" => boot' = boot
  PROVE  SInv'
PROOF
  <1>1. \A a \in Ids : Evolves(a)
    BY RestEvolves
  <1>2. ASSUME NEW a \in working' PROVE runs'[a].status = "Running"
    <2>1. a \in Ids
      BY DEF SuccessionTypes
    <2>2. CASE a # r
      BY <2>1, <2>2 DEF Rest, SInv, SessionsOK
    <2>3. QED
      BY <1>2, <2>2
  <1>3. ASSUME NEW a \in boot'.resumed PROVE a \in boot.resumed \/ (Born(a) /\ ~Starting(a))
    <2>1. a \in Ids
      BY DEF SuccessionTypes
    <2>2. QED
      BY <2>1 DEF Rest
  <1>4. boot'.stage = boot.stage /\ next' = next /\ continued' = continued
    BY DEF Rest
  <1>5. boot'.stage # "recovering" => boot'.todo = {} /\ boot'.resumed = {}
    BY <1>4 DEF SInv, SessionsOK
  <1>6. Update
    BY <1>1, <1>2, <1>3, <1>4, <1>5 DEF Update
  <1>7. HoldersOK'
    BY TouchKeepsHolders DEF Evolves
  <1>8. QED
    BY <1>6, <1>7, UpdateKeeps

-----------------------------------------------------------------------------
(* A run in memory and in the log is replaced by another record of it. *)
LEMMA SaveEvolves ==
  ASSUME SInv, NEW r \in Ids, NEW rec \in RunRecords, Save(r, rec), Born(r),
         rec.pred = runs[r].pred, rec.parent = runs[r].parent, rec.op = runs[r].op,
         rec.succ = runs[r].succ, rec.snapshot = runs[r].snapshot, frozen'[r] = frozen[r],
         rec.status # "None", rec.status \notin Closed => Active(r),
         Recorded(r) \/ rec.status = "Closed", launched' = launched,
         (\E c \in Starters : calls'[c].run = r) =>
            rec.status \in {runs[r].status, "Closed"} /\ rec.checkpoint = runs[r].checkpoint
  PROVE  /\ Evolves(r)
         /\ runs' \in [Ids -> RunRecords] /\ disk' \in [Ids -> RunRecords]
         /\ runs'[r] = rec
         /\ \A a \in Ids \ {r} : runs'[a] = runs[a] /\ disk'[a] = disk[a]
PROOF
  <1>1. runs \in [Ids -> RunRecords] /\ disk \in [Ids -> RunRecords]
    BY DEF SInv, SuccessionTypes
  <1>2. /\ runs' \in [Ids -> RunRecords] /\ disk' \in [Ids -> RunRecords]
        /\ runs'[r] = rec /\ disk'[r] = rec
        /\ \A a \in Ids \ {r} : runs'[a] = runs[a] /\ disk'[a] = disk[a]
    BY <1>1 DEF Save
  <1>3. disk[r].status = "None" => r \notin launched'
    BY DEF SInv, SessionsOK, Recorded
  <1>4. Evolves(r)
    BY <1>2, <1>3 DEF Evolves, Recorded, Born
  <1>5. QED
    BY <1>2, <1>4

(* update_run_status. *)
LEMMA StatusUpdate ==
  ASSUME SInv, NEW r \in Ids, NEW status \in {"Closed", "Partial", "NeedsUserInput"},
         update_run_status(r, status), launched' = launched, frozen' = frozen,
         status = "Closed" \/ (Recorded(r) /\ \A c \in Starters : calls'[c].run # r)
  PROVE  /\ Evolves(r)
         /\ runs' \in [Ids -> RunRecords] /\ disk' \in [Ids -> RunRecords]
         /\ runs'[r].status = status /\ runs'[r].sandbox = runs[r].sandbox
         /\ \A a \in Ids \ {r} : runs'[a] = runs[a] /\ disk'[a] = disk[a]
         /\ busy' = Released(r) \/ busy' = busy
         /\ IF status \in Closed THEN working' = working \ {r} ELSE working' = working
PROOF
  <1>1. PICK rec : rec = [runs[r] EXCEPT !.status = status]
    OBVIOUS
  <1>2. Save(r, rec) /\ Active(r)
    BY <1>1 DEF update_run_status
  <1>3. runs[r] \in RunRecords
    BY DEF SInv, SuccessionTypes
  <1>4. /\ rec \in RunRecords /\ rec.pred = runs[r].pred /\ rec.parent = runs[r].parent
        /\ rec.op = runs[r].op /\ rec.succ = runs[r].succ /\ rec.snapshot = runs[r].snapshot
        /\ rec.checkpoint = runs[r].checkpoint /\ rec.status = status
        /\ rec.sandbox = runs[r].sandbox
    BY <1>1, <1>3 DEF RunRecords, Statuses
  <1>5. Born(r)
    BY <1>2 DEF Active, Closed, Born
  <1>6. /\ Evolves(r)
        /\ runs' \in [Ids -> RunRecords] /\ disk' \in [Ids -> RunRecords]
        /\ runs'[r] = rec
        /\ \A a \in Ids \ {r} : runs'[a] = runs[a] /\ disk'[a] = disk[a]
    BY <1>2, <1>4, <1>5, SaveEvolves
  <1>7. IF status \in Closed THEN busy' = Released(r) /\ working' = working \ {r}
        ELSE busy' = busy /\ working' = working
    BY DEF update_run_status
  <1>8. QED
    BY <1>4, <1>6, <1>7

(* A start that asks changes nothing of the runs. *)
LEMMA AskingKeeps ==
  ASSUME SInv, SuccessionTypes', NEW c \in Starters, calls[c].run = Nobody,
         calls'[c].run = Nobody, Moves(c), \A d \in Starters \ {c} : calls'[d] = calls[d],
         UNCHANGED <<stores, working, boot, launched, unacquired>>
  PROVE  SInv'
PROOF
  <1>1. UNCHANGED <<runs, disk, next, busy, frozen, continued>>
    BY DEF stores
  <1>2. \A r \in Ids : r # Nobody
    BY DEF Ids, Nobody
  <1>3. \A d \in Starters : calls'[d].run = calls[d].run /\ (d # c => calls'[d] = calls[d])
    OBVIOUS
  <1>4. ASSUME NEW r \in Ids PROVE Evolves(r)
    BY <1>1 DEF Evolves, Active
  <1>5. \A d \in Starters : Moves(d)
    BY <1>3 DEF Moves
  <1>6. Update
    BY <1>1, <1>4, <1>5 DEF Update, SInv, SessionsOK
  <1>7. \A a \in Ids : Starting(a)' <=> Starting(a)
    BY <1>3 DEF Starting, SInv, SuccessionTypes
  <1>8. \A a \in Ids : \A d \in Starters :
          (calls'[d].run = a => calls'[d].step = "prepare") <=>
          (calls[d].run = a => calls[d].step = "prepare")
    BY <1>2, <1>3
  <1>9. \A a \in Ids : Holder(a)' <=> Holder(a)
    BY <1>1, <1>7, <1>8 DEF Holder, Awaiting, Interrupted, Active
  <1>10. \A a : Lineage(a)' = Lineage(a)
    BY <1>1, LineageKept DEF SInv, SuccessionTypes
  <1>11. HoldersOK'
    BY <1>1, <1>9, <1>10 DEF HoldersOK, SInv
  <1>12. QED
    BY <1>6, <1>11, UpdateKeeps

(* A request takes one of the runs that are left. *)
LEMMA RequestTypes ==
  ASSUME SuccessionTypes, NEW c \in Starters,
         NEW kind \in {"initial", "child", "replan", "continue"}, NEW phase \in Phases,
         NEW from \in MaybeRun, NEW wanted \in Sandboxes \cup {NoSandbox},
         Request(c, kind, phase, from, wanted), next' = next
  PROVE  /\ calls[c] = Idle /\ calls[c].run = Nobody
         /\ calls'[c] = [step |-> "sandbox", kind |-> kind, phase |-> phase, from |-> from,
                         wanted |-> wanted, run |-> Nobody]
         /\ \A d \in Starters \ {c} : calls'[d] = calls[d]
         /\ calls' \in [Starters -> CallRecords]
         /\ next' \in Nat \ {0} /\ next' + Cardinality(Pending') <= MaxRuns + 1
PROOF
  <1>1. PICK new : new = [step |-> "sandbox", kind |-> kind, phase |-> phase, from |-> from,
                          wanted |-> wanted, run |-> Nobody]
    OBVIOUS
  <1>2. new \in CallRecords /\ new.run = Nobody
    BY <1>1 DEF CallRecords, Asking, MaybeRun
  <1>3. calls[c] = Idle /\ calls' = [calls EXCEPT ![c] = new]
    BY <1>1 DEF Request
  <1>4. /\ calls' \in [Starters -> CallRecords] /\ calls'[c] = new
        /\ \A d \in Starters \ {c} : calls'[d] = calls[d]
    BY <1>2, <1>3 DEF SuccessionTypes
  <1>5. calls[c].run = Nobody
    BY <1>3 DEF Idle
  <1>6. IsFiniteSet(Pending) /\ Cardinality(Pending) \in Nat
        /\ Pending = {d \in Starters : calls[d] # Idle /\ calls[d].run = Nobody}
    BY PendingFinite
  <1>7. Pending' = {d \in Starters : calls'[d] # Idle /\ calls'[d].run = Nobody}
    BY <1>4 DEF Pending
  <1>8. Pending' \subseteq Pending \cup {c}
    BY <1>4, <1>6, <1>7
  <1>9. IsFiniteSet(Pending \cup {c}) /\ Cardinality(Pending \cup {c}) <= Cardinality(Pending) + 1
        /\ Cardinality(Pending \cup {c}) \in Nat
    <2>1. PICK S : S = Pending
      OBVIOUS
    <2>2. IsFiniteSet(S) /\ Cardinality(S) \in Nat
      BY <1>6, <2>1
    <2>3. /\ IsFiniteSet(S \cup {c})
          /\ Cardinality(S \cup {c}) \in {Cardinality(S), Cardinality(S) + 1}
      BY <2>2, FS_AddElement
    <2>4. QED
      BY <2>1, <2>2, <2>3
  <1>10. Cardinality(Pending') <= Cardinality(Pending) + 1 /\ Cardinality(Pending') \in Nat
    <2>1. Cardinality(Pending') <= Cardinality(Pending \cup {c}) /\ IsFiniteSet(Pending')
      BY <1>8, <1>9, FS_Subset
    <2>2. QED
      BY <1>6, <1>9, <2>1, FS_CardinalityType
  <1>11. next + Cardinality(Pending) <= MaxRuns
    BY DEF Request
  <1>12. QED
    BY <1>1, <1>3, <1>4, <1>5, <1>6, <1>10, <1>11, SuccessionBounds DEF SuccessionTypes

-----------------------------------------------------------------------------
(* A request for a run that may be succeeded keeps the invariant. *)
LEMMA RequestKeeps ==
  ASSUME SInv, NEW c \in Starters,
         NEW kind \in {"initial", "child", "replan", "continue"}, NEW phase \in Phases,
         NEW from \in MaybeRun, NEW wanted \in Sandboxes \cup {NoSandbox},
         Request(c, kind, phase, from, wanted),
         from # Nobody => Recorded(from) /\ ~Starting(from),
         kind \in {"child", "replan", "continue"} <=> from # Nobody,
         boot.stage # "up" => kind = "continue",
         UNCHANGED <<stores, working, freezing, boot, launched, unacquired>>
  PROVE  SInv'
PROOF
  <1>1. UNCHANGED <<runs, disk, next, busy, frozen, continued>>
    BY DEF stores
  <1>2. /\ calls[c] = Idle /\ calls[c].run = Nobody
        /\ calls'[c] = [step |-> "sandbox", kind |-> kind, phase |-> phase, from |-> from,
                        wanted |-> wanted, run |-> Nobody]
        /\ \A d \in Starters \ {c} : calls'[d] = calls[d]
        /\ calls' \in [Starters -> CallRecords]
        /\ next' \in Nat \ {0} /\ next' + Cardinality(Pending') <= MaxRuns + 1
    BY <1>1, RequestTypes DEF SInv
  <1>3. SuccessionTypes'
    BY <1>1, <1>2 DEF SInv, SuccessionTypes
  <1>4. calls'[c].step \in Asking /\ calls'[c].run = Nobody /\ calls'[c].from = from
        /\ calls'[c].kind = kind
    BY <1>2 DEF Asking
  <1>5. Requested(c)
    BY <1>2, <1>4 DEF Requested
  <1>6. Moves(c)
    BY <1>5 DEF Moves
  <1>7. QED
    BY <1>2, <1>3, <1>4, <1>6, AskingKeeps

(* StartInitial *)
LEMMA StartInitialKeeps ==
  ASSUME SInv, NEW c \in Api, StartInitial(c)
  PROVE  SInv'
PROOF
  <1>1. PICK phase \in Mutable, wanted \in Offered \cup {NoSandbox} :
          Request(c, "initial", phase, Nobody, wanted)
    BY DEF StartInitial
  <1>2. phase \in Phases /\ wanted \in Sandboxes \cup {NoSandbox} /\ Nobody \in MaybeRun
        /\ c \in Starters
    BY SuccessionBounds DEF Phases, MaybeRun, Starters
  <1>3. boot.stage = "up" /\ UNCHANGED <<stores, working, freezing, boot, launched, unacquired>>
    BY DEF StartInitial
  <1>4. QED
    BY <1>1, <1>2, <1>3, RequestKeeps

(* StartChild *)
LEMMA StartChildKeeps ==
  ASSUME SInv, NEW c \in Api, StartChild(c)
  PROVE  SInv'
PROOF
  <1>1. PICK p \in Ids :
          /\ runs[p].status # "None" /\ ~Starting(p)
          /\ Request(c, "child", "Review", p, NoSandbox)
    BY DEF StartChild
  <1>2. "Review" \in Phases /\ NoSandbox \in Sandboxes \cup {NoSandbox} /\ p \in MaybeRun
        /\ c \in Starters /\ p # Nobody
    BY DEF Phases, MaybeRun, Starters, Ids, Nobody
  <1>3. Recorded(p)
    BY <1>1, BeyondStart DEF Born
  <1>4. boot.stage = "up" /\ UNCHANGED <<stores, working, freezing, boot, launched, unacquired>>
    BY DEF StartChild
  <1>5. QED
    BY <1>1, <1>2, <1>3, <1>4, RequestKeeps

(* dispatch_continuation_successor *)
LEMMA ControllerKeeps ==
  ASSUME SInv, dispatch_continuation_successor
  PROVE  SInv'
PROOF
  <1>1. PICK r \in Ids :
          /\ runs[r].snapshot # Nobody /\ Eligible(runs[r].snapshot)
          /\ Request(Controller, "continue", runs[runs[r].snapshot].phase, runs[r].snapshot,
                     runs[runs[r].snapshot].sandbox)
    BY DEF dispatch_continuation_successor
  <1>2. PICK p \in Ids : p = runs[r].snapshot
    BY <1>1 DEF SInv, SuccessionTypes, RunRecords, MaybeRun
  <1>3. p \in MaybeRun /\ p # Nobody /\ Controller \in Starters
    BY <1>2, <1>1 DEF MaybeRun, Starters
  <1>4. runs[p].phase \in Phases /\ runs[p].sandbox \in Sandboxes \cup {NoSandbox}
    BY DEF SInv, SuccessionTypes, RunRecords
  <1>5. Recorded(p) /\ ~Starting(p)
    BY <1>1, <1>2, BeyondStart DEF Eligible, Born
  <1>6. UNCHANGED <<stores, working, freezing, boot, launched, unacquired>>
    BY DEF dispatch_continuation_successor
  <1>7. QED
    BY <1>1, <1>2, <1>3, <1>4, <1>5, <1>6, RequestKeeps

(* A start that has no run yet goes on asking, or ends. *)
LEMMA AskingGoesOn ==
  ASSUME SInv, NEW c \in Starters, calls[c].step \in Asking,
         Answer(c) \/ \E to \in Asking : Goto(c, to),
         UNCHANGED <<stores, working, freezing, boot, launched, unacquired>>
  PROVE  SInv'
PROOF
  <1>1. UNCHANGED <<runs, disk, next, busy, frozen, continued>>
    BY DEF stores
  <1>2. calls[c] \in CallRecords /\ calls[c].run = Nobody /\ calls[c] # Idle
        /\ calls[c].step \notin Unrecorded
    BY DEF SInv, SuccessionTypes, CallOK, Idle, Asking, Unrecorded
  <1>3. PICK new \in CallRecords :
          /\ calls' = [calls EXCEPT ![c] = new] /\ new.run = Nobody
          /\ new = Idle \/ \E to \in Asking : new = [calls[c] EXCEPT !.step = to]
    <2>1. CASE Answer(c)
      <3>1. Idle \in CallRecords /\ Idle.run = Nobody
        BY DEF Idle, CallRecords, Phases, MaybeRun
      <3>2. QED
        BY <2>1, <3>1 DEF Answer
    <2>2. CASE \E to \in Asking : Goto(c, to)
      <3>1. PICK to \in Asking : Goto(c, to)
        BY <2>2
      <3>2. [calls[c] EXCEPT !.step = to] \in CallRecords
            /\ [calls[c] EXCEPT !.step = to].run = Nobody
        BY <1>2, <3>1 DEF CallRecords
      <3>3. QED
        BY <3>1, <3>2 DEF Goto
    <2>3. QED
      BY <2>1, <2>2
  <1>4. /\ calls' \in [Starters -> CallRecords] /\ calls'[c] = new
        /\ \A d \in Starters \ {c} : calls'[d] = calls[d]
    BY <1>3 DEF SInv, SuccessionTypes
  <1>5. next' \in Nat \ {0} /\ next' + Cardinality(Pending') <= MaxRuns + 1
    BY <1>1, <1>2, <1>4, PendingShrinks DEF SInv
  <1>6. SuccessionTypes'
    BY <1>1, <1>4, <1>5 DEF SInv, SuccessionTypes
  <1>7. Moves(c)
    <2>1. CASE new = Idle
      BY <1>2, <1>4, <2>1 DEF Moves, Answered
    <2>2. CASE \E to \in Asking : new = [calls[c] EXCEPT !.step = to]
      BY <1>4, <2>2 DEF Moves, Proceeds
    <2>3. QED
      BY <1>3, <2>1, <2>2
  <1>8. QED
    BY <1>2, <1>3, <1>4, <1>6, <1>7, AskingKeeps

(* validate_sandbox_context and validate_project_lifecycle_context *)
LEMMA ChecksKeep ==
  ASSUME SInv, NEW c \in Starters,
         validate_sandbox_context(c) \/ validate_project_lifecycle_context(c)
  PROVE  SInv'
PROOF
  <1>1. /\ calls[c].step \in Asking
        /\ Answer(c) \/ \E to \in Asking : Goto(c, to)
        /\ UNCHANGED <<stores, working, freezing, boot, launched, unacquired>>
    BY DEF validate_sandbox_context, validate_project_lifecycle_context, At, Asking
  <1>2. QED
    BY <1>1, AskingGoesOn

-----------------------------------------------------------------------------
(* A run that is out of its start changes: it stops, waits, is closed or   *)
(* gets a session.                                                         *)
LEMMA SettledKeeps ==
  ASSUME SInv, NEW r \in Ids, NEW rec \in RunRecords, Active(r), ~Starting(r), Save(r, rec),
         rec.pred = runs[r].pred, rec.parent = runs[r].parent, rec.op = runs[r].op,
         rec.succ = runs[r].succ, rec.snapshot = runs[r].snapshot,
         rec.sandbox = runs[r].sandbox, rec.status # "None",
         UNCHANGED <<next, frozen, continued, calls, boot, unacquired>>,
         busy' = busy \/ (busy' = Released(r) /\ rec.status \in Closed),
         working' \in {working, working \ {r}, working \cup {r}},
         r \in working' => rec.status = "Running",
         \/ launched' = launched
         \/ launched' = launched \cup {r} /\ runs[r].pred # Nobody /\ runs[r].parent = Nobody,
         freezing' \subseteq Ids,
         rec.status \in Closed \/ r \in working \/ boot.stage = "up"
  PROVE  SInv'
PROOF
  <1>1. runs \in [Ids -> RunRecords] /\ disk \in [Ids -> RunRecords] /\ DOMAIN calls = Starters
    BY DEF SInv, SuccessionTypes
  <1>2. /\ runs' \in [Ids -> RunRecords] /\ disk' \in [Ids -> RunRecords]
        /\ runs'[r] = rec /\ disk'[r] = rec
        /\ \A a \in Ids \ {r} : runs'[a] = runs[a] /\ disk'[a] = disk[a]
    BY <1>1 DEF Save
  <1>3. SuccessionTypes'
    BY <1>2 DEF SInv, SuccessionTypes, Pending
  <1>4. Born(r) /\ Recorded(r)
    BY BeyondStart DEF Active, Closed, Born
  <1>5. \A c \in Starters : calls'[c].run # r
    BY <1>1 DEF Starting
  <1>6. Evolves(r)
    BY <1>2, <1>4, <1>5 DEF Evolves, Recorded, Born
  <1>7. \A a \in Ids \ {r} : (a \in working' <=> a \in working) /\ (a \in launched' <=> a \in launched)
    OBVIOUS
  <1>8. Rest(r)
    BY <1>2, <1>7 DEF Rest
  <1>9. HoldsRightly(r)
    <2>1. SUFFICES ASSUME Holder(r)'
                   PROVE  Holder(r) /\ runs'[r].sandbox = runs[r].sandbox /\ busy' = busy
      BY <2>1 DEF HoldsRightly, SInv, HoldersOK
    <2>2. rec.status \notin Closed
      BY <1>2, <2>1 DEF Holder, Active
    <2>3. Awaiting(r) => r \in working
      BY <2>2 DEF Awaiting, SInv, SessionsOK
    <2>4. Holder(r)
      BY <1>2, <1>5, <2>1, <2>3 DEF Holder
    <2>5. QED
      BY <1>2, <2>2, <2>4
  <1>10. \A c \in Starters : Moves(c)
    BY DEF Moves
  <1>11. QED
    BY <1>2, <1>3, <1>6, <1>8, <1>9, <1>10, TouchKeeps

(* A run is closed, in whatever step its start is, or waits for the user   *)
(* without a sandbox; its start may end with it.                           *)
LEMMA StatusKeeps ==
  ASSUME SInv, NEW r \in Ids, NEW status \in {"Closed", "Partial", "NeedsUserInput"},
         update_run_status(r, status),
         status = "Closed" \/ (Recorded(r) /\ \A c \in Starters : calls'[c].run # r),
         status \in Closed \/ (r \in unacquired' /\ r \notin working),
         UNCHANGED <<next, frozen, continued, freezing, launched>>,
         calls' \in [Starters -> CallRecords], next' + Cardinality(Pending') <= MaxRuns + 1,
         \A c \in Starters : Moves(c),
         \A c \in Starters : calls[c].run \notin {r, Nobody} \/ calls'[c].run \notin {r, Nobody} =>
            calls'[c] = calls[c],
         unacquired' \in {unacquired, unacquired \cup {r}},
         \/ boot' = boot
         \/ boot.stage = "recovering" /\ boot' = [boot EXCEPT !.todo = @ \ {r}]
  PROVE  SInv'
PROOF
  <1>1. /\ Evolves(r)
        /\ runs' \in [Ids -> RunRecords] /\ disk' \in [Ids -> RunRecords]
        /\ runs'[r].status = status /\ runs'[r].sandbox = runs[r].sandbox
        /\ \A a \in Ids \ {r} : runs'[a] = runs[a] /\ disk'[a] = disk[a]
        /\ busy' = Released(r) \/ busy' = busy
        /\ IF status \in Closed THEN working' = working \ {r} ELSE working' = working
    BY StatusUpdate
  <1>2. boot \in [stage : {"up", "down", "recovering"}, todo : SUBSET Ids, resumed : SUBSET Ids]
    BY DEF SInv, SuccessionTypes
  <1>3. boot' \in [stage : {"up", "down", "recovering"}, todo : SUBSET Ids, resumed : SUBSET Ids]
        /\ boot'.stage = boot.stage /\ boot'.todo \in {boot.todo, boot.todo \ {r}}
        /\ boot'.resumed = boot.resumed
        /\ (boot.stage # "recovering" => boot' = boot)
    <2>1. CASE boot' = boot
      BY <1>2, <2>1
    <2>2. CASE boot.stage = "recovering" /\ boot' = [boot EXCEPT !.todo = @ \ {r}]
      BY <1>2, <2>2
    <2>3. QED
      BY <2>1, <2>2
  <1>4. working' \subseteq Ids
    BY <1>1 DEF SInv, SuccessionTypes
  <1>5. SuccessionTypes'
    BY <1>1, <1>3, <1>4 DEF SInv, SuccessionTypes
  <1>6. Rest(r)
    BY <1>1, <1>3 DEF Rest
  <1>7. HoldsRightly(r)
    BY <1>1 DEF HoldsRightly, Holder, Active
  <1>8. r \in working' => runs'[r].status = "Running"
    <2>1. CASE status \in Closed
      BY <1>1, <2>1
    <2>2. CASE status \notin Closed
      BY <1>1, <2>2
    <2>3. QED
      BY <2>1, <2>2
  <1>9. QED
    BY <1>1, <1>3, <1>5, <1>6, <1>7, <1>8, TouchKeeps

-----------------------------------------------------------------------------
(* A run with a session is Running, logged and out of its start. *)
LEMMA SessionOfRun ==
  ASSUME SInv, NEW r \in working
  PROVE  /\ r \in Ids /\ runs[r] \in RunRecords
         /\ runs[r].status = "Running" /\ Active(r) /\ ~Starting(r) /\ Recorded(r)
PROOF
  <1>1. r \in Ids /\ runs[r] \in RunRecords /\ runs[r].status = "Running"
    BY DEF SInv, SuccessionTypes, SessionsOK
  <1>2. QED
    BY <1>1, BeyondStart DEF Active, Closed, Born

(* FinalizePartial and mark_run_replan_required *)
LEMMA StopEarlyKeeps ==
  ASSUME SInv, NEW r \in working, NEW replan \in BOOLEAN, StopEarly(r, replan),
         UNCHANGED <<next, frozen, continued, calls, boot, launched, unacquired>>
  PROVE  SInv'
PROOF
  <1>1. r \in Ids /\ runs[r] \in RunRecords /\ Active(r) /\ ~Starting(r)
    BY SessionOfRun
  <1>2. PICK rec : rec = [runs[r] EXCEPT !.status = "Partial", !.checkpoint = TRUE,
                                         !.replan = replan]
    OBVIOUS
  <1>3. rec \in RunRecords
    BY <1>1, <1>2 DEF RunRecords, Statuses
  <1>4. /\ rec.pred = runs[r].pred /\ rec.parent = runs[r].parent /\ rec.op = runs[r].op
        /\ rec.succ = runs[r].succ /\ rec.snapshot = runs[r].snapshot
        /\ rec.sandbox = runs[r].sandbox /\ rec.status = "Partial"
    BY <1>1, <1>2 DEF RunRecords
  <1>5. Save(r, rec) /\ busy' = Released(r) /\ working' = working \ {r}
        /\ freezing' = freezing \cup {r}
    BY <1>2 DEF StopEarly
  <1>6. freezing' \subseteq Ids /\ r \notin working' /\ rec.status \in Closed
        /\ rec.status # "None"
    BY <1>1, <1>4, <1>5 DEF SInv, SuccessionTypes, Closed
  <1>7. QED
    BY <1>1, <1>3, <1>4, <1>5, <1>6, SettledKeeps

(* record_progress_fingerprint *)
LEMMA FingerprintKeeps ==
  ASSUME SInv, NEW r \in Ids, record_progress_fingerprint(r)
  PROVE  SInv'
PROOF
  <1>1. r \in working /\ Save(r, [runs[r] EXCEPT !.replan = TRUE])
        /\ UNCHANGED <<next, busy, frozen, continued, working, freezing, calls, boot,
                       launched, unacquired>>
    BY DEF record_progress_fingerprint
  <1>2. runs[r] \in RunRecords /\ runs[r].status = "Running" /\ Active(r) /\ ~Starting(r)
    BY <1>1, SessionOfRun
  <1>3. PICK rec : rec = [runs[r] EXCEPT !.replan = TRUE]
    OBVIOUS
  <1>4. /\ rec \in RunRecords /\ rec.pred = runs[r].pred /\ rec.parent = runs[r].parent
        /\ rec.op = runs[r].op /\ rec.succ = runs[r].succ /\ rec.snapshot = runs[r].snapshot
        /\ rec.sandbox = runs[r].sandbox /\ rec.status = "Running"
    BY <1>2, <1>3 DEF RunRecords
  <1>5. freezing' \subseteq Ids /\ working' = working /\ busy' = busy /\ launched' = launched
        /\ rec.status # "None"
    BY <1>1, <1>4 DEF SInv, SuccessionTypes
  <1>6. QED
    BY <1>1, <1>2, <1>3, <1>4, <1>5, SettledKeeps

(* SessionPauses *)
LEMMA SessionPausesKeeps ==
  ASSUME SInv, NEW r \in Ids, SessionPauses(r)
  PROVE  SInv'
PROOF
  <1>1. r \in working /\ Save(r, [runs[r] EXCEPT !.status = "NeedsUserInput"])
        /\ working' = working \ {r}
        /\ UNCHANGED <<next, busy, frozen, continued, freezing, calls, boot, launched,
                       unacquired>>
    BY DEF SessionPauses
  <1>2. runs[r] \in RunRecords /\ runs[r].status = "Running" /\ Active(r) /\ ~Starting(r)
    BY <1>1, SessionOfRun
  <1>3. PICK rec : rec = [runs[r] EXCEPT !.status = "NeedsUserInput"]
    OBVIOUS
  <1>4. /\ rec \in RunRecords /\ rec.pred = runs[r].pred /\ rec.parent = runs[r].parent
        /\ rec.op = runs[r].op /\ rec.succ = runs[r].succ /\ rec.snapshot = runs[r].snapshot
        /\ rec.sandbox = runs[r].sandbox /\ rec.status = "NeedsUserInput"
    BY <1>2, <1>3 DEF RunRecords, Statuses
  <1>5. freezing' \subseteq Ids /\ r \notin working' /\ busy' = busy /\ launched' = launched
        /\ rec.status # "None"
    BY <1>1, <1>4 DEF SInv, SuccessionTypes
  <1>6. QED
    BY <1>1, <1>2, <1>3, <1>4, <1>5, SettledKeeps

(* EndOrCancel *)
LEMMA EndOrCancelKeeps ==
  ASSUME SInv, NEW r \in Ids, EndOrCancel(r)
  PROVE  SInv'
PROOF
  <1>1. update_run_status(r, "Closed")
        /\ UNCHANGED <<next, frozen, continued, freezing, calls, boot, launched, unacquired>>
    BY DEF EndOrCancel
  <1>2. calls' \in [Starters -> CallRecords] /\ next' + Cardinality(Pending') <= MaxRuns + 1
    BY <1>1 DEF SInv, SuccessionTypes, Pending
  <1>3. \A c \in Starters : Moves(c)
    BY <1>1 DEF Moves
  <1>4. "Closed" \in Closed
    BY DEF Closed
  <1>5. QED
    BY <1>1, <1>2, <1>3, <1>4, StatusKeeps

(* dispatch_replan_successor *)
LEMMA ReplanKeeps ==
  ASSUME SInv, NEW c \in Api, dispatch_replan_successor(c)
  PROVE  SInv'
PROOF
  <1>1. /\ boot.stage = "up"
        /\ UNCHANGED <<next, frozen, continued, freezing, boot, launched, unacquired>>
    BY DEF dispatch_replan_successor
  <1>2. PICK p \in Ids :
          /\ ~Starting(p)
          /\ Request(c, "replan", runs[p].phase, p, runs[p].sandbox)
          /\ \/ runs[p].status = "Partial" /\ UNCHANGED <<runs, disk, busy, working>>
             \/ runs[p].status = "NeedsUserInput" /\ update_run_status(p, "Partial")
    BY DEF dispatch_replan_successor
  <1>3. /\ c \in Starters /\ p \in MaybeRun /\ p # Nobody
        /\ runs[p].phase \in Phases /\ runs[p].sandbox \in Sandboxes \cup {NoSandbox}
        /\ DOMAIN calls = Starters
    BY DEF Starters, MaybeRun, Ids, Nobody, SInv, SuccessionTypes, RunRecords
  <1>4. Recorded(p)
    BY <1>2, BeyondStart DEF Born
  <1>5. CASE runs[p].status = "Partial" /\ UNCHANGED <<runs, disk, busy, working>>
    BY <1>1, <1>2, <1>3, <1>4, <1>5, RequestKeeps DEF stores
  <1>6. CASE update_run_status(p, "Partial")
    <2>1. /\ calls[c] = Idle /\ calls[c].run = Nobody
          /\ calls'[c] = [step |-> "sandbox", kind |-> "replan", phase |-> runs[p].phase,
                          from |-> p, wanted |-> runs[p].sandbox, run |-> Nobody]
          /\ \A d \in Starters \ {c} : calls'[d] = calls[d]
          /\ calls' \in [Starters -> CallRecords]
          /\ next' + Cardinality(Pending') <= MaxRuns + 1
      BY <1>1, <1>2, <1>3, RequestTypes DEF SInv
    <2>2. Requested(c)
      BY <1>1, <1>2, <1>3, <1>4, <2>1 DEF Requested, Asking
    <2>3. \A d \in Starters : Moves(d)
      BY <2>1, <2>2 DEF Moves
    <2>4. \A d \in Starters : calls'[d].run # p
      BY <1>2, <1>3, <2>1 DEF Starting
    <2>5. "Partial" \in Closed
      BY DEF Closed
    <2>6. calls'[c].run = Nobody
      BY <2>1
    <2>7. QED
      BY <1>1, <1>4, <1>6, <2>1, <2>3, <2>4, <2>5, <2>6, StatusKeeps
  <1>7. QED
    BY <1>2, <1>5, <1>6

-----------------------------------------------------------------------------
(* What is not named by the invariant may change. *)
LEMMA StandsStill ==
  ASSUME SInv, freezing' \subseteq Ids,
         UNCHANGED <<runs, disk, next, busy, frozen, continued, working, calls, boot,
                     launched, unacquired>>
  PROVE  SInv'
PROOF
  <1>1. SuccessionTypes'
    BY DEF SInv, SuccessionTypes, Pending
  <1>2. \A r \in Ids : Evolves(r)
    BY DEF Evolves, Active
  <1>3. \A c \in Starters : Moves(c)
    BY DEF Moves
  <1>4. Update
    BY <1>2, <1>3 DEF Update, SInv, SessionsOK
  <1>5. \A a \in Ids : Holder(a)' <=> Holder(a)
    BY DEF Holder, Active, Awaiting, Interrupted, Starting
  <1>6. \A a : Lineage(a)' = Lineage(a)
    BY LineageKept DEF SInv, SuccessionTypes
  <1>7. HoldersOK'
    BY <1>5, <1>6 DEF HoldersOK, SInv
  <1>8. QED
    BY <1>1, <1>4, <1>7, UpdateKeeps

(* A line in which the frozen count finds no continuation has none. *)
LEMMA FrozenCount ==
  ASSUME SInv, NEW r \in Ids, runs[r].status = "Partial"
  PROVE  /\ Cardinality(Continuations(r)) \in Nat
         /\ Cardinality(Continuations(r)) < 1 => Lineage(r) \cap continued = {}
PROOF
  <1>1. IsFiniteSet(Ids)
    BY FS_Interval, SuccessionBounds DEF Ids
  <1>2. Continuations(r) \subseteq Ids
    BY DEF Continuations, SInv, SuccessionTypes
  <1>3. IsFiniteSet(Continuations(r)) /\ Cardinality(Continuations(r)) \in Nat
    BY <1>1, <1>2, FS_Subset, FS_CardinalityType
  <1>4. Recorded(r) /\ ~Starting(r)
    BY BeyondStart DEF Born
  <1>5. ASSUME NEW q \in Lineage(r) \cap continued PROVE q \in Continuations(r)
    BY <1>4, AncestorsSettled DEF SInv, Continuations
  <1>6. Cardinality(Continuations(r)) < 1 => Continuations(r) = {}
    BY <1>3, FS_EmptySet
  <1>7. QED
    BY <1>3, <1>5, <1>6

(* create_run_continuation_snapshot *)
LEMMA SnapshotKeeps ==
  ASSUME SInv, NEW r \in Ids, create_run_continuation_snapshot(r)
  PROVE  SInv'
PROOF
  <1>1. freezing' \subseteq Ids
        /\ UNCHANGED <<next, busy, continued, working, calls, boot, launched, unacquired>>
    BY DEF create_run_continuation_snapshot, SInv, SuccessionTypes
  <1>2. CASE UNCHANGED <<runs, disk, frozen>>
    BY <1>1, <1>2, StandsStill
  <1>3. CASE /\ runs[r].status = "Partial"
             /\ frozen' = [frozen EXCEPT ![r] = Cardinality(Continuations(r))]
             /\ Save(r, [runs[r] EXCEPT !.snapshot = r])
    <2>1. PICK rec : rec = [runs[r] EXCEPT !.snapshot = r]
      OBVIOUS
    <2>2. runs[r] \in RunRecords
      BY DEF SInv, SuccessionTypes
    <2>3. /\ rec \in RunRecords /\ rec.pred = runs[r].pred /\ rec.parent = runs[r].parent
          /\ rec.op = runs[r].op /\ rec.succ = runs[r].succ /\ rec.status = "Partial"
          /\ rec.checkpoint = runs[r].checkpoint
      BY <1>3, <2>1, <2>2 DEF RunRecords, MaybeRun
    <2>4. /\ runs' \in [Ids -> RunRecords] /\ disk' \in [Ids -> RunRecords]
          /\ runs'[r] = rec /\ disk'[r] = rec
          /\ \A a \in Ids \ {r} : runs'[a] = runs[a] /\ disk'[a] = disk[a]
      BY <1>3, <2>1, <2>3 DEF Save, SInv, SuccessionTypes
    <2>5. /\ Cardinality(Continuations(r)) \in Nat
          /\ Cardinality(Continuations(r)) < 1 => Lineage(r) \cap continued = {}
      BY <1>3, FrozenCount
    <2>6. /\ frozen' \in [Ids -> Nat] /\ frozen'[r] = Cardinality(Continuations(r))
          /\ \A a \in Ids \ {r} : frozen'[a] = frozen[a]
      BY <1>3, <2>5 DEF SInv, SuccessionTypes
    <2>7. SuccessionTypes'
      BY <1>1, <2>4, <2>6 DEF SInv, SuccessionTypes, Pending
    <2>8. Born(r) /\ Recorded(r) /\ ~Starting(r)
      BY <1>3, BeyondStart DEF Born
    <2>9. \A c \in Starters : Moves(c) /\ calls'[c].run # r
      BY <1>1, <2>8 DEF Moves, Starting, SInv, SuccessionTypes
    <2>10. frozen'[r] < 1 => Lineage(r) \cap continued = {}
      BY <2>5, <2>6
    <2>11. Evolves(r)
      BY <1>1, <1>3, <2>3, <2>4, <2>8, <2>9, <2>10 DEF Evolves, Recorded, Born, Closed
    <2>12. Rest(r)
      BY <1>1, <2>4, <2>6 DEF Rest
    <2>13. HoldsRightly(r)
      BY <2>3, <2>4 DEF HoldsRightly, Holder, Active, Closed
    <2>14. r \notin working
      BY <1>3 DEF SInv, SessionsOK
    <2>15. QED
      BY <1>1, <2>7, <2>9, <2>11, <2>12, <2>13, <2>14, TouchKeeps
  <1>4. QED
    BY <1>2, <1>3 DEF create_run_continuation_snapshot

-----------------------------------------------------------------------------
(* What launching does to each run. *)
LEMMA LaunchFacts ==
  ASSUME NEW R \in [Ids -> RunRecords], disk \in [Ids -> RunRecords],
         NEW launching \in SUBSET Ids, LaunchAll(R, launching)
  PROVE  /\ runs' \in [Ids -> RunRecords] /\ disk' \in [Ids -> RunRecords]
         /\ \A a \in Ids :
              /\ IF a \in launching /\ R[a].status \notin Closed
                 THEN runs'[a] = [R[a] EXCEPT !.status = "Running"]
                 ELSE runs'[a] = R[a]
              /\ disk'[a] = IF a \in launching THEN runs'[a] ELSE disk[a]
              /\ a \in working' <=> a \in working \/ (a \in launching /\ R[a].status \notin Closed)
              /\ a \in launched' <=>
                   \/ a \in launched
                   \/ /\ a \in launching /\ R[a].status \notin Closed
                      /\ R[a].pred # Nobody /\ R[a].parent = Nobody
         /\ working \subseteq Ids => working' \subseteq Ids
         /\ launched \subseteq Ids => launched' \subseteq Ids
PROOF
  <1> DEFINE started == {r \in launching : R[r].status \notin Closed}
             S == [r \in Ids |-> IF r \in started THEN [R[r] EXCEPT !.status = "Running"]
                                 ELSE R[r]]
  <1>1. /\ runs' = S /\ disk' = [r \in Ids |-> IF r \in launching THEN S[r] ELSE disk[r]]
        /\ working' = working \cup started
        /\ launched' = launched \cup {r \in started : R[r].pred # Nobody /\ R[r].parent = Nobody}
    BY DEF LaunchAll
  <1>2. \A a \in Ids : [R[a] EXCEPT !.status = "Running"] \in RunRecords
    BY DEF RunRecords, Statuses
  <1>3. started \subseteq Ids
        /\ \A a \in Ids : a \in started <=> a \in launching /\ R[a].status \notin Closed
    OBVIOUS
  <1>4. S \in [Ids -> RunRecords]
        /\ \A a \in Ids : S[a] = IF a \in started THEN [R[a] EXCEPT !.status = "Running"] ELSE R[a]
    BY <1>2
  <1> HIDE DEF S, started
  <1>5. runs' \in [Ids -> RunRecords] /\ disk' \in [Ids -> RunRecords]
        /\ \A a \in Ids : runs'[a] = S[a] /\ disk'[a] = IF a \in launching THEN S[a] ELSE disk[a]
    BY <1>1, <1>4
  <1>6. /\ \A a \in Ids :
             a \in launched' <=>
                \/ a \in launched
                \/ a \in started /\ R[a].pred # Nobody /\ R[a].parent = Nobody
        /\ launched \subseteq Ids => launched' \subseteq Ids
    BY <1>1, <1>3
  <1>7. ASSUME NEW a \in Ids
        PROVE  /\ IF a \in launching /\ R[a].status \notin Closed
                  THEN runs'[a] = [R[a] EXCEPT !.status = "Running"]
                  ELSE runs'[a] = R[a]
               /\ disk'[a] = IF a \in launching THEN runs'[a] ELSE disk[a]
    BY <1>3, <1>4, <1>5
  <1>8. ASSUME NEW a \in Ids
        PROVE  /\ a \in working' <=> a \in working \/ (a \in launching /\ R[a].status \notin Closed)
               /\ a \in launched' <=>
                    \/ a \in launched
                    \/ /\ a \in launching /\ R[a].status \notin Closed
                       /\ R[a].pred # Nobody /\ R[a].parent = Nobody
    BY <1>1, <1>3, <1>6
  <1>9. working \subseteq Ids => working' \subseteq Ids
    BY <1>1, <1>3
  <1>10. QED
    BY <1>5, <1>6, <1>7, <1>8, <1>9

(* continue_run *)
LEMMA ContinueRunKeeps ==
  ASSUME SInv, NEW r \in Ids, continue_run(r)
  PROVE  SInv'
PROOF
  <1>1. /\ boot.stage = "up" /\ ~Starting(r)
        /\ runs[r].status \in {"Queued", "NeedsUserInput"}
        /\ UNCHANGED <<next, busy, frozen, continued, freezing, calls, boot, unacquired>>
    BY DEF continue_run
  <1>2. runs[r] \in RunRecords /\ Active(r) /\ freezing' \subseteq Ids /\ working \subseteq Ids
        /\ launched \subseteq Ids
    BY <1>1 DEF SInv, SuccessionTypes, Active, Closed
  <1>3. CASE check_edit_conflicts(r)
    <2>1. PICK replan \in {runs[r].replan, TRUE} :
            Save(r, [runs[r] EXCEPT !.status = "NeedsUserInput", !.replan = replan])
      BY <1>3 DEF check_edit_conflicts
    <2>2. PICK rec : rec = [runs[r] EXCEPT !.status = "NeedsUserInput", !.replan = replan]
      OBVIOUS
    <2>3. /\ rec \in RunRecords /\ rec.pred = runs[r].pred /\ rec.parent = runs[r].parent
          /\ rec.op = runs[r].op /\ rec.succ = runs[r].succ /\ rec.snapshot = runs[r].snapshot
          /\ rec.sandbox = runs[r].sandbox /\ rec.status = "NeedsUserInput"
      BY <1>2, <2>1, <2>2 DEF RunRecords, Statuses
    <2>4. working' = working /\ launched' = launched /\ busy' = busy /\ rec.status # "None"
      BY <1>1, <1>3, <2>3 DEF check_edit_conflicts
    <2>5. r \notin working'
      BY <1>1, <2>4 DEF SInv, SessionsOK
    <2>6. Save(r, rec)
      BY <2>1, <2>2
    <2>7. QED
      BY <1>1, <1>2, <2>3, <2>4, <2>5, <2>6, SettledKeeps
  <1>4. CASE LaunchAll(runs, {r})
    <2>1. PICK rec : rec = [runs[r] EXCEPT !.status = "Running"]
      OBVIOUS
    <2>2. /\ rec \in RunRecords /\ rec.pred = runs[r].pred /\ rec.parent = runs[r].parent
          /\ rec.op = runs[r].op /\ rec.succ = runs[r].succ /\ rec.snapshot = runs[r].snapshot
          /\ rec.sandbox = runs[r].sandbox /\ rec.status = "Running" /\ rec.status # "None"
      BY <1>2, <2>1 DEF RunRecords, Statuses
    <2>3. runs \in [Ids -> RunRecords] /\ disk \in [Ids -> RunRecords] /\ {r} \in SUBSET Ids
      BY DEF SInv, SuccessionTypes
    <2>4. runs[r].status \notin Closed
      BY <1>2 DEF Active
    <2>5. /\ runs' \in [Ids -> RunRecords] /\ disk' \in [Ids -> RunRecords]
          /\ \A a \in Ids :
               /\ IF a \in {r} /\ runs[a].status \notin Closed
                  THEN runs'[a] = [runs[a] EXCEPT !.status = "Running"]
                  ELSE runs'[a] = runs[a]
               /\ disk'[a] = IF a \in {r} THEN runs'[a] ELSE disk[a]
               /\ a \in working' <=>
                    a \in working \/ (a \in {r} /\ runs[a].status \notin Closed)
               /\ a \in launched' <=>
                    \/ a \in launched
                    \/ /\ a \in {r} /\ runs[a].status \notin Closed
                       /\ runs[a].pred # Nobody /\ runs[a].parent = Nobody
          /\ working' \subseteq Ids /\ launched' \subseteq Ids
      BY <1>2, <1>4, <2>3, LaunchFacts
    <2>6. /\ runs'[r] = rec /\ disk'[r] = rec
          /\ \A a \in Ids \ {r} : runs'[a] = runs[a] /\ disk'[a] = disk[a]
      BY <2>1, <2>4, <2>5
    <2>7. Save(r, rec)
      BY <2>2, <2>3, <2>5, <2>6 DEF Save
    <2>8. working' = working \cup {r}
      BY <1>2, <2>4, <2>5
    <2>9. \/ launched' = launched
          \/ launched' = launched \cup {r} /\ runs[r].pred # Nobody /\ runs[r].parent = Nobody
      <3>1. CASE runs[r].pred # Nobody /\ runs[r].parent = Nobody
        BY <1>2, <2>4, <2>5, <3>1
      <3>2. CASE ~(runs[r].pred # Nobody /\ runs[r].parent = Nobody)
        BY <1>2, <2>5, <3>2
      <3>3. QED
        BY <3>1, <3>2
    <2>10. QED
      BY <1>1, <1>2, <2>2, <2>7, <2>8, <2>9, SettledKeeps
  <1>5. QED
    BY <1>3, <1>4 DEF continue_run

(* If nobody holds more than before, holders stay related. *)
LEMMA HoldingNoMore ==
  ASSUME SInv, SuccessionTypes', Update, busy' = busy,
         \A a \in Ids : Holder(a)' => Holder(a) /\ runs'[a].sandbox = runs[a].sandbox
  PROVE  SInv'
PROOF
  <1>1. \A a : Lineage(a)' = Lineage(a)
    BY UpdateKeepsLineages
  <1>2. HoldersOK'
    BY <1>1 DEF HoldersOK, SInv
  <1>3. QED
    BY <1>2, UpdateKeeps

(* runs_requiring_recovery *)
LEMMA RecoveryBeginKeeps ==
  ASSUME SInv, runs_requiring_recovery
  PROVE  SInv'
PROOF
  <1>1. /\ boot.stage = "down" /\ boot' = [boot EXCEPT !.stage = "recovering",
                                                   !.todo = {r \in Ids : Interrupted(r)}]
        /\ UNCHANGED <<runs, disk, next, busy, frozen, continued, working, freezing, calls,
                       launched, unacquired>>
    BY DEF runs_requiring_recovery, stores
  <1>2. /\ boot' \in [stage : {"up", "down", "recovering"}, todo : SUBSET Ids, resumed : SUBSET Ids]
        /\ boot'.stage = "recovering" /\ boot'.todo = {r \in Ids : Interrupted(r)}
        /\ boot'.resumed = boot.resumed
    BY <1>1 DEF SInv, SuccessionTypes
  <1>3. SuccessionTypes'
    BY <1>1, <1>2 DEF SInv, SuccessionTypes, Pending
  <1>4. \A r \in Ids : Evolves(r)
    BY <1>1 DEF Evolves, Active
  <1>5. \A c \in Starters : Moves(c)
    BY <1>1 DEF Moves
  <1>6. Update
    BY <1>1, <1>2, <1>4, <1>5 DEF Update, SInv, SessionsOK
  <1>7. ASSUME NEW a \in Ids, Holder(a)' PROVE Holder(a)
    <2>1. Awaiting(a)' <=> Awaiting(a)
      BY <1>1, <1>2 DEF Awaiting, Interrupted
    <2>2. QED
      BY <1>1, <1>7, <2>1 DEF Holder, Active, Starting
  <1>8. QED
    BY <1>1, <1>3, <1>6, <1>7, HoldingNoMore

(* Serve *)
LEMMA ServeKeeps ==
  ASSUME SInv, Serve
  PROVE  SInv'
PROOF
  <1>1. /\ boot.stage = "recovering" /\ boot.todo = {}
        /\ boot' = [stage |-> "up", todo |-> {}, resumed |-> {}]
        /\ LaunchAll(runs, boot.resumed)
        /\ UNCHANGED <<next, busy, frozen, continued, freezing, calls, unacquired>>
    BY DEF Serve
  <1>2. runs \in [Ids -> RunRecords] /\ disk \in [Ids -> RunRecords] /\ boot.resumed \in SUBSET Ids
        /\ working \subseteq Ids /\ launched \subseteq Ids
    BY DEF SInv, SuccessionTypes
  <1>3. /\ runs' \in [Ids -> RunRecords] /\ disk' \in [Ids -> RunRecords]
        /\ \A a \in Ids :
             /\ IF a \in boot.resumed /\ runs[a].status \notin Closed
                THEN runs'[a] = [runs[a] EXCEPT !.status = "Running"]
                ELSE runs'[a] = runs[a]
             /\ disk'[a] = IF a \in boot.resumed THEN runs'[a] ELSE disk[a]
             /\ a \in working' <=>
                  a \in working \/ (a \in boot.resumed /\ runs[a].status \notin Closed)
             /\ a \in launched' <=>
                  \/ a \in launched
                  \/ /\ a \in boot.resumed /\ runs[a].status \notin Closed
                     /\ runs[a].pred # Nobody /\ runs[a].parent = Nobody
        /\ working' \subseteq Ids /\ launched' \subseteq Ids
    BY <1>1, <1>2, LaunchFacts
  <1>4. /\ boot'.stage = "up" /\ boot'.todo = {} /\ boot'.resumed = {}
        /\ boot' \in [stage : {"up", "down", "recovering"}, todo : SUBSET Ids, resumed : SUBSET Ids]
    BY <1>1
  <1>5. SuccessionTypes'
    BY <1>1, <1>3, <1>4 DEF SInv, SuccessionTypes, Pending
  <1>6. ASSUME NEW r \in Ids PROVE Evolves(r)
    <2>1. CASE r \in boot.resumed /\ Active(r)
      <3>1. ~Starting(r) /\ Born(r) /\ Recorded(r)
        BY <2>1, BeyondStart DEF SInv, SessionsOK, Active, Closed, Born
      <3>2. \A c \in Starters : calls'[c].run # r
        BY <1>1, <3>1 DEF Starting, SInv, SuccessionTypes
      <3>3. PICK rec : rec = [runs[r] EXCEPT !.status = "Running"]
        OBVIOUS
      <3>4. /\ rec.pred = runs[r].pred /\ rec.parent = runs[r].parent
            /\ rec.op = runs[r].op /\ rec.succ = runs[r].succ /\ rec.snapshot = runs[r].snapshot
            /\ rec.status = "Running"
        BY <1>2, <3>3 DEF RunRecords
      <3>5. runs'[r] = rec /\ disk'[r] = rec
        BY <1>3, <2>1, <3>3 DEF Active
      <3>6. QED
        BY <1>1, <1>3, <2>1, <3>1, <3>2, <3>4, <3>5 DEF Evolves, Recorded, Born, Active
    <2>2. CASE ~(r \in boot.resumed /\ Active(r))
      <3>1. runs'[r] = runs[r] /\ (r \in launched' <=> r \in launched)
            /\ (r \notin boot.resumed => disk'[r] = disk[r])
        BY <1>3, <2>2 DEF Active
      <3>2. r \in boot.resumed => disk'[r] = runs[r]
        BY <1>3, <3>1
      <3>3. \/ disk'[r] = disk[r]
            \/ Born(r) /\ disk'[r] = runs'[r] /\ disk[r].status # "None"
        <4>1. CASE r \in boot.resumed /\ Born(r)
          BY <3>1, <3>2, <4>1, BeyondStart DEF SInv, SessionsOK, Recorded
        <4>2. CASE r \in boot.resumed /\ ~Born(r)
          BY <3>2, <4>2 DEF SInv, RunOK
        <4>3. QED
          BY <3>1, <4>1, <4>2
      <3>4. QED
        BY <1>1, <3>1, <3>3 DEF Evolves, Active
    <2>3. QED
      BY <2>1, <2>2
  <1>7. \A c \in Starters : Moves(c)
    BY <1>1 DEF Moves
  <1>8. ASSUME NEW r \in working' PROVE runs'[r].status = "Running"
    <2>1. r \in Ids
      BY <1>3
    <2>2. r \in working => runs[r].status = "Running"
      BY DEF SInv, SessionsOK
    <2>3. runs[r] \in RunRecords
      BY <1>2, <2>1
    <2>4. [runs[r] EXCEPT !.status = "Running"].status = "Running"
      BY <2>3 DEF RunRecords
    <2>5. QED
      BY <1>3, <1>8, <2>1, <2>2, <2>4
  <1>9. Update
    BY <1>1, <1>4, <1>6, <1>7, <1>8 DEF Update
  <1>10. ASSUME NEW a \in Ids, Holder(a)' PROVE Holder(a) /\ runs'[a].sandbox = runs[a].sandbox
    <2>1. runs[a] \in RunRecords
      BY <1>2
    <2>2. runs'[a].sandbox = runs[a].sandbox
      BY <1>3, <2>1 DEF RunRecords
    <2>3. Active(a)
      BY <1>6, <1>10 DEF Evolves, Holder, Active
    <2>4. ~Awaiting(a)
      BY <1>1 DEF Awaiting
    <2>5. QED
      BY <1>1, <1>10, <2>2, <2>3, <2>4 DEF Holder
  <1>11. QED
    BY <1>1, <1>5, <1>9, <1>10, HoldingNoMore

(* A run that a restart recovers is either out of its start or the new run *)
(* of a continuation, without checkpoint.                                  *)
LEMMA RecoveredIsSettled ==
  ASSUME SInv, NEW r \in boot.todo
  PROVE  /\ r \in Ids /\ boot.stage = "recovering"
         /\ runs[r].checkpoint => ~Starting(r)
PROOF
  <1>1. r \in Ids /\ boot.stage = "recovering"
    BY DEF SInv, SuccessionTypes, SessionsOK
  <1>2. ASSUME Starting(r) PROVE ~runs[r].checkpoint
    <2>1. PICK c \in Starters : calls[c].run = r
      BY <1>2 DEF Starting, SInv, SuccessionTypes
    <2>2. r # Nobody /\ Idle.run = Nobody /\ calls[c] \in CallRecords
      BY <1>1 DEF Ids, Nobody, Idle, SInv, SuccessionTypes
    <2>3. calls[c].step \notin Asking \cup {"idle"}
      BY <2>1, <2>2 DEF SInv, CallOK
    <2>4. calls[c].step \in Unready \cup {"prepare"} /\ calls[c].kind = "continue"
      BY <1>1, <2>2, <2>3 DEF CallRecords, SInv, CallOK
    <2>5. QED
      BY <2>1, <2>4 DEF SInv, CallOK, NewRunOK
  <1>3. QED
    BY <1>1, <1>2

(* recover_run, of a run that was closed since *)
LEMMA RecoverSkipKeeps ==
  ASSUME SInv, NEW r \in boot.todo, ~Interrupted(r),
         boot' = [boot EXCEPT !.todo = @ \ {r}],
         UNCHANGED <<runs, disk, busy, working, unacquired, next, frozen, continued, freezing,
                     calls, launched>>
  PROVE  SInv'
PROOF
  <1>1. r \in Ids /\ boot.stage = "recovering"
    BY RecoveredIsSettled
  <1>2. /\ boot' \in [stage : {"up", "down", "recovering"}, todo : SUBSET Ids, resumed : SUBSET Ids]
        /\ boot'.stage = boot.stage /\ boot'.todo = boot.todo \ {r}
        /\ boot'.resumed = boot.resumed
    BY DEF SInv, SuccessionTypes
  <1>3. SuccessionTypes'
    BY <1>2 DEF SInv, SuccessionTypes, Pending
  <1>4. \A a \in Ids : Evolves(a)
    BY DEF Evolves, Active
  <1>5. \A c \in Starters : Moves(c)
    BY DEF Moves
  <1>6. Update
    BY <1>1, <1>2, <1>4, <1>5 DEF Update, SInv, SessionsOK
  <1>7. ASSUME NEW a \in Ids, Holder(a)' PROVE Holder(a)
    <2>1. Awaiting(a) <=> Awaiting(a)'
      BY <1>2 DEF Awaiting, Interrupted
    <2>2. QED
      BY <1>7, <2>1 DEF Holder, Active, Starting
  <1>8. QED
    BY <1>3, <1>6, <1>7, HoldingNoMore

(* recover_run, of a run that gets its sandbox back *)
LEMMA RecoverResumeKeeps ==
  ASSUME SInv, NEW r \in boot.todo, Interrupted(r), runs[r].checkpoint,
         IF runs[r].sandbox = NoSandbox THEN busy' = busy
         ELSE acquire_sandbox_binding_for_run(r, Nobody),
         Save(r, [runs[r] EXCEPT !.status = "Running"]),
         boot' = [boot EXCEPT !.todo = @ \ {r}, !.resumed = @ \cup {r}],
         unacquired' = unacquired \ {r},
         UNCHANGED <<working, next, frozen, continued, freezing, calls, launched>>
  PROVE  SInv'
PROOF
  <1>1. r \in Ids /\ boot.stage = "recovering" /\ ~Starting(r)
    BY RecoveredIsSettled
  <1>2. runs[r] \in RunRecords /\ Active(r)
    BY <1>1 DEF SInv, SuccessionTypes, Interrupted, Active, Closed
  <1>3. Born(r) /\ Recorded(r)
    BY <1>1, <1>2, BeyondStart DEF Active, Closed, Born
  <1>4. PICK rec : rec = [runs[r] EXCEPT !.status = "Running"]
    OBVIOUS
  <1>5. /\ rec \in RunRecords /\ rec.pred = runs[r].pred /\ rec.parent = runs[r].parent
        /\ rec.op = runs[r].op /\ rec.succ = runs[r].succ /\ rec.snapshot = runs[r].snapshot
        /\ rec.sandbox = runs[r].sandbox /\ rec.status = "Running"
    BY <1>2, <1>4 DEF RunRecords, Statuses
  <1>6. /\ runs' \in [Ids -> RunRecords] /\ disk' \in [Ids -> RunRecords]
        /\ runs'[r] = rec /\ disk'[r] = rec
        /\ \A a \in Ids \ {r} : runs'[a] = runs[a] /\ disk'[a] = disk[a]
    BY <1>1, <1>4, <1>5 DEF Save, SInv, SuccessionTypes
  <1>7. /\ boot' \in [stage : {"up", "down", "recovering"}, todo : SUBSET Ids, resumed : SUBSET Ids]
        /\ boot'.stage = boot.stage /\ boot'.todo = boot.todo \ {r}
        /\ boot'.resumed = boot.resumed \cup {r}
    BY <1>1 DEF SInv, SuccessionTypes
  <1>8. SuccessionTypes'
    BY <1>6, <1>7 DEF SInv, SuccessionTypes, Pending
  <1>9. \A c \in Starters : calls'[c].run # r /\ Moves(c)
    BY <1>1 DEF Starting, SInv, SuccessionTypes, Moves
  <1>10. Evolves(r)
    BY <1>2, <1>3, <1>5, <1>6, <1>9 DEF Evolves, Recorded, Born
  <1>11. Rest(r)
    BY <1>6, <1>7 DEF Rest
  <1>12. allowed_workspace_holder_ids(Nobody) = {}
    <2>1. Nobody \in MaybeRun
      BY DEF MaybeRun
    <2>2. QED
      BY <2>1, HoldersInLineage, LineageFacts DEF SInv, SuccessionTypes
  <1>13. HoldsRightly(r)
    <2>1. SUFFICES ASSUME Holder(r)' PROVE HoldsRightly(r)
      BY DEF HoldsRightly
    <2>2. runs[r].sandbox # NoSandbox
      BY <1>5, <1>6, <2>1 DEF Holder
    <2>3. Available(runs[r].sandbox, r, Nobody) /\ busy' = busy \cup {runs[r].sandbox}
      BY <2>2 DEF acquire_sandbox_binding_for_run
    <2>4. \A a \in Ids \ {r} : ~(Active(a) /\ runs[a].sandbox = runs[r].sandbox)
      BY <1>12, <2>3 DEF Available
    <2>5. QED
      BY <1>5, <1>6, <2>3, <2>4 DEF HoldsRightly
  <1>14. busy \subseteq busy'
    BY DEF acquire_sandbox_binding_for_run
  <1>15. QED
    BY <1>1, <1>3, <1>5, <1>6, <1>7, <1>8, <1>9, <1>10, <1>11, <1>13, <1>14, TouchKeeps

(* recover_run *)
LEMMA RecoverKeeps ==
  ASSUME SInv, NEW r \in Ids, recover_run(r)
  PROVE  SInv'
PROOF
  <1>1. r \in boot.todo /\ UNCHANGED <<next, frozen, continued, freezing, calls, launched>>
    BY DEF recover_run
  <1>2. CASE /\ ~Interrupted(r)
             /\ boot' = [boot EXCEPT !.todo = @ \ {r}]
             /\ UNCHANGED <<runs, disk, busy, working, unacquired>>
    BY <1>1, <1>2, RecoverSkipKeeps
  <1>3. CASE /\ Interrupted(r) /\ runs[r].checkpoint
             /\ IF runs[r].sandbox = NoSandbox THEN UNCHANGED busy
                ELSE acquire_sandbox_binding_for_run(r, Nobody)
             /\ Save(r, [runs[r] EXCEPT !.status = "Running"])
             /\ boot' = [boot EXCEPT !.todo = @ \ {r}, !.resumed = @ \cup {r}]
             /\ unacquired' = unacquired \ {r}
             /\ UNCHANGED working
    BY <1>1, <1>3, RecoverResumeKeeps
  <1>4. CASE /\ update_run_status(r, "Closed")
             /\ boot' = [boot EXCEPT !.todo = @ \ {r}]
             /\ UNCHANGED unacquired
    <2>1. boot.stage = "recovering"
      BY <1>1, RecoveredIsSettled
    <2>2. calls' \in [Starters -> CallRecords] /\ next' + Cardinality(Pending') <= MaxRuns + 1
      BY <1>1 DEF SInv, SuccessionTypes, Pending
    <2>3. \A c \in Starters : Moves(c)
      BY <1>1 DEF Moves
    <2>4. "Closed" \in Closed
      BY DEF Closed
    <2>5. QED
      BY <1>1, <1>4, <2>1, <2>2, <2>3, <2>4, StatusKeeps
  <1>5. QED
    BY <1>2, <1>3, <1>4 DEF recover_run

-----------------------------------------------------------------------------
(* The steps of a start that has recorded its run *)
Recording == Unready \ Unrecorded

(* Such a start ends, or goes on to another of its last steps. *)
LateStep(c, new) ==
    /\ calls[c].step \in Recording \cup {"prepare"}
    /\ new \in CallRecords /\ calls' = [calls EXCEPT ![c] = new] /\ next' = next
    /\ \/ new = Idle
       \/ /\ calls[c].step \in {"bind", "acquire"}
          /\ \E to \in {"bind", "acquire", "prepare"} : new = [calls[c] EXCEPT !.step = to]

(* It is the only one of its run, and no other start is touched. *)
LEMMA LateCall ==
  ASSUME SInv, NEW c \in Starters, NEW r \in Ids, r = calls[c].run,
         NEW new, LateStep(c, new)
  PROVE  /\ Recorded(r) /\ Born(r) /\ NewRunOK(c, r)
         /\ \A d \in Starters : Moves(d)
         /\ \A d \in Starters :
               calls[d].run \notin {r, Nobody} \/ calls'[d].run \notin {r, Nobody} =>
                  calls'[d] = calls[d]
         /\ calls' \in [Starters -> CallRecords] /\ calls'[c] = new
         /\ next' + Cardinality(Pending') <= MaxRuns + 1
         /\ next' \in Nat \ {0}
         /\ new = Idle => \A d \in Starters : calls'[d].run # r
         /\ \A d \in Starters \ {c} : calls[d].run # r /\ calls'[d] = calls[d]
PROOF
  <1>1. calls[c].step \in Unready \cup {"prepare"} /\ calls[c].step \notin Unrecorded
        /\ calls[c].step \notin Asking
    BY DEF LateStep, Recording, Unready, Unrecorded, Asking
  <1>2. NewRunOK(c, r) /\ Born(r) /\ calls[c] # Idle /\ r # Nobody
    BY <1>1, StartOfRun DEF Ids, Nobody
  <1>3. Recorded(r)
    BY <1>1, <1>2 DEF NewRunOK
  <1>4. /\ calls' \in [Starters -> CallRecords] /\ calls'[c] = new /\ calls[c] \in CallRecords
        /\ \A d \in Starters \ {c} : calls'[d] = calls[d]
    BY DEF LateStep, SInv, SuccessionTypes
  <1>5. new.run \in {r, Nobody}
    BY <1>4 DEF LateStep, Idle, CallRecords
  <1>6. Moves(c)
    <2>1. CASE new = Idle
      BY <1>1, <1>4, <2>1 DEF Moves, Answered
    <2>2. CASE calls[c].step \in {"bind", "acquire"}
               /\ \E to \in {"bind", "acquire", "prepare"} : new = [calls[c] EXCEPT !.step = to]
      <3>1. PICK to \in {"bind", "acquire", "prepare"} : new = [calls[c] EXCEPT !.step = to]
        BY <2>2
      <3>2. to \in Asking \cup Unready \cup {"prepare"}
        BY <3>1 DEF Unready
      <3>3. Proceeds(c)
        BY <1>4, <2>2, <3>1, <3>2 DEF Proceeds
      <3>4. QED
        BY <3>3 DEF Moves
    <2>3. QED
      BY <2>1, <2>2 DEF LateStep
  <1>7. \A d \in Starters : Moves(d)
    BY <1>4, <1>6 DEF Moves
  <1>8. \A d \in Starters : calls'[d] # Idle /\ calls'[d].run = Nobody =>
          calls[d] # Idle /\ calls[d].run = Nobody
    <2>1. new.run = Nobody => new = Idle
      BY <1>2, <1>4 DEF CallRecords, LateStep
    <2>2. QED
      BY <1>4, <2>1
  <1>9. next' \in Nat \ {0} /\ next' + Cardinality(Pending') <= MaxRuns + 1
    BY <1>4, <1>8, PendingShrinks DEF SInv, LateStep
  <1>10. \A d \in Starters \ {c} : calls[d].run # r
    BY <1>2 DEF NewRunOK
  <1>11. new = Idle => \A d \in Starters : calls'[d].run # r
    BY <1>2, <1>4, <1>10 DEF Idle
  <1>12. QED
    BY <1>2, <1>3, <1>4, <1>5, <1>7, <1>9, <1>10, <1>11

(* The same, of a start that ends. *)
LEMMA LateAnswer ==
  ASSUME SInv, NEW c \in Starters, calls[c].step \in Recording \cup {"prepare"}, Answer(c),
         NEW r \in Ids, r = calls[c].run, next' = next
  PROVE  /\ Recorded(r) /\ Born(r) /\ NewRunOK(c, r)
         /\ \A d \in Starters : Moves(d)
         /\ \A d \in Starters :
               calls[d].run \notin {r, Nobody} \/ calls'[d].run \notin {r, Nobody} =>
                  calls'[d] = calls[d]
         /\ calls' \in [Starters -> CallRecords]
         /\ next' + Cardinality(Pending') <= MaxRuns + 1
         /\ \A d \in Starters : calls'[d].run # r
         /\ \A d \in Starters \ {c} : calls[d].run # r
PROOF
  <1>1. Idle \in CallRecords /\ calls' = [calls EXCEPT ![c] = Idle]
    BY DEF Answer, Idle, CallRecords, Phases, MaybeRun
  <1>2. PICK new : new = Idle /\ LateStep(c, new)
    BY <1>1 DEF LateStep
  <1>3. /\ Recorded(r) /\ Born(r) /\ NewRunOK(c, r)
        /\ \A d \in Starters : Moves(d)
        /\ \A d \in Starters :
              calls[d].run \notin {r, Nobody} \/ calls'[d].run \notin {r, Nobody} =>
                 calls'[d] = calls[d]
        /\ calls' \in [Starters -> CallRecords]
        /\ next' + Cardinality(Pending') <= MaxRuns + 1
        /\ new = Idle => \A d \in Starters : calls'[d].run # r
        /\ \A d \in Starters \ {c} : calls[d].run # r /\ calls'[d] = calls[d]
    BY <1>2, LateCall
  <1>4. QED
    BY <1>2, <1>3

(* A start ends without its run: it is closed, or acquires no sandbox. *)
LEMMA LeavingKeeps ==
  ASSUME SInv, NEW c \in Starters, calls[c].step \in Recording \cup {"prepare"}, Answer(c),
         NEW r \in Ids, r = calls[c].run,
         ~Active(r) \/ r \in unacquired', unacquired' \in {unacquired, unacquired \cup {r}},
         UNCHANGED <<runs, disk, next, busy, frozen, continued, working, freezing, boot,
                     launched>>
  PROVE  SInv'
PROOF
  <1>1. /\ \A d \in Starters : Moves(d)
        /\ \A d \in Starters :
              calls[d].run \notin {r, Nobody} \/ calls'[d].run \notin {r, Nobody} =>
                 calls'[d] = calls[d]
        /\ calls' \in [Starters -> CallRecords]
        /\ next' + Cardinality(Pending') <= MaxRuns + 1
    BY LateAnswer
  <1>2. SuccessionTypes'
    BY <1>1 DEF SInv, SuccessionTypes
  <1>3. Evolves(r)
    BY DEF Evolves, Active
  <1>4. Rest(r)
    BY <1>1 DEF Rest
  <1>5. HoldsRightly(r)
    BY DEF HoldsRightly, Holder, Active
  <1>6. r \in working' => runs'[r].status = "Running"
    BY DEF SInv, SessionsOK
  <1>7. QED
    BY <1>1, <1>2, <1>3, <1>4, <1>5, <1>6, TouchKeeps

(* A start ends with the status of its run. *)
LEMMA ConcludingKeeps ==
  ASSUME SInv, NEW c \in Starters, calls[c].step \in Recording \cup {"prepare"}, Answer(c),
         NEW r \in Ids, r = calls[c].run,
         NEW status \in {"Closed", "NeedsUserInput"}, update_run_status(r, status),
         status = "Closed" \/ r \in unacquired', unacquired' \in {unacquired, unacquired \cup {r}},
         UNCHANGED <<next, frozen, continued, freezing, boot, launched>>
  PROVE  SInv'
PROOF
  <1>1. /\ Recorded(r) /\ NewRunOK(c, r)
        /\ \A d \in Starters : Moves(d)
        /\ \A d \in Starters :
              calls[d].run \notin {r, Nobody} \/ calls'[d].run \notin {r, Nobody} =>
                 calls'[d] = calls[d]
        /\ calls' \in [Starters -> CallRecords]
        /\ next' + Cardinality(Pending') <= MaxRuns + 1
        /\ \A d \in Starters : calls'[d].run # r
    BY LateAnswer
  <1>2. r \notin working
    BY <1>1 DEF NewRunOK, SInv, SessionsOK
  <1>3. status \in Closed \/ (r \in unacquired' /\ r \notin working)
    BY <1>2 DEF Closed
  <1>4. QED
    BY <1>1, <1>3, StatusKeeps

(* StepFails, and Acquire when the sandbox is not available *)
LEMMA CompensationKeeps ==
  ASSUME SInv, NEW c \in Starters, calls[c].step \in {"bind", "acquire", "prepare"},
         compensate_created_run_error(c),
         UNCHANGED <<next, frozen, continued, freezing, boot, launched, unacquired>>
  PROVE  SInv'
PROOF
  <1>1. calls[c].step \in Recording \cup {"prepare"} /\ calls[c].step \in Unready \cup {"prepare"}
    BY DEF Recording, Unready, Unrecorded
  <1>2. PICK r \in Ids : r = calls[c].run
    BY <1>1, StartOfRun
  <1>3. Answer(c)
    BY DEF compensate_created_run_error
  <1>4. CASE update_run_status(r, "Closed")
    BY <1>1, <1>2, <1>3, <1>4, ConcludingKeeps
  <1>5. CASE ~Active(r) /\ UNCHANGED <<runs, disk, busy, working>>
    BY <1>1, <1>2, <1>3, <1>5, LeavingKeeps
  <1>6. QED
    BY <1>2, <1>4, <1>5 DEF compensate_created_run_error

(* StepFails, set_run_edit_context_error, StartPauses *)
LEMMA FailuresKeep ==
  ASSUME SInv, NEW c \in Starters,
         StepFails(c) \/ set_run_edit_context_error(c) \/ StartPauses(c)
  PROVE  SInv'
PROOF
  <1>1. CASE StepFails(c)
    BY <1>1, CompensationKeeps DEF StepFails
  <1>2. "bind" \in Recording \cup {"prepare"} /\ "bind" \in Unready \cup {"prepare"}
    BY DEF Recording, Unready, Unrecorded
  <1>3. CASE set_run_edit_context_error(c)
    <2>1. calls[c].step = "bind" /\ Answer(c)
          /\ unacquired' = unacquired \cup {calls[c].run}
          /\ UNCHANGED <<runs, disk, next, busy, frozen, continued, working, freezing, boot,
                         launched>>
      BY <1>3 DEF set_run_edit_context_error, At, stores
    <2>2. PICK r \in Ids : r = calls[c].run
      BY <1>2, <2>1, StartOfRun
    <2>3. QED
      BY <1>2, <2>1, <2>2, LeavingKeeps
  <1>4. CASE StartPauses(c)
    <2>1. calls[c].step = "bind" /\ Answer(c)
          /\ UNCHANGED <<next, frozen, continued, freezing, boot, launched>>
      BY <1>4 DEF StartPauses, At
    <2>2. PICK r \in Ids : r = calls[c].run
      BY <1>2, <2>1, StartOfRun
    <2>3. CASE update_run_status(r, "NeedsUserInput") /\ unacquired' = unacquired \cup {r}
      BY <1>2, <2>1, <2>2, <2>3, ConcludingKeeps
    <2>4. CASE ~Active(r) /\ UNCHANGED <<runs, disk, busy, working, unacquired>>
      BY <1>2, <2>1, <2>2, <2>4, LeavingKeeps
    <2>5. QED
      BY <1>4, <2>2, <2>3, <2>4 DEF StartPauses
  <1>5. QED
    BY <1>1, <1>3, <1>4

(* bind_run_to_sandbox *)
LEMMA BindKeeps ==
  ASSUME SInv, NEW c \in Starters, bind_run_to_sandbox(c)
  PROVE  SInv'
PROOF
  <1>1. calls[c].step = "bind" /\ Goto(c, "acquire")
        /\ UNCHANGED <<next, busy, frozen, continued, working, freezing, boot, launched,
                       unacquired>>
    BY DEF bind_run_to_sandbox, At
  <1>2. calls[c].step \in Recording \cup {"prepare"} /\ calls[c].step \in Unready \cup {"prepare"}
    BY <1>1 DEF Recording, Unready, Unrecorded
  <1>3. PICK r \in Ids : r = calls[c].run
    BY <1>2, StartOfRun
  <1>4. PICK s \in Sandboxes : Save(r, [runs[r] EXCEPT !.sandbox = s])
    BY <1>3 DEF bind_run_to_sandbox
  <1>5. PICK new : new = [calls[c] EXCEPT !.step = "acquire"]
    OBVIOUS
  <1>6. calls[c] \in CallRecords /\ runs[r] \in RunRecords
    BY DEF SInv, SuccessionTypes
  <1>7. new \in CallRecords /\ calls' = [calls EXCEPT ![c] = new] /\ new.step = "acquire"
        /\ new.run = r
    BY <1>1, <1>3, <1>5, <1>6 DEF Goto, CallRecords, Unready
  <1>8. /\ Recorded(r) /\ Born(r) /\ NewRunOK(c, r)
        /\ \A d \in Starters : Moves(d)
        /\ \A d \in Starters :
              calls[d].run \notin {r, Nobody} \/ calls'[d].run \notin {r, Nobody} =>
                 calls'[d] = calls[d]
        /\ calls' \in [Starters -> CallRecords] /\ calls'[c] = new
        /\ next' + Cardinality(Pending') <= MaxRuns + 1
    <2>1. LateStep(c, new)
      BY <1>1, <1>2, <1>5, <1>7 DEF LateStep
    <2>2. QED
      BY <1>3, <2>1, LateCall
  <1>9. PICK rec : rec = [runs[r] EXCEPT !.sandbox = s]
    OBVIOUS
  <1>10. /\ rec \in RunRecords /\ rec.pred = runs[r].pred /\ rec.parent = runs[r].parent
         /\ rec.op = runs[r].op /\ rec.succ = runs[r].succ /\ rec.snapshot = runs[r].snapshot
         /\ rec.status = runs[r].status /\ rec.checkpoint = runs[r].checkpoint
    BY <1>4, <1>6, <1>9 DEF RunRecords
  <1>11. /\ runs' \in [Ids -> RunRecords] /\ disk' \in [Ids -> RunRecords]
         /\ runs'[r] = rec /\ disk'[r] = rec
         /\ \A a \in Ids \ {r} : runs'[a] = runs[a] /\ disk'[a] = disk[a]
    BY <1>4, <1>9, <1>10 DEF Save, SInv, SuccessionTypes
  <1>12. Evolves(r)
    BY <1>1, <1>8, <1>10, <1>11 DEF Evolves, Recorded, Born, Active
  <1>13. SuccessionTypes'
    BY <1>1, <1>8, <1>11 DEF SInv, SuccessionTypes
  <1>14. Rest(r)
    BY <1>1, <1>8, <1>11 DEF Rest
  <1>15. HoldsRightly(r)
    BY <1>7, <1>8 DEF HoldsRightly, Holder
  <1>16. r \in working' => runs'[r].status = "Running"
    BY <1>1, <1>10, <1>11 DEF SInv, SessionsOK
  <1>17. QED
    BY <1>1, <1>8, <1>12, <1>13, <1>14, <1>15, <1>16, TouchKeeps

(* Acquire, of an available sandbox *)
LEMMA AcquiringKeeps ==
  ASSUME SInv, NEW c \in Starters, calls[c].step = "acquire", Goto(c, "prepare"),
         acquire_sandbox_binding_for_run(calls[c].run, calls[c].from),
         UNCHANGED <<runs, disk, working, next, frozen, continued, freezing, boot, launched,
                     unacquired>>
  PROVE  SInv'
PROOF
  <1>1. calls[c].step \in Recording \cup {"prepare"} /\ calls[c].step \in Unready \cup {"prepare"}
    BY DEF Recording, Unready, Unrecorded
  <1>2. PICK r \in Ids : r = calls[c].run
    BY <1>1, StartOfRun
  <1>3. PICK new : new = [calls[c] EXCEPT !.step = "prepare"]
    OBVIOUS
  <1>4. calls[c] \in CallRecords /\ runs[r] \in RunRecords
    BY DEF SInv, SuccessionTypes
  <1>5. new \in CallRecords /\ calls' = [calls EXCEPT ![c] = new]
    BY <1>3, <1>4 DEF Goto, CallRecords
  <1>6. /\ NewRunOK(c, r)
        /\ \A d \in Starters : Moves(d)
        /\ \A d \in Starters :
              calls[d].run \notin {r, Nobody} \/ calls'[d].run \notin {r, Nobody} =>
                 calls'[d] = calls[d]
        /\ calls' \in [Starters -> CallRecords]
        /\ next' + Cardinality(Pending') <= MaxRuns + 1
    <2>1. LateStep(c, new)
      BY <1>1, <1>3, <1>5 DEF LateStep
    <2>2. QED
      BY <1>2, <2>1, LateCall
  <1>7. Available(runs[r].sandbox, r, calls[c].from) /\ busy' = busy \cup {runs[r].sandbox}
    BY <1>2 DEF acquire_sandbox_binding_for_run
  <1>8. allowed_workspace_holder_ids(calls[c].from) \subseteq Lineage(r)
    <2>1. runs[r].pred = calls[c].from /\ calls[c].from \in MaybeRun
      BY <1>4, <1>6 DEF NewRunOK, CallRecords
    <2>2. allowed_workspace_holder_ids(calls[c].from) \subseteq Lineage(calls[c].from)
      BY <2>1, HoldersInLineage DEF SInv
    <2>3. Lineage(r) = {r} \cup Lineage(runs[r].pred)
      BY LineageFacts DEF SInv, SuccessionTypes
    <2>4. QED
      BY <2>1, <2>2, <2>3
  <1>9. \A a \in Ids \ {r} : Active(a) /\ runs[a].sandbox = runs[r].sandbox => a \in Lineage(r)
    BY <1>7, <1>8 DEF Available
  <1>10. HoldsRightly(r)
    BY <1>7, <1>9 DEF HoldsRightly
  <1>11. SuccessionTypes'
    BY <1>6 DEF SInv, SuccessionTypes
  <1>12. Evolves(r)
    BY DEF Evolves, Active
  <1>13. Rest(r)
    BY <1>6 DEF Rest
  <1>14. busy \subseteq busy'
    BY <1>7
  <1>15. r \in working' => runs'[r].status = "Running"
    BY DEF SInv, SessionsOK
  <1>16. QED
    BY <1>6, <1>10, <1>11, <1>12, <1>13, <1>14, <1>15, TouchKeeps

(* Acquire *)
LEMMA AcquireKeeps ==
  ASSUME SInv, NEW c \in Starters, Acquire(c)
  PROVE  SInv'
PROOF
  <1>1. calls[c].step = "acquire"
        /\ UNCHANGED <<next, frozen, continued, freezing, boot, launched, unacquired>>
    BY DEF Acquire, At
  <1>2. CASE /\ acquire_sandbox_binding_for_run(calls[c].run, calls[c].from)
             /\ Goto(c, "prepare") /\ UNCHANGED <<runs, disk, working>>
    BY <1>1, <1>2, AcquiringKeeps
  <1>3. CASE compensate_created_run_error(c)
    BY <1>1, <1>3, CompensationKeeps
  <1>4. QED
    BY <1>2, <1>3 DEF Acquire

(* A start is over: its run keeps the sandbox it has acquired. *)
LEMMA ReadyKeeps ==
  ASSUME SInv, NEW c \in Starters, calls[c].step = "prepare", Answer(c),
         NEW r \in Ids, r = calls[c].run, NEW rec \in RunRecords,
         runs' \in [Ids -> RunRecords], disk' \in [Ids -> RunRecords],
         runs'[r] = rec, disk'[r] = rec,
         \A a \in Ids \ {r} : runs'[a] = runs[a] /\ disk'[a] = disk[a],
         rec.pred = runs[r].pred, rec.parent = runs[r].parent, rec.op = runs[r].op,
         rec.succ = runs[r].succ, rec.snapshot = runs[r].snapshot,
         rec.sandbox = runs[r].sandbox,
         \/ rec.status = runs[r].status /\ working' = working /\ launched' = launched
         \/ /\ Active(r) /\ rec.status = "Running" /\ working' = working \cup {r}
            /\ \/ launched' = launched
               \/ launched' = launched \cup {r} /\ runs[r].pred # Nobody /\ runs[r].parent = Nobody,
         UNCHANGED <<next, busy, frozen, continued, freezing, boot, unacquired>>
  PROVE  SInv'
PROOF
  <1>1. calls[c].step \in Recording \cup {"prepare"}
    OBVIOUS
  <1>2. /\ Recorded(r) /\ Born(r) /\ NewRunOK(c, r)
        /\ \A d \in Starters : Moves(d)
        /\ \A d \in Starters :
              calls[d].run \notin {r, Nobody} \/ calls'[d].run \notin {r, Nobody} =>
                 calls'[d] = calls[d]
        /\ calls' \in [Starters -> CallRecords]
        /\ next' + Cardinality(Pending') <= MaxRuns + 1
        /\ \A d \in Starters : calls'[d].run # r
        /\ \A d \in Starters \ {c} : calls[d].run # r
    BY <1>1, LateAnswer
  <1>3. SuccessionTypes'
    BY <1>2 DEF SInv, SuccessionTypes
  <1>4. Evolves(r)
    BY <1>2 DEF Evolves, Recorded, Born, Active
  <1>5. \A a \in Ids \ {r} : (a \in working' <=> a \in working) /\ (a \in launched' <=> a \in launched)
    OBVIOUS
  <1>6. Rest(r)
    BY <1>2, <1>5 DEF Rest
  <1>7. HoldsRightly(r)
    <2>1. SUFFICES ASSUME Holder(r)' PROVE Holder(r)
      BY <2>1 DEF HoldsRightly, SInv, HoldersOK
    <2>2. Starting(r)
      BY DEF Starting, SInv, SuccessionTypes
    <2>3. Active(r) /\ runs[r].sandbox # NoSandbox /\ r \notin unacquired
      BY <2>1 DEF Holder, Active
    <2>4. \A d \in Starters : calls[d].run = r => calls[d].step = "prepare"
      BY <1>2
    <2>5. QED
      BY <2>2, <2>3, <2>4 DEF Holder
  <1>8. r \in working' => runs'[r].status = "Running"
    BY DEF SInv, SessionsOK
  <1>9. QED
    BY <1>2, <1>3, <1>4, <1>6, <1>7, <1>8, TouchKeeps

(* WorkspaceReady *)
LEMMA WorkspaceReadyKeeps ==
  ASSUME SInv, NEW c \in Starters, WorkspaceReady(c)
  PROVE  SInv'
PROOF
  <1>1. calls[c].step = "prepare" /\ Answer(c)
        /\ UNCHANGED <<next, busy, frozen, continued, freezing, boot, unacquired>>
    BY DEF WorkspaceReady, At
  <1>2. PICK r \in Ids : r = calls[c].run
    BY <1>1, StartOfRun
  <1>3. runs[r] \in RunRecords /\ runs \in [Ids -> RunRecords] /\ disk \in [Ids -> RunRecords]
        /\ working \subseteq Ids /\ launched \subseteq Ids /\ {r} \in SUBSET Ids
    BY DEF SInv, SuccessionTypes
  <1>4. PICK ready : ready = [runs[r] EXCEPT !.checkpoint = TRUE]
    OBVIOUS
  <1>5. /\ ready \in RunRecords /\ ready.pred = runs[r].pred /\ ready.parent = runs[r].parent
        /\ ready.op = runs[r].op /\ ready.succ = runs[r].succ
        /\ ready.snapshot = runs[r].snapshot /\ ready.sandbox = runs[r].sandbox
        /\ ready.status = runs[r].status
    BY <1>3, <1>4 DEF RunRecords
  <1>6. PICK R : R = [runs EXCEPT ![r].checkpoint = TRUE]
    OBVIOUS
  <1>7. R \in [Ids -> RunRecords] /\ R[r] = ready /\ \A a \in Ids \ {r} : R[a] = runs[a]
    BY <1>3, <1>4, <1>5, <1>6
  <1>8. CASE Save(r, R[r]) /\ UNCHANGED <<working, launched>>
    <2>1. /\ runs' \in [Ids -> RunRecords] /\ disk' \in [Ids -> RunRecords]
          /\ runs'[r] = ready /\ disk'[r] = ready
          /\ \A a \in Ids \ {r} : runs'[a] = runs[a] /\ disk'[a] = disk[a]
      BY <1>3, <1>5, <1>7, <1>8 DEF Save
    <2>2. QED
      BY <1>1, <1>2, <1>5, <1>8, <2>1, ReadyKeeps
  <1>9. CASE LaunchAll(R, {r})
    <2>1. /\ runs' \in [Ids -> RunRecords] /\ disk' \in [Ids -> RunRecords]
          /\ \A a \in Ids :
               /\ IF a \in {r} /\ R[a].status \notin Closed
                  THEN runs'[a] = [R[a] EXCEPT !.status = "Running"]
                  ELSE runs'[a] = R[a]
               /\ disk'[a] = IF a \in {r} THEN runs'[a] ELSE disk[a]
               /\ a \in working' <=>
                    a \in working \/ (a \in {r} /\ R[a].status \notin Closed)
               /\ a \in launched' <=>
                    \/ a \in launched
                    \/ /\ a \in {r} /\ R[a].status \notin Closed
                       /\ R[a].pred # Nobody /\ R[a].parent = Nobody
          /\ working' \subseteq Ids /\ launched' \subseteq Ids
      BY <1>3, <1>7, <1>9, LaunchFacts
    <2>2. \A a \in Ids \ {r} : runs'[a] = runs[a] /\ disk'[a] = disk[a]
      BY <1>7, <2>1
    <2>3. CASE Active(r)
      <3>1. ready.status \notin Closed
        BY <1>5, <2>3 DEF Active
      <3>2. PICK rec : rec = [ready EXCEPT !.status = "Running"]
        OBVIOUS
      <3>3. /\ rec \in RunRecords /\ rec.pred = runs[r].pred /\ rec.parent = runs[r].parent
            /\ rec.op = runs[r].op /\ rec.succ = runs[r].succ
            /\ rec.snapshot = runs[r].snapshot /\ rec.sandbox = runs[r].sandbox
            /\ rec.status = "Running"
        BY <1>5, <3>2 DEF RunRecords, Statuses
      <3>4. runs'[r] = rec /\ disk'[r] = rec
        BY <1>7, <2>1, <3>1, <3>2
      <3>5. working' = working \cup {r}
        BY <1>3, <1>7, <2>1, <3>1
      <3>6. \/ launched' = launched
            \/ launched' = launched \cup {r} /\ runs[r].pred # Nobody /\ runs[r].parent = Nobody
        <4>1. CASE runs[r].pred # Nobody /\ runs[r].parent = Nobody
          BY <1>3, <1>5, <1>7, <2>1, <3>1, <4>1
        <4>2. CASE ~(runs[r].pred # Nobody /\ runs[r].parent = Nobody)
          BY <1>3, <1>5, <1>7, <2>1, <4>2
        <4>3. QED
          BY <4>1, <4>2
      <3>7. QED
        BY <1>1, <1>2, <2>1, <2>2, <2>3, <3>3, <3>4, <3>5, <3>6, ReadyKeeps
    <2>4. CASE ~Active(r)
      <3>1. ready.status \in Closed
        BY <1>5, <2>4 DEF Active
      <3>2. runs'[r] = ready /\ disk'[r] = ready /\ working' = working /\ launched' = launched
        BY <1>3, <1>7, <2>1, <3>1
      <3>3. QED
        BY <1>1, <1>2, <1>5, <2>1, <2>2, <3>2, ReadyKeeps
    <2>5. QED
      BY <2>3, <2>4
  <1>10. QED
    BY <1>2, <1>6, <1>8, <1>9 DEF WorkspaceReady

-----------------------------------------------------------------------------
(* A start that records leaves the runs in memory, who starts and who holds *)
(* alone.                                                                  *)
LEMMA RecordingGoesOn ==
  ASSUME SInv, NEW c \in Starters, calls[c].step \in Unrecorded \cup {"event"},
         NEW to \in {"record", "event", "bind"}, Goto(c, to),
         UNCHANGED <<runs, next, busy, working, boot, unacquired>>
  PROVE  /\ calls[c].run \in Ids /\ NewRunOK(c, calls[c].run)
         /\ calls' \in [Starters -> CallRecords]
         /\ calls'[c].step = to /\ calls'[c].run = calls[c].run
         /\ calls'[c].kind = calls[c].kind /\ calls'[c].from = calls[c].from
         /\ \A d \in Starters \ {c} : calls'[d] = calls[d]
         /\ next' \in Nat \ {0} /\ next' + Cardinality(Pending') <= MaxRuns + 1
         /\ \A a : Starting(a)' <=> Starting(a)
         /\ \A a : Lineage(a)' = Lineage(a)
         /\ HoldersOK'
PROOF
  <1>1. calls[c].run \in Ids /\ NewRunOK(c, calls[c].run)
    BY StartOfRun DEF Unready
  <1>2. calls[c] \in CallRecords
    BY DEF SInv, SuccessionTypes
  <1>3. PICK new : new = [calls[c] EXCEPT !.step = to]
    OBVIOUS
  <1>4. /\ new \in CallRecords /\ new.step = to /\ new.run = calls[c].run
        /\ new.kind = calls[c].kind /\ new.from = calls[c].from
    BY <1>2, <1>3 DEF CallRecords, Unready, Unrecorded
  <1>5. /\ calls' \in [Starters -> CallRecords] /\ calls'[c] = new
        /\ \A d \in Starters \ {c} : calls'[d] = calls[d]
    BY <1>3, <1>4 DEF Goto, SInv, SuccessionTypes
  <1>6. calls[c].run # Nobody
    BY <1>1 DEF Ids, Nobody
  <1>7. next' \in Nat \ {0} /\ next' + Cardinality(Pending') <= MaxRuns + 1
    BY <1>4, <1>5, <1>6, PendingShrinks DEF SInv
  <1>8. \A d \in Starters : calls'[d].run = calls[d].run
    BY <1>4, <1>5
  <1>9. \A a : Starting(a)' <=> Starting(a)
    BY <1>5, <1>8 DEF Starting, SInv, SuccessionTypes
  <1>10. \A a : Lineage(a)' = Lineage(a)
    BY LineageKept DEF SInv, SuccessionTypes
  <1>11. ASSUME NEW a \in Ids, Holder(a)' PROVE Holder(a)
    <2>1. calls'[c].run # a
      BY <1>4, <1>5, <1>11 DEF Holder
    <2>2. \A d \in Starters : calls[d].run = a => calls[d].step = "prepare"
      BY <1>4, <1>5, <1>11, <2>1 DEF Holder
    <2>3. QED
      BY <1>9, <1>11, <2>2 DEF Holder, Active, Awaiting, Interrupted
  <1>12. HoldersOK'
    BY <1>10, <1>11 DEF HoldersOK, SInv
  <1>13. QED
    BY <1>1, <1>4, <1>5, <1>7, <1>9, <1>10, <1>12

(* RecordPredecessor *)
LEMMA RecordPredecessorKeeps ==
  ASSUME SInv, NEW c \in Starters, RecordPredecessor(c)
  PROVE  SInv'
PROOF
  <1>1. /\ calls[c].step = "pred" /\ Goto(c, "record")
        /\ UNCHANGED <<runs, next, busy, frozen, continued, working, freezing, boot,
                       launched, unacquired>>
    BY DEF RecordPredecessor, At
  <1>2. "pred" \in Unrecorded
    BY DEF Unrecorded
  <1>3. PICK r \in Ids : r = calls[c].run
    BY <1>1, <1>2, RecordingGoesOn
  <1>4. /\ NewRunOK(c, r)
        /\ calls' \in [Starters -> CallRecords]
        /\ calls'[c].step = "record" /\ calls'[c].run = r
        /\ calls'[c].kind = calls[c].kind /\ calls'[c].from = calls[c].from
        /\ \A d \in Starters \ {c} : calls'[d] = calls[d]
        /\ next' \in Nat \ {0} /\ next' + Cardinality(Pending') <= MaxRuns + 1
        /\ \A a : Starting(a)' <=> Starting(a)
        /\ \A a : Lineage(a)' = Lineage(a)
        /\ HoldersOK'
    BY <1>1, <1>2, <1>3, RecordingGoesOn
  <1>5. PICK p \in Ids : p = calls[c].from
    BY <1>1, <1>4 DEF NewRunOK, SInv, SuccessionTypes, CallRecords, MaybeRun
  <1>6. CallOK(c) /\ RunOK(p) /\ p # Nobody /\ r # Nobody
    BY DEF SInv, Ids, Nobody
  <1>7. Recorded(p) /\ runs[p].succ # Nobody
    BY <1>1, <1>4, <1>5, <1>6 DEF CallOK, NewRunOK
  <1>8. PICK s \in Ids \cup {disk[p].succ} :
          disk' = [disk EXCEPT ![p].succ = s] /\ s # Nobody
    <2>1. disk' = [disk EXCEPT ![p].succ = IF disk[p].succ < r THEN r ELSE disk[p].succ]
      BY <1>3, <1>5 DEF RecordPredecessor
    <2>2. disk[p].succ \in MaybeRun
      BY DEF SInv, SuccessionTypes, RunRecords
    <2>3. disk[p].succ < r \/ disk[p].succ # Nobody
      BY <2>2 DEF MaybeRun, Ids, Nobody
    <2>4. QED
      BY <1>6, <2>1, <2>3
  <1>9. disk[p] \in RunRecords /\ disk \in [Ids -> RunRecords] /\ runs[p] \in RunRecords
    BY DEF SInv, SuccessionTypes
  <1>10. s \in MaybeRun
    BY <1>8, <1>9 DEF RunRecords, MaybeRun
  <1>11. /\ disk' \in [Ids -> RunRecords] /\ disk'[p] = [disk[p] EXCEPT !.succ = s]
         /\ disk'[p].succ # Nobody /\ disk'[p].status = disk[p].status
         /\ \A a \in Ids \ {p} : disk'[a] = disk[a]
    BY <1>8, <1>9, <1>10 DEF RunRecords
  <1>12. SuccessionTypes'
    BY <1>1, <1>4, <1>11 DEF SInv, SuccessionTypes
  <1>13. \A a \in Ids : /\ Recorded(a)' <=> Recorded(a)
                        /\ disk[a].succ # Nobody => disk'[a].succ # Nobody
    BY <1>11 DEF Recorded
  <1>14. ASSUME NEW a \in Ids PROVE RunOK(a)'
    <2>1. RunOK(a) /\ runs[a] \in RunRecords
      BY DEF SInv, SuccessionTypes
    <2>2. ~Recorded(a) => disk'[a] = NoRun
      BY <1>7, <1>11, <2>1 DEF RunOK
    <2>3. Recorded(a) => disk'[a] = [runs[a] EXCEPT !.succ = disk'[a].succ]
      <3>1. CASE a = p
        BY <1>6, <1>7, <1>9, <1>10, <1>11, <3>1 DEF RunOK, RunRecords
      <3>2. CASE a # p
        BY <1>11, <2>1, <3>2 DEF RunOK
      <3>3. QED
        BY <3>1, <3>2
    <2>4. Recorded(a) /\ disk'[a].succ # Nobody => runs[a].succ # Nobody
      BY <1>7, <1>11, <2>1 DEF RunOK
    <2>5. Born(a) /\ ~Recorded(a) =>
            \E d \in Starters : calls'[d].run = a /\ calls'[d].step \in Unrecorded
      <3>1. \A d \in Starters : calls[d].step \in Unrecorded => calls'[d].step \in Unrecorded
                                /\ calls'[d].run = calls[d].run
        BY <1>3, <1>4 DEF Unrecorded
      <3>2. QED
        BY <2>1, <3>1 DEF RunOK
    <2>6. runs[a].pred # Nobody =>
            \E q \in Ids : /\ q = runs[a].pred /\ Recorded(q)' /\ ~Starting(q)'
                           /\ runs[a].op = runs[q].op
      <3>1. CASE runs[a].pred # Nobody
        <4>1. PICK q \in Ids : q = runs[a].pred
          BY <2>1, <3>1 DEF RunRecords, MaybeRun
        <4>2. QED
          BY <1>4, <1>13, <2>1, <3>1, <4>1 DEF RunOK
      <3>2. QED
        BY <3>1
    <2>7. QED
      BY <1>1, <1>13, <2>1, <2>2, <2>3, <2>4, <2>5, <2>6 DEF RunOK, Born
  <1>15. ASSUME NEW d \in Starters PROVE CallOK(d)'
    <2>1. CallOK(d) /\ calls[d] \in CallRecords
      BY DEF SInv, SuccessionTypes
    <2>2. calls[d].from # Nobody =>
            \E q \in Ids : q = calls[d].from /\ Recorded(q)' /\ ~Starting(q)'
      <3>1. CASE calls[d].from # Nobody
        <4>1. PICK q \in Ids : q = calls[d].from
          BY <2>1, <3>1 DEF CallRecords, MaybeRun
        <4>2. QED
          BY <1>4, <1>13, <2>1, <3>1, <4>1 DEF CallOK
      <3>2. QED
        BY <3>1
    <2>3. ASSUME NEW a \in Ids, a = calls[d].run, NewRunOK(d, a) PROVE NewRunOK(d, a)'
      <3>1. \A e \in Starters : calls'[e].run = calls[e].run
        BY <1>3, <1>4
      <3>2. calls'[d].step = "record" /\ calls'[d].from # Nobody =>
              disk'[calls'[d].from].succ # Nobody
        <4>1. CASE d = c
          BY <1>4, <1>5, <1>11, <4>1
        <4>2. CASE d # c
          <5>1. calls'[d] = calls[d]
            BY <1>4, <4>2
          <5>2. calls[d].from # Nobody => calls[d].from \in Ids
            BY <2>1 DEF CallRecords, MaybeRun
          <5>3. QED
            BY <1>13, <2>3, <5>1, <5>2 DEF NewRunOK
        <4>3. QED
          BY <4>1, <4>2
      <3>3. calls'[d].step = "pred" => calls[d].step = "pred" /\ d # c
        BY <1>4
      <3>4. calls'[d].step \notin Unrecorded => calls[d].step \notin Unrecorded
        BY <1>4 DEF Unrecorded
      <3>5. calls'[d].step \in Unrecorded \cup {"event"} =>
              calls[d].step \in Unrecorded \cup {"event"}
        BY <1>1, <1>4 DEF Unrecorded
      <3>6. calls'[d].from = calls[d].from /\ calls'[d].kind = calls[d].kind
        BY <1>4
      <3>7. QED
        BY <1>1, <1>4, <1>13, <2>3, <3>1, <3>2, <3>3, <3>4, <3>5, <3>6 DEF NewRunOK
    <2>4. calls[d].step \in Unready \cup {"prepare"} =>
            \E a \in Ids : a = calls'[d].run /\ NewRunOK(d, a)'
      <3>1. calls'[d].run = calls[d].run
        BY <1>3, <1>4
      <3>2. QED
        BY <2>1, <2>3, <3>1 DEF CallOK, NewRunOK
    <2>5. CASE d = c
      <3>1. calls[c].step \in Unready \cup {"prepare"}
        BY <1>1 DEF Unready, Unrecorded
      <3>2. calls'[d].step \notin Asking \cup {"idle"}
        BY <1>4, <2>5 DEF Asking
      <3>3. QED
        BY <1>1, <1>4, <2>1, <2>2, <2>4, <2>5, <3>1, <3>2 DEF CallOK
    <2>6. CASE d # c
      BY <1>1, <1>4, <2>1, <2>2, <2>4, <2>6 DEF CallOK
    <2>7. QED
      BY <2>5, <2>6
  <1>16. SessionsOK'
    BY <1>1, <1>4, <1>13 DEF SInv, SessionsOK, SuccessionTypes, Born
  <1>17. HeirsOK'
    <2>1. ASSUME NEW y \in Ids, Heir(y)' PROVE Heir(y) /\ runs[y].pred \in Ids
      BY <1>1, <2>1 DEF Heir, Active, SInv, SuccessionTypes, RunRecords, MaybeRun
    <2>2. QED
      BY <1>1, <1>13, <2>1 DEF SInv, HeirsOK
  <1>18. ContinuationsOK'
    BY <1>1, <1>4, <1>13 DEF SInv, ContinuationsOK, SuccessionTypes
  <1>19. QED
    BY <1>4, <1>12, <1>14, <1>15, <1>16, <1>17, <1>18 DEF SInv

(* RecordRun *)
LEMMA RecordRunKeeps ==
  ASSUME SInv, NEW c \in Starters, RecordRun(c)
  PROVE  SInv'
PROOF
  <1>1. /\ calls[c].step = "record"
        /\ UNCHANGED <<runs, next, busy, frozen, continued, working, freezing, boot,
                       launched, unacquired>>
    BY DEF RecordRun, At
  <1>2. PICK to \in {"event", "bind"} :
          Goto(c, to) /\ (to = "event" <=> calls[c].kind = "continue")
    BY DEF RecordRun
  <1>3. "record" \in Unrecorded
    BY DEF Unrecorded
  <1>4. PICK r \in Ids : r = calls[c].run
    BY <1>1, <1>2, <1>3, RecordingGoesOn
  <1>5. /\ NewRunOK(c, r)
        /\ calls' \in [Starters -> CallRecords]
        /\ calls'[c].step = to /\ calls'[c].run = r
        /\ calls'[c].kind = calls[c].kind /\ calls'[c].from = calls[c].from
        /\ \A d \in Starters \ {c} : calls'[d] = calls[d]
        /\ next' \in Nat \ {0} /\ next' + Cardinality(Pending') <= MaxRuns + 1
        /\ \A a : Starting(a)' <=> Starting(a)
        /\ \A a : Lineage(a)' = Lineage(a)
        /\ HoldersOK'
    BY <1>1, <1>2, <1>3, <1>4, RecordingGoesOn
  <1>6. Born(r) /\ RunOK(r) /\ runs[r] \in RunRecords /\ disk \in [Ids -> RunRecords]
        /\ disk[r] \in RunRecords
    BY <1>5 DEF Born, NewRunOK, SInv, SuccessionTypes
  <1>7. /\ disk' \in [Ids -> RunRecords] /\ \A a \in Ids \ {r} : disk'[a] = disk[a]
        /\ disk'[r] = IF disk[r] = NoRun THEN runs[r] ELSE disk[r]
    BY <1>4, <1>6 DEF RecordRun
  <1>8. SuccessionTypes'
    BY <1>1, <1>5, <1>7 DEF SInv, SuccessionTypes
  <1>9. Recorded(r)'
    BY <1>6, <1>7 DEF Recorded, Born, RunOK
  <1>10. \A a \in Ids : /\ Recorded(a)' <=> Recorded(a) \/ a = r
                        /\ disk[a].succ # Nobody => disk'[a].succ # Nobody
    <2>1. disk[r].succ # Nobody => disk'[r].succ # Nobody
      BY <1>7 DEF NoRun
    <2>2. QED
      BY <1>7, <1>9, <2>1 DEF Recorded
  <1>11. ASSUME NEW a \in Ids PROVE RunOK(a)'
    <2>1. RunOK(a) /\ runs[a] \in RunRecords
      BY DEF SInv, SuccessionTypes
    <2>2. ~Recorded(a)' => disk'[a] = NoRun
      BY <1>7, <1>10, <2>1 DEF RunOK
    <2>3. Recorded(a)' =>
            /\ Born(a) /\ disk'[a] = [runs[a] EXCEPT !.succ = disk'[a].succ]
            /\ disk'[a].succ # Nobody => runs[a].succ # Nobody
      <3>1. CASE a = r
        <4>1. CASE disk[r] = NoRun
          BY <1>6, <1>7, <3>1, <4>1 DEF RunRecords
        <4>2. CASE disk[r] # NoRun
          <5>1. Recorded(r)
            BY <1>6, <4>2 DEF RunOK
          <5>2. QED
            BY <1>6, <1>7, <3>1, <4>2, <5>1 DEF RunOK
        <4>3. QED
          BY <4>1, <4>2
      <3>2. CASE a # r
        BY <1>7, <1>10, <2>1, <3>2 DEF RunOK
      <3>3. QED
        BY <3>1, <3>2
    <2>4. Born(a) /\ ~Recorded(a)' =>
            \E d \in Starters : calls'[d].run = a /\ calls'[d].step \in Unrecorded
      <3>1. CASE Born(a) /\ ~Recorded(a)'
        <4>1. a # r /\ ~Recorded(a)
          BY <1>10, <3>1
        <4>2. PICK d \in Starters : calls[d].run = a /\ calls[d].step \in Unrecorded
          BY <2>1, <3>1, <4>1 DEF RunOK
        <4>3. d # c
          BY <1>4, <4>1, <4>2
        <4>4. QED
          BY <1>5, <4>2, <4>3
      <3>2. QED
        BY <3>1
    <2>5. runs[a].pred # Nobody =>
            \E q \in Ids : /\ q = runs[a].pred /\ Recorded(q)' /\ ~Starting(q)'
                           /\ runs[a].op = runs[q].op
      <3>1. CASE runs[a].pred # Nobody
        <4>1. PICK q \in Ids : q = runs[a].pred
          BY <2>1, <3>1 DEF RunRecords, MaybeRun
        <4>2. QED
          BY <1>5, <1>10, <2>1, <3>1, <4>1 DEF RunOK
      <3>2. QED
        BY <3>1
    <2>6. QED
      BY <1>1, <2>1, <2>2, <2>3, <2>4, <2>5 DEF RunOK, Born
  <1>12. ASSUME NEW d \in Starters PROVE CallOK(d)'
    <2>1. CallOK(d) /\ calls[d] \in CallRecords
      BY DEF SInv, SuccessionTypes
    <2>2. calls[d].from # Nobody =>
            \E q \in Ids : q = calls[d].from /\ Recorded(q)' /\ ~Starting(q)'
      <3>1. CASE calls[d].from # Nobody
        <4>1. PICK q \in Ids : q = calls[d].from
          BY <2>1, <3>1 DEF CallRecords, MaybeRun
        <4>2. QED
          BY <1>5, <1>10, <2>1, <3>1, <4>1 DEF CallOK
      <3>2. QED
        BY <3>1
    <2>3. \A e \in Starters : calls'[e].run = calls[e].run
      BY <1>4, <1>5
    <2>4. CASE d = c
      <3>1. to \notin Unrecorded /\ to \notin Asking \cup {"idle"}
        BY DEF Unrecorded, Asking
      <3>2. NewRunOK(c, r)'
        <4>1. calls'[c].step \notin {"pred", "record"}
          BY <1>5
        <4>2. calls'[c].step \in Unrecorded \cup {"event"} => calls[c].step \in Unrecorded
          BY <1>1, <1>3
        <4>3. QED
          BY <1>1, <1>5, <1>9, <2>3, <3>1, <4>1, <4>2 DEF NewRunOK
      <3>3. to = "event" => calls'[c].kind = "continue"
        BY <1>2, <1>5
      <3>4. QED
        BY <1>1, <1>5, <2>1, <2>2, <2>4, <3>1, <3>2, <3>3 DEF CallOK
    <2>5. CASE d # c
      <3>1. calls'[d] = calls[d]
        BY <1>5, <2>5
      <3>2. ASSUME NEW a \in Ids, a = calls[d].run, NewRunOK(d, a) PROVE NewRunOK(d, a)'
        <4>1. a # r
          BY <1>4, <1>5, <2>5, <3>2 DEF NewRunOK
        <4>2. calls[d].step = "record" /\ calls[d].from # Nobody => disk'[calls[d].from].succ # Nobody
          <5>1. calls[d].from # Nobody => calls[d].from \in Ids
            BY <2>1 DEF CallRecords, MaybeRun
          <5>2. QED
            BY <1>10, <3>2, <5>1 DEF NewRunOK
        <4>3. Recorded(a)' <=> Recorded(a)
          BY <1>10, <4>1
        <4>4. QED
          BY <1>1, <1>5, <2>3, <3>1, <3>2, <4>2, <4>3 DEF NewRunOK
      <3>3. calls[d].step \in Unready \cup {"prepare"} =>
              \E a \in Ids : a = calls'[d].run /\ NewRunOK(d, a)'
        BY <2>1, <3>1, <3>2 DEF CallOK, NewRunOK
      <3>4. QED
        BY <1>1, <2>1, <2>2, <3>1, <3>3 DEF CallOK
    <2>6. QED
      BY <2>4, <2>5
  <1>13. SessionsOK'
    BY <1>1, <1>5, <1>10 DEF SInv, SessionsOK, SuccessionTypes, Born
  <1>14. HeirsOK'
    <2>1. ASSUME NEW y \in Ids, Heir(y)' PROVE Heir(y) /\ runs[y].pred \in Ids
      BY <1>1, <2>1 DEF Heir, Active, SInv, SuccessionTypes, RunRecords, MaybeRun
    <2>2. ASSUME NEW y \in Ids, Heir(y), Recorded(y)' PROVE disk'[runs[y].pred].succ # Nobody
      <3>1. CASE Recorded(y)
        BY <1>1, <1>10, <2>1, <2>2, <3>1 DEF SInv, HeirsOK, SuccessionTypes, RunRecords, MaybeRun, Heir
      <3>2. CASE ~Recorded(y)
        <4>1. y = r /\ runs[r].pred = calls[c].from /\ calls[c].from # Nobody
          BY <1>5, <1>10, <2>2, <3>2 DEF NewRunOK, Heir
        <4>2. calls[c].from \in Ids
          BY <4>1 DEF SInv, SuccessionTypes, CallRecords, MaybeRun
        <4>3. QED
          BY <1>1, <1>5, <1>10, <4>1, <4>2 DEF NewRunOK
      <3>3. QED
        BY <3>1, <3>2
    <2>3. QED
      BY <1>1, <2>1, <2>2 DEF SInv, HeirsOK
  <1>15. ContinuationsOK'
    BY <1>1, <1>5, <1>10 DEF SInv, ContinuationsOK, SuccessionTypes
  <1>16. QED
    BY <1>5, <1>8, <1>11, <1>12, <1>13, <1>14, <1>15 DEF SInv

(* A run that still starts is in no line of a run that is logged and out of *)
(* its start.                                                              *)
LEMMA StarterIsNoAncestor ==
  ASSUME SInv, NEW r \in Ids, Starting(r), NEW q \in Ids, Recorded(q), ~Starting(q)
  PROVE  r \notin Lineage(q)
  BY AncestorsSettled DEF SInv

(* RecordContinuation *)
LEMMA RecordContinuationKeeps ==
  ASSUME SInv, NEW c \in Starters, RecordContinuation(c)
  PROVE  SInv'
PROOF
  <1>1. /\ calls[c].step = "event" /\ Goto(c, "bind")
        /\ continued' = continued \cup {calls[c].run}
        /\ UNCHANGED <<runs, disk, next, busy, frozen, working, freezing, boot, launched,
                       unacquired>>
    BY DEF RecordContinuation, At
  <1>2. PICK r \in Ids : r = calls[c].run
    BY <1>1, RecordingGoesOn
  <1>3. /\ NewRunOK(c, r)
        /\ calls' \in [Starters -> CallRecords]
        /\ calls'[c].step = "bind" /\ calls'[c].run = r
        /\ calls'[c].kind = calls[c].kind /\ calls'[c].from = calls[c].from
        /\ \A d \in Starters \ {c} : calls'[d] = calls[d]
        /\ next' \in Nat \ {0} /\ next' + Cardinality(Pending') <= MaxRuns + 1
        /\ \A a : Starting(a)' <=> Starting(a)
        /\ \A a : Lineage(a)' = Lineage(a)
        /\ HoldersOK'
    BY <1>1, <1>2, RecordingGoesOn
  <1>4. SuccessionTypes'
    BY <1>1, <1>2, <1>3 DEF SInv, SuccessionTypes
  <1>5. Starting(r) /\ CallOK(c) /\ runs[r] \in RunRecords
    BY <1>2 DEF Starting, SInv, SuccessionTypes
  <1>6. Recorded(r) /\ runs[r].pred = calls[c].from /\ Lineage(calls[c].from) \cap continued = {}
    BY <1>1, <1>3, <1>5 DEF NewRunOK, CallOK, Unrecorded
  <1>7. ASSUME NEW q \in MaybeRun, q # Nobody => Recorded(q) /\ ~Starting(q),
               Lineage(q) \cap continued = {}
        PROVE  (Lineage(q) \cap continued)' = {}
    <2>1. r \notin Lineage(q)
      <3>1. CASE q = Nobody
        BY <3>1, LineageFacts DEF SInv, SuccessionTypes
      <3>2. CASE q # Nobody
        BY <1>5, <1>7, <3>2, StarterIsNoAncestor DEF MaybeRun
      <3>3. QED
        BY <3>1, <3>2
    <2>2. Lineage(q)' = Lineage(q)
      BY <1>3
    <2>3. Lineage(q)' \cap continued' = {}
      BY <1>1, <1>2, <1>7, <2>1, <2>2
    <2>4. QED
      BY <2>3
  <1>8. ASSUME NEW a \in Ids PROVE RunOK(a)'
    <2>1. RunOK(a)
      BY DEF SInv
    <2>2. Born(a) /\ ~Recorded(a) =>
            \E d \in Starters : calls'[d].run = a /\ calls'[d].step \in Unrecorded
      <3>1. CASE Born(a) /\ ~Recorded(a)
        <4>1. PICK d \in Starters : calls[d].run = a /\ calls[d].step \in Unrecorded
          BY <2>1, <3>1 DEF RunOK
        <4>2. d # c
          BY <1>1, <4>1 DEF Unrecorded
        <4>3. QED
          BY <1>3, <4>1, <4>2
      <3>2. QED
        BY <3>1
    <2>3. runs[a].pred # Nobody =>
            \E q \in Ids : /\ q = runs[a].pred /\ Recorded(q)' /\ ~Starting(q)'
                           /\ runs[a].op = runs[q].op
      <3>1. CASE runs[a].pred # Nobody
        <4>1. PICK q \in Ids : q = runs[a].pred
          BY <3>1 DEF SInv, SuccessionTypes, RunRecords, MaybeRun
        <4>2. QED
          BY <1>1, <1>3, <2>1, <3>1, <4>1 DEF RunOK, Recorded
      <3>2. QED
        BY <3>1
    <2>4. QED
      BY <1>1, <2>1, <2>2, <2>3 DEF RunOK, Born, Recorded
  <1>9. ASSUME NEW d \in Starters PROVE CallOK(d)'
    <2>1. CallOK(d) /\ calls[d] \in CallRecords
      BY DEF SInv, SuccessionTypes
    <2>2. calls[d].from # Nobody =>
            \E q \in Ids : q = calls[d].from /\ Recorded(q)' /\ ~Starting(q)'
                           /\ Recorded(q) /\ ~Starting(q)
      <3>1. CASE calls[d].from # Nobody
        <4>1. PICK q \in Ids : q = calls[d].from
          BY <2>1, <3>1 DEF CallRecords, MaybeRun
        <4>2. QED
          BY <1>1, <1>3, <2>1, <3>1, <4>1 DEF CallOK, Recorded
      <3>2. QED
        BY <3>1
    <2>3. \A e \in Starters : calls'[e].run = calls[e].run
      BY <1>2, <1>3
    <2>4. CASE d = c
      <3>1. NewRunOK(c, r)'
        <4>1. calls'[c].step \notin Unrecorded \cup {"event", "pred", "record"}
          BY <1>3 DEF Unrecorded
        <4>2. QED
          BY <1>1, <1>3, <1>6, <2>3, <4>1 DEF NewRunOK, Recorded
      <3>2. "bind" \notin Asking \cup {"idle", "event"}
        BY DEF Asking
      <3>3. calls[c].step # "idle"
        BY <1>1
      <3>4. QED
        BY <1>1, <1>3, <2>1, <2>2, <2>4, <3>1, <3>2, <3>3 DEF CallOK
    <2>5. CASE d # c
      <3>1. calls'[d] = calls[d]
        BY <1>3, <2>5
      <3>2. ASSUME NEW a \in Ids, a = calls[d].run, NewRunOK(d, a) PROVE NewRunOK(d, a)'
        <4>1. calls[d].kind = "continue" /\ calls[d].step \in Unrecorded \cup {"event"} =>
                (Lineage(calls[d].from) \cap continued)' = {}
          <5>1. CASE calls[d].kind = "continue" /\ calls[d].step \in Unrecorded \cup {"event"}
            <6>1. PICK q \in MaybeRun : q = calls[d].from
              BY <2>1 DEF CallRecords
            <6>2. Lineage(q) \cap continued = {}
              BY <3>2, <5>1, <6>1 DEF NewRunOK
            <6>3. (Lineage(q) \cap continued)' = {}
              BY <1>7, <2>2, <6>1, <6>2
            <6>4. QED
              BY <3>1, <6>1, <6>3
          <5>2. QED
            BY <5>1
        <4>2. QED
          BY <1>1, <1>3, <2>3, <3>1, <3>2, <4>1 DEF NewRunOK, Recorded
      <3>3. calls[d].step \in Unready \cup {"prepare"} =>
              \E a \in Ids : a = calls'[d].run /\ NewRunOK(d, a)'
        BY <2>1, <3>1, <3>2 DEF CallOK, NewRunOK
      <3>4. QED
        BY <1>1, <2>1, <2>2, <3>1, <3>3 DEF CallOK
    <2>6. QED
      BY <2>4, <2>5
  <1>10. SessionsOK'
    BY <1>1, <1>3 DEF SInv, SessionsOK, Born, Recorded
  <1>11. HeirsOK'
    BY <1>1 DEF SInv, HeirsOK, Heir, Active, Recorded
  <1>12. ContinuationsOK'
    <2>1. ASSUME NEW p \in Ids, runs[p].snapshot = p
          PROVE  ~Starting(p)' /\ (frozen[p] < 1 => (Lineage(p) \cap continued)' = {})
      <3>1. ~Starting(p) /\ (frozen[p] < 1 => Lineage(p) \cap continued = {})
        BY <2>1 DEF SInv, ContinuationsOK
      <3>2. Born(p)
        <4>1. p # Nobody /\ RunOK(p) /\ NoRun.snapshot = Nobody
          BY DEF Ids, Nobody, SInv, NoRun
        <4>2. QED
          BY <2>1, <4>1 DEF RunOK
      <3>3. Recorded(p)
        BY <3>1, <3>2, BeyondStart
      <3>4. QED
        BY <1>3, <1>7, <3>1, <3>3 DEF MaybeRun
    <2>2. ASSUME NEW y \in continued'
          PROVE  Recorded(y) /\ \E q \in MaybeRun : q = runs[y].pred /\ (Lineage(q) \cap continued)' = {}
      <3>1. Recorded(y) /\ Lineage(runs[y].pred) \cap continued = {}
        BY <1>1, <1>2, <1>6, <2>2 DEF SInv, ContinuationsOK
      <3>2. y \in Ids /\ RunOK(y)
        BY <1>4 DEF SuccessionTypes, SInv
      <3>3. PICK q \in MaybeRun : q = runs[y].pred
        BY <3>2 DEF SInv, SuccessionTypes, RunRecords
      <3>4. q # Nobody => Recorded(q) /\ ~Starting(q)
        BY <3>2, <3>3 DEF RunOK
      <3>5. QED
        BY <1>7, <3>1, <3>3, <3>4
    <2>3. QED
      BY <1>1, <2>1, <2>2 DEF ContinuationsOK, Recorded
  <1>13. QED
    BY <1>3, <1>4, <1>8, <1>9, <1>10, <1>11, <1>12 DEF SInv

-----------------------------------------------------------------------------
(* There is an id left for a run that a start is about to create, and       *)
(* nothing knows of it.                                                    *)
LEMMA NextIsFree ==
  ASSUME SInv, NEW c \in Starters, calls[c].step = "create"
  PROVE  /\ next \in Ids /\ runs[next] = NoRun /\ disk[next] = NoRun
         /\ ~Starting(next) /\ ~Recorded(next)
         /\ next \notin launched /\ next \notin working /\ next \notin continued
         /\ next \notin boot.resumed
         /\ \A a \in Ids : runs[a].pred # next
         /\ \A d \in Starters : calls[d].from # next
         /\ c \in Pending /\ calls[c].run = Nobody /\ calls[c] # Idle
PROOF
  <1>1. calls[c].run = Nobody /\ calls[c] # Idle
    BY DEF SInv, CallOK, Asking, Idle
  <1>2. IsFiniteSet(Pending) /\ Cardinality(Pending) \in Nat /\ c \in Pending
    BY <1>1, PendingFinite DEF SInv
  <1>3. Cardinality(Pending) # 0
    BY <1>2, FS_EmptySet
  <1>4. next \in Ids
    BY <1>2, <1>3, SuccessionBounds DEF SInv, SuccessionTypes, Ids
  <1>5. PICK n \in Ids : n = next
    BY <1>4
  <1>6. n # Nobody /\ ~Born(n) /\ RunOK(n)
    BY <1>5 DEF Ids, Nobody, SInv, RunOK
  <1>7. runs[n] = NoRun /\ disk[n] = NoRun /\ ~Recorded(n)
    BY <1>6 DEF RunOK
  <1>8. ~Starting(n)
    <2>1. SUFFICES ASSUME Starting(n) PROVE FALSE
      OBVIOUS
    <2>2. PICK d \in Starters : calls[d].run = n
      BY <2>1 DEF Starting, SInv, SuccessionTypes
    <2>3. calls[d] \in CallRecords /\ Idle.run = Nobody
      BY DEF SInv, SuccessionTypes, Idle
    <2>4. calls[d].step \in Unready \cup {"prepare"}
      BY <1>6, <2>2, <2>3 DEF SInv, CallOK, CallRecords
    <2>5. QED
      BY <1>6, <2>2, <2>4, StartOfRun
  <1>9. n \notin launched /\ n \notin working /\ n \notin continued /\ n \notin boot.resumed
    <2>1. NoRun.status # "Running"
      BY DEF NoRun
    <2>2. QED
      BY <1>6, <1>7, <2>1 DEF SInv, SessionsOK, ContinuationsOK
  <1>10. \A a \in Ids : runs[a].pred # n
    BY <1>6, <1>7 DEF SInv, RunOK
  <1>11. \A d \in Starters : calls[d].from # n
    BY <1>6, <1>7 DEF SInv, CallOK
  <1>12. QED
    BY <1>1, <1>2, <1>5, <1>7, <1>8, <1>9, <1>10, <1>11

(* The lines of all other runs stay. *)
LEMMA InsertKeepsLineages ==
  ASSUME runs \in [Ids -> RunRecords], runs' \in [Ids -> RunRecords], NEW n \in Ids,
         \A a \in Ids : runs[a].pred # n, \A a \in Ids \ {n} : runs'[a].pred = runs[a].pred,
         NEW q \in MaybeRun, q # n
  PROVE  Lineage(q)' = Lineage(q) /\ n \notin Lineage(q)
PROOF
  <1> DEFINE up == [x \in Ids |-> runs[x].pred]
             to == [x \in Ids |-> runs'[x].pred]
  <1>1. up \in [Ids -> MaybeRun] /\ to \in [Ids -> MaybeRun]
    BY DEF RunRecords
  <1>2. Lineage(q) = Line(q, up) /\ Lineage(q)' = Line(q, to)
    BY DEF Lineage
  <1>3. \A x \in Ids \ {n} : up[x] \in (Ids \ {n}) \cup {Nobody} /\ to[x] = up[x]
    BY <1>1 DEF MaybeRun
  <1>4. Ids \ {n} \in SUBSET Ids /\ q \in (Ids \ {n}) \cup {Nobody}
    BY DEF MaybeRun
  <1> HIDE DEF up, to
  <1>5. Line(q, up) \subseteq Ids \ {n}
    <2>1. PICK S \in SUBSET Ids : S = Ids \ {n}
      BY <1>4
    <2>2. q \in S \cup {Nobody} /\ \A x \in S : up[x] \in S \cup {Nobody}
      BY <1>3, <1>4, <2>1
    <2>3. Line(q, up) \subseteq S
      BY <1>1, <2>2, LineFacts
    <2>4. QED
      BY <2>1, <2>3
  <1>6. \A x \in Line(q, up) : to[x] = up[x]
    BY <1>3, <1>5
  <1>7. Line(q, to) = Line(q, up)
    BY <1>1, <1>6, LineAgrees
  <1>8. QED
    BY <1>2, <1>5, <1>7

(* A start creates its run, the successor of `from' if there is one. *)
LEMMA InsertKeeps ==
  ASSUME SInv, NEW c \in Starters, calls[c].step = "create", NEW rec \in RunRecords,
         NEW from \in MaybeRun, from = calls[c].from,
         Insert(c, rec, IF from = Nobody THEN runs ELSE [runs EXCEPT ![from].succ = next]),
         rec.status = "Queued", rec.pred = from, from # Nobody => rec.op = runs[from].op,
         rec.parent \in {Nobody, from}, rec.snapshot \in {Nobody, from},
         from # Nobody /\ rec.parent = Nobody => runs[from].succ = Nobody,
         calls[c].kind = "continue" =>
            ~rec.checkpoint /\ Lineage(from) \cap continued = {},
         UNCHANGED <<disk, busy, frozen, continued, working, freezing, boot, launched,
                     unacquired>>
  PROVE  SInv'
PROOF
  <1>1. PICK n \in Ids : n = next
    BY NextIsFree
  <1>2. /\ runs[n] = NoRun /\ disk[n] = NoRun /\ ~Starting(n) /\ ~Recorded(n)
        /\ n \notin launched /\ n \notin working /\ n \notin continued /\ n \notin boot.resumed
        /\ \A a \in Ids : runs[a].pred # n
        /\ \A d \in Starters : calls[d].from # n
        /\ c \in Pending /\ calls[c].run = Nobody /\ calls[c] # Idle
    BY <1>1, NextIsFree
  <1>3. n # Nobody /\ from # n /\ n \in MaybeRun
    BY <1>2 DEF Ids, Nobody, MaybeRun
  <1>4. calls[c] \in CallRecords /\ CallOK(c) /\ runs \in [Ids -> RunRecords]
    BY DEF SInv, SuccessionTypes
  <1>5. from # Nobody => from \in Ids /\ Recorded(from) /\ ~Starting(from)
    BY <1>4 DEF CallOK, MaybeRun
  <1>6. PICK to \in {"record", "pred"} : to = IF from = Nobody THEN "record" ELSE "pred"
    OBVIOUS
  <1>7. PICK new : new = [calls[c] EXCEPT !.run = n, !.step = to]
    OBVIOUS
  <1>8. new \in CallRecords /\ new.run = n /\ new.step = to /\ new.from = from
        /\ new.kind = calls[c].kind
    BY <1>3, <1>4, <1>7 DEF CallRecords, Unready, Unrecorded
  <1>9. /\ calls' \in [Starters -> CallRecords] /\ calls'[c] = new
        /\ \A d \in Starters \ {c} : calls'[d] = calls[d]
    <2>1. calls' = [calls EXCEPT ![c] = new]
      BY <1>1, <1>6, <1>7 DEF Insert, SInv, SuccessionTypes
    <2>2. QED
      BY <1>8, <2>1 DEF SInv, SuccessionTypes
  <1>10. /\ runs' \in [Ids -> RunRecords] /\ runs'[n] = rec
         /\ \A a \in Ids \ {n, from} : runs'[a] = runs[a]
         /\ from # Nobody => runs'[from] = [runs[from] EXCEPT !.succ = n]
    <2>1. CASE from = Nobody
      BY <1>1, <1>4, <2>1 DEF Insert
    <2>2. CASE from # Nobody
      <3>1. [runs[from] EXCEPT !.succ = n] \in RunRecords
        BY <1>3, <1>4, <1>5, <2>2 DEF RunRecords
      <3>2. runs' = [[runs EXCEPT ![from].succ = n] EXCEPT ![n] = rec]
        BY <1>1, <2>2 DEF Insert
      <3>3. QED
        BY <1>3, <1>4, <1>5, <2>2, <3>1, <3>2
    <2>3. QED
      BY <2>1, <2>2
  <1>11. ASSUME NEW a \in Ids \ {n}
         PROVE  /\ runs'[a] = [runs[a] EXCEPT !.succ = runs'[a].succ]
                /\ runs'[a].status = runs[a].status /\ runs'[a].pred = runs[a].pred
                /\ runs'[a].parent = runs[a].parent /\ runs'[a].op = runs[a].op
                /\ runs'[a].sandbox = runs[a].sandbox /\ runs'[a].snapshot = runs[a].snapshot
                /\ runs'[a].checkpoint = runs[a].checkpoint
                /\ runs[a].succ # Nobody => runs'[a].succ # Nobody
    <2>1. runs[a] \in RunRecords
      BY <1>4
    <2>2. CASE a = from
      BY <1>3, <1>5, <1>10, <2>1, <2>2 DEF RunRecords, Ids, Nobody
    <2>3. CASE a # from
      BY <1>10, <2>1, <2>3 DEF RunRecords
    <2>4. QED
      BY <2>2, <2>3
  <1>12. next' = n + 1 /\ next' \in Nat \ {0} /\ next' + Cardinality(Pending') <= MaxRuns + 1
    <2>1. IsFiniteSet(Pending) /\ Cardinality(Pending) \in Nat
          /\ Pending = {d \in Starters : calls[d] # Idle /\ calls[d].run = Nobody}
      BY PendingFinite DEF SInv
    <2>2. Pending' = {d \in Starters : calls'[d] # Idle /\ calls'[d].run = Nobody}
      BY <1>9 DEF Pending
    <2>3. Pending' = Pending \ {c}
      BY <1>3, <1>8, <1>9, <2>1, <2>2
    <2>4. Cardinality(Pending \ {c}) = Cardinality(Pending) - 1
      BY <1>2, <2>1, FS_RemoveElement
    <2>5. n \in Nat \ {0} /\ n + Cardinality(Pending) <= MaxRuns + 1 /\ next' = n + 1
      BY <1>1 DEF SInv, SuccessionTypes, Insert
    <2>6. QED
      BY <2>1, <2>3, <2>4, <2>5, SuccessionBounds
  <1>13. SuccessionTypes'
    BY <1>9, <1>10, <1>12 DEF SInv, SuccessionTypes
  <1>14. \A q \in MaybeRun \ {n} : Lineage(q)' = Lineage(q) /\ n \notin Lineage(q)
    BY <1>2, <1>4, <1>10, <1>11, InsertKeepsLineages
  <1>15. \A d \in Starters \ {c} : calls[d].run # n
    BY <1>2 DEF Starting, SInv, SuccessionTypes
  <1>16. \A a \in Ids \ {n} : Starting(a)' <=> Starting(a)
    <2>1. \A a \in Ids \ {n} : \A d \in Starters : calls'[d].run = a <=> calls[d].run = a
      BY <1>2, <1>8, <1>9 DEF Ids, Nobody
    <2>2. QED
      BY <1>9, <2>1 DEF Starting, SInv, SuccessionTypes
  <1>17. \A a \in Ids : Recorded(a)' <=> Recorded(a)
    BY DEF Recorded
  <1>18. \A q \in Ids : Recorded(q) /\ ~Starting(q) => q # n /\ Recorded(q)' /\ ~Starting(q)'
    BY <1>2, <1>16, <1>17

  <1>19. ASSUME NEW a \in Ids PROVE RunOK(a)'
    <2>1. RunOK(a) /\ runs[a] \in RunRecords /\ disk[a] \in RunRecords
      BY DEF SInv, SuccessionTypes
    <2>2. CASE a = n
      <3>1. n < n + 1
        BY <1>12 DEF Ids
      <3>2. calls'[c].run = n /\ calls'[c].step \in Unrecorded
        BY <1>8, <1>9 DEF Unrecorded
      <3>3. from # Nobody =>
              /\ Recorded(from)' /\ ~Starting(from)' /\ from = rec.pred
              /\ rec.op = runs'[from].op
        BY <1>3, <1>5, <1>11, <1>18
      <3>4. QED
        BY <1>2, <1>10, <1>12, <2>2, <3>1, <3>2, <3>3 DEF RunOK, Born, Recorded
    <2>3. CASE a # n
      <3>1. a < next => a < next'
        BY <1>1, <1>12 DEF Ids
      <3>2. Born(a)' <=> Born(a)
        BY <1>11, <2>3 DEF Born
      <3>3. ~Born(a) => runs'[a] = NoRun
        <4>1. a = from => Born(a)
          BY <1>5, <2>1 DEF RunOK, Ids, Nobody
        <4>2. QED
          BY <1>10, <2>1, <2>3, <4>1 DEF RunOK
      <3>4. Recorded(a) =>
              /\ disk[a] = [runs'[a] EXCEPT !.succ = disk[a].succ]
              /\ disk[a].succ # Nobody => runs'[a].succ # Nobody
        <4>1. CASE Recorded(a)
          <5>1. disk[a] = [runs[a] EXCEPT !.succ = disk[a].succ]
            BY <2>1, <4>1 DEF RunOK
          <5>2. runs'[a] = [runs[a] EXCEPT !.succ = runs'[a].succ]
            BY <1>11, <2>3
          <5>3. [runs'[a] EXCEPT !.succ = disk[a].succ] = [runs[a] EXCEPT !.succ = disk[a].succ]
            BY <2>1, <5>2 DEF RunRecords
          <5>4. QED
            BY <1>11, <2>1, <2>3, <4>1, <5>1, <5>3 DEF RunOK
        <4>2. QED
          BY <4>1
      <3>5. Born(a) /\ ~Recorded(a) =>
              \E d \in Starters : calls'[d].run = a /\ calls'[d].step \in Unrecorded
        <4>1. CASE Born(a) /\ ~Recorded(a)
          <5>1. PICK d \in Starters : calls[d].run = a /\ calls[d].step \in Unrecorded
            BY <2>1, <4>1 DEF RunOK
          <5>2. d # c
            BY <5>1 DEF Unrecorded
          <5>3. QED
            BY <1>9, <5>1, <5>2
        <4>2. QED
          BY <4>1
      <3>6. runs[a].pred # Nobody =>
              \E q \in Ids : /\ q = runs'[a].pred /\ Recorded(q)' /\ ~Starting(q)'
                             /\ runs'[a].op = runs'[q].op
        <4>1. CASE runs[a].pred # Nobody
          <5>1. PICK q \in Ids : q = runs[a].pred
            BY <2>1, <4>1 DEF RunRecords, MaybeRun
          <5>2. Recorded(q) /\ ~Starting(q) /\ runs[a].op = runs[q].op
            BY <2>1, <4>1, <5>1 DEF RunOK
          <5>3. q # n /\ Recorded(q)' /\ ~Starting(q)'
            BY <1>18, <5>2
          <5>4. QED
            BY <1>11, <2>3, <5>1, <5>2, <5>3
        <4>2. QED
          BY <4>1
      <3>7. runs'[a].pred = runs[a].pred /\ runs'[a].parent = runs[a].parent
        BY <1>11, <2>3
      <3>8. QED
        BY <1>17, <2>1, <3>1, <3>2, <3>3, <3>4, <3>5, <3>6, <3>7 DEF RunOK
    <2>4. QED
      BY <2>2, <2>3
  <1>20. ASSUME NEW d \in Starters PROVE CallOK(d)'
    <2>1. CallOK(d) /\ calls[d] \in CallRecords
      BY DEF SInv, SuccessionTypes
    <2>2. CASE d = c
      <3>1. NewRunOK(c, n)'
        <4>1. rec.status = "Queued" /\ n \notin launched' /\ rec.pred = new.from
          BY <1>2, <1>8
        <4>2. new.step = "pred" => new.from # Nobody /\ runs'[new.from].succ # Nobody
          BY <1>3, <1>4, <1>5, <1>6, <1>8, <1>10 DEF RunRecords
        <4>3. new.step = "record" => new.from = Nobody
          BY <1>6, <1>8
        <4>4. new.kind = "continue" => ~rec.checkpoint /\ (Lineage(new.from) \cap continued)' = {}
          <5>1. from \in MaybeRun \ {n}
            BY <1>3
          <5>2. Lineage(from)' = Lineage(from)
            BY <1>14, <5>1
          <5>3. new.kind = "continue" => (Lineage(from) \cap continued)' = {}
            BY <1>8, <5>2
          <5>4. QED
            BY <1>8, <5>3
        <4>5. \A e \in Starters : calls'[e].run = n => e = c
          BY <1>9, <1>15
        <4>6. ~Recorded(n)' /\ new.step \in Unrecorded
          BY <1>2, <1>8, <1>17 DEF Unrecorded
        <4>7. QED
          BY <1>9, <1>10, <4>1, <4>2, <4>3, <4>4, <4>5, <4>6 DEF NewRunOK
      <3>2. new.step \notin Asking \cup {"idle", "event"}
        BY <1>8 DEF Asking
      <3>3. from # Nobody => Recorded(from)' /\ ~Starting(from)'
        BY <1>5, <1>18
      <3>4. calls[c].kind \in {"child", "replan", "continue"} <=> from # Nobody
        BY <1>4 DEF CallOK
      <3>5. boot.stage # "up" => calls[c].kind = "continue"
        BY <1>4 DEF CallOK
      <3>6. QED
        BY <1>8, <1>9, <2>2, <3>1, <3>2, <3>3, <3>4, <3>5 DEF CallOK
    <2>3. CASE d # c
      <3>1. calls'[d] = calls[d] /\ calls[d].from # n
        BY <1>2, <1>9, <2>3
      <3>2. calls[d].from # Nobody =>
              \E q \in Ids : q = calls[d].from /\ Recorded(q)' /\ ~Starting(q)' /\ q # n
        <4>1. CASE calls[d].from # Nobody
          <5>1. PICK q \in Ids : q = calls[d].from
            BY <2>1, <4>1 DEF CallRecords, MaybeRun
          <5>2. QED
            BY <1>18, <2>1, <4>1, <5>1 DEF CallOK
        <4>2. QED
          BY <4>1
      <3>3. ASSUME NEW a \in Ids, a = calls[d].run, NewRunOK(d, a) PROVE NewRunOK(d, a)'
        <4>1. a # n
          BY <1>15, <2>3, <3>3
        <4>2. runs'[a].status = runs[a].status /\ runs'[a].pred = runs[a].pred
              /\ runs'[a].checkpoint = runs[a].checkpoint
          BY <1>11, <4>1
        <4>3. \A e \in Starters : calls'[e].run = a => e = d
          BY <1>8, <1>9, <3>3, <4>1 DEF NewRunOK
        <4>4. calls[d].from # Nobody /\ runs[calls[d].from].succ # Nobody =>
                runs'[calls[d].from].succ # Nobody
          BY <1>11, <3>1, <3>2
        <4>5. Lineage(calls[d].from) \cap continued = {} =>
                (Lineage(calls[d].from) \cap continued)' = {}
          <5>1. PICK q \in MaybeRun \ {n} : q = calls[d].from
            BY <2>1, <3>1 DEF CallRecords
          <5>2. Lineage(q)' = Lineage(q)
            BY <1>14, <5>1
          <5>3. Lineage(q) \cap continued = {} => (Lineage(q) \cap continued)' = {}
            BY <5>2
          <5>4. QED
            BY <3>1, <5>1, <5>3
        <4>6. QED
          BY <1>17, <3>1, <3>3, <4>2, <4>3, <4>4, <4>5 DEF NewRunOK
      <3>4. calls[d].step \in Unready \cup {"prepare"} =>
              \E a \in Ids : a = calls'[d].run /\ NewRunOK(d, a)'
        BY <2>1, <3>1, <3>3 DEF CallOK, NewRunOK
      <3>5. QED
        BY <2>1, <3>1, <3>2, <3>4 DEF CallOK
    <2>4. QED
      BY <2>2, <2>3
  <1>21. SessionsOK'
    <2>1. ASSUME NEW a \in working PROVE runs'[a].status = "Running"
      BY <1>2, <1>11 DEF SInv, SessionsOK, SuccessionTypes
    <2>2. ASSUME NEW a \in launched
          PROVE  Recorded(a)' /\ runs'[a].pred # Nobody /\ runs'[a].parent = Nobody
      BY <1>2, <1>11, <1>17 DEF SInv, SessionsOK, SuccessionTypes
    <2>3. ASSUME NEW a \in boot.resumed PROVE Born(a)' /\ ~Starting(a)'
      BY <1>2, <1>11, <1>16 DEF SInv, SessionsOK, SuccessionTypes, Born
    <2>4. QED
      BY <2>1, <2>2, <2>3 DEF SInv, SessionsOK
  <1>22. HoldersOK'
    <2>1. ASSUME NEW a \in Ids, Holder(a)'
          PROVE  a # n /\ Holder(a) /\ runs'[a].sandbox = runs[a].sandbox
      <3>1. a # n
        BY <1>8, <1>9, <2>1 DEF Holder
      <3>2. \A e \in Starters : calls[e].run = a => calls[e].step = "prepare"
        BY <1>2, <1>9, <2>1 DEF Holder, Ids, Nobody
      <3>3. Awaiting(a)' <=> Awaiting(a)
        BY <1>11, <3>1 DEF Awaiting, Interrupted
      <3>4. QED
        BY <1>11, <1>16, <2>1, <3>1, <3>2, <3>3 DEF Holder, Active
    <2>2. \A a \in Ids \ {n} : Lineage(a)' = Lineage(a)
      BY <1>14 DEF MaybeRun
    <2>3. QED
      BY <2>1, <2>2 DEF SInv, HoldersOK
  <1>23. HeirsOK'
    <2>1. ASSUME NEW y \in Ids \ {n}, Heir(y)'
          PROVE  /\ Heir(y) /\ runs'[y].pred = runs[y].pred /\ runs[y].pred \in Ids
                 /\ runs[y].pred # n /\ runs'[runs[y].pred].succ # Nobody
      <3>1. Heir(y) /\ runs'[y].pred = runs[y].pred
        BY <1>11, <2>1 DEF Heir, Active
      <3>2. runs[y].pred \in Ids /\ runs[y].pred # n
        BY <1>2, <1>4, <3>1 DEF Heir, RunRecords, MaybeRun
      <3>3. QED
        BY <1>11, <3>1, <3>2 DEF SInv, HeirsOK
    <2>2. ASSUME Heir(n)'
          PROVE  /\ runs'[n].pred = from /\ from # Nobody /\ runs'[from].succ # Nobody
                 /\ \A z \in Ids \ {n} : Heir(z)' => runs'[z].pred # from
      <3>1. from # Nobody /\ rec.parent = Nobody /\ runs'[n].pred = from
        BY <1>10, <2>2 DEF Heir
      <3>2. runs'[from].succ # Nobody
        BY <1>3, <1>4, <1>5, <1>10, <3>1 DEF RunRecords
      <3>3. runs[from].succ = Nobody
        BY <3>1
      <3>4. QED
        BY <2>1, <3>1, <3>2, <3>3 DEF SInv, HeirsOK
    <2>3. ASSUME NEW y \in Ids, Heir(y)'
          PROVE  /\ runs'[runs'[y].pred].succ # Nobody
                 /\ Recorded(y)' => disk[runs'[y].pred].succ # Nobody
                 /\ \A z \in Ids : Heir(z)' /\ runs'[z].pred = runs'[y].pred => z = y
      <3>1. CASE y = n
        BY <1>2, <1>17, <2>2, <2>3, <3>1
      <3>2. CASE y # n
        <4>1. Heir(y) /\ runs'[y].pred = runs[y].pred /\ runs'[runs[y].pred].succ # Nobody
          BY <2>1, <2>3, <3>2
        <4>2. \A z \in Ids \ {n} : Heir(z)' /\ runs'[z].pred = runs'[y].pred => z = y
          BY <2>1, <4>1 DEF SInv, HeirsOK
        <4>3. ~(Heir(n)' /\ runs'[n].pred = runs'[y].pred)
          BY <2>2, <2>3, <3>2
        <4>4. QED
          BY <1>17, <4>1, <4>2, <4>3 DEF SInv, HeirsOK
      <3>3. QED
        BY <3>1, <3>2
    <2>4. QED
      BY <2>3 DEF HeirsOK
  <1>24. ContinuationsOK'
    <2>1. ASSUME NEW q \in Ids, runs'[q].snapshot = q
          PROVE  ~Starting(q)' /\ (frozen[q] < 1 => (Lineage(q) \cap continued)' = {})
      <3>1. q # n
        BY <1>3, <1>10, <2>1
      <3>2. runs[q].snapshot = q /\ Lineage(q)' = Lineage(q)
        BY <1>11, <1>14, <2>1, <3>1 DEF MaybeRun
      <3>3. QED
        BY <1>16, <3>1, <3>2 DEF SInv, ContinuationsOK
    <2>2. ASSUME NEW y \in continued
          PROVE  Recorded(y)' /\ \E q \in MaybeRun : q = runs'[y].pred /\ (Lineage(q) \cap continued)' = {}
      <3>1. y \in Ids \ {n} /\ Recorded(y) /\ Lineage(runs[y].pred) \cap continued = {}
        BY <1>2 DEF SInv, ContinuationsOK, SuccessionTypes
      <3>2. PICK q \in MaybeRun \ {n} : q = runs[y].pred
        BY <1>2, <1>4, <3>1 DEF RunRecords
      <3>3. Lineage(q)' = Lineage(q) /\ runs'[y].pred = q
        BY <1>11, <1>14, <3>1, <3>2
      <3>4. QED
        BY <1>17, <3>1, <3>2, <3>3
    <2>3. QED
      BY <2>1, <2>2 DEF ContinuationsOK
  <1>25. QED
    BY <1>13, <1>19, <1>20, <1>21, <1>22, <1>23, <1>24 DEF SInv

(* create_run_with_context *)
LEMMA CreateInitialKeeps ==
  ASSUME SInv, NEW c \in Starters, calls[c].step = "create", create_run_with_context(c),
         UNCHANGED <<disk, busy, frozen, continued, working, freezing, boot, launched,
                     unacquired>>
  PROVE  SInv'
PROOF
  <1>1. calls[c].kind = "initial" /\ CallOK(c) /\ calls[c] \in CallRecords
    BY DEF create_run_with_context, SInv, SuccessionTypes
  <1>2. PICK from \in MaybeRun : from = Nobody /\ from = calls[c].from
    BY <1>1 DEF CallOK, MaybeRun
  <1>3. PICK rec : rec = Queued(calls[c].phase, next)
    OBVIOUS
  <1>4. next \in MaybeRun /\ calls[c].phase \in Phases
    BY <1>1, NextIsFree DEF CallRecords, MaybeRun
  <1>5. /\ rec \in RunRecords /\ rec.status = "Queued" /\ rec.pred = Nobody
        /\ rec.parent = Nobody /\ rec.snapshot = Nobody
    BY <1>3, <1>4 DEF Queued, NoRun, RunRecords, Statuses, MaybeRun
  <1>6. Insert(c, rec, IF from = Nobody THEN runs ELSE [runs EXCEPT ![from].succ = next])
    BY <1>2, <1>3 DEF create_run_with_context, Insert
  <1>7. QED
    BY <1>1, <1>2, <1>5, <1>6, InsertKeeps

(* The run that a start succeeds *)
LEMMA StartSucceeds ==
  ASSUME SInv, NEW c \in Starters, calls[c].step = "create",
         calls[c].kind \in {"child", "replan", "continue"}
  PROVE  /\ calls[c].from \in Ids /\ calls[c].from \in MaybeRun /\ calls[c].from # Nobody
         /\ runs[calls[c].from] \in RunRecords
         /\ calls[c].phase \in Phases /\ next \in MaybeRun
PROOF
  <1>1. calls[c].from # Nobody /\ calls[c] \in CallRecords
    BY DEF SInv, CallOK, SuccessionTypes
  <1>2. QED
    BY <1>1, NextIsFree DEF CallRecords, MaybeRun, SInv, SuccessionTypes

(* create_child_run *)
LEMMA CreateChildKeeps ==
  ASSUME SInv, NEW c \in Starters, calls[c].step = "create", create_child_run(c),
         UNCHANGED <<disk, busy, frozen, continued, working, freezing, boot, launched,
                     unacquired>>
  PROVE  SInv'
PROOF
  <1>1. calls[c].kind = "child"
    BY DEF create_child_run
  <1>2. PICK from \in Ids : from = calls[c].from
    BY <1>1, StartSucceeds
  <1>3. from \in MaybeRun /\ from # Nobody /\ runs[from] \in RunRecords
        /\ calls[c].phase \in Phases
    BY <1>1, <1>2, StartSucceeds
  <1>4. PICK rec : rec = [Queued(calls[c].phase, runs[from].op) EXCEPT
                            !.parent = from, !.pred = from, !.sandbox = runs[from].sandbox,
                            !.checkpoint = runs[from].checkpoint]
    OBVIOUS
  <1>5. /\ rec \in RunRecords /\ rec.status = "Queued" /\ rec.pred = from
        /\ rec.parent = from /\ rec.snapshot = Nobody /\ rec.op = runs[from].op
    BY <1>3, <1>4 DEF Queued, NoRun, RunRecords, Statuses, MaybeRun
  <1>6. Insert(c, rec, IF from = Nobody THEN runs ELSE [runs EXCEPT ![from].succ = next])
    BY <1>2, <1>3, <1>4 DEF create_child_run, Insert
  <1>7. QED
    BY <1>1, <1>2, <1>3, <1>5, <1>6, InsertKeeps

(* create_replan_successor_run *)
LEMMA CreateReplanKeeps ==
  ASSUME SInv, NEW c \in Starters, calls[c].step = "create", create_replan_successor_run(c),
         UNCHANGED <<disk, busy, frozen, continued, working, freezing, boot, launched,
                     unacquired>>
  PROVE  SInv'
PROOF
  <1>1. calls[c].kind = "replan"
    BY DEF create_replan_successor_run
  <1>2. PICK from \in Ids : from = calls[c].from
    BY <1>1, StartSucceeds
  <1>3. from \in MaybeRun /\ from # Nobody /\ runs[from] \in RunRecords
        /\ calls[c].phase \in Phases
    BY <1>1, <1>2, StartSucceeds
  <1>4. PICK rec : rec = [Queued(calls[c].phase, runs[from].op) EXCEPT !.pred = from]
    OBVIOUS
  <1>5. /\ rec \in RunRecords /\ rec.status = "Queued" /\ rec.pred = from
        /\ rec.parent = Nobody /\ rec.snapshot = Nobody /\ rec.op = runs[from].op
    BY <1>3, <1>4 DEF Queued, NoRun, RunRecords, Statuses, MaybeRun
  <1>6. Insert(c, rec, IF from = Nobody THEN runs ELSE [runs EXCEPT ![from].succ = next])
    BY <1>2, <1>3, <1>4 DEF create_replan_successor_run, Insert
  <1>7. runs[from].succ = Nobody
    BY <1>2 DEF create_replan_successor_run, Replaceable
  <1>8. QED
    BY <1>1, <1>2, <1>3, <1>5, <1>6, <1>7, InsertKeeps

(* create_continuation_successor_run *)
LEMMA CreateContinuationKeeps ==
  ASSUME SInv, NEW c \in Starters, calls[c].step = "create",
         create_continuation_successor_run(c),
         UNCHANGED <<disk, busy, frozen, continued, working, freezing, boot, launched,
                     unacquired>>
  PROVE  SInv'
PROOF
  <1>1. calls[c].kind = "continue"
    BY DEF create_continuation_successor_run
  <1>2. PICK from \in Ids : from = calls[c].from
    BY <1>1, StartSucceeds
  <1>3. from \in MaybeRun /\ from # Nobody /\ runs[from] \in RunRecords
    BY <1>1, <1>2, StartSucceeds
  <1>4. PICK rec : rec = [runs[from] EXCEPT
                            !.status = "Queued", !.parent = Nobody, !.pred = from,
                            !.succ = Nobody, !.checkpoint = FALSE, !.replan = FALSE]
    OBVIOUS
  <1>5. runs[from].succ = Nobody /\ runs[from].snapshot = from
        /\ Lineage(from) \cap continued = {}
    BY <1>2 DEF create_continuation_successor_run, Eligible, SInv, ContinuationsOK
  <1>6. /\ rec \in RunRecords /\ rec.status = "Queued" /\ rec.pred = from
        /\ rec.parent = Nobody /\ rec.snapshot = from /\ rec.op = runs[from].op
        /\ ~rec.checkpoint
    BY <1>3, <1>4, <1>5 DEF RunRecords, Statuses, MaybeRun
  <1>7. Insert(c, rec, IF from = Nobody THEN runs ELSE [runs EXCEPT ![from].succ = next])
    BY <1>2, <1>3, <1>4 DEF create_continuation_successor_run, Insert
  <1>8. QED
    BY <1>1, <1>2, <1>3, <1>5, <1>6, <1>7, InsertKeeps

(* Create *)
LEMMA CreateKeeps ==
  ASSUME SInv, NEW c \in Starters, Create(c)
  PROVE  SInv'
PROOF
  <1>1. calls[c].step = "create" /\ calls[c].step \in Asking
        /\ UNCHANGED <<disk, busy, frozen, continued, working, freezing, boot, launched,
                       unacquired>>
    BY DEF Create, At, Asking
  <1>2. CASE create_run_with_context(c)
    BY <1>1, <1>2, CreateInitialKeeps
  <1>3. CASE create_child_run(c)
    BY <1>1, <1>3, CreateChildKeeps
  <1>4. CASE create_replan_successor_run(c)
    BY <1>1, <1>4, CreateReplanKeeps
  <1>5. CASE create_continuation_successor_run(c)
    BY <1>1, <1>5, CreateContinuationKeeps
  <1>6. CASE Answer(c) /\ UNCHANGED <<runs, next>>
    <2>1. UNCHANGED <<stores, working, freezing, boot, launched, unacquired>>
      BY <1>1, <1>6 DEF stores
    <2>2. QED
      BY <1>1, <1>6, <2>1, AskingGoesOn
  <1>7. QED
    BY <1>2, <1>3, <1>4, <1>5, <1>6 DEF Create

-----------------------------------------------------------------------------
(* The log knows the line of each run it has. *)
LEMMA LogKeepsLineages ==
  ASSUME SInv, runs' = disk, NEW q \in MaybeRun, q # Nobody => Recorded(q)
  PROVE  Lineage(q)' = Lineage(q)
PROOF
  <1> DEFINE up == [x \in Ids |-> runs[x].pred]
             to == [x \in Ids |-> disk[x].pred]
  <1>1. runs \in [Ids -> RunRecords] /\ disk \in [Ids -> RunRecords]
        /\ SuccessionTypes /\ \A r \in Ids : RunOK(r)
    BY DEF SInv, SuccessionTypes
  <1>2. up \in [Ids -> MaybeRun] /\ to \in [Ids -> MaybeRun]
    BY <1>1 DEF RunRecords
  <1>3. Lineage(q) = Line(q, up) /\ Lineage(q)' = Line(q, to)
    BY DEF Lineage
  <1>4. ASSUME NEW x \in Lineage(q) PROVE x \in Ids /\ Recorded(x)
    <2>1. q \in Ids
      BY <1>1, <1>4, LineageFacts DEF MaybeRun
    <2>2. q # Nobody /\ Recorded(q)
      BY <2>1 DEF Ids, Nobody
    <2>3. PICK p \in MaybeRun : p = runs[q].pred /\ Lineage(q) = {q} \cup Lineage(p)
      BY <1>1, <2>1, LineageFacts
    <2>4. CASE x = q
      BY <2>1, <2>2, <2>4
    <2>5. CASE x # q
      <3>1. x \in Lineage(p)
        BY <1>4, <2>3, <2>5
      <3>2. p # Nobody
        BY <1>1, <3>1, LineageFacts
      <3>3. p \in Ids /\ Recorded(p) /\ ~Starting(p)
        BY <1>1, <2>1, <2>3, <3>2 DEF RunOK, MaybeRun
      <3>4. QED
        BY <1>1, <3>1, <3>3, AncestorsSettled
    <2>6. QED
      BY <2>4, <2>5
  <1>5. \A x \in Line(q, up) : to[x] = up[x]
    <2>1. \A x \in Ids : Recorded(x) => disk[x].pred = runs[x].pred
      BY <1>1 DEF RunOK, RunRecords
    <2>2. QED
      BY <1>3, <1>4, <2>1
  <1> HIDE DEF up, to
  <1>6. Line(q, to) = Line(q, up)
    BY <1>2, <1>5, LineAgrees
  <1>7. QED
    BY <1>3, <1>6

(* Crash: what is left is what the log has. *)
LEMMA CrashKeeps ==
  ASSUME SInv, Crash
  PROVE  SInv'
PROOF
  <1>1. /\ runs' = disk /\ working' = {} /\ freezing' = {}
        /\ calls' = [c \in DOMAIN calls |-> Idle]
        /\ boot' = [stage |-> "down", todo |-> {}, resumed |-> {}]
        /\ UNCHANGED <<disk, next, busy, frozen, continued, launched, unacquired>>
    BY DEF Crash
  <1>2. /\ DOMAIN calls = Starters /\ disk \in [Ids -> RunRecords]
        /\ runs \in [Ids -> RunRecords]
    BY DEF SInv, SuccessionTypes
  <1>3. Idle \in CallRecords /\ Idle.run = Nobody /\ Idle.from = Nobody /\ Idle.step = "idle"
        /\ Idle.kind = "none"
    BY DEF Idle, CallRecords, Phases, MaybeRun
  <1>4. calls' \in [Starters -> CallRecords] /\ \A c \in Starters : calls'[c] = Idle
    BY <1>1, <1>2, <1>3
  <1>5. boot'.stage = "down" /\ boot'.todo = {} /\ boot'.resumed = {}
        /\ boot' \in [stage : {"up", "down", "recovering"}, todo : SUBSET Ids, resumed : SUBSET Ids]
    BY <1>1
  <1>6. next' \in Nat \ {0} /\ next' + Cardinality(Pending') <= MaxRuns + 1
    BY <1>1, <1>4, PendingShrinks DEF SInv
  <1>7. SuccessionTypes'
    BY <1>1, <1>2, <1>4, <1>5, <1>6 DEF SInv, SuccessionTypes
  <1>8. \A r \in Ids : ~Starting(r)'
    BY <1>3, <1>4 DEF Starting, Ids, Nobody
  <1>9. ASSUME NEW r \in Ids
        PROVE  /\ Recorded(r)' <=> Recorded(r)
               /\ Born(r)' <=> Recorded(r)
               /\ ~Recorded(r) => runs'[r] = NoRun
               /\ Recorded(r) =>
                    /\ Born(r) /\ runs'[r].status = runs[r].status
                    /\ runs'[r].pred = runs[r].pred /\ runs'[r].parent = runs[r].parent
                    /\ runs'[r].op = runs[r].op /\ runs'[r].sandbox = runs[r].sandbox
                    /\ runs'[r].snapshot = runs[r].snapshot
    <2>1. RunOK(r) /\ runs[r] \in RunRecords
      BY <1>2 DEF SInv
    <2>2. Recorded(r)' <=> Recorded(r)
      BY <1>1 DEF Recorded
    <2>3. Born(r)' <=> Recorded(r)
      BY <1>1 DEF Recorded, Born
    <2>4. QED
      BY <1>1, <2>1, <2>2, <2>3 DEF RunOK, RunRecords
  <1>10. ASSUME NEW r \in Ids PROVE RunOK(r)'
    <2>1. RunOK(r) /\ disk[r] \in RunRecords
      BY <1>2 DEF SInv
    <2>2. disk[r] = [disk[r] EXCEPT !.succ = disk[r].succ]
      BY <2>1 DEF RunRecords
    <2>3. runs'[r].pred # Nobody =>
            \E q \in Ids : /\ q = runs'[r].pred /\ Recorded(q)' /\ ~Starting(q)'
                           /\ runs'[r].op = runs'[q].op
      <3>1. CASE runs'[r].pred # Nobody
        <4>1. Recorded(r)
          BY <1>9, <3>1 DEF NoRun
        <4>2. runs[r].pred # Nobody
          BY <1>9, <3>1, <4>1
        <4>3. PICK q \in Ids : q = runs[r].pred
          BY <1>2, <4>2 DEF RunRecords, MaybeRun
        <4>4. Recorded(q) /\ runs[r].op = runs[q].op
          BY <2>1, <4>2, <4>3 DEF RunOK
        <4>5. QED
          BY <1>8, <1>9, <4>1, <4>3, <4>4
      <3>2. QED
        BY <3>1
    <2>4. runs'[r].parent # Nobody => runs'[r].parent = runs'[r].pred
      BY <1>9, <2>1 DEF RunOK, NoRun
    <2>5. QED
      BY <1>1, <1>9, <2>1, <2>2, <2>3, <2>4 DEF RunOK
  <1>11. ASSUME NEW c \in Starters PROVE CallOK(c)'
    BY <1>3, <1>4 DEF CallOK, Asking, Unready, Unrecorded
  <1>12. SessionsOK'
    <2>1. ASSUME NEW r \in launched
          PROVE  Recorded(r)' /\ runs'[r].pred # Nobody /\ runs'[r].parent = Nobody
      BY <1>9 DEF SInv, SessionsOK, SuccessionTypes
    <2>2. QED
      BY <1>1, <1>5, <2>1 DEF SessionsOK
  <1>13. \A q \in MaybeRun : (q # Nobody => Recorded(q)) => Lineage(q)' = Lineage(q)
    BY <1>1, LogKeepsLineages
  <1>14. HoldersOK'
    <2>1. ASSUME NEW a \in Ids, Holder(a)'
          PROVE  /\ Holder(a) /\ runs'[a].sandbox = runs[a].sandbox
                 /\ Lineage(a)' = Lineage(a)
      <3>1. Active(a)' /\ ~Awaiting(a)' /\ runs'[a].sandbox # NoSandbox /\ a \notin unacquired
        BY <1>1, <1>8, <2>1 DEF Holder
      <3>2. Born(a)'
        BY <3>1 DEF Active, Born, Closed
      <3>3. Recorded(a) /\ Born(a) /\ runs'[a].status = runs[a].status
            /\ runs'[a].sandbox = runs[a].sandbox
        BY <1>9, <3>2
      <3>4. runs[a].status \notin Closed \cup {"Queued", "Running"}
        BY <1>5, <3>1, <3>3 DEF Awaiting, Interrupted, Active
      <3>5. ~Starting(a)
        BY <3>3, <3>4, BeyondStart DEF Closed
      <3>6. \A c \in Starters : calls[c].run # a
        BY <1>2, <3>5 DEF Starting
      <3>7. Holder(a)
        BY <3>1, <3>3, <3>4, <3>6 DEF Holder, Active, Awaiting, Interrupted
      <3>8. Lineage(a)' = Lineage(a)
        BY <1>13, <3>3 DEF MaybeRun
      <3>9. QED
        BY <3>3, <3>7, <3>8
    <2>2. QED
      BY <1>1, <2>1 DEF SInv, HoldersOK
  <1>15. HeirsOK'
    <2>1. ASSUME NEW y \in Ids, Heir(y)'
          PROVE  Heir(y) /\ Recorded(y) /\ runs'[y].pred = runs[y].pred
      <3>1. Recorded(y)
        BY <1>1, <1>9, <2>1 DEF Heir, Active, Born, Closed, SInv, SessionsOK
      <3>2. QED
        BY <1>1, <1>9, <2>1, <3>1 DEF Heir, Active
    <2>2. QED
      BY <1>1, <2>1 DEF SInv, HeirsOK
  <1>16. ContinuationsOK'
    <2>1. ASSUME NEW p \in Ids, runs'[p].snapshot = p
          PROVE  ~Starting(p)' /\ (frozen[p] < 1 => (Lineage(p) \cap continued)' = {})
      <3>1. Recorded(p)
        <4>1. p # Nobody /\ NoRun.snapshot = Nobody
          BY DEF Ids, Nobody, NoRun
        <4>2. QED
          BY <1>9, <2>1, <4>1
      <3>2. runs[p].snapshot = p /\ Lineage(p)' = Lineage(p)
        BY <1>9, <1>13, <2>1, <3>1 DEF MaybeRun
      <3>3. QED
        BY <1>1, <1>8, <3>2 DEF SInv, ContinuationsOK
    <2>2. ASSUME NEW y \in continued
          PROVE  Recorded(y)' /\ \E q \in MaybeRun : q = runs'[y].pred /\ (Lineage(q) \cap continued)' = {}
      <3>1. y \in Ids /\ Recorded(y) /\ RunOK(y) /\ Lineage(runs[y].pred) \cap continued = {}
        BY DEF SInv, ContinuationsOK, SuccessionTypes
      <3>2. PICK q \in MaybeRun : q = runs[y].pred
        BY <1>2, <3>1 DEF RunRecords
      <3>3. q # Nobody => Recorded(q)
        BY <3>1, <3>2 DEF RunOK
      <3>4. Lineage(q)' = Lineage(q) /\ runs'[y].pred = q /\ Recorded(y)'
        BY <1>9, <1>13, <3>1, <3>2, <3>3
      <3>5. QED
        BY <1>1, <3>1, <3>2, <3>4
    <2>3. QED
      BY <1>1, <2>1, <2>2 DEF ContinuationsOK
  <1>17. QED
    BY <1>7, <1>10, <1>11, <1>12, <1>14, <1>15, <1>16 DEF SInv

-----------------------------------------------------------------------------
(* Nothing has been started yet. *)
LEMMA SuccessionInitOK ==
  ASSUME SuccessionInit
  PROVE  SInv
PROOF
  <1>1. /\ runs = [r \in Ids |-> NoRun] /\ disk = runs /\ next = 1
        /\ busy = {} /\ frozen = [r \in Ids |-> 0] /\ continued = {}
        /\ working = {} /\ freezing = {}
        /\ calls = [c \in Starters |-> Idle]
        /\ boot = [stage |-> "up", todo |-> {}, resumed |-> {}]
        /\ launched = {}
    BY DEF SuccessionInit, Starters
  <1>2. NoRun \in RunRecords /\ NoRun.status = "None" /\ NoRun.pred = Nobody
        /\ NoRun.parent = Nobody /\ NoRun.snapshot = Nobody
    BY DEF NoRun, RunRecords, Statuses, Phases, MaybeRun
  <1>3. Idle \in CallRecords /\ Idle.run = Nobody /\ Idle.from = Nobody /\ Idle.step = "idle"
        /\ Idle.kind = "none"
    BY DEF Idle, CallRecords, Phases, MaybeRun
  <1>4. Pending = {} /\ Cardinality(Pending) = 0
    <2>1. Pending = {}
      BY <1>1 DEF Pending
    <2>2. QED
      BY <2>1, FS_EmptySet
  <1>5. SuccessionTypes
    BY <1>1, <1>2, <1>3, <1>4, SuccessionBounds DEF SuccessionTypes
  <1>6. \A r \in Ids : runs[r] = NoRun /\ disk[r] = NoRun /\ r # Nobody
    BY <1>1 DEF Ids, Nobody
  <1>7. ASSUME NEW r \in Ids PROVE RunOK(r)
    BY <1>2, <1>6 DEF RunOK, Born, Recorded
  <1>8. ASSUME NEW c \in Starters PROVE CallOK(c)
    BY <1>1, <1>3 DEF CallOK, Asking, Unready, Unrecorded
  <1>9. SessionsOK
    BY <1>1 DEF SessionsOK
  <1>10. HoldersOK
    BY <1>2, <1>6 DEF HoldersOK, Holder, Active, Closed
  <1>11. HeirsOK
    BY <1>2, <1>6 DEF HeirsOK, Heir
  <1>12. ContinuationsOK
    BY <1>1, <1>2, <1>6 DEF ContinuationsOK
  <1>13. QED
    BY <1>5, <1>7, <1>8, <1>9, <1>10, <1>11, <1>12 DEF SInv

(* Each step of a start keeps the invariant. *)
LEMMA StartKeeps ==
  ASSUME SInv, NEW c \in Starters, Start(c)
  PROVE  SInv'
PROOF
  <1>1. CASE validate_sandbox_context(c) \/ validate_project_lifecycle_context(c)
    BY <1>1, ChecksKeep
  <1>2. CASE Create(c)
    BY <1>2, CreateKeeps
  <1>3. CASE RecordPredecessor(c)
    BY <1>3, RecordPredecessorKeeps
  <1>4. CASE RecordRun(c)
    BY <1>4, RecordRunKeeps
  <1>5. CASE RecordContinuation(c)
    BY <1>5, RecordContinuationKeeps
  <1>6. CASE StepFails(c) \/ set_run_edit_context_error(c) \/ StartPauses(c)
    BY <1>6, FailuresKeep
  <1>7. CASE bind_run_to_sandbox(c)
    BY <1>7, BindKeeps
  <1>8. CASE Acquire(c)
    BY <1>8, AcquireKeeps
  <1>9. CASE WorkspaceReady(c)
    BY <1>9, WorkspaceReadyKeeps
  <1>10. QED
    BY <1>1, <1>2, <1>3, <1>4, <1>5, <1>6, <1>7, <1>8, <1>9 DEF Start

(* Each step of the project's runs keeps the invariant. *)
LEMMA SuccessionStep ==
  ASSUME SInv, [SuccessionNext]_successionVars
  PROVE  SInv'
PROOF
  <1>1. CASE \E c \in Api : StartInitial(c) \/ StartChild(c) \/ dispatch_replan_successor(c)
    BY <1>1, StartInitialKeeps, StartChildKeeps, ReplanKeeps
  <1>2. CASE dispatch_continuation_successor
    BY <1>2, ControllerKeeps
  <1>3. CASE \E c \in DOMAIN calls : Start(c)
    <2>1. DOMAIN calls = Starters
      BY DEF SInv, SuccessionTypes
    <2>2. QED
      BY <1>3, <2>1, StartKeeps
  <1>4. ASSUME NEW r \in Ids, FinalizePartial(r) PROVE SInv'
    <2>1. r \in working /\ StopEarly(r, runs[r].replan)
          /\ UNCHANGED <<next, frozen, continued, calls, boot, launched, unacquired>>
      BY <1>4 DEF FinalizePartial
    <2>2. runs[r].replan \in BOOLEAN
      BY DEF SInv, SuccessionTypes, RunRecords
    <2>3. QED
      BY <2>1, <2>2, StopEarlyKeeps
  <1>5. ASSUME NEW r \in Ids, mark_run_replan_required(r) PROVE SInv'
    BY <1>5, StopEarlyKeeps DEF mark_run_replan_required
  <1>6. ASSUME NEW r \in Ids,
               \/ create_run_continuation_snapshot(r) \/ record_progress_fingerprint(r)
               \/ SessionPauses(r) \/ EndOrCancel(r)
               \/ continue_run(r) \/ recover_run(r)
        PROVE  SInv'
    BY <1>6, SnapshotKeeps, FingerprintKeeps, SessionPausesKeeps, EndOrCancelKeeps,
       ContinueRunKeeps, RecoverKeeps
  <1>7. CASE Crash \/ runs_requiring_recovery \/ Serve
    BY <1>7, CrashKeeps, RecoveryBeginKeeps, ServeKeeps
  <1>8. CASE UNCHANGED successionVars
    <2>1. freezing' \subseteq Ids
          /\ UNCHANGED <<runs, disk, next, busy, frozen, continued, working, calls, boot,
                         launched, unacquired>>
      BY <1>8 DEF successionVars, stores, SInv, SuccessionTypes
    <2>2. QED
      BY <2>1, StandsStill
  <1>9. QED
    BY <1>1, <1>2, <1>3, <1>4, <1>5, <1>6, <1>7, <1>8 DEF SuccessionNext

(* The invariant of the succession of runs holds always: memory and log     *)
(* agree, starts know what they succeed, holders of a sandbox are related.  *)
THEOREM SuccessionInvariance == SuccessionSpec => []SInv
PROOF
  <1>1. SuccessionInit => SInv
    BY SuccessionInitOK
  <1>2. SInv /\ [SuccessionNext]_successionVars => SInv'
    BY SuccessionStep
  <1>3. QED
    BY <1>1, <1>2, PTL DEF SuccessionSpec

(* A run that uses its sandbox, and did not start without acquiring one,    *)
(* holds it.                                                               *)
LEMMA UsersHold ==
  ASSUME SInv, NEW a \in Ids, Uses(a), a \notin unacquired
  PROVE  Holder(a)
PROOF
  <1>1. DOMAIN calls = Starters
    BY DEF SInv, SuccessionTypes
  <1>2. CASE a \in working
    <2>1. \A c \in Starters : calls[c].run # a
      BY <1>1, <1>2, SessionOfRun DEF Starting
    <2>2. QED
      BY <1>2, <2>1 DEF Holder, Uses
  <1>3. CASE \E c \in Starters : calls[c].run = a /\ At(c, "prepare")
    <2>1. PICK c \in Starters : calls[c].run = a /\ calls[c].step = "prepare"
      BY <1>3 DEF At
    <2>2. NewRunOK(c, a) /\ Starting(a)
      BY <2>1, StartOfRun
    <2>3. \A d \in Starters : calls[d].run = a => calls[d].step = "prepare"
      BY <2>1, <2>2 DEF NewRunOK
    <2>4. QED
      BY <2>2, <2>3 DEF Holder, Uses
  <1>4. QED
    BY <1>1, <1>2, <1>3 DEF Uses

(* However starts, cancellations, continuations and restarts interleave, of *)
(* two runs that work in one sandbox one descends from the other, and the   *)
(* sandbox is marked Busy (acquire_sandbox_binding_for_run,                 *)
(* RunLifecycleService::start).                                            *)
THEOREM OneWorkerTheorem == SuccessionSpec => []OneWorker
PROOF
  <1>1. SInv => OneWorker
    BY UsersHold DEF OneWorker, SInv, HoldersOK
  <1>2. QED
    BY <1>1, SuccessionInvariance, PTL

(* Of two continuations in one line none is left. *)
LEMMA ContinuedOnceInLine ==
  ASSUME SInv, NEW r \in Ids, NEW x \in Lineage(r) \cap continued,
         NEW y \in Lineage(r) \cap continued
  PROVE  x = y
PROOF
  <1>1. runs \in [Ids -> RunRecords] /\ x \in Ids /\ y \in Ids /\ r \in MaybeRun
    BY DEF SInv, SuccessionTypes, MaybeRun
  <1>2. x \in Lineage(y) \/ y \in Lineage(x)
    BY <1>1, LineageFacts
  <1>3. /\ Lineage(x) = {x} \cup Lineage(runs[x].pred)
        /\ Lineage(y) = {y} \cup Lineage(runs[y].pred)
    BY <1>1, LineageFacts
  <1>4. Lineage(runs[x].pred) \cap continued = {} /\ Lineage(runs[y].pred) \cap continued = {}
    BY DEF SInv, ContinuationsOK
  <1>5. QED
    BY <1>2, <1>3, <1>4

(* The work of a run that stopped early is taken up by one session at most, *)
(* and no line of runs has two automatic continuations                     *)
(* (create_continuation_successor_run, create_replan_successor_run).        *)
THEOREM ContinuedOnceTheorem == SuccessionSpec => []ContinuedOnce
PROOF
  <1>1. ASSUME SInv PROVE ContinuedOnce
    <2>1. ASSUME NEW a \in launched, NEW b \in launched, runs[a].pred = runs[b].pred
          PROVE  a = b
      <3>1. a \in Ids /\ b \in Ids /\ Heir(a) /\ Heir(b)
        BY <1>1 DEF SInv, SuccessionTypes, SessionsOK, Heir
      <3>2. QED
        BY <1>1, <2>1, <3>1 DEF SInv, HeirsOK
    <2>2. ASSUME NEW r \in launched
          PROVE  Cardinality(Lineage(r) \cap continued \cap launched) <= 1
      <3>1. r \in Ids
        BY <1>1 DEF SInv, SuccessionTypes
      <3>2. PICK S : S = Lineage(r) \cap continued \cap launched
        OBVIOUS
      <3>3. \A x, y \in S : x = y
        BY <1>1, <3>1, <3>2, ContinuedOnceInLine
      <3>4. CASE S = {}
        BY <3>2, <3>4, FS_EmptySet
      <3>5. CASE S # {}
        <4>1. PICK x : x \in S
          BY <3>5
        <4>2. S = {x}
          BY <3>3, <4>1
        <4>3. Cardinality(S) = 1
          BY <4>2, FS_Singleton
        <4>4. QED
          BY <3>2, <4>3
      <3>6. QED
        BY <3>4, <3>5
    <2>3. QED
      BY <2>1, <2>2 DEF ContinuedOnce
  <1>2. SInv => ContinuedOnce
    BY <1>1
  <1>3. QED
    BY <1>2, SuccessionInvariance, PTL

==============================================================================
