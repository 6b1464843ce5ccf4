------------------------------ MODULE Workspace -----------------------------
(***************************************************************************)
(* The routing workspace (workspace.rs): the configuration file, the       *)
(* revision in memory, the editors that load and save it, the migration of *)
(* a version 3 file at startup and its backup.  Between any two steps an   *)
(* operator may change the file by hand or the process may die.            *)
(*                                                                         *)
(* A file holds a document in one of three forms: as this program renders  *)
(* it, as somebody edited it, or as a version 3 file.  Only the first can  *)
(* be recognised by the hash of a rendering.                               *)
(*                                                                         *)
(* What a save refuses a document for (structure, a failed upstream check, *)
(* a busy account) is left out: it may be refused.  Leases of the checks   *)
(* are in Admission, breakers of a revision in CircuitRevisions.           *)
(*                                                                         *)
(* A definition whose name starts with M_ is a mutant of the one after it. *)
(***************************************************************************)
EXTENDS Naturals

CONSTANTS
  Documents,
  Editors,
  FirstFiles,    \* what the configuration file may be when all this begins
  HandForms,     \* the forms an operator writes
  MaxRevisions,  \* bound on the revisions of a behaviour
  MaxEdits,      \* bound on edits by hand
  MaxCrashes,    \* bound on crashes
  Partial,       \* a backup file that was created and not filled
  Nothing

Forms == {"rendered", "edited", "legacy"}
Texts == [doc : Documents, form : Forms]

ASSUME WorkspaceAssumption ==
  /\ {Nothing, Partial} \cap (Documents \cup Editors \cup Texts) = {}
  /\ Nothing # Partial /\ Nothing \notin [id : Nat, doc : Documents]
  /\ FirstFiles \subseteq Texts /\ HandForms \subseteq Forms
  /\ MaxRevisions \in Nat /\ MaxEdits \in Nat /\ MaxCrashes \in Nat

VARIABLES
  file,      \* the configuration file
  backup,    \* the .toml.v3.bak: Nothing, Partial, or a text
  server,    \* the process: "down", a stage of open, or "up"
  text,      \* what open has read
  active,    \* Workspace.active: revision id and document
  known,     \* the text whose hash the active revision holds
  issued,    \* revision ids given out
  saver,     \* who holds Workspace.saving
  pc,        \* where each editor stands
  base,      \* the revision each has loaded
  edit,      \* the document each submits
  edits, crashes,
  outside,   \* history: edited by hand since the program last read or wrote it:
             \* "no"; "before" it looks again; in the "window" after its look
  replaced   \* history: the version 3 text the migration has overwritten

disk     == <<file, backup>>
revision == <<active, known, issued>>
editing  == <<saver, pc, base, edit>>
bounds   == <<edits, crashes>>
workspaceVars ==
  <<disk, server, text, revision, editing, bounds, outside, replaced>>

ServerStages == {"down", "migrating", "backing", "backed", "renaming", "up"}

\* "queued": waits for the saving lock.  "checking": validates, builds and
\* tries out the document.  "writing": under the write lock, the file is the
\* one it knows.  "written": renamed, not yet swapped.
EditorStages == {"idle", "loaded", "queued", "checking", "writing", "written"}

\* The stages in which an editor holds the saving lock.
Saving == {"checking", "writing", "written"}

Revisions == [id : Nat, doc : Documents]
Rendered(d) == [doc |-> d, form |-> "rendered"]

TypeOK ==
  /\ file \in Texts
  /\ backup \in Texts \cup {Nothing, Partial}
  /\ server \in ServerStages /\ (server = "up" <=> active # Nothing)
  /\ text \in Texts \cup {Nothing}
  /\ active \in Revisions \cup {Nothing} /\ known \in Texts \cup {Nothing}
  /\ issued \in Nat
  /\ saver \in Editors \cup {Nothing}
  /\ pc \in [Editors -> EditorStages]
  /\ \A e \in Editors : saver = e <=> pc[e] \in Saving
  /\ base \in [Editors -> Nat]
  /\ edit \in [Editors -> Documents \cup {Nothing}]
  /\ edits \in Nat /\ crashes \in Nat
  /\ outside \in {"no", "before", "window"}
  /\ replaced \in Texts \cup {Nothing}

WorkspaceInit ==
  /\ file \in FirstFiles
  /\ backup = Nothing
  /\ server = "down" /\ text = Nothing
  /\ active = Nothing /\ known = Nothing /\ issued = 0
  /\ saver = Nothing
  /\ pc = [e \in Editors |-> "idle"]
  /\ base = [e \in Editors |-> 0]
  /\ edit = [e \in Editors |-> Nothing]
  /\ edits = 0 /\ crashes = 0
  /\ outside = "no"
  /\ replaced = Nothing

-----------------------------------------------------------------------------
(* Workspace::open.                                                        *)

\* Serve document d, holding the hash of text t.
Activate(d, t) ==
  /\ active' = [id |-> issued + 1, doc |-> d]
  /\ known' = t
  /\ issued' = issued + 1

Serve(t) ==
  /\ server' = "up"
  /\ Activate(text.doc, t)

Open ==
  /\ server = "down"
  /\ text' = file
  /\ outside' = "no"
  /\ \/ file.form = "legacy"
        /\ server' = "migrating" /\ UNCHANGED revision
     \/ file.form # "legacy"
        /\ server' = "up" /\ Activate(file.doc, file)
  /\ UNCHANGED <<disk, editing, bounds, replaced>>

\* migrate_file, create_new: a backup that exists is left alone.
CreateBackup ==
  /\ server = "migrating"
  /\ IF backup = Nothing THEN backup' = Partial /\ server' = "backing"
     ELSE server' = "backed" /\ UNCHANGED backup
  /\ UNCHANGED <<file, text, revision, editing, bounds, outside, replaced>>

\* write_all, sync_all.
WriteBackup ==
  /\ server = "backing"
  /\ backup' = text /\ server' = "backed"
  /\ UNCHANGED <<file, text, revision, editing, bounds, outside, replaced>>

\* A write is over: what was edited in its window is now an edit like others.
WindowShut == outside' = IF outside = "window" THEN "before" ELSE outside

\* The file still is what was read.
M_ComparesNothing ==
  /\ server = "backed"
  /\ server' = "renaming"
  /\ UNCHANGED <<disk, text, revision, editing, bounds, outside, replaced>>

CompareOriginal ==
  /\ server = "backed"
  /\ file = text
  /\ server' = "renaming" /\ outside' = "no"
  /\ UNCHANGED <<disk, text, revision, editing, bounds, replaced>>

\* persist: the rendering takes its place.
Migrate ==
  /\ server = "renaming"
  /\ file' = Rendered(text.doc)
  /\ replaced' = text /\ outside' = "no"
  /\ Serve(file')
  /\ UNCHANGED <<backup, text, editing, bounds>>

\* The file has changed, or any of these steps fails: the migrated document
\* is served from memory.
MigrateFails ==
  /\ server \in {"migrating", "backing", "backed", "renaming"}
  /\ Serve(text)
  /\ WindowShut
  /\ UNCHANGED <<disk, text, editing, bounds, replaced>>

-----------------------------------------------------------------------------
(* Editors: GET and PUT /api/routing.                                      *)

Moves(e, stage) == pc' = [pc EXCEPT ![e] = stage]

Writing == \E e \in Editors : pc[e] = "writing"

\* Readers wait while a save publishes.
Publishing == \E e \in Editors : pc[e] \in {"writing", "written"}

Load(e) ==
  /\ server = "up" /\ pc[e] \in {"idle", "loaded"} /\ ~Publishing
  /\ base' = [base EXCEPT ![e] = active.id]
  /\ Moves(e, "loaded")
  /\ UNCHANGED <<disk, server, text, revision, saver, edit, bounds, outside, replaced>>

Submit(e) ==
  /\ server = "up" /\ pc[e] = "loaded"
  /\ \E d \in Documents : edit' = [edit EXCEPT ![e] = d]
  /\ Moves(e, "queued")
  /\ UNCHANGED <<disk, server, text, revision, saver, base, bounds, outside, replaced>>

\* The answer, whatever it is; the saving lock is released if it is held.
Answered(e) ==
  /\ Moves(e, "idle")
  /\ edit' = [edit EXCEPT ![e] = Nothing]
  /\ saver' = IF saver = e THEN Nothing ELSE saver

\* Under the saving lock, the editor's revision must be the active one.
M_LocksUnchecked(e) ==
  /\ pc[e] = "queued" /\ saver = Nothing
  /\ saver' = e /\ Moves(e, "checking") /\ UNCHANGED edit
  /\ UNCHANGED <<disk, server, text, revision, base, bounds, outside, replaced>>

Lock(e) ==
  /\ pc[e] = "queued" /\ saver = Nothing
  /\ IF base[e] = active.id
     THEN saver' = e /\ Moves(e, "checking") /\ UNCHANGED edit
     ELSE Answered(e)
  /\ UNCHANGED <<disk, server, text, revision, base, bounds, outside, replaced>>

\* 409 or 422: not a document to be saved, or not now.
Refuse(e) ==
  /\ pc[e] = "checking"
  /\ Answered(e)
  /\ UNCHANGED <<disk, server, text, revision, base, bounds, outside, replaced>>

\* The write lock is taken and the file read again.
Compare(e) ==
  /\ pc[e] = "checking"
  /\ IF file = known
     THEN Moves(e, "writing") /\ outside' = "no" /\ UNCHANGED <<saver, edit>>
     ELSE Answered(e) /\ UNCHANGED outside
  /\ UNCHANGED <<disk, server, text, revision, base, bounds, replaced>>

\* persist: a temporary file is written, synced and renamed.
Rename(e) ==
  /\ pc[e] = "writing"
  /\ file' = Rendered(edit[e])
  /\ outside' = "no"
  /\ Moves(e, "written")
  /\ UNCHANGED <<backup, server, text, revision, saver, base, edit, bounds, replaced>>

\* 503: nothing has been renamed.
M_SwapsAnyway(e) ==
  /\ pc[e] = "writing"
  /\ Activate(edit[e], Rendered(edit[e]))
  /\ Answered(e)
  /\ WindowShut
  /\ UNCHANGED <<disk, server, text, base, bounds, replaced>>

RenameFails(e) ==
  /\ pc[e] = "writing"
  /\ Answered(e)
  /\ WindowShut
  /\ UNCHANGED <<disk, server, text, revision, base, bounds, replaced>>

\* The new revision becomes the active one and the editor is told.
Swap(e) ==
  /\ pc[e] = "written"
  /\ Activate(edit[e], Rendered(edit[e]))
  /\ Answered(e)
  /\ UNCHANGED <<disk, server, text, base, bounds, outside, replaced>>

\* The editor goes away; only an await lets the transaction go with it.
M_LeaksLock(e) ==
  /\ pc[e] \in {"loaded", "queued", "checking"}
  /\ Moves(e, "idle")
  /\ edit' = [edit EXCEPT ![e] = Nothing]
  /\ UNCHANGED <<disk, server, text, revision, saver, base, bounds, outside, replaced>>

Leave(e) ==
  /\ pc[e] \in {"loaded", "queued", "checking"}
  /\ Answered(e)
  /\ UNCHANGED <<disk, server, text, revision, base, bounds, outside, replaced>>

-----------------------------------------------------------------------------
(* The operator and the machine.                                           *)

EditByHand ==
  /\ edits < MaxEdits
  /\ \E d \in Documents, form \in HandForms : file' = [doc |-> d, form |-> form]
  /\ edits' = edits + 1
  /\ outside' = IF server = "renaming" \/ Writing THEN "window" ELSE "before"
  /\ UNCHANGED <<backup, server, text, revision, editing, crashes, replaced>>

\* An editor keeps what it has loaded and gets no answer to what it has sent.
Crash ==
  /\ server # "down" /\ crashes < MaxCrashes
  /\ server' = "down" /\ text' = Nothing
  /\ active' = Nothing /\ known' = Nothing
  /\ saver' = Nothing
  /\ pc' = [e \in Editors |-> IF pc[e] = "loaded" THEN "loaded" ELSE "idle"]
  /\ edit' = [e \in Editors |-> Nothing]
  /\ crashes' = crashes + 1
  /\ UNCHANGED <<disk, issued, base, edits, outside, replaced>>

Opening == Open \/ CreateBackup \/ WriteBackup \/ CompareOriginal \/ Migrate \/ MigrateFails

Publish(e) == Compare(e) \/ Rename(e) \/ RenameFails(e) \/ Swap(e)

WorkspaceNext ==
  \/ Opening
  \/ \E e \in Editors :
       \/ Load(e)
       \/ issued < MaxRevisions /\ Submit(e)
       \/ Lock(e) \/ Refuse(e) \/ Publish(e) \/ Leave(e)
  \/ EditByHand \/ Crash

WorkspaceSpec == WorkspaceInit /\ [][WorkspaceNext]_workspaceVars

\* The runtime runs ready tasks, the saving lock is handed on in the order it
\* was asked for, and the checks of a save end: each has a timeout.
Fairness ==
  /\ WF_workspaceVars(Opening)
  /\ \A e \in Editors :
       SF_workspaceVars(Lock(e)) /\ WF_workspaceVars(Refuse(e) \/ Publish(e))

FairSpec == WorkspaceSpec /\ Fairness

-----------------------------------------------------------------------------
(* Properties.                                                             *)

\* "Concurrent writers provide their base revision": a save replaces the
\* revision its editor was looking at, never one that was published after.
NoLostUpdate ==
  [][ \A e \in Editors :
        pc[e] = "written" /\ active' # active /\ active' # Nothing =>
          base[e] = active.id ]_workspaceVars

\* "File-write failures leave the current snapshot active", and a save that
\* was answered is on disk: unless somebody else has edited the file, a crash
\* now would come back with the document that is being served, or with the
\* one save that is about to be.
RestartServesTheSame ==
  server = "up" /\ outside = "no" =>
    \/ file = known /\ file.doc = active.doc
    \/ \E e \in Editors : pc[e] = "written" /\ file = Rendered(edit[e])

\* Neither a save nor the migration overwrites an edit by hand, wherever it
\* fell, but for the window between their last look at the file and the rename.
HandEditsSpared ==
  [][ file' # file /\ edits' = edits => outside # "before" ]_workspaceVars

\* "A private original-file backup supports operational downgrade": once the
\* migration has replaced a version 3 file, the backup is that file.
BackupIsOriginal == replaced # Nothing => backup = replaced

\* Every submitted save is answered, however many others are refused, fail
\* or are abandoned at any await.
EverySaveAnswered == \A e \in Editors : pc[e] = "queued" ~> pc[e] = "idle"

=============================================================================
