----------------------------- MODULE EditorUndo -----------------------------
(***************************************************************************)
(* Undo across documents: the editor's stacks of undo groups               *)
(* (types/undo_manager, impls/undo_host), the documents whose histories    *)
(* they drive (core/document, UndoStore), and the operations that reach a  *)
(* document behind the groups' back: a background file load, a save, the   *)
(* closing of a view, and a workspace edit of the language server          *)
(* (lsp/workspace_edit), which edits several documents at once and opens   *)
(* the ones that are not open for the time of the edit.                    *)
(*                                                                         *)
(* Every operation holds the editor exclusively (&mut Editor) from its     *)
(* first to its last statement, its awaits included: one action each.      *)
(***************************************************************************)
EXTENDS UndoStore, Functions, FiniteSets

CONSTANTS
    Views,            \* the views (buffers) there can be
    DocOf,            \* the document of each view
    InitViews,        \* the views open at the start
    LoadingDocs,      \* documents whose file is still being read at the start
    WorkspaceDocs,    \* documents the language server edits
    ReadonlyDocs,     \* documents that get the read-only flag set and cleared
    Closable,         \* views the user may close
    Weights,          \* the sizes an edit may have
    MaxText,          \* bound: the new texts each document goes through
    MaxEdits,         \* bound: the new texts of all documents
    MaxGroups         \* bound: the undo groups a workspace edit may add to

ASSUME UndoAssumption == Weights \subseteq Nat

VARIABLES
    view,       \* each view: "unused", "open" or "closed" (an id is never reused)
    store,      \* the UndoStore of each document
    content,    \* the text of each document
    texts,      \* the last text identity given out, per document
    base,       \* the text last saved or loaded: the file, as the editor knows it
    readonly,   \* Document::readonly
    loading,    \* documents with a pending file load
    undoGroups, \* UndoManager::undo_stack
    redoGroups  \* UndoManager::redo_stack

vars == <<view, store, content, texts, base, readonly, loading, undoGroups, redoGroups>>
docVars == <<store, content, texts, base>>
groupVars == <<undoGroups, redoGroups>>

Docs == {DocOf[v] : v \in Views}
ViewsOf(d) == {v \in Views : DocOf[v] = d}
IsOpen(d) == "open" \in {view[v] : v \in ViewsOf(d)}
OpenDocs == {d \in Docs : IsOpen(d)}
\* A document no view of which was opened yet.
IsFresh(d) == \A v \in ViewsOf(d) : view[v] = "unused"

\* An EditorUndoGroup: the affected documents, and for each the text its views
\* showed when their snapshots (cursor, selection, scroll) were taken.
Group(docs, c) == [docs |-> docs, snap |-> [d \in Range(docs) |-> c[d]]]

Init ==
    /\ view = [v \in Views |-> IF v \in InitViews THEN "open" ELSE "unused"]
    /\ store = [d \in Docs |-> SetClean(NewStore)]
    /\ content = [d \in Docs |-> 0]
    /\ texts = [d \in Docs |-> 0]
    /\ base = [d \in Docs |-> 0]
    /\ readonly = [d \in Docs |-> FALSE]
    /\ loading = LoadingDocs
    /\ undoGroups = << >>
    /\ redoGroups = << >>

-----------------------------------------------------------------------------
\* Editing one document through the undo manager.

\* The bounds on new texts, for one more text of each document of a set.
Room(ds) ==
    /\ \A d \in ds : texts[d] < MaxText[d]
    /\ FoldFunction(+, Cardinality(ds), texts) <= MaxEdits

\* apply_commit of a transaction that changes the text.
Commit(st, d, policy, v, w) ==
    [st EXCEPT ![d] = RecordCommit(@, Tx(content[d], texts[d] + 1, w), policy, v)]

\* Editor::apply_edit: UndoManager::with_edit around Buffer::apply.  The redo
\* groups go with every applied edit, a group is pushed when the document made
\* a step of its own.  A blocked or identity edit changes nothing.
ApplyEdit(v, policy, w) ==
    LET d == DocOf[v]
    IN  /\ view[v] = "open"
        /\ ~readonly[d] /\ Room({d})
        /\ store' = Commit(store, d, policy, v, w)
        /\ texts' = [texts EXCEPT ![d] = @ + 1]
        /\ content' = [content EXCEPT ![d] = texts[d] + 1]
        /\ redoGroups' = << >>
        /\ undoGroups' = IF StepCreated(store[d], policy, v)
                         THEN Append(undoGroups, Group(<<d>>, content))
                         ELSE undoGroups
        /\ UNCHANGED <<view, base, readonly, loading>>

\* Leaving insert mode, a mouse click or a jump: the next edit starts a step.
ClearUndoGroup(d) ==
    /\ IsOpen(d)
    /\ store[d].owner # None
    /\ store' = [store EXCEPT ![d].owner = None]
    /\ UNCHANGED <<view, content, texts, base, readonly, loading, undoGroups, redoGroups>>

-----------------------------------------------------------------------------
\* Undo and redo.

\* The documents that have a buffer and a step.
Undoable == {d \in OpenDocs : store[d].undo # << >>}
Redoable == {d \in OpenDocs : store[d].redo # << >>}

\* EditorUndoHost::undo_documents / redo_documents: one document after the
\* other, up to and with the first that has no step, or up to the first that has
\* no buffer.  A group names a document once.
Tried(docs, able) ==
    {d \in OpenDocs : \E i \in DOMAIN docs : docs[i] = d /\ \A j \in 1 .. i - 1 : docs[j] \in able}
UndoDocuments(docs) == Tried(docs, Undoable)
RedoDocuments(docs) == Tried(docs, Redoable)

\* UndoHost::guard_readonly: the focused view is open and may be edited.
GuardReadonly == {f \in Views : view[f] = "open" /\ ~readonly[DocOf[f]]} # {}

\* UndoManager::undo.  The group moves to the redo stack, with snapshots of the
\* views as they were; it goes back on top of the undo stack when some document
\* could not be undone, and the documents before that one stay undone.
Undo ==
    /\ GuardReadonly
    /\ undoGroups # << >>
    /\ LET group == Last(undoGroups)
           tried == UndoDocuments(group.docs)
       IN  /\ store' = [d \in Docs |-> IF d \in tried THEN UndoStep(store[d]) ELSE store[d]]
           /\ content' = [d \in Docs |-> IF d \in tried THEN UndoText(store[d], content[d])
                                         ELSE content[d]]
           /\ IF Range(group.docs) \subseteq Undoable
              THEN /\ undoGroups' = Front(undoGroups)
                   /\ redoGroups' = Append(redoGroups, Group(group.docs, content))
              ELSE UNCHANGED groupVars
    /\ UNCHANGED <<view, texts, base, readonly, loading>>

Redo ==
    /\ GuardReadonly
    /\ redoGroups # << >>
    /\ LET group == Last(redoGroups)
           tried == RedoDocuments(group.docs)
       IN  /\ store' = [d \in Docs |-> IF d \in tried THEN RedoStep(store[d]) ELSE store[d]]
           /\ content' = [d \in Docs |-> IF d \in tried THEN RedoText(store[d], content[d])
                                         ELSE content[d]]
           /\ IF Range(group.docs) \subseteq Redoable
              THEN /\ redoGroups' = Front(redoGroups)
                   /\ undoGroups' = Append(undoGroups, Group(group.docs, content))
              ELSE UNCHANGED groupVars
    /\ UNCHANGED <<view, texts, base, readonly, loading>>

-----------------------------------------------------------------------------
\* Files and views.

\* Editor::save: the write succeeded and the document is marked clean.  A
\* failed or refused write changes nothing.
Save(d) ==
    /\ IsOpen(d)
    /\ ~readonly[d]
    /\ base' = [base EXCEPT ![d] = content[d]]
    /\ store' = [store EXCEPT ![d] = SetClean(@)]
    /\ UNCHANGED <<view, content, texts, readonly, loading, undoGroups, redoGroups>>

\* Document::reset_content: a new text and an empty history, marked clean.
ResetContent(d) ==
    /\ texts' = [texts EXCEPT ![d] = @ + 1]
    /\ content' = [content EXCEPT ![d] = texts[d] + 1]
    /\ base' = [base EXCEPT ![d] = texts[d] + 1]
    /\ store' = [store EXCEPT ![d] = SetClean(NewStore)]

\* Editor::apply_loaded_file: the text read in the background replaces the
\* document's unless the document counts as modified.  The file may turn out
\* to be read-only.
ApplyLoadedFile(d, ro) ==
    /\ d \in loading
    /\ Room({d})
    /\ loading' = loading \ {d}
    /\ IF IsOpen(d) /\ ~IsModified(store[d])
       THEN /\ ResetContent(d)
            /\ readonly' = [readonly EXCEPT ![d] = @ \/ ro]
       ELSE UNCHANGED <<readonly, docVars>>
    /\ UNCHANGED <<view, undoGroups, redoGroups>>

\* Editor::notify_load_error.
LoadFails(d) ==
    /\ d \in loading
    /\ loading' = loading \ {d}
    /\ UNCHANGED <<view, readonly, docVars, groupVars>>

\* Buffer::set_readonly.
SetReadonly(d) ==
    /\ d \in ReadonlyDocs
    /\ IsOpen(d)
    /\ readonly' = [readonly EXCEPT ![d] = ~@]
    /\ UNCHANGED <<view, loading, docVars, groupVars>>

\* A further view of an open document, or the first view of a file.
OpenView(v) ==
    /\ view[v] = "unused"
    /\ IsOpen(DocOf[v]) \/ IsFresh(DocOf[v])
    /\ view' = [view EXCEPT ![v] = "open"]
    /\ UNCHANGED <<readonly, loading, docVars, groupVars>>

\* Editor::finalize_buffer_removal.  A document goes with its last view; the
\* undo groups that name it are not told.
Drop(d) ==
    /\ store' = [store EXCEPT ![d] = SetClean(NewStore)]
    /\ content' = [content EXCEPT ![d] = 0]
    /\ base' = [base EXCEPT ![d] = 0]
    /\ readonly' = [readonly EXCEPT ![d] = FALSE]
CloseView(v) ==
    /\ v \in Closable
    /\ view[v] = "open"
    /\ view' = [view EXCEPT ![v] = "closed"]
    /\ IF \A u \in ViewsOf(DocOf[v]) \ {v} : view[u] # "open"
       THEN Drop(DocOf[v])
       ELSE UNCHANGED <<store, content, base, readonly>>
    /\ UNCHANGED <<texts, loading, undoGroups, redoGroups>>

-----------------------------------------------------------------------------
\* Workspace edits.

\* The orders in which a plan may list its documents (the plan is a HashMap).
Plans == {p \in UNION {[1 .. n -> WorkspaceDocs] : n \in 1 .. Cardinality(WorkspaceDocs)} :
             IsInjective(p)}

\* Editor::apply_workspace_edit.  The documents that are not open are opened
\* and a group that replaces the redo stack is pushed, for all of them at once
\* (plan path) or for each as its turn comes (operations path), and they are
\* edited in order up to the first whose edit is not applied: it is read-only,
\* or its edit is an identity.  The documents opened for the edit are closed
\* again, except when all were edited and one could not be written to disk.
ApplyWorkspaceEdit(plan, applied, single, w, saved) ==
    LET n == Len(plan)
        reached == IF single \/ applied = n THEN n ELSE applied + 1
        temps == {d \in {plan[i] : i \in 1 .. reached} : IsFresh(d)}
        kept == applied = n /\ ~saved
        edited == {plan[i] : i \in 1 .. applied}
        left == IF kept THEN edited ELSE edited \ temps
        groups == IF single THEN <<Group(plan, content)>>
                  ELSE [i \in 1 .. reached |-> Group(<<plan[i]>>, content)]
    IN  /\ Len(undoGroups) < MaxGroups
        /\ \A d \in Range(plan) : IsOpen(d) \/ IsFresh(d)
        /\ \A d \in edited : ~readonly[d]
        /\ Room(edited)
        /\ redoGroups' = << >>
        /\ undoGroups' = undoGroups \o groups
        /\ store' = [d \in Docs |-> IF d \in left
                                    THEN Commit(store, d, "Record", None, w)[d] ELSE store[d]]
        /\ texts' = [d \in Docs |-> IF d \in edited THEN texts[d] + 1 ELSE texts[d]]
        /\ content' = [d \in Docs |-> IF d \in left THEN texts[d] + 1 ELSE content[d]]
        /\ view' = [v \in Views |-> IF DocOf[v] \notin temps THEN view[v]
                                    ELSE IF kept THEN "open" ELSE "closed"]
        /\ UNCHANGED <<base, readonly, loading>>

WorkspaceEdit ==
    \E plan \in Plans, w \in Weights :
        \E applied \in 0 .. Len(plan), single \in {TRUE, Len(plan) = 1} :
            \E saved \in {TRUE, applied < Len(plan)} :
                ApplyWorkspaceEdit(plan, applied, single, w, saved)

Next ==
    \/ \E v \in Views, w \in Weights : \/ ApplyEdit(v, "Record", w)
                                       \/ ApplyEdit(v, "MergeWithCurrentGroup", w)
    \/ Undo \/ Redo
    \/ \E v \in Views : OpenView(v) \/ CloseView(v)
    \/ \E d \in Docs : \/ ClearUndoGroup(d) \/ Save(d) \/ SetReadonly(d) \/ LoadFails(d)
                       \/ \E ro \in BOOLEAN : ApplyLoadedFile(d, ro)
    \/ WorkspaceEdit

Spec == Init /\ [][Next]_vars

-----------------------------------------------------------------------------
\* The history of a document is one chain of texts through the text it has:
\* every transaction that undo or redo will ever apply meets the text it was
\* made on, whatever merged, was evicted, or was undone before (undo_store
\* undo, redo, record_transaction).
HistoryIsAChain ==
    \A d \in Docs :
        LET undo == store[d].undo
            redo == store[d].redo
        IN  /\ \A step \in Range(undo) \cup Range(redo) :
                   step # << >> /\ \A i \in 1 .. Len(step) - 1 : step[i].to = step[i + 1].from
            /\ \A i \in 1 .. Len(undo) - 1 : Last(undo[i]).to = undo[i + 1][1].from
            /\ undo # << >> => Last(Last(undo)).to = content[d]
            /\ redo # << >> => Last(redo)[1].from = content[d]
            /\ \A i \in 1 .. Len(redo) - 1 : Last(redo[i + 1]).to = redo[i][1].from

\* The modified flag tells the truth in both directions: a document counts as
\* clean exactly when it shows the text last saved or loaded, after any series
\* of undo, redo, eviction and branching (clean_pos against head_pos).
ModifiedIsExact ==
    \A d \in Docs : IsModified(store[d]) <=> content[d] # base[d]

\* What assert_invariants checks in debug builds: the cached counters are exact,
\* and the limits on steps and bytes hold, with undo kept in favour of redo.
StoreWithinLimits ==
    \A d \in Docs :
        LET s == store[d]
        IN  /\ s.undoBytes = StackBytes(s.undo) /\ s.redoBytes = StackBytes(s.redo)
            /\ s.undoTx = StackTxs(s.undo) /\ s.redoTx = StackTxs(s.redo)
            /\ s.undoBytes + s.redoBytes <= MAX_UNDO_BYTES
            /\ Len(s.undo) <= MAX_UNDO /\ Len(s.redo) <= MAX_UNDO
            /\ s.head >= s.undoTx

\* The snapshots that the first k groups of a stack hold for a document, for
\* every k, and those of the whole stack.
SnapsUpTo(groups, d) ==
    LET snaps[k \in 0 .. Len(groups)] ==
            IF k = 0 THEN << >>
            ELSE IF d \in Range(groups[k].docs) THEN Append(snaps[k - 1], groups[k].snap[d])
            ELSE snaps[k - 1]
    IN  snaps
Snaps(groups, d) == SnapsUpTo(groups, d)[Len(groups)]

\* The two layers of undo stay in step for a document that is never part of a
\* workspace edit: the steps of its history are those of the newest groups that
\* name it, and the views restored with a group are those of the text the
\* document then shows.  Redo groups may be dropped while redo steps stay, or
\* the reverse, but the newest ones match (undo_manager finalize_edit, undo,
\* redo).
GroupsMatchSteps ==
    \A d \in OpenDocs \ WorkspaceDocs :
        LET undo == Firsts(store[d].undo)
            redo == Lasts(store[d].redo)
        IN  /\ Len(undo) <= Len(Snaps(undoGroups, d)) /\ Agree(undo, Snaps(undoGroups, d))
            /\ Agree(redo, Snaps(redoGroups, d))
=============================================================================
