-------------------------- MODULE EditorUndoProofs --------------------------
(***************************************************************************)
(* The undo histories of the documents and the editor's groups over them,  *)
(* for any documents, views, limits and sizes of edits, and any number of  *)
(* operations.                                                             *)
(***************************************************************************)
EXTENDS EditorUndo, UndoStoreProofs

(* Time limits; SMT has further tries. *)
USE SMTT(20), ZenonT(20), SMTT(30), SMTT(40)

-----------------------------------------------------------------------------
(* Every document of the editor.                                           *)

(* The inductive invariant: every document's history is good for the text  *)
(* it shows and the text last saved or loaded.                             *)
UndoInv ==
  /\ DOMAIN store = Docs /\ DOMAIN content = Docs /\ DOMAIN texts = Docs /\ DOMAIN base = Docs
  /\ \A d \in Docs : DocOk(store[d], content[d], texts[d], base[d])

(* A step that touches one document.                                       *)
LEMMA OneDoc ==
  ASSUME UndoInv, NEW d \in Docs,
         DOMAIN store' = Docs, DOMAIN content' = Docs, DOMAIN texts' = Docs, DOMAIN base' = Docs,
         \A e \in Docs : e # d => /\ store'[e] = store[e] /\ content'[e] = content[e]
                                  /\ texts'[e] = texts[e] /\ base'[e] = base[e],
         DocOk(store'[d], content'[d], texts'[d], base'[d])
  PROVE  UndoInv'
<1>1. \A e \in Docs : DocOk(store'[e], content'[e], texts'[e], base'[e])
  <2> SUFFICES ASSUME NEW e \in Docs PROVE DocOk(store'[e], content'[e], texts'[e], base'[e])
    OBVIOUS
  <2>1. CASE e = d
    BY <2>1, ZenonT(20)
  <2>2. CASE e # d
    <3>1. DocOk(store[e], content[e], texts[e], base[e])  BY DEF UndoInv
    <3>2. store'[e] = store[e] /\ content'[e] = content[e] /\ texts'[e] = texts[e] /\ base'[e] = base[e]
      BY <2>2
    <3>. QED  BY <3>1, <3>2, ZenonT(20)
  <2>. QED  BY <2>1, <2>2
<1>2. Docs' = Docs  BY DEF Docs
<1>. QED  BY <1>1, <1>2 DEF UndoInv

LEMMA InitOk ==
  ASSUME Init
  PROVE  UndoInv
<1>1. DocOk(SetClean(NewStore), 0, 0, 0)  BY NewOk
<1>2. /\ DOMAIN store = Docs /\ DOMAIN content = Docs /\ DOMAIN texts = Docs /\ DOMAIN base = Docs
      /\ \A d \in Docs : store[d] = SetClean(NewStore) /\ content[d] = 0 /\ texts[d] = 0 /\ base[d] = 0
  BY DEF Init
<1>. QED  BY <1>1, <1>2 DEF UndoInv

LEMMA ApplyEditOk ==
  ASSUME UndoInv, NEW v \in Views, NEW policy, NEW w \in Weights, ApplyEdit(v, policy, w)
  PROVE  UndoInv'
<1> DEFINE d == DocOf[v]
<1> DEFINE s == RecordCommit(store[d], Tx(content[d], texts[d] + 1, w), policy, v)
<1>1. d \in Docs  BY DEF Docs
<1>2. store' = [store EXCEPT ![d] = s]  BY DEF ApplyEdit, Commit
<1>3. /\ texts' = [texts EXCEPT ![d] = texts[d] + 1] /\ content' = [content EXCEPT ![d] = texts[d] + 1]
      /\ base' = base
  BY DEF ApplyEdit
<1>4. DocOk(store[d], content[d], texts[d], base[d])  BY <1>1 DEF UndoInv
<1>5. w \in Nat  BY UndoAssumption
<1> DEFINE text == content[d]
<1> DEFINE top == texts[d]
<1> DEFINE old == store[d]
<1> DEFINE file == base[d]
<1>6. DocOk(s, top + 1, top + 1, file)
  <2>1. DocOk(old, text, top, file) /\ s = RecordCommit(old, Tx(text, top + 1, w), policy, v)  BY <1>4
  <2> HIDE DEF s, text, top, old, file, d
  <2>2. DocOk(RecordCommit(old, Tx(text, top + 1, w), policy, v), top + 1, top + 1, file)
    BY <1>5, <2>1, CommitOk
  <2>. QED  BY <2>1, <2>2
<1> HIDE DEF s, d
<1>7. DOMAIN store = Docs /\ DOMAIN content = Docs /\ DOMAIN texts = Docs /\ DOMAIN base = Docs  BY DEF UndoInv
<1>8. store'[d] = s /\ content'[d] = top + 1 /\ texts'[d] = top + 1 /\ base'[d] = file
  BY <1>1, <1>2, <1>3, <1>7
<1>9. DocOk(store'[d], content'[d], texts'[d], base'[d])  BY <1>6, <1>8
<1>. QED  BY <1>1, <1>2, <1>3, <1>7, <1>9, OneDoc

LEMMA ClearUndoGroupOk ==
  ASSUME UndoInv, NEW d \in Docs, ClearUndoGroup(d)
  PROVE  UndoInv'
<1> DEFINE old == store[d]
<1> DEFINE s == [old EXCEPT !.owner = None]
<1>1. store' = [store EXCEPT ![d] = s] /\ content' = content /\ texts' = texts /\ base' = base
  BY DEF ClearUndoGroup
<1>2. DocOk(old, content[d], texts[d], base[d])  BY DEF UndoInv
<1>3. DOMAIN old = StoreFields  BY <1>2, DocIs
<1>4. SameStacks(old, s) /\ s.clean = old.clean
  <2> HIDE DEF old
  <2>. QED  BY <1>3 DEF SameStacks, StoreFields
<1> HIDE DEF s
<1>5. DocOk(s, content[d], texts[d], base[d])
  <2> HIDE DEF old
  <2>. QED  BY <1>2, <1>4, OwnerOk
<1>6. DOMAIN store = Docs /\ DOMAIN content = Docs /\ DOMAIN texts = Docs /\ DOMAIN base = Docs  BY DEF UndoInv
<1>7. store'[d] = s  BY <1>1, <1>6
<1>8. DocOk(store'[d], content'[d], texts'[d], base'[d])  BY <1>1, <1>5, <1>7
<1>. QED  BY <1>1, <1>6, <1>8, OneDoc

LEMMA SaveOk ==
  ASSUME UndoInv, NEW d \in Docs, Save(d)
  PROVE  UndoInv'
<1> DEFINE old == store[d]
<1> DEFINE s == SetClean(old)
<1>1. store' = [store EXCEPT ![d] = s] /\ content' = content /\ texts' = texts /\ base' = [base EXCEPT ![d] = content[d]]
  BY DEF Save
<1>2. DocOk(old, content[d], texts[d], base[d])  BY DEF UndoInv
<1>3. DocOk(s, content[d], texts[d], content[d])
  <2> HIDE DEF old
  <2>. QED  BY <1>2, SetCleanOk
<1> HIDE DEF s
<1>4. DOMAIN store = Docs /\ DOMAIN content = Docs /\ DOMAIN texts = Docs /\ DOMAIN base = Docs  BY DEF UndoInv
<1>5. store'[d] = s /\ base'[d] = content[d]  BY <1>1, <1>4
<1>6. DocOk(store'[d], content'[d], texts'[d], base'[d])  BY <1>1, <1>3, <1>5
<1>. QED  BY <1>1, <1>4, <1>6, OneDoc

(* A document whose history starts anew.                                   *)
LEMMA RenewOk ==
  ASSUME UndoInv, NEW d \in Docs, NEW text \in Nat, NEW top \in Nat, text <= top,
         store' = [store EXCEPT ![d] = SetClean(NewStore)], content' = [content EXCEPT ![d] = text],
         base' = [base EXCEPT ![d] = text], texts' = [texts EXCEPT ![d] = top]
  PROVE  UndoInv'
<1>1. DOMAIN store = Docs /\ DOMAIN content = Docs /\ DOMAIN texts = Docs /\ DOMAIN base = Docs  BY DEF UndoInv
<1>2. store'[d] = SetClean(NewStore) /\ content'[d] = text /\ base'[d] = text /\ texts'[d] = top  BY <1>1
<1>3. DocOk(SetClean(NewStore), text, top, text)
  <2>1. text \in 0..top  OBVIOUS
  <2>. QED  BY <2>1, NewOk
<1>4. DocOk(store'[d], content'[d], texts'[d], base'[d])  BY <1>2, <1>3
<1>. QED  BY <1>1, <1>4, OneDoc

LEMMA ApplyLoadedFileOk ==
  ASSUME UndoInv, NEW d \in Docs, NEW ro, ApplyLoadedFile(d, ro)
  PROVE  UndoInv'
<1>1. CASE UNCHANGED docVars
  <2>1. store' = store /\ content' = content /\ texts' = texts /\ base' = base  BY <1>1 DEF docVars
  <2>2. DocOk(store[d], content[d], texts[d], base[d])  BY DEF UndoInv
  <2>3. DOMAIN store = Docs /\ DOMAIN content = Docs /\ DOMAIN texts = Docs /\ DOMAIN base = Docs  BY DEF UndoInv
  <2>4. DocOk(store'[d], content'[d], texts'[d], base'[d])  BY <2>1, <2>2
  <2>. QED  BY <2>1, <2>3, <2>4, OneDoc
<1>2. CASE ResetContent(d)
  <2> DEFINE new == texts[d] + 1
  <2>1. /\ store' = [store EXCEPT ![d] = SetClean(NewStore)] /\ content' = [content EXCEPT ![d] = new]
        /\ base' = [base EXCEPT ![d] = new] /\ texts' = [texts EXCEPT ![d] = new]
    BY <1>2 DEF ResetContent
  <2>2. DocOk(store[d], content[d], texts[d], base[d])  BY DEF UndoInv
  <2>3. texts[d] \in Nat  BY <2>2, DocIs
  <2>4. new \in Nat /\ new <= new  BY <2>3
  <2> HIDE DEF new
  <2>. QED  BY <2>1, <2>4, RenewOk, ZenonT(20)
<1>. QED  BY <1>1, <1>2, ZenonT(20) DEF ApplyLoadedFile

LEMMA CloseViewOk ==
  ASSUME UndoInv, NEW v \in Views, CloseView(v)
  PROVE  UndoInv'
<1> DEFINE d == DocOf[v]
<1>1. d \in Docs /\ texts' = texts  BY DEF Docs, CloseView
<1>2. DOMAIN store = Docs /\ DOMAIN content = Docs /\ DOMAIN texts = Docs /\ DOMAIN base = Docs  BY DEF UndoInv
<1>3. DocOk(store[d], content[d], texts[d], base[d])  BY <1>1 DEF UndoInv
<1>4. CASE Drop(d)
  <2>1. /\ store' = [store EXCEPT ![d] = SetClean(NewStore)] /\ content' = [content EXCEPT ![d] = 0]
        /\ base' = [base EXCEPT ![d] = 0]
    BY <1>4 DEF Drop
  <2>2. texts[d] \in Nat  BY <1>3, DocIs
  <2>3. 0 \in 0..texts[d]  BY <2>2
  <2> HIDE DEF d
  <2>4. DocOk(SetClean(NewStore), 0, texts[d], 0)  BY <2>2, <2>3, NewOk
  <2>5. store'[d] = SetClean(NewStore) /\ content'[d] = 0 /\ base'[d] = 0 /\ texts'[d] = texts[d]
    BY <1>1, <1>2, <2>1
  <2>6. DocOk(store'[d], content'[d], texts'[d], base'[d])  BY <2>4, <2>5
  <2>. QED  BY <1>1, <1>2, <2>1, <2>6, OneDoc
<1>5. CASE UNCHANGED <<store, content, base, readonly>>
  <2>1. store' = store /\ content' = content /\ base' = base  BY <1>5
  <2> HIDE DEF d
  <2>2. DocOk(store'[d], content'[d], texts'[d], base'[d])  BY <1>1, <1>3, <2>1
  <2>. QED  BY <1>1, <1>2, <2>1, <2>2, OneDoc
<1>. QED  BY <1>4, <1>5, ZenonT(20) DEF CloseView

(* A step that leaves the documents alone.                                 *)
LEMMA NoDoc ==
  ASSUME UndoInv, store' = store, content' = content, texts' = texts, base' = base
  PROVE  UndoInv'
<1>1. Docs' = Docs  BY DEF Docs
<1>. QED  BY <1>1 DEF UndoInv

(* Undo and redo of a group: the documents done, and the others.           *)
LEMMA GroupOk ==
  ASSUME UndoInv, NEW done, texts' = texts, base' = base,
         NEW newStore, NEW newContent,
         \A d \in Docs : d \in done => DocOk(newStore[d], newContent[d], texts[d], base[d]),
         store' = [d \in Docs |-> IF d \in done THEN newStore[d] ELSE store[d]],
         content' = [d \in Docs |-> IF d \in done THEN newContent[d] ELSE content[d]]
  PROVE  UndoInv'
<1>1. Docs' = Docs  BY DEF Docs
<1>2. DOMAIN store' = Docs /\ DOMAIN content' = Docs /\ DOMAIN texts' = Docs /\ DOMAIN base' = Docs
  BY DEF UndoInv
<1>3. ASSUME NEW d \in Docs PROVE DocOk(store'[d], content'[d], texts'[d], base'[d])
  <2>1. CASE d \in done
    <3>1. store'[d] = newStore[d] /\ content'[d] = newContent[d]  BY <2>1
    <3>2. DocOk(newStore[d], newContent[d], texts[d], base[d])  BY <2>1
    <3>. QED  BY <3>1, <3>2
  <2>2. CASE d \notin done
    <3>1. store'[d] = store[d] /\ content'[d] = content[d]  BY <2>2
    <3>2. DocOk(store[d], content[d], texts[d], base[d])  BY DEF UndoInv
    <3>. QED  BY <3>1, <3>2
  <2>. QED  BY <2>1, <2>2
<1>. QED  BY <1>1, <1>2, <1>3 DEF UndoInv

LEMMA UndoGroupOk ==
  ASSUME UndoInv, Undo
  PROVE  UndoInv'
<1> DEFINE tried == UndoDocuments(Last(undoGroups).docs)
<1> DEFINE newStore == [d \in Docs |-> UndoStep(store[d])]
<1> DEFINE newContent == [d \in Docs |-> UndoText(store[d], content[d])]
<1>1. /\ store' = [d \in Docs |-> IF d \in tried THEN UndoStep(store[d]) ELSE store[d]]
      /\ content' = [d \in Docs |-> IF d \in tried THEN UndoText(store[d], content[d]) ELSE content[d]]
      /\ texts' = texts /\ base' = base
  BY DEF Undo
<1> HIDE DEF tried
<1>2. ASSUME NEW d \in Docs, d \in tried PROVE DocOk(newStore[d], newContent[d], texts[d], base[d])
  <2> DEFINE s == store[d]
  <2>1. newStore[d] = UndoStep(s) /\ newContent[d] = UndoText(s, content[d])  BY <1>2
  <2>2. DocOk(s, content[d], texts[d], base[d])  BY DEF UndoInv
  <2> HIDE DEF s
  <2>3. DocOk(UndoStep(s), UndoText(s, content[d]), texts[d], base[d])  BY <2>2, TryUndoOk
  <2>. QED  BY <2>1, <2>3
<1>3. /\ store' = [d \in Docs |-> IF d \in tried THEN newStore[d] ELSE store[d]]
      /\ content' = [d \in Docs |-> IF d \in tried THEN newContent[d] ELSE content[d]]
  BY <1>1
<1> HIDE DEF newStore, newContent
<1>. QED  BY <1>1, <1>2, <1>3, GroupOk

LEMMA RedoGroupOk ==
  ASSUME UndoInv, Redo
  PROVE  UndoInv'
<1> DEFINE tried == RedoDocuments(Last(redoGroups).docs)
<1> DEFINE newStore == [d \in Docs |-> RedoStep(store[d])]
<1> DEFINE newContent == [d \in Docs |-> RedoText(store[d], content[d])]
<1>1. /\ store' = [d \in Docs |-> IF d \in tried THEN RedoStep(store[d]) ELSE store[d]]
      /\ content' = [d \in Docs |-> IF d \in tried THEN RedoText(store[d], content[d]) ELSE content[d]]
      /\ texts' = texts /\ base' = base
  BY DEF Redo
<1> HIDE DEF tried
<1>2. ASSUME NEW d \in Docs, d \in tried PROVE DocOk(newStore[d], newContent[d], texts[d], base[d])
  <2> DEFINE s == store[d]
  <2>1. newStore[d] = RedoStep(s) /\ newContent[d] = RedoText(s, content[d])  BY <1>2
  <2>2. DocOk(s, content[d], texts[d], base[d])  BY DEF UndoInv
  <2> HIDE DEF s
  <2>3. DocOk(RedoStep(s), RedoText(s, content[d]), texts[d], base[d])  BY <2>2, TryRedoOk
  <2>. QED  BY <2>1, <2>3
<1>3. /\ store' = [d \in Docs |-> IF d \in tried THEN newStore[d] ELSE store[d]]
      /\ content' = [d \in Docs |-> IF d \in tried THEN newContent[d] ELSE content[d]]
  BY <1>1
<1> HIDE DEF newStore, newContent
<1>. QED  BY <1>1, <1>2, <1>3, GroupOk

LEMMA WorkspaceEditOk ==
  ASSUME UndoInv, NEW plan, NEW applied, NEW single, NEW w \in Weights, NEW saved,
         ApplyWorkspaceEdit(plan, applied, single, w, saved)
  PROVE  UndoInv'
<1>1. PICK edited, left :
        /\ left \subseteq edited /\ base' = base
        /\ store' = [d \in Docs |-> IF d \in left THEN Commit(store, d, "Record", None, w)[d] ELSE store[d]]
        /\ texts' = [d \in Docs |-> IF d \in edited THEN texts[d] + 1 ELSE texts[d]]
        /\ content' = [d \in Docs |-> IF d \in left THEN texts[d] + 1 ELSE content[d]]
  <2> DEFINE n == Len(plan)
  <2> DEFINE reached == IF single \/ applied = n THEN n ELSE applied + 1
  <2> DEFINE temps == {d \in {plan[i] : i \in 1..reached} : IsFresh(d)}
  <2> DEFINE edited == {plan[i] : i \in 1..applied}
  <2> DEFINE left == IF applied = n /\ ~saved THEN edited ELSE edited \ temps
  <2>1. left \subseteq edited  OBVIOUS
  <2>2. /\ base' = base
        /\ store' = [d \in Docs |-> IF d \in left THEN Commit(store, d, "Record", None, w)[d] ELSE store[d]]
        /\ texts' = [d \in Docs |-> IF d \in edited THEN texts[d] + 1 ELSE texts[d]]
        /\ content' = [d \in Docs |-> IF d \in left THEN texts[d] + 1 ELSE content[d]]
    BY ZenonT(20) DEF ApplyWorkspaceEdit
  <2> HIDE DEF edited, left
  <2>. QED  BY <2>1, <2>2, ZenonT(20)
<1>2. Docs' = Docs  BY DEF Docs
<1>3. DOMAIN store = Docs /\ DOMAIN base = Docs /\ w \in Nat  BY UndoAssumption DEF UndoInv
<1>4. DOMAIN store' = Docs /\ DOMAIN content' = Docs /\ DOMAIN texts' = Docs /\ DOMAIN base' = Docs
  BY <1>1, <1>3
<1>5. ASSUME NEW d \in Docs PROVE DocOk(store'[d], content'[d], texts'[d], base'[d])
  <2> DEFINE old == store[d]
  <2> DEFINE text == content[d]
  <2> DEFINE top == texts[d]
  <2> DEFINE file == base[d]
  <2>1. DocOk(old, text, top, file)  BY DEF UndoInv
  <2>2. base'[d] = file  BY <1>1
  <2>3. CASE d \in left
    <3>1. content'[d] = top + 1 /\ texts'[d] = top + 1  BY <1>1, <2>3
    <3>2. store'[d] = RecordCommit(old, Tx(text, top + 1, w), "Record", None)
      <4>1. store'[d] = Commit(store, d, "Record", None, w)[d]  BY <1>1, <2>3
      <4>2. Commit(store, d, "Record", None, w)[d] = RecordCommit(old, Tx(text, top + 1, w), "Record", None)
        BY <1>3 DEF Commit
      <4>. QED  BY <4>1, <4>2
    <3> HIDE DEF old, text, top, file
    <3>3. DocOk(RecordCommit(old, Tx(text, top + 1, w), "Record", None), top + 1, top + 1, file)
      BY <1>3, <2>1, CommitOk
    <3>. QED  BY <2>2, <3>1, <3>2, <3>3
  <2>4. CASE d \in edited /\ d \notin left
    <3>1. content'[d] = text /\ texts'[d] = top + 1 /\ store'[d] = old  BY <1>1, <2>4
    <3> HIDE DEF old, text, top, file
    <3>2. DocOk(old, text, top + 1, file)  BY <2>1, TopOk
    <3>. QED  BY <2>2, <3>1, <3>2
  <2>5. CASE d \notin edited
    <3>1. content'[d] = text /\ texts'[d] = top /\ store'[d] = old  BY <1>1, <2>5
    <3>. QED  BY <2>1, <2>2, <3>1
  <2>. QED  BY <2>3, <2>4, <2>5
<1>. QED  BY <1>2, <1>4, <1>5 DEF UndoInv

LEMMA NextOk ==
  ASSUME UndoInv, [Next]_vars
  PROVE  UndoInv'
<1>1. ASSUME NEW v \in Views, NEW w \in Weights,
             ApplyEdit(v, "Record", w) \/ ApplyEdit(v, "MergeWithCurrentGroup", w)
      PROVE  UndoInv'
  BY <1>1, ApplyEditOk
<1>2. CASE Undo
  BY <1>2, UndoGroupOk
<1>3. CASE Redo
  BY <1>3, RedoGroupOk
<1>4. ASSUME NEW v \in Views, OpenView(v) PROVE UndoInv'
  BY <1>4, NoDoc DEF OpenView, docVars
<1>5. ASSUME NEW v \in Views, CloseView(v) PROVE UndoInv'
  BY <1>5, CloseViewOk
<1>6. ASSUME NEW d \in Docs, ClearUndoGroup(d) PROVE UndoInv'
  BY <1>6, ClearUndoGroupOk
<1>7. ASSUME NEW d \in Docs, Save(d) PROVE UndoInv'
  BY <1>7, SaveOk
<1>8. ASSUME NEW d \in Docs, SetReadonly(d) \/ LoadFails(d) PROVE UndoInv'
  BY <1>8, NoDoc DEF SetReadonly, LoadFails, docVars
<1>9. ASSUME NEW d \in Docs, NEW ro \in BOOLEAN, ApplyLoadedFile(d, ro) PROVE UndoInv'
  BY <1>9, ApplyLoadedFileOk
<1>10. CASE WorkspaceEdit
  <2>1. PICK plan \in Plans, w \in Weights :
          \E applied \in 0..Len(plan), single \in {TRUE, Len(plan) = 1} :
            \E saved \in {TRUE, applied < Len(plan)} : ApplyWorkspaceEdit(plan, applied, single, w, saved)
    BY <1>10, ZenonT(20) DEF WorkspaceEdit
  <2>2. PICK applied \in 0..Len(plan), single \in {TRUE, Len(plan) = 1} :
          \E saved \in {TRUE, applied < Len(plan)} : ApplyWorkspaceEdit(plan, applied, single, w, saved)
    BY <2>1, ZenonT(20)
  <2>3. PICK saved \in {TRUE, applied < Len(plan)} : ApplyWorkspaceEdit(plan, applied, single, w, saved)
    BY <2>2, ZenonT(20)
  <2>. QED  BY <2>3, WorkspaceEditOk
<1>11. CASE UNCHANGED vars
  BY <1>11, NoDoc DEF vars
<1>. QED  BY <1>1, <1>2, <1>3, <1>4, <1>5, <1>6, <1>7, <1>8, <1>9, <1>10, <1>11, ZenonT(20) DEF Next

(* At every moment every document's history is good.                       *)
THEOREM UndoInvTheorem == Spec => []UndoInv
<1>1. Init => UndoInv  BY InitOk
<1>2. UndoInv /\ [Next]_vars => UndoInv'  BY NextOk
<1>. QED  BY <1>1, <1>2, PTL DEF Spec

-----------------------------------------------------------------------------
(* What a good history says.                                               *)

(* The counters are exact and the limits of steps and bytes hold in every  *)
(* document, whatever is recorded, merged, undone, redone, evicted, saved  *)
(* or reset (assert_invariants of undo_store).                             *)
THEOREM LimitsTheorem == Spec => []StoreWithinLimits
<1>1. UndoInv => StoreWithinLimits
  <2> SUFFICES ASSUME UndoInv, NEW d \in Docs
               PROVE  LET s == store[d]
                      IN  /\ s.undoBytes = StackBytes(s.undo) /\ s.redoBytes = StackBytes(s.redo)
                          /\ s.undoTx = StackTxs(s.undo) /\ s.redoTx = StackTxs(s.redo)
                          /\ s.undoBytes + s.redoBytes <= MAX_UNDO_BYTES
                          /\ Len(s.undo) <= MAX_UNDO /\ Len(s.redo) <= MAX_UNDO
                          /\ s.head >= s.undoTx
    BY DEF StoreWithinLimits
  <2> DEFINE s == store[d]
  <2>1. DocOk(s, content[d], texts[d], base[d])  BY DEF UndoInv
  <2> HIDE DEF s
  <2>2. Counted(s) /\ Limited(s)  BY <2>1, DocIs, ZenonT(20) DEF DocOk
  <2>3. s.head >= s.undoTx
    <3>1. s.undoTx \in Nat /\ s.head \in Nat /\ s.undoTx <= s.head  BY <2>2, CountedIs DEF Counted
    <3>. QED  BY <3>1
  <2>. QED  BY <2>2, <2>3, ZenonT(20) DEF Counted, Limited, s
<1>. QED  BY <1>1, UndoInvTheorem, PTL

(* A document counts as modified exactly when it does not show the text    *)
(* last saved or loaded (clean_pos against head_pos), for any series of    *)
(* operations.                                                             *)
THEOREM ModifiedTheorem == Spec => []ModifiedIsExact
<1>1. UndoInv => ModifiedIsExact
  <2> SUFFICES ASSUME UndoInv, NEW d \in Docs
               PROVE  IsModified(store[d]) <=> content[d] # base[d]
    BY DEF ModifiedIsExact
  <2> DEFINE s == store[d]
  <2> DEFINE text == content[d]
  <2> DEFINE top == texts[d]
  <2> DEFINE file == base[d]
  <2>1. DocOk(s, text, top, file)  BY DEF UndoInv
  <2> HIDE DEF s, text, top, file
  <2>2. PICK tl : Good(s, tl, text, top, file)  BY <2>1 DEF DocOk
  <2>3. Counted(s) /\ Timeline(s, tl, text, top) /\ Saved(s, tl, file)  BY <2>2 DEF Good
  <2>4. s.head \in Span(s) /\ s.head \in Nat /\ Span(s) \subseteq Nat  BY <2>3, CountedIs
  <2>5. tl[s.head] = text /\ tl \in [Nat -> Nat]  BY <2>3 DEF Timeline
  <2>6. CASE s.clean = s.head
    <3>1. s.clean # None  BY <2>4, <2>6, UndoLimits
    <3>2. text = file  BY <2>3, <2>5, <2>6, <3>1 DEF Saved
    <3>. QED  BY <2>6, <3>2 DEF IsModified, s, text, file
  <2>7. CASE s.clean # s.head
    <3>1. text # file
      <4>1. CASE s.clean = None
        BY <2>3, <2>4, <2>5, <4>1 DEF Saved
      <4>2. CASE s.clean # None
        <5>1. s.clean \in Span(s) /\ tl[s.clean] = file /\ s.clean \in Nat  BY <2>3, <2>4, <4>2 DEF Saved
        <5>2. s.clean < s.head \/ s.head < s.clean  BY <2>4, <2>7, <5>1
        <5>3. tl[s.clean] < tl[s.head] \/ tl[s.head] < tl[s.clean]  BY <2>3, <2>4, <5>1, <5>2 DEF Timeline
        <5>4. text \in Nat /\ file \in Nat  BY <2>4, <2>5, <5>1
        <5>. QED  BY <2>5, <5>1, <5>3, <5>4
      <4>. QED  BY <4>1, <4>2
    <3>. QED  BY <2>7, <3>1 DEF IsModified, s, text, file
  <2>. QED  BY <2>6, <2>7
<1>. QED  BY <1>1, UndoInvTheorem, PTL

(* Every transaction that undo or redo will ever apply meets the text it   *)
(* was made on, in every document and after any series of edits, merges,   *)
(* undos, redos, evictions, saves, loads and workspace edits.              *)
THEOREM ChainTheorem == Spec => []HistoryIsAChain
<1>1. UndoInv => HistoryIsAChain
  <2>1. ASSUME UndoInv, NEW d \in Docs PROVE Chained(store[d].undo, store[d].redo, content[d])
    <3> DEFINE s == store[d]
    <3>1. DocOk(s, content[d], texts[d], base[d])  BY <2>1 DEF UndoInv
    <3> HIDE DEF s
    <3>2. PICK tl : Good(s, tl, content[d], texts[d], base[d])  BY <3>1 DEF DocOk
    <3>3. Chained(s.undo, s.redo, content[d])  BY <3>2, GoodChained
    <3>. QED  BY <3>3 DEF s
  <2>. QED  BY <2>1, ZenonT(20) DEF HistoryIsAChain, Chained
<1>. QED  BY <1>1, UndoInvTheorem, PTL

-----------------------------------------------------------------------------
(* Groups and steps.                                                       *)

(* The snapshots of a document in a stack of groups.                       *)
SnapStep(groups, d, g, k) ==
  IF k = 0 THEN <<>>
  ELSE IF d \in Range(groups[k].docs) THEN Append(g[k - 1], groups[k].snap[d]) ELSE g[k - 1]

(* The recursive function of SnapsUpTo exists.                             *)
LEMMA SnapsExist ==
  ASSUME NEW groups, NEW d, NEW n \in Nat
  PROVE  \E g : g = [k \in 0..n |-> SnapStep(groups, d, g, k)]
<1> DEFINE P(k) == \E g : g = [i \in 0..k |-> SnapStep(groups, d, g, i)]
<1> DEFINE T == {k \in Nat : ~P(k)}
<1> SUFFICES ASSUME T # {} PROVE FALSE
  OBVIOUS
<1>1. PICK m \in T : \A k \in T : m <= k
  <2>1. T \subseteq Nat  OBVIOUS
  <2> HIDE DEF T
  <2>. QED  BY <2>1, LeastLength, ZenonT(20)
<1>2. m # 0
  <2> DEFINE g == [i \in 0..0 |-> <<>>]
  <2>1. g = [i \in 0..0 |-> SnapStep(groups, d, g, i)]  BY DEF SnapStep
  <2>. QED  BY <1>1, <2>1, ZenonT(20)
<1>3. m \in Nat /\ m - 1 \in Nat /\ P(m - 1)  BY <1>1, <1>2
<1>4. PICK g : g = [i \in 0..(m - 1) |-> SnapStep(groups, d, g, i)]  BY <1>3
<1> DEFINE h == [i \in 0..m |-> IF i = m THEN SnapStep(groups, d, g, m) ELSE g[i]]
<1>5. \A i \in 0..m : h[i] = SnapStep(groups, d, h, i)
  <2> SUFFICES ASSUME NEW i \in 0..m PROVE h[i] = SnapStep(groups, d, h, i)
    OBVIOUS
  <2>1. \A j \in 0..(m - 1) : g[j] = SnapStep(groups, d, g, j)  BY <1>4
  <2>2. CASE i = m
    <3>1. h[i] = SnapStep(groups, d, g, m) /\ h[m - 1] = g[m - 1]  BY <1>3, <2>2
    <3> HIDE DEF h
    <3>. QED  BY <1>2, <2>2, <3>1 DEF SnapStep
  <2>3. CASE i # m /\ i # 0
    <3>1. h[i - 1] = g[i - 1] /\ h[i] = g[i] /\ i \in 0..(m - 1)  BY <1>3, <2>3
    <3> HIDE DEF h
    <3>. QED  BY <2>1, <2>3, <3>1 DEF SnapStep
  <2>4. CASE i = 0
    <3>1. h[0] = g[0] /\ 0 \in 0..(m - 1)  BY <1>2, <1>3
    <3> HIDE DEF h
    <3>. QED  BY <2>1, <2>4, <3>1 DEF SnapStep
  <2>. QED  BY <2>2, <2>3, <2>4
<1>6. h = [i \in 0..m |-> SnapStep(groups, d, h, i)]
  <2>1. h = [i \in 0..m |-> h[i]]  OBVIOUS
  <2> HIDE DEF h
  <2>. QED  BY <1>5, <2>1
<1>. QED  BY <1>1, <1>6, ZenonT(20)

SnapsOf(G, d) == {g.snap[d] : g \in G}

SnapsOk(f, groups, d, G) ==
  /\ f[0] = <<>>
  /\ \A k \in 1..Len(groups) :
       f[k] = IF d \in Range(groups[k].docs) THEN Append(f[k - 1], groups[k].snap[d]) ELSE f[k - 1]
  /\ \A k \in 0..Len(groups) : f[k] \in Seq(SnapsOf(G, d))

LEMMA SnapsAre ==
  ASSUME NEW G, NEW groups \in Seq(G), NEW d
  PROVE  SnapsOk(SnapsUpTo(groups, d), groups, d, G)
<1> DEFINE n == Len(groups)
<1> DEFINE S == SnapsOf(G, d)
<1>1. n \in Nat /\ \A i \in 1..n : groups[i] \in G  BY LenProperties, ElementOfSeq
<1>2. PICK g : g = [i \in 0..n |-> SnapStep(groups, d, g, i)] /\ SnapsUpTo(groups, d) = g
  <2>1. \E g : g = [i \in 0..n |-> SnapStep(groups, d, g, i)]  BY <1>1, SnapsExist, ZenonT(20)
  <2>. QED  BY <2>1, ZenonT(20) DEF SnapsUpTo, SnapStep
<1>3. \A i \in 0..n : g[i] = SnapStep(groups, d, g, i)
  <2>1. g = [i \in 0..n |-> SnapStep(groups, d, g, i)]  BY <1>2
  <2>. QED  BY <2>1, ZenonT(20)
<1>4. /\ g[0] = <<>>
      /\ \A k \in 1..n : g[k] = IF d \in Range(groups[k].docs) THEN Append(g[k - 1], groups[k].snap[d]) ELSE g[k - 1]
  BY <1>1, <1>3 DEF SnapStep
<1> DEFINE T == {k \in Nat : k <= n /\ g[k] \notin Seq(S)}
<1>5. T = {}
  <2> SUFFICES ASSUME T # {} PROVE FALSE
    OBVIOUS
  <2>1. PICK m \in T : \A k \in T : m <= k
    <3>1. T \subseteq Nat  OBVIOUS
    <3> HIDE DEF T
    <3>. QED  BY <3>1, LeastLength, ZenonT(20)
  <2>2. m \in Nat /\ m <= n /\ g[m] \notin Seq(S)  BY <2>1
  <2>3. m # 0  BY <1>4, <2>2, EmptySeq, ZenonT(20)
  <2>4. m - 1 \in Nat /\ m - 1 <= n /\ ~(m <= m - 1) /\ m \in 1..n  BY <1>1, <2>2, <2>3
  <2>5. g[m - 1] \in Seq(S)
    <3>1. m - 1 \notin T
      <4> HIDE DEF T
      <4>. QED  BY <2>1, <2>4, ZenonT(20)
    <3> HIDE DEF S
    <3>. QED  BY <2>4, <3>1
  <2>6. groups[m].snap[d] \in S  BY <1>1, <2>4, ZenonT(20) DEF SnapsOf
  <2> HIDE DEF S
  <2>7. Append(g[m - 1], groups[m].snap[d]) \in Seq(S)  BY <2>5, <2>6, AppendProperties
  <2>8. g[m] \in {Append(g[m - 1], groups[m].snap[d]), g[m - 1]}  BY <1>4, <2>4, ZenonT(20)
  <2>. QED  BY <2>2, <2>5, <2>7, <2>8, ZenonT(20)
<1>6. \A k \in 0..n : g[k] \in Seq(S)
  <2> HIDE DEF S
  <2>. QED  BY <1>1, <1>5
<1>. QED  BY <1>2, <1>4, <1>6, ZenonT(20) DEF SnapsOk

(* Stacks that begin alike have the same snapshots up to there.            *)
LEMMA SnapsBegin ==
  ASSUME NEW G, NEW groups \in Seq(G), NEW more \in Seq(G), NEW d, NEW n \in Nat,
         n <= Len(groups), n <= Len(more), \A i \in 1..n : groups[i] = more[i]
  PROVE  \A i \in 0..n : SnapsUpTo(groups, d)[i] = SnapsUpTo(more, d)[i]
<1> DEFINE f == SnapsUpTo(groups, d)
<1> DEFINE g == SnapsUpTo(more, d)
<1>1. Len(groups) \in Nat /\ Len(more) \in Nat  BY LenProperties
<1>2. SnapsOk(f, groups, d, G) /\ SnapsOk(g, more, d, G)  BY SnapsAre
<1> HIDE DEF f, g
<1> DEFINE T == {i \in Nat : i <= n /\ f[i] # g[i]}
<1>3. T = {}
  <2> SUFFICES ASSUME T # {} PROVE FALSE
    OBVIOUS
  <2>1. PICK m \in T : \A k \in T : m <= k
    <3>1. T \subseteq Nat  OBVIOUS
    <3> HIDE DEF T
    <3>. QED  BY <3>1, LeastLength, ZenonT(20)
  <2>2. m \in Nat /\ m <= n /\ f[m] # g[m]  BY <2>1
  <2>3. m # 0  BY <1>2, <2>2 DEF SnapsOk
  <2>4. /\ m - 1 \in Nat /\ m - 1 <= n /\ ~(m <= m - 1)
        /\ m \in 1..n /\ m \in 1..Len(groups) /\ m \in 1..Len(more)
    BY <1>1, <2>2, <2>3
  <2>5. f[m - 1] = g[m - 1]
    <3>1. m - 1 \notin T
      <4> HIDE DEF T
      <4>. QED  BY <2>1, <2>4, ZenonT(20)
    <3>. QED  BY <2>4, <3>1
  <2>6. groups[m] = more[m]  BY <2>4
  <2>7. f[m] = IF d \in Range(groups[m].docs) THEN Append(f[m - 1], groups[m].snap[d]) ELSE f[m - 1]
    BY <1>2, <2>4 DEF SnapsOk
  <2>8. g[m] = IF d \in Range(more[m].docs) THEN Append(g[m - 1], more[m].snap[d]) ELSE g[m - 1]
    BY <1>2, <2>4 DEF SnapsOk
  <2>9. CASE d \in Range(more[m].docs)
    <3>1. f[m] = Append(f[m - 1], more[m].snap[d])  BY <2>6, <2>7, <2>9
    <3>2. g[m] = Append(g[m - 1], more[m].snap[d])  BY <2>8, <2>9
    <3>. QED  BY <2>2, <2>5, <3>1, <3>2, ZenonT(20)
  <2>10. CASE d \notin Range(more[m].docs)
    <3>1. f[m] = f[m - 1] /\ g[m] = g[m - 1]  BY <2>6, <2>7, <2>8, <2>10
    <3>. QED  BY <2>2, <2>5, <3>1, ZenonT(20)
  <2>. QED  BY <2>9, <2>10
<1>4. \A i \in 0..n : f[i] = g[i]  BY <1>3
<1>. QED  BY <1>4 DEF f, g

LEMMA SnapsEmpty ==
  ASSUME NEW d
  PROVE  Snaps(<<>>, d) = <<>>
<1> DEFINE e == <<>>
<1>1. e \in Seq({}) /\ Len(e) = 0  BY EmptySeq
<1> HIDE DEF e
<1>2. SnapsOk(SnapsUpTo(e, d), e, d, {})  BY <1>1, SnapsAre, ZenonT(20)
<1>3. Snaps(e, d) = <<>>  BY <1>1, <1>2 DEF Snaps, SnapsOk
<1>. QED  BY <1>3 DEF e

LEMMA SnapsSeq ==
  ASSUME NEW G, NEW groups \in Seq(G), NEW d
  PROVE  Snaps(groups, d) \in Seq(SnapsOf(G, d))
<1>1. Len(groups) \in 0..Len(groups)  BY LenProperties
<1>2. SnapsOk(SnapsUpTo(groups, d), groups, d, G)  BY SnapsAre
<1>. QED  BY <1>1, <1>2, ZenonT(20) DEF Snaps, SnapsOk

(* One more group.                                                         *)
LEMMA SnapsAppend ==
  ASSUME NEW G, NEW groups \in Seq(G), NEW g \in G, NEW d
  PROVE  Snaps(Append(groups, g), d) =
           IF d \in Range(g.docs) THEN Append(Snaps(groups, d), g.snap[d]) ELSE Snaps(groups, d)
<1> DEFINE more == Append(groups, g)
<1> DEFINE n == Len(groups)
<1>1. /\ more \in Seq(G) /\ Len(more) = n + 1 /\ n \in Nat /\ more[n + 1] = g
      /\ \A i \in 1..n : more[i] = groups[i]
  BY AppendProperties, LenProperties
<1> HIDE DEF more
<1>2. \A i \in 0..n : SnapsUpTo(groups, d)[i] = SnapsUpTo(more, d)[i]
  <2>1. n <= Len(groups) /\ n <= Len(more) /\ \A i \in 1..n : groups[i] = more[i]  BY <1>1
  <2> HIDE DEF n
  <2>. QED  BY <1>1, <2>1, SnapsBegin
<1> DEFINE f == SnapsUpTo(more, d)
<1>3. SnapsOk(f, more, d, G)  BY <1>1, SnapsAre
<1> HIDE DEF f
<1>4. n + 1 \in 1..Len(more) /\ n + 1 - 1 = n /\ n \in 0..n  BY <1>1
<1>5. f[n + 1] = IF d \in Range(g.docs) THEN Append(f[n], g.snap[d]) ELSE f[n]
  <2> HIDE DEF n
  <2>. QED  BY <1>1, <1>3, <1>4 DEF SnapsOk
<1>6. f[n] = Snaps(groups, d) /\ f[n + 1] = Snaps(more, d)  BY <1>1, <1>2, <1>4 DEF f, Snaps
<1>. QED  BY <1>5, <1>6, ZenonT(20) DEF more

(* A stack and the one without its newest group.                           *)
LEMMA SnapsFront ==
  ASSUME NEW G, NEW groups \in Seq(G), groups # <<>>, NEW d
  PROVE  /\ Front(groups) \in Seq(G) /\ Last(groups) \in G
         /\ Snaps(groups, d) =
              IF d \in Range(Last(groups).docs) THEN Append(Snaps(Front(groups), d), Last(groups).snap[d])
                                                ELSE Snaps(Front(groups), d)
<1> DEFINE less == Front(groups)
<1> DEFINE g == Last(groups)
<1> DEFINE n == Len(groups)
<1>1. n \in Nat /\ n # 0  BY FrontIs
<1>2. less \in Seq(G) /\ Len(less) = n - 1 /\ (\A i \in 1..(n - 1) : less[i] = groups[i])  BY FrontIs
<1>3. g \in G /\ g = groups[n]  BY FrontIs
<1> HIDE DEF less, g
<1> DEFINE more == Append(less, g)
<1>4. more \in Seq(G) /\ Len(more) = n /\ more[n] = g /\ \A i \in 1..(n - 1) : more[i] = less[i]
  BY <1>1, <1>2, <1>3, AppendProperties
<1> HIDE DEF more
<1>5. more = groups
  <2>1. \A i \in 1..n : more[i] = groups[i]
    <3>1. \A i \in 1..n : i = n \/ i \in 1..(n - 1)  BY <1>1
    <3>. QED  BY <1>2, <1>3, <1>4, <3>1
  <2>2. Len(more) = Len(groups) /\ \A i \in 1..Len(more) : more[i] = groups[i]  BY <1>4, <2>1
  <2>3. more \in Seq(G)  BY <1>4
  <2>. QED  BY <2>2, <2>3, SeqEqual, ZenonT(20)
<1>6. Snaps(more, d) = IF d \in Range(g.docs) THEN Append(Snaps(less, d), g.snap[d]) ELSE Snaps(less, d)
  BY <1>2, <1>3, SnapsAppend, ZenonT(20) DEF more
<1>. QED  BY <1>2, <1>3, <1>5, <1>6 DEF less, g

(* Groups that do not name the document.                                   *)
LEMMA SnapsOthers ==
  ASSUME NEW G, NEW groups \in Seq(G), NEW others \in Seq(G), NEW d,
         \A i \in 1..Len(others) : d \notin Range(others[i].docs)
  PROVE  Snaps(groups \o others, d) = Snaps(groups, d)
<1> DEFINE more == groups \o others
<1> DEFINE n == Len(groups)
<1> DEFINE k == Len(others)
<1>1. n \in Nat /\ k \in Nat  BY LenProperties
<1>2. /\ more \in Seq(G) /\ Len(more) = n + k /\ (\A i \in 1..n : more[i] = groups[i])
      /\ \A i \in (n + 1)..(n + k) : more[i] = others[i - n]
  BY <1>1, ConcatProperties
<1> HIDE DEF more
<1> DEFINE f == SnapsUpTo(more, d)
<1>3. f[n] = Snaps(groups, d)
  <2>1. n <= Len(groups) /\ n <= Len(more) /\ (\A i \in 1..n : groups[i] = more[i]) /\ n \in 0..n  BY <1>1, <1>2
  <2>2. \A i \in 0..n : SnapsUpTo(groups, d)[i] = f[i]
    <3> HIDE DEF n
    <3>. QED  BY <1>1, <1>2, <2>1, SnapsBegin
  <2>. QED  BY <2>1, <2>2 DEF Snaps
<1>4. SnapsOk(f, more, d, G)  BY <1>2, SnapsAre
<1> HIDE DEF f
<1> DEFINE T == {i \in Nat : i <= k /\ f[n + i] # f[n]}
<1>5. T = {}
  <2> SUFFICES ASSUME T # {} PROVE FALSE
    OBVIOUS
  <2>1. PICK m \in T : \A i \in T : m <= i
    <3>1. T \subseteq Nat  OBVIOUS
    <3> HIDE DEF T
    <3>. QED  BY <3>1, LeastLength, ZenonT(20)
  <2>2. m \in Nat /\ m <= k /\ f[n + m] # f[n]  BY <2>1
  <2>3. m # 0
    <3>1. n + 0 = n  BY <1>1
    <3>. QED  BY <2>2, <3>1
  <2>4. m - 1 \in Nat /\ m - 1 <= k /\ ~(m <= m - 1) /\ m \in 1..k  BY <1>1, <2>2, <2>3
  <2>5. f[n + (m - 1)] = f[n]
    <3>1. m - 1 \notin T
      <4> HIDE DEF T
      <4>. QED  BY <2>1, <2>4, ZenonT(20)
    <3>. QED  BY <2>4, <3>1
  <2> DEFINE q == n + m
  <2>6. q \in 1..Len(more) /\ q - 1 = n + (m - 1) /\ q \in (n + 1)..(n + k) /\ q - n = m  BY <1>1, <1>2, <2>4
  <2>7. f[q] # f[n]  BY <2>2
  <2> HIDE DEF q
  <2>8. d \notin Range(more[q].docs)  BY <1>2, <2>4, <2>6, ZenonT(20)
  <2>9. f[q] = f[q - 1]  BY <1>4, <2>6, <2>8 DEF SnapsOk
  <2>. QED  BY <2>5, <2>6, <2>7, <2>9
<1>6. f[n + k] = f[n]  BY <1>1, <1>5
<1>. QED  BY <1>2, <1>3, <1>6 DEF Snaps, f, more

-----------------------------------------------------------------------------
(* The invariant: a group that names a document outside workspace edits    *)
(* names no other, and the stacks of groups match its history.             *)
Lone(g) == \A d \in Docs \ WorkspaceDocs : d \in Range(g.docs) => g.docs = <<d>>

Stacked(us, rs, G) == us \in Seq(G) /\ rs \in Seq(G) /\ \A g \in G : Lone(g)

GroupsInv ==
  /\ \E G : Stacked(undoGroups, redoGroups, G)
  /\ \A d \in Docs \ WorkspaceDocs : Matches(store[d], Snaps(undoGroups, d), Snaps(redoGroups, d))

LEMMA DocShape ==
  ASSUME UndoInv, NEW d \in Docs
  PROVE  /\ Shaped(store[d]) /\ content[d] \in Nat /\ texts[d] \in Nat
         /\ Chained(store[d].undo, store[d].redo, content[d])
<1> DEFINE s == store[d]
<1>1. DocOk(s, content[d], texts[d], base[d])  BY DEF UndoInv
<1> HIDE DEF s
<1>2. DOMAIN s = StoreFields /\ Counted(s) /\ content[d] \in Nat /\ texts[d] \in Nat  BY <1>1, DocIs
<1>3. Shaped(s)  BY <1>2 DEF Counted, Shaped
<1>4. PICK tl : Good(s, tl, content[d], texts[d], base[d])  BY <1>1 DEF DocOk
<1>5. Chained(s.undo, s.redo, content[d])  BY <1>4, GoodChained
<1>. QED  BY <1>2, <1>3, <1>5 DEF s

(* Steps that leave the groups, and the stacks of each document or none of *)
(* their steps.                                                            *)
LEMMA KeptOk ==
  ASSUME GroupsInv, undoGroups' = undoGroups, redoGroups' = redoGroups,
         \A d \in Docs : \/ store'[d].undo = store[d].undo /\ store'[d].redo = store[d].redo
                         \/ store'[d].undo = <<>> /\ store'[d].redo = <<>>
  PROVE  GroupsInv'
<1>1. PICK G : Stacked(undoGroups, redoGroups, G)  BY DEF GroupsInv
<1>2. Docs' = Docs  BY DEF Docs
<1>3. Stacked(undoGroups', redoGroups', G)  BY <1>1
<1>4. ASSUME NEW d \in Docs \ WorkspaceDocs
      PROVE  Matches(store'[d], Snaps(undoGroups, d), Snaps(redoGroups, d))
  <2> DEFINE s == store[d]
  <2> DEFINE t == store'[d]
  <2> DEFINE us == Snaps(undoGroups, d)
  <2> DEFINE rs == Snaps(redoGroups, d)
  <2>1. Matches(s, us, rs)  BY DEF GroupsInv
  <2>2. us \in Seq(SnapsOf(G, d)) /\ rs \in Seq(SnapsOf(G, d))  BY <1>1, SnapsSeq DEF Stacked
  <2>3. \/ t.undo = s.undo /\ t.redo = s.redo
        \/ t.undo = <<>> /\ t.redo = <<>>
    OBVIOUS
  <2> HIDE DEF s, t, us, rs
  <2>4. ASSUME t.undo = s.undo, t.redo = s.redo PROVE Matches(t, us, rs)
    BY <2>1, <2>4 DEF Matches
  <2>5. ASSUME t.undo = <<>>, t.redo = <<>> PROVE Matches(t, us, rs)
    BY <2>2, <2>5, MatchesNew
  <2>6. Matches(t, us, rs)  BY <2>3, <2>4, <2>5
  <2>. QED  BY <2>6 DEF t, us, rs
<1>5. \A d \in Docs \ WorkspaceDocs : Matches(store'[d], Snaps(undoGroups', d), Snaps(redoGroups', d))
  BY <1>4
<1>. QED  BY <1>2, <1>3, <1>5, ZenonT(20) DEF GroupsInv

(* The texts a document can have been snapshotted with, and all texts.     *)
Marked(G, d) == Nat \cup SnapsOf(G, d)

LEMMA SnapsMarked ==
  ASSUME NEW G, NEW groups \in Seq(G), NEW d
  PROVE  Snaps(groups, d) \in Seq(Marked(G, d))
<1>1. Snaps(groups, d) \in Seq(SnapsOf(G, d))  BY SnapsSeq
<1>2. SnapsOf(G, d) \subseteq Marked(G, d)  BY DEF Marked
<1>. QED  BY <1>1, <1>2, Wider

LEMMA MatchesNoRedo ==
  ASSUME NEW s, Shaped(s), NEW us, NEW rs, Matches(s, us, rs)
  PROVE  Matches(s, us, <<>>)
<1>1. Lasts(s.redo) \in Seq(Nat)  BY MarksAre DEF Shaped
<1>2. Agree(Lasts(s.redo), <<>>)  BY <1>1, AgreeNone
<1>. QED  BY <1>2 DEF Matches

LEMMA OneRange ==
  ASSUME NEW d
  PROVE  Range(<<d>>) = {d}
  BY DEF Range

LEMMA GroupIs ==
  ASSUME NEW docs, NEW c
  PROVE  Group(docs, c).docs = docs /\ \A d \in Range(docs) : Group(docs, c).snap[d] = c[d]
  BY DEF Group

LEMMA MoreGroups ==
  ASSUME NEW us, NEW rs, NEW G, Stacked(us, rs, G), NEW g, Lone(g)
  PROVE  Stacked(us, rs, G \cup {g})
<1>1. us \in Seq(G \cup {g}) /\ rs \in Seq(G \cup {g})  BY Wider DEF Stacked
<1>2. \A h \in G \cup {g} : Lone(h)  BY DEF Stacked
<1>. QED  BY <1>1, <1>2 DEF Stacked

LEMMA ApplyEditGroups ==
  ASSUME UndoInv, GroupsInv, NEW v \in Views, NEW policy, NEW w \in Weights, ApplyEdit(v, policy, w)
  PROVE  GroupsInv'
<1> DEFINE d == DocOf[v]
<1> DEFINE tx == Tx(content[d], texts[d] + 1, w)
<1> DEFINE old == store[d]
<1> DEFINE s == RecordCommit(old, tx, policy, v)
<1> DEFINE g == Group(<<d>>, content)
<1> DEFINE created == StepCreated(old, policy, v)
<1> DEFINE text == content[d]
<1>1. PICK G : Stacked(undoGroups, redoGroups, G)  BY DEF GroupsInv
<1>2. d \in Docs  BY DEF Docs
<1>3. store' = [store EXCEPT ![d] = s]  BY DEF ApplyEdit, Commit
<1>4. redoGroups' = <<>> /\ undoGroups' = IF created THEN Append(undoGroups, g) ELSE undoGroups  BY DEF ApplyEdit
<1>5. Shaped(old) /\ text \in Nat /\ texts[d] \in Nat  BY <1>2, DocShape
<1>6. tx \in Txs /\ tx.from = text  BY <1>5, UndoAssumption DEF Tx, Txs
<1>7. g.docs = <<d>> /\ Range(g.docs) = {d} /\ g.snap[d] = text
  <2>1. Range(<<d>>) = {d} /\ d \in {d}  BY OneRange
  <2>. QED  BY <2>1, GroupIs
<1>8. DOMAIN store = Docs  BY DEF UndoInv
<1> HIDE DEF d, tx, s, g, created, old, text
<1>9. store'[d] = s /\ \A e \in Docs : e # d => store'[e] = store[e]  BY <1>2, <1>3, <1>8
<1>10. Lone(g)  BY <1>7 DEF Lone
<1> DEFINE H == G \cup {g}
<1>11. Stacked(undoGroups, redoGroups, H) /\ g \in H  BY <1>1, <1>10, MoreGroups
<1> HIDE DEF H
<1>12. undoGroups \in Seq(H) /\ redoGroups \in Seq(H)  BY <1>11 DEF Stacked
<1>13. Stacked(undoGroups', redoGroups', H)
  <2>1. undoGroups' \in Seq(H)  BY <1>4, <1>11, <1>12, AppendProperties
  <2>2. redoGroups' \in Seq(H)  BY <1>4, EmptySeq
  <2>. QED  BY <1>11, <2>1, <2>2 DEF Stacked
<1>14. ASSUME NEW e \in Docs \ WorkspaceDocs
       PROVE  Matches(store'[e], Snaps(undoGroups', e), Snaps(redoGroups', e))
  <2> DEFINE us == Snaps(undoGroups, e)
  <2> DEFINE rs == Snaps(redoGroups, e)
  <2>1. Matches(store[e], us, rs)  BY DEF GroupsInv
  <2>2. Snaps(redoGroups', e) = <<>>  BY <1>4, SnapsEmpty
  <2>3. Snaps(Append(undoGroups, g), e) = IF e \in Range(g.docs) THEN Append(us, g.snap[e]) ELSE us
    BY <1>11, <1>12, SnapsAppend, ZenonT(20)
  <2>4. us \in Seq(Marked(H, e)) /\ Nat \subseteq Marked(H, e)  BY <1>12, SnapsMarked DEF Marked
  <2>5. Shaped(store[e])  BY DocShape
  <2> HIDE DEF us, rs
  <2>6. CASE e = d
    <3>1. Snaps(undoGroups', e) = IF created THEN Append(us, text) ELSE us
      <4>1. e \in Range(g.docs) /\ g.snap[e] = text  BY <1>7, <2>6
      <4>2. CASE created
        BY <1>4, <2>3, <4>1, <4>2 DEF us
      <4>3. CASE ~created
        BY <1>4, <4>3 DEF us
      <4>. QED  BY <4>2, <4>3
    <3>2. Matches(old, us, rs)  BY <2>1, <2>6 DEF old
    <3> DEFINE S == Marked(H, e)
    <3>3. Nat \subseteq S /\ us \in Seq(S)  BY <2>4
    <3> HIDE DEF S
    <3>4. Matches(s, IF created THEN Append(us, text) ELSE us, <<>>)
      <4>1. Matches(RecordCommit(old, tx, policy, v),
                    IF StepCreated(old, policy, v) THEN Append(us, tx.from) ELSE us, <<>>)
        BY <1>5, <1>6, <3>2, <3>3, MatchesCommit
      <4>. QED  BY <1>6, <4>1 DEF s, created
    <3>. QED  BY <1>9, <2>2, <2>6, <3>1, <3>4, ZenonT(20)
  <2>7. CASE e # d
    <3>1. store'[e] = store[e]  BY <1>9, <2>7
    <3>2. Snaps(undoGroups', e) = us
      <4>1. e \notin Range(g.docs)  BY <1>7, <2>7
      <4>2. CASE created
        BY <1>4, <2>3, <4>1, <4>2 DEF us
      <4>3. CASE ~created
        BY <1>4, <4>3 DEF us
      <4>. QED  BY <4>2, <4>3
    <3>3. Matches(store[e], us, <<>>)  BY <2>1, <2>5, MatchesNoRedo
    <3>. QED  BY <2>2, <3>1, <3>2, <3>3
  <2>. QED  BY <2>6, <2>7
<1>. QED  BY <1>13, <1>14, ZenonT(20) DEF GroupsInv

(* The group that undo or redo moves from one stack to the other.          *)
LEMMA MovedGroup ==
  ASSUME NEW us, NEW rs, NEW G, Stacked(us, rs, G), us # <<>>, NEW c
  PROVE  LET g == Last(us)
             h == Group(g.docs, c)
         IN  /\ g \in G /\ h.docs = g.docs /\ \A d \in Range(g.docs) : h.snap[d] = c[d]
             /\ Stacked(us, rs, G \cup {h}) /\ Stacked(Front(us), Append(rs, h), G \cup {h})
<1> DEFINE g == Last(us)
<1> DEFINE h == Group(g.docs, c)
<1>1. us \in Seq(G) /\ rs \in Seq(G)  BY DEF Stacked
<1>2. g \in G  BY <1>1, FrontIs
<1>3. h.docs = g.docs /\ \A d \in Range(g.docs) : h.snap[d] = c[d]  BY GroupIs
<1>4. Lone(g)  BY <1>2 DEF Stacked
<1> HIDE DEF g, h
<1>5. Lone(h)  BY <1>3, <1>4 DEF Lone
<1> DEFINE H == G \cup {h}
<1>6. Stacked(us, rs, H) /\ h \in H  BY <1>5, MoreGroups
<1> HIDE DEF H
<1>7. us \in Seq(H) /\ rs \in Seq(H)  BY <1>6 DEF Stacked
<1>8. Front(us) \in Seq(H) /\ Append(rs, h) \in Seq(H)  BY <1>6, <1>7, FrontIs, AppendProperties
<1>9. Stacked(Front(us), Append(rs, h), H)  BY <1>6, <1>8 DEF Stacked
<1>. QED  BY <1>2, <1>3, <1>6, <1>9 DEF g, h, H

(* Which documents a group of one document tries.                          *)
LEMMA TriedOne ==
  ASSUME NEW d, NEW able
  PROVE  Tried(<<d>>, able) = {e \in OpenDocs : e = d}
<1>1. DOMAIN <<d>> = {1} /\ <<d>>[1] = d  OBVIOUS
<1>2. \A j \in 1..(1 - 1) : FALSE  OBVIOUS
<1> DEFINE docs == <<d>>
<1> HIDE DEF docs
<1>3. DOMAIN docs = {1} /\ docs[1] = d  BY <1>1 DEF docs
<1>4. \A e : (\E i \in DOMAIN docs : docs[i] = e /\ \A j \in 1..(i - 1) : docs[j] \in able) <=> e = d
  BY <1>2, <1>3
<1>5. Tried(docs, able) = {e \in OpenDocs : e = d}  BY <1>4 DEF Tried
<1>. QED  BY <1>5 DEF docs

LEMMA TriedNamed ==
  ASSUME NEW docs, NEW able
  PROVE  Tried(docs, able) \subseteq Range(docs) /\ Tried(docs, able) \subseteq OpenDocs
  BY DEF Tried, Range

LEMMA UndoGroups ==
  ASSUME UndoInv, GroupsInv, Undo
  PROVE  GroupsInv'
<1> DEFINE g == Last(undoGroups)
<1> DEFINE h == Group(g.docs, content)
<1> DEFINE tried == Tried(g.docs, Undoable)
<1> DEFINE all == Range(g.docs) \subseteq Undoable
<1>1. PICK G : Stacked(undoGroups, redoGroups, G)  BY DEF GroupsInv
<1>2. undoGroups # <<>>  BY DEF Undo
<1>3. store' = [d \in Docs |-> IF d \in tried THEN UndoStep(store[d]) ELSE store[d]]
  BY DEF Undo, UndoDocuments
<1>4. IF all THEN undoGroups' = Front(undoGroups) /\ redoGroups' = Append(redoGroups, h)
             ELSE undoGroups' = undoGroups /\ redoGroups' = redoGroups
  BY DEF Undo, groupVars
<1> DEFINE H == G \cup {h}
<1>5. /\ g \in G /\ h.docs = g.docs /\ \A d \in Range(g.docs) : h.snap[d] = content[d]
      /\ Stacked(undoGroups, redoGroups, H) /\ Stacked(Front(undoGroups), Append(redoGroups, h), H)
  BY <1>1, <1>2, MovedGroup, ZenonT(20)
<1>6. Lone(g) /\ h \in H  BY <1>1, <1>5 DEF Stacked
<1>7. tried \subseteq Range(g.docs) /\ tried \subseteq OpenDocs  BY TriedNamed
<1>8. /\ undoGroups \in Seq(H) /\ redoGroups \in Seq(H)
      /\ Front(undoGroups) \in Seq(H) /\ Append(redoGroups, h) \in Seq(H)
  BY <1>5, ZenonT(20) DEF Stacked
<1> HIDE DEF h, H, tried, all
<1>9. Stacked(undoGroups', redoGroups', H)
  <2>1. CASE all
    BY <1>4, <1>5, <2>1, ZenonT(20)
  <2>2. CASE ~all
    BY <1>4, <1>5, <2>2
  <2>. QED  BY <2>1, <2>2
<1>10. ASSUME NEW e \in Docs \ WorkspaceDocs
       PROVE  Matches(store'[e], Snaps(undoGroups', e), Snaps(redoGroups', e))
  <2> DEFINE s == store[e]
  <2> DEFINE us == Snaps(undoGroups, e)
  <2> DEFINE rs == Snaps(redoGroups, e)
  <2> DEFINE less == Snaps(Front(undoGroups), e)
  <2> DEFINE more == Snaps(Append(redoGroups, h), e)
  <2>1. Matches(s, us, rs)  BY DEF GroupsInv
  <2>2. Shaped(s) /\ content[e] \in Nat /\ Chained(s.undo, s.redo, content[e])  BY DocShape
  <2>3. us = IF e \in Range(g.docs) THEN Append(less, g.snap[e]) ELSE less  BY <1>2, <1>8, SnapsFront, ZenonT(20)
  <2>4. more = IF e \in Range(g.docs) THEN Append(rs, content[e]) ELSE rs
    <3>1. more = IF e \in Range(h.docs) THEN Append(rs, h.snap[e]) ELSE rs  BY <1>6, <1>8, SnapsAppend
    <3>. QED  BY <1>5, <3>1
  <2>5. store'[e] = IF e \in tried THEN UndoStep(s) ELSE s  BY <1>3
  <2>6. /\ all => Snaps(undoGroups', e) = less /\ Snaps(redoGroups', e) = more
        /\ ~all => Snaps(undoGroups', e) = us /\ Snaps(redoGroups', e) = rs
    BY <1>4, ZenonT(20)
  <2>7. less \in Seq(Marked(H, e)) /\ rs \in Seq(Marked(H, e))  BY <1>8, SnapsMarked
  <2>8. e \in Undoable <=> e \in OpenDocs /\ s.undo # <<>>  BY DEF Undoable
  <2>9. g.snap[e] \in Marked(H, e)
    <3>1. g \in H  BY <1>5 DEF H
    <3>2. g.snap[e] \in SnapsOf(H, e)  BY <3>1 DEF SnapsOf
    <3>. QED  BY <3>2 DEF Marked
  <2> HIDE DEF s, us, rs, less, more
  <2>10. CASE e \notin Range(g.docs)
    <3>1. e \notin tried  BY <1>7, <2>10
    <3>2. store'[e] = s  BY <2>5, <3>1
    <3>3. Snaps(undoGroups', e) = us /\ Snaps(redoGroups', e) = rs
      <4>1. less = us /\ more = rs  BY <2>3, <2>4, <2>10
      <4>. QED  BY <2>6, <4>1
    <3>. QED  BY <2>1, <3>2, <3>3
  <2>11. CASE e \in Range(g.docs)
    <3>1. g.docs = <<e>>  BY <1>6, <2>11 DEF Lone
    <3>2. e \in tried <=> e \in OpenDocs
      <4>1. tried = {x \in OpenDocs : x = e}  BY <3>1, TriedOne DEF tried
      <4>. QED  BY <4>1
    <3>3. all <=> e \in Undoable
      <4>1. Range(g.docs) = {e}  BY <3>1, OneRange
      <4>. QED  BY <4>1 DEF all
    <3>4. CASE e \in Undoable
      <4>1. store'[e] = UndoStep(s)  BY <2>5, <2>8, <3>2, <3>4
      <4>2. Snaps(undoGroups', e) = less /\ Snaps(redoGroups', e) = more  BY <2>6, <3>3, <3>4
      <4>3. us = Append(less, g.snap[e]) /\ more = Append(rs, content[e])  BY <2>3, <2>4, <2>11
      <4>4. s.undo # <<>> /\ Last(Last(s.undo)).to = content[e]  BY <2>2, <2>8, <3>4 DEF Chained
      <4> DEFINE S == Marked(H, e)
      <4> DEFINE x == g.snap[e]
      <4> DEFINE text == content[e]
      <4>5. Nat \subseteq S /\ x \in S /\ less \in Seq(S) /\ rs \in Seq(S)  BY <2>7, <2>9 DEF Marked
      <4>6. Matches(s, Append(less, x), rs) /\ text \in Nat /\ Last(Last(s.undo)).to = text  BY <2>1, <2>2, <4>3, <4>4
      <4> HIDE DEF S, x, text
      <4>7. Matches(UndoStep(s), less, Append(rs, text))  BY <2>2, <4>4, <4>5, <4>6, MatchesUndo
      <4>8. Matches(UndoStep(s), less, more)  BY <4>3, <4>7 DEF text
      <4>. QED  BY <4>1, <4>2, <4>8
    <3>5. CASE e \notin Undoable
      <4>1. Snaps(undoGroups', e) = us /\ Snaps(redoGroups', e) = rs  BY <2>6, <3>3, <3>5
      <4>2. store'[e].undo = s.undo /\ store'[e].redo = s.redo
        <5>1. CASE e \in tried
          <6>1. s.undo = <<>>  BY <2>8, <3>2, <3>5, <5>1
          <6>2. store'[e] = [s EXCEPT !.owner = None]  BY <2>5, <5>1, <6>1 DEF UndoStep
          <6>. QED  BY <2>2, <6>2 DEF Shaped, StoreFields
        <5>2. CASE e \notin tried
          BY <2>5, <5>2
        <5>. QED  BY <5>1, <5>2
      <4>. QED  BY <2>1, <4>1, <4>2 DEF Matches
    <3>. QED  BY <3>4, <3>5
  <2>. QED  BY <2>10, <2>11
<1>. QED  BY <1>9, <1>10, ZenonT(20) DEF GroupsInv

LEMMA RedoGroups ==
  ASSUME UndoInv, GroupsInv, Redo
  PROVE  GroupsInv'
<1> DEFINE g == Last(redoGroups)
<1> DEFINE h == Group(g.docs, content)
<1> DEFINE tried == Tried(g.docs, Redoable)
<1> DEFINE all == Range(g.docs) \subseteq Redoable
<1>1. PICK G : Stacked(redoGroups, undoGroups, G)  BY DEF GroupsInv, Stacked
<1>2. redoGroups # <<>>  BY DEF Redo
<1>3. store' = [d \in Docs |-> IF d \in tried THEN RedoStep(store[d]) ELSE store[d]]
  BY DEF Redo, RedoDocuments
<1>4. IF all THEN redoGroups' = Front(redoGroups) /\ undoGroups' = Append(undoGroups, h)
             ELSE redoGroups' = redoGroups /\ undoGroups' = undoGroups
  BY DEF Redo, groupVars
<1> DEFINE H == G \cup {h}
<1>5. /\ g \in G /\ h.docs = g.docs /\ \A d \in Range(g.docs) : h.snap[d] = content[d]
      /\ Stacked(redoGroups, undoGroups, H) /\ Stacked(Front(redoGroups), Append(undoGroups, h), H)
  BY <1>1, <1>2, MovedGroup, ZenonT(20)
<1>6. Lone(g) /\ h \in H  BY <1>1, <1>5 DEF Stacked
<1>7. tried \subseteq Range(g.docs) /\ tried \subseteq OpenDocs  BY TriedNamed
<1>8. /\ redoGroups \in Seq(H) /\ undoGroups \in Seq(H)
      /\ Front(redoGroups) \in Seq(H) /\ Append(undoGroups, h) \in Seq(H)
  BY <1>5 DEF Stacked
<1> HIDE DEF h, H, tried, all
<1>9. Stacked(redoGroups', undoGroups', H)
  <2>1. CASE all
    BY <1>4, <1>5, <2>1, ZenonT(20)
  <2>2. CASE ~all
    BY <1>4, <1>5, <2>2
  <2>. QED  BY <2>1, <2>2
<1>10. ASSUME NEW e \in Docs \ WorkspaceDocs
       PROVE  Matches(store'[e], Snaps(undoGroups', e), Snaps(redoGroups', e))
  <2> DEFINE s == store[e]
  <2> DEFINE rs == Snaps(redoGroups, e)
  <2> DEFINE us == Snaps(undoGroups, e)
  <2> DEFINE less == Snaps(Front(redoGroups), e)
  <2> DEFINE more == Snaps(Append(undoGroups, h), e)
  <2>1. Matches(s, us, rs)  BY DEF GroupsInv
  <2>2. Shaped(s) /\ content[e] \in Nat /\ Chained(s.undo, s.redo, content[e])  BY DocShape
  <2>3. rs = IF e \in Range(g.docs) THEN Append(less, g.snap[e]) ELSE less  BY <1>2, <1>8, SnapsFront, ZenonT(20)
  <2>4. more = IF e \in Range(g.docs) THEN Append(us, content[e]) ELSE us
    <3>1. more = IF e \in Range(h.docs) THEN Append(us, h.snap[e]) ELSE us  BY <1>6, <1>8, SnapsAppend
    <3>. QED  BY <1>5, <3>1
  <2>5. store'[e] = IF e \in tried THEN RedoStep(s) ELSE s  BY <1>3
  <2>6. /\ all => Snaps(redoGroups', e) = less /\ Snaps(undoGroups', e) = more
        /\ ~all => Snaps(redoGroups', e) = rs /\ Snaps(undoGroups', e) = us
    BY <1>4, ZenonT(20)
  <2>7. less \in Seq(Marked(H, e)) /\ us \in Seq(Marked(H, e))  BY <1>8, SnapsMarked
  <2>8. e \in Redoable <=> e \in OpenDocs /\ s.redo # <<>>  BY DEF Redoable
  <2>9. g.snap[e] \in Marked(H, e)
    <3>1. g \in H  BY <1>5 DEF H
    <3>2. g.snap[e] \in SnapsOf(H, e)  BY <3>1 DEF SnapsOf
    <3>. QED  BY <3>2 DEF Marked
  <2> HIDE DEF s, us, rs, less, more
  <2>10. CASE e \notin Range(g.docs)
    <3>1. e \notin tried  BY <1>7, <2>10
    <3>2. store'[e] = s  BY <2>5, <3>1
    <3>3. Snaps(redoGroups', e) = rs /\ Snaps(undoGroups', e) = us
      <4>1. less = rs /\ more = us  BY <2>3, <2>4, <2>10
      <4>. QED  BY <2>6, <4>1
    <3>. QED  BY <2>1, <3>2, <3>3
  <2>11. CASE e \in Range(g.docs)
    <3>1. g.docs = <<e>>  BY <1>6, <2>11 DEF Lone
    <3>2. e \in tried <=> e \in OpenDocs
      <4>1. tried = {x \in OpenDocs : x = e}  BY <3>1, TriedOne DEF tried
      <4>. QED  BY <4>1
    <3>3. all <=> e \in Redoable
      <4>1. Range(g.docs) = {e}  BY <3>1, OneRange
      <4>. QED  BY <4>1 DEF all
    <3>4. CASE e \in Redoable
      <4>1. store'[e] = RedoStep(s)  BY <2>5, <2>8, <3>2, <3>4
      <4>2. Snaps(redoGroups', e) = less /\ Snaps(undoGroups', e) = more  BY <2>6, <3>3, <3>4
      <4>3. rs = Append(less, g.snap[e]) /\ more = Append(us, content[e])  BY <2>3, <2>4, <2>11
      <4>4. s.redo # <<>> /\ Last(s.redo)[1].from = content[e]  BY <2>2, <2>8, <3>4 DEF Chained
      <4> DEFINE S == Marked(H, e)
      <4> DEFINE x == g.snap[e]
      <4> DEFINE text == content[e]
      <4>5. Nat \subseteq S /\ x \in S /\ less \in Seq(S) /\ us \in Seq(S)  BY <2>7, <2>9 DEF Marked
      <4>6. Matches(s, us, Append(less, x)) /\ text \in Nat /\ Last(s.redo)[1].from = text  BY <2>1, <2>2, <4>3, <4>4
      <4> HIDE DEF S, x, text
      <4>7. Matches(RedoStep(s), Append(us, text), less)  BY <2>2, <4>4, <4>5, <4>6, MatchesRedo, ZenonT(20)
      <4>8. Matches(RedoStep(s), more, less)  BY <4>3, <4>7 DEF text
      <4>. QED  BY <4>1, <4>2, <4>8
    <3>5. CASE e \notin Redoable
      <4>1. Snaps(redoGroups', e) = rs /\ Snaps(undoGroups', e) = us  BY <2>6, <3>3, <3>5
      <4>2. store'[e].undo = s.undo /\ store'[e].redo = s.redo
        <5>1. CASE e \in tried
          <6>1. s.redo = <<>>  BY <2>8, <3>2, <3>5, <5>1
          <6>2. store'[e] = [s EXCEPT !.owner = None]  BY <2>5, <5>1, <6>1 DEF RedoStep
          <6>. QED  BY <2>2, <6>2 DEF Shaped, StoreFields
        <5>2. CASE e \notin tried
          BY <2>5, <5>2
        <5>. QED  BY <5>1, <5>2
      <4>. QED  BY <2>1, <4>1, <4>2 DEF Matches
    <3>. QED  BY <3>4, <3>5
  <2>. QED  BY <2>10, <2>11
<1>11. Stacked(undoGroups', redoGroups', H)  BY <1>9 DEF Stacked
<1>. QED  BY <1>10, <1>11, ZenonT(20) DEF GroupsInv

(* A workspace edit adds groups of its own documents only, and edits none  *)
(* but those.                                                              *)
LEMMA WorkspaceEditGroups ==
  ASSUME UndoInv, GroupsInv, NEW plan \in Plans, NEW applied \in 0..Len(plan), NEW single, NEW w \in Weights,
         NEW saved, ApplyWorkspaceEdit(plan, applied, single, w, saved)
  PROVE  GroupsInv'
<1> DEFINE n == Len(plan)
<1> DEFINE reached == IF single \/ applied = n THEN n ELSE applied + 1
<1> DEFINE temps == {d \in {plan[i] : i \in 1..reached} : IsFresh(d)}
<1> DEFINE edited == {plan[i] : i \in 1..applied}
<1> DEFINE left == IF applied = n /\ ~saved THEN edited ELSE edited \ temps
<1> DEFINE groups == IF single THEN <<Group(plan, content)>>
                     ELSE [i \in 1..reached |-> Group(<<plan[i]>>, content)]
<1>1. /\ redoGroups' = <<>> /\ undoGroups' = undoGroups \o groups
      /\ store' = [d \in Docs |-> IF d \in left THEN Commit(store, d, "Record", None, w)[d] ELSE store[d]]
  BY ZenonT(20) DEF ApplyWorkspaceEdit
<1>2. n \in Nat /\ plan \in Seq(WorkspaceDocs) /\ plan \in [1..n -> WorkspaceDocs]
  <2>1. PICK k \in 1..Cardinality(WorkspaceDocs) : plan \in [1..k -> WorkspaceDocs]  BY DEF Plans
  <2>2. k \in Nat  BY <2>1
  <2>3. plan \in Seq(WorkspaceDocs)  BY <2>1, <2>2, SeqDef
  <2>. QED  BY <2>3, LenProperties
<1>3. left \subseteq WorkspaceDocs
  <2>1. \A i \in 1..applied : i \in 1..n  BY <1>2
  <2>2. edited \subseteq WorkspaceDocs  BY <1>2, <2>1
  <2>. QED  BY <2>2
<1>4. reached \in Nat /\ reached <= n
  <2>1. applied \in 0..n  OBVIOUS
  <2>2. CASE single \/ applied = n
    <3>1. reached = n  BY <2>2, ZenonT(20)
    <3> HIDE DEF reached, n
    <3>. QED  BY <1>2, <3>1
  <2>3. CASE ~(single \/ applied = n)
    <3>1. reached = applied + 1 /\ applied # n  BY <2>3, ZenonT(20)
    <3> HIDE DEF reached, n
    <3>. QED  BY <1>2, <2>1, <3>1
  <2>. QED  BY <2>2, <2>3
<1> HIDE DEF left, reached, n
<1> DEFINE H == {Group(plan, content)} \cup {Group(<<d>>, content) : d \in WorkspaceDocs}
<1>5. groups \in Seq(H)
  <2>1. CASE single
    <3>1. groups = <<Group(plan, content)>> /\ Group(plan, content) \in H  BY <2>1
    <3> HIDE DEF H, groups
    <3>. QED  BY <3>1
  <2>2. CASE ~single
    <3>1. \A i \in 1..reached : Group(<<plan[i]>>, content) \in H
      <4>1. \A i \in 1..reached : i \in 1..n  BY <1>2, <1>4
      <4>. QED  BY <1>2, <4>1
    <3>2. groups = [i \in 1..reached |-> Group(<<plan[i]>>, content)]  BY <2>2
    <3> HIDE DEF H, groups
    <3>3. groups \in [1..reached -> H]  BY <3>1, <3>2
    <3>. QED  BY <1>4, <3>3, SeqDef
  <2>. QED  BY <2>1, <2>2
<1>6. \A g \in H : Range(g.docs) \subseteq WorkspaceDocs
  <2> SUFFICES ASSUME NEW g \in H PROVE Range(g.docs) \subseteq WorkspaceDocs
    OBVIOUS
  <2>1. CASE g = Group(plan, content)
    <3>1. g.docs = plan  BY <2>1, GroupIs
    <3>. QED  BY <1>2, <3>1 DEF Range
  <2>2. CASE \E d \in WorkspaceDocs : g = Group(<<d>>, content)
    <3>1. PICK d \in WorkspaceDocs : g = Group(<<d>>, content)  BY <2>2
    <3>2. g.docs = <<d>>  BY <3>1, GroupIs
    <3>. QED  BY <3>2, OneRange
  <2>. QED  BY <2>1, <2>2, ZenonT(20)
<1> HIDE DEF H, groups
<1>7. \A g \in H : Lone(g)  BY <1>6 DEF Lone
<1>8. PICK G : Stacked(undoGroups, redoGroups, G)  BY DEF GroupsInv
<1> DEFINE both == G \cup H
<1>9. undoGroups \in Seq(both) /\ groups \in Seq(both)
  <2>1. undoGroups \in Seq(G) /\ G \subseteq both /\ H \subseteq both  BY <1>8 DEF Stacked
  <2>. QED  BY <1>5, <2>1, Wider
<1>10. \A g \in both : Lone(g)  BY <1>7, <1>8 DEF Stacked
<1> HIDE DEF both
<1>11. Stacked(undoGroups', redoGroups', both)
  <2>1. undoGroups' \in Seq(both)  BY <1>1, <1>9, ConcatProperties
  <2>2. redoGroups' \in Seq(both)  BY <1>1, EmptySeq
  <2>. QED  BY <1>10, <2>1, <2>2 DEF Stacked
<1>12. ASSUME NEW e \in Docs \ WorkspaceDocs
       PROVE  Matches(store'[e], Snaps(undoGroups', e), Snaps(redoGroups', e))
  <2> DEFINE s == store[e]
  <2>1. Matches(s, Snaps(undoGroups, e), Snaps(redoGroups, e)) /\ Shaped(s)  BY DocShape, ZenonT(20) DEF GroupsInv
  <2>2. store'[e] = s  BY <1>1, <1>3, ZenonT(20)
  <2> HIDE DEF s
  <2>3. Snaps(undoGroups', e) = Snaps(undoGroups, e)
    <3>1. \A i \in 1..Len(groups) : groups[i] \in H  BY <1>5, ElementOfSeq
    <3>2. \A i \in 1..Len(groups) : e \notin Range(groups[i].docs)  BY <1>6, <3>1
    <3>. QED  BY <1>1, <1>9, <3>2, SnapsOthers, ZenonT(20)
  <2>4. Snaps(redoGroups', e) = <<>>  BY <1>1, SnapsEmpty, ZenonT(20)
  <2>5. Matches(s, Snaps(undoGroups, e), <<>>)  BY <2>1, MatchesNoRedo
  <2>. QED  BY <2>2, <2>3, <2>4, <2>5
<1>. QED  BY <1>11, <1>12, ZenonT(20) DEF GroupsInv

LEMMA OneKept ==
  ASSUME UndoInv, GroupsInv, undoGroups' = undoGroups, redoGroups' = redoGroups, NEW d \in Docs, NEW s,
         store' = [store EXCEPT ![d] = s],
         \/ s.undo = store[d].undo /\ s.redo = store[d].redo
         \/ s.undo = <<>> /\ s.redo = <<>>
  PROVE  GroupsInv'
<1>1. DOMAIN store = Docs  BY DEF UndoInv
<1>2. store'[d] = s /\ \A e \in Docs : e # d => store'[e] = store[e]  BY <1>1
<1>3. \A e \in Docs : \/ store'[e].undo = store[e].undo /\ store'[e].redo = store[e].redo
                      \/ store'[e].undo = <<>> /\ store'[e].redo = <<>>
  BY <1>2, ZenonT(20)
<1>. QED  BY <1>3, KeptOk

LEMMA NewEmpty ==
  SetClean(NewStore).undo = <<>> /\ SetClean(NewStore).redo = <<>>
  BY DEF SetClean, NewStore

LEMMA InitGroups ==
  ASSUME Init
  PROVE  GroupsInv
<1>1. undoGroups = <<>> /\ redoGroups = <<>> /\ \A d \in Docs : store[d] = SetClean(NewStore)  BY DEF Init
<1>2. Stacked(undoGroups, redoGroups, {})
  <2>1. <<>> \in Seq({})  BY EmptySeq
  <2>. QED  BY <1>1, <2>1 DEF Stacked
<1>3. ASSUME NEW d \in Docs \ WorkspaceDocs
      PROVE  Matches(store[d], Snaps(undoGroups, d), Snaps(redoGroups, d))
  <2>1. Snaps(undoGroups, d) = <<>> /\ Snaps(redoGroups, d) = <<>>  BY <1>1, SnapsEmpty
  <2> DEFINE s == store[d]
  <2>2. s.undo = <<>> /\ s.redo = <<>>  BY <1>1, NewEmpty
  <2> HIDE DEF s
  <2>3. <<>> \in Seq(Nat)  BY EmptySeq
  <2>4. Matches(s, <<>>, <<>>)  BY <2>2, <2>3, MatchesNew, ZenonT(20)
  <2>. QED  BY <2>1, <2>4 DEF s
<1>. QED  BY <1>2, <1>3, ZenonT(20) DEF GroupsInv

LEMMA NextGroups ==
  ASSUME UndoInv, GroupsInv, [Next]_vars
  PROVE  GroupsInv'
<1>1. ASSUME NEW v \in Views, NEW w \in Weights,
             ApplyEdit(v, "Record", w) \/ ApplyEdit(v, "MergeWithCurrentGroup", w)
      PROVE  GroupsInv'
  BY <1>1, ApplyEditGroups
<1>2. CASE Undo
  BY <1>2, UndoGroups
<1>3. CASE Redo
  BY <1>3, RedoGroups
<1>4. ASSUME store' = store, undoGroups' = undoGroups, redoGroups' = redoGroups PROVE GroupsInv'
  BY <1>4, KeptOk
<1>5. ASSUME NEW v \in Views, OpenView(v) PROVE GroupsInv'
  BY <1>4, <1>5 DEF OpenView, docVars, groupVars
<1>6. ASSUME NEW v \in Views, CloseView(v) PROVE GroupsInv'
  <2> DEFINE d == DocOf[v]
  <2>1. d \in Docs  BY DEF Docs
  <2>2. undoGroups' = undoGroups /\ redoGroups' = redoGroups  BY <1>6 DEF CloseView
  <2>3. store' = store \/ store' = [store EXCEPT ![d] = SetClean(NewStore)]  BY <1>6 DEF CloseView, Drop
  <2> HIDE DEF d
  <2>4. CASE store' = store
    BY <1>4, <2>2, <2>4
  <2>5. CASE store' = [store EXCEPT ![d] = SetClean(NewStore)]
    BY <2>1, <2>2, <2>5, NewEmpty, OneKept, ZenonT(20)
  <2>. QED  BY <2>3, <2>4, <2>5
<1>7. ASSUME NEW d \in Docs, ClearUndoGroup(d) PROVE GroupsInv'
  <2> DEFINE s == [store[d] EXCEPT !.owner = None]
  <2>1. Shaped(store[d])  BY DocShape
  <2>2. s.undo = store[d].undo /\ s.redo = store[d].redo  BY <2>1 DEF Shaped, StoreFields
  <2>3. store' = [store EXCEPT ![d] = s] /\ undoGroups' = undoGroups /\ redoGroups' = redoGroups
    BY <1>7 DEF ClearUndoGroup
  <2> HIDE DEF s
  <2>. QED  BY <2>2, <2>3, OneKept, ZenonT(20)
<1>8. ASSUME NEW d \in Docs, Save(d) PROVE GroupsInv'
  <2> DEFINE s == SetClean(store[d])
  <2>1. Shaped(store[d])  BY DocShape
  <2>2. s.undo = store[d].undo /\ s.redo = store[d].redo  BY <2>1 DEF Shaped, StoreFields, SetClean
  <2>3. store' = [store EXCEPT ![d] = s] /\ undoGroups' = undoGroups /\ redoGroups' = redoGroups
    BY <1>8 DEF Save
  <2> HIDE DEF s
  <2>. QED  BY <2>2, <2>3, OneKept, ZenonT(20)
<1>9. ASSUME NEW d \in Docs, SetReadonly(d) \/ LoadFails(d) PROVE GroupsInv'
  BY <1>4, <1>9 DEF SetReadonly, LoadFails, docVars, groupVars
<1>10. ASSUME NEW d \in Docs, NEW ro \in BOOLEAN, ApplyLoadedFile(d, ro) PROVE GroupsInv'
  <2>1. undoGroups' = undoGroups /\ redoGroups' = redoGroups  BY <1>10 DEF ApplyLoadedFile
  <2>2. store' = store \/ store' = [store EXCEPT ![d] = SetClean(NewStore)]
    BY <1>10 DEF ApplyLoadedFile, ResetContent, docVars
  <2>3. CASE store' = store
    BY <1>4, <2>1, <2>3
  <2>4. CASE store' = [store EXCEPT ![d] = SetClean(NewStore)]
    BY <2>1, <2>4, NewEmpty, OneKept, ZenonT(20)
  <2>. QED  BY <2>2, <2>3, <2>4
<1>11. CASE WorkspaceEdit
  <2>1. PICK plan \in Plans, w \in Weights :
          \E applied \in 0..Len(plan), single \in {TRUE, Len(plan) = 1} :
            \E saved \in {TRUE, applied < Len(plan)} : ApplyWorkspaceEdit(plan, applied, single, w, saved)
    BY <1>11, ZenonT(20) DEF WorkspaceEdit
  <2>2. PICK applied \in 0..Len(plan), single \in {TRUE, Len(plan) = 1} :
          \E saved \in {TRUE, applied < Len(plan)} : ApplyWorkspaceEdit(plan, applied, single, w, saved)
    BY <2>1, ZenonT(20)
  <2>3. PICK saved \in {TRUE, applied < Len(plan)} : ApplyWorkspaceEdit(plan, applied, single, w, saved)
    BY <2>2, ZenonT(20)
  <2>. QED  BY <2>3, WorkspaceEditGroups
<1>12. CASE UNCHANGED vars
  BY <1>4, <1>12 DEF vars
<1>. QED  BY <1>1, <1>2, <1>3, <1>5, <1>6, <1>7, <1>8, <1>9, <1>10, <1>11, <1>12, ZenonT(20) DEF Next

(* The two layers of undo stay in step, for a document outside workspace   *)
(* edits: its undo steps are those of the newest groups that name it, and  *)
(* the views restored with a group are those of the text then shown        *)
(* (undo_manager finalize_edit, undo, redo over undo_store), whatever was  *)
(* merged, evicted, reloaded, closed, or edited elsewhere in between.      *)
THEOREM GroupsTheorem == Spec => []GroupsMatchSteps
<1>1. Init => GroupsInv  BY InitGroups
<1>2. UndoInv /\ GroupsInv /\ [Next]_vars => GroupsInv'  BY NextGroups
<1>3. UndoInv /\ GroupsInv => GroupsMatchSteps
  <2>1. ASSUME UndoInv, GroupsInv, NEW d \in OpenDocs \ WorkspaceDocs
        PROVE  /\ Len(Firsts(store[d].undo)) <= Len(Snaps(undoGroups, d))
               /\ Agree(Firsts(store[d].undo), Snaps(undoGroups, d))
               /\ Agree(Lasts(store[d].redo), Snaps(redoGroups, d))
    <3> DEFINE s == store[d]
    <3>1. d \in Docs \ WorkspaceDocs  BY DEF OpenDocs
    <3>2. Matches(s, Snaps(undoGroups, d), Snaps(redoGroups, d)) /\ Shaped(s)  BY <2>1, <3>1, DocShape DEF GroupsInv
    <3> HIDE DEF s
    <3>3. Len(Firsts(s.undo)) = Len(s.undo)  BY <3>2, MarksAre DEF Shaped
    <3>4. /\ Len(Firsts(s.undo)) <= Len(Snaps(undoGroups, d)) /\ Agree(Firsts(s.undo), Snaps(undoGroups, d))
          /\ Agree(Lasts(s.redo), Snaps(redoGroups, d))
      BY <3>2, <3>3 DEF Matches
    <3>. QED  BY <3>4 DEF s
  <2>. QED  BY <2>1, ZenonT(20) DEF GroupsMatchSteps
<1>. QED  BY <1>1, <1>2, <1>3, UndoInvTheorem, PTL DEF Spec
=============================================================================
