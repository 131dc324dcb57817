---------------------------- MODULE MCEditorUndo ----------------------------
(***************************************************************************)
(* A plain document, a document the language server edits, and a file it   *)
(* may open for the time of a workspace edit.                              *)
(***************************************************************************)
EXTENDS EditorUndo, TLC

CONSTANTS v1, v2, v3, plain, shared, file

MCDocOf == v1 :> plain @@ v2 :> shared @@ v3 :> file
MCMaxText == plain :> 3 @@ shared :> 1 @@ file :> 1
=============================================================================
