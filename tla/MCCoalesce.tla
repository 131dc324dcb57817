---------------------------- MODULE MCCoalesce -----------------------------
(***************************************************************************)
(* The operations of one batch, one after another, on a document.          *)
(***************************************************************************)
EXTENDS Coalesce, TLC

CONSTANTS a, b

VARIABLES text, changes

MCUnits == a :> 1 @@ b :> 1 @@ NL :> 1
MCInserts == {<<a>>, <<b, NL>>}
MCBase == <<a, NL, b, NL, a, b>>

Init == text = Base /\ changes = <<>>

Edit(op) ==
  /\ Len(changes) < MaxBatch
  /\ changes' = Append(changes, compute_lsp_change(text, op)) /\ text' = Edited(text, op)

Next == \E op \in Operations(text) : Edit(op)

Spec == Init /\ [][Next]_<<text, changes>>

(* "The coalesced changes produce the same result when applied             *)
(* sequentially" (coalesce_changes).                                       *)
CoalescedSameResult == ApplyAll(Base, coalesce_changes(changes)) = text
=============================================================================
