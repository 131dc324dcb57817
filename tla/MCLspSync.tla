----------------------------- MODULE MCLspSync -----------------------------
(***************************************************************************)
(* LspSync, and the batches its incremental sends carry, on a document of  *)
(* two lines.                                                              *)
(***************************************************************************)
EXTENDS LspSync, Coalesce, TLC

CONSTANTS a, b

MCUnits == a :> 1 @@ b :> 1 @@ NL :> 1
MCInserts == {<<a>>, <<b, NL>>, <<a, b>>}
MCBase == <<a, NL, b, b>>

=============================================================================
