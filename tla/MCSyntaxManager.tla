-------------------------- MODULE MCSyntaxManager --------------------------
(***************************************************************************)
(* A document between a medium text and two large ones, and a view that    *)
(* scrolls between two parts of it.                                        *)
(***************************************************************************)
EXTENDS SyntaxManager, TLC

CONSTANTS medium, large, larger

MCBytes == medium :> 100 @@ large :> 200 @@ larger :> 220
MCEdits == {<<large, larger>>, <<larger, medium>>, <<medium, large>>}
MCInitView == <<1, 3>>
MCViewports == {MCInitView, <<17, 19>>}
=============================================================================
