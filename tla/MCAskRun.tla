------------------------------ MODULE MCAskRun ------------------------------
(***************************************************************************)
(* One request over two table blurbs and a passage the caller may not      *)
(* read.                                                                   *)
(***************************************************************************)
EXTENDS AskRun, TLC

Blurb == ("blurb1" :> "risks") @@ ("blurb2" :> "issues")
=============================================================================
