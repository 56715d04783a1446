-------------------------- MODULE MCCrowConnection --------------------------
(***************************************************************************)
(* Two connections of one worker.                                          *)
(***************************************************************************)
EXTENDS CrowConnection, TLC

CONSTANTS c1, c2

(* One client may send a request in two parts, or two, and the other one. *)
MCMaxSends == c1 :> 2 @@ c2 :> 1
=============================================================================
