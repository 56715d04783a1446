-------------------------------- MODULE App --------------------------------
(***************************************************************************)
(* app.js: the proof of work is searched for inside the /mine handler, so  *)
(* the event loop does nothing else until the new block is in the chain.   *)
(***************************************************************************)
EXTENDS EventLoop

vars == loopVars

Mine(n) ==
  \E proof \in 0 .. MaxProof : Forge(n, last_block(chain[n]), proof)

Init == LoopInit

Next == LoopNext \/ \E n \in Node : Mine(n)

Spec == Init /\ [][Next]_vars

FairSpec == Spec /\ LoopFairness
=============================================================================
