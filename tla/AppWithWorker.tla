--------------------------- MODULE AppWithWorker ---------------------------
(***************************************************************************)
(* app-with-worker.js: /mine hands the last block to a worker thread and   *)
(* gives the event loop back.  The block is forged when the worker's       *)
(* message arrives, on top of whatever the chain has become by then, but   *)
(* with the proof for, and the hash of, the block that was last before.    *)
(* The rest of the program is that of app.js.                              *)
(***************************************************************************)
EXTENDS App

CONSTANTS
  Worker,        \* activations of /mine that may be open at once
  WorkerOwner    \* the node each of them runs on

ASSUME WorkerAssumption == WorkerOwner \in [Worker -> Node]

VARIABLE
  workers        \* workers[w]: << lastBlock >> while w searches, else << >>

workerVars == << loopVars, workers >>

WorkersTypeOK == TypeOK /\ workers \in [Worker -> Seq(Block)]

WorkerInit == LoopInit /\ workers = [w \in Worker |-> << >>]

(* GET /mine: lastBlock is read here. *)
MineStarts(w) ==
  /\ workers[w] = << >>
  /\ workers' = [workers EXCEPT ![w] = << last_block(chain[WorkerOwner[w]]) >>]
  /\ UNCHANGED loopVars

(* The 'message' event: lastBlock is used here. *)
MineEnds(w) ==
  /\ workers[w] # << >>
  /\ \E proof \in 0 .. MaxProof : Forge(WorkerOwner[w], workers[w][1], proof)
  /\ workers' = [workers EXCEPT ![w] = << >>]

WorkerNext ==
  \/ LoopNext /\ UNCHANGED workers
  \/ \E w \in Worker : MineStarts(w) \/ MineEnds(w)

WorkerSpec == WorkerInit /\ [][WorkerNext]_workerVars

-----------------------------------------------------------------------------
(***************************************************************************)
(* The index of a block is its place in the chain, whatever block its      *)
(* proof was made for: newBlock takes it from the chain of the moment.     *)
(***************************************************************************)
IndicesArePlaces ==
  \A n \in Node : \A i \in 1 .. Len(chain[n]) : chain[n][i].index = i

(***************************************************************************)
(* A chain broken by a late worker stays at home: a chain that changes     *)
(* without a block being mined is one taken over, and is then valid,       *)
(* whatever the peers serve.                                               *)
(***************************************************************************)
OnlySoundChainsAdopted ==
  [][\A n \in Node :
       chain'[n] # chain[n] => clock' # clock \/ SoundChain(chain'[n])]_workerVars
=============================================================================
