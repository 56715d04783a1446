------------------------------- MODULE Ledger -------------------------------
(***************************************************************************)
(* What a node promises, as the comments of every port put it: a block it  *)
(* mines takes up all transactions that wait and goes on top of the chain, *)
(* and the only other thing that happens to a chain is to be replaced by a *)
(* longer valid one, of another node.  One node changes in a step.         *)
(***************************************************************************)
EXTENDS Blocks

VARIABLES
  chain,     \* chain[n]: the blocks node n believes in
  pending    \* pending[n]: the transactions that wait at n

ledgerVars == << chain, pending >>

Init ==
  \A n \in Node : Len(chain[n]) = 1 /\ SoundChain(chain[n]) /\ pending[n] = << >>

OthersKeep(n) ==
  \A m \in Node \ {n} : chain'[m] = chain[m] /\ pending'[m] = pending[m]

(* A transaction starts to wait. *)
Accept(n) ==
  /\ \E tx \in Transaction : pending'[n] = Append(pending[n], tx)
  /\ chain'[n] = chain[n]

(* A block that carries all that waits, and the reward, is put on top. *)
Extend(n) ==
  /\ chain'[n] = Append(chain[n], last_block(chain'[n]))
  /\ last_block(chain'[n]).transactions = Append(pending[n], Reward(n))
  /\ SoundChain(chain'[n])
  /\ pending'[n] = << >>

(* A longer chain, which another node made longer, takes the place of the *)
(* chain; what waits goes on waiting.                                     *)
Adopt(n) ==
  /\ Len(chain'[n]) > Len(chain[n])
  /\ SoundChain(chain'[n])
  /\ ~ MinedBy(last_block(chain'[n]), n)
  /\ pending'[n] = pending[n]

Next ==
  \E n \in Node : /\ Accept(n) \/ Extend(n) \/ Adopt(n)
                  /\ OthersKeep(n)

Spec == Init /\ [][Next]_ledgerVars
=============================================================================
