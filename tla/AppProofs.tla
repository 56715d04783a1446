----------------------------- MODULE AppProofs -----------------------------
(***************************************************************************)
(* Theorems about app.js and app-with-worker.js, for any nodes, any number *)
(* of open resolves and workers, any requests and any hash function whose  *)
(* digests do not collide.                                                 *)
(***************************************************************************)
EXTENDS AppWithWorker, BlockProofs

-----------------------------------------------------------------------------
(* Typing *)

(* What is registered is a peer. *)
LEMMA HostsAreNodes ==
  ASSUME NEW n \in Node, NEW body \in RegisterRequest[n], NEW i \in 1 .. Len(body)
  PROVE  HostsAdded(body[i]) \subseteq Peer
<1>1. body \in Seq(Address)
  BY EventLoopAssumption
<1>2. body[i] \in Address
  BY <1>1
<1>3. body[i].host \in Node
  BY <1>2 DEF Address
<1> QED
  BY <1>3 DEF HostsAdded, Peer

LEMMA IdleType ==
  ASSUME NEW c \in Call
  PROVE  Idle(c) \in CallState
<1>1. Owner[c] \in Peer
  BY EventLoopAssumption DEF Peer
<1>2. << >> \in Seq(Block)
  OBVIOUS
<1> QED
  BY <1>1, <1>2 DEF Idle, CallState

LEMMA InitTyped == Init => TypeOK
<1> SUFFICES ASSUME Init PROVE TypeOK
  OBVIOUS
<1>1. chain \in [Node -> Seq(Block)]
  BY GenesisSound, EventLoopAssumption DEF Init, LoopInit
<1>2. currentTransactions \in [Node -> Seq(Transaction)]
  BY DEF Init, LoopInit
<1>3. nodes \in [Node -> SUBSET Peer]
  BY DEF Init, LoopInit
<1>4. calls \in [Call -> CallState]
  BY IdleType DEF Init, LoopInit
<1>5. clock \in Nat /\ promised \in [UserTransaction -> Nat]
  BY EventLoopAssumption DEF Init, LoopInit
<1> QED
  BY <1>1, <1>2, <1>3, <1>4, <1>5 DEF TypeOK

LEMMA NewTransactionTyped ==
  ASSUME TypeOK, \A n \in Node : Len(chain[n]) >= 1,
         NEW n \in Node, NEW tx \in UserTransaction, NewTransaction(n, tx)
  PROVE  TypeOK' /\ promised'[tx] # 0
<1>1. tx \in Transaction
  BY DEF Transaction, Minted
<1>2. currentTransactions' \in [Node -> Seq(Transaction)]
  BY <1>1 DEF TypeOK, NewTransaction, AcceptTransaction
<1>3. last_block(chain[n]).index \in Nat
  <2>1. chain[n] \in Seq(Block) /\ Len(chain[n]) >= 1
    BY DEF TypeOK
  <2>2. chain[n][Len(chain[n])] \in Block
    BY <2>1
  <2> QED
    BY <2>2 DEF last_block, Block
<1>4. promised' \in [UserTransaction -> Nat] /\ promised'[tx] # 0
  BY <1>3 DEF TypeOK, NewTransaction
<1> QED
  BY <1>2, <1>4 DEF TypeOK, NewTransaction

LEMMA MissingValuesTyped ==
  ASSUME TypeOK, NEW n \in Node, NewTransactionMissingValues(n)
  PROVE  TypeOK'
<1>1. UndefinedTransaction \in Transaction
  BY DEF Transaction, Minted
<1>2. currentTransactions' \in [Node -> Seq(Transaction)]
  BY <1>1 DEF TypeOK, NewTransactionMissingValues, AcceptTransaction
<1> QED
  BY <1>2 DEF TypeOK, NewTransactionMissingValues

LEMMA RegisterNodesTyped ==
  ASSUME TypeOK, NEW n \in Node, NEW body \in RegisterRequest[n],
         RegisterNodes(n, body)
  PROVE  TypeOK'
<1> DEFINE added == UNION {HostsAdded(body[i]) :
                             i \in {j \in 1 .. Len(body) :
                                      \A k \in 1 .. j : ~ Throws(body[k])}}
<1>1. added \subseteq Peer
  BY HostsAreNodes
<1>2. nodes' = [nodes EXCEPT ![n] = @ \cup added]
  BY DEF RegisterNodes
<1> HIDE DEF added
<1>3. nodes' \in [Node -> SUBSET Peer]
  BY <1>1, <1>2 DEF TypeOK
<1> QED
  BY <1>3 DEF TypeOK, RegisterNodes

LEMMA ContinueTyped ==
  ASSUME TypeOK, NEW c \in Call, NEW visited \in SUBSET Peer,
         NEW longest \in Nat, NEW best \in Seq(Block),
         Continue(c, visited, longest, best)
  PROVE  TypeOK'
<1>1. CASE NextNeighbor(c, visited, longest, best)
  <2>1. Owner[c] \in Node
    BY EventLoopAssumption
  <2>2. PICK peer \in nodes[Owner[c]] \ visited :
          calls' = [calls EXCEPT ![c] =
            [pc |-> "sent", peer |-> peer, visited |-> visited \cup {peer},
             maxLength |-> longest, newChain |-> best, reply |-> << >>]]
    BY <1>1 DEF NextNeighbor
  <2>3. peer \in Peer
    BY <2>1, <2>2 DEF TypeOK
  <2>4. << >> \in Seq(Block)
    OBVIOUS
  <2>5. calls' \in [Call -> CallState]
    BY <2>2, <2>3, <2>4 DEF TypeOK, CallState
  <2> QED
    BY <1>1, <2>5 DEF TypeOK, Continue, NextNeighbor
<1>2. CASE LeaveLoop(c, visited, best)
  <2>1. calls' \in [Call -> CallState]
    BY <1>2, IdleType DEF TypeOK, LeaveLoop
  <2>2. chain' \in [Node -> Seq(Block)]
    BY <1>2 DEF TypeOK, LeaveLoop
  <2> QED
    BY <2>1, <2>2 DEF TypeOK, Continue
<1> QED
  BY <1>1, <1>2 DEF Continue

LEMMA CallFields ==
  ASSUME TypeOK, NEW c \in Call
  PROVE  /\ calls[c].visited \in SUBSET Peer
         /\ calls[c].maxLength \in Nat
         /\ calls[c].newChain \in Seq(Block)
         /\ calls[c].reply \in Seq(Block)
         /\ Len(calls[c].reply) \in Nat
<1>1. calls[c] \in CallState
  BY DEF TypeOK
<1> QED
  BY <1>1 DEF CallState

LEMMA StartResolveTyped ==
  ASSUME TypeOK, NEW c \in Call, StartResolve(c)
  PROVE  TypeOK'
<1>1. Len(chain[Owner[c]]) \in Nat
  BY EventLoopAssumption DEF TypeOK
<1>2. << >> \in Seq(Block) /\ {} \in SUBSET Peer
  OBVIOUS
<1>3. Continue(c, {}, Len(chain[Owner[c]]), << >>)
  BY DEF StartResolve
<1> QED
  BY <1>1, <1>2, <1>3, ContinueTyped

LEMMA FullChainTyped ==
  ASSUME TypeOK, NEW c \in Call, FullChain(c)
  PROVE  TypeOK'
<1>1. chain[calls[c].peer] \in Seq(Block)
  BY DEF FullChain, TypeOK
<1>2. calls' = [calls EXCEPT ![c] =
        [calls[c] EXCEPT !.pc = "served", !.reply = chain[calls[c].peer]]]
  BY DEF FullChain, TypeOK
<1>3. calls' \in [Call -> CallState]
  BY <1>1, <1>2 DEF TypeOK, CallState
<1> QED
  BY <1>3 DEF TypeOK, FullChain

LEMMA ResumeResolveTyped ==
  ASSUME TypeOK, NEW c \in Call, ResumeResolve(c)
  PROVE  TypeOK'
BY CallFields, ContinueTyped DEF ResumeResolve

LEMMA FetchFailsTyped ==
  ASSUME TypeOK, NEW c \in Call, FetchFails(c)
  PROVE  TypeOK'
BY CallFields, ContinueTyped DEF FetchFails

(* Mining appends one block: its number, its transactions, its proof. *)
LEMMA ForgeTyped ==
  ASSUME TypeOK, NEW n \in Node, NEW last \in Block, NEW proof \in Nat,
         Forge(n, last, proof)
  PROVE  TypeOK'
<1> DEFINE txs == Append(currentTransactions[n], Reward(n))
           new == new_block(chain[n], txs, proof, hash(last), clock)
<1>1. Reward(n) \in Transaction
  BY DEF Transaction, Minted
<1>2. txs \in Seq(Transaction)
  BY <1>1 DEF TypeOK
<1>3. hash(last) \in Digest
  BY HashType
<1>4. new \in Seq(Block)
  <2> HIDE DEF txs
  <2> QED
    BY <1>2, <1>3, NewBlock DEF TypeOK
<1>5. chain' = [chain EXCEPT ![n] = new]
  BY DEF Forge, AppendBlock
<1> HIDE DEF new
<1>6. chain' \in [Node -> Seq(Block)]
  BY <1>4, <1>5 DEF TypeOK
<1>7. << >> \in Seq(Transaction)
  OBVIOUS
<1>8. currentTransactions' \in [Node -> Seq(Transaction)]
  BY <1>7 DEF TypeOK, Forge
<1> QED
  BY <1>6, <1>8 DEF TypeOK, Forge, AppendBlock

-----------------------------------------------------------------------------
(* The inductive invariant *)

LEMMA InitHolds == Init => LoopInvariant
<1> SUFFICES ASSUME Init PROVE LoopInvariant
  OBVIOUS
<1>1. TypeOK
  BY InitTyped
<1>2. \A n \in Node : Trustworthy(chain[n])
  BY GenesisSound, GenesisRooted, EventLoopAssumption
     DEF Init, LoopInit, Trustworthy
<1>3. \A c \in Call : calls[c].reply = << >> /\ calls[c].newChain = << >>
  BY DEF Init, LoopInit, Idle
<1> QED
  BY <1>1, <1>2, <1>3 DEF LoopInvariant

(* A step that leaves the chains and the calls alone. *)
LEMMA UnchangedHolds ==
  ASSUME LoopInvariant, TypeOK', UNCHANGED << chain, calls >>
  PROVE  LoopInvariant'
BY DEF LoopInvariant

LEMMA ContinueHolds ==
  ASSUME LoopInvariant, NEW c \in Call, NEW visited \in SUBSET Peer,
         NEW longest \in Nat, NEW best \in Seq(Block),
         best # << >> => Trustworthy(best) /\ longest = Len(best),
         Continue(c, visited, longest, best)
  PROVE  LoopInvariant'
<1>1. TypeOK /\ TypeOK'
  BY ContinueTyped DEF LoopInvariant
<1>2. CASE NextNeighbor(c, visited, longest, best)
  <2>1. chain' = chain
    BY <1>2 DEF NextNeighbor
  <2>2. /\ calls'[c].reply = << >>
        /\ calls'[c].newChain = best
        /\ calls'[c].maxLength = longest
        /\ \A d \in Call : d # c => calls'[d] = calls[d]
    BY <1>1, <1>2 DEF NextNeighbor, TypeOK
  <2> QED
    BY <1>1, <2>1, <2>2 DEF LoopInvariant
<1>3. CASE LeaveLoop(c, visited, best)
  <2>1. /\ calls'[c].reply = << >>
        /\ calls'[c].newChain = << >>
        /\ \A d \in Call : d # c => calls'[d] = calls[d]
    BY <1>1, <1>3 DEF LeaveLoop, Idle, TypeOK
  <2>2. \A n \in Node : Trustworthy(chain'[n])
    <3>1. \A n \in Node : \/ chain'[n] = chain[n]
                          \/ best # << >> /\ chain'[n] = best
      BY <1>1, <1>3 DEF LeaveLoop, TypeOK
    <3> QED
      BY <3>1 DEF LoopInvariant
  <2> QED
    BY <1>1, <2>1, <2>2 DEF LoopInvariant
<1> QED
  BY <1>2, <1>3 DEF Continue

LEMMA StartResolveHolds ==
  ASSUME LoopInvariant, NEW c \in Call, StartResolve(c)
  PROVE  LoopInvariant'
<1>1. Len(chain[Owner[c]]) \in Nat
  BY EventLoopAssumption DEF LoopInvariant, TypeOK
<1>2. << >> \in Seq(Block) /\ {} \in SUBSET Peer
  OBVIOUS
<1>3. Continue(c, {}, Len(chain[Owner[c]]), << >>)
  BY DEF StartResolve
<1> QED
  BY <1>1, <1>2, <1>3, ContinueHolds

LEMMA FullChainHolds ==
  ASSUME LoopInvariant, NEW c \in Call, FullChain(c)
  PROVE  LoopInvariant'
<1>1. TypeOK /\ TypeOK'
  BY FullChainTyped DEF LoopInvariant
<1>2. /\ calls'[c].reply = chain[calls[c].peer]
      /\ calls'[c].newChain = calls[c].newChain
      /\ calls'[c].maxLength = calls[c].maxLength
      /\ \A d \in Call : d # c => calls'[d] = calls[d]
  <2>1. calls' = [calls EXCEPT ![c] =
          [calls[c] EXCEPT !.pc = "served", !.reply = chain[calls[c].peer]]]
    BY <1>1 DEF FullChain, TypeOK
  <2>2. calls[c] \in CallState
    BY <1>1 DEF TypeOK
  <2> QED
    BY <1>1, <2>1, <2>2 DEF TypeOK, CallState
<1>3. Trustworthy(chain[calls[c].peer]) /\ chain' = chain
  BY DEF FullChain, LoopInvariant
<1> QED
  BY <1>1, <1>2, <1>3 DEF LoopInvariant

LEMMA ResumeResolveHolds ==
  ASSUME LoopInvariant, NEW c \in Call, ResumeResolve(c)
  PROVE  LoopInvariant'
<1> DEFINE call == calls[c]
<1>1. /\ call.visited \in SUBSET Peer
      /\ call.maxLength \in Nat
      /\ call.newChain \in Seq(Block)
      /\ call.reply \in Seq(Block)
      /\ Len(call.reply) \in Nat
  BY CallFields DEF LoopInvariant
<1>2. CASE Better(call)
  <2>1. call.reply # << >>
    <3>1. Len(call.reply) > 0
      BY <1>1, <1>2 DEF Better
    <3> QED
      BY <3>1
  <2>2. Trustworthy(call.reply)
    BY <2>1 DEF LoopInvariant
  <2>3. Continue(c, call.visited, Len(call.reply), call.reply)
    BY <1>2 DEF ResumeResolve
  <2> QED
    BY <1>1, <2>2, <2>3, ContinueHolds
<1>3. CASE ~ Better(call)
  <2>1. Continue(c, call.visited, call.maxLength, call.newChain)
    BY <1>3 DEF ResumeResolve
  <2>2. call.newChain # << >> =>
          Trustworthy(call.newChain) /\ call.maxLength = Len(call.newChain)
    BY DEF LoopInvariant
  <2> QED
    BY <1>1, <2>1, <2>2, ContinueHolds
<1> QED
  BY <1>2, <1>3

LEMMA FetchFailsHolds ==
  ASSUME LoopInvariant, NEW c \in Call, FetchFails(c)
  PROVE  LoopInvariant'
<1> DEFINE call == calls[c]
<1>1. /\ call.visited \in SUBSET Peer
      /\ call.maxLength \in Nat
      /\ call.newChain \in Seq(Block)
  BY CallFields DEF LoopInvariant
<1>2. Continue(c, call.visited, call.maxLength, call.newChain)
  BY DEF FetchFails
<1>3. call.newChain # << >> =>
        Trustworthy(call.newChain) /\ call.maxLength = Len(call.newChain)
  BY DEF LoopInvariant
<1> QED
  BY <1>1, <1>2, <1>3, ContinueHolds

LEMMA MineHolds ==
  ASSUME LoopInvariant, NEW n \in Node, Mine(n)
  PROVE  LoopInvariant'
<1> DEFINE last == last_block(chain[n])
           txs == Append(currentTransactions[n], Reward(n))
<1>1. PICK proof \in 0 .. MaxProof : Forge(n, last, proof)
  BY DEF Mine
<1>2. proof \in Nat /\ clock \in Nat
  BY <1>1, BlocksAssumption DEF LoopInvariant, TypeOK
<1>3. TypeOK /\ chain[n] \in Seq(Block) /\ Trustworthy(chain[n])
  BY DEF LoopInvariant, TypeOK
<1>4. Len(chain[n]) \in Nat /\ Len(chain[n]) >= 1
  BY <1>3 DEF Trustworthy, SoundChain
<1>5. last \in Block
  BY <1>3, <1>4 DEF last_block
<1>6. TypeOK'
  BY <1>1, <1>2, <1>3, <1>5, ForgeTyped
<1>7. txs \in Seq(Transaction)
  <2>1. Reward(n) \in Transaction
    BY DEF Transaction, Minted
  <2> QED
    BY <1>3, <2>1 DEF TypeOK
<1> DEFINE new == new_block(chain[n], txs, proof, hash(last), clock)
<1>8. Trustworthy(new)
  <2>1. FoundByProofOfWork(last, proof)
    BY <1>1 DEF Forge, AppendBlock
  <2>2. SoundChain(chain[n]) /\ Rooted(chain[n])
    BY <1>3 DEF Trustworthy
  <2> HIDE DEF txs
  <2>3. SoundChain(new)
    BY <1>2, <1>3, <1>7, <2>1, <2>2, MinedSound
  <2>4. Rooted(new)
    BY <1>2, <1>3, <1>4, <1>7, <2>2, MinedRooted
  <2> QED
    BY <2>3, <2>4 DEF Trustworthy
<1>9. chain' = [chain EXCEPT ![n] = new] /\ calls' = calls
  BY <1>1 DEF Forge, AppendBlock
<1> HIDE DEF new
<1>10. \A m \in Node : Trustworthy(chain'[m])
  BY <1>3, <1>8, <1>9 DEF LoopInvariant, TypeOK
<1> QED
  BY <1>6, <1>9, <1>10 DEF LoopInvariant

LEMMA StepHolds == LoopInvariant /\ [Next]_vars => LoopInvariant'
<1> SUFFICES ASSUME LoopInvariant, [Next]_vars PROVE LoopInvariant'
  OBVIOUS
<1>1. TypeOK /\ \A n \in Node : Len(chain[n]) >= 1
  BY DEF LoopInvariant, Trustworthy, SoundChain
<1>2. ASSUME NEW n \in Node, NEW tx \in UserTransaction, NewTransaction(n, tx)
      PROVE  LoopInvariant'
  <2>1. TypeOK'
    BY <1>1, <1>2, NewTransactionTyped
  <2> QED
    BY <1>2, <2>1, UnchangedHolds DEF NewTransaction
<1>3. ASSUME NEW n \in IncompleteAt, NewTransactionMissingValues(n)
      PROVE  LoopInvariant'
  <2>1. n \in Node
    BY EventLoopAssumption
  <2>2. TypeOK'
    BY <1>1, <1>3, <2>1, MissingValuesTyped
  <2> QED
    BY <1>3, <2>2, UnchangedHolds DEF NewTransactionMissingValues
<1>4. ASSUME NEW n \in Node, NEW body \in RegisterRequest[n],
             RegisterNodes(n, body)
      PROVE  LoopInvariant'
  <2>1. TypeOK'
    BY <1>1, <1>4, RegisterNodesTyped
  <2> QED
    BY <1>4, <2>1, UnchangedHolds DEF RegisterNodes
<1>5. ASSUME NEW c \in Call,
             StartResolve(c) \/ FullChain(c) \/ ResumeResolve(c) \/ FetchFails(c)
      PROVE  LoopInvariant'
  BY <1>5, StartResolveHolds, FullChainHolds, ResumeResolveHolds,
     FetchFailsHolds
<1>6. ASSUME NEW n \in Node, Mine(n)
      PROVE  LoopInvariant'
  BY <1>6, MineHolds
<1>7. CASE UNCHANGED vars
  <2>1. TypeOK'
    BY <1>1, <1>7 DEF TypeOK, vars, loopVars
  <2> QED
    BY <1>7, <2>1, UnchangedHolds DEF vars, loopVars
<1> QED
  BY <1>2, <1>3, <1>4, <1>5, <1>6, <1>7 DEF Next, LoopNext

(***************************************************************************)
(* The invariant every property below is drawn from: of app.js's handlers  *)
(* none ever spoils a chain that is held, served or carried.               *)
(***************************************************************************)
THEOREM Invariance == Spec => []LoopInvariant
BY InitHolds, StepHolds, PTL DEF Spec

(* The variables keep the types the program gives them. *)
THEOREM TypeCorrect == Spec => []TypeOK
<1>1. LoopInvariant => TypeOK
  BY DEF LoopInvariant
<1> QED
  BY <1>1, Invariance, PTL

(* Every node's chain passes its own validity test, whatever is mined,     *)
(* served and adopted, in whatever order.                                  *)
THEOREM Soundness == Spec => []ChainsAreSound
<1>1. LoopInvariant => ChainsAreSound
  BY DEF LoopInvariant, ChainsAreSound, Trustworthy
<1> QED
  BY <1>1, Invariance, PTL

(* maxLength and newChain agree at every await of a resolve. *)
THEOREM CandidateSoundness == Spec => []CandidatesAreSound
<1>1. LoopInvariant => CandidatesAreSound
  BY DEF LoopInvariant, CandidatesAreSound, Trustworthy
<1> QED
  BY <1>1, Invariance, PTL

(* Two nodes that share a block share everything below it. *)
THEOREM SharedPast == Spec => []SharedBlockSharedPast
<1>1. LoopInvariant => SharedBlockSharedPast
  <2> SUFFICES ASSUME LoopInvariant, NEW m \in Node, NEW n \in Node,
                      NEW i \in 1 .. Len(chain[m]), NEW j \in 1 .. Len(chain[n]),
                      chain[m][i] = chain[n][j]
               PROVE  i = j /\ \A k \in 1 .. i : chain[m][k] = chain[n][k]
    BY DEF SharedBlockSharedPast
  <2>1. /\ chain[m] \in Seq(Block) /\ chain[n] \in Seq(Block)
        /\ Trustworthy(chain[m]) /\ Trustworthy(chain[n])
    BY DEF LoopInvariant, TypeOK
  <2> QED
    BY <2>1, SameBlockSamePast
<1> QED
  BY <1>1, Invariance, PTL

-----------------------------------------------------------------------------
(* What a step may not do *)

(* A transaction that waits at n before a step waits there after it, or is *)
(* in the last block of n.                                                 *)
StillPendingOrMined(n, tx) ==
  PlacesIn(currentTransactions[n], tx) # {} =>
    \/ PlacesIn(currentTransactions'[n], tx) # {}
    \/ PlacesIn(last_block(chain'[n]).transactions, tx) # {}

LEMMA AddedStillPending ==
  ASSUME TypeOK, NEW m \in Node, NEW new \in Transaction,
         currentTransactions' =
           [currentTransactions EXCEPT ![m] = Append(@, new)],
         NEW n \in Node, NEW tx \in UserTransaction
  PROVE  StillPendingOrMined(n, tx)
<1> SUFFICES ASSUME NEW k \in 1 .. Len(currentTransactions[n]),
                    currentTransactions[n][k] = tx
             PROVE  /\ k \in 1 .. Len(currentTransactions'[n])
                    /\ currentTransactions'[n][k] = tx
  BY DEF StillPendingOrMined, PlacesIn
<1>1. currentTransactions[n] \in Seq(Transaction)
  BY DEF TypeOK
<1>2. CASE n = m
  <2>1. currentTransactions'[n] = Append(currentTransactions[n], new)
    BY <1>2 DEF TypeOK
  <2> QED
    BY <1>1, <2>1
<1>3. CASE n # m
  <2>1. currentTransactions'[n] = currentTransactions[n]
    BY <1>3 DEF TypeOK
  <2> QED
    BY <2>1
<1> QED
  BY <1>2, <1>3

LEMMA UnchangedStillPending ==
  ASSUME UNCHANGED currentTransactions,
         NEW n \in Node, NEW tx \in UserTransaction
  PROVE  StillPendingOrMined(n, tx)
BY DEF StillPendingOrMined, PlacesIn

LEMMA ForgedAllPending ==
  ASSUME TypeOK, NEW m \in Node, NEW last \in Block, NEW proof \in Nat,
         Forge(m, last, proof), NEW n \in Node, NEW tx \in UserTransaction
  PROVE  StillPendingOrMined(n, tx)
<1> DEFINE txs == Append(currentTransactions[m], Reward(m))
           digest == hash(last)
           new == new_block(chain[m], txs, proof, digest, clock)
<1>1. /\ chain[m] \in Seq(Block)
      /\ currentTransactions[m] \in Seq(Transaction)
      /\ clock \in Nat
  BY DEF TypeOK
<1>2. digest \in Digest
  BY HashType
<1>3. Reward(m) \in Transaction
  BY DEF Transaction, Minted
<1>4. CASE n = m
  <2> SUFFICES ASSUME NEW k \in 1 .. Len(currentTransactions[n]),
                      currentTransactions[n][k] = tx
               PROVE  k \in PlacesIn(last_block(chain'[n]).transactions, tx)
    BY DEF StillPendingOrMined, PlacesIn
  <2>1. chain'[n] = new
    BY <1>4 DEF Forge, AppendBlock, TypeOK
  <2>2. txs \in Seq(Transaction) /\ Len(txs) = Len(currentTransactions[n]) + 1
        /\ txs[k] = tx
    BY <1>1, <1>3, <1>4
  <2> HIDE DEF txs, digest
  <2>3. last_block(new).transactions = txs
    BY <1>1, <1>2, <2>2, NewestTransactions
  <2> HIDE DEF new
  <2>4. last_block(chain'[n]).transactions = txs
    BY <2>1, <2>3
  <2>5. k \in 1 .. Len(txs)
    BY <1>1, <2>2
  <2> QED
    BY <2>2, <2>4, <2>5 DEF PlacesIn
<1>5. CASE n # m
  <2>1. currentTransactions'[n] = currentTransactions[n]
    BY <1>5 DEF Forge, TypeOK
  <2> QED
    BY <2>1 DEF StillPendingOrMined, PlacesIn
<1> QED
  BY <1>4, <1>5

LEMMA LoopKeepsPending ==
  ASSUME TypeOK, LoopNext, NEW n \in Node, NEW tx \in UserTransaction
  PROVE  StillPendingOrMined(n, tx)
<1>1. ASSUME NEW m \in Node, NEW t \in UserTransaction, NewTransaction(m, t)
      PROVE  StillPendingOrMined(n, tx)
  BY <1>1, AddedStillPending
     DEF NewTransaction, AcceptTransaction, Transaction, Minted
<1>2. ASSUME NEW m \in IncompleteAt, NewTransactionMissingValues(m)
      PROVE  StillPendingOrMined(n, tx)
  BY <1>2, AddedStillPending, EventLoopAssumption
     DEF NewTransactionMissingValues, AcceptTransaction, Transaction, Minted
<1>3. ASSUME NEW m \in Node, NEW body \in RegisterRequest[m],
             RegisterNodes(m, body)
      PROVE  StillPendingOrMined(n, tx)
  BY <1>3, UnchangedStillPending DEF RegisterNodes
<1>4. ASSUME NEW c \in Call,
             StartResolve(c) \/ FullChain(c) \/ ResumeResolve(c) \/ FetchFails(c)
      PROVE  StillPendingOrMined(n, tx)
  BY <1>4, UnchangedStillPending
     DEF StartResolve, FullChain, ResumeResolve, FetchFails, Continue
<1> QED
  BY <1>1, <1>2, <1>3, <1>4 DEF LoopNext

(* The block a node mines rests on its last block, with a proof in range. *)
LEMMA MinesOnLast ==
  ASSUME LoopInvariant, NEW n \in Node, Mine(n)
  PROVE  \E last \in Block, proof \in Nat : Forge(n, last, proof)
<1>1. chain[n] \in Seq(Block) /\ Len(chain[n]) >= 1
  BY DEF LoopInvariant, TypeOK, Trustworthy, SoundChain
<1>2. last_block(chain[n]) \in Block
  BY <1>1 DEF last_block
<1> QED
  BY <1>2, BlocksAssumption DEF Mine

(***************************************************************************)
(* A transaction a node has accepted is lost by no handler before a block  *)
(* of that node carries it.                                                *)
(***************************************************************************)
THEOREM NoTransactionLost == Spec => PendingUntilMined
<1>1. LoopInvariant /\ [Next]_vars =>
        [\A n \in Node, tx \in UserTransaction : StillPendingOrMined(n, tx)]_loopVars
  <2> SUFFICES ASSUME LoopInvariant, Next,
                      NEW n \in Node, NEW tx \in UserTransaction
               PROVE  StillPendingOrMined(n, tx)
    BY DEF vars
  <2>1. TypeOK
    BY DEF LoopInvariant
  <2>2. CASE LoopNext
    BY <2>1, <2>2, LoopKeepsPending
  <2>3. ASSUME NEW m \in Node, Mine(m)
        PROVE  StillPendingOrMined(n, tx)
    BY <2>1, <2>3, MinesOnLast, ForgedAllPending
  <2> QED
    BY <2>2, <2>3 DEF Next
<1> QED
  BY <1>1, Invariance, PTL DEF Spec, PendingUntilMined, StillPendingOrMined

-----------------------------------------------------------------------------
(* Resolves that overlap at one node *)

(***************************************************************************)
(* What ResolveKeepsLongestSeen says is not true of a node that is asked   *)
(* to resolve while it resolves.  What is true of every node is said with  *)
(* a history variable: overtaken holds the resolves under which another    *)
(* resolve of the same node has replaced its chain since they began.       *)
(***************************************************************************)
VARIABLE overtaken

historyVars == << vars, overtaken >>

(* The resolve d ends, and its node believes another chain than before. *)
TakesOver(d) ==
  /\ calls[d].pc # "idle"
  /\ calls'[d].pc = "idle"
  /\ chain'[Owner[d]] # chain[Owner[d]]

Overtake ==
  overtaken' = {c \in Call :
    /\ calls[c].pc # "idle"
    /\ calls'[c].pc # "idle"
    /\ \/ c \in overtaken
       \/ \E d \in Call \ {c} : Owner[d] = Owner[c] /\ TakesOver(d)}

HistorySpec ==
  /\ Init /\ overtaken = {}
  /\ [][Next /\ Overtake]_historyVars

(* A resolve leaves a chain as long as the longest it compared against, or *)
(* the chain was replaced under it.                                        *)
EndsWithLongestSeen(c) ==
  /\ calls[c].pc # "idle"
  /\ calls'[c].pc = "idle"
  /\ c \notin overtaken
  => Len(chain'[Owner[c]]) >= calls[c].maxLength

(* Until a resolve has found a longer chain or is overtaken, its node's is *)
(* no shorter than when it began.                                          *)
LengthKept ==
  \A c \in Call \ overtaken :
    calls[c].pc # "idle" /\ calls[c].newChain = << >> =>
      Len(chain[Owner[c]]) >= calls[c].maxLength

(* One that goes on without having been overtaken had not been before. *)
LEMMA StaysAhead ==
  ASSUME Overtake, NEW c \in Call, c \notin overtaken',
         calls[c].pc # "idle", calls'[c].pc # "idle"
  PROVE  /\ c \notin overtaken
         /\ \A d \in Call \ {c} : Owner[d] = Owner[c] => ~ TakesOver(d)
BY DEF Overtake

LEMMA ContinueKeepsLength ==
  ASSUME LoopInvariant, LengthKept, Overtake,
         NEW c \in Call, NEW visited, NEW longest \in Nat, NEW best \in Seq(Block),
         best # << >> => longest = Len(best),
         best = << >> /\ c \notin overtaken => Len(chain[Owner[c]]) >= longest,
         calls[c].pc # "idle" => longest >= calls[c].maxLength,
         calls[c].pc = "idle" => best = << >> /\ longest = Len(chain[Owner[c]]),
         Continue(c, visited, longest, best)
  PROVE  LengthKept' /\ \A d \in Call : EndsWithLongestSeen(d)
<1>1. TypeOK /\ Owner \in [Call -> Node]
  BY EventLoopAssumption DEF LoopInvariant
<1>2. \A d \in Call : /\ d # c => calls'[d] = calls[d]
                      /\ Len(chain[Owner[d]]) \in Nat
                      /\ calls[d].maxLength \in Nat
  <2>1. \A d \in Call : d # c => calls'[d] = calls[d]
    BY <1>1 DEF Continue, NextNeighbor, LeaveLoop, TypeOK
  <2>2. \A d \in Call : Len(chain[Owner[d]]) \in Nat
    BY <1>1 DEF TypeOK
  <2> QED
    BY <1>1, <2>1, <2>2, CallFields
<1>3. CASE NextNeighbor(c, visited, longest, best)
  <2>1. /\ chain' = chain
        /\ calls'[c].pc = "sent"
        /\ calls'[c].newChain = best
        /\ calls'[c].maxLength = longest
    BY <1>1, <1>3 DEF NextNeighbor, TypeOK
  <2>2. ASSUME NEW d \in Call, d \notin overtaken',
               calls'[d].pc # "idle", calls'[d].newChain = << >>
        PROVE  Len(chain'[Owner[d]]) >= calls'[d].maxLength
    <3>1. CASE d = c /\ calls[c].pc = "idle"
      BY <1>2, <2>1, <2>2, <3>1
    <3>2. CASE d = c /\ calls[c].pc # "idle"
      <4>1. c \notin overtaken
        BY <2>2, <3>2, StaysAhead
      <4> QED
        BY <2>1, <2>2, <3>2, <4>1
    <3>3. CASE d # c
      <4>1. d \notin overtaken
        BY <1>2, <2>2, <3>3, StaysAhead
      <4> QED
        BY <1>2, <2>1, <2>2, <3>3, <4>1 DEF LengthKept
    <3> QED
      BY <3>1, <3>2, <3>3
  <2>3. \A d \in Call : EndsWithLongestSeen(d)
    BY <1>2, <2>1 DEF EndsWithLongestSeen
  <2> QED
    BY <2>2, <2>3 DEF LengthKept
<1>4. CASE LeaveLoop(c, visited, best)
  <2>1. /\ calls'[c].pc = "idle"
        /\ \A n \in Node : n # Owner[c] => chain'[n] = chain[n]
        /\ \/ best = << >> /\ chain'[Owner[c]] = chain[Owner[c]]
           \/ best # << >> /\ chain'[Owner[c]] = best
    BY <1>1, <1>4 DEF LeaveLoop, Idle, TypeOK
  <2>2. ASSUME NEW d \in Call, d \notin overtaken',
               calls'[d].pc # "idle", calls'[d].newChain = << >>
        PROVE  Len(chain'[Owner[d]]) >= calls'[d].maxLength
    <3>1. d # c
      BY <2>1, <2>2
    <3>2. d \notin overtaken /\ (Owner[d] = Owner[c] => ~ TakesOver(c))
      BY <1>2, <2>2, <3>1, StaysAhead
    <3>3. chain'[Owner[d]] = chain[Owner[d]]
      BY <1>1, <2>1, <3>2 DEF TakesOver
    <3> QED
      BY <1>2, <2>2, <3>1, <3>2, <3>3 DEF LengthKept
  <2>3. EndsWithLongestSeen(c)
    BY <1>2, <2>1 DEF EndsWithLongestSeen
  <2>4. \A d \in Call : d # c => EndsWithLongestSeen(d)
    BY <1>2 DEF EndsWithLongestSeen
  <2> QED
    BY <2>2, <2>3, <2>4 DEF LengthKept
<1> QED
  BY <1>3, <1>4 DEF Continue

(* A step in which no resolve begins or ends and no chain gets shorter. *)
LEMMA OthersKeepLength ==
  ASSUME LoopInvariant, LengthKept, Overtake,
         \A c \in Call : /\ (calls'[c].pc = "idle") <=> (calls[c].pc = "idle")
                         /\ calls'[c].newChain = calls[c].newChain
                         /\ calls'[c].maxLength = calls[c].maxLength,
         \A n \in Node : Len(chain'[n]) \in Nat /\ Len(chain'[n]) >= Len(chain[n])
  PROVE  LengthKept' /\ \A d \in Call : EndsWithLongestSeen(d)
<1>1. \A c \in Call : /\ Owner[c] \in Node
                      /\ Len(chain[Owner[c]]) \in Nat
                      /\ calls[c].maxLength \in Nat
  BY CallFields, EventLoopAssumption DEF LoopInvariant, TypeOK
<1>2. ASSUME NEW c \in Call, c \notin overtaken',
             calls'[c].pc # "idle", calls'[c].newChain = << >>
      PROVE  Len(chain'[Owner[c]]) >= calls'[c].maxLength
  <2>1. c \notin overtaken
    BY <1>2, StaysAhead
  <2>2. Len(chain[Owner[c]]) >= calls[c].maxLength
    BY <1>2, <2>1 DEF LengthKept
  <2> QED
    BY <1>1, <2>2
<1> QED
  BY <1>2 DEF LengthKept, EndsWithLongestSeen

LEMMA ResolveStepKeepsLength ==
  ASSUME LoopInvariant, LengthKept, Overtake, NEW c \in Call,
         StartResolve(c) \/ FullChain(c) \/ ResumeResolve(c) \/ FetchFails(c)
  PROVE  LengthKept' /\ \A d \in Call : EndsWithLongestSeen(d)
<1> DEFINE call == calls[c]
<1>1. /\ call.maxLength \in Nat
      /\ call.newChain \in Seq(Block)
      /\ call.reply \in Seq(Block)
      /\ Len(call.reply) \in Nat
      /\ Len(chain[Owner[c]]) \in Nat
  BY CallFields, EventLoopAssumption DEF LoopInvariant, TypeOK
<1>2. CASE StartResolve(c)
  <2>1. Continue(c, {}, Len(chain[Owner[c]]), << >>) /\ call.pc = "idle"
    BY <1>2 DEF StartResolve
  <2>2. << >> \in Seq(Block) /\ Len(chain[Owner[c]]) >= Len(chain[Owner[c]])
    BY <1>1
  <2> QED
    BY <1>1, <2>1, <2>2, ContinueKeepsLength
<1>3. CASE FullChain(c)
  <2>1. calls' = [calls EXCEPT ![c] =
          [call EXCEPT !.pc = "served", !.reply = chain[call.peer]]]
    BY <1>3 DEF FullChain, LoopInvariant, TypeOK
  <2>2. call \in CallState
    BY DEF LoopInvariant, TypeOK
  <2>3. /\ calls'[c].pc # "idle" /\ call.pc # "idle"
        /\ calls'[c].newChain = call.newChain
        /\ calls'[c].maxLength = call.maxLength
        /\ \A d \in Call : d # c => calls'[d] = calls[d]
        /\ chain' = chain
    BY <1>3, <2>1, <2>2 DEF FullChain, LoopInvariant, TypeOK, CallState
  <2>4. \A n \in Node : Len(chain[n]) \in Nat
    BY DEF LoopInvariant, TypeOK
  <2> QED
    BY <2>3, <2>4, OthersKeepLength
<1>4. CASE ResumeResolve(c) /\ Better(call)
  <2>1. Continue(c, call.visited, Len(call.reply), call.reply) /\ call.pc # "idle"
    BY <1>4 DEF ResumeResolve
  <2>2. Len(call.reply) > call.maxLength
    BY <1>4 DEF Better
  <2>3. call.reply # << >>
    BY <1>1, <2>2
  <2> QED
    BY <1>1, <2>1, <2>2, <2>3, ContinueKeepsLength
<1>5. CASE \/ ResumeResolve(c) /\ ~ Better(call)
           \/ FetchFails(c)
  <2>1. /\ Continue(c, call.visited, call.maxLength, call.newChain)
        /\ call.pc # "idle"
    BY <1>5 DEF ResumeResolve, FetchFails
  <2>2. /\ call.newChain # << >> => call.maxLength = Len(call.newChain)
        /\ call.newChain = << >> /\ c \notin overtaken =>
             Len(chain[Owner[c]]) >= call.maxLength
        /\ call.maxLength >= call.maxLength
    BY <1>1, <2>1 DEF LengthKept, LoopInvariant
  <2> QED
    BY <1>1, <2>1, <2>2, ContinueKeepsLength
<1> QED
  BY <1>2, <1>3, <1>4, <1>5

LEMMA MineKeepsLength ==
  ASSUME LoopInvariant, LengthKept, Overtake, NEW n \in Node, Mine(n)
  PROVE  LengthKept' /\ \A d \in Call : EndsWithLongestSeen(d)
<1>1. PICK proof \in 0 .. MaxProof : Forge(n, last_block(chain[n]), proof)
  BY DEF Mine
<1>2. TypeOK
  BY DEF LoopInvariant
<1>3. \E b : chain' = [chain EXCEPT ![n] = Append(@, b)]
  BY <1>1 DEF Forge, AppendBlock, new_block
<1>4. \A m \in Node : Len(chain'[m]) \in Nat /\ Len(chain'[m]) >= Len(chain[m])
  BY <1>2, <1>3 DEF TypeOK
<1>5. calls' = calls
  BY <1>1 DEF Forge, AppendBlock
<1> QED
  BY <1>4, <1>5, OthersKeepLength

LEMMA StepKeepsLength ==
  ASSUME LoopInvariant, LengthKept, [Next /\ Overtake]_historyVars
  PROVE  LengthKept' /\ \A d \in Call : EndsWithLongestSeen(d)
<1>1. \A n \in Node : Len(chain[n]) \in Nat
  BY DEF LoopInvariant, TypeOK
<1>2. ASSUME UNCHANGED << chain, calls >>, Overtake
      PROVE  LengthKept' /\ \A d \in Call : EndsWithLongestSeen(d)
  BY <1>1, <1>2, OthersKeepLength
<1>3. CASE Next /\ Overtake
  <2>1. CASE \E n \in Node, tx \in UserTransaction : NewTransaction(n, tx)
    BY <1>2, <1>3, <2>1 DEF NewTransaction
  <2>2. CASE \E n \in IncompleteAt : NewTransactionMissingValues(n)
    BY <1>2, <1>3, <2>2 DEF NewTransactionMissingValues
  <2>3. CASE \E n \in Node : \E body \in RegisterRequest[n] : RegisterNodes(n, body)
    BY <1>2, <1>3, <2>3 DEF RegisterNodes
  <2>4. CASE \E c \in Call : \/ StartResolve(c) \/ FullChain(c)
                            \/ ResumeResolve(c) \/ FetchFails(c)
    BY <1>3, <2>4, ResolveStepKeepsLength
  <2>5. CASE \E n \in Node : Mine(n)
    BY <1>3, <2>5, MineKeepsLength
  <2> QED
    BY <1>3, <2>1, <2>2, <2>3, <2>4, <2>5 DEF Next, LoopNext
<1>4. CASE UNCHANGED historyVars
  BY <1>4 DEF historyVars, vars, loopVars, LengthKept, EndsWithLongestSeen
<1> QED
  BY <1>3, <1>4

(***************************************************************************)
(* However many resolves are open at a node at once, one that ends leaves  *)
(* its node with a chain at least as long as any it compared against, in   *)
(* spite of the length having been read before the awaits, unless another  *)
(* resolve of the node replaced the chain in between.  About mining,       *)
(* posting, registering and resolving between the awaits of                *)
(* resolveConflicts.                                                       *)
(***************************************************************************)
THEOREM LongestSeenKept ==
  HistorySpec => [][\A c \in Call : EndsWithLongestSeen(c)]_historyVars
<1>1. Init => LengthKept
  BY DEF Init, LoopInit, Idle, LengthKept
<1>2. LoopInvariant /\ LengthKept /\ [Next /\ Overtake]_historyVars => LengthKept'
  BY StepKeepsLength
<1>3. LoopInvariant /\ LengthKept /\ [Next /\ Overtake]_historyVars =>
        [\A c \in Call : EndsWithLongestSeen(c)]_historyVars
  BY StepKeepsLength
<1>4. [Next /\ Overtake]_historyVars => [Next]_vars
  BY DEF historyVars
<1> QED
  BY <1>1, <1>2, <1>3, <1>4, Invariance, PTL DEF HistorySpec, Spec

-----------------------------------------------------------------------------
(* A transaction is in one place *)

(* The chains nodes believe in, send and carry across awaits. *)
Held ==
  {chain[n] : n \in Node} \cup {calls[c].reply : c \in Call}
                          \cup {calls[c].newChain : c \in Call}

(***************************************************************************)
(* What EachTransactionOnce needs to be kept by every step: nodes share    *)
(* what they believe, so a transaction that waits must be in no chain that *)
(* is held anywhere and wait at no other node, and one that was never      *)
(* posted must be nowhere.                                                 *)
(***************************************************************************)
OnceInvariant ==
  \A tx \in UserTransaction \ Minted :
    /\ OnceAnywhere(Held, currentTransactions, tx)
    /\ promised[tx] = 0 => Nowhere(Held, currentTransactions, tx)

LEMMA InitOnce == LoopInit => OnceInvariant
<1> SUFFICES ASSUME LoopInit, NEW tx \in UserTransaction \ Minted
             PROVE  /\ OnceAnywhere(Held, currentTransactions, tx)
                    /\ Nowhere(Held, currentTransactions, tx)
  BY DEF OnceInvariant
<1>1. \A n \in Node : PlacesInChain(chain[n], tx) = {}
  <2> SUFFICES ASSUME NEW n \in Node PROVE PlacesInChain(chain[n], tx) = {}
    OBVIOUS
  <2>1. /\ chain[n] = GenesisChain(BootTime[n])
        /\ Len(GenesisChain(BootTime[n])) = 1
        /\ GenesisChain(BootTime[n])[1].transactions = << >>
    BY DEF LoopInit, GenesisChain, new_block
  <2> QED
    BY <2>1 DEF PlacesInChain, PlacesIn
<1>2. \A c \in Call : calls[c].reply = << >> /\ calls[c].newChain = << >>
  BY DEF LoopInit, Idle
<1>3. \A c \in Held : PlacesInChain(c, tx) = {}
  BY <1>1, <1>2, EmptyPlaces DEF Held
<1>4. \A n \in Node : PlacesIn(currentTransactions[n], tx) = {}
  BY DEF LoopInit, PlacesIn
<1> QED
  BY <1>3, <1>4 DEF OnceAnywhere, Nowhere, AtMostOne

(* A step that passes chains on and posts nothing. *)
LEMMA PassingOnOnce ==
  ASSUME OnceInvariant, UNCHANGED << currentTransactions, promised >>,
         \A c \in Held' : c \in Held \/ c = << >>
  PROVE  OnceInvariant'
<1> SUFFICES ASSUME NEW tx \in UserTransaction \ Minted
             PROVE  /\ OnceAnywhere(Held, currentTransactions, tx)'
                    /\ promised'[tx] = 0 => Nowhere(Held, currentTransactions, tx)'
  BY DEF OnceInvariant
<1> DEFINE later == Held'
<1>1. \A c \in later : c \in Held \/ PlacesInChain(c, tx) = {}
  BY EmptyPlaces
<1>2. /\ OnceAnywhere(Held, currentTransactions, tx)
      /\ promised[tx] = 0 => Nowhere(Held, currentTransactions, tx)
  BY DEF OnceInvariant
<1> HIDE DEF later
<1>3. /\ OnceAnywhere(later, currentTransactions, tx)
      /\ promised[tx] = 0 => Nowhere(later, currentTransactions, tx)
  BY <1>1, <1>2, PassedOnOnce
<1>4. /\ OnceAnywhere(later, currentTransactions', tx)
      /\ promised'[tx] = 0 => Nowhere(later, currentTransactions', tx)
  BY <1>3
<1> QED
  BY <1>4 DEF later, OnceAnywhere, Nowhere

LEMMA NewTransactionOnce ==
  ASSUME TypeOK, \A n \in Node : Len(chain[n]) >= 1, OnceInvariant,
         NEW n \in Node, NEW new \in UserTransaction, NewTransaction(n, new)
  PROVE  OnceInvariant'
<1> SUFFICES ASSUME NEW tx \in UserTransaction \ Minted
             PROVE  /\ OnceAnywhere(Held, currentTransactions, tx)'
                    /\ promised'[tx] = 0 => Nowhere(Held, currentTransactions, tx)'
  BY DEF OnceInvariant
<1>1. /\ currentTransactions \in [Node -> Seq(Transaction)]
      /\ new \in Transaction /\ tx \in Transaction
  BY DEF TypeOK, Transaction
<1> DEFINE later == currentTransactions'
<1>2. later = [currentTransactions EXCEPT ![n] = Append(@, new)]
  BY DEF NewTransaction, AcceptTransaction
<1>3. /\ OnceAnywhere(Held, currentTransactions, tx)
      /\ promised[tx] = 0 => Nowhere(Held, currentTransactions, tx)
  BY DEF OnceInvariant
<1>4. Held' = Held
  BY DEF NewTransaction, Held
<1> HIDE DEF later
<1>5. CASE tx = new
  <2>1. promised[tx] = 0
    BY <1>5 DEF NewTransaction
  <2>2. OnceAnywhere(Held, later, tx)
    BY <1>1, <1>2, <1>3, <1>5, <2>1, AcceptedOnce
  <2>3. promised'[tx] # 0
    BY <1>5, NewTransactionTyped
  <2> QED
    BY <1>4, <2>2, <2>3 DEF later, OnceAnywhere
<1>6. CASE tx # new
  <2>1. promised'[tx] = promised[tx]
    BY <1>6 DEF NewTransaction, TypeOK
  <2>2. \A m \in Node : PlacesIn(later[m], tx) = PlacesIn(currentTransactions[m], tx)
    <3>1. /\ currentTransactions[n] \in Seq(Transaction)
          /\ later[n] = Append(currentTransactions[n], new)
          /\ \A m \in Node : m # n => later[m] = currentTransactions[m]
      BY <1>1, <1>2
    <3>2. PlacesIn(Append(currentTransactions[n], new), tx) =
            PlacesIn(currentTransactions[n], tx)
      BY <1>1, <1>6, <3>1, OtherAppended
    <3> QED
      BY <3>1, <3>2
  <2> QED
    BY <1>3, <1>4, <2>1, <2>2 DEF later, OnceAnywhere, Nowhere
<1> QED
  BY <1>5, <1>6

LEMMA MissingValuesOnce ==
  ASSUME TypeOK, OnceInvariant, NEW n \in Node, NewTransactionMissingValues(n)
  PROVE  OnceInvariant'
<1> SUFFICES ASSUME NEW tx \in UserTransaction \ Minted
             PROVE  /\ OnceAnywhere(Held, currentTransactions, tx)'
                    /\ promised'[tx] = 0 => Nowhere(Held, currentTransactions, tx)'
  BY DEF OnceInvariant
<1> DEFINE later == currentTransactions'
           new == UndefinedTransaction
<1>1. /\ currentTransactions \in [Node -> Seq(Transaction)]
      /\ new \in Transaction /\ new # tx
  BY DEF TypeOK, Transaction, Minted
<1>2. later = [currentTransactions EXCEPT ![n] = Append(@, new)]
  BY DEF NewTransactionMissingValues, AcceptTransaction
<1>3. /\ OnceAnywhere(Held, currentTransactions, tx)
      /\ promised[tx] = 0 => Nowhere(Held, currentTransactions, tx)
  BY DEF OnceInvariant
<1>4. Held' = Held /\ promised' = promised
  BY DEF NewTransactionMissingValues, Held
<1> HIDE DEF later, new
<1>5. \A m \in Node : PlacesIn(later[m], tx) = PlacesIn(currentTransactions[m], tx)
  <2>1. /\ currentTransactions[n] \in Seq(Transaction)
        /\ later[n] = Append(currentTransactions[n], new)
        /\ \A m \in Node : m # n => later[m] = currentTransactions[m]
    BY <1>1, <1>2
  <2>2. PlacesIn(Append(currentTransactions[n], new), tx) =
          PlacesIn(currentTransactions[n], tx)
    BY <1>1, <2>1, OtherAppended
  <2> QED
    BY <2>1, <2>2
<1> QED
  BY <1>3, <1>4, <1>5 DEF later, OnceAnywhere, Nowhere

(* What a resolve takes over or carries on it had before. *)
LEMMA ContinueHeld ==
  ASSUME TypeOK, NEW c \in Call, NEW visited, NEW longest, NEW best,
         best \in Held \/ best = << >>, Continue(c, visited, longest, best)
  PROVE  \A d \in Held' : d \in Held \/ d = << >>
<1>1. \A d \in Call : d # c => calls'[d] = calls[d]
  BY DEF TypeOK, Continue, NextNeighbor, LeaveLoop
<1>2. calls'[c].reply = << >> /\ calls'[c].newChain \in {best, << >>}
  BY DEF TypeOK, Continue, NextNeighbor, LeaveLoop, Idle
<1>3. \A n \in Node : chain'[n] \in {chain[n], best}
  BY DEF TypeOK, Continue, NextNeighbor, LeaveLoop
<1> QED
  BY <1>1, <1>2, <1>3 DEF Held

LEMMA ResolveHeld ==
  ASSUME TypeOK, NEW c \in Call,
         StartResolve(c) \/ FullChain(c) \/ ResumeResolve(c) \/ FetchFails(c)
  PROVE  /\ \A d \in Held' : d \in Held \/ d = << >>
         /\ UNCHANGED << currentTransactions, promised >>
<1>1. CASE FullChain(c)
  <2>1. calls' = [calls EXCEPT ![c] =
          [calls[c] EXCEPT !.pc = "served", !.reply = chain[calls[c].peer]]]
    BY <1>1 DEF FullChain, TypeOK
  <2>2. calls[c] \in CallState
    BY DEF TypeOK
  <2>3. /\ calls'[c].reply = chain[calls[c].peer]
        /\ calls'[c].newChain = calls[c].newChain
        /\ \A d \in Call : d # c => calls'[d] = calls[d]
    BY <2>1, <2>2 DEF TypeOK, CallState
  <2>4. /\ chain[calls[c].peer] \in Held
        /\ UNCHANGED << chain, currentTransactions, promised >>
    BY <1>1 DEF FullChain, Held
  <2>5. \A d \in Held' : d \in Held
    BY <2>3, <2>4 DEF Held
  <2> QED
    BY <2>4, <2>5
<1>2. CASE StartResolve(c)
  BY <1>2, ContinueHeld DEF StartResolve, Continue
<1>3. CASE ResumeResolve(c) \/ FetchFails(c)
  <2>1. calls[c].newChain \in Held /\ calls[c].reply \in Held
    BY DEF Held
  <2> QED
    BY <1>3, <2>1, ContinueHeld DEF ResumeResolve, FetchFails, Continue
<1> QED
  BY <1>1, <1>2, <1>3

LEMMA LoopStepOnce ==
  ASSUME TypeOK, \A n \in Node : Len(chain[n]) >= 1, OnceInvariant, LoopNext
  PROVE  OnceInvariant'
<1>1. CASE \E n \in Node, tx \in UserTransaction : NewTransaction(n, tx)
  BY <1>1, NewTransactionOnce
<1>2. CASE \E n \in IncompleteAt : NewTransactionMissingValues(n)
  BY <1>2, MissingValuesOnce, EventLoopAssumption
<1>3. CASE \E n \in Node : \E body \in RegisterRequest[n] : RegisterNodes(n, body)
  <2>1. /\ UNCHANGED << currentTransactions, promised >>
        /\ Held' = Held
    BY <1>3 DEF RegisterNodes, Held
  <2> QED
    BY <2>1, PassingOnOnce
<1>4. CASE \E c \in Call : \/ StartResolve(c) \/ FullChain(c)
                          \/ ResumeResolve(c) \/ FetchFails(c)
  BY <1>4, ResolveHeld, PassingOnOnce
<1> QED
  BY <1>1, <1>2, <1>3, <1>4 DEF LoopNext

(* What Forge makes of the chain of n: one block more, with all that waits. *)
LEMMA ForgeOnce ==
  ASSUME TypeOK, OnceInvariant, NEW n \in Node, NEW last \in Block,
         NEW proof \in Nat, Forge(n, last, proof)
  PROVE  OnceInvariant'
<1> DEFINE txs == Append(currentTransactions[n], Reward(n))
           b == BlockAt(Len(chain[n]) + 1, txs, proof, hash(last), clock)
<1>1. b \in Block /\ b.transactions = txs
  <2>1. txs \in Seq(Transaction)
    <3>1. Reward(n) \in Transaction
      BY DEF Transaction, Minted
    <3> QED
      BY <3>1 DEF TypeOK
  <2>2. hash(last) \in Digest /\ Len(chain[n]) + 1 \in Nat /\ clock \in Nat
    BY HashType DEF TypeOK
  <2> HIDE DEF txs
  <2> QED
    BY <2>1, <2>2 DEF BlockAt, Block
<1>2. /\ chain' = [chain EXCEPT ![n] = Append(chain[n], b)]
      /\ currentTransactions' = [currentTransactions EXCEPT ![n] = << >>]
      /\ UNCHANGED << calls, promised >>
  BY DEF Forge, AppendBlock, new_block, BlockAt
<1> HIDE DEF b
<1> SUFFICES ASSUME NEW tx \in UserTransaction \ Minted
             PROVE  /\ OnceAnywhere(Held, currentTransactions, tx)'
                    /\ promised'[tx] = 0 => Nowhere(Held, currentTransactions, tx)'
  BY DEF OnceInvariant
<1> DEFINE later == Held'
           rest == currentTransactions'
           held == Held
           old == chain[n]
<1>3. \A c \in later : c \in held \/ c = Append(old, b)
  <2>1. \A m \in Node : chain'[m] \in {chain[m], Append(old, b)}
    BY <1>2 DEF TypeOK
  <2> QED
    BY <1>2, <2>1 DEF Held
<1>4. held \in SUBSET Seq(Block) /\ old \in held
  BY CallFields DEF Held, TypeOK
<1>5. /\ OnceAnywhere(held, currentTransactions, tx)
      /\ promised[tx] = 0 => Nowhere(held, currentTransactions, tx)
  BY DEF OnceInvariant
<1>6. /\ currentTransactions \in [Node -> Seq(Transaction)]
      /\ rest = [currentTransactions EXCEPT ![n] = << >>]
  BY <1>2 DEF TypeOK
<1>7. tx \notin Minted
  OBVIOUS
<1> HIDE DEF later, rest, held, old
<1>8. /\ OnceAnywhere(later, rest, tx)
      /\ promised[tx] = 0 => Nowhere(later, rest, tx)
  BY <1>1, <1>3, <1>4, <1>5, <1>6, <1>7, MinedOnce
<1> QED
  BY <1>2, <1>8 DEF later, rest, OnceAnywhere, Nowhere

LEMMA OnceCounts == OnceInvariant => EachTransactionOnce
<1> SUFFICES ASSUME OnceInvariant, NEW n \in Node,
                    NEW tx \in UserTransaction \ Minted
             PROVE  Cardinality(PlacesInChain(chain[n], tx))
                      + Cardinality(PlacesIn(currentTransactions[n], tx)) <= 1
  BY DEF EachTransactionOnce
<1>1. chain[n] \in Held
  BY DEF Held
<1>2. /\ AtMostOne(PlacesInChain(chain[n], tx))
      /\ AtMostOne(PlacesIn(currentTransactions[n], tx))
      /\ \/ PlacesInChain(chain[n], tx) = {}
         \/ PlacesIn(currentTransactions[n], tx) = {}
  BY <1>1 DEF OnceInvariant, OnceAnywhere
<1> QED
  BY <1>2, OnceCounted

(***************************************************************************)
(* However chains are exchanged, a transaction that was posted once is     *)
(* never twice in the chain of a node, nor in it and still waiting there.  *)
(***************************************************************************)
THEOREM NothingTwice == Spec => []EachTransactionOnce
<1>1. Init => OnceInvariant
  BY InitOnce DEF Init
<1>2. LoopInvariant /\ OnceInvariant /\ [Next]_vars => OnceInvariant'
  <2> SUFFICES ASSUME LoopInvariant, OnceInvariant, [Next]_vars
               PROVE  OnceInvariant'
    OBVIOUS
  <2>1. TypeOK /\ \A n \in Node : chain[n] \in Seq(Block) /\ Len(chain[n]) >= 1
    BY DEF LoopInvariant, TypeOK, Trustworthy, SoundChain
  <2>2. CASE LoopNext
    BY <2>1, <2>2, LoopStepOnce
  <2>3. ASSUME NEW n \in Node, Mine(n) PROVE OnceInvariant'
    BY <2>1, <2>3, MinesOnLast, ForgeOnce
  <2>4. CASE UNCHANGED vars
    <3>1. Held' = Held /\ UNCHANGED << currentTransactions, promised >>
      BY <2>4 DEF vars, loopVars, Held
    <3> QED
      BY <3>1, PassingOnOnce
  <2> QED
    BY <2>2, <2>3, <2>4 DEF Next
<1> QED
  BY <1>1, <1>2, OnceCounts, Invariance, PTL DEF Spec

-----------------------------------------------------------------------------
(* app-with-worker.js *)

(* What is left of a sound chain when late workers may break it. *)
Placed(c) ==
  /\ Len(c) >= 1
  /\ \A i \in 1 .. Len(c) : c[i].index = i
  /\ c[1].previous_hash = GenesisPreviousHash

ChainsPlaced ==
  /\ \A n \in Node : Placed(chain[n])
  /\ \A c \in Call :
       /\ calls[c].reply # << >> => Placed(calls[c].reply)
       /\ calls[c].newChain # << >> => SoundChain(calls[c].newChain)

(***************************************************************************)
(* The inductive invariant of the worker variant: its chains need not be   *)
(* valid, but their blocks are numbered by their places, and what a        *)
(* resolve carries is sound all the same.                                  *)
(***************************************************************************)
WorkerInvariant == WorkersTypeOK /\ ChainsPlaced

(* The action OnlySoundChainsAdopted says every step is, but for mining. *)
AdoptsSound == \A n \in Node : chain'[n] # chain[n] => SoundChain(chain'[n])

LEMMA SoundIsPlaced ==
  ASSUME NEW c, SoundChain(c)
  PROVE  Placed(c)
BY DEF SoundChain, Placed

LEMMA ContinuePlaced ==
  ASSUME TypeOK, ChainsPlaced, NEW c \in Call, NEW visited \in SUBSET Peer,
         NEW longest \in Nat, NEW best \in Seq(Block),
         best # << >> => SoundChain(best),
         Continue(c, visited, longest, best)
  PROVE  TypeOK' /\ ChainsPlaced' /\ AdoptsSound
<1>1. TypeOK'
  BY ContinueTyped
<1>2. /\ calls'[c].reply = << >>
      /\ calls'[c].newChain \in {best, << >>}
      /\ \A d \in Call : d # c => calls'[d] = calls[d]
  BY DEF TypeOK, Continue, NextNeighbor, LeaveLoop, Idle
<1>3. \A n \in Node : chain'[n] = chain[n] \/ (best # << >> /\ chain'[n] = best)
  BY DEF TypeOK, Continue, NextNeighbor, LeaveLoop
<1>4. AdoptsSound
  BY <1>3 DEF AdoptsSound
<1>5. \A n \in Node : Placed(chain'[n])
  BY <1>3, SoundIsPlaced DEF ChainsPlaced
<1> QED
  BY <1>1, <1>2, <1>4, <1>5 DEF ChainsPlaced

LEMMA UnchangedPlaced ==
  ASSUME TypeOK', ChainsPlaced, UNCHANGED << chain, calls >>
  PROVE  TypeOK' /\ ChainsPlaced' /\ AdoptsSound
BY DEF ChainsPlaced, AdoptsSound

LEMMA ResolvePlaced ==
  ASSUME TypeOK, ChainsPlaced, NEW c \in Call,
         StartResolve(c) \/ FullChain(c) \/ ResumeResolve(c) \/ FetchFails(c)
  PROVE  TypeOK' /\ ChainsPlaced' /\ AdoptsSound
<1> DEFINE call == calls[c]
<1>1. /\ call.visited \in SUBSET Peer
      /\ call.maxLength \in Nat
      /\ call.newChain \in Seq(Block)
      /\ call.reply \in Seq(Block)
      /\ Len(call.reply) \in Nat
      /\ call.newChain # << >> => SoundChain(call.newChain)
  BY CallFields DEF ChainsPlaced
<1>2. CASE StartResolve(c)
  <2>1. Len(chain[Owner[c]]) \in Nat
    BY EventLoopAssumption DEF TypeOK
  <2>2. << >> \in Seq(Block) /\ {} \in SUBSET Peer
    OBVIOUS
  <2>3. Continue(c, {}, Len(chain[Owner[c]]), << >>)
    BY <1>2 DEF StartResolve
  <2> QED
    BY <2>1, <2>2, <2>3, ContinuePlaced
<1>3. CASE FullChain(c)
  <2>1. calls' = [calls EXCEPT ![c] =
          [calls[c] EXCEPT !.pc = "served", !.reply = chain[calls[c].peer]]]
    BY <1>3 DEF FullChain, TypeOK
  <2>2. calls[c] \in CallState
    BY DEF TypeOK
  <2>3. /\ calls'[c].reply = chain[calls[c].peer]
        /\ calls'[c].newChain = calls[c].newChain
        /\ \A d \in Call : d # c => calls'[d] = calls[d]
    BY <2>1, <2>2 DEF TypeOK, CallState
  <2>4. chain' = chain /\ Placed(chain[calls[c].peer])
    BY <1>3 DEF FullChain, ChainsPlaced
  <2> QED
    BY <1>3, <2>3, <2>4, FullChainTyped DEF ChainsPlaced, AdoptsSound
<1>4. CASE ResumeResolve(c) /\ Better(call)
  <2>1. call.reply # << >>
    <3>1. Len(call.reply) > 0
      BY <1>1, <1>4 DEF Better
    <3> QED
      BY <3>1
  <2>2. SoundChain(call.reply)
    BY <1>4, <2>1 DEF ChainsPlaced, Placed, SoundChain, Better
  <2>3. Continue(c, call.visited, Len(call.reply), call.reply)
    BY <1>4 DEF ResumeResolve
  <2> QED
    BY <1>1, <2>2, <2>3, ContinuePlaced
<1>5. CASE \/ ResumeResolve(c) /\ ~ Better(call)
           \/ FetchFails(c)
  <2>1. Continue(c, call.visited, call.maxLength, call.newChain)
    BY <1>5 DEF ResumeResolve, FetchFails
  <2> QED
    BY <1>1, <2>1, ContinuePlaced
<1> QED
  BY <1>2, <1>3, <1>4, <1>5

LEMMA LoopStepPlaced ==
  ASSUME TypeOK, ChainsPlaced, LoopNext
  PROVE  TypeOK' /\ ChainsPlaced' /\ AdoptsSound
<1>1. \A n \in Node : Len(chain[n]) >= 1
  BY DEF ChainsPlaced, Placed
<1>2. ASSUME NEW n \in Node, NEW tx \in UserTransaction, NewTransaction(n, tx)
      PROVE  TypeOK' /\ UNCHANGED << chain, calls >>
  BY <1>1, <1>2, NewTransactionTyped DEF NewTransaction
<1>3. ASSUME NEW n \in IncompleteAt, NewTransactionMissingValues(n)
      PROVE  TypeOK' /\ UNCHANGED << chain, calls >>
  BY <1>3, MissingValuesTyped, EventLoopAssumption
     DEF NewTransactionMissingValues
<1>4. ASSUME NEW n \in Node, NEW body \in RegisterRequest[n],
             RegisterNodes(n, body)
      PROVE  TypeOK' /\ UNCHANGED << chain, calls >>
  BY <1>4, RegisterNodesTyped DEF RegisterNodes
<1> QED
  BY <1>2, <1>3, <1>4, UnchangedPlaced, ResolvePlaced DEF LoopNext

(* A late worker's block has the number of the place it lands on. *)
LEMMA ForgePlaced ==
  ASSUME TypeOK, ChainsPlaced, NEW n \in Node, NEW last \in Block,
         NEW proof \in Nat, Forge(n, last, proof)
  PROVE  TypeOK' /\ ChainsPlaced'
<1> DEFINE txs == Append(currentTransactions[n], Reward(n))
           digest == hash(last)
           new == new_block(chain[n], txs, proof, digest, clock)
<1>1. Placed(new)
  <2>1. txs \in Seq(Transaction)
    <3>1. Reward(n) \in Transaction
      BY DEF Transaction, Minted
    <3> QED
      BY <3>1 DEF TypeOK
  <2>2. chain[n] \in Seq(Block) /\ digest \in Digest /\ clock \in Nat
    BY HashType DEF TypeOK
  <2> HIDE DEF txs, digest
  <2>3. /\ Len(new) = Len(chain[n]) + 1
        /\ \A i \in 1 .. Len(chain[n]) : new[i] = chain[n][i]
        /\ new[Len(chain[n]) + 1] =
             BlockAt(Len(chain[n]) + 1, txs, proof, digest, clock)
    <3>1. ASSUME NEW ch \in Seq(Block), NEW list \in Seq(Transaction),
                 NEW prev \in Digest, NEW ts \in Nat
          PROVE  LET b == new_block(ch, list, proof, prev, ts)
                 IN  /\ Len(b) = Len(ch) + 1
                     /\ \A i \in 1 .. Len(ch) : b[i] = ch[i]
                     /\ b[Len(ch) + 1] = BlockAt(Len(ch) + 1, list, proof, prev, ts)
      BY NewBlock
    <3> QED
      BY <2>1, <2>2, <3>1
  <2>4. Placed(chain[n]) /\ Len(chain[n]) \in Nat
    BY <2>2 DEF ChainsPlaced
  <2> HIDE DEF new
  <2> QED
    BY <2>3, <2>4 DEF Placed, BlockAt
<1>2. chain' = [chain EXCEPT ![n] = new] /\ calls' = calls
  BY DEF Forge, AppendBlock
<1> HIDE DEF new
<1>3. \A m \in Node : Placed(chain'[m])
  BY <1>1, <1>2 DEF ChainsPlaced, TypeOK
<1> QED
  BY <1>2, <1>3, ForgeTyped DEF ChainsPlaced

(* What a worker brings back was a block when it was sent out. *)
LEMMA WorkerForges ==
  ASSUME WorkersTypeOK, NEW w \in Worker, MineEnds(w)
  PROVE  \E n \in Node, last \in Block, proof \in Nat : Forge(n, last, proof)
<1>1. workers[w] \in Seq(Block) /\ workers[w] # << >>
  BY DEF WorkersTypeOK, MineEnds
<1>2. workers[w][1] \in Block
  <2>1. Len(workers[w]) \in Nat /\ Len(workers[w]) # 0
    BY <1>1
  <2> QED
    BY <1>1, <2>1
<1>3. WorkerOwner[w] \in Node
  BY WorkerAssumption
<1> QED
  BY <1>2, <1>3, BlocksAssumption DEF MineEnds

LEMMA WorkerStepHolds ==
  ASSUME WorkerInvariant, [WorkerNext]_workerVars
  PROVE  /\ WorkerInvariant'
         /\ clock' # clock \/ AdoptsSound
<1>1. TypeOK /\ ChainsPlaced /\ workers \in [Worker -> Seq(Block)]
  BY DEF WorkerInvariant, WorkersTypeOK
<1>2. CASE LoopNext /\ UNCHANGED workers
  BY <1>1, <1>2, LoopStepPlaced DEF WorkerInvariant, WorkersTypeOK
<1>3. ASSUME NEW w \in Worker, MineStarts(w)
      PROVE  WorkerInvariant' /\ AdoptsSound
  <2>1. TypeOK' /\ ChainsPlaced' /\ AdoptsSound
    <3>1. TypeOK'
      BY <1>1, <1>3 DEF MineStarts, loopVars, TypeOK
    <3> QED
      BY <1>1, <1>3, <3>1, UnchangedPlaced DEF MineStarts, loopVars
  <2>2. last_block(chain[WorkerOwner[w]]) \in Block
    <3>1. WorkerOwner[w] \in Node
      BY WorkerAssumption
    <3>2. /\ chain[WorkerOwner[w]] \in Seq(Block)
          /\ Len(chain[WorkerOwner[w]]) >= 1
      BY <1>1, <3>1 DEF TypeOK, ChainsPlaced, Placed
    <3> QED
      BY <3>2 DEF last_block
  <2>3. << last_block(chain[WorkerOwner[w]]) >> \in Seq(Block)
    BY <2>2
  <2>4. workers' \in [Worker -> Seq(Block)]
    BY <1>1, <1>3, <2>3 DEF MineStarts
  <2> QED
    BY <2>1, <2>4 DEF WorkerInvariant, WorkersTypeOK
<1>4. ASSUME NEW w \in Worker, MineEnds(w)
      PROVE  WorkerInvariant' /\ clock' # clock
  <2>1. WorkersTypeOK
    BY DEF WorkerInvariant
  <2>2. PICK n \in Node, last \in Block, proof \in Nat : Forge(n, last, proof)
    BY <1>4, <2>1, WorkerForges
  <2>3. TypeOK' /\ ChainsPlaced'
    BY <1>1, <2>2, ForgePlaced
  <2>4. << >> \in Seq(Block)
    OBVIOUS
  <2>5. workers' \in [Worker -> Seq(Block)]
    BY <1>1, <1>4, <2>4 DEF MineEnds
  <2>6. clock' # clock
    BY <1>1, <2>2 DEF Forge, AppendBlock, TypeOK
  <2> QED
    BY <2>3, <2>5, <2>6 DEF WorkerInvariant, WorkersTypeOK
<1>5. CASE UNCHANGED workerVars
  <2>1. TypeOK' /\ workers' \in [Worker -> Seq(Block)]
    BY <1>1, <1>5 DEF workerVars, loopVars, TypeOK
  <2> QED
    BY <1>1, <1>5, <2>1, UnchangedPlaced
       DEF workerVars, loopVars, WorkerInvariant, WorkersTypeOK
<1> QED
  BY <1>2, <1>3, <1>4, <1>5 DEF WorkerNext

(***************************************************************************)
(* The invariant behind what survives late workers and resolves that       *)
(* overlap: numbers are places, and only sound chains are carried.         *)
(***************************************************************************)
THEOREM WorkerInvariance == WorkerSpec => []WorkerInvariant
<1>1. WorkerInit => WorkerInvariant
  <2> SUFFICES ASSUME WorkerInit PROVE WorkerInvariant
    OBVIOUS
  <2>1. TypeOK
    BY InitTyped DEF WorkerInit, Init
  <2>2. workers \in [Worker -> Seq(Block)]
    BY DEF WorkerInit
  <2>3. \A n \in Node : Placed(chain[n])
    BY GenesisSound, EventLoopAssumption, SoundIsPlaced DEF WorkerInit, LoopInit
  <2>4. \A c \in Call : calls[c].reply = << >> /\ calls[c].newChain = << >>
    BY DEF WorkerInit, LoopInit, Idle
  <2> QED
    BY <2>1, <2>2, <2>3, <2>4 DEF WorkerInvariant, WorkersTypeOK, ChainsPlaced
<1> QED
  BY <1>1, WorkerStepHolds, PTL DEF WorkerSpec

(* The variables keep their types; a worker that searches has one block. *)
THEOREM WorkersTypeCorrect == WorkerSpec => []WorkersTypeOK
<1>1. WorkerInvariant => WorkersTypeOK
  BY DEF WorkerInvariant
<1> QED
  BY <1>1, WorkerInvariance, PTL

(* A block's index is its place, however late the worker that proved it. *)
THEOREM WorkersNumberPlaces == WorkerSpec => []IndicesArePlaces
<1>1. WorkerInvariant => IndicesArePlaces
  BY DEF WorkerInvariant, ChainsPlaced, Placed, IndicesArePlaces
<1> QED
  BY <1>1, WorkerInvariance, PTL

(***************************************************************************)
(* A chain that a late worker has broken is adopted by nobody: what a step *)
(* puts in the place of a chain without mining is sound.                   *)
(***************************************************************************)
THEOREM BrokenStayAtHome == WorkerSpec => OnlySoundChainsAdopted
<1>1. WorkerInvariant /\ [WorkerNext]_workerVars =>
        [\A n \in Node : chain'[n] # chain[n] =>
           clock' # clock \/ SoundChain(chain'[n])]_workerVars
  BY WorkerStepHolds DEF AdoptsSound
<1> QED
  BY <1>1, WorkerInvariance, PTL DEF WorkerSpec, OnlySoundChainsAdopted

(* Late workers lose no transaction that was accepted. *)
THEOREM WorkersLoseNothing == WorkerSpec => PendingUntilMined
<1>1. WorkerInvariant /\ [WorkerNext]_workerVars =>
        [\A n \in Node, tx \in UserTransaction : StillPendingOrMined(n, tx)]_loopVars
  <2> SUFFICES ASSUME WorkerInvariant, WorkerNext, loopVars' # loopVars,
                      NEW n \in Node, NEW tx \in UserTransaction
               PROVE  StillPendingOrMined(n, tx)
    BY DEF workerVars
  <2>1. TypeOK /\ WorkersTypeOK
    BY DEF WorkerInvariant, WorkersTypeOK
  <2>2. CASE LoopNext
    BY <2>1, <2>2, LoopKeepsPending
  <2>3. ASSUME NEW w \in Worker, MineStarts(w)
        PROVE  StillPendingOrMined(n, tx)
    BY <2>3 DEF MineStarts
  <2>4. ASSUME NEW w \in Worker, MineEnds(w)
        PROVE  StillPendingOrMined(n, tx)
    BY <2>1, <2>4, WorkerForges, ForgedAllPending
  <2> QED
    BY <2>2, <2>3, <2>4 DEF WorkerNext
<1> QED
  BY <1>1, WorkerInvariance, PTL DEF WorkerSpec, PendingUntilMined, StillPendingOrMined

(* ... and put none into a chain twice. *)
THEOREM WorkersDoubleNothing == WorkerSpec => []EachTransactionOnce
<1>1. WorkerInit => OnceInvariant
  BY InitOnce DEF WorkerInit
<1>2. WorkerInvariant /\ OnceInvariant /\ [WorkerNext]_workerVars => OnceInvariant'
  <2> SUFFICES ASSUME WorkerInvariant, OnceInvariant, [WorkerNext]_workerVars
               PROVE  OnceInvariant'
    OBVIOUS
  <2>1. TypeOK /\ WorkersTypeOK /\ \A n \in Node : Len(chain[n]) >= 1
    BY DEF WorkerInvariant, WorkersTypeOK, ChainsPlaced, Placed
  <2>2. CASE LoopNext
    BY <2>1, <2>2, LoopStepOnce
  <2>3. ASSUME NEW w \in Worker, MineEnds(w) PROVE OnceInvariant'
    BY <2>1, <2>3, WorkerForges, ForgeOnce
  <2>4. CASE UNCHANGED loopVars
    <3>1. Held' = Held /\ UNCHANGED << currentTransactions, promised >>
      BY <2>4 DEF loopVars, Held
    <3> QED
      BY <3>1, PassingOnOnce
  <2> QED
    BY <2>2, <2>3, <2>4 DEF WorkerNext, MineStarts, workerVars
<1> QED
  BY <1>1, <1>2, OnceCounts, WorkerInvariance, PTL DEF WorkerSpec

=============================================================================
