------------------------------ MODULE PyProofs ------------------------------
(***************************************************************************)
(* Theorems about blockchain.py, for any nodes and any requests: what the  *)
(* busy server preserves, and that the node keeps the promise of Ledger.   *)
(***************************************************************************)
EXTENDS PyNode, BlockProofs

-----------------------------------------------------------------------------
(* Typing *)

LEMMA NoRequestType == NoRequest \in RequestState
<1>1. << >> \in Seq(Block) /\ {} \in SUBSET Peer /\ "elsewhere" \in Peer
  BY DEF Peer
<1> QED
  BY <1>1 DEF NoRequest, RequestState

LEMMA RequestFields ==
  ASSUME TypeOK, NEW n \in Node
  PROVE  /\ request[n].pc \in {"none", "asking", "answered"}
         /\ request[n].left \in SUBSET Peer
         /\ request[n].node \in Peer
         /\ request[n].max_length \in Nat
         /\ request[n].new_chain \in Seq(Block)
         /\ request[n].response \in Seq(Block)
         /\ Len(request[n].response) \in Nat
         /\ Len(request[n].new_chain) \in Nat
         /\ chain[n] \in Seq(Block)
         /\ Len(chain[n]) \in Nat
<1>1. request[n] \in RequestState /\ chain[n] \in Seq(Block)
  BY DEF TypeOK
<1> QED
  BY <1>1 DEF RequestState

LEMMA InitHolds == Init => ResolveInvariant
<1> SUFFICES ASSUME Init PROVE ResolveInvariant
  OBVIOUS
<1>1. chain \in [Node -> Seq(Block)] /\ \A n \in Node : Trustworthy(chain[n])
  BY GenesisSound, GenesisRooted, PyAssumption DEF Init, Trustworthy
<1>2. current_transactions \in [Node -> Seq(Transaction)]
  BY DEF Init
<1>3. request \in [Node -> RequestState]
  BY NoRequestType DEF Init
<1>4. TypeOK
  BY <1>1, <1>2, <1>3, PyAssumption DEF Init, TypeOK
<1>5. \A n \in Node : /\ Free(n) /\ request[n] = NoRequest
                      /\ request[n].response = << >>
                      /\ request[n].new_chain = << >>
  BY DEF Init, Free, NoRequest
<1> QED
  BY <1>1, <1>4, <1>5 DEF ResolveInvariant

LEMMA InitNoneAhead == Init => NoneAhead
<1> SUFFICES ASSUME Init, NEW n \in Node
             PROVE  /\ AheadOfNoMiner(chain[n], chain)
                    /\ AheadOfNoMiner(request[n].response, chain)
                    /\ AheadOfNoMiner(request[n].new_chain, chain)
  BY DEF NoneAhead
<1>1. chain[n] = GenesisChain(BootTime[n]) /\ BootTime[n] \in Nat
  BY PyAssumption DEF Init
<1>2. request[n].response = << >> /\ request[n].new_chain = << >>
  BY DEF Init, NoRequest
<1> QED
  BY <1>1, <1>2, GenesisNotAhead, EmptyNotAhead

(* What a node mines is typed and trustworthy, and one block longer. *)
LEMMA Mined ==
  ASSUME ResolveInvariant, NEW n \in Node, Mine(n)
  PROVE  \E new \in Seq(Block) :
           /\ chain' = [chain EXCEPT ![n] = new]
           /\ Len(new) = Len(chain[n]) + 1
           /\ new = Append(chain[n], last_block(new))
           /\ last_block(new).transactions =
                Append(current_transactions[n], Reward(n))
           /\ Trustworthy(new)
<1>1. PICK proof \in 0 .. MaxProof :
        /\ FoundByProofOfWork(last_block(chain[n]), proof)
        /\ chain' = [chain EXCEPT ![n] =
             new_block(chain[n], Append(current_transactions[n], Reward(n)),
                       proof, hash(last_block(chain[n])), clock)]
  BY DEF Mine
<1>2. /\ chain[n] \in Seq(Block) /\ Trustworthy(chain[n])
      /\ current_transactions[n] \in Seq(Transaction)
      /\ clock \in Nat /\ proof \in Nat
  BY <1>1, BlocksAssumption DEF ResolveInvariant, TypeOK
<1> DEFINE ch == chain[n]
           pool == current_transactions[n]
           new == new_block(ch, Append(pool, Reward(n)), proof,
                            hash(last_block(ch)), clock)
<1>3. FoundByProofOfWork(last_block(ch), proof)
  BY <1>1
<1> HIDE DEF ch, pool
<1>4. ch \in Seq(Block) /\ Trustworthy(ch) /\ pool \in Seq(Transaction)
  BY <1>2 DEF ch, pool
<1>5. /\ new \in Seq(Block)
      /\ Len(new) = Len(ch) + 1
      /\ new = Append(ch, last_block(new))
      /\ last_block(new).transactions = Append(pool, Reward(n))
      /\ Trustworthy(new)
  BY <1>2, <1>3, <1>4, MinedBlock
<1>6. chain' = [chain EXCEPT ![n] = new]
  BY <1>1 DEF ch, pool
<1> HIDE DEF new
<1> QED
  BY <1>5, <1>6 DEF ch, pool

-----------------------------------------------------------------------------
(* The inductive invariant *)

LEMMA MineHolds ==
  ASSUME ResolveInvariant, NEW n \in Node, Mine(n)
  PROVE  ResolveInvariant'
<1>1. PICK new \in Seq(Block) :
        /\ chain' = [chain EXCEPT ![n] = new]
        /\ Trustworthy(new)
  BY Mined
<1>2. TypeOK /\ Free(n) /\ UNCHANGED << request, nodes, posted >>
  BY DEF Mine, ResolveInvariant
<1>3. chain' \in [Node -> Seq(Block)]
  BY <1>1, <1>2 DEF TypeOK
<1>4. current_transactions' \in [Node -> Seq(Transaction)]
  <2>1. << >> \in Seq(Transaction)
    OBVIOUS
  <2> QED
    BY <1>2, <2>1 DEF TypeOK, Mine, ResetTransactions
<1>5. TypeOK'
  BY <1>2, <1>3, <1>4 DEF TypeOK, Mine
<1>6. ASSUME NEW m \in Node
      PROVE  /\ Trustworthy(chain'[m])
             /\ ~ Free(m) => chain'[m] = chain[m]
             /\ Free(m)' = Free(m)
  BY <1>1, <1>2, <1>6 DEF ResolveInvariant, TypeOK, Free
<1>7. request[n].new_chain = << >>
  BY <1>2 DEF ResolveInvariant, NoRequest
<1>8. \A m \in Node : m # n => chain'[m] = chain[m]
  BY <1>1, <1>2 DEF TypeOK
<1> QED
  BY <1>2, <1>5, <1>6, <1>7, <1>8 DEF ResolveInvariant

LEMMA NewTransactionHolds ==
  ASSUME ResolveInvariant, NEW n \in Node, NEW tx \in UserTransaction,
         NewTransaction(n, tx)
  PROVE  ResolveInvariant'
<1>1. tx \in Transaction
  BY DEF Transaction, Minted
<1>2. current_transactions' \in [Node -> Seq(Transaction)]
  BY <1>1 DEF ResolveInvariant, TypeOK, NewTransaction
<1>3. TypeOK'
  BY <1>2 DEF ResolveInvariant, TypeOK, NewTransaction
<1> QED
  BY <1>3 DEF ResolveInvariant, NewTransaction, Free

LEMMA RegisterNodesHolds ==
  ASSUME ResolveInvariant, NEW n \in Node, NEW body \in RegisterRequest[n],
         RegisterNodes(n, body)
  PROVE  ResolveInvariant'
<1> DEFINE added == {body[i].host : i \in {j \in 1 .. Len(body) :
                                           \A k \in 1 .. j : Accepts(body[k])}}
<1>1. body \in Seq(Address)
  BY PyAssumption
<1>2. \A i \in 1 .. Len(body) : body[i] \in Address
  BY <1>1
<1>3. added \subseteq Peer
  BY <1>2 DEF Address
<1>4. nodes' = [nodes EXCEPT ![n] = @ \cup added]
  BY DEF RegisterNodes
<1> HIDE DEF added
<1>5. nodes' \in [Node -> SUBSET Peer]
  BY <1>3, <1>4 DEF ResolveInvariant, TypeOK
<1>6. TypeOK'
  BY <1>5 DEF ResolveInvariant, TypeOK, RegisterNodes
<1> QED
  BY <1>6 DEF ResolveInvariant, RegisterNodes, Free

(* Ledger means by these words what the node means by them. *)
LEMMA SameWords ==
  /\ \A c : Promise!SoundChain(c) = SoundChain(c)
  /\ \A c : Promise!last_block(c) = last_block(c)
  /\ \A n : Promise!Reward(n) = Reward(n)
  /\ \A b, n : Promise!MinedBy(b, n) = MinedBy(b, n)
  /\ Promise!Transaction = Transaction
<1>1. \A n : Promise!Reward(n) = Reward(n)
  BY DEF Promise!Reward, Reward
<1>2. Promise!UndefinedTransaction = UndefinedTransaction
  BY DEF Promise!UndefinedTransaction, UndefinedTransaction
<1>3. Promise!Transaction = Transaction
  BY <1>1, <1>2 DEF Promise!Transaction, Promise!Minted, Transaction, Minted
<1>4. \A c : Promise!last_block(c) = last_block(c)
  BY DEF Promise!last_block, last_block
<1>5. \A b : Promise!hash(b) = hash(b)
  BY DEF Promise!hash, hash, Promise!ContentOf, ContentOf
<1>6. \A p, q, h : Promise!valid_proof(p, q, h) = valid_proof(p, q, h)
  BY DEF Promise!valid_proof, valid_proof
<1>7. \A c : Promise!valid_chain(c) = valid_chain(c)
  BY <1>5, <1>6 DEF Promise!valid_chain, valid_chain
<1>8. \A c : Promise!SoundChain(c) = SoundChain(c)
  BY <1>7 DEF Promise!SoundChain, SoundChain,
              Promise!GenesisPreviousHash, GenesisPreviousHash
<1>9. \A b, n : Promise!MinedBy(b, n) = MinedBy(b, n)
  BY <1>1 DEF Promise!MinedBy, MinedBy
<1> QED
  BY <1>1, <1>3, <1>4, <1>8, <1>9

(* What goes on after an answer, or ends: the invariant holds, and the node *)
(* keeps its chain or adopts a longer one.                                  *)
LEMMA ContinueHolds ==
  ASSUME ResolveInvariant, NEW n \in Node, NEW left \in SUBSET Peer,
         NEW longest \in Nat, NEW best \in Seq(Block),
         longest >= Len(chain[n]),
         best # << >> => /\ Trustworthy(best)
                         /\ longest = Len(best)
                         /\ Len(best) > Len(chain[n])
                         /\ ~ MinedBy(last_block(best), n),
         Continue(n, left, longest, best)
  PROVE  /\ ResolveInvariant'
         /\ \/ UNCHANGED << chain, current_transactions >>
            \/ Promise!Adopt(n) /\ Promise!OthersKeep(n)
<1>1. TypeOK
  BY DEF ResolveInvariant
<1>2. CASE Ask(n, left, longest, best)
  <2>1. PICK node \in left :
          request' = [request EXCEPT ![n] =
            [pc |-> "asking", left |-> left \ {node}, node |-> node,
             max_length |-> longest, new_chain |-> best, response |-> << >>]]
    BY <1>2 DEF Ask
  <2>2. << >> \in Seq(Block) /\ node \in Peer /\ left \ {node} \in SUBSET Peer
    OBVIOUS
  <2>3. request' \in [Node -> RequestState]
    BY <1>1, <2>1, <2>2 DEF TypeOK, RequestState
  <2>4. UNCHANGED << chain, current_transactions, nodes, clock, posted >>
    BY <1>2 DEF Ask, Continue
  <2>5. TypeOK'
    BY <1>1, <2>3, <2>4 DEF TypeOK
  <2>6. /\ request'[n].pc = "asking"
        /\ request'[n].response = << >>
        /\ request'[n].new_chain = best
        /\ request'[n].max_length = longest
        /\ \A m \in Node : m # n => request'[m] = request[m]
    BY <1>1, <2>1 DEF TypeOK
  <2> QED
    BY <2>4, <2>5, <2>6 DEF ResolveInvariant, Free
<1>3. CASE Conclude(n, left, best)
  <2>1. /\ request' = [request EXCEPT ![n] = NoRequest]
        /\ UNCHANGED << current_transactions, nodes, clock, posted >>
    BY <1>3 DEF Conclude, Continue
  <2>2. chain' \in [Node -> Seq(Block)]
    BY <1>1, <1>3 DEF Conclude, TypeOK
  <2>3. TypeOK'
    BY <1>1, <2>1, <2>2, NoRequestType DEF TypeOK
  <2>4. /\ request'[n] = NoRequest
        /\ \A m \in Node : m # n => /\ request'[m] = request[m]
                                   /\ chain'[m] = chain[m]
    BY <1>1, <1>3, <2>1 DEF Conclude, TypeOK
  <2>5. \/ chain' = chain
        \/ best # << >> /\ chain'[n] = best
    BY <1>1, <1>3 DEF Conclude, TypeOK
  <2>6. ResolveInvariant'
    BY <2>3, <2>4, <2>5 DEF ResolveInvariant, Free, NoRequest
  <2>7. ASSUME best # << >>, chain'[n] = best
        PROVE  Promise!Adopt(n) /\ Promise!OthersKeep(n)
    BY <2>1, <2>4, <2>7, SameWords
       DEF Promise!Adopt, Promise!OthersKeep, Trustworthy
  <2> QED
    BY <2>1, <2>5, <2>6, <2>7
<1> QED
  BY <1>2, <1>3 DEF Continue

LEMMA ConsensusHolds ==
  ASSUME ResolveInvariant, NEW n \in Node, Consensus(n)
  PROVE  /\ ResolveInvariant'
         /\ \/ UNCHANGED << chain, current_transactions >>
            \/ Promise!Adopt(n) /\ Promise!OthersKeep(n)
<1>1. Len(chain[n]) \in Nat /\ Len(chain[n]) >= Len(chain[n])
  BY RequestFields DEF ResolveInvariant
<1>2. << >> \in Seq(Block) /\ nodes[n] \in SUBSET Peer
  BY DEF ResolveInvariant, TypeOK
<1>3. Continue(n, nodes[n], Len(chain[n]), << >>)
  BY DEF Consensus
<1> QED
  BY <1>1, <1>2, <1>3, ContinueHolds

LEMMA FullChainHolds ==
  ASSUME ResolveInvariant, NEW n \in Node, FullChain(n)
  PROVE  ResolveInvariant'
<1>1. TypeOK /\ request[n] \in RequestState
  BY DEF ResolveInvariant, TypeOK
<1>2. /\ chain[request[n].node] \in Seq(Block)
      /\ Trustworthy(chain[request[n].node])
  BY DEF FullChain, ResolveInvariant, TypeOK
<1>3. request' = [request EXCEPT ![n] =
        [request[n] EXCEPT !.pc = "answered",
                           !.response = chain[request[n].node]]]
  BY <1>1 DEF FullChain, TypeOK
<1>4. /\ request'[n].pc = "answered"
      /\ request'[n].response = chain[request[n].node]
      /\ request'[n].new_chain = request[n].new_chain
      /\ request'[n].max_length = request[n].max_length
      /\ \A m \in Node : m # n => request'[m] = request[m]
  BY <1>1, <1>3 DEF TypeOK, RequestState
<1>5. request' \in [Node -> RequestState]
  BY <1>1, <1>2, <1>3 DEF TypeOK, RequestState
<1>6. UNCHANGED << chain, current_transactions, nodes, clock, posted >>
      /\ ~ Free(n)
  BY DEF FullChain, Free
<1>7. TypeOK'
  BY <1>1, <1>5, <1>6 DEF TypeOK
<1> QED
  BY <1>2, <1>4, <1>6, <1>7 DEF ResolveInvariant, Free

LEMMA ResumeConsensusHolds ==
  ASSUME ResolveInvariant, NoneAhead, NEW n \in Node,
         ResumeConsensus(n) \/ NotOK(n)
  PROVE  /\ ResolveInvariant'
         /\ \/ UNCHANGED << chain, current_transactions >>
            \/ Promise!Adopt(n) /\ Promise!OthersKeep(n)
<1> DEFINE r == request[n]
<1>1. /\ r.left \in SUBSET Peer
      /\ r.max_length \in Nat
      /\ r.new_chain \in Seq(Block) /\ r.response \in Seq(Block)
      /\ Len(r.response) \in Nat
      /\ Len(chain[n]) \in Nat
  BY RequestFields DEF ResolveInvariant
<1>2. /\ r.max_length >= Len(chain[n])
      /\ r.new_chain # << >> => /\ Trustworthy(r.new_chain)
                                /\ r.max_length = Len(r.new_chain)
                                /\ Len(r.new_chain) > Len(chain[n])
  BY DEF ResolveInvariant, ResumeConsensus, NotOK, Free
<1>3. CASE ResumeConsensus(n) /\ Longer(r)
  <2>1. Continue(n, r.left, Len(r.response), r.response)
    BY <1>3 DEF ResumeConsensus
  <2>2. Len(r.response) > Len(chain[n])
    BY <1>1, <1>2, <1>3 DEF Longer
  <2>3. r.response # << >>
    BY <1>1, <2>2
  <2>4. Trustworthy(r.response)
    BY <2>3 DEF ResolveInvariant
  <2>5. Len(r.response) >= Len(chain[n])
    BY <1>1, <2>2
  <2>6. ~ MinedBy(last_block(r.response), n)
    BY <1>1, <2>2, LongerOfAnother DEF NoneAhead, ResolveInvariant, TypeOK
  <2> QED
    BY <1>1, <2>1, <2>2, <2>4, <2>5, <2>6, ContinueHolds
<1>4. CASE (ResumeConsensus(n) /\ ~ Longer(r)) \/ NotOK(n)
  <2>1. Continue(n, r.left, r.max_length, r.new_chain)
    BY <1>4 DEF ResumeConsensus, NotOK
  <2>2. r.new_chain # << >> => ~ MinedBy(last_block(r.new_chain), n)
    BY <1>1, <1>2, LongerOfAnother DEF NoneAhead, ResolveInvariant, TypeOK
  <2> QED
    BY <1>1, <1>2, <2>1, <2>2, ContinueHolds
<1> QED
  BY <1>3, <1>4

LEMMA RequestFailsHolds ==
  ASSUME ResolveInvariant, NEW n \in Node, RequestFails(n)
  PROVE  ResolveInvariant'
<1>1. TypeOK'
  BY NoRequestType DEF ResolveInvariant, TypeOK, RequestFails
<1>2. /\ request'[n] = NoRequest
      /\ \A m \in Node : m # n => request'[m] = request[m]
      /\ chain' = chain
  BY DEF ResolveInvariant, TypeOK, RequestFails
<1> QED
  BY <1>1, <1>2 DEF ResolveInvariant, Free, NoRequest

LEMMA ResolveStep == PyInvariant /\ [Next]_vars => ResolveInvariant'
<1>1. ASSUME ResolveInvariant, UNCHANGED vars
      PROVE  ResolveInvariant'
  BY <1>1 DEF ResolveInvariant, TypeOK, Free, vars
<1> QED
  BY <1>1, NewTransactionHolds, RegisterNodesHolds, MineHolds, ConsensusHolds,
     FullChainHolds, ResumeConsensusHolds, RequestFailsHolds DEF Next, PyInvariant

(* The chains in use at a node: its own, the answer it has, the one found. *)
InUse(n) == {chain[n], request[n].response, request[n].new_chain}

LEMMA InUseTyped ==
  ASSUME TypeOK, NEW n \in Node
  PROVE  InUse(n) \subseteq Seq(Block)
BY RequestFields DEF InUse

(* Where chains only grow, and none comes into use but those in use before *)
(* and one that is not ahead of its miner, no chain is ahead of its miner. *)
LEMMA NoneAheadHolds ==
  ASSUME TypeOK, TypeOK', NoneAhead,
         \A n \in Node : Len(chain'[n]) >= Len(chain[n]),
         \A n \in Node : \A c \in InUse(n)' :
           \/ \E m \in Node : c \in InUse(m)
           \/ c = << >>
           \/ AheadOfNoMiner(c, chain')
  PROVE  NoneAhead'
<1>1. chain \in [Node -> Seq(Block)] /\ chain' \in [Node -> Seq(Block)]
  BY DEF TypeOK
<1>2. ASSUME NEW n \in Node, NEW c \in InUse(n)'
      PROVE  AheadOfNoMiner(c, chain')
  <2>1. CASE \E m \in Node : c \in InUse(m)
    <3>1. c \in Seq(Block) /\ AheadOfNoMiner(c, chain)
      BY <2>1, InUseTyped DEF NoneAhead, InUse
    <3> QED
      BY <1>1, <3>1, AheadGrows
  <2> QED
    BY <1>2, <2>1, EmptyNotAhead
<1> QED
  BY <1>2 DEF NoneAhead, InUse

LEMMA MineNoneAhead ==
  ASSUME PyInvariant, TypeOK', NEW n \in Node, Mine(n)
  PROVE  NoneAhead'
<1>1. PICK new \in Seq(Block) :
        /\ chain' = [chain EXCEPT ![n] = new]
        /\ Len(new) = Len(chain[n]) + 1
        /\ new = Append(chain[n], last_block(new))
        /\ last_block(new).transactions =
             Append(current_transactions[n], Reward(n))
  BY Mined DEF PyInvariant
<1>2. /\ TypeOK /\ NoneAhead /\ request' = request
      /\ chain \in [Node -> Seq(Block)] /\ chain' \in [Node -> Seq(Block)]
      /\ current_transactions[n] \in Seq(Transaction)
  BY DEF PyInvariant, ResolveInvariant, TypeOK, Mine
<1>3. /\ chain'[n] = new
      /\ \A m \in Node : m # n => chain'[m] = chain[m]
      /\ \A m \in Node : Len(chain[m]) \in Nat
  BY <1>1, <1>2
<1>4. \A m \in Node : Len(chain'[m]) >= Len(chain[m])
  BY <1>1, <1>3
<1>5. AheadOfNoMiner(chain[n], chain')
  BY <1>2, <1>4, AheadGrows DEF NoneAhead
<1>6. AheadOfNoMiner(new, chain')
  <2> DEFINE top == last_block(new)
  <2>1. /\ new = Append(chain[n], top)
        /\ top.transactions = Append(current_transactions[n], Reward(n))
        /\ chain[n] \in Seq(Block)
        /\ Len(chain'[n]) = Len(chain[n]) + 1
    BY <1>1, <1>2, <1>3
  <2> HIDE DEF top
  <2> QED
    BY <1>1, <1>2, <1>5, <2>1, MinedNotAhead
<1>7. \A m \in Node : \A c \in InUse(m)' : c \in InUse(m) \/ c = new
  BY <1>2, <1>3 DEF InUse
<1> QED
  BY <1>2, <1>4, <1>6, <1>7, NoneAheadHolds

LEMMA ResolveNoneAhead ==
  ASSUME PyInvariant, TypeOK', NEW n \in Node,
         Consensus(n) \/ FullChain(n) \/ ResumeConsensus(n) \/ NotOK(n)
                      \/ RequestFails(n)
  PROVE  NoneAhead'
<1>1. TypeOK /\ NoneAhead /\ request[n] \in RequestState
  BY DEF PyInvariant, ResolveInvariant, TypeOK
<1>2. \A m \in Node : Len(chain[m]) \in Nat
  BY <1>1, RequestFields
<1>3. \A m \in Node : m # n => chain'[m] = chain[m] /\ request'[m] = request[m]
  BY <1>1 DEF Consensus, FullChain, ResumeConsensus, NotOK, RequestFails,
              Continue, Ask, Conclude, TypeOK
<1>4. \A m \in Node : Len(chain'[m]) >= Len(chain[m])
  <2>1. CASE FullChain(n) \/ RequestFails(n)
    BY <1>2, <2>1 DEF FullChain, RequestFails
  <2>2. CASE Consensus(n) \/ ResumeConsensus(n) \/ NotOK(n)
    <3>1. \/ UNCHANGED << chain, current_transactions >>
          \/ Promise!Adopt(n)
      BY <2>2, ConsensusHolds, ResumeConsensusHolds DEF PyInvariant
    <3>2. Len(chain'[n]) >= Len(chain[n])
      <4>1. CASE Promise!Adopt(n)
        <5>1. chain'[n] \in Seq(Block)
          BY DEF TypeOK
        <5> QED
          BY <1>2, <4>1, <5>1 DEF Promise!Adopt
      <4> QED
        BY <1>2, <3>1, <4>1
    <3> QED
      BY <1>2, <1>3, <3>2
  <2> QED
    BY <2>1, <2>2
<1>5. \A c \in InUse(n)' : (\E m \in Node : c \in InUse(m)) \/ c = << >>
  <2>1. CASE FullChain(n)
    <3>1. /\ request' = [request EXCEPT ![n] =
                 [request[n] EXCEPT !.pc = "answered",
                                    !.response = chain[request[n].node]]]
          /\ chain' = chain /\ request[n].node \in Node
      BY <1>1, <2>1 DEF FullChain, TypeOK
    <3>2. /\ request'[n].response = chain[request[n].node]
          /\ request'[n].new_chain = request[n].new_chain
      BY <1>1, <3>1 DEF TypeOK, RequestState
    <3> QED
      BY <3>1, <3>2 DEF InUse
  <2>2. CASE RequestFails(n)
    <3>1. request'[n] = NoRequest /\ chain' = chain
      BY <1>1, <2>2 DEF RequestFails, TypeOK
    <3> QED
      BY <3>1 DEF InUse, NoRequest
  <2>3. ASSUME NEW left, NEW longest, NEW best \in InUse(n) \cup {<< >>},
               Continue(n, left, longest, best)
        PROVE  \A c \in InUse(n)' : c \in InUse(n) \/ c = << >>
    <3>1. CASE Ask(n, left, longest, best)
      <4>1. /\ request'[n].response = << >> /\ request'[n].new_chain = best
            /\ chain' = chain
        BY <1>1, <3>1 DEF Ask, TypeOK
      <4> QED
        BY <2>3, <4>1 DEF InUse
    <3>2. CASE Conclude(n, left, best)
      <4>1. request'[n] = NoRequest /\ chain'[n] \in {chain[n], best}
        BY <1>1, <3>2 DEF Conclude, TypeOK
      <4> QED
        BY <2>3, <4>1 DEF InUse, NoRequest
    <3> QED
      BY <2>3, <3>1, <3>2 DEF Continue
  <2>4. CASE Consensus(n) \/ ResumeConsensus(n) \/ NotOK(n)
    <3>1. \E left, longest : \E best \in InUse(n) \cup {<< >>} :
            Continue(n, left, longest, best)
      BY <2>4 DEF Consensus, ResumeConsensus, NotOK, InUse
    <3> QED
      BY <2>3, <3>1
  <2> QED
    BY <2>1, <2>2, <2>4
<1>6. \A m \in Node : m # n => InUse(m)' = InUse(m)
  BY <1>3 DEF InUse
<1> QED
  BY <1>1, <1>4, <1>5, <1>6, NoneAheadHolds

LEMMA StepHolds == PyInvariant /\ [Next]_vars => PyInvariant'
<1> SUFFICES ASSUME PyInvariant, [Next]_vars PROVE PyInvariant'
  OBVIOUS
<1>1. ResolveInvariant' /\ TypeOK' /\ NoneAhead
  BY ResolveStep DEF ResolveInvariant, PyInvariant
<1>2. ASSUME UNCHANGED << chain, request >>
      PROVE  NoneAhead'
  BY <1>1, <1>2 DEF NoneAhead, AheadOfNoMiner
<1>3. ASSUME NEW n \in Node,
             \/ \E tx \in UserTransaction : NewTransaction(n, tx)
             \/ \E body \in RegisterRequest[n] : RegisterNodes(n, body)
      PROVE  UNCHANGED << chain, request >>
  BY <1>3 DEF NewTransaction, RegisterNodes
<1>4. NoneAhead'
  BY <1>1, <1>2, <1>3, MineNoneAhead, ResolveNoneAhead DEF Next, vars
<1> QED
  BY <1>1, <1>4 DEF PyInvariant

(***************************************************************************)
(* The inductive invariant: chains held, answered and found are sound,     *)
(* while a node resolves nothing changes its chain behind it, and no chain *)
(* is ahead of the miner of any of its blocks.                             *)
(***************************************************************************)
THEOREM Invariance == Spec => []PyInvariant
<1>1. Init => PyInvariant
  BY InitHolds, InitNoneAhead DEF PyInvariant
<1> QED
  BY <1>1, StepHolds, PTL DEF Spec

(* The variables keep the types the program gives them. *)
THEOREM TypeCorrect == Spec => []TypeOK
<1>1. PyInvariant => TypeOK
  BY DEF PyInvariant, ResolveInvariant
<1> QED
  BY <1>1, Invariance, PTL

-----------------------------------------------------------------------------
(* The promise *)

LEMMA InitPromised == Init => Promise!Init
BY GenesisSound, PyAssumption, SameWords DEF Init, Promise!Init

LEMMA StepPromised ==
  ASSUME PyInvariant, [Next]_vars
  PROVE  [Promise!Next]_(Promise!ledgerVars)
<1> SUFFICES ASSUME Next
             PROVE  Promise!Next \/ UNCHANGED << chain, current_transactions >>
  BY DEF vars, Promise!ledgerVars
<1>1. TypeOK /\ ResolveInvariant /\ NoneAhead
  BY DEF PyInvariant, ResolveInvariant
<1>2. ASSUME NEW n \in Node, NEW tx \in UserTransaction, NewTransaction(n, tx)
      PROVE  Promise!Next
  <2>1. tx \in Transaction
    BY DEF Transaction, Minted
  <2>2. /\ current_transactions'[n] = Append(current_transactions[n], tx)
        /\ \A m \in Node \ {n} :
             current_transactions'[m] = current_transactions[m]
        /\ chain' = chain
    BY <1>1, <1>2 DEF NewTransaction, TypeOK
  <2>3. Promise!Accept(n) /\ Promise!OthersKeep(n)
    BY <2>1, <2>2, SameWords DEF Promise!Accept, Promise!OthersKeep
  <2> QED
    BY <2>3 DEF Promise!Next
<1>3. ASSUME NEW n \in Node, Mine(n)
      PROVE  Promise!Next
  <2>1. PICK new \in Seq(Block) :
          /\ chain' = [chain EXCEPT ![n] = new]
          /\ new = Append(chain[n], last_block(new))
          /\ last_block(new).transactions =
               Append(current_transactions[n], Reward(n))
          /\ Trustworthy(new)
    BY <1>1, <1>3, Mined
  <2>2. /\ chain'[n] = new
        /\ current_transactions'[n] = << >>
        /\ \A m \in Node \ {n} :
             /\ chain'[m] = chain[m]
             /\ current_transactions'[m] = current_transactions[m]
    BY <1>1, <1>3, <2>1 DEF Mine, ResetTransactions, TypeOK
  <2>3. Promise!Extend(n) /\ Promise!OthersKeep(n)
    BY <2>1, <2>2, SameWords
       DEF Promise!Extend, Promise!OthersKeep, Trustworthy
  <2> QED
    BY <2>3 DEF Promise!Next
<1>4. ASSUME NEW n \in Node,
             Promise!Adopt(n) /\ Promise!OthersKeep(n)
      PROVE  Promise!Next
  BY <1>4 DEF Promise!Next
<1>5. ASSUME NEW n \in Node,
             Consensus(n) \/ ResumeConsensus(n) \/ NotOK(n)
      PROVE  Promise!Next \/ UNCHANGED << chain, current_transactions >>
  BY <1>1, <1>4, <1>5, ConsensusHolds, ResumeConsensusHolds
<1>6. ASSUME NEW n \in Node,
             \/ \E body \in RegisterRequest[n] : RegisterNodes(n, body)
             \/ FullChain(n)
             \/ RequestFails(n)
      PROVE  UNCHANGED << chain, current_transactions >>
  BY <1>6 DEF RegisterNodes, FullChain, RequestFails
<1> QED
  BY <1>2, <1>3, <1>5, <1>6 DEF Next

(***************************************************************************)
(* The Python node implements the ledger: chains grow by blocks that carry *)
(* all that waits, or are replaced by longer valid ones, and nothing else  *)
(* happens to them.                                                        *)
(***************************************************************************)
THEOREM PromiseKept == Spec => KeepsPromise
BY InitPromised, StepPromised, Invariance, PTL
   DEF Spec, KeepsPromise, Promise!Spec

=============================================================================
