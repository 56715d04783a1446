------------------------------ MODULE CppProofs ------------------------------
(***************************************************************************)
(* Theorems about the network of C++ nodes, for any threads and nodes: the *)
(* damage data races do stays at the nodes they happen at.                 *)
(***************************************************************************)
EXTENDS CppNetwork, BlockProofs, SequenceTheorems

-----------------------------------------------------------------------------
(* Typing *)

LEMMA NoBlockType == NoBlock \in Block /\ Garbage \in Digest
<1>1. << >> \in Seq(Transaction) /\ << >> \in Seq(Content)
  OBVIOUS
<1>2. NoBlock \in Block
  BY <1>1 DEF NoBlock, Block, Digest, GenesisPreviousHash
<1> QED
  BY <1>2, HashType DEF Garbage

LEMMA IdleType ==
  ASSUME NEW t \in Thread
  PROVE  /\ Idle(t) \in Work
         /\ Idle(t).pc = "idle"
         /\ ~ Idle(t).stale
         /\ ResolveInOrder(Idle(t))
         /\ [Idle(t) EXCEPT !.pc = "appended"] \in Work
         /\ [Idle(t) EXCEPT !.pc = "appended"].pc = "appended"
         /\ ResolveInOrder([Idle(t) EXCEPT !.pc = "appended"])
<1>1. << >> \in Seq(Block) /\ {} \in SUBSET Peer /\ "elsewhere" \in Peer
  BY DEF Peer
<1>2. valid_chain(<< >>)
  BY DEF valid_chain
<1> QED
  BY <1>1, <1>2, NoBlockType DEF Idle, Work, ResolveInOrder

LEMMA Typed ==
  ASSUME TypeOK, NEW t \in Thread
  PROVE  /\ thread[t] \in Work
         /\ Home[t] \in Node
         /\ chain[Home[t]] \in Seq(Block)
         /\ Len(chain[Home[t]]) \in Nat
         /\ current_transactions[Home[t]] \in Seq(Transaction)
         /\ nodes[Home[t]] \in SUBSET Peer
         /\ overlapped[Home[t]] \in BOOLEAN
         /\ thread[t].last \in Block
         /\ thread[t].forged \in Block
         /\ thread[t].stale \in BOOLEAN
         /\ thread[t].left \in SUBSET Peer
         /\ thread[t].peer \in Peer
         /\ thread[t].server \in Thread
         /\ thread[t].max_length \in Nat
         /\ thread[t].new_chain \in Seq(Block)
         /\ thread[t].reply \in Seq(Block)
<1>1. thread[t] \in Work /\ Home[t] \in Node
  BY RacingAssumption DEF TypeOK
<1>2. /\ chain[Home[t]] \in Seq(Block)
      /\ current_transactions[Home[t]] \in Seq(Transaction)
      /\ nodes[Home[t]] \in SUBSET Peer
      /\ overlapped[Home[t]] \in BOOLEAN
  BY <1>1 DEF TypeOK
<1> QED
  BY <1>1, <1>2 DEF Work

LEMMA InitHolds == Init => RacingInvariant
<1> SUFFICES ASSUME Init PROVE RacingInvariant
  OBVIOUS
<1>1. \A n \in Node : /\ chain[n] \in Seq(Block)
                      /\ Len(chain[n]) = 1
                      /\ valid_chain(chain[n])
  BY GenesisSound, RacingAssumption DEF Init, SoundChain
<1>2. \A t \in Thread : /\ thread[t] \in Work
                        /\ thread[t].pc = "idle"
                        /\ ResolveInOrder(thread[t])
  BY IdleType DEF Init
<1>3. chain \in [Node -> Seq(Block)] /\ thread \in [Thread -> Work]
  BY <1>1, <1>2 DEF Init
<1>4. << >> \in Seq(Transaction)
  OBVIOUS
<1>5. TypeOK
  BY <1>3, <1>4, RacingAssumption DEF Init, TypeOK
<1>6. \A t \in Thread : MineInOrder(t)
  BY <1>2 DEF MineInOrder
<1>7. \A n \in Node : InProgress(n) = {}
  BY <1>2 DEF InProgress, Local
<1> QED
  BY <1>1, <1>2, <1>5, <1>6, <1>7 DEF RacingInvariant

-----------------------------------------------------------------------------
(* Alone *)

(* No handler but one of t is in progress at the node of t. *)
Alone(t) == \A u \in Local(Home[t]) \ {t} : thread[u].pc = "idle"

(* In a quiet node, a handler in progress is alone ... *)
LEMMA InProgressAlone ==
  ASSUME RacingInvariant, NEW t \in Thread,
         Quiet(Home[t]), thread[t].pc # "idle"
  PROVE  Alone(t)
<1>1. Home[t] \in Node
  BY RacingAssumption
<1> QED
  BY <1>1 DEF RacingInvariant, Alone, InProgress, Local

(* ... and so is one that is entered and leaves the node quiet. *)
LEMMA EntersAlone ==
  ASSUME RacingInvariant, NEW t \in Thread, Overlaps(t)
  PROVE  /\ overlapped' \in [Node -> BOOLEAN]
         /\ \A m \in Node : m # Home[t] => overlapped'[m] = overlapped[m]
         /\ Quiet(Home[t])' => Quiet(Home[t]) /\ Alone(t)
<1>1. Home[t] \in Node /\ overlapped \in [Node -> BOOLEAN]
  BY RacingAssumption DEF RacingInvariant, TypeOK
<1>2. overlapped'[Home[t]] = (overlapped[Home[t]] \/ InProgress(Home[t]) # {})
  BY <1>1 DEF Overlaps
<1>3. InProgress(Home[t]) = {} => Alone(t)
  BY DEF InProgress, Alone
<1> QED
  BY <1>1, <1>2, <1>3 DEF Overlaps, Quiet

(* A raced write may be lost; by a handler that is alone it is not. *)
LEMMA OneOutcome ==
  ASSUME NEW t \in Thread, NEW v, NEW old, NEW new,
         NEW now \in Outcomes(t, v, old, new)
  PROVE  now \in {old, new} /\ (Alone(t) => now = new)
<1>1. ASSUME NEW u, thread[u].pc = "idle"
      PROVE  Writes(u) = {}
  BY <1>1 DEF Writes
<1>2. Alone(t) => ~ Raced(t, v)
  BY <1>1 DEF Raced, Alone
<1> QED
  BY <1>2 DEF Outcomes

(* What a step of t does to the other threads of its node. *)
Disturbs(t) ==
  \A u \in Thread \ {t} :
    \/ thread'[u] = thread[u]
    \/ /\ Home[u] = Home[t]
       /\ thread[u].pc # "idle"
       /\ thread'[u] = [thread[u] EXCEPT !.stale = TRUE]

(* What a step of t that its own node stands, all nodes stand. *)
LEMMA NodeStep ==
  ASSUME RacingInvariant, NEW t \in Thread,
         TypeOK',
         \A m \in Node : m # Home[t] =>
           /\ chain'[m] = chain[m]
           /\ current_transactions'[m] = current_transactions[m]
           /\ overlapped'[m] = overlapped[m],
         Disturbs(t),
         ResolveInOrder(thread'[t]),
         Len(chain'[Home[t]]) >= 1,
         Quiet(Home[t])' => /\ Quiet(Home[t]) /\ Alone(t)
                            /\ valid_chain(chain'[Home[t]])
                            /\ MineInOrder(t)'
  PROVE  RacingInvariant'
<1>1. Home[t] \in Node /\ TypeOK
  BY RacingAssumption DEF RacingInvariant
<1>2. ASSUME NEW u \in Thread, u # t
      PROVE  /\ thread'[u].pc = thread[u].pc
             /\ thread'[u].new_chain = thread[u].new_chain
             /\ thread'[u].peer = thread[u].peer
             /\ Home[u] # Home[t] => thread'[u] = thread[u]
  <2>1. CASE thread'[u] = thread[u]
    BY <2>1
  <2>2. CASE Home[u] = Home[t] /\ thread'[u] = [thread[u] EXCEPT !.stale = TRUE]
    <3>1. thread[u] \in Work
      BY <1>1, Typed
    <3> QED
      BY <2>2, <3>1 DEF Work
  <2> QED
    BY <1>2, <2>1, <2>2 DEF Disturbs
<1>3. ASSUME NEW m \in Node, Quiet(m)'
      PROVE  /\ Quiet(m)
             /\ valid_chain(chain'[m])
             /\ \A u, w \in InProgress(m)' : u = w
  <2>1. CASE m = Home[t]
    BY <1>2, <1>3, <2>1 DEF Alone, InProgress, Local
  <2>2. CASE m # Home[t]
    BY <1>1, <1>2, <1>3, <2>2 DEF RacingInvariant, InProgress, Local, Quiet
  <2> QED
    BY <2>1, <2>2
<1>4. \A m \in Node : Len(chain'[m]) >= 1
  BY DEF RacingInvariant
<1>5. \A u \in Thread : ResolveInOrder(thread'[u])
  BY <1>2 DEF RacingInvariant, ResolveInOrder
<1>6. ASSUME NEW u \in Thread, Quiet(Home[u])'
      PROVE  MineInOrder(u)'
  <2>1. CASE u = t
    BY <1>6, <2>1
  <2>2. CASE u # t /\ Home[u] = Home[t]
    <3>1. thread'[u].pc = "idle"
      BY <1>2, <1>6, <2>2 DEF Alone, Local
    <3> QED
      BY <3>1 DEF MineInOrder
  <2>3. CASE Home[u] # Home[t]
    <3>1. Home[u] \in Node
      BY RacingAssumption
    <3>2. /\ thread'[u] = thread[u]
          /\ chain'[Home[u]] = chain[Home[u]]
          /\ current_transactions'[Home[u]] = current_transactions[Home[u]]
      BY <1>2, <2>3, <3>1
    <3>3. MineInOrder(u)
      BY <1>3, <1>6, <3>1 DEF RacingInvariant
    <3> QED
      BY <3>2, <3>3 DEF MineInOrder
  <2> QED
    BY <2>1, <2>2, <2>3
<1> QED
  BY <1>3, <1>4, <1>5, <1>6 DEF RacingInvariant

LEMMA ThreadStep ==
  ASSUME TypeOK, NEW t \in Thread, NEW work \in Work,
         thread' \in {[thread EXCEPT ![t] = work], AfterWrite(t, work)}
  PROVE  /\ thread' \in [Thread -> Work]
         /\ thread'[t] = work
         /\ Disturbs(t)
<1>1. thread \in [Thread -> Work]
  BY DEF TypeOK
<1>2. CASE thread' = [thread EXCEPT ![t] = work]
  BY <1>1, <1>2 DEF Disturbs
<1>3. CASE thread' = AfterWrite(t, work)
  <2>1. ASSUME NEW u \in Thread
        PROVE  [thread[u] EXCEPT !.stale = TRUE] \in Work
    BY <1>1 DEF Work
  <2>2. \A u \in Thread :
          thread'[u] =
            IF u = t THEN work
            ELSE IF Home[u] = Home[t] /\ thread[u].pc \in {"searching", "rewarded"}
              THEN [thread[u] EXCEPT !.stale = TRUE]
              ELSE thread[u]
    BY <1>3 DEF AfterWrite
  <2>3. thread' = [u \in Thread |-> thread'[u]]
    BY <1>3 DEF AfterWrite
  <2>4. \A u \in Thread : thread'[u] \in Work
    BY <1>1, <2>1, <2>2
  <2>5. Disturbs(t)
    BY <2>2 DEF Disturbs
  <2> QED
    BY <2>2, <2>3, <2>4, <2>5
<1> QED
  BY <1>2, <1>3

(* The vector of transactions written, raced or not. *)
LEMMA TransactionStep ==
  ASSUME TypeOK, NEW t \in Thread, NEW pool \in Seq(Transaction),
         current_transactions' \in
           Outcomes(t, "current_transactions", current_transactions,
                    [current_transactions EXCEPT ![Home[t]] = pool])
  PROVE  /\ current_transactions' \in [Node -> Seq(Transaction)]
         /\ \A m \in Node : m # Home[t] =>
              current_transactions'[m] = current_transactions[m]
         /\ Alone(t) => current_transactions'[Home[t]] = pool
<1> DEFINE old == current_transactions
           more == [old EXCEPT ![Home[t]] = pool]
           now == current_transactions'
           v == "current_transactions"
<1>1. Home[t] \in Node /\ old \in [Node -> Seq(Transaction)]
  BY RacingAssumption DEF TypeOK
<1>2. /\ more \in [Node -> Seq(Transaction)]
      /\ more[Home[t]] = pool
      /\ \A m \in Node : m # Home[t] => more[m] = old[m]
  BY <1>1
<1>3. now \in Outcomes(t, v, old, more)
  OBVIOUS
<1> HIDE DEF old, more, now, v
<1>4. now \in {old, more} /\ (Alone(t) => now = more)
  BY <1>3, OneOutcome
<1> QED
  BY <1>1, <1>2, <1>4 DEF old, now

(* What is read of a chain, torn or not, has the type of what it is. *)
LEMMA ReadType ==
  ASSUME RacingInvariant, NEW n \in Node
  PROVE  /\ SizesRead(n) \subseteq Nat
         /\ ChainsRead(n) \subseteq Seq(Block)
<1> DEFINE ch == chain[n]
           torn == [ch EXCEPT ![Len(ch)] = NoBlock]
<1>1. ch \in Seq(Block) /\ Len(ch) \in 1 .. Len(ch)
  BY DEF RacingInvariant, TypeOK
<1>2. SizesRead(n) \subseteq Nat
  BY <1>1 DEF SizesRead, TornSize
<1>3. torn \in Seq(Block)
  BY <1>1, NoBlockType, ExceptSeq
<1>4. ChainsRead(n) \subseteq {ch, torn}
  BY DEF ChainsRead
<1> HIDE DEF ch, torn
<1> QED
  BY <1>1, <1>2, <1>3, <1>4

-----------------------------------------------------------------------------
(* The inductive invariant *)

(* A handler is entered. *)
LEMMA EntersHolds ==
  ASSUME RacingInvariant, NEW t \in Thread, NEW work \in Work,
         ResolveInOrder(work),
         work.pc \in {"posting", "registering"},
         Enters(t, work), posted' \subseteq UserTransaction
  PROVE  RacingInvariant'
<1>1. /\ TypeOK /\ Overlaps(t) /\ Home[t] \in Node
      /\ UNCHANGED << chain, current_transactions, nodes, clock >>
      /\ thread' = [thread EXCEPT ![t] = work]
  BY Typed DEF RacingInvariant, Enters
<1>2. thread' \in [Thread -> Work] /\ thread'[t] = work /\ Disturbs(t)
  BY <1>1, ThreadStep
<1>3. TypeOK'
  BY <1>1, <1>2, EntersAlone DEF TypeOK
<1>4. MineInOrder(t)'
  BY <1>2 DEF MineInOrder
<1> QED
  BY <1>1, <1>2, <1>3, <1>4, EntersAlone, NodeStep DEF RacingInvariant

LEMMA PostEntersHolds ==
  ASSUME RacingInvariant, NEW t \in Thread, NEW tx \in UserTransaction,
         PostEnters(t, tx)
  PROVE  RacingInvariant'
<1> DEFINE sent == << tx >>
           work == [Idle(t) EXCEPT !.pc = "posting", !.forged.transactions = sent]
<1>1. posted' \subseteq UserTransaction /\ Enters(t, work)
  BY DEF PostEnters, RacingInvariant, TypeOK
<1>2. sent \in Seq(Transaction)
  <2>1. tx \in Transaction
    BY DEF Transaction, Minted
  <2> QED
    BY <2>1
<1> HIDE DEF sent
<1>3. /\ work \in Work /\ work.pc = "posting"
      /\ work.new_chain = Idle(t).new_chain
  <2>1. /\ Idle(t) \in Work /\ Idle(t).forged \in Block
        /\ [Idle(t).forged EXCEPT !.transactions = sent] \in Block
    BY <1>2, IdleType, NoBlockType DEF Idle, Block
  <2> QED
    BY <2>1 DEF Work, Block
<1> HIDE DEF work
<1> QED
  BY <1>1, <1>3, IdleType, EntersHolds DEF ResolveInOrder

LEMMA NewTransactionHolds ==
  ASSUME RacingInvariant, NEW t \in Thread, NewTransaction(t)
  PROVE  RacingInvariant'
<1> DEFINE pool == current_transactions[Home[t]] \o thread[t].forged.transactions
           work == Idle(t)
<1>1. /\ TypeOK /\ thread[t].pc = "posting" /\ Home[t] \in Node
      /\ UNCHANGED << chain, nodes, clock, posted, overlapped >>
      /\ thread' = [thread EXCEPT ![t] = work]
  BY Typed DEF RacingInvariant, NewTransaction
<1>2. pool \in Seq(Transaction)
  BY <1>1, Typed DEF Block
<1>3. current_transactions' \in
        Outcomes(t, "current_transactions", current_transactions,
                 [current_transactions EXCEPT ![Home[t]] = pool])
  BY <1>1 DEF NewTransaction, TypeOK
<1> HIDE DEF pool
<1>4. /\ current_transactions' \in [Node -> Seq(Transaction)]
      /\ \A m \in Node : m # Home[t] =>
           current_transactions'[m] = current_transactions[m]
  BY <1>1, <1>2, <1>3, TransactionStep
<1>5. work \in Work /\ work.pc = "idle" /\ ResolveInOrder(work)
  BY IdleType
<1> HIDE DEF work
<1>6. thread' \in [Thread -> Work] /\ thread'[t] = work /\ Disturbs(t)
  BY <1>1, <1>5, ThreadStep
<1>7. TypeOK' /\ MineInOrder(t)'
  BY <1>1, <1>4, <1>5, <1>6 DEF TypeOK, MineInOrder
<1>8. ASSUME Quiet(Home[t])'
      PROVE  Quiet(Home[t]) /\ Alone(t) /\ valid_chain(chain'[Home[t]])
  BY <1>1, <1>8, InProgressAlone DEF Quiet, RacingInvariant
<1>9. Len(chain'[Home[t]]) >= 1
  BY <1>1 DEF RacingInvariant
<1> QED
  BY <1>1, <1>4, <1>5, <1>6, <1>7, <1>8, <1>9, NodeStep

LEMMA MineStartsHolds ==
  ASSUME RacingInvariant, NEW t \in Thread, MineStarts(t)
  PROVE  RacingInvariant'
<1> DEFINE work == [Idle(t) EXCEPT !.pc = "searching",
                                   !.last = last_block(chain[Home[t]])]
<1>1. /\ TypeOK /\ Overlaps(t) /\ Home[t] \in Node
      /\ UNCHANGED << chain, current_transactions, nodes, clock, posted >>
      /\ thread' = [thread EXCEPT ![t] = work]
  BY Typed DEF RacingInvariant, MineStarts, Enters
<1>2. last_block(chain[Home[t]]) \in Block
  <2>1. chain[Home[t]] \in Seq(Block) /\ Len(chain[Home[t]]) >= 1
    BY <1>1, Typed DEF RacingInvariant
  <2> QED
    BY <2>1 DEF last_block
<1>3. /\ work \in Work
      /\ work.pc = "searching" /\ work.last = last_block(chain[Home[t]])
      /\ ~ work.stale
      /\ ResolveInOrder(work)
  BY <1>2, IdleType DEF Work, ResolveInOrder
<1> HIDE DEF work
<1>4. thread' \in [Thread -> Work] /\ thread'[t] = work /\ Disturbs(t)
  BY <1>1, <1>3, ThreadStep
<1>5. TypeOK'
  BY <1>1, <1>4, EntersAlone DEF TypeOK
<1>6. MineInOrder(t)'
  BY <1>1, <1>3, <1>4 DEF MineInOrder
<1> QED
  BY <1>1, <1>3, <1>4, <1>5, <1>6, EntersAlone, NodeStep DEF RacingInvariant

LEMMA MineRewardsHolds ==
  ASSUME RacingInvariant, NEW t \in Thread, MineRewards(t)
  PROVE  RacingInvariant'
<1>1. /\ TypeOK /\ thread[t].pc = "searching"
      /\ thread[t] \in Work /\ Home[t] \in Node
      /\ UNCHANGED << chain, nodes, clock, posted, overlapped >>
  BY Typed DEF RacingInvariant, MineRewards
<1>2. PICK proof \in 0 .. MaxProof :
        /\ FoundByProofOfWork(thread[t].last, proof)
        /\ thread' = [thread EXCEPT ![t].pc = "rewarded", ![t].forged.proof = proof]
  BY DEF MineRewards
<1> DEFINE work == [thread[t] EXCEPT !.pc = "rewarded", !.forged.proof = proof]
<1>3. thread' = [thread EXCEPT ![t] = work]
  BY <1>1, <1>2 DEF TypeOK
<1>4. /\ work \in Work /\ work.pc = "rewarded"
      /\ work.last = thread[t].last /\ work.stale = thread[t].stale
      /\ work.new_chain = thread[t].new_chain
      /\ work.forged.proof = proof
  <2>1. proof \in Nat
    BY BlocksAssumption
  <2>2. thread[t].forged \in Block
    BY <1>1, Typed
  <2>3. [thread[t].forged EXCEPT !.proof = proof] \in Block
    BY <2>1, <2>2 DEF Block
  <2> QED
    BY <1>1, <2>2, <2>3 DEF Work, Block
<1> HIDE DEF work
<1>5. thread' \in [Thread -> Work] /\ thread'[t] = work /\ Disturbs(t)
  BY <1>1, <1>3, <1>4, ThreadStep
<1>6. /\ current_transactions' \in [Node -> Seq(Transaction)]
      /\ \A m \in Node : m # Home[t] =>
           current_transactions'[m] = current_transactions[m]
  <2> DEFINE pool == Append(current_transactions[Home[t]], Reward(Home[t]))
  <2>1. Reward(Home[t]) \in Transaction
    BY <1>1 DEF Transaction, Minted
  <2>2. pool \in Seq(Transaction)
    BY <1>1, <2>1, Typed
  <2>3. current_transactions' \in
          Outcomes(t, "current_transactions", current_transactions,
                   [current_transactions EXCEPT ![Home[t]] = pool])
    BY <1>1 DEF MineRewards, TypeOK
  <2> HIDE DEF pool
  <2> QED
    BY <1>1, <2>2, <2>3, TransactionStep
<1>7. TypeOK'
  BY <1>1, <1>5, <1>6 DEF TypeOK
<1>8. ASSUME Quiet(Home[t])'
      PROVE  Quiet(Home[t]) /\ Alone(t) /\ valid_chain(chain'[Home[t]])
  BY <1>1, <1>8, InProgressAlone DEF Quiet, RacingInvariant
<1>9. ASSUME Quiet(Home[t])'
      PROVE  MineInOrder(t)'
  <2>1. MineInOrder(t)
    BY <1>1, <1>9 DEF Quiet, RacingInvariant
  <2>2. work.last = last_block(chain[Home[t]]) /\ ~ work.stale
    BY <1>1, <1>4, <2>1 DEF MineInOrder
  <2>3. valid_proof(work.last.proof, work.forged.proof, hash(work.last))
    BY <1>2, <1>4 DEF FoundByProofOfWork
  <2> QED
    BY <1>1, <1>4, <1>5, <2>2, <2>3 DEF MineInOrder
<1> QED
  BY <1>1, <1>4, <1>5, <1>6, <1>7, <1>8, <1>9, NodeStep DEF RacingInvariant,
     ResolveInOrder

LEMMA MineStampsHolds ==
  ASSUME RacingInvariant, NEW t \in Thread, MineStamps(t)
  PROVE  RacingInvariant'
<1>1. /\ TypeOK /\ thread[t].pc = "rewarded"
      /\ thread[t] \in Work /\ Home[t] \in Node /\ clock \in Nat
      /\ clock' = clock + 1
      /\ UNCHANGED << chain, current_transactions, nodes, posted, overlapped >>
  BY Typed DEF RacingInvariant, MineStamps, TypeOK
<1>2. PICK previous_hash \in HashOfReference(t) :
        thread' = [thread EXCEPT ![t] = [thread[t] EXCEPT
          !.pc = "stamped",
          !.last = NoBlock,
          !.stale = FALSE,
          !.forged.index = Len(chain[Home[t]]) + 1,
          !.forged.timestamp = clock,
          !.forged.previous_hash = previous_hash]]
  BY <1>1 DEF MineStamps, TypeOK
<1> DEFINE block == [thread[t].forged EXCEPT
                       !.index = Len(chain[Home[t]]) + 1,
                       !.timestamp = clock,
                       !.previous_hash = previous_hash]
           work == [thread[t] EXCEPT
                      !.pc = "stamped",
                      !.last = NoBlock,
                      !.stale = FALSE,
                      !.forged.index = Len(chain[Home[t]]) + 1,
                      !.forged.timestamp = clock,
                      !.forged.previous_hash = previous_hash]
<1>3. thread' = [thread EXCEPT ![t] = work]
  BY <1>2
<1>4. previous_hash \in Digest
  BY <1>1, Typed, HashType, NoBlockType DEF HashOfReference
<1>5. /\ block \in Block
      /\ block.proof = thread[t].forged.proof
      /\ block.previous_hash = previous_hash
  <2>1. thread[t].forged \in Block /\ Len(chain[Home[t]]) + 1 \in Nat
    BY <1>1, Typed
  <2> QED
    BY <1>1, <1>4, <2>1 DEF Block
<1>6. /\ work \in Work /\ work.pc = "stamped"
      /\ work.new_chain = thread[t].new_chain
      /\ work.forged = block
  <2>1. work = [thread[t] EXCEPT !.pc = "stamped", !.last = NoBlock,
                                 !.stale = FALSE, !.forged = block]
    BY <1>1 DEF Work
  <2> HIDE DEF work, block
  <2> QED
    BY <1>1, <1>5, <2>1, NoBlockType DEF Work
<1> HIDE DEF block
<1> HIDE DEF work
<1>7. thread' \in [Thread -> Work] /\ thread'[t] = work /\ Disturbs(t)
  BY <1>1, <1>3, <1>6, ThreadStep
<1>8. TypeOK'
  BY <1>1, <1>7 DEF TypeOK
<1>9. ASSUME Quiet(Home[t])'
      PROVE  Quiet(Home[t]) /\ Alone(t) /\ valid_chain(chain'[Home[t]])
  BY <1>1, <1>9, InProgressAlone DEF Quiet, RacingInvariant
<1>10. ASSUME Quiet(Home[t])'
       PROVE  MineInOrder(t)'
  <2>1. /\ thread[t].last = last_block(chain[Home[t]]) /\ ~ thread[t].stale
        /\ valid_proof(last_block(chain[Home[t]]).proof, thread[t].forged.proof,
                       hash(last_block(chain[Home[t]])))
    BY <1>1, <1>10 DEF Quiet, RacingInvariant, MineInOrder
  <2>2. previous_hash = hash(last_block(chain[Home[t]]))
    BY <2>1 DEF HashOfReference
  <2> QED
    BY <1>1, <1>5, <1>6, <1>7, <2>1, <2>2 DEF MineInOrder
<1> QED
  BY <1>1, <1>6, <1>7, <1>8, <1>9, <1>10, NodeStep DEF RacingInvariant,
     ResolveInOrder

(* A block that points at the last block, and has a proof for it, is added. *)
LEMMA AppendedValid ==
  ASSUME NEW ch \in Seq(Block), Len(ch) >= 1, valid_chain(ch), NEW b \in Block,
         b.previous_hash = hash(last_block(ch)),
         valid_proof(last_block(ch).proof, b.proof, hash(last_block(ch)))
  PROVE  valid_chain(Append(ch, b))
<1> DEFINE new == Append(ch, b)
<1>1. /\ Len(ch) \in Nat /\ Len(new) = Len(ch) + 1
      /\ \A i \in 1 .. Len(ch) : new[i] = ch[i]
      /\ new[Len(ch) + 1] = b
  OBVIOUS
<1> HIDE DEF new
<1> SUFFICES ASSUME NEW i \in 2 .. Len(new)
             PROVE  /\ new[i].previous_hash = hash(new[i - 1])
                    /\ valid_proof(new[i - 1].proof, new[i].proof, hash(new[i - 1]))
  BY DEF valid_chain, new
<1>2. CASE i = Len(ch) + 1
  <2>1. new[i] = b /\ new[i - 1] = last_block(ch)
    BY <1>1, <1>2 DEF last_block
  <2> QED
    BY <2>1
<1>3. CASE i \in 2 .. Len(ch)
  <2>1. new[i] = ch[i] /\ new[i - 1] = ch[i - 1]
    BY <1>1, <1>3
  <2> QED
    BY <1>3, <2>1 DEF valid_chain
<1> QED
  BY <1>1, <1>2, <1>3

LEMMA MineAppendsHolds ==
  ASSUME RacingInvariant, NEW t \in Thread, MineAppends(t)
  PROVE  RacingInvariant'
<1> DEFINE n == Home[t]
           pool == current_transactions[n]
           block == [thread[t].forged EXCEPT !.transactions = pool]
           new == Append(chain[n], block)
           work == [Idle(t) EXCEPT !.pc = "appended"]
           v == "chain"
           written == [chain EXCEPT ![n] = new]
<1>1. /\ TypeOK /\ thread[t].pc = "stamped"
      /\ n \in Node
      /\ UNCHANGED << current_transactions, nodes, clock, posted, overlapped >>
      /\ thread' = AfterWrite(t, work)
  BY Typed DEF RacingInvariant, MineAppends
<1>2. /\ chain[n] \in Seq(Block) /\ Len(chain[n]) \in Nat /\ Len(chain[n]) >= 1
      /\ chain \in [Node -> Seq(Block)]
  BY <1>1, Typed DEF TypeOK, RacingInvariant
<1>3. /\ block \in Block
      /\ block.transactions = pool
      /\ block.proof = thread[t].forged.proof
      /\ block.previous_hash = thread[t].forged.previous_hash
  <2>1. thread[t].forged \in Block /\ pool \in Seq(Transaction)
    BY <1>1, Typed
  <2> QED
    BY <2>1 DEF Block
<1>4. chain' \in Outcomes(t, v, chain, written)
  BY <1>1, <1>2 DEF MineAppends
<1> HIDE DEF block
<1>5. new \in Seq(Block) /\ Len(new) = Len(chain[n]) + 1 /\ new[Len(new)] = block
  BY <1>2, <1>3
<1> HIDE DEF new
<1>6. /\ written \in [Node -> Seq(Block)] /\ written[n] = new
      /\ \A m \in Node : m # n => written[m] = chain[m]
  BY <1>1, <1>2, <1>5
<1> HIDE DEF written, v
<1>7. chain' \in {chain, written} /\ (Alone(t) => chain' = written)
  BY <1>4, OneOutcome
<1>8. /\ chain' \in [Node -> Seq(Block)]
      /\ Len(chain'[n]) >= 1
      /\ \A m \in Node : m # n => chain'[m] = chain[m]
  BY <1>1, <1>2, <1>5, <1>6, <1>7
<1>9. work \in Work /\ work.pc = "appended" /\ ResolveInOrder(work)
  BY IdleType
<1> HIDE DEF work
<1>10. thread' \in [Thread -> Work] /\ thread'[t] = work /\ Disturbs(t)
  BY <1>1, <1>9, ThreadStep
<1>11. TypeOK'
  BY <1>1, <1>8, <1>10 DEF TypeOK
<1>12. ASSUME Quiet(n)'
       PROVE  /\ Quiet(n) /\ Alone(t)
              /\ valid_chain(chain'[n])
              /\ MineInOrder(t)'
  <2>1. Quiet(n) /\ Alone(t) /\ valid_chain(chain[n]) /\ MineInOrder(t)
    BY <1>1, <1>12, InProgressAlone DEF Quiet, RacingInvariant
  <2>2. chain'[n] = new
    BY <1>6, <1>7, <2>1
  <2>3. /\ block.previous_hash = hash(last_block(chain[n]))
        /\ valid_proof(last_block(chain[n]).proof, block.proof,
                       hash(last_block(chain[n])))
    BY <1>1, <1>3, <2>1 DEF MineInOrder
  <2> DEFINE ch == chain[n]
  <2>4. ch \in Seq(Block) /\ Len(ch) >= 1 /\ valid_chain(ch) /\ new = Append(ch, block)
    BY <1>2, <2>1 DEF new
  <2> HIDE DEF ch
  <2>5. valid_chain(new)
    BY <1>3, <2>3, <2>4, AppendedValid DEF ch
  <2>6. last_block(chain'[n]).transactions = current_transactions'[n]
    BY <1>1, <1>3, <1>5, <2>2 DEF last_block
  <2> QED
    BY <1>9, <1>10, <2>1, <2>2, <2>5, <2>6 DEF MineInOrder
<1> QED
  BY <1>1, <1>8, <1>9, <1>10, <1>11, <1>12, NodeStep

LEMMA MineClearsHolds ==
  ASSUME RacingInvariant, NEW t \in Thread, MineClears(t)
  PROVE  RacingInvariant'
<1> DEFINE n == Home[t]
           old == current_transactions
           empty == [old EXCEPT ![n] = << >>]
           work == Idle(t)
           v == "current_transactions"
<1>1. /\ TypeOK /\ thread[t].pc = "appended"
      /\ n \in Node /\ old \in [Node -> Seq(Transaction)]
      /\ UNCHANGED << chain, nodes, clock, posted, overlapped >>
      /\ thread' = [thread EXCEPT ![t] = work]
      /\ current_transactions' \in Outcomes(t, v, old, empty)
  BY Typed DEF RacingInvariant, MineClears, TypeOK
<1>2. /\ empty \in [Node -> Seq(Transaction)]
      /\ \A m \in Node : m # n => empty[m] = old[m]
  <2>1. << >> \in Seq(Transaction)
    OBVIOUS
  <2> QED
    BY <1>1, <2>1
<1> HIDE DEF old, empty, v
<1>3. current_transactions' \in {old, empty}
  BY <1>1, OneOutcome
<1>4. /\ work \in Work /\ work.pc = "idle" /\ ResolveInOrder(work)
  BY IdleType
<1> HIDE DEF work
<1>5. thread' \in [Thread -> Work] /\ thread'[t] = work /\ Disturbs(t)
  BY <1>1, <1>4, ThreadStep
<1>6. /\ TypeOK'
      /\ \A m \in Node : m # n => current_transactions'[m] = current_transactions[m]
  BY <1>1, <1>2, <1>3, <1>5 DEF TypeOK, old
<1>7. MineInOrder(t)'
  BY <1>4, <1>5 DEF MineInOrder
<1>8. ASSUME Quiet(n)'
      PROVE  Quiet(n) /\ Alone(t) /\ valid_chain(chain'[n])
  BY <1>1, <1>8, InProgressAlone DEF Quiet, RacingInvariant
<1>9. Len(chain'[n]) >= 1
  BY <1>1 DEF RacingInvariant
<1> QED
  BY <1>1, <1>4, <1>5, <1>6, <1>7, <1>8, <1>9, NodeStep

(* The end of a process: its node starts from its first block, quiet. *)
LEMMA TerminateHolds ==
  ASSUME RacingInvariant, NEW n \in Node, Terminate(n)
  PROVE  RacingInvariant'
<1>1. TypeOK /\ clock \in Nat
  BY DEF RacingInvariant, TypeOK
<1>2. /\ GenesisChain(clock) \in Seq(Block)
      /\ Len(GenesisChain(clock)) = 1
      /\ valid_chain(GenesisChain(clock))
  BY <1>1, GenesisSound DEF SoundChain
<1>3. /\ chain' \in [Node -> Seq(Block)]
      /\ chain'[n] = GenesisChain(clock)
      /\ \A m \in Node : m # n =>
           /\ chain'[m] = chain[m]
           /\ current_transactions'[m] = current_transactions[m]
           /\ overlapped'[m] = overlapped[m]
  BY <1>1, <1>2 DEF Terminate, TypeOK
<1>4. ASSUME NEW u \in Thread
      PROVE  /\ thread'[u] \in Work
             /\ ResolveInOrder(thread'[u])
             /\ Home[u] = n => thread'[u].pc = "idle"
             /\ Home[u] # n =>
                  \/ thread'[u] = thread[u]
                  \/ thread'[u].pc = "lost" /\ thread[u].pc # "idle"
  <2>1. thread'[u] = IF Home[u] = n THEN Idle(u)
                     ELSE IF thread[u].pc \in {"asking", "serialised"}
                             /\ thread[u].peer = n
                       THEN [thread[u] EXCEPT !.pc = "lost"]
                       ELSE thread[u]
    BY DEF Terminate
  <2>2. thread[u] \in Work /\ ResolveInOrder(thread[u])
    BY <1>1, Typed DEF RacingInvariant
  <2>3. /\ [thread[u] EXCEPT !.pc = "lost"] \in Work
        /\ [thread[u] EXCEPT !.pc = "lost"].pc = "lost"
        /\ [thread[u] EXCEPT !.pc = "lost"].new_chain = thread[u].new_chain
    BY <2>2 DEF Work
  <2>4. CASE Home[u] = n
    <3>1. thread'[u] = Idle(u)
      BY <2>1, <2>4
    <3> QED
      BY <2>4, <3>1, IdleType
  <2>5. CASE Home[u] # n
    <3> DEFINE lost == [thread[u] EXCEPT !.pc = "lost"]
    <3>1. \/ thread'[u] = thread[u]
          \/ thread'[u] = lost /\ thread[u].pc # "idle"
      BY <2>1, <2>5
    <3>2. lost \in Work /\ lost.pc = "lost" /\ lost.new_chain = thread[u].new_chain
      BY <2>3
    <3> HIDE DEF lost
    <3> QED
      BY <2>2, <2>5, <3>1, <3>2 DEF ResolveInOrder
  <2> QED
    BY <2>4, <2>5
<1>5. thread' \in [Thread -> Work]
  <2>1. thread' = [u \in Thread |-> thread'[u]]
    BY DEF Terminate
  <2> QED
    BY <1>4, <2>1
<1>6. TypeOK'
  <2>1. << >> \in Seq(Transaction) /\ {} \in SUBSET Peer
    OBVIOUS
  <2> QED
    <3>1. /\ current_transactions' \in [Node -> Seq(Transaction)]
          /\ nodes' \in [Node -> SUBSET Peer]
          /\ overlapped' \in [Node -> BOOLEAN]
      BY <1>1, <2>1 DEF Terminate, TypeOK
    <3>2. clock' \in Nat /\ posted' = posted
      BY <1>1 DEF Terminate
    <3> QED
      BY <1>1, <1>3, <1>5, <3>1, <3>2 DEF TypeOK
<1>7. ASSUME NEW m \in Node
      PROVE  /\ Len(chain'[m]) >= 1
             /\ Quiet(m)' => /\ valid_chain(chain'[m])
                             /\ \A u, w \in InProgress(m)' : u = w
  <2>1. CASE m = n
    <3>1. chain'[m] = GenesisChain(clock)
      BY <1>3, <2>1
    <3>2. InProgress(m)' = {}
      BY <1>4, <2>1 DEF InProgress, Local
    <3> QED
      BY <1>2, <3>1, <3>2
  <2>2. CASE m # n
    <3>1. \A u \in InProgress(m)' : u \in InProgress(m)
      BY <1>4, <2>2 DEF InProgress, Local
    <3> QED
      BY <1>3, <2>2, <3>1 DEF RacingInvariant, Quiet
  <2> QED
    BY <2>1, <2>2
<1>8. ASSUME NEW u \in Thread, Quiet(Home[u])'
      PROVE  MineInOrder(u)'
  <2>1. CASE Home[u] = n \/ thread'[u].pc = "lost"
    BY <1>4, <2>1 DEF MineInOrder
  <2>2. CASE Home[u] # n /\ thread'[u] = thread[u]
    <3>1. Home[u] \in Node
      BY RacingAssumption
    <3>2. /\ chain'[Home[u]] = chain[Home[u]]
          /\ current_transactions'[Home[u]] = current_transactions[Home[u]]
          /\ Quiet(Home[u])
      BY <1>3, <1>8, <2>2, <3>1 DEF Quiet
    <3>3. MineInOrder(u)
      BY <3>2 DEF RacingInvariant
    <3> QED
      BY <2>2, <3>2, <3>3 DEF MineInOrder
  <2> QED
    BY <1>4, <2>1, <2>2
<1> QED
  BY <1>4, <1>6, <1>7, <1>8 DEF RacingInvariant

(* A step that changes the state of a handler in progress and nothing else. *)
LEMMA HandlerHolds ==
  ASSUME RacingInvariant, NEW t \in Thread, thread[t].pc # "idle",
         NEW work \in Work, ResolveInOrder(work),
         work.pc \in {"idle", "asking", "serialised", "concluding"},
         thread' = [thread EXCEPT ![t] = work],
         UNCHANGED << chain, current_transactions, nodes, clock, posted, overlapped >>
  PROVE  RacingInvariant'
<1>1. TypeOK /\ Home[t] \in Node
  BY Typed DEF RacingInvariant
<1>2. thread' \in [Thread -> Work] /\ thread'[t] = work /\ Disturbs(t)
  BY <1>1, ThreadStep
<1>3. TypeOK'
  BY <1>1, <1>2 DEF TypeOK
<1>4. MineInOrder(t)'
  BY <1>2 DEF MineInOrder
<1>5. ASSUME Quiet(Home[t])'
      PROVE  Quiet(Home[t]) /\ Alone(t) /\ valid_chain(chain'[Home[t]])
  BY <1>1, <1>5, InProgressAlone DEF Quiet, RacingInvariant
<1>6. Len(chain'[Home[t]]) >= 1
  BY <1>1 DEF RacingInvariant
<1> QED
  BY <1>1, <1>2, <1>3, <1>4, <1>5, <1>6, NodeStep

(* What a resolve goes on with. *)
LEMMA ContinueType ==
  ASSUME RacingInvariant, NEW t \in Thread, NEW left \in SUBSET Peer,
         NEW longest \in Nat, NEW best \in Seq(Block), valid_chain(best),
         Continue(t, left, longest, best)
  PROVE  \E work \in Work :
           /\ thread' = [thread EXCEPT ![t] = work]
           /\ work.pc \in {"idle", "asking", "concluding"}
           /\ ResolveInOrder(work)
<1>1. ASSUME NEW peer \in left, NEW work \in Asking(t, peer, left, longest, best)
      PROVE  /\ work \in Work
             /\ work.pc = "asking"
             /\ ResolveInOrder(work)
  <2>1. PICK server \in Thread :
          work = [Idle(t) EXCEPT !.pc = "asking", !.peer = peer, !.server = server,
                                 !.left = left \ {peer}, !.max_length = longest,
                                 !.new_chain = best]
    BY <1>1 DEF Asking, Servers, Local
  <2>2. peer \in Peer /\ left \ {peer} \in SUBSET Peer
    OBVIOUS
  <2>3. work \in Work /\ work.pc = "asking" /\ work.new_chain = best
    BY <2>1, <2>2, IdleType DEF Work
  <2> QED
    BY <2>3 DEF ResolveInOrder
<1> DEFINE ended == [Idle(t) EXCEPT !.pc = "concluding", !.new_chain = best]
<1>2. ended \in Work /\ ended.pc = "concluding" /\ ended.new_chain = best
  BY IdleType DEF Work
<1>3. CASE \E peer \in left : \E work \in Asking(t, peer, left, longest, best) :
             thread' = [thread EXCEPT ![t] = work]
  BY <1>1, <1>3
<1>4. CASE best # << >> /\ thread' = [thread EXCEPT ![t] = ended]
  <2>1. ResolveInOrder(ended)
    BY <1>2, <1>4 DEF ResolveInOrder
  <2> HIDE DEF ended
  <2> QED
    BY <1>2, <1>4, <2>1
<1>5. CASE thread' = [thread EXCEPT ![t] = Idle(t)]
  BY <1>5, IdleType
<1> QED
  BY <1>3, <1>4, <1>5 DEF Continue

(* A handler in progress goes on without entering another. *)
LEMMA ContinuesHolds ==
  ASSUME RacingInvariant, NEW t \in Thread, NEW longest \in Nat,
         NEW best \in Seq(Block), valid_chain(best),
         thread[t].pc # "idle", UNCHANGED overlapped,
         Continue(t, thread[t].left, longest, best)
  PROVE  RacingInvariant'
<1> DEFINE left == thread[t].left
<1>1. /\ left \in SUBSET Peer
      /\ UNCHANGED << chain, current_transactions, nodes, clock, posted, overlapped >>
      /\ Continue(t, left, longest, best)
  BY Typed DEF RacingInvariant, Continue
<1> HIDE DEF left
<1>2. PICK work \in Work :
        /\ thread' = [thread EXCEPT ![t] = work]
        /\ work.pc \in {"idle", "asking", "concluding"}
        /\ ResolveInOrder(work)
  BY <1>1, ContinueType
<1> QED
  BY <1>1, <1>2, HandlerHolds

LEMMA ResolveStartsHolds ==
  ASSUME RacingInvariant, NEW t \in Thread, ResolveStarts(t)
  PROVE  RacingInvariant'
<1> DEFINE left == nodes[Home[t]]
           none == << >>
<1>1. /\ left \in SUBSET Peer /\ Home[t] \in Node /\ TypeOK
      /\ none \in Seq(Block) /\ valid_chain(none)
  BY Typed DEF RacingInvariant, valid_chain
<1>2. PICK longest \in SizesRead(Home[t]) : Continue(t, left, longest, none)
  BY DEF ResolveStarts
<1>3. longest \in Nat
  BY <1>1, ReadType
<1>4. /\ Overlaps(t)
      /\ UNCHANGED << chain, current_transactions, nodes, clock, posted >>
  BY DEF ResolveStarts, Continue
<1> HIDE DEF left, none
<1>5. PICK work \in Work :
        /\ thread' = [thread EXCEPT ![t] = work]
        /\ work.pc \in {"idle", "asking", "concluding"}
        /\ ResolveInOrder(work)
  BY <1>1, <1>2, <1>3, ContinueType
<1>6. thread' \in [Thread -> Work] /\ thread'[t] = work /\ Disturbs(t)
  BY <1>1, <1>5, ThreadStep
<1>7. TypeOK'
  BY <1>1, <1>4, <1>6, EntersAlone DEF TypeOK
<1>8. MineInOrder(t)'
  BY <1>5, <1>6 DEF MineInOrder
<1> QED
  BY <1>1, <1>4, <1>5, <1>6, <1>7, <1>8, EntersAlone, NodeStep DEF RacingInvariant

LEMMA ConcludesHolds ==
  ASSUME RacingInvariant, NEW t \in Thread, Concludes(t)
  PROVE  RacingInvariant'
<1> DEFINE n == Home[t]
           best == thread[t].new_chain
           work == Idle(t)
           v == "chain"
           written == [chain EXCEPT ![n] = best]
<1>1. /\ TypeOK /\ thread[t].pc = "concluding" /\ n \in Node
      /\ UNCHANGED << current_transactions, nodes, clock, posted, overlapped >>
      /\ thread' = AfterWrite(t, work)
      /\ chain \in [Node -> Seq(Block)]
      /\ chain' \in Outcomes(t, v, chain, written)
  BY Typed DEF RacingInvariant, Concludes, TypeOK
<1>2. best \in Seq(Block) /\ best # << >> /\ valid_chain(best)
  BY <1>1, Typed DEF RacingInvariant, ResolveInOrder
<1> HIDE DEF best
<1>3. /\ written \in [Node -> Seq(Block)] /\ written[n] = best
      /\ \A m \in Node : m # n => written[m] = chain[m]
  BY <1>1, <1>2
<1>4. Len(best) >= 1
  BY <1>2
<1> HIDE DEF written, v
<1>5. chain' \in {chain, written}
  BY <1>1, OneOutcome
<1>6. /\ chain' \in [Node -> Seq(Block)]
      /\ \A m \in Node : m # n => chain'[m] = chain[m]
      /\ Len(chain'[n]) >= 1
      /\ Quiet(n) => valid_chain(chain'[n])
  BY <1>1, <1>2, <1>3, <1>4, <1>5 DEF RacingInvariant
<1>7. work \in Work /\ work.pc = "idle" /\ ResolveInOrder(work)
  BY IdleType
<1> HIDE DEF work
<1>8. thread' \in [Thread -> Work] /\ thread'[t] = work /\ Disturbs(t)
  BY <1>1, <1>7, ThreadStep
<1>9. TypeOK' /\ MineInOrder(t)'
  BY <1>1, <1>6, <1>7, <1>8 DEF TypeOK, MineInOrder
<1>10. ASSUME Quiet(n)'
       PROVE  Quiet(n) /\ Alone(t)
  BY <1>1, <1>10, InProgressAlone DEF Quiet
<1> QED
  BY <1>1, <1>6, <1>7, <1>8, <1>9, <1>10, NodeStep

LEMMA SkipHolds ==
  ASSUME RacingInvariant, NEW t \in Thread, thread[t].pc # "idle", Skip(t)
  PROVE  RacingInvariant'
<1> DEFINE longest == thread[t].max_length
           best == thread[t].new_chain
<1>1. longest \in Nat /\ best \in Seq(Block) /\ valid_chain(best)
  BY Typed DEF RacingInvariant, ResolveInOrder
<1>2. Continue(t, thread[t].left, longest, best) /\ UNCHANGED overlapped
  BY DEF Skip
<1> HIDE DEF longest, best
<1> QED
  BY <1>1, <1>2, ContinuesHolds

LEMMA AnswerHolds ==
  ASSUME RacingInvariant, NEW t \in Thread, ChainSerialised(t) \/ Answered(t)
  PROVE  RacingInvariant'
<1>1. TypeOK /\ thread[t] \in Work /\ ResolveInOrder(thread[t])
  BY Typed DEF RacingInvariant
<1>2. CASE ChainSerialised(t)
  <2> DEFINE peer == thread[t].peer
  <2>1. PICK reply \in ChainsRead(peer) :
          thread' = [thread EXCEPT ![t].pc = "serialised", ![t].reply = reply]
    BY <1>2 DEF ChainSerialised
  <2> DEFINE work == [thread[t] EXCEPT !.pc = "serialised", !.reply = reply]
  <2>2. /\ peer \in Node /\ thread[t].pc # "idle"
        /\ thread' = [thread EXCEPT ![t] = work]
        /\ UNCHANGED << chain, current_transactions, nodes, clock, posted, overlapped >>
    BY <1>1, <1>2, <2>1 DEF ChainSerialised, TypeOK
  <2>3. reply \in Seq(Block)
    BY <2>1, <2>2, ReadType
  <2> HIDE DEF peer
  <2>4. work \in Work /\ work.pc = "serialised" /\ work.peer = thread[t].peer
        /\ work.new_chain = thread[t].new_chain
    BY <1>1, <2>3 DEF Work
  <2> HIDE DEF work
  <2> QED
    BY <1>1, <2>2, <2>4, HandlerHolds DEF ResolveInOrder, peer
<1>3. CASE Answered(t)
  <2> DEFINE work == thread[t]
             left == work.left
             reply == work.reply
             longest == work.max_length
             best == work.new_chain
  <2>1. PICK length \in SizesRead(work.peer) :
          IF Better(work, length)
            THEN Continue(t, left, length, reply)
            ELSE Continue(t, left, longest, best)
    BY <1>3 DEF Answered
  <2>2. /\ longest \in Nat /\ reply \in Seq(Block) /\ best \in Seq(Block)
        /\ valid_chain(best)
        /\ thread[t].pc # "idle" /\ UNCHANGED overlapped
    BY <1>1, <1>3, Typed DEF Answered, ResolveInOrder
  <2>3. length \in Nat
    BY <1>1, <1>3, <2>1, ReadType DEF Answered, RacingInvariant, ResolveInOrder
  <2>4. \/ valid_chain(reply) /\ Continue(t, thread[t].left, length, reply)
        \/ Continue(t, thread[t].left, longest, best)
    BY <2>1 DEF Better
  <2> HIDE DEF work, left, reply, longest, best
  <2> QED
    BY <2>2, <2>3, <2>4, ContinuesHolds
<1> QED
  BY <1>2, <1>3

LEMMA ThrowsHolds ==
  ASSUME RacingInvariant, NEW t \in Thread, thread[t].pc # "idle", Throws(t)
  PROVE  RacingInvariant'
<1>1. Home[t] \in Node
  BY RacingAssumption
<1>2. CASE Terminate(Home[t])
  BY <1>1, <1>2, TerminateHolds
<1>3. CASE /\ thread' = [thread EXCEPT ![t] = Idle(t)]
           /\ UNCHANGED << chain, current_transactions, nodes, clock, posted, overlapped >>
  BY <1>3, IdleType, HandlerHolds
<1> QED
  BY <1>2, <1>3 DEF Throws

LEMMA RegisterEntersHolds ==
  ASSUME RacingInvariant, NEW t \in Thread,
         NEW body \in RegisterRequest[Home[t]],
         RegisterEnters(t, body)
  PROVE  RacingInvariant'
<1>1. TypeOK /\ Home[t] \in Node /\ body \in Seq(Address)
  BY Typed, RacingAssumption DEF RacingInvariant
<1>2. CASE Terminate(Home[t])
  BY <1>1, <1>2, TerminateHolds
<1>3. CASE ~ Terminate(Home[t])
  <2> DEFINE added == HostsAdded(body)
             work == [Idle(t) EXCEPT !.pc = "registering", !.left = added]
  <2>1. Enters(t, work) /\ posted' \subseteq UserTransaction
    BY <1>1, <1>3 DEF RegisterEnters, TypeOK
  <2>2. added \in SUBSET Peer
    <3>1. \A i \in 1 .. Len(body) : HostAdded(body[i]) \in Peer
      <4>1. \A i \in 1 .. Len(body) : body[i] \in Address
        BY <1>1
      <4>2. "noport" \in Peer
        BY DEF Peer
      <4> QED
        BY <4>1, <4>2 DEF HostAdded, Address
    <3> QED
      BY <3>1 DEF HostsAdded
  <2> HIDE DEF added
  <2>3. /\ work \in Work /\ work.pc = "registering"
        /\ work.new_chain = Idle(t).new_chain
    BY <2>2, IdleType DEF Work
  <2>4. ResolveInOrder(work)
    BY <2>3, IdleType DEF ResolveInOrder
  <2> HIDE DEF work
  <2> QED
    BY <2>1, <2>3, <2>4, EntersHolds
<1> QED
  BY <1>2, <1>3

LEMMA RegisterNodesHolds ==
  ASSUME RacingInvariant, NEW t \in Thread, RegisterNodes(t)
  PROVE  RacingInvariant'
<1> DEFINE n == Home[t]
           v == "nodes"
           more == [nodes EXCEPT ![n] = @ \cup thread[t].left]
           work == Idle(t)
<1>1. /\ TypeOK /\ thread[t].pc = "registering" /\ n \in Node
      /\ UNCHANGED << chain, current_transactions, clock, posted, overlapped >>
      /\ thread' = [thread EXCEPT ![t] = work]
      /\ nodes' \in Outcomes(t, v, nodes, more)
      /\ nodes \in [Node -> SUBSET Peer]
  BY Typed DEF RacingInvariant, RegisterNodes, TypeOK
<1>2. more \in [Node -> SUBSET Peer]
  BY <1>1, Typed
<1> HIDE DEF more, v
<1>3. nodes' \in [Node -> SUBSET Peer]
  BY <1>1, <1>2, OneOutcome
<1>4. work \in Work /\ work.pc = "idle" /\ ResolveInOrder(work)
  BY IdleType
<1> HIDE DEF work
<1>5. thread' \in [Thread -> Work] /\ thread'[t] = work /\ Disturbs(t)
  BY <1>1, <1>4, ThreadStep
<1>6. TypeOK' /\ MineInOrder(t)'
  BY <1>1, <1>3, <1>4, <1>5 DEF TypeOK, MineInOrder
<1>7. ASSUME Quiet(n)'
      PROVE  Quiet(n) /\ Alone(t) /\ valid_chain(chain'[n])
  BY <1>1, <1>7, InProgressAlone DEF Quiet, RacingInvariant
<1>8. Len(chain'[n]) >= 1
  BY <1>1 DEF RacingInvariant
<1> QED
  BY <1>1, <1>4, <1>5, <1>6, <1>7, <1>8, NodeStep

LEMMA StepHolds == RacingInvariant /\ [Next]_vars => RacingInvariant'
<1>1. ASSUME RacingInvariant, UNCHANGED vars
      PROVE  RacingInvariant'
  BY <1>1 DEF RacingInvariant, TypeOK, MineInOrder, Quiet, InProgress, Local, vars
<1>2. ASSUME RacingInvariant, NEW n \in Node, UndefinedBehaviour(n)
      PROVE  RacingInvariant'
  BY <1>2, TerminateHolds DEF UndefinedBehaviour
<1>3. ASSUME RacingInvariant, NEW t \in Thread, Step(t)
      PROVE  RacingInvariant'
  <2>1. CASE OtherStatus(t)
    BY <1>3, <2>1, SkipHolds DEF OtherStatus, AsksOther
  <2>2. CASE OtherText(t)
    BY <1>3, <2>2, ThrowsHolds DEF OtherText, AsksOther
  <2>3. CASE GetFails(t)
    BY <1>3, <2>3, SkipHolds DEF GetFails, Waits
  <2>4. CASE PumpThrows(t)
    BY <1>3, <2>4, ThrowsHolds DEF PumpThrows, Waits
  <2>5. CASE Request(t)
    BY <1>3, <2>5, PostEntersHolds, RegisterEntersHolds, MineStartsHolds,
       ResolveStartsHolds DEF Request
  <2>6. CASE Run(t)
    BY <1>3, <2>6, NewTransactionHolds, RegisterNodesHolds, MineRewardsHolds,
       MineStampsHolds, MineAppendsHolds, MineClearsHolds, ConcludesHolds DEF Run
  <2>7. CASE ChainSerialised(t) \/ Answered(t)
    BY <1>3, <2>7, AnswerHolds
  <2> QED
    BY <1>3, <2>1, <2>2, <2>3, <2>4, <2>5, <2>6, <2>7 DEF Step, Answer
<1> QED
  BY <1>1, <1>2, <1>3 DEF Next

(***************************************************************************)
(* The inductive invariant, with the types: a mine at a quiet node is in   *)
(* order, and what any resolve has found is valid.                         *)
(***************************************************************************)
THEOREM Invariance == Spec => []RacingInvariant
BY InitHolds, StepHolds, PTL DEF Spec

(***************************************************************************)
(* The damage of a race does not spread: whatever the others have become   *)
(* and serve, a node whose own handlers never overlapped has a valid chain. *)
(***************************************************************************)
THEOREM QuietValid == Spec => []QuietNodesAreValid
<1>1. RacingInvariant => QuietNodesAreValid
  BY DEF RacingInvariant, QuietNodesAreValid
<1> QED
  BY <1>1, Invariance, PTL

-----------------------------------------------------------------------------
(* No transaction is lost in a quiet node *)

(* What became of a transaction that waited at n. *)
Kept(n, tx) ==
  \/ PlacesIn(current_transactions[n], tx)' # {}
  \/ PlacesIn(last_block(chain[n]).transactions, tx)' # {}
  \/ chain'[n] = GenesisChain(clock)

LEMMA StillWaits ==
  ASSUME NEW n, NEW tx, PlacesIn(current_transactions[n], tx) # {},
         current_transactions'[n] = current_transactions[n]
  PROVE  Kept(n, tx)
BY DEF Kept, PlacesIn

LEMMA AppendKeeps ==
  ASSUME NEW n, NEW tx, PlacesIn(current_transactions[n], tx) # {},
         current_transactions[n] \in Seq(Transaction), NEW others \in Seq(Transaction),
         current_transactions'[n] = current_transactions[n] \o others
  PROVE  Kept(n, tx)
<1> DEFINE pool == current_transactions[n]
           more == pool \o others
<1>1. PICK k \in 1 .. Len(pool) : pool[k] = tx
  BY DEF PlacesIn
<1>2. /\ Len(more) = Len(pool) + Len(others) /\ more[k] = pool[k]
      /\ Len(pool) \in Nat /\ Len(others) \in Nat
  OBVIOUS
<1> HIDE DEF pool, more
<1>3. k \in 1 .. Len(more) /\ more[k] = tx
  BY <1>1, <1>2
<1>4. PlacesIn(more, tx) # {}
  BY <1>3 DEF PlacesIn
<1>5. current_transactions'[n] = more
  BY DEF more, pool
<1> QED
  BY <1>4, <1>5 DEF Kept, PlacesIn

LEMMA AddsKeeps ==
  ASSUME RacingInvariant, NEW t \in Thread, NEW others \in Seq(Transaction),
         current_transactions' \in
           Outcomes(t, "current_transactions", current_transactions,
                    [current_transactions EXCEPT ![Home[t]] = @ \o others]),
         Quiet(Home[t])' => Alone(t),
         NEW n \in Node, NEW tx, PlacesIn(current_transactions[n], tx) # {},
         Quiet(n)'
  PROVE  Kept(n, tx)
<1> DEFINE pool == current_transactions[Home[t]] \o others
<1>1. /\ TypeOK /\ current_transactions[n] \in Seq(Transaction)
      /\ pool \in Seq(Transaction)
      /\ current_transactions' \in
           Outcomes(t, "current_transactions", current_transactions,
                    [current_transactions EXCEPT ![Home[t]] = pool])
  BY Typed DEF RacingInvariant, TypeOK
<1>2. pool = current_transactions[Home[t]] \o others
  OBVIOUS
<1> HIDE DEF pool
<1>3. CASE n = Home[t]
  <2>1. current_transactions'[n] = current_transactions[n] \o others
    BY <1>1, <1>2, <1>3, TransactionStep
  <2> QED
    BY <1>1, <2>1, AppendKeeps
<1>4. CASE n # Home[t]
  <2>1. current_transactions'[n] = current_transactions[n]
    BY <1>1, <1>4, TransactionStep
  <2> QED
    BY <2>1, StillWaits
<1> QED
  BY <1>3, <1>4

LEMMA ClearsKeeps ==
  ASSUME RacingInvariant, NEW t \in Thread, MineClears(t),
         NEW n \in Node, NEW tx, PlacesIn(current_transactions[n], tx) # {},
         Quiet(n)'
  PROVE  Kept(n, tx)
<1> DEFINE old == current_transactions
           empty == [old EXCEPT ![Home[t]] = << >>]
           v == "current_transactions"
<1>1. /\ TypeOK /\ old \in [Node -> Seq(Transaction)]
      /\ thread[t].pc = "appended"
      /\ UNCHANGED << chain, overlapped >>
      /\ current_transactions' \in Outcomes(t, v, old, empty)
  BY DEF RacingInvariant, MineClears, TypeOK
<1>2. CASE n = Home[t]
  <2>1. last_block(chain[n]).transactions = current_transactions[n]
    BY <1>1, <1>2 DEF RacingInvariant, MineInOrder, Quiet
  <2>2. last_block(chain'[n]).transactions = current_transactions[n]
    BY <1>1, <2>1
  <2> QED
    BY <2>2 DEF Kept, PlacesIn
<1>3. CASE n # Home[t]
  <2>1. empty[n] = old[n]
    BY <1>1, <1>3
  <2> HIDE DEF old, empty, v
  <2>2. current_transactions' \in {old, empty}
    BY <1>1, OneOutcome
  <2>3. current_transactions'[n] = current_transactions[n]
    BY <2>1, <2>2 DEF old
  <2> QED
    BY <2>3, StillWaits
<1> QED
  BY <1>2, <1>3

LEMMA TerminateKeeps ==
  ASSUME RacingInvariant, NEW m \in Node, Terminate(m),
         NEW n \in Node, NEW tx, PlacesIn(current_transactions[n], tx) # {}
  PROVE  Kept(n, tx)
<1>1. /\ chain \in [Node -> Seq(Block)]
      /\ current_transactions \in [Node -> Seq(Transaction)]
  BY DEF RacingInvariant, TypeOK
<1>2. CASE n = m
  BY <1>1, <1>2 DEF Terminate, Kept
<1>3. CASE n # m
  <2>1. current_transactions'[n] = current_transactions[n]
    BY <1>1, <1>3 DEF Terminate
  <2> QED
    BY <2>1, StillWaits
<1> QED
  BY <1>2, <1>3

LEMMA StepKeeps ==
  ASSUME RacingInvariant, Next, NEW n \in Node, NEW tx \in UserTransaction,
         PlacesIn(current_transactions[n], tx) # {}, Quiet(n)'
  PROVE  Kept(n, tx)
<1>1. ASSUME NEW t \in Thread, NewTransaction(t)
      PROVE  Kept(n, tx)
  <2> DEFINE others == thread[t].forged.transactions
  <2>1. others \in Seq(Transaction)
    BY Typed DEF RacingInvariant, Block
  <2>2. Quiet(Home[t])' => Alone(t)
    BY <1>1, InProgressAlone DEF NewTransaction, Quiet
  <2>3. current_transactions' \in
          Outcomes(t, "current_transactions", current_transactions,
                   [current_transactions EXCEPT ![Home[t]] = @ \o others])
    BY <1>1 DEF NewTransaction
  <2> HIDE DEF others
  <2> QED
    BY <2>1, <2>2, <2>3, AddsKeeps
<1>2. ASSUME NEW t \in Thread, MineRewards(t)
      PROVE  Kept(n, tx)
  <2> DEFINE pool == current_transactions[Home[t]]
             others == << Reward(Home[t]) >>
  <2>1. Reward(Home[t]) \in Transaction
    BY RacingAssumption DEF Transaction, Minted
  <2>2. pool \in Seq(Transaction) /\ Home[t] \in Node
    BY Typed DEF RacingInvariant
  <2>3. Append(pool, Reward(Home[t])) = pool \o others
    BY <2>1, <2>2
  <2>4. others \in Seq(Transaction)
    BY <2>1
  <2>5. Quiet(Home[t])' => Alone(t)
    BY <1>2, InProgressAlone DEF MineRewards, Quiet
  <2>6. current_transactions' \in
          Outcomes(t, "current_transactions", current_transactions,
                   [current_transactions EXCEPT ![Home[t]] = @ \o others])
    BY <1>2, <2>3 DEF MineRewards
  <2> HIDE DEF others
  <2> QED
    BY <2>4, <2>5, <2>6, AddsKeeps
<1>3. ASSUME NEW m \in Node, Terminate(m)
      PROVE  Kept(n, tx)
  BY <1>3, TerminateKeeps
<1>4. ASSUME UNCHANGED current_transactions
      PROVE  Kept(n, tx)
  BY <1>4, StillWaits
<1>5. ASSUME NEW t \in Thread, NEW left, NEW longest, NEW best,
             Continue(t, left, longest, best)
      PROVE  Kept(n, tx)
  BY <1>4, <1>5 DEF Continue
<1>6. ASSUME NEW t \in Thread, Throws(t)
      PROVE  Kept(n, tx)
  BY <1>3, <1>4, <1>6, RacingAssumption DEF Throws
<1>7. ASSUME NEW t \in Thread, Request(t)
      PROVE  Kept(n, tx)
  BY <1>3, <1>4, <1>5, <1>7, RacingAssumption
     DEF Request, PostEnters, RegisterEnters, MineStarts, ResolveStarts, Enters
<1>8. ASSUME NEW t \in Thread, Run(t), ~ NewTransaction(t), ~ MineRewards(t),
             ~ MineClears(t)
      PROVE  Kept(n, tx)
  BY <1>4, <1>8 DEF Run, RegisterNodes, MineStamps, MineAppends, Concludes
<1>9. ASSUME NEW t \in Thread, Answer(t)
      PROVE  Kept(n, tx)
  BY <1>4, <1>5, <1>6, <1>9 DEF Answer, ChainSerialised, Answered, OtherStatus,
                                OtherText, GetFails, PumpThrows, Skip
<1>10. ASSUME NEW t \in Thread, Step(t)
       PROVE  Kept(n, tx)
  <2>1. CASE MineClears(t)
    BY <2>1, ClearsKeeps
  <2> QED
    BY <1>1, <1>2, <1>7, <1>8, <1>9, <1>10, <2>1 DEF Step
<1>11. ASSUME NEW m \in Node, UndefinedBehaviour(m)
       PROVE  Kept(n, tx)
  BY <1>3, <1>11 DEF UndefinedBehaviour
<1> QED
  BY <1>10, <1>11 DEF Next

(***************************************************************************)
(* In a quiet node a transaction that waits goes on waiting until it is in *)
(* the last block, or the process ends: new_block clears what it copied.   *)
(***************************************************************************)
THEOREM QuietKeeps == Spec => QuietKeepsTransactions
<1>1. ASSUME RacingInvariant, [Next]_vars, NEW n \in Node,
             NEW tx \in UserTransaction,
             PlacesIn(current_transactions[n], tx) # {}, Quiet(n)'
      PROVE  Kept(n, tx)
  BY <1>1, StepKeeps, StillWaits DEF vars
<1>2. RacingInvariant /\ [Next]_vars =>
        [\A n \in Node, tx \in UserTransaction :
           PlacesIn(current_transactions[n], tx) # {} /\ Quiet(n)' =>
             \/ PlacesIn(current_transactions[n], tx)' # {}
             \/ PlacesIn(last_block(chain[n]).transactions, tx)' # {}
             \/ chain'[n] = GenesisChain(clock)]_vars
  BY <1>1 DEF Kept
<1> QED
  BY <1>2, Invariance, PTL DEF Spec, QuietKeepsTransactions
=============================================================================
