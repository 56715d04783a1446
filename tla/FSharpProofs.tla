---------------------------- MODULE FSharpProofs ----------------------------
(***************************************************************************)
(* Theorems about the network of F# nodes, for any threads and nodes: what *)
(* handlers that update different attributes do not do to one another.     *)
(***************************************************************************)
EXTENDS FSharpNode, BlockProofs

-----------------------------------------------------------------------------
(* Typing *)

LEMMA IdleType ==
  ASSUME NEW t \in Thread
  PROVE  /\ Idle(t) \in Work /\ Idle(t).pc = "idle" /\ Idle(t).newChain = << >>
         /\ NoBlock \in Block /\ valid_chain(<< >>)
<1>1. << >> \in Seq(Transaction) /\ << >> \in Seq(Content) /\ << >> \in Seq(Block)
  OBVIOUS
<1>2. NoBlock \in Block
  BY <1>1 DEF NoBlock, Block, Digest, GenesisPreviousHash
<1>3. Reward(Home[t]) \in Transaction /\ "elsewhere" \in Peer /\ {} \in SUBSET Peer
  BY FSharpAssumption DEF Transaction, Minted, Peer
<1>4. valid_chain(<< >>)
  BY DEF valid_chain
<1> QED
  BY <1>1, <1>2, <1>3, <1>4 DEF Idle, Work

LEMMA Typed ==
  ASSUME TypeOK, NEW t \in Thread
  PROVE  /\ Home[t] \in Node
         /\ thread[t] \in Work
         /\ Chain[Home[t]] \in Seq(Block)
         /\ currentTransactions[Home[t]] \in Seq(Transaction)
         /\ Nodes[Home[t]] \in SUBSET Peer
         /\ overlapped[Home[t]] \in SUBSET Attribute
         /\ thread[t].last \in Block
         /\ thread[t].block \in Block
         /\ thread[t].list \in Seq(Transaction)
         /\ thread[t].chain \in Seq(Block)
         /\ thread[t].tx \in Transaction
         /\ thread[t].known \in SUBSET Peer
         /\ thread[t].place \in Nat \ {0}
         /\ thread[t].left \in SUBSET Peer
         /\ thread[t].peer \in Peer
         /\ thread[t].maxLength \in Nat
         /\ thread[t].newChain \in Seq(Block)
         /\ thread[t].reply \in Seq(Block)
         /\ thread[t].length \in Nat
<1>1. Home[t] \in Node /\ thread[t] \in Work
  BY FSharpAssumption DEF TypeOK
<1>2. /\ Chain[Home[t]] \in Seq(Block)
      /\ currentTransactions[Home[t]] \in Seq(Transaction)
      /\ Nodes[Home[t]] \in SUBSET Peer
      /\ overlapped[Home[t]] \in SUBSET Attribute
  BY <1>1 DEF TypeOK
<1> QED
  BY <1>1, <1>2 DEF Work

-----------------------------------------------------------------------------
(* Conflicts *)

LEMMA ConflictFacts ==
  ASSUME NEW p, NEW q
  PROVE  /\ Conflicts(p, q) = Conflicts(q, p)
         /\ Conflicts(p, q) \subseteq Attribute
         /\ p = "idle" => Conflicts(p, q) = {}
         /\ p \in Mining /\ q \in Mining \cup Resolving =>
              "Chain" \in Conflicts(p, q)
         /\ p \in Mining \cup {"posting"} /\ q \in Mining \cup {"posting"} =>
              "currentTransactions" \in Conflicts(p, q)
         /\ p \in Registering /\ q \in Registering => "Nodes" \in Conflicts(p, q)
<1>1. /\ StoredBy("idle") = {} /\ UpdatedBy("idle") = {}
      /\ \A r : StoredBy(r) \subseteq Attribute
  BY DEF StoredBy, UpdatedBy, Mining, Registering, Resolving, Attribute
<1>2. \A r \in Mining : /\ StoredBy(r) = {"currentTransactions", "Chain"}
                        /\ UpdatedBy(r) = {"currentTransactions", "Chain"}
  BY DEF StoredBy, UpdatedBy, Mining, Registering, Resolving
<1>3. \A r \in Resolving : StoredBy(r) = {"Chain"}
  BY DEF StoredBy, Mining, Registering, Resolving
<1>4. \A r \in Registering : StoredBy(r) = {"Nodes"} /\ UpdatedBy(r) = {"Nodes"}
  BY DEF StoredBy, UpdatedBy, Mining, Registering, Resolving
<1>5. /\ StoredBy("posting") = {"currentTransactions"}
      /\ UpdatedBy("posting") = {"currentTransactions"}
  BY DEF StoredBy, UpdatedBy, Mining, Registering, Resolving
<1>6. Conflicts(p, q) = Conflicts(q, p)
  BY DEF Conflicts
<1>7. Conflicts(p, q) \subseteq Attribute /\ (p = "idle" => Conflicts(p, q) = {})
  BY <1>1 DEF Conflicts
<1>8. ASSUME p \in Mining, q \in Mining \cup Resolving
      PROVE  "Chain" \in Conflicts(p, q)
  BY <1>2, <1>3, <1>8 DEF Conflicts
<1>9. ASSUME p \in Mining \cup {"posting"}, q \in Mining \cup {"posting"}
      PROVE  "currentTransactions" \in Conflicts(p, q)
  BY <1>2, <1>5, <1>9 DEF Conflicts
<1>10. ASSUME p \in Registering, q \in Registering
       PROVE  "Nodes" \in Conflicts(p, q)
  BY <1>4, <1>10 DEF Conflicts
<1> QED
  BY <1>6, <1>7, <1>8, <1>9, <1>10

(* In a node where an attribute was never updated by two at once, the  *)
(* handlers besides that of t let t update it.                         *)
LEMMA OthersElsewhere ==
  ASSUME FSharpInvariant, NEW t \in Thread, NEW u \in Thread,
         u # t, Home[u] = Home[t]
  PROVE  /\ Alone(Home[t], "Chain") =>
              /\ thread[t].pc \in Mining => thread[u].pc \notin Mining \cup Resolving
              /\ thread[t].pc \in Resolving => thread[u].pc \notin Mining
         /\ Alone(Home[t], "currentTransactions")
              /\ thread[t].pc \in Mining \cup {"posting"} =>
                   thread[u].pc \notin Mining \cup {"posting"}
         /\ Alone(Home[t], "Nodes") /\ thread[t].pc \in Registering =>
              thread[u].pc \notin Registering
<1>1. Home[t] \in Node /\ t \in Local(Home[t]) /\ u \in Local(Home[t])
  BY FSharpAssumption DEF Local
<1>2. Conflicts(thread[t].pc, thread[u].pc) \subseteq overlapped[Home[t]]
  BY <1>1 DEF FSharpInvariant, NodeInOrder
<1>3. /\ Conflicts(thread[t].pc, thread[u].pc) = Conflicts(thread[u].pc, thread[t].pc)
  BY ConflictFacts
<1> QED
  BY <1>2, <1>3, ConflictFacts DEF Alone

-----------------------------------------------------------------------------
(* The two kinds of steps *)

(* A thread that is idle enters a handler, and conflicts are written down. *)
LEMMA Entered ==
  ASSUME FSharpInvariant, NEW t \in Thread, NEW request, NEW work \in Work,
         Enters(t, request, work)
  PROVE  /\ thread[t].pc = "idle"
         /\ thread' = [thread EXCEPT ![t] = work]
         /\ overlapped' \in [Node -> SUBSET Attribute]
         /\ \A m \in Node : overlapped[m] \subseteq overlapped'[m]
         /\ \A u \in Local(Home[t]) \ {t} :
              Conflicts(work.pc, thread[u].pc) \subseteq overlapped'[Home[t]]
<1> DEFINE found == UNION {Conflicts(work.pc, thread[u].pc) : u \in Local(Home[t])}
<1>1. Home[t] \in Node /\ overlapped \in [Node -> SUBSET Attribute]
  BY FSharpAssumption DEF FSharpInvariant, TypeOK
<1>2. overlapped' = [overlapped EXCEPT ![Home[t]] = @ \cup found]
  BY DEF Enters
<1>3. found \in SUBSET Attribute
  BY ConflictFacts
<1>4. \A u \in Local(Home[t]) : Conflicts(work.pc, thread[u].pc) \subseteq found
  OBVIOUS
<1> HIDE DEF found
<1>5. overlapped' \in [Node -> SUBSET Attribute]
  BY <1>1, <1>2, <1>3
<1>6. /\ overlapped'[Home[t]] = overlapped[Home[t]] \cup found
      /\ \A m \in Node : m # Home[t] => overlapped'[m] = overlapped[m]
  BY <1>1, <1>2
<1> QED
  BY <1>4, <1>5, <1>6 DEF Enters

(* A handler goes on; it conflicts with no more than before. *)
LEMMA Moved ==
  ASSUME FSharpInvariant, NEW t \in Thread, NEW from, NEW work \in Work,
         Moves(t, from, work),
         \/ work.pc = "idle"
         \/ from \in Mining /\ work.pc \in Mining
         \/ from \in Registering /\ work.pc \in Registering
         \/ from \in Resolving /\ work.pc \in Resolving
  PROVE  /\ thread[t].pc = from
         /\ thread' = [thread EXCEPT ![t] = work]
         /\ overlapped' = overlapped
         /\ overlapped' \in [Node -> SUBSET Attribute]
         /\ \A m \in Node : overlapped[m] \subseteq overlapped'[m]
         /\ \A u \in Local(Home[t]) \ {t} :
              Conflicts(work.pc, thread[u].pc) \subseteq overlapped'[Home[t]]
<1>1. Home[t] \in Node /\ overlapped \in [Node -> SUBSET Attribute]
  BY FSharpAssumption DEF FSharpInvariant, TypeOK
<1>2. /\ thread[t].pc = from
      /\ thread' = [thread EXCEPT ![t] = work]
      /\ overlapped' = overlapped
  BY DEF Moves
<1>3. work.pc # "idle" => /\ StoredBy(work.pc) = StoredBy(from)
                          /\ UpdatedBy(work.pc) = UpdatedBy(from)
  BY DEF StoredBy, UpdatedBy, Mining, Registering, Resolving
<1>4. \A u : Conflicts(work.pc, thread[u].pc) \subseteq Conflicts(from, thread[u].pc)
  BY <1>3, ConflictFacts DEF Conflicts
<1>5. \A u \in Local(Home[t]) \ {t} :
        Conflicts(from, thread[u].pc) \subseteq overlapped[Home[t]]
  BY <1>1, <1>2 DEF FSharpInvariant, NodeInOrder, Local
<1> QED
  BY <1>1, <1>2, <1>4, <1>5

(* How far a step of t may go with thread t and node n = Home[t]. *)
StepOf(t, work) ==
  /\ work \in Work
  /\ thread' = [thread EXCEPT ![t] = work]
  /\ overlapped' \in [Node -> SUBSET Attribute]
  /\ \A m \in Node : overlapped[m] \subseteq overlapped'[m]
  /\ \A u \in Local(Home[t]) \ {t} :
       Conflicts(work.pc, thread[u].pc) \subseteq overlapped'[Home[t]]

(* Attributes of other nodes stay, and those of n that t does not store. *)
Disturbs(t) ==
  LET n == Home[t]
      pc == thread[t].pc
  IN  /\ Chain' \in [Node -> Seq(Block)]
      /\ currentTransactions' \in [Node -> Seq(Transaction)]
      /\ Nodes' \in [Node -> SUBSET Peer]
      /\ \A m \in Node \ {n} : /\ Chain'[m] = Chain[m]
                               /\ currentTransactions'[m] = currentTransactions[m]
                               /\ Nodes'[m] = Nodes[m]
      /\ Len(Chain'[n]) >= 1
      /\ Chain'[n] = Chain[n] \/ pc \in Mining \cup Resolving
      /\ currentTransactions'[n] = currentTransactions[n]
         \/ pc \in Mining \cup {"posting"}
      /\ Nodes'[n] = Nodes[n] \/ pc \in Registering

LEMMA OthersInOrder ==
  ASSUME FSharpInvariant, NEW t \in Thread, NEW work, StepOf(t, work), Disturbs(t),
         NEW u \in Thread, u # t
  PROVE  HandlerInOrder(u)'
<1>1. /\ Home[u] \in Node /\ Home[t] \in Node /\ TypeOK /\ HandlerInOrder(u)
      /\ thread'[u] = thread[u] /\ thread[u] \in Work
  BY FSharpAssumption DEF FSharpInvariant, TypeOK, StepOf
<1>2. \A a : Alone(Home[u], a)' => Alone(Home[u], a)
  BY <1>1 DEF Alone, StepOf
<1>3. ASSUME Alone(Home[u], "Chain")'
      PROVE  MineInOrder(u)'
  <2>1. MineInOrder(u)
    BY <1>1, <1>2, <1>3 DEF HandlerInOrder
  <2>2. Chain'[Home[u]] = Chain[Home[u]] \/ thread[u].pc \notin Mining
    BY <1>1, <1>2, <1>3, OthersElsewhere DEF Disturbs
  <2> QED
    BY <1>1, <2>1, <2>2 DEF MineInOrder, Mining
<1>4. ASSUME Alone(Home[u], "currentTransactions")'
      PROVE  ListInOrder(u)'
  <2>1. ListInOrder(u)
    BY <1>1, <1>2, <1>4 DEF HandlerInOrder
  <2>2. \/ currentTransactions'[Home[u]] = currentTransactions[Home[u]]
        \/ thread[u].pc \notin Mining \cup {"posting"}
    BY <1>1, <1>2, <1>4, OthersElsewhere DEF Disturbs
  <2> QED
    BY <1>1, <2>1, <2>2 DEF ListInOrder, Mining
<1>5. ASSUME Alone(Home[u], "Nodes")', thread[u].pc = "joining"
      PROVE  thread[u].known = Nodes'[Home[u]]
  <2>1. thread[u].known = Nodes[Home[u]]
    BY <1>1, <1>2, <1>5 DEF HandlerInOrder
  <2>2. Nodes'[Home[u]] = Nodes[Home[u]] \/ thread[u].pc \notin Registering
    BY <1>1, <1>2, <1>5, OthersElsewhere DEF Disturbs
  <2> QED
    BY <1>5, <2>1, <2>2 DEF Registering
<1> QED
  BY <1>1, <1>3, <1>4, <1>5 DEF HandlerInOrder

(* A step that keeps its own handler and the chain in order keeps all. *)
LEMMA StepHolds ==
  ASSUME FSharpInvariant, NEW t \in Thread, NEW work, StepOf(t, work), Disturbs(t),
         clock' \in Nat, posted' \subseteq UserTransaction,
         Alone(Home[t], "Chain")' => valid_chain(Chain'[Home[t]]),
         HandlerInOrder(t)'
  PROVE  FSharpInvariant'
<1>1. TypeOK /\ Home \in [Thread -> Node] /\ thread \in [Thread -> Work]
  BY FSharpAssumption DEF FSharpInvariant, TypeOK
<1>2. /\ thread' \in [Thread -> Work] /\ thread'[t] = work
      /\ \A u \in Thread \ {t} : thread'[u] = thread[u]
  BY <1>1 DEF StepOf
<1>3. TypeOK'
  BY <1>2 DEF TypeOK, StepOf, Disturbs
<1>4. \A u \in Thread : HandlerInOrder(u)'
  BY OthersInOrder
<1>5. ASSUME NEW m \in Node
      PROVE  NodeInOrder(m)'
  <2>1. NodeInOrder(m) /\ overlapped[m] \subseteq overlapped'[m]
    BY DEF FSharpInvariant, StepOf
  <2>2. Len(Chain'[m]) >= 1 /\ (Alone(m, "Chain")' => valid_chain(Chain'[m]))
    BY <2>1 DEF Disturbs, NodeInOrder, Alone
  <2>3. ASSUME NEW u \in Local(m), NEW v \in Local(m), u # v
        PROVE  Conflicts(thread'[u].pc, thread'[v].pc) \subseteq overlapped'[m]
    <3>1. u \in Thread /\ v \in Thread /\ Home[u] = m /\ Home[v] = m
      BY DEF Local
    <3>2. CASE u = t
      BY <1>2, <2>3, <3>1, <3>2 DEF StepOf
    <3>3. CASE v = t
      <4>1. Conflicts(work.pc, thread[u].pc) \subseteq overlapped'[m]
        BY <2>3, <3>1, <3>3 DEF StepOf
      <4> QED
        BY <1>2, <2>3, <3>1, <3>3, <4>1, ConflictFacts
    <3>4. CASE u # t /\ v # t
      BY <1>2, <2>1, <2>3, <3>1, <3>4 DEF NodeInOrder
    <3> QED
      BY <3>2, <3>3, <3>4
  <2> QED
    BY <2>2, <2>3 DEF NodeInOrder, Local
<1> QED
  BY <1>3, <1>4, <1>5 DEF FSharpInvariant

(* Most steps store nothing. *)
LEMMA StoresNothing ==
  ASSUME FSharpInvariant, NEW t \in Thread,
         UNCHANGED << Chain, currentTransactions, Nodes >>
  PROVE  /\ Disturbs(t)
         /\ overlapped[Home[t]] \subseteq overlapped'[Home[t]] =>
              (Alone(Home[t], "Chain")' => valid_chain(Chain'[Home[t]]))
<1>1. Home[t] \in Node /\ TypeOK /\ NodeInOrder(Home[t])
  BY FSharpAssumption DEF FSharpInvariant
<1> QED
  BY <1>1 DEF Disturbs, TypeOK, NodeInOrder, Alone

-----------------------------------------------------------------------------
(* The initial states, and every step *)

LEMMA InitHolds == Init => FSharpInvariant
<1> SUFFICES ASSUME Init PROVE FSharpInvariant
  OBVIOUS
<1>1. \A n \in Node : /\ Chain[n] \in Seq(Block)
                      /\ Len(Chain[n]) = 1
                      /\ valid_chain(Chain[n])
  BY GenesisSound, FSharpAssumption DEF Init, SoundChain
<1>2. \A t \in Thread : /\ thread[t] \in Work
                        /\ thread[t].pc = "idle"
                        /\ valid_chain(thread[t].newChain)
  BY IdleType DEF Init
<1>3. Chain \in [Node -> Seq(Block)] /\ thread \in [Thread -> Work]
  BY <1>1, <1>2 DEF Init
<1>4. << >> \in Seq(Transaction)
  OBVIOUS
<1>5. TypeOK
  BY <1>3, <1>4, FSharpAssumption DEF Init, TypeOK
<1>6. \A t \in Thread : HandlerInOrder(t)
  BY <1>2 DEF HandlerInOrder, MineInOrder, ListInOrder, Registering
<1>7. \A n \in Node : NodeInOrder(n)
  BY <1>1, <1>2, ConflictFacts DEF NodeInOrder, Local
<1> QED
  BY <1>5, <1>6, <1>7 DEF FSharpInvariant

(* The facts about t that every step starts from. *)
LEMMA Start ==
  ASSUME FSharpInvariant, NEW t \in Thread
  PROVE  /\ TypeOK /\ Home[t] \in Node
         /\ thread[t] \in Work /\ HandlerInOrder(t) /\ NodeInOrder(Home[t])
         /\ clock \in Nat /\ posted \subseteq UserTransaction
         /\ last_block(Chain[Home[t]]) \in Block
<1>1. TypeOK /\ Home[t] \in Node /\ NodeInOrder(Home[t])
  BY FSharpAssumption DEF FSharpInvariant
<1>2. Chain[Home[t]] \in Seq(Block) /\ Len(Chain[Home[t]]) >= 1
  BY <1>1 DEF TypeOK, NodeInOrder
<1>3. last_block(Chain[Home[t]]) \in Block
  BY <1>2 DEF last_block
<1> QED
  BY <1>1, <1>3 DEF FSharpInvariant, TypeOK

LEMMA PostStartsHolds ==
  ASSUME FSharpInvariant, NEW t \in Thread, NEW tx \in UserTransaction,
         PostStarts(t, tx)
  PROVE  FSharpInvariant'
<1> DEFINE list == currentTransactions[Home[t]]
           work == [Idle(t) EXCEPT !.pc = "posting", !.tx = tx, !.list = list]
<1>1. list \in Seq(Transaction) /\ tx \in Transaction
  BY Typed, Start DEF Transaction, Minted
<1>2. /\ work \in Work /\ work.pc = "posting" /\ work.list = list
      /\ work.newChain = << >>
  BY <1>1, IdleType DEF Work
<1>3. Enters(t, "post", work)
  BY DEF PostStarts
<1>4. UNCHANGED << Chain, currentTransactions, Nodes >>
  BY DEF PostStarts
<1> HIDE DEF work
<1>5. StepOf(t, work)
  BY <1>2, <1>3, Entered DEF StepOf
<1>6. thread'[t] = work
  BY <1>5, Start DEF StepOf, TypeOK
<1>7. HandlerInOrder(t)'
  BY <1>2, <1>4, <1>6, IdleType
     DEF HandlerInOrder, MineInOrder, ListInOrder, Registering
<1>8. clock' \in Nat /\ posted' \subseteq UserTransaction
  BY Start DEF PostStarts
<1>9. overlapped[Home[t]] \subseteq overlapped'[Home[t]]
  BY <1>5, Start DEF StepOf
<1> QED
  BY <1>4, <1>5, <1>7, <1>8, <1>9, StoresNothing, StepHolds

LEMMA PostStoresHolds ==
  ASSUME FSharpInvariant, NEW t \in Thread, PostStores(t)
  PROVE  FSharpInvariant'
<1>1. Moves(t, "posting", Idle(t))
  BY DEF PostStores
<1>2. thread[t].pc = "posting" /\ StepOf(t, Idle(t)) /\ overlapped' = overlapped
  BY <1>1, Moved, IdleType DEF StepOf
<1>3. Longer(t) \in Seq(Transaction)
  BY Typed, Start DEF Longer
<1>4. Disturbs(t)
  BY <1>2, <1>3, Start DEF PostStores, Disturbs, TypeOK, NodeInOrder
<1>5. thread'[t] = Idle(t)
  BY <1>2, Start DEF StepOf, TypeOK
<1>6. HandlerInOrder(t)'
  BY <1>5, IdleType DEF HandlerInOrder, MineInOrder, ListInOrder, Registering
<1>7. /\ Alone(Home[t], "Chain")' => valid_chain(Chain'[Home[t]])
      /\ clock' \in Nat /\ posted' \subseteq UserTransaction
  BY <1>2, Start DEF PostStores, Alone, NodeInOrder
<1> QED
  BY <1>2, <1>4, <1>6, <1>7, StepHolds

(* A handler goes on and stores nothing. *)
LEMMA GoesOn ==
  ASSUME FSharpInvariant, NEW t \in Thread, NEW from, NEW work \in Work,
         Moves(t, from, work),
         \/ work.pc = "idle"
         \/ from \in Mining /\ work.pc \in Mining
         \/ from \in Registering /\ work.pc \in Registering
         \/ from \in Resolving /\ work.pc \in Resolving,
         UNCHANGED << Chain, currentTransactions, Nodes, posted >>, clock' \in Nat,
         thread'[t] = work => HandlerInOrder(t)'
  PROVE  FSharpInvariant'
<1>1. StepOf(t, work) /\ overlapped' = overlapped
  BY Moved DEF StepOf
<1>2. thread'[t] = work
  BY <1>1, Start DEF StepOf, TypeOK
<1>3. overlapped[Home[t]] \subseteq overlapped'[Home[t]]
  BY <1>1
<1>4. posted' \subseteq UserTransaction
  BY Start
<1> QED
  BY <1>1, <1>2, <1>3, <1>4, StoresNothing, StepHolds

LEMMA MineStartsHolds ==
  ASSUME FSharpInvariant, NEW t \in Thread, MineStarts(t)
  PROVE  FSharpInvariant'
<1> DEFINE last == last_block(Chain[Home[t]])
           work == [Idle(t) EXCEPT !.pc = "searching", !.last = last]
<1>1. last \in Block
  BY Start
<1>2. /\ work \in Work /\ work.pc = "searching" /\ work.last = last
      /\ work.newChain = << >>
  BY <1>1, IdleType DEF Work, Mining
<1>3. Enters(t, "mine", work)
  BY DEF MineStarts
<1>4. UNCHANGED << Chain, currentTransactions, Nodes, clock, posted >>
  BY DEF MineStarts
<1> HIDE DEF work
<1>5. StepOf(t, work)
  BY <1>2, <1>3, Entered DEF StepOf
<1>6. thread'[t] = work
  BY <1>5, Start DEF StepOf, TypeOK
<1>7. HandlerInOrder(t)'
  BY <1>2, <1>4, <1>6, IdleType
     DEF HandlerInOrder, MineInOrder, ListInOrder, Registering
<1>8. clock' \in Nat /\ posted' \subseteq UserTransaction
  BY <1>4, Start
<1>9. overlapped[Home[t]] \subseteq overlapped'[Home[t]]
  BY <1>5, Start DEF StepOf
<1> QED
  BY <1>4, <1>5, <1>7, <1>8, <1>9, StoresNothing, StepHolds

LEMMA MineFindsHolds ==
  ASSUME FSharpInvariant, NEW t \in Thread, MineFinds(t)
  PROVE  FSharpInvariant'
<1>1. PICK proof \in 0 .. MaxProof :
        /\ FoundByProofOfWork(thread[t].last, proof)
        /\ Moves(t, "searching", [thread[t] EXCEPT
             !.pc = "found", !.block.proof = proof,
             !.list = currentTransactions[Home[t]]])
  BY DEF MineFinds
<1> DEFINE list == currentTransactions[Home[t]]
           work == [thread[t] EXCEPT !.pc = "found", !.block.proof = proof,
                                     !.list = list]
<1>2. /\ proof \in Nat /\ list \in Seq(Transaction) /\ thread[t].block \in Block
      /\ thread[t] \in Work
  BY Typed, Start, BlocksAssumption
<1>3. [thread[t].block EXCEPT !.proof = proof] \in Block
  BY <1>2 DEF Block
<1>4. /\ work \in Work /\ work.pc = "found" /\ work.list = list
      /\ work.block.proof = proof /\ work.last = thread[t].last
      /\ work.newChain = thread[t].newChain
  BY <1>2, <1>3 DEF Work, Mining, Block
<1>5. Moves(t, "searching", work)
  BY <1>1
<1>6. UNCHANGED << Chain, currentTransactions, Nodes, clock, posted >>
  BY DEF MineFinds
<1> HIDE DEF work
<1>7. thread[t].pc = "searching" /\ overlapped' = overlapped
  BY <1>5 DEF Moves
<1>8. Alone(Home[t], "Chain") =>
        /\ thread[t].last = last_block(Chain[Home[t]])
        /\ valid_proof(thread[t].last.proof, proof, hash(thread[t].last))
  BY <1>1, <1>7, Start DEF HandlerInOrder, MineInOrder, FoundByProofOfWork
<1>9. ASSUME thread'[t] = work
      PROVE  HandlerInOrder(t)'
  <2>1. valid_chain(work.newChain)
    BY <1>4, Start DEF HandlerInOrder
  <2>2. Alone(Home[t], "Chain")' => MineInOrder(t)'
    BY <1>4, <1>6, <1>7, <1>8, <1>9 DEF MineInOrder, Alone
  <2>3. ListInOrder(t)'
    BY <1>4, <1>6, <1>9 DEF ListInOrder
  <2> QED
    BY <1>4, <1>9, <2>1, <2>2, <2>3 DEF HandlerInOrder, Registering
<1>10. "searching" \in Mining /\ work.pc \in Mining /\ clock' \in Nat
  BY <1>4, <1>6, Start DEF Mining
<1> QED
  BY <1>4, <1>5, <1>6, <1>9, <1>10, GoesOn

LEMMA MineRewardsHolds ==
  ASSUME FSharpInvariant, NEW t \in Thread, MineRewards(t)
  PROVE  FSharpInvariant'
<1> DEFINE work == [thread[t] EXCEPT !.pc = "rewarded", !.list = << >>]
<1>1. Moves(t, "found", work)
  BY DEF MineRewards
<1>0. << >> \in Seq(Transaction)
  OBVIOUS
<1>2. /\ work \in Work /\ work.pc = "rewarded" /\ work.last = thread[t].last
      /\ work.block = thread[t].block /\ work.newChain = thread[t].newChain
  BY <1>0, Start DEF Work, Mining
<1> HIDE DEF work
<1>3. thread[t].pc = "found" /\ StepOf(t, work) /\ overlapped' = overlapped
  BY <1>1, <1>2, Moved DEF StepOf, Mining
<1>4. Longer(t) \in Seq(Transaction)
  BY Typed, Start DEF Longer
<1>5. Disturbs(t)
  BY <1>3, <1>4, Start DEF MineRewards, Disturbs, TypeOK, NodeInOrder, Mining
<1>6. thread'[t] = work
  BY <1>3, Start DEF StepOf, TypeOK
<1>7. UNCHANGED << Chain, clock, posted >>
  BY DEF MineRewards
<1>8. HandlerInOrder(t)'
  <2>1. valid_chain(work.newChain)
    BY <1>2, Start DEF HandlerInOrder
  <2>2. Alone(Home[t], "Chain") => MineInOrder(t)
    BY Start DEF HandlerInOrder
  <2>3. Alone(Home[t], "Chain")' => MineInOrder(t)'
    BY <1>2, <1>3, <1>6, <1>7, <2>2 DEF MineInOrder, Alone
  <2> QED
    BY <1>2, <1>6, <2>1, <2>3 DEF HandlerInOrder, ListInOrder, Registering
<1>9. /\ Alone(Home[t], "Chain")' => valid_chain(Chain'[Home[t]])
      /\ clock' \in Nat /\ posted' \subseteq UserTransaction
  BY <1>3, <1>7, Start DEF Alone, NodeInOrder
<1> QED
  BY <1>3, <1>5, <1>8, <1>9, StepHolds

LEMMA MineTakesHolds ==
  ASSUME FSharpInvariant, NEW t \in Thread, MineTakes(t)
  PROVE  FSharpInvariant'
<1> DEFINE n == Home[t]
           list == currentTransactions[n]
           block == [thread[t].block EXCEPT
                       !.index = Len(Chain[n]) + 1,
                       !.timestamp = clock,
                       !.transactions = list,
                       !.previous_hash = hash(thread[t].last)]
           work == [thread[t] EXCEPT !.pc = "taken", !.last = NoBlock,
                                     !.block = block]
<1>1. /\ list \in Seq(Transaction) /\ thread[t].block \in Block
      /\ thread[t] \in Work /\ clock \in Nat /\ Len(Chain[n]) + 1 \in Nat
      /\ hash(thread[t].last) \in Digest
  BY Typed, Start, HashType
<1>2. /\ block \in Block /\ block.transactions = list
      /\ block.previous_hash = hash(thread[t].last)
      /\ block.proof = thread[t].block.proof
  BY <1>1 DEF Block
<1>3. Moves(t, "rewarded", [thread[t] EXCEPT
         !.pc = "taken",
         !.last = NoBlock,
         !.block.index = Len(Chain[n]) + 1,
         !.block.timestamp = clock,
         !.block.transactions = list,
         !.block.previous_hash = hash(thread[t].last)])
  BY DEF MineTakes
<1>4. work = [thread[t] EXCEPT
         !.pc = "taken",
         !.last = NoBlock,
         !.block.index = Len(Chain[n]) + 1,
         !.block.timestamp = clock,
         !.block.transactions = list,
         !.block.previous_hash = hash(thread[t].last)]
  BY <1>1 DEF Work, Block
<1> HIDE DEF block
<1>5. /\ work \in Work /\ work.pc = "taken" /\ work.block = block
      /\ work.newChain = thread[t].newChain
  BY <1>1, <1>2, IdleType DEF Work, Mining
<1>6. Moves(t, "rewarded", work)
  BY <1>3, <1>4
<1> HIDE DEF work
<1>7. UNCHANGED << Chain, currentTransactions, Nodes, posted >> /\ clock' \in Nat
  BY <1>1 DEF MineTakes
<1>8. thread[t].pc = "rewarded" /\ overlapped' = overlapped
  BY <1>6 DEF Moves
<1>9. Alone(n, "Chain") =>
        LET last == last_block(Chain[n])
        IN  /\ block.previous_hash = hash(last)
            /\ valid_proof(last.proof, block.proof, hash(last))
  BY <1>2, <1>8, Start DEF HandlerInOrder, MineInOrder
<1>10. ASSUME thread'[t] = work
       PROVE  HandlerInOrder(t)'
  <2>1. valid_chain(work.newChain)
    BY <1>5, Start DEF HandlerInOrder
  <2>2. Alone(n, "Chain")' => MineInOrder(t)'
    BY <1>5, <1>7, <1>8, <1>9, <1>10 DEF MineInOrder, Alone
  <2>3. ListInOrder(t)'
    BY <1>2, <1>5, <1>7, <1>10 DEF ListInOrder
  <2> QED
    BY <1>5, <1>10, <2>1, <2>2, <2>3 DEF HandlerInOrder, Registering
<1>11. "rewarded" \in Mining /\ work.pc \in Mining
  BY <1>5 DEF Mining
<1> QED
  BY <1>5, <1>6, <1>7, <1>10, <1>11, GoesOn

LEMMA MineClearsHolds ==
  ASSUME FSharpInvariant, NEW t \in Thread, MineClears(t)
  PROVE  FSharpInvariant'
<1> DEFINE work == [thread[t] EXCEPT !.pc = "cleared"]
<1>1. Moves(t, "taken", work)
  BY DEF MineClears
<1>2. /\ work \in Work /\ work.pc = "cleared"
      /\ work.block = thread[t].block /\ work.newChain = thread[t].newChain
  BY Start DEF Work, Mining
<1> HIDE DEF work
<1>3. thread[t].pc = "taken" /\ StepOf(t, work) /\ overlapped' = overlapped
  BY <1>1, <1>2, Moved DEF StepOf, Mining
<1>4. << >> \in Seq(Transaction)
  OBVIOUS
<1>5. Disturbs(t)
  BY <1>3, <1>4, Start DEF MineClears, Disturbs, TypeOK, NodeInOrder, Mining
<1>6. thread'[t] = work
  BY <1>3, Start DEF StepOf, TypeOK
<1>7. UNCHANGED << Chain, clock, posted >>
  BY DEF MineClears
<1>8. HandlerInOrder(t)'
  <2>1. valid_chain(work.newChain)
    BY <1>2, Start DEF HandlerInOrder
  <2>2. Alone(Home[t], "Chain") => MineInOrder(t)
    BY Start DEF HandlerInOrder
  <2>3. Alone(Home[t], "Chain")' => MineInOrder(t)'
    BY <1>2, <1>3, <1>6, <1>7, <2>2 DEF MineInOrder, Alone
  <2> QED
    BY <1>2, <1>6, <2>1, <2>3 DEF HandlerInOrder, ListInOrder, Registering
<1>9. /\ Alone(Home[t], "Chain")' => valid_chain(Chain'[Home[t]])
      /\ clock' \in Nat /\ posted' \subseteq UserTransaction
  BY <1>3, <1>7, Start DEF Alone, NodeInOrder
<1> QED
  BY <1>3, <1>5, <1>8, <1>9, StepHolds

LEMMA MineReadsChainHolds ==
  ASSUME FSharpInvariant, NEW t \in Thread, MineReadsChain(t)
  PROVE  FSharpInvariant'
<1> DEFINE ch == Chain[Home[t]]
           work == [thread[t] EXCEPT !.pc = "appending", !.chain = ch]
<1>1. Moves(t, "cleared", work)
  BY DEF MineReadsChain
<1>2. /\ work \in Work /\ work.pc = "appending" /\ work.chain = ch
      /\ work.block = thread[t].block /\ work.newChain = thread[t].newChain
  BY Typed, Start DEF Work, Mining
<1> HIDE DEF work
<1>3. UNCHANGED << Chain, currentTransactions, Nodes, clock, posted >>
  BY DEF MineReadsChain
<1>4. thread[t].pc = "cleared" /\ overlapped' = overlapped
  BY <1>1 DEF Moves
<1>5. ASSUME thread'[t] = work
      PROVE  HandlerInOrder(t)'
  <2>1. valid_chain(work.newChain)
    BY <1>2, Start DEF HandlerInOrder
  <2>2. Alone(Home[t], "Chain") => MineInOrder(t)
    BY Start DEF HandlerInOrder
  <2>3. Alone(Home[t], "Chain")' => MineInOrder(t)'
    BY <1>2, <1>3, <1>4, <1>5, <2>2 DEF MineInOrder, Alone
  <2> QED
    BY <1>2, <1>5, <2>1, <2>3 DEF HandlerInOrder, ListInOrder, Registering
<1>6. "cleared" \in Mining /\ work.pc \in Mining /\ clock' \in Nat
  BY <1>2, <1>3, Start DEF Mining
<1> QED
  BY <1>1, <1>2, <1>3, <1>5, <1>6, GoesOn

(* A thread that returns has nothing to keep in order. *)
LEMMA ReturnedInOrder ==
  ASSUME NEW t \in Thread, thread'[t] = Idle(t)
  PROVE  HandlerInOrder(t)'
BY IdleType DEF HandlerInOrder, MineInOrder, ListInOrder, Registering

LEMMA MineAppendsHolds ==
  ASSUME FSharpInvariant, NEW t \in Thread, MineAppends(t)
  PROVE  FSharpInvariant'
<1> DEFINE n == Home[t]
           new == Append(thread[t].chain, thread[t].block)
<1>1. Moves(t, "appending", Idle(t))
  BY DEF MineAppends
<1>2. thread[t].pc = "appending" /\ StepOf(t, Idle(t)) /\ overlapped' = overlapped
  BY <1>1, Moved, IdleType DEF StepOf
<1>3. /\ thread[t].chain \in Seq(Block) /\ thread[t].block \in Block
      /\ Chain \in [Node -> Seq(Block)] /\ n \in Node
      /\ Chain[n] \in Seq(Block) /\ Len(Chain[n]) >= 1
  BY Typed, Start DEF TypeOK, NodeInOrder
<1>4. new \in Seq(Block) /\ Len(new) >= 1
  BY <1>3
<1>5. Chain' = [Chain EXCEPT ![n] = new]
  BY DEF MineAppends
<1> HIDE DEF new
<1>6. /\ Chain' \in [Node -> Seq(Block)] /\ Chain'[n] = new
      /\ \A m \in Node \ {n} : Chain'[m] = Chain[m]
  BY <1>3, <1>4, <1>5
<1>7. Disturbs(t)
  BY <1>2, <1>4, <1>6, Start DEF MineAppends, Disturbs, TypeOK, Mining
<1>8. Alone(n, "Chain") => valid_chain(new)
  <2>1. SUFFICES ASSUME Alone(n, "Chain") PROVE valid_chain(new)
    OBVIOUS
  <2>2. valid_chain(Chain[n]) /\ MineInOrder(t)
    BY <2>1, Start DEF HandlerInOrder, NodeInOrder
  <2>3. /\ thread[t].chain = Chain[n]
        /\ thread[t].block.previous_hash = hash(last_block(Chain[n]))
        /\ valid_proof(last_block(Chain[n]).proof, thread[t].block.proof,
                       hash(last_block(Chain[n])))
    BY <1>2, <2>2 DEF MineInOrder
  <2> QED
    BY <1>3, <2>2, <2>3, ValidAppended DEF new
<1>9. HandlerInOrder(t)'
  BY <1>2, Start, ReturnedInOrder DEF StepOf, TypeOK
<1>10. /\ Alone(n, "Chain")' => valid_chain(Chain'[n])
       /\ clock' \in Nat /\ posted' \subseteq UserTransaction
  BY <1>2, <1>6, <1>8, Start DEF MineAppends, Alone
<1> QED
  BY <1>2, <1>7, <1>9, <1>10, StepHolds

(* Where the loop over a body stands. *)
LEMMA RegisterFromType ==
  ASSUME NEW t \in Thread, NEW place \in Nat \ {0}
  PROVE  LET work == RegisterFrom(t, place)
         IN  /\ work \in Work
             /\ work.newChain = << >>
             /\ \/ work = Idle(t)
                \/ /\ work.pc = "registering"
                   /\ work.place \in 1 .. Len(Registered[Home[t]])
                   /\ Registered[Home[t]][work.place] # "invalid"
<1> DEFINE body == Registered[Home[t]]
           next == [Idle(t) EXCEPT !.pc = "registering", !.place = place]
<1>1. body \in Seq(Address)
  BY FSharpAssumption
<1>2. /\ next \in Work /\ next.pc = "registering" /\ next.place = place
      /\ next.newChain = << >>
  BY IdleType DEF Work, Registering
<1> HIDE DEF next
<1>3. CASE place <= Len(body) /\ body[place] # "invalid"
  <2>1. RegisterFrom(t, place) = next /\ place \in 1 .. Len(body)
    BY <1>1, <1>3 DEF RegisterFrom, next
  <2> QED
    BY <1>2, <1>3, <2>1
<1>4. CASE ~ (place <= Len(body) /\ body[place] # "invalid")
  <2>1. RegisterFrom(t, place) = Idle(t)
    BY <1>4 DEF RegisterFrom
  <2> QED
    BY <2>1, IdleType
<1> QED
  BY <1>3, <1>4

(* A thread that is to read the next address has nothing else in hand. *)
LEMMA RegisteringInOrder ==
  ASSUME NEW t \in Thread, NEW place \in Nat \ {0},
         thread'[t] = RegisterFrom(t, place)
  PROVE  HandlerInOrder(t)'
<1> DEFINE work == RegisterFrom(t, place)
<1>1. /\ work.newChain = << >>
      /\ \/ work = Idle(t)
         \/ /\ work.pc = "registering"
            /\ work.place \in 1 .. Len(Registered[Home[t]])
            /\ Registered[Home[t]][work.place] # "invalid"
  BY RegisterFromType
<1>2. thread'[t] = work
  OBVIOUS
<1> HIDE DEF work
<1> QED
  BY <1>1, <1>2, ReturnedInOrder, IdleType
     DEF HandlerInOrder, MineInOrder, ListInOrder

LEMMA RegisterStartsHolds ==
  ASSUME FSharpInvariant, NEW t \in Thread, RegisterStarts(t)
  PROVE  FSharpInvariant'
<1> DEFINE work == RegisterFrom(t, 1)
<1>1. work \in Work /\ Enters(t, "register", work)
  BY RegisterFromType DEF RegisterStarts
<1>2. UNCHANGED << Chain, currentTransactions, Nodes, clock, posted >>
  BY DEF RegisterStarts
<1>3. HandlerInOrder(t)' \/ thread'[t] # work
  BY RegisteringInOrder
<1> HIDE DEF work
<1>4. StepOf(t, work)
  BY <1>1, Entered DEF StepOf
<1>5. thread'[t] = work
  BY <1>4, Start DEF StepOf, TypeOK
<1>6. clock' \in Nat /\ posted' \subseteq UserTransaction
  BY <1>2, Start
<1>7. overlapped[Home[t]] \subseteq overlapped'[Home[t]]
  BY <1>4, Start DEF StepOf
<1> QED
  BY <1>2, <1>3, <1>4, <1>5, <1>6, <1>7, StoresNothing, StepHolds

LEMMA RegisterReadsHolds ==
  ASSUME FSharpInvariant, NEW t \in Thread, RegisterReads(t)
  PROVE  FSharpInvariant'
<1> DEFINE known == Nodes[Home[t]]
           work == [thread[t] EXCEPT !.pc = "joining", !.known = known]
<1>1. Moves(t, "registering", work)
  BY DEF RegisterReads
<1>2. /\ work \in Work /\ work.pc = "joining" /\ work.known = known
      /\ work.place = thread[t].place /\ work.newChain = thread[t].newChain
  BY Typed, Start DEF Work, Registering
<1> HIDE DEF work
<1>3. UNCHANGED << Chain, currentTransactions, Nodes, clock, posted >>
  BY DEF RegisterReads
<1>4. thread[t].pc = "registering" /\ overlapped' = overlapped
  BY <1>1 DEF Moves
<1>5. ASSUME thread'[t] = work
      PROVE  HandlerInOrder(t)'
  <2>1. /\ valid_chain(work.newChain)
        /\ work.place \in 1 .. Len(Registered[Home[t]])
        /\ Registered[Home[t]][work.place] # "invalid"
    BY <1>2, <1>4, Start DEF HandlerInOrder, Registering
  <2> QED
    BY <1>2, <1>3, <1>5, <2>1 DEF HandlerInOrder, MineInOrder, ListInOrder
<1>6. "registering" \in Registering /\ work.pc \in Registering /\ clock' \in Nat
  BY <1>2, <1>3, Start DEF Registering
<1> QED
  BY <1>1, <1>2, <1>3, <1>5, <1>6, GoesOn

LEMMA RegisterStoresHolds ==
  ASSUME FSharpInvariant, NEW t \in Thread, RegisterStores(t)
  PROVE  FSharpInvariant'
<1> DEFINE n == Home[t]
           place == thread[t].place
           work == RegisterFrom(t, place + 1)
           host == Registered[n][place]
<1>1. Moves(t, "joining", work)
  BY DEF RegisterStores
<1>2. place \in Nat \ {0} /\ place + 1 \in Nat \ {0}
  BY Typed, Start
<1>3. /\ work \in Work
      /\ work.pc = "idle" \/ work.pc = "registering"
  BY <1>2, RegisterFromType, IdleType
<1>4. thread'[t] = work => HandlerInOrder(t)'
  BY <1>2, RegisteringInOrder
<1> HIDE DEF work
<1>5. thread[t].pc = "joining" /\ StepOf(t, work) /\ overlapped' = overlapped
  BY <1>1, <1>3, Moved DEF StepOf, Registering
<1>6. thread'[t] = work
  BY <1>5, Start DEF StepOf, TypeOK
<1>7. host \in Peer
  <2>1. place \in 1 .. Len(Registered[n]) /\ host # "invalid"
    BY <1>5, Start DEF HandlerInOrder, Registering
  <2>2. Registered[n] \in Seq(Address)
    BY FSharpAssumption, Start
  <2> QED
    BY <2>1, <2>2 DEF Address
<1>8. thread[t].known \cup {host} \in SUBSET Peer
  BY <1>7, Typed, Start
<1>9. Nodes' = [Nodes EXCEPT ![n] = thread[t].known \cup {host}]
  BY DEF RegisterStores
<1>10. Disturbs(t)
  BY <1>5, <1>8, <1>9, Start
     DEF RegisterStores, Disturbs, TypeOK, NodeInOrder, Registering
<1>11. /\ Alone(n, "Chain")' => valid_chain(Chain'[n])
       /\ clock' \in Nat /\ posted' \subseteq UserTransaction
  BY <1>5, Start DEF RegisterStores, Alone, NodeInOrder
<1> QED
  BY <1>4, <1>5, <1>6, <1>10, <1>11, StepHolds

(* A resolve has nothing to keep in order but the chain it has found. *)
LEMMA ResolvingInOrder ==
  ASSUME NEW t \in Thread, NEW work, thread'[t] = work,
         work.pc \in Resolving, valid_chain(work.newChain),
         work.pc = "serving" => work.peer \in Node
  PROVE  HandlerInOrder(t)'
BY DEF HandlerInOrder, MineInOrder, ListInOrder, Registering, Resolving

LEMMA ResolveStartsHolds ==
  ASSUME FSharpInvariant, NEW t \in Thread, ResolveStarts(t)
  PROVE  FSharpInvariant'
<1> DEFINE left == Nodes[Home[t]]
           length == Len(Chain[Home[t]])
           work == [Idle(t) EXCEPT !.pc = "looping", !.left = left,
                                   !.maxLength = length]
<1>1. left \in SUBSET Peer /\ length \in Nat
  BY Typed, Start
<1>2. /\ work \in Work /\ work.pc \in Resolving /\ work.pc = "looping"
      /\ work.newChain = << >>
  BY <1>1, IdleType DEF Work, Resolving
<1>3. Enters(t, "resolve", work)
  BY DEF ResolveStarts
<1>4. UNCHANGED << Chain, currentTransactions, Nodes, clock, posted >>
  BY DEF ResolveStarts
<1> HIDE DEF work
<1>5. StepOf(t, work)
  BY <1>2, <1>3, Entered DEF StepOf
<1>6. thread'[t] = work
  BY <1>5, Start DEF StepOf, TypeOK
<1>7. HandlerInOrder(t)'
  BY <1>2, <1>6, IdleType, ResolvingInOrder
<1>8. clock' \in Nat /\ posted' \subseteq UserTransaction
  BY <1>4, Start
<1>9. overlapped[Home[t]] \subseteq overlapped'[Home[t]]
  BY <1>5, Start DEF StepOf
<1> QED
  BY <1>4, <1>5, <1>7, <1>8, <1>9, StoresNothing, StepHolds

(* A resolve goes on, with a chain that is valid. *)
LEMMA ResolveGoesOn ==
  ASSUME FSharpInvariant, NEW t \in Thread, NEW from \in Resolving, NEW work \in Work,
         Moves(t, from, work), work.pc \in Resolving, valid_chain(work.newChain),
         work.pc = "serving" => work.peer \in Node,
         UNCHANGED << Chain, currentTransactions, Nodes, clock, posted >>
  PROVE  FSharpInvariant'
<1>1. thread'[t] = work => HandlerInOrder(t)'
  BY ResolvingInOrder
<1>2. clock' \in Nat
  BY Start
<1> QED
  BY <1>1, <1>2, GoesOn

LEMMA ResolveAsksHolds ==
  ASSUME FSharpInvariant, NEW t \in Thread, ResolveAsks(t)
  PROVE  FSharpInvariant'
<1>1. PICK peer \in thread[t].left :
        Moves(t, "looping", [thread[t] EXCEPT !.pc = "asking", !.peer = peer,
                                              !.left = @ \ {peer}])
  BY DEF ResolveAsks
<1> DEFINE work == [thread[t] EXCEPT !.pc = "asking", !.peer = peer,
                                     !.left = @ \ {peer}]
<1>2. peer \in Peer /\ thread[t].left \ {peer} \in SUBSET Peer /\ thread[t] \in Work
  BY Typed, Start
<1>3. /\ work \in Work /\ work.pc = "asking" /\ work.newChain = thread[t].newChain
      /\ Moves(t, "looping", work)
  BY <1>1, <1>2, Start DEF Work, Resolving
<1> HIDE DEF work
<1>4. valid_chain(work.newChain)
  BY <1>3, Start DEF HandlerInOrder
<1>5. "looping" \in Resolving /\ "asking" \in Resolving
  BY DEF Resolving
<1>6. UNCHANGED << Chain, currentTransactions, Nodes, clock, posted >>
  BY DEF ResolveAsks
<1> QED
  BY <1>3, <1>4, <1>5, <1>6, ResolveGoesOn

LEMMA FullChainHolds ==
  ASSUME FSharpInvariant, NEW t \in Thread, FullChain(t)
  PROVE  FSharpInvariant'
<1> DEFINE reply == Chain[thread[t].peer]
           work == [thread[t] EXCEPT !.pc = "serving", !.reply = reply]
<1>1. reply \in Seq(Block)
  BY Start DEF FullChain, TypeOK
<1>2. Moves(t, "asking", work)
  BY DEF FullChain
<1>3. /\ work \in Work /\ work.pc = "serving" /\ work.newChain = thread[t].newChain
      /\ work.peer = thread[t].peer /\ work.peer \in Node
  BY <1>1, Start DEF FullChain, Work, Resolving
<1> HIDE DEF work
<1>4. valid_chain(work.newChain)
  BY <1>3, Start DEF HandlerInOrder
<1>5. "asking" \in Resolving /\ "serving" \in Resolving
  BY DEF Resolving
<1>6. UNCHANGED << Chain, currentTransactions, Nodes, clock, posted >>
  BY DEF FullChain
<1> QED
  BY <1>2, <1>3, <1>4, <1>5, <1>6, ResolveGoesOn

LEMMA FullChainLengthHolds ==
  ASSUME FSharpInvariant, NEW t \in Thread, FullChainLength(t)
  PROVE  FSharpInvariant'
<1> DEFINE length == Len(Chain[thread[t].peer])
           work == [thread[t] EXCEPT !.pc = "answered", !.length = length]
<1>1. Moves(t, "serving", work)
  BY DEF FullChainLength
<1>2. thread[t].peer \in Node
  BY <1>1, Start DEF Moves, HandlerInOrder
<1>3. length \in Nat
  BY <1>2, Start DEF TypeOK
<1>4. work \in Work /\ work.pc = "answered" /\ work.newChain = thread[t].newChain
  BY <1>3, Start DEF Work, Resolving
<1> HIDE DEF work
<1>5. valid_chain(work.newChain)
  BY <1>4, Start DEF HandlerInOrder
<1>6. "serving" \in Resolving /\ "answered" \in Resolving
  BY DEF Resolving
<1>7. UNCHANGED << Chain, currentTransactions, Nodes, clock, posted >>
  BY DEF FullChainLength
<1> QED
  BY <1>1, <1>4, <1>5, <1>6, <1>7, ResolveGoesOn

LEMMA ResumeResolveHolds ==
  ASSUME FSharpInvariant, NEW t \in Thread, ResumeResolve(t)
  PROVE  FSharpInvariant'
<1> DEFINE next == [thread[t] EXCEPT !.pc = "looping", !.reply = << >>, !.length = 0]
           better == [next EXCEPT !.maxLength = thread[t].length,
                                  !.newChain = thread[t].reply]
           work == IF Better(thread[t]) THEN better ELSE next
<1>1. << >> \in Seq(Block) /\ thread[t] \in Work
  BY Start
<1>2. /\ next \in Work /\ next.pc = "looping"
      /\ next.newChain = thread[t].newChain
  BY <1>1 DEF Work, Resolving
<1>3. /\ thread[t].reply \in Seq(Block) /\ thread[t].length \in Nat
      /\ valid_chain(thread[t].newChain)
  BY Typed, Start DEF HandlerInOrder
<1>4. Moves(t, "answered", work)
  BY DEF ResumeResolve
<1> HIDE DEF next
<1>5. /\ better \in Work /\ better.pc = "looping"
      /\ better.newChain = thread[t].reply
  BY <1>2, <1>3 DEF Work
<1>6. Better(thread[t]) => valid_chain(thread[t].reply)
  BY DEF Better
<1> HIDE DEF better
<1>7. work \in Work /\ work.pc = "looping" /\ valid_chain(work.newChain)
  BY <1>2, <1>3, <1>5, <1>6
<1> HIDE DEF work
<1>8. "looping" \in Resolving /\ "answered" \in Resolving
  BY DEF Resolving
<1>9. UNCHANGED << Chain, currentTransactions, Nodes, clock, posted >>
  BY DEF ResumeResolve
<1> QED
  BY <1>4, <1>7, <1>8, <1>9, ResolveGoesOn

LEMMA ResolveEndsHolds ==
  ASSUME FSharpInvariant, NEW t \in Thread, ResolveEnds(t)
  PROVE  FSharpInvariant'
<1> DEFINE n == Home[t]
           new == thread[t].newChain
<1>1. Moves(t, "looping", Idle(t))
  BY DEF ResolveEnds
<1>2. thread[t].pc = "looping" /\ StepOf(t, Idle(t)) /\ overlapped' = overlapped
  BY <1>1, Moved, IdleType DEF StepOf
<1>3. /\ new \in Seq(Block) /\ valid_chain(new)
      /\ Chain \in [Node -> Seq(Block)] /\ n \in Node
      /\ Len(Chain[n]) >= 1
  BY Typed, Start DEF TypeOK, NodeInOrder, HandlerInOrder
<1>4. new = << >> \/ Len(new) >= 1
  BY <1>3
<1>5. Chain' = IF new = << >> THEN Chain ELSE [Chain EXCEPT ![n] = new]
  BY DEF ResolveEnds
<1> HIDE DEF new
<1>6. /\ Chain' \in [Node -> Seq(Block)] /\ Len(Chain'[n]) >= 1
      /\ \A m \in Node \ {n} : Chain'[m] = Chain[m]
      /\ Chain'[n] = Chain[n] \/ valid_chain(Chain'[n])
  BY <1>3, <1>4, <1>5
<1>7. Disturbs(t)
  BY <1>2, <1>6, Start DEF ResolveEnds, Disturbs, TypeOK, Resolving
<1>8. HandlerInOrder(t)'
  BY <1>2, Start, ReturnedInOrder DEF StepOf, TypeOK
<1>9. /\ Alone(n, "Chain")' => valid_chain(Chain'[n])
      /\ clock' \in Nat /\ posted' \subseteq UserTransaction
  BY <1>2, <1>6, Start DEF ResolveEnds, Alone, NodeInOrder
<1> QED
  BY <1>2, <1>7, <1>8, <1>9, StepHolds

LEMMA RequestThrowsHolds ==
  ASSUME FSharpInvariant, NEW t \in Thread, RequestThrows(t)
  PROVE  FSharpInvariant'
<1>1. PICK pc \in {"asking", "serving", "answered"} : Moves(t, pc, Idle(t))
  BY DEF RequestThrows
<1>2. UNCHANGED << Chain, currentTransactions, Nodes, clock, posted >>
  BY DEF RequestThrows
<1>3. thread'[t] = Idle(t) => HandlerInOrder(t)'
  BY ReturnedInOrder
<1>4. clock' \in Nat
  BY <1>2, Start
<1> QED
  BY <1>1, <1>2, <1>3, <1>4, IdleType, GoesOn

LEMMA StutterHolds ==
  ASSUME FSharpInvariant, UNCHANGED vars
  PROVE  FSharpInvariant'
<1>1. TypeOK'
  BY DEF FSharpInvariant, TypeOK, vars
<1>2. \A n \in Node : NodeInOrder(n)'
  BY DEF FSharpInvariant, NodeInOrder, Alone, vars
<1>3. \A t \in Thread : HandlerInOrder(t)'
  BY DEF FSharpInvariant, HandlerInOrder, MineInOrder, ListInOrder, Alone, vars
<1> QED
  BY <1>1, <1>2, <1>3 DEF FSharpInvariant

LEMMA NextHolds ==
  ASSUME FSharpInvariant, [Next]_vars
  PROVE  FSharpInvariant'
<1>1. ASSUME NEW t \in Thread, Runs(t)
      PROVE  FSharpInvariant'
  BY <1>1, PostStoresHolds, MineFindsHolds, MineRewardsHolds, MineTakesHolds,
     MineClearsHolds, MineReadsChainHolds, MineAppendsHolds, RegisterReadsHolds,
     RegisterStoresHolds, ResolveAsksHolds, ResumeResolveHolds, ResolveEndsHolds
     DEF Runs
<1>2. ASSUME Next
      PROVE  FSharpInvariant'
  BY <1>1, <1>2, PostStartsHolds, MineStartsHolds, RegisterStartsHolds,
     ResolveStartsHolds, FullChainHolds, FullChainLengthHolds, RequestThrowsHolds
     DEF Next
<1> QED
  BY <1>2, StutterHolds

(* What handlers of a network of F# nodes have in hand stays in order, for *)
(* each attribute that no two of them have updated at once.                *)
THEOREM Invariance == Spec => []FSharpInvariant
<1>1. FSharpInvariant /\ [Next]_vars => FSharpInvariant'
  BY NextHolds
<1> QED
  BY InitHolds, <1>1, PTL DEF Spec

(* Posts, registrations and neighbours never break the chain of a node:    *)
(* it takes a mine that overlaps a mine or a resolve of the same node.     *)
THEOREM ChainsValid == Spec => []ChainsAreValid
<1>1. FSharpInvariant => ChainsAreValid
  BY DEF FSharpInvariant, NodeInOrder, ChainsAreValid
<1> QED
  BY <1>1, Invariance, PTL

-----------------------------------------------------------------------------
(* What stays *)

LEMMA RegistrationsStep ==
  ASSUME FSharpInvariant, NEW t \in Thread, RegisterStores(t), NEW n \in Node,
         Alone(n, "Nodes")'
  PROVE  Nodes[n] \subseteq Nodes'[n]
<1>1. /\ thread[t].pc = "joining" /\ Alone(n, "Nodes")
      /\ \E host : Nodes' = [Nodes EXCEPT ![Home[t]] = thread[t].known \cup {host}]
  BY DEF RegisterStores, Moves, Alone
<1>2. Nodes \in [Node -> SUBSET Peer] /\ HandlerInOrder(t)
  BY Start DEF TypeOK
<1>3. CASE Home[t] = n
  <2>1. thread[t].known = Nodes[n]
    BY <1>1, <1>2, <1>3 DEF HandlerInOrder
  <2> QED
    BY <1>1, <1>2, <1>3, <2>1
<1>4. CASE Home[t] # n
  BY <1>1, <1>2, <1>4
<1> QED
  BY <1>3, <1>4

(* A peer stays registered while registrations of a node do not overlap,   *)
(* whatever else its threads do, and with any body.                        *)
THEOREM RegistrationsKept == Spec => RegistrationsStay
<1> DEFINE Kept == \A n \in Node : Alone(n, "Nodes")' => Nodes[n] \subseteq Nodes'[n]
<1>1. ASSUME FSharpInvariant, [Next]_vars
      PROVE  [Kept]_vars
  <2>1. ASSUME NEW t \in Thread, ~ RegisterStores(t),
               \/ \E tx \in UserTransaction : PostStarts(t, tx)
               \/ MineStarts(t) \/ RegisterStarts(t) \/ ResolveStarts(t)
               \/ FullChain(t) \/ FullChainLength(t) \/ RequestThrows(t)
               \/ Runs(t)
        PROVE  Nodes' = Nodes
    BY <2>1 DEF PostStarts, MineStarts, RegisterStarts, ResolveStarts, FullChain,
       FullChainLength, RequestThrows, Runs, PostStores, MineFinds, MineRewards,
       MineTakes, MineClears, MineReadsChain, MineAppends, RegisterReads,
       ResolveAsks, ResumeResolve, ResolveEnds
  <2>2. Kept \/ UNCHANGED vars
    <3>1. CASE \E t \in Thread : RegisterStores(t)
      BY <1>1, <3>1, RegistrationsStep
    <3>2. CASE Next /\ ~ \E t \in Thread : RegisterStores(t)
      BY <2>1, <3>2 DEF Next
    <3> QED
      BY <1>1, <3>1, <3>2
  <2> QED
    BY <2>2
<1> QED
  BY <1>1, Invariance, PTL DEF Spec, RegistrationsStay

-----------------------------------------------------------------------------
(* Transactions wait until they are in a block *)

Carrying == {"taken", "cleared", "appending"}

LEMMA WaitsStill ==
  ASSUME FSharpInvariant, NEW n \in Node, NEW tx, NEW t \in Thread, NEW work,
         thread' = [thread EXCEPT ![t] = work], Waits(n, tx),
         \/ PlacesIn(currentTransactions[n], tx) = {}
         \/ PlacesIn(currentTransactions'[n], tx) # {}
         \/ /\ Home[t] = n /\ work.pc \in Carrying
            /\ PlacesIn(work.block.transactions, tx) # {},
         Home[t] = n /\ thread[t].pc \in Carrying =>
           work.pc \in Carrying /\ work.block = thread[t].block
  PROVE  Waits(n, tx)'
<1>1. /\ thread'[t] = work
      /\ \A u \in Thread \ {t} : thread'[u] = thread[u]
  BY Start DEF TypeOK
<1>2. CASE PlacesIn(currentTransactions'[n], tx) # {}
  BY <1>2 DEF Waits
<1>3. CASE Home[t] = n /\ work.pc \in Carrying
           /\ PlacesIn(work.block.transactions, tx) # {}
  BY <1>1, <1>3 DEF Waits, Local, Carrying
<1>4. CASE PlacesIn(currentTransactions[n], tx) = {}
  <2>1. PICK u \in Local(n) : /\ thread[u].pc \in Carrying
                              /\ PlacesIn(thread[u].block.transactions, tx) # {}
    BY <1>4 DEF Waits, Carrying
  <2>2. /\ thread'[u].pc \in Carrying
        /\ PlacesIn(thread'[u].block.transactions, tx) # {}
    BY <1>1, <2>1 DEF Local
  <2> QED
    BY <2>1, <2>2 DEF Waits, Carrying
<1> QED
  BY <1>2, <1>3, <1>4

LEMMA PlacesStay ==
  ASSUME NEW list \in Seq(Transaction), NEW e \in Transaction, NEW tx,
         PlacesIn(list, tx) # {}
  PROVE  PlacesIn(Append(list, e), tx) # {}
<1>1. PICK k \in 1 .. Len(list) : list[k] = tx
  BY DEF PlacesIn
<1>2. k \in 1 .. Len(Append(list, e)) /\ Append(list, e)[k] = tx
  BY <1>1
<1> QED
  BY <1>2 DEF PlacesIn

(* A longer list is stored: by a post, or by a mine. *)
LEMMA LongerKeeps ==
  ASSUME FSharpInvariant, NEW t \in Thread, NEW n \in Node, NEW tx,
         Alone(n, "currentTransactions"), thread[t].pc \in {"posting", "found"},
         currentTransactions' = [currentTransactions EXCEPT ![Home[t]] = Longer(t)],
         PlacesIn(currentTransactions[n], tx) # {}
  PROVE  PlacesIn(currentTransactions'[n], tx) # {}
<1>1. currentTransactions \in [Node -> Seq(Transaction)] /\ Home[t] \in Node
  BY Start DEF TypeOK
<1>2. CASE Home[t] = n
  <2>1. thread[t].list = currentTransactions[n]
    BY <1>2, Start DEF HandlerInOrder, ListInOrder
  <2>2. currentTransactions'[n] = Append(currentTransactions[n], thread[t].tx)
    BY <1>1, <1>2, <2>1 DEF Longer
  <2>3. thread[t].tx \in Transaction /\ currentTransactions[n] \in Seq(Transaction)
    BY <1>1, Typed, Start
  <2> QED
    BY <2>2, <2>3, PlacesStay
<1>3. CASE Home[t] # n
  BY <1>1, <1>3
<1> QED
  BY <1>2, <1>3

(* A step that leaves the lists alone, of a thread without a block. *)
LEMMA QuietWaits ==
  ASSUME FSharpInvariant, NEW n \in Node, NEW tx, NEW t \in Thread,
         Waits(n, tx), currentTransactions' = currentTransactions,
         \/ \E request, work : Enters(t, request, work)
         \/ \E from, work : Moves(t, from, work) /\ from \notin Carrying
  PROVE  Waits(n, tx)'
<1>1. PICK work : thread' = [thread EXCEPT ![t] = work]
  BY DEF Enters, Moves
<1>2. thread[t].pc \notin Carrying
  BY DEF Enters, Moves, Carrying
<1> QED
  BY <1>1, <1>2, WaitsStill

LEMMA StepWaits ==
  ASSUME FSharpInvariant, NEW n \in Node, NEW tx, NEW t \in Thread,
         Waits(n, tx), Alone(n, "currentTransactions")',
         \/ \E posting \in UserTransaction : PostStarts(t, posting)
         \/ MineStarts(t) \/ RegisterStarts(t) \/ ResolveStarts(t)
         \/ FullChain(t) \/ FullChainLength(t) \/ RequestThrows(t)
         \/ Runs(t)
  PROVE  \/ Waits(n, tx)'
         \/ PlacesIn(last_block(Chain'[n]).transactions, tx) # {}
<1>1. CASE \E posting \in UserTransaction : PostStarts(t, posting)
  BY <1>1, QuietWaits DEF PostStarts
<1>2. CASE MineStarts(t)
  BY <1>2, QuietWaits DEF MineStarts
<1>3. CASE RegisterStarts(t)
  BY <1>3, QuietWaits DEF RegisterStarts
<1>4. CASE ResolveStarts(t)
  BY <1>4, QuietWaits DEF ResolveStarts
<1>5. CASE FullChain(t)
  BY <1>5, QuietWaits DEF FullChain, Carrying
<1>6. CASE FullChainLength(t)
  BY <1>6, QuietWaits DEF FullChainLength, Carrying
<1>7. CASE RequestThrows(t)
  BY <1>7, QuietWaits DEF RequestThrows, Carrying
<1>8. CASE MineFinds(t)
  BY <1>8, QuietWaits DEF MineFinds, Carrying
<1>9. CASE MineTakes(t)
  BY <1>9, QuietWaits DEF MineTakes, Carrying
<1>10. CASE RegisterReads(t)
  BY <1>10, QuietWaits DEF RegisterReads, Carrying
<1>11. CASE RegisterStores(t)
  BY <1>11, QuietWaits DEF RegisterStores, Carrying
<1>12. CASE ResolveAsks(t)
  BY <1>12, QuietWaits DEF ResolveAsks, Carrying
<1>13. CASE ResumeResolve(t)
  BY <1>13, QuietWaits DEF ResumeResolve, Carrying
<1>14. CASE ResolveEnds(t)
  BY <1>14, QuietWaits DEF ResolveEnds, Carrying
<1>15. CASE PostStores(t)
  <2>1. /\ thread[t].pc = "posting" /\ thread' = [thread EXCEPT ![t] = Idle(t)]
        /\ Alone(n, "currentTransactions")
        /\ currentTransactions' = [currentTransactions EXCEPT ![Home[t]] = Longer(t)]
    BY <1>15 DEF PostStores, Moves, Alone
  <2>2. \/ PlacesIn(currentTransactions[n], tx) = {}
        \/ PlacesIn(currentTransactions'[n], tx) # {}
    BY <2>1, LongerKeeps
  <2> QED
    BY <2>1, <2>2, WaitsStill DEF Carrying
<1>16. CASE MineRewards(t)
  <2>1. PICK work : /\ thread[t].pc = "found"
                    /\ thread' = [thread EXCEPT ![t] = work]
    BY <1>16 DEF MineRewards, Moves
  <2>2. /\ Alone(n, "currentTransactions")
        /\ currentTransactions' = [currentTransactions EXCEPT ![Home[t]] = Longer(t)]
    BY <1>16 DEF MineRewards, Moves, Alone
  <2>3. \/ PlacesIn(currentTransactions[n], tx) = {}
        \/ PlacesIn(currentTransactions'[n], tx) # {}
    BY <2>1, <2>2, LongerKeeps
  <2> QED
    BY <2>1, <2>3, WaitsStill DEF Carrying
<1>17. CASE MineClears(t)
  <2> DEFINE work == [thread[t] EXCEPT !.pc = "cleared"]
  <2>1. /\ thread[t].pc = "taken" /\ thread' = [thread EXCEPT ![t] = work]
        /\ Alone(n, "currentTransactions")
        /\ currentTransactions' = [currentTransactions EXCEPT ![Home[t]] = << >>]
    BY <1>17 DEF MineClears, Moves, Alone
  <2>2. work.pc \in Carrying /\ work.block = thread[t].block
    BY Start DEF Work, Carrying
  <2> HIDE DEF work
  <2>3. Home[t] = n => work.block.transactions = currentTransactions[n]
    BY <2>1, <2>2, Start DEF HandlerInOrder, ListInOrder
  <2>4. Home[t] # n => currentTransactions'[n] = currentTransactions[n]
    BY <2>1, Start DEF TypeOK
  <2> QED
    BY <2>1, <2>2, <2>3, <2>4, WaitsStill
<1>18. CASE MineReadsChain(t)
  <2> DEFINE ch == Chain[Home[t]]
             work == [thread[t] EXCEPT !.pc = "appending", !.chain = ch]
  <2>1. /\ thread' = [thread EXCEPT ![t] = work]
        /\ currentTransactions' = currentTransactions
    BY <1>18 DEF MineReadsChain, Moves
  <2>2. work.pc \in Carrying /\ work.block = thread[t].block
    BY Start DEF Work, Carrying
  <2> HIDE DEF work
  <2> QED
    BY <2>1, <2>2, WaitsStill
<1>19. CASE MineAppends(t)
  <2>1. /\ thread' = [thread EXCEPT ![t] = Idle(t)]
        /\ currentTransactions' = currentTransactions
        /\ Chain' = [Chain EXCEPT ![Home[t]] =
                       Append(thread[t].chain, thread[t].block)]
    BY <1>19 DEF MineAppends, Moves
  <2>2. CASE /\ Home[t] = n /\ thread[t].pc \in Carrying
             /\ PlacesIn(thread[t].block.transactions, tx) # {}
    <3>1. /\ thread[t].chain \in Seq(Block) /\ thread[t].block \in Block
          /\ Chain \in [Node -> Seq(Block)]
      BY Typed, Start DEF TypeOK
    <3>2. Chain'[n] = Append(thread[t].chain, thread[t].block)
      BY <2>1, <2>2, <3>1
    <3>3. last_block(Chain'[n]) = thread[t].block
      BY <3>1, <3>2 DEF last_block
    <3> QED
      BY <2>2, <3>3
  <2>3. CASE ~ (/\ Home[t] = n /\ thread[t].pc \in Carrying
                /\ PlacesIn(thread[t].block.transactions, tx) # {})
    <3>1. \A u \in Thread \ {t} : thread'[u] = thread[u]
      BY <2>1, Start DEF TypeOK
    <3>2. CASE PlacesIn(currentTransactions[n], tx) # {}
      BY <2>1, <3>2 DEF Waits
    <3>3. CASE PlacesIn(currentTransactions[n], tx) = {}
      <4>1. PICK u \in Local(n) : /\ thread[u].pc \in Carrying
                                  /\ PlacesIn(thread[u].block.transactions, tx) # {}
        BY <3>3 DEF Waits, Carrying
      <4>2. u \in Thread \ {t}
        BY <2>3, <4>1 DEF Local
      <4> QED
        BY <3>1, <4>1, <4>2 DEF Waits, Carrying
    <3> QED
      BY <3>2, <3>3
  <2> QED
    BY <2>2, <2>3
<1> QED
  BY <1>1, <1>2, <1>3, <1>4, <1>5, <1>6, <1>7, <1>8, <1>9, <1>10, <1>11, <1>12,
     <1>13, <1>14, <1>15, <1>16, <1>17, <1>18, <1>19 DEF Runs

(* While posts and mines of a node do not overlap, no transaction is lost  *)
(* before a block that carries it is at the end of the chain, whatever     *)
(* resolves and registrations run.                                         *)
THEOREM WaitsKept == Spec => WaitsUntilMined
<1> DEFINE Kept ==
      \A n \in Node, tx \in UserTransaction :
        Waits(n, tx) /\ Alone(n, "currentTransactions")' =>
          \/ Waits(n, tx)'
          \/ PlacesIn(last_block(Chain[n]).transactions, tx)' # {}
<1>1. ASSUME FSharpInvariant, [Next]_vars
      PROVE  [Kept]_vars
  <2>1. ASSUME Next, NEW n \in Node, NEW tx \in UserTransaction,
               Waits(n, tx), Alone(n, "currentTransactions")'
        PROVE  \/ Waits(n, tx)'
               \/ PlacesIn(last_block(Chain'[n]).transactions, tx) # {}
    BY <1>1, <2>1, StepWaits DEF Next
  <2>2. Next => Kept
    BY <2>1
  <2> QED
    BY <1>1, <2>2
<1> QED
  BY <1>1, Invariance, PTL DEF Spec, WaitsUntilMined

-----------------------------------------------------------------------------
(* Each transaction once *)

(* What is on its way in the hands of t: a transaction that is posted, or *)
(* those of a block, once the list they come from has been emptied.       *)
InHand(t) ==
  CASE thread[t].pc = "posting" -> << thread[t].tx >>
    [] thread[t].pc \in {"cleared", "appending"} -> thread[t].block.transactions
    [] OTHER -> << >>

Carries(t, tx) == PlacesIn(InHand(t), tx)
Lists(n, tx) == PlacesIn(currentTransactions[n], tx)

(* The chains nodes believe in, and those that handlers have read. *)
Held ==
  {Chain[n] : n \in Node} \cup {thread[t].reply : t \in Thread} \cup
  {thread[t].newChain : t \in Thread} \cup {thread[t].chain : t \in Thread}

InNoChain(tx) == \A c \in Held : PlacesInChain(c, tx) = {}

(* tx is at most once in each chain, and while it is in a list or in a hand, *)
(* it is there once, and in no other list, hand or chain.                    *)
HeldOnce(tx) ==
  /\ \A c \in Held : AtMostOne(PlacesInChain(c, tx))
  /\ \A n \in Node : AtMostOne(Lists(n, tx))
  /\ \A t \in Thread : AtMostOne(Carries(t, tx))
  /\ \A n \in Node : Lists(n, tx) # {} =>
       /\ \A m \in Node : Lists(m, tx) # {} => m = n
       /\ \A t \in Thread : Carries(t, tx) = {}
       /\ InNoChain(tx)
  /\ \A t \in Thread : Carries(t, tx) # {} =>
       /\ \A u \in Thread : Carries(u, tx) # {} => u = t
       /\ InNoChain(tx)

HeldNowhere(tx) ==
  /\ InNoChain(tx)
  /\ \A n \in Node : Lists(n, tx) = {}
  /\ \A t \in Thread : Carries(t, tx) = {}

(* What a mine adds to the list is the reward of its node. *)
RewardsOnly ==
  \A t \in Thread : thread[t].pc \in Mining => thread[t].tx = Reward(Home[t])

AllAlone == \A n \in Node : Alone(n, "currentTransactions")

(* The invariant: under the premise of EachTransactionOnce, a transaction *)
(* is nowhere until it is posted, and from then on at most once.          *)
OnceInvariant ==
  /\ RewardsOnly
  /\ AllAlone => \A tx \in UserTransaction \ Minted :
       HeldOnce(tx) /\ (tx \notin posted => HeldNowhere(tx))

(* The hands of the other threads stay as they are. *)
LEMMA OtherHands ==
  ASSUME TypeOK, NEW t \in Thread, NEW work, thread' = [thread EXCEPT ![t] = work],
         NEW tx
  PROVE  /\ thread'[t] = work
         /\ \A u \in Thread \ {t} : thread'[u] = thread[u]
         /\ \A u \in Thread \ {t} : Carries(u, tx)' = Carries(u, tx)
<1>1. /\ thread'[t] = work
      /\ \A u \in Thread \ {t} : thread'[u] = thread[u]
  BY DEF TypeOK
<1> QED
  BY <1>1 DEF Carries, InHand

(* A chain held after a step of t was held before, or is one that the step *)
(* stores or reads.                                                        *)
LEMMA LaterHeld ==
  ASSUME TypeOK, NEW t \in Thread, NEW work, thread' = [thread EXCEPT ![t] = work],
         \A m \in Node \ {Home[t]} : Chain'[m] = Chain[m],
         NEW c \in Held'
  PROVE  c \in Held \cup {Chain'[Home[t]], work.reply, work.newChain, work.chain}
<1>1. /\ thread'[t] = work
      /\ \A u \in Thread \ {t} : thread'[u] = thread[u]
  BY DEF TypeOK
<1>2. CASE \E n \in Node : c = Chain'[n]
  BY <1>2 DEF Held
<1>3. CASE \E u \in Thread : c = thread'[u].reply
  BY <1>1, <1>3 DEF Held
<1>4. CASE \E u \in Thread : c = thread'[u].newChain
  BY <1>1, <1>4 DEF Held
<1>5. CASE \E u \in Thread : c = thread'[u].chain
  BY <1>1, <1>5 DEF Held
<1> QED
  BY <1>2, <1>3, <1>4, <1>5 DEF Held

LEMMA HeldBy ==
  ASSUME TypeOK, NEW t \in Thread
  PROVE  /\ Held \in SUBSET Seq(Block)
         /\ \A n \in Node : Chain[n] \in Held
         /\ {thread[t].reply, thread[t].newChain, thread[t].chain} \subseteq Held
<1>1. \A u \in Thread : /\ thread[u].reply \in Seq(Block)
                        /\ thread[u].newChain \in Seq(Block)
                        /\ thread[u].chain \in Seq(Block)
  BY Typed
<1>2. \A n \in Node : Chain[n] \in Seq(Block)
  BY DEF TypeOK
<1> QED
  BY <1>1, <1>2 DEF Held

(* Chains are passed on, replaced and forgotten; lists and hands stay. *)
LEMMA PassedOn ==
  ASSUME NEW tx,
         \A n \in Node : Lists(n, tx)' = Lists(n, tx),
         \A u \in Thread : Carries(u, tx)' = Carries(u, tx),
         \A c \in Held' : c \in Held \/ PlacesInChain(c, tx) = {}
  PROVE  /\ HeldOnce(tx) => HeldOnce(tx)'
         /\ HeldNowhere(tx) => HeldNowhere(tx)'
<1>1. InNoChain(tx) => InNoChain(tx)'
  BY DEF InNoChain
<1>2. (\A c \in Held : AtMostOne(PlacesInChain(c, tx))) =>
        \A c \in Held' : AtMostOne(PlacesInChain(c, tx))
  BY DEF AtMostOne
<1> QED
  BY <1>1, <1>2 DEF HeldOnce, HeldNowhere

(* What every step has in common. *)
LEMMA Steps ==
  ASSUME FSharpInvariant, NEW t \in Thread, NEW work,
         \/ \E request : Enters(t, request, work)
         \/ \E from : Moves(t, from, work)
  PROVE  /\ thread' = [thread EXCEPT ![t] = work]
         /\ AllAlone' => AllAlone
<1>1. Home[t] \in Node /\ overlapped \in [Node -> SUBSET Attribute]
  BY Start DEF TypeOK
<1>2. thread' = [thread EXCEPT ![t] = work]
  BY DEF Enters, Moves
<1>3. \A m \in Node : overlapped[m] \subseteq overlapped'[m]
  <2>1. CASE \E request : Enters(t, request, work)
    <3> DEFINE found == UNION {Conflicts(work.pc, thread[u].pc) : u \in Local(Home[t])}
    <3>1. overlapped' = [overlapped EXCEPT ![Home[t]] = @ \cup found]
      BY <2>1 DEF Enters
    <3> HIDE DEF found
    <3> QED
      BY <1>1, <3>1
  <2>2. CASE \E from : Moves(t, from, work)
    BY <2>2 DEF Moves
  <2> QED
    BY <2>1, <2>2
<1> QED
  BY <1>2, <1>3 DEF AllAlone, Alone

LEMMA RewardsStay ==
  ASSUME TypeOK, RewardsOnly, NEW t \in Thread, NEW work,
         thread' = [thread EXCEPT ![t] = work],
         work.pc \in Mining => work.tx = Reward(Home[t])
  PROVE  RewardsOnly'
<1>1. /\ thread'[t] = work
      /\ \A u \in Thread \ {t} : thread'[u] = thread[u]
  BY DEF TypeOK
<1> QED
  BY <1>1 DEF RewardsOnly

(* A step that passes chains on, and stores no list. *)
LEMMA QuietOnce ==
  ASSUME FSharpInvariant, OnceInvariant, NEW t \in Thread, NEW work,
         \/ \E request : Enters(t, request, work)
         \/ \E from : Moves(t, from, work),
         work.pc \in Mining => work.tx = Reward(Home[t]),
         \/ /\ thread[t].pc \notin {"posting", "cleared", "appending"}
            /\ work.pc \notin {"posting", "cleared", "appending"}
         \/ /\ thread[t].pc \in {"cleared", "appending"}
            /\ work.pc \in {"cleared", "appending"}
            /\ work.block = thread[t].block,
         \A m \in Node \ {Home[t]} : Chain'[m] = Chain[m],
         {Chain'[Home[t]], work.reply, work.newChain, work.chain}
           \subseteq Held \cup {<< >>},
         UNCHANGED << currentTransactions, posted >>
  PROVE  OnceInvariant'
<1>1. TypeOK /\ thread' = [thread EXCEPT ![t] = work] /\ (AllAlone' => AllAlone)
  BY Start, Steps
<1>2. RewardsOnly'
  BY <1>1, RewardsStay DEF OnceInvariant
<1>3. ASSUME AllAlone', NEW tx \in UserTransaction \ Minted
      PROVE  HeldOnce(tx)' /\ (tx \notin posted' => HeldNowhere(tx)')
  <2>1. HeldOnce(tx) /\ (tx \notin posted => HeldNowhere(tx))
    BY <1>1, <1>3 DEF OnceInvariant
  <2>2. thread'[t] = work /\ \A u \in Thread \ {t} : Carries(u, tx)' = Carries(u, tx)
    BY <1>1, OtherHands
  <2>3. Carries(t, tx)' = Carries(t, tx)
    <3>1. CASE /\ thread[t].pc \notin {"posting", "cleared", "appending"}
               /\ work.pc \notin {"posting", "cleared", "appending"}
      BY <2>2, <3>1 DEF Carries, InHand
    <3>2. CASE /\ thread[t].pc \in {"cleared", "appending"}
               /\ work.pc \in {"cleared", "appending"}
               /\ work.block = thread[t].block
      BY <2>2, <3>2 DEF Carries, InHand
    <3> QED
      BY <3>1, <3>2
  <2>4. \A c \in Held' : c \in Held \/ PlacesInChain(c, tx) = {}
    <3>1. \A c \in Held' :
            c \in Held \cup {Chain'[Home[t]], work.reply, work.newChain, work.chain}
      BY <1>1, LaterHeld
    <3>2. PlacesInChain(<< >>, tx) = {}
      BY EmptyPlaces
    <3> QED
      BY <3>1, <3>2
  <2>5. \A n \in Node : Lists(n, tx)' = Lists(n, tx)
    BY DEF Lists
  <2>6. \A u \in Thread : Carries(u, tx)' = Carries(u, tx)
    BY <2>2, <2>3
  <2> QED
    BY <2>1, <2>4, <2>5, <2>6, PassedOn
<1> QED
  BY <1>2, <1>3 DEF OnceInvariant

(* ... and the most common kind of it, where the chain stays as well. *)
LEMMA ReadsOnce ==
  ASSUME FSharpInvariant, OnceInvariant, NEW t \in Thread, NEW work,
         \/ \E request : Enters(t, request, work)
         \/ \E from : Moves(t, from, work),
         work.pc \in Mining => work.tx = Reward(Home[t]),
         \/ /\ thread[t].pc \notin {"posting", "cleared", "appending"}
            /\ work.pc \notin {"posting", "cleared", "appending"}
         \/ /\ thread[t].pc \in {"cleared", "appending"}
            /\ work.pc \in {"cleared", "appending"}
            /\ work.block = thread[t].block,
         {work.reply, work.newChain, work.chain} \subseteq Held \cup {<< >>},
         UNCHANGED << Chain, currentTransactions, posted >>
  PROVE  OnceInvariant'
<1>1. Chain'[Home[t]] \in Held
  BY Start, HeldBy
<1> QED
  BY <1>1, QuietOnce

(* What a handler holds that has just been entered, or has returned. *)
LEMMA IdleHolds ==
  ASSUME NEW t \in Thread
  PROVE  /\ Idle(t).pc = "idle" /\ Idle(t).pc \notin Mining
         /\ Idle(t).tx = Reward(Home[t])
         /\ Idle(t).reply = << >> /\ Idle(t).newChain = << >> /\ Idle(t).chain = << >>
BY DEF Idle, Mining

LEMMA InitOnce == Init => OnceInvariant
<1> SUFFICES ASSUME Init PROVE OnceInvariant
  OBVIOUS
<1>1. \A t \in Thread : thread[t] = Idle(t) /\ thread[t].pc = "idle"
  BY IdleType DEF Init
<1>2. RewardsOnly
  BY <1>1 DEF RewardsOnly, Mining
<1>3. ASSUME NEW tx \in UserTransaction \ Minted
      PROVE  HeldNowhere(tx)
  <2>1. \A n \in Node : Lists(n, tx) = {}
    BY EmptyPlaces DEF Init, Lists
  <2>2. \A t \in Thread : Carries(t, tx) = {}
    BY <1>1, EmptyPlaces DEF Carries, InHand
  <2>3. \A t \in Thread : /\ thread[t].reply = << >> /\ thread[t].newChain = << >>
                          /\ thread[t].chain = << >>
    BY <1>1, IdleHolds
  <2>4. \A c \in Held : c = << >> \/ \E n \in Node : c = GenesisChain(BootTime[n])
    BY <2>3 DEF Held, Init
  <2>5. \A n \in Node : PlacesInChain(GenesisChain(BootTime[n]), tx) = {}
    <3>1. TAKE n \in Node
    <3> DEFINE c == GenesisChain(BootTime[n])
    <3>2. Len(c) = 1 /\ c[1].transactions = << >>
      BY DEF GenesisChain, new_block
    <3> HIDE DEF c
    <3>3. \A i \in 1 .. Len(c) : PlacesIn(c[i].transactions, tx) = {}
      BY <3>2, EmptyPlaces
    <3> QED
      BY <3>3 DEF PlacesInChain, c
  <2> QED
    BY <2>1, <2>2, <2>4, <2>5, EmptyPlaces DEF HeldNowhere, InNoChain
<1>4. ASSUME NEW tx \in UserTransaction \ Minted
      PROVE  HeldOnce(tx)
  BY <1>3, <1>4 DEF HeldNowhere, HeldOnce, InNoChain, AtMostOne
<1> QED
  BY <1>2, <1>3, <1>4 DEF OnceInvariant

LEMMA MineStartsOnce ==
  ASSUME FSharpInvariant, OnceInvariant, NEW t \in Thread, MineStarts(t)
  PROVE  OnceInvariant'
<1> DEFINE last == last_block(Chain[Home[t]])
           work == [Idle(t) EXCEPT !.pc = "searching", !.last = last]
<1>1. /\ work.pc = "searching" /\ work.tx = Reward(Home[t])
      /\ work.reply = << >> /\ work.newChain = << >> /\ work.chain = << >>
  BY DEF Idle
<1>2. Enters(t, "mine", work)
  BY DEF MineStarts
<1> HIDE DEF work
<1>3. thread[t].pc = "idle" /\ UNCHANGED << Chain, currentTransactions, posted >>
  BY <1>2 DEF MineStarts, Enters
<1> QED
  BY <1>1, <1>2, <1>3, ReadsOnce

LEMMA ResolveStartsOnce ==
  ASSUME FSharpInvariant, OnceInvariant, NEW t \in Thread, ResolveStarts(t)
  PROVE  OnceInvariant'
<1> DEFINE left == Nodes[Home[t]]
           length == Len(Chain[Home[t]])
           work == [Idle(t) EXCEPT !.pc = "looping", !.left = left,
                                   !.maxLength = length]
<1>1. /\ work.pc = "looping"
      /\ work.reply = << >> /\ work.newChain = << >> /\ work.chain = << >>
  BY DEF Idle
<1>2. Enters(t, "resolve", work)
  BY DEF ResolveStarts
<1> HIDE DEF work
<1>3. /\ thread[t].pc = "idle" /\ UNCHANGED << Chain, currentTransactions, posted >>
      /\ "looping" \notin Mining
  BY <1>2 DEF ResolveStarts, Enters, Mining
<1> QED
  BY <1>1, <1>2, <1>3, ReadsOnce

LEMMA RegisterFromHolds ==
  ASSUME NEW t \in Thread, NEW place
  PROVE  LET work == RegisterFrom(t, place)
         IN  /\ work.pc \in {"idle", "registering"} /\ work.pc \notin Mining
             /\ work.reply = << >> /\ work.newChain = << >> /\ work.chain = << >>
<1> DEFINE next == [Idle(t) EXCEPT !.pc = "registering", !.place = place]
<1>1. /\ next.pc = "registering" /\ next.pc \notin Mining
      /\ next.reply = << >> /\ next.newChain = << >> /\ next.chain = << >>
  BY DEF Idle, Mining
<1>2. RegisterFrom(t, place) \in {next, Idle(t)}
  BY DEF RegisterFrom
<1> HIDE DEF next
<1> QED
  BY <1>1, <1>2, IdleHolds

LEMMA RegisterStartsOnce ==
  ASSUME FSharpInvariant, OnceInvariant, NEW t \in Thread, RegisterStarts(t)
  PROVE  OnceInvariant'
<1> DEFINE work == RegisterFrom(t, 1)
<1>1. /\ work.pc \in {"idle", "registering"} /\ work.pc \notin Mining
      /\ work.reply = << >> /\ work.newChain = << >> /\ work.chain = << >>
  BY RegisterFromHolds
<1>2. Enters(t, "register", work)
  BY DEF RegisterStarts
<1> HIDE DEF work
<1>3. thread[t].pc = "idle" /\ UNCHANGED << Chain, currentTransactions, posted >>
  BY <1>2 DEF RegisterStarts, Enters
<1> QED
  BY <1>1, <1>2, <1>3, ReadsOnce

LEMMA RegisterStoresOnce ==
  ASSUME FSharpInvariant, OnceInvariant, NEW t \in Thread, RegisterStores(t)
  PROVE  OnceInvariant'
<1> DEFINE place == thread[t].place
           work == RegisterFrom(t, place + 1)
<1>1. /\ work.pc \in {"idle", "registering"} /\ work.pc \notin Mining
      /\ work.reply = << >> /\ work.newChain = << >> /\ work.chain = << >>
  BY RegisterFromHolds
<1>2. Moves(t, "joining", work)
  BY DEF RegisterStores
<1> HIDE DEF work
<1>3. thread[t].pc = "joining" /\ UNCHANGED << Chain, currentTransactions, posted >>
  BY <1>2 DEF RegisterStores, Moves
<1> QED
  BY <1>1, <1>2, <1>3, ReadsOnce

(* A handler that reads and goes on, with the chains it had. *)
LEMMA GoesOnOnce ==
  ASSUME FSharpInvariant, OnceInvariant, NEW t \in Thread, NEW from, NEW work,
         Moves(t, from, work),
         \/ work.pc \notin Mining
         \/ from \in Mining /\ work.tx = thread[t].tx,
         from \notin {"posting", "cleared", "appending"},
         work.pc \notin {"posting", "cleared", "appending"},
         {work.reply, work.newChain, work.chain} \subseteq Held \cup {<< >>},
         UNCHANGED << Chain, currentTransactions, posted >>
  PROVE  OnceInvariant'
<1>1. thread[t].pc = from
  BY DEF Moves
<1>2. work.pc \in Mining => work.tx = Reward(Home[t])
  BY <1>1 DEF OnceInvariant, RewardsOnly
<1> QED
  BY <1>1, <1>2, ReadsOnce

LEMMA MineFindsOnce ==
  ASSUME FSharpInvariant, OnceInvariant, NEW t \in Thread, MineFinds(t)
  PROVE  OnceInvariant'
<1> DEFINE list == currentTransactions[Home[t]]
<1>1. PICK proof \in 0 .. MaxProof :
        Moves(t, "searching", [thread[t] EXCEPT
             !.pc = "found", !.block.proof = proof, !.list = list])
  BY DEF MineFinds
<1> DEFINE work == [thread[t] EXCEPT !.pc = "found", !.block.proof = proof,
                                     !.list = list]
<1>2. /\ work.pc = "found" /\ work.tx = thread[t].tx /\ work.reply = thread[t].reply
      /\ work.newChain = thread[t].newChain /\ work.chain = thread[t].chain
  BY Start DEF Work
<1>3. Moves(t, "searching", work)
  BY <1>1
<1> HIDE DEF work
<1>4. UNCHANGED << Chain, currentTransactions, posted >>
  BY DEF MineFinds
<1>5. "searching" \in Mining
  BY DEF Mining
<1> QED
  BY <1>2, <1>3, <1>4, <1>5, Start, HeldBy, GoesOnOnce

LEMMA MineTakesOnce ==
  ASSUME FSharpInvariant, OnceInvariant, NEW t \in Thread, MineTakes(t)
  PROVE  OnceInvariant'
<1> DEFINE list == currentTransactions[Home[t]]
           length == Len(Chain[Home[t]])
           digest == hash(thread[t].last)
           work == [thread[t] EXCEPT
                      !.pc = "taken",
                      !.last = NoBlock,
                      !.block.index = length + 1,
                      !.block.timestamp = clock,
                      !.block.transactions = list,
                      !.block.previous_hash = digest]
<1>1. Moves(t, "rewarded", work)
  BY DEF MineTakes
<1> HIDE DEF list, length, digest
<1>2. /\ work.pc = "taken" /\ work.tx = thread[t].tx /\ work.reply = thread[t].reply
      /\ work.newChain = thread[t].newChain /\ work.chain = thread[t].chain
  BY Start DEF Work
<1> HIDE DEF work
<1>3. UNCHANGED << Chain, currentTransactions, posted >>
  BY DEF MineTakes
<1>4. "rewarded" \in Mining
  BY DEF Mining
<1> QED
  BY <1>1, <1>2, <1>3, <1>4, Start, HeldBy, GoesOnOnce

LEMMA RegisterReadsOnce ==
  ASSUME FSharpInvariant, OnceInvariant, NEW t \in Thread, RegisterReads(t)
  PROVE  OnceInvariant'
<1> DEFINE known == Nodes[Home[t]]
           work == [thread[t] EXCEPT !.pc = "joining", !.known = known]
<1>1. /\ work.pc = "joining" /\ work.reply = thread[t].reply
      /\ work.newChain = thread[t].newChain /\ work.chain = thread[t].chain
  BY Start DEF Work
<1>2. Moves(t, "registering", work)
  BY DEF RegisterReads
<1> HIDE DEF work
<1>3. UNCHANGED << Chain, currentTransactions, posted >> /\ "joining" \notin Mining
  BY DEF RegisterReads, Mining
<1> QED
  BY <1>1, <1>2, <1>3, Start, HeldBy, GoesOnOnce

LEMMA ResolveAsksOnce ==
  ASSUME FSharpInvariant, OnceInvariant, NEW t \in Thread, ResolveAsks(t)
  PROVE  OnceInvariant'
<1>1. PICK peer \in thread[t].left :
        Moves(t, "looping", [thread[t] EXCEPT !.pc = "asking", !.peer = peer,
                                              !.left = @ \ {peer}])
  BY DEF ResolveAsks
<1> DEFINE work == [thread[t] EXCEPT !.pc = "asking", !.peer = peer,
                                     !.left = @ \ {peer}]
<1>2. /\ work.pc = "asking" /\ work.reply = thread[t].reply
      /\ work.newChain = thread[t].newChain /\ work.chain = thread[t].chain
  BY Start DEF Work
<1>3. Moves(t, "looping", work)
  BY <1>1
<1> HIDE DEF work
<1>4. UNCHANGED << Chain, currentTransactions, posted >> /\ "asking" \notin Mining
  BY DEF ResolveAsks, Mining
<1> QED
  BY <1>2, <1>3, <1>4, Start, HeldBy, GoesOnOnce

LEMMA FullChainOnce ==
  ASSUME FSharpInvariant, OnceInvariant, NEW t \in Thread, FullChain(t)
  PROVE  OnceInvariant'
<1> DEFINE reply == Chain[thread[t].peer]
           work == [thread[t] EXCEPT !.pc = "serving", !.reply = reply]
<1>1. Moves(t, "asking", work) /\ reply \in Held
  BY Start, HeldBy DEF FullChain
<1>2. /\ work.pc = "serving" /\ work.reply = reply
      /\ work.newChain = thread[t].newChain /\ work.chain = thread[t].chain
  BY Start DEF Work
<1> HIDE DEF work, reply
<1>3. UNCHANGED << Chain, currentTransactions, posted >> /\ "serving" \notin Mining
  BY DEF FullChain, Mining
<1> QED
  BY <1>1, <1>2, <1>3, Start, HeldBy, GoesOnOnce

LEMMA FullChainLengthOnce ==
  ASSUME FSharpInvariant, OnceInvariant, NEW t \in Thread, FullChainLength(t)
  PROVE  OnceInvariant'
<1> DEFINE length == Len(Chain[thread[t].peer])
           work == [thread[t] EXCEPT !.pc = "answered", !.length = length]
<1>1. Moves(t, "serving", work)
  BY DEF FullChainLength
<1>2. /\ work.pc = "answered" /\ work.reply = thread[t].reply
      /\ work.newChain = thread[t].newChain /\ work.chain = thread[t].chain
  BY Start DEF Work
<1> HIDE DEF work
<1>3. UNCHANGED << Chain, currentTransactions, posted >> /\ "answered" \notin Mining
  BY DEF FullChainLength, Mining
<1> QED
  BY <1>1, <1>2, <1>3, Start, HeldBy, GoesOnOnce

LEMMA ResumeResolveOnce ==
  ASSUME FSharpInvariant, OnceInvariant, NEW t \in Thread, ResumeResolve(t)
  PROVE  OnceInvariant'
<1> DEFINE next == [thread[t] EXCEPT !.pc = "looping", !.reply = << >>, !.length = 0]
           better == [next EXCEPT !.maxLength = thread[t].length,
                                  !.newChain = thread[t].reply]
           work == IF Better(thread[t]) THEN better ELSE next
<1>1. Moves(t, "answered", work)
  BY DEF ResumeResolve
<1>2. /\ next.pc = "looping" /\ next.reply = << >>
      /\ next.newChain = thread[t].newChain /\ next.chain = thread[t].chain
  BY Start DEF Work
<1>3. /\ better.pc = "looping" /\ better.reply = << >>
      /\ better.newChain = thread[t].reply /\ better.chain = thread[t].chain
  BY Start DEF Work
<1>4. work \in {next, better}
  OBVIOUS
<1> HIDE DEF next, better, work
<1>5. UNCHANGED << Chain, currentTransactions, posted >> /\ "looping" \notin Mining
  BY DEF ResumeResolve, Mining
<1>6. work.pc = "looping" /\ {work.reply, work.newChain, work.chain} \subseteq Held \cup {<< >>}
  BY <1>2, <1>3, <1>4, Start, HeldBy
<1> QED
  BY <1>1, <1>5, <1>6, GoesOnOnce

LEMMA RequestThrowsOnce ==
  ASSUME FSharpInvariant, OnceInvariant, NEW t \in Thread, RequestThrows(t)
  PROVE  OnceInvariant'
<1>1. PICK pc \in {"asking", "serving", "answered"} : Moves(t, pc, Idle(t))
  BY DEF RequestThrows
<1>2. UNCHANGED << Chain, currentTransactions, posted >>
  BY DEF RequestThrows
<1> QED
  BY <1>1, <1>2, IdleHolds, GoesOnOnce

LEMMA ResolveEndsOnce ==
  ASSUME FSharpInvariant, OnceInvariant, NEW t \in Thread, ResolveEnds(t)
  PROVE  OnceInvariant'
<1> DEFINE n == Home[t]
           new == thread[t].newChain
<1>1. Moves(t, "looping", Idle(t)) /\ thread[t].pc = "looping"
  BY DEF ResolveEnds, Moves
<1>2. /\ Chain \in [Node -> Seq(Block)] /\ n \in Node
      /\ new \in Held /\ Chain[n] \in Held
  BY Start, HeldBy DEF TypeOK
<1>3. Chain' = IF new = << >> THEN Chain ELSE [Chain EXCEPT ![n] = new]
  BY DEF ResolveEnds
<1> HIDE DEF new
<1>4. /\ Chain'[n] \in Held
      /\ \A m \in Node \ {n} : Chain'[m] = Chain[m]
  BY <1>2, <1>3
<1>5. UNCHANGED << currentTransactions, posted >>
  BY DEF ResolveEnds
<1> QED
  BY <1>1, <1>4, <1>5, IdleHolds, QuietOnce

LEMMA MineReadsChainOnce ==
  ASSUME FSharpInvariant, OnceInvariant, NEW t \in Thread, MineReadsChain(t)
  PROVE  OnceInvariant'
<1> DEFINE ch == Chain[Home[t]]
           work == [thread[t] EXCEPT !.pc = "appending", !.chain = ch]
<1>1. Moves(t, "cleared", work) /\ thread[t].pc = "cleared" /\ ch \in Held
  BY Start, HeldBy DEF MineReadsChain, Moves
<1>2. /\ work.pc = "appending" /\ work.tx = thread[t].tx
      /\ work.block = thread[t].block /\ work.chain = ch
      /\ work.reply = thread[t].reply /\ work.newChain = thread[t].newChain
  BY Start DEF Work
<1> HIDE DEF work, ch
<1>3. UNCHANGED << Chain, currentTransactions, posted >>
  BY DEF MineReadsChain
<1>4. work.tx = Reward(Home[t])
  BY <1>1, <1>2 DEF OnceInvariant, RewardsOnly, Mining
<1>5. {work.reply, work.newChain, work.chain} \subseteq Held \cup {<< >>}
  BY <1>1, <1>2, Start, HeldBy
<1> QED
  BY <1>1, <1>2, <1>3, <1>4, <1>5, ReadsOnce

(* A step that moves a transaction, if it keeps each of them once. *)
LEMMA MovedOnce ==
  ASSUME FSharpInvariant, OnceInvariant, NEW t \in Thread, NEW work,
         \/ \E request : Enters(t, request, work)
         \/ \E from : Moves(t, from, work),
         work.pc \in Mining => work.tx = Reward(Home[t]),
         \A tx \in UserTransaction \ Minted :
           /\ AllAlone
           /\ HeldOnce(tx)
           /\ tx \notin posted => HeldNowhere(tx)
           => HeldOnce(tx)' /\ (tx \notin posted' => HeldNowhere(tx)')
  PROVE  OnceInvariant'
<1>1. TypeOK /\ thread' = [thread EXCEPT ![t] = work] /\ (AllAlone' => AllAlone)
  BY Start, Steps
<1>2. RewardsOnly'
  BY <1>1, RewardsStay DEF OnceInvariant
<1> QED
  BY <1>1, <1>2 DEF OnceInvariant

(* A client posts a transaction that was nowhere. *)
LEMMA PostStartsOnce ==
  ASSUME FSharpInvariant, OnceInvariant, NEW t \in Thread, NEW new \in UserTransaction,
         PostStarts(t, new)
  PROVE  OnceInvariant'
<1> DEFINE list == currentTransactions[Home[t]]
           work == [Idle(t) EXCEPT !.pc = "posting", !.tx = new, !.list = list]
<1>1. /\ work.pc = "posting" /\ work.tx = new
      /\ work.reply = << >> /\ work.newChain = << >> /\ work.chain = << >>
  BY DEF Idle
<1>2. Enters(t, "post", work)
  BY DEF PostStarts
<1> HIDE DEF work
<1>3. /\ thread[t].pc = "idle" /\ thread' = [thread EXCEPT ![t] = work]
      /\ UNCHANGED << Chain, currentTransactions >>
      /\ new \notin posted /\ posted' = posted \cup {new}
      /\ TypeOK /\ "posting" \notin Mining
  BY <1>2, Start DEF PostStarts, Enters, Mining
<1>4. ASSUME NEW tx \in UserTransaction \ Minted, HeldOnce(tx),
             tx \notin posted => HeldNowhere(tx)
      PROVE  HeldOnce(tx)' /\ (tx \notin posted' => HeldNowhere(tx)')
  <2>1. /\ thread'[t] = work
        /\ \A u \in Thread \ {t} : Carries(u, tx)' = Carries(u, tx)
    BY <1>3, OtherHands
  <2>2. Carries(t, tx) = {}
    BY <1>3, EmptyPlaces DEF Carries, InHand
  <2>3. Carries(t, tx)' = PlacesIn(<< new >>, tx)
    BY <1>1, <2>1 DEF Carries, InHand
  <2>4. \A c \in Held' : c \in Held \/ PlacesInChain(c, tx) = {}
    <3>1. \A c \in Held' :
            c \in Held \cup {Chain'[Home[t]], work.reply, work.newChain, work.chain}
      BY <1>3, LaterHeld
    <3>2. Chain'[Home[t]] \in Held
      BY <1>3, Start, HeldBy
    <3> QED
      BY <1>1, <3>1, <3>2, EmptyPlaces
  <2>5. \A n \in Node : Lists(n, tx)' = Lists(n, tx)
    BY <1>3 DEF Lists
  <2>6. CASE tx # new
    <3>1. PlacesIn(<< new >>, tx) = {}
      BY <2>6 DEF PlacesIn
    <3>2. \A u \in Thread : Carries(u, tx)' = Carries(u, tx)
      BY <2>1, <2>2, <2>3, <3>1
    <3> QED
      BY <1>3, <1>4, <2>4, <2>5, <3>2, PassedOn
  <2>7. CASE tx = new
    <3>1. AtMostOne(PlacesIn(<< new >>, tx))
      BY DEF PlacesIn, AtMostOne
    <3>2. HeldNowhere(tx)
      BY <1>3, <1>4, <2>7
    <3>3. InNoChain(tx)'
      BY <2>4, <3>2 DEF InNoChain, HeldNowhere
    <3>4. \A u \in Thread \ {t} : Carries(u, tx)' = {}
      BY <2>1, <3>2 DEF HeldNowhere
    <3>5. \A n \in Node : Lists(n, tx)' = {}
      BY <2>5, <3>2 DEF HeldNowhere
    <3>6. \A c \in Held' : AtMostOne(PlacesInChain(c, tx))
      BY <3>3 DEF InNoChain, AtMostOne
    <3>7. \A n \in Node : AtMostOne(Lists(n, tx)')
      BY <3>5 DEF AtMostOne
    <3>8. \A u \in Thread : AtMostOne(Carries(u, tx)')
      BY <2>3, <3>1, <3>4 DEF AtMostOne
    <3>9. HeldOnce(tx)'
      BY <3>3, <3>4, <3>5, <3>6, <3>7, <3>8 DEF HeldOnce
    <3> QED
      BY <1>3, <2>7, <3>9
  <2> QED
    BY <2>6, <2>7
<1> QED
  BY <1>1, <1>2, <1>3, <1>4, MovedOnce

(* A list is stored that is longer by one transaction. *)
StoresLonger(t) ==
  currentTransactions' = [currentTransactions EXCEPT ![Home[t]] = Longer(t)]

LEMMA LongerLists ==
  ASSUME FSharpInvariant, AllAlone, NEW t \in Thread, NEW tx,
         thread[t].pc \in {"posting", "found"},
         StoresLonger(t)
  PROVE  /\ \A n \in Node \ {Home[t]} : Lists(n, tx)' = Lists(n, tx)
         /\ thread[t].tx # tx => Lists(Home[t], tx)' = Lists(Home[t], tx)
         /\ Lists(Home[t], tx) = {} => AtMostOne(Lists(Home[t], tx)')
<1> DEFINE n == Home[t]
           list == currentTransactions[n]
           new == thread[t].tx
<1>1. /\ currentTransactions \in [Node -> Seq(Transaction)] /\ n \in Node
      /\ list \in Seq(Transaction) /\ new \in Transaction
  BY Typed, Start DEF TypeOK
<1>2. thread[t].list = list
  BY <1>1, Start DEF HandlerInOrder, ListInOrder, AllAlone
<1>3. /\ currentTransactions'[n] = Append(list, new)
      /\ \A m \in Node \ {n} : currentTransactions'[m] = currentTransactions[m]
  BY <1>1, <1>2 DEF StoresLonger, Longer
<1>4. \A m \in Node \ {n} : Lists(m, tx)' = Lists(m, tx)
  BY <1>3 DEF Lists
<1>5. ASSUME new # tx PROVE Lists(n, tx)' = Lists(n, tx)
  <2>1. PlacesIn(Append(list, new), tx) = PlacesIn(list, tx)
    BY <1>1, <1>5, OtherAppended
  <2> QED
    BY <1>3, <2>1 DEF Lists
<1>6. ASSUME Lists(n, tx) = {} PROVE AtMostOne(Lists(n, tx)')
  <2> DEFINE last == IF new = tx THEN {Len(list) + 1} ELSE {}
  <2>1. PlacesIn(Append(list, new), tx) = PlacesIn(list, tx) \cup last
    BY <1>1, PlacesAppended
  <2>2. AtMostOne(last)
    BY DEF AtMostOne
  <2> HIDE DEF last
  <2>3. Lists(n, tx)' = last
    BY <1>3, <1>6, <2>1 DEF Lists
  <2> QED
    BY <2>2, <2>3
<1> QED
  BY <1>4, <1>5, <1>6

(* A transaction goes from the hand of a post into the list. *)
LEMMA PostStoresOnce ==
  ASSUME FSharpInvariant, OnceInvariant, NEW t \in Thread, PostStores(t)
  PROVE  OnceInvariant'
<1>1. /\ Moves(t, "posting", Idle(t)) /\ thread[t].pc = "posting"
      /\ thread' = [thread EXCEPT ![t] = Idle(t)]
      /\ StoresLonger(t)
      /\ UNCHANGED << Chain, posted >>
      /\ TypeOK /\ Home[t] \in Node
  BY Start DEF PostStores, Moves, StoresLonger
<1>2. ASSUME NEW tx \in UserTransaction \ Minted, AllAlone, HeldOnce(tx),
             tx \notin posted => HeldNowhere(tx)
      PROVE  HeldOnce(tx)' /\ (tx \notin posted' => HeldNowhere(tx)')
  <2>1. /\ thread'[t] = Idle(t)
        /\ \A u \in Thread \ {t} : Carries(u, tx)' = Carries(u, tx)
    BY <1>1, OtherHands
  <2>2. Carries(t, tx) = PlacesIn(<< thread[t].tx >>, tx) /\ Carries(t, tx)' = {}
    BY <1>1, <2>1, IdleHolds, EmptyPlaces DEF Carries, InHand
  <2>3. \A c \in Held' : c \in Held \/ PlacesInChain(c, tx) = {}
    <3>1. \A c \in Held' : c \in Held \cup {Chain'[Home[t]], Idle(t).reply,
                                            Idle(t).newChain, Idle(t).chain}
      BY <1>1, LaterHeld
    <3>2. Chain'[Home[t]] \in Held
      BY <1>1, HeldBy
    <3> QED
      BY <3>1, <3>2, EmptyPlaces, IdleHolds
  <2>4. /\ \A n \in Node \ {Home[t]} : Lists(n, tx)' = Lists(n, tx)
        /\ thread[t].tx # tx => Lists(Home[t], tx)' = Lists(Home[t], tx)
        /\ Lists(Home[t], tx) = {} => AtMostOne(Lists(Home[t], tx)')
    BY <1>1, <1>2, LongerLists
  <2>5. CASE thread[t].tx # tx
    <3>1. PlacesIn(<< thread[t].tx >>, tx) = {}
      BY <2>5 DEF PlacesIn
    <3>2. \A u \in Thread : Carries(u, tx)' = Carries(u, tx)
      BY <2>1, <2>2, <3>1
    <3>3. \A n \in Node : Lists(n, tx)' = Lists(n, tx)
      BY <2>4, <2>5
    <3> QED
      BY <1>1, <1>2, <2>3, <3>2, <3>3, PassedOn
  <2>6. CASE thread[t].tx = tx
    <3>1. 1 \in PlacesIn(<< thread[t].tx >>, tx)
      BY <2>6 DEF PlacesIn
    <3>2. Carries(t, tx) # {}
      BY <2>2, <3>1
    <3>3. /\ InNoChain(tx)
          /\ \A u \in Thread \ {t} : Carries(u, tx) = {}
          /\ \A n \in Node : Lists(n, tx) = {}
      BY <1>2, <3>2 DEF HeldOnce
    <3>4. InNoChain(tx)'
      BY <2>3, <3>3 DEF InNoChain
    <3>5. \A u \in Thread : Carries(u, tx)' = {}
      BY <2>1, <2>2, <3>3
    <3>6. /\ \A n \in Node \ {Home[t]} : Lists(n, tx)' = {}
          /\ AtMostOne(Lists(Home[t], tx)')
      BY <1>1, <2>4, <3>3
    <3>7. \A n \in Node : AtMostOne(Lists(n, tx)')
      BY <3>6 DEF AtMostOne
    <3>8. \A u \in Thread : AtMostOne(Carries(u, tx)')
      BY <3>5 DEF AtMostOne
    <3>9. \A c \in Held' : AtMostOne(PlacesInChain(c, tx))
      BY <3>4 DEF InNoChain, AtMostOne
    <3>10. HeldOnce(tx)'
      BY <3>4, <3>5, <3>6, <3>7, <3>8, <3>9 DEF HeldOnce
    <3>11. tx \in posted'
      BY <1>1, <1>2, <3>2 DEF HeldNowhere
    <3> QED
      BY <3>10, <3>11
  <2> QED
    BY <2>5, <2>6
<1> QED
  BY <1>1, <1>2, IdleHolds, MovedOnce

(* The reward is in the list, which is of no client's posting. *)
LEMMA MineRewardsOnce ==
  ASSUME FSharpInvariant, OnceInvariant, NEW t \in Thread, MineRewards(t)
  PROVE  OnceInvariant'
<1> DEFINE work == [thread[t] EXCEPT !.pc = "rewarded", !.list = << >>]
<1>1. /\ work.pc = "rewarded" /\ work.tx = thread[t].tx /\ work.reply = thread[t].reply
      /\ work.newChain = thread[t].newChain /\ work.chain = thread[t].chain
  BY Start DEF Work
<1>2. Moves(t, "found", work)
  BY DEF MineRewards
<1> HIDE DEF work
<1>3. /\ thread[t].pc = "found" /\ thread' = [thread EXCEPT ![t] = work]
      /\ StoresLonger(t)
      /\ UNCHANGED << Chain, posted >>
      /\ TypeOK /\ Home[t] \in Node
  BY <1>2, Start DEF MineRewards, Moves, StoresLonger
<1>4. thread[t].tx = Reward(Home[t]) /\ thread[t].tx \in Minted
  BY <1>3 DEF OnceInvariant, RewardsOnly, Mining, Minted
<1>5. ASSUME NEW tx \in UserTransaction \ Minted, AllAlone, HeldOnce(tx),
             tx \notin posted => HeldNowhere(tx)
      PROVE  HeldOnce(tx)' /\ (tx \notin posted' => HeldNowhere(tx)')
  <2>1. /\ thread'[t] = work
        /\ \A u \in Thread \ {t} : Carries(u, tx)' = Carries(u, tx)
    BY <1>3, OtherHands
  <2>2. Carries(t, tx)' = Carries(t, tx)
    BY <1>1, <1>3, <2>1 DEF Carries, InHand
  <2>3. \A c \in Held' : c \in Held
    <3>1. \A c \in Held' :
            c \in Held \cup {Chain'[Home[t]], work.reply, work.newChain, work.chain}
      BY <1>3, LaterHeld
    <3> QED
      BY <1>1, <1>3, <3>1, HeldBy
  <2>4. \A n \in Node : Lists(n, tx)' = Lists(n, tx)
    BY <1>3, <1>4, <1>5, LongerLists
  <2>5. \A u \in Thread : Carries(u, tx)' = Carries(u, tx)
    BY <2>1, <2>2
  <2> QED
    BY <1>3, <1>5, <2>3, <2>4, <2>5, PassedOn
<1> QED
  BY <1>1, <1>2, <1>4, <1>5, MovedOnce

(* All that waits goes from the list into the hand of the mine. *)
LEMMA MineClearsOnce ==
  ASSUME FSharpInvariant, OnceInvariant, NEW t \in Thread, MineClears(t)
  PROVE  OnceInvariant'
<1> DEFINE work == [thread[t] EXCEPT !.pc = "cleared"]
           n == Home[t]
<1>1. /\ work.pc = "cleared" /\ work.tx = thread[t].tx /\ work.reply = thread[t].reply
      /\ work.newChain = thread[t].newChain /\ work.chain = thread[t].chain
      /\ work.block = thread[t].block
  BY Start DEF Work
<1>2. Moves(t, "taken", work)
  BY DEF MineClears
<1> HIDE DEF work
<1>3. /\ thread[t].pc = "taken" /\ thread' = [thread EXCEPT ![t] = work]
      /\ currentTransactions' = [currentTransactions EXCEPT ![n] = << >>]
      /\ UNCHANGED << Chain, posted >>
      /\ TypeOK /\ n \in Node
      /\ currentTransactions \in [Node -> Seq(Transaction)]
  BY <1>2, Start DEF MineClears, Moves, TypeOK
<1>4. thread[t].tx = Reward(n)
  BY <1>3 DEF OnceInvariant, RewardsOnly, Mining
<1>5. ASSUME NEW tx \in UserTransaction \ Minted, AllAlone, HeldOnce(tx),
             tx \notin posted => HeldNowhere(tx)
      PROVE  HeldOnce(tx)' /\ (tx \notin posted' => HeldNowhere(tx)')
  <2>1. /\ thread'[t] = work
        /\ \A u \in Thread \ {t} : Carries(u, tx)' = Carries(u, tx)
    BY <1>3, OtherHands
  <2>2. thread[t].block.transactions = currentTransactions[n]
    BY <1>3, <1>5, Start DEF HandlerInOrder, ListInOrder, AllAlone
  <2>3. Carries(t, tx) = {} /\ Carries(t, tx)' = Lists(n, tx)
    BY <1>1, <1>3, <2>1, <2>2, EmptyPlaces DEF Carries, InHand, Lists
  <2>4. /\ Lists(n, tx)' = {}
        /\ \A m \in Node \ {n} : Lists(m, tx)' = Lists(m, tx)
    BY <1>3, EmptyPlaces DEF Lists
  <2>5. \A c \in Held' : c \in Held
    <3>1. \A c \in Held' :
            c \in Held \cup {Chain'[Home[t]], work.reply, work.newChain, work.chain}
      BY <1>3, LaterHeld
    <3> QED
      BY <1>1, <1>3, <3>1, HeldBy
  <2>6. InNoChain(tx) => InNoChain(tx)'
    BY <2>5 DEF InNoChain
  <2>7. \A c \in Held' : AtMostOne(PlacesInChain(c, tx))
    BY <1>5, <2>5 DEF HeldOnce
  <2>8. HeldNowhere(tx) => HeldNowhere(tx)'
    BY <1>3, <2>1, <2>3, <2>4, <2>6 DEF HeldNowhere
  <2>9. CASE Lists(n, tx) = {}
    <3>1. \A m \in Node : Lists(m, tx)' = Lists(m, tx)
      BY <2>4, <2>9
    <3>2. \A u \in Thread : Carries(u, tx)' = Carries(u, tx)
      BY <2>1, <2>3, <2>9
    <3> QED
      BY <1>3, <1>5, <2>5, <3>1, <3>2, PassedOn
  <2>10. CASE Lists(n, tx) # {}
    <3>1. /\ InNoChain(tx)
          /\ \A u \in Thread : Carries(u, tx) = {}
          /\ \A m \in Node : Lists(m, tx) # {} => m = n
          /\ AtMostOne(Lists(n, tx))
      BY <1>3, <1>5, <2>10 DEF HeldOnce
    <3>2. \A m \in Node : Lists(m, tx)' = {}
      BY <2>4, <3>1
    <3>3. \A u \in Thread \ {t} : Carries(u, tx)' = {}
      BY <2>1, <3>1
    <3>4. \A m \in Node : AtMostOne(Lists(m, tx)')
      BY <3>2 DEF AtMostOne
    <3>5. \A u \in Thread : AtMostOne(Carries(u, tx)')
      BY <2>3, <3>1, <3>3 DEF AtMostOne
    <3>6. HeldOnce(tx)'
      BY <2>6, <2>7, <3>1, <3>2, <3>3, <3>4, <3>5 DEF HeldOnce
    <3> QED
      BY <1>3, <1>5, <2>8, <3>6
  <2> QED
    BY <2>9, <2>10
<1> QED
  BY <1>1, <1>2, <1>4, <1>5, MovedOnce

(* The block goes from the hand of the mine to the end of a chain. *)
LEMMA MineAppendsOnce ==
  ASSUME FSharpInvariant, OnceInvariant, NEW t \in Thread, MineAppends(t)
  PROVE  OnceInvariant'
<1> DEFINE n == Home[t]
           old == thread[t].chain
           block == thread[t].block
           new == Append(old, block)
<1>1. /\ Moves(t, "appending", Idle(t)) /\ thread[t].pc = "appending"
      /\ thread' = [thread EXCEPT ![t] = Idle(t)]
      /\ Chain' = [Chain EXCEPT ![n] = new]
      /\ UNCHANGED << currentTransactions, posted >>
      /\ TypeOK /\ n \in Node /\ Chain \in [Node -> Seq(Block)]
      /\ old \in Seq(Block) /\ block \in Block /\ old \in Held
  BY Typed, Start, HeldBy DEF MineAppends, Moves, TypeOK
<1> HIDE DEF new
<1>2. Chain'[n] = new /\ \A m \in Node \ {n} : Chain'[m] = Chain[m]
  BY <1>1
<1>3. ASSUME NEW tx \in UserTransaction \ Minted, AllAlone, HeldOnce(tx),
             tx \notin posted => HeldNowhere(tx)
      PROVE  HeldOnce(tx)' /\ (tx \notin posted' => HeldNowhere(tx)')
  <2> DEFINE places == PlacesIn(block.transactions, tx)
  <2>1. /\ thread'[t] = Idle(t)
        /\ \A u \in Thread \ {t} : Carries(u, tx)' = Carries(u, tx)
    BY <1>1, OtherHands
  <2>2. Carries(t, tx) = places /\ Carries(t, tx)' = {}
    BY <1>1, <2>1, IdleHolds, EmptyPlaces DEF Carries, InHand
  <2>3. PlacesInChain(new, tx) = PlacesInChain(old, tx) \cup ({Len(old) + 1} \X places)
    BY <1>1, PlacesInLonger DEF new
  <2> HIDE DEF places
  <2>4. \A c \in Held' : c \in Held \cup {new, << >>}
    <3>1. \A c \in Held' : c \in Held \cup {Chain'[n], Idle(t).reply,
                                            Idle(t).newChain, Idle(t).chain}
      BY <1>1, <1>2, LaterHeld
    <3> QED
      BY <1>2, <3>1, IdleHolds
  <2>5. \A m \in Node : Lists(m, tx)' = Lists(m, tx)
    BY <1>1 DEF Lists
  <2>6. CASE places = {}
    <3>1. PlacesInChain(new, tx) = PlacesInChain(old, tx)
      BY <2>3, <2>6
    <3>2. \A u \in Thread : Carries(u, tx)' = Carries(u, tx)
      BY <2>1, <2>2, <2>6
    <3>3. InNoChain(tx) => InNoChain(tx)'
      BY <1>1, <2>4, <3>1, EmptyPlaces DEF InNoChain
    <3>4. \A c \in Held' : AtMostOne(PlacesInChain(c, tx))
      BY <1>1, <1>3, <2>4, <3>1, EmptyPlaces DEF HeldOnce, AtMostOne
    <3>5. HeldOnce(tx)'
      BY <1>3, <2>5, <3>2, <3>3, <3>4 DEF HeldOnce
    <3>6. HeldNowhere(tx) => HeldNowhere(tx)'
      BY <2>5, <3>2, <3>3 DEF HeldNowhere
    <3> QED
      BY <1>1, <1>3, <3>5, <3>6
  <2>7. CASE places # {}
    <3>1. /\ InNoChain(tx) /\ AtMostOne(places)
          /\ \A u \in Thread \ {t} : Carries(u, tx) = {}
          /\ \A m \in Node : Lists(m, tx) = {}
      BY <1>3, <2>2, <2>7 DEF HeldOnce
    <3>2. PlacesInChain(new, tx) = {Len(old) + 1} \X places
      BY <1>1, <2>3, <3>1 DEF InNoChain
    <3>3. AtMostOne(PlacesInChain(new, tx))
      BY <3>1, <3>2 DEF AtMostOne
    <3>4. \A c \in Held' : AtMostOne(PlacesInChain(c, tx))
      BY <1>3, <2>4, <3>3, EmptyPlaces DEF HeldOnce, AtMostOne
    <3>5. /\ \A u \in Thread : Carries(u, tx)' = {}
          /\ \A m \in Node : Lists(m, tx)' = {}
      BY <2>1, <2>2, <2>5, <3>1
    <3>6. HeldOnce(tx)'
      BY <3>4, <3>5 DEF HeldOnce, AtMostOne
    <3>7. tx \in posted'
      BY <1>1, <1>3, <2>2, <2>7 DEF HeldNowhere
    <3> QED
      BY <3>6, <3>7
  <2> QED
    BY <2>6, <2>7
<1> QED
  BY <1>1, <1>3, IdleHolds, MovedOnce

LEMMA StutterOnce ==
  ASSUME OnceInvariant, UNCHANGED vars
  PROVE  OnceInvariant'
<1>1. RewardsOnly' /\ (AllAlone' => AllAlone) /\ posted' = posted
  BY DEF OnceInvariant, RewardsOnly, AllAlone, Alone, vars
<1>2. ASSUME NEW tx
      PROVE  /\ HeldOnce(tx) => HeldOnce(tx)'
             /\ HeldNowhere(tx) => HeldNowhere(tx)'
  <2>1. \A u \in Thread : Carries(u, tx)' = Carries(u, tx)
    BY DEF Carries, InHand, vars
  <2>2. \A n \in Node : Lists(n, tx)' = Lists(n, tx)
    BY DEF Lists, vars
  <2>3. Held' = Held
    BY DEF Held, vars
  <2> QED
    BY <2>1, <2>2, <2>3, PassedOn
<1> QED
  BY <1>1, <1>2 DEF OnceInvariant

LEMMA NextOnce ==
  ASSUME FSharpInvariant, OnceInvariant, [Next]_vars
  PROVE  OnceInvariant'
<1>1. ASSUME NEW t \in Thread, Runs(t)
      PROVE  OnceInvariant'
  BY <1>1, PostStoresOnce, MineFindsOnce, MineRewardsOnce, MineTakesOnce,
     MineClearsOnce, MineReadsChainOnce, MineAppendsOnce, RegisterReadsOnce,
     RegisterStoresOnce, ResolveAsksOnce, ResumeResolveOnce, ResolveEndsOnce
     DEF Runs
<1>2. ASSUME Next
      PROVE  OnceInvariant'
  BY <1>1, <1>2, PostStartsOnce, MineStartsOnce, RegisterStartsOnce,
     ResolveStartsOnce, FullChainOnce, FullChainLengthOnce, RequestThrowsOnce
     DEF Next
<1> QED
  BY <1>2, StutterOnce

(* Where no posts and mines of a node overlap, no transaction gets twice   *)
(* into what a node believes, although chains are adopted, broken and      *)
(* overwritten: each is in one hand, in one list or in chains, never in    *)
(* two of these.                                                           *)
THEOREM NothingTwice == Spec => []EachTransactionOnce
<1>1. FSharpInvariant /\ OnceInvariant => EachTransactionOnce
  <2> SUFFICES ASSUME FSharpInvariant, OnceInvariant, AllAlone,
                      NEW n \in Node, NEW tx \in UserTransaction \ Minted
               PROVE  Cardinality(PlacesInChain(Chain[n], tx))
                        + Cardinality(PlacesIn(currentTransactions[n], tx)) <= 1
    BY DEF EachTransactionOnce, AllAlone
  <2>1. HeldOnce(tx) /\ Chain[n] \in Held
    BY DEF OnceInvariant, Held
  <2>2. /\ AtMostOne(PlacesInChain(Chain[n], tx))
        /\ AtMostOne(PlacesIn(currentTransactions[n], tx))
        /\ \/ PlacesIn(currentTransactions[n], tx) = {}
           \/ PlacesInChain(Chain[n], tx) = {}
    BY <2>1 DEF HeldOnce, InNoChain, Lists
  <2> QED
    BY <2>2, OnceCounted
<1>2. FSharpInvariant /\ OnceInvariant /\ [Next]_vars => OnceInvariant'
  BY NextOnce
<1> QED
  BY <1>1, <1>2, InitOnce, Invariance, PTL DEF Spec
=============================================================================
