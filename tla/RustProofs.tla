------------------------------ MODULE RustProofs ------------------------------
(***************************************************************************)
(* Theorems about the Rust node, for any nodes, any requests and any way   *)
(* timestamps change when they are read: what every step preserves, and    *)
(* that the node keeps the promise of Ledger, panics under the lock or not.*)
(***************************************************************************)
EXTENDS RustNode, BlockProofs

-----------------------------------------------------------------------------
(* Typing *)

LEMMA NobodyType == Nobody \in Holder
<1>1. << >> \in Seq(Block) /\ {} \in SUBSET Peer /\ "elsewhere" \in Peer
  BY DEF Peer
<1> QED
  BY <1>1 DEF Nobody, Holder

LEMMA HolderFields ==
  ASSUME TypeOK, NEW n \in Node
  PROVE  /\ holder[n].pc \in {"none", "reading", "asking", "answered"}
         /\ holder[n].left \in SUBSET Peer
         /\ holder[n].node \in Peer
         /\ holder[n].max_length \in Nat
         /\ holder[n].new_chain \in Seq(Block)
         /\ holder[n].response \in Seq(Block)
         /\ Len(holder[n].response) \in Nat
         /\ Len(holder[n].new_chain) \in Nat
         /\ chain[n] \in Seq(Block)
         /\ Len(chain[n]) \in Nat
<1>1. holder[n] \in Holder /\ chain[n] \in Seq(Block)
  BY DEF TypeOK
<1> QED
  BY <1>1 DEF Holder

LEMMA InitHolds == Init => LockInvariant
<1> SUFFICES ASSUME Init PROVE LockInvariant
  OBVIOUS
<1>1. chain \in [Node -> Seq(Block)] /\ \A n \in Node : Trustworthy(chain[n])
  BY GenesisSound, GenesisRooted, RustAssumption DEF Init, Trustworthy
<1>2. current_transactions \in [Node -> Seq(Transaction)]
  BY DEF Init
<1>3. holder \in [Node -> Holder]
  BY NobodyType DEF Init
<1>4. TypeOK
  BY <1>1, <1>2, <1>3, RustAssumption DEF Init, TypeOK
<1>5. \A n \in Node : /\ ~ Resolving(n) /\ ~ poisoned[n]
                      /\ holder[n].response = << >>
                      /\ holder[n].new_chain = << >>
  BY DEF Init, Resolving, Nobody
<1> QED
  BY <1>1, <1>4, <1>5 DEF LockInvariant

LEMMA InitNoneAhead == Init => NoneAhead
<1> SUFFICES ASSUME Init, NEW n \in Node
             PROVE  /\ AheadOfNoMiner(chain[n], chain)
                    /\ AheadOfNoMiner(holder[n].response, chain)
                    /\ AheadOfNoMiner(holder[n].new_chain, chain)
  BY DEF NoneAhead
<1>1. chain[n] = GenesisChain(BootTime[n]) /\ BootTime[n] \in Nat
  BY RustAssumption DEF Init
<1>2. holder[n].response = << >> /\ holder[n].new_chain = << >>
  BY DEF Init, Nobody
<1> QED
  BY <1>1, <1>2, GenesisNotAhead, EmptyNotAhead

(* What a node mines is typed and trustworthy, and one block longer. *)
LEMMA Mined ==
  ASSUME LockInvariant, NEW n \in Node, Mine(n)
  PROVE  \E new \in Seq(Block) :
           /\ chain' = [chain EXCEPT ![n] = new]
           /\ Len(new) = Len(chain[n]) + 1
           /\ new = Append(chain[n], last_block(new))
           /\ last_block(new).transactions =
                Append(current_transactions[n], Reward(n))
           /\ Trustworthy(new)
<1>1. PICK proof \in 0 .. MaxProof :
        /\ FoundByProofOfWork(last_block(chain[n]), proof)
        /\ chain' = [chain EXCEPT ![n] =
             new_block(chain[n], Append(current_transactions[n], Reward(n)),
                       proof, hash(last_block(chain[n])), clock)]
  BY DEF Mine
<1>2. /\ chain[n] \in Seq(Block) /\ Trustworthy(chain[n])
      /\ current_transactions[n] \in Seq(Transaction)
      /\ clock \in Nat /\ proof \in Nat
  BY <1>1, BlocksAssumption DEF LockInvariant, TypeOK
<1> DEFINE ch == chain[n]
           pool == current_transactions[n]
           new == new_block(ch, Append(pool, Reward(n)), proof,
                            hash(last_block(ch)), clock)
<1>3. FoundByProofOfWork(last_block(ch), proof)
  BY <1>1
<1> HIDE DEF ch, pool
<1>4. ch \in Seq(Block) /\ Trustworthy(ch) /\ pool \in Seq(Transaction)
  BY <1>2 DEF ch, pool
<1>5. /\ new \in Seq(Block)
      /\ Len(new) = Len(ch) + 1
      /\ new = Append(ch, last_block(new))
      /\ last_block(new).transactions = Append(pool, Reward(n))
      /\ Trustworthy(new)
  BY <1>2, <1>3, <1>4, MinedBlock
<1>6. chain' = [chain EXCEPT ![n] = new]
  BY <1>1 DEF ch, pool
<1> HIDE DEF new
<1> QED
  BY <1>5, <1>6 DEF ch, pool

-----------------------------------------------------------------------------
(* The inductive invariant *)

LEMMA MineHolds ==
  ASSUME LockInvariant, NEW n \in Node, Mine(n)
  PROVE  LockInvariant'
<1>1. PICK new \in Seq(Block) :
        /\ chain' = [chain EXCEPT ![n] = new]
        /\ Trustworthy(new)
  BY Mined
<1>2. TypeOK /\ ~ Resolving(n) /\ UNCHANGED << holder, nodes, poisoned, posted >>
  BY DEF Mine, Locks, Resolving, LockInvariant
<1>3. chain' \in [Node -> Seq(Block)]
  BY <1>1, <1>2 DEF TypeOK
<1>4. current_transactions' \in [Node -> Seq(Transaction)]
  <2>1. << >> \in Seq(Transaction)
    OBVIOUS
  <2> QED
    BY <1>2, <2>1 DEF TypeOK, Mine, TakeTransactions
<1>5. TypeOK'
  BY <1>2, <1>3, <1>4 DEF TypeOK, Mine
<1>6. ASSUME NEW m \in Node
      PROVE  /\ Trustworthy(chain'[m])
             /\ Resolving(m) => chain'[m] = chain[m]
             /\ Resolving(m)' = Resolving(m)
  BY <1>1, <1>2, <1>6 DEF LockInvariant, TypeOK, Resolving
<1>7. holder[n].new_chain = << >>
  BY <1>2 DEF LockInvariant
<1>8. \A m \in Node : m # n => chain'[m] = chain[m]
  BY <1>1, <1>2 DEF TypeOK
<1> QED
  BY <1>2, <1>5, <1>6, <1>7, <1>8 DEF LockInvariant

(* A step that only locks, or only unlocks, with or without a panic. *)
LEMMA LockHolds ==
  ASSUME LockInvariant, NEW n \in Node,
         \/ Unlock(n) /\ poisoned' \in {poisoned, [poisoned EXCEPT ![n] = TRUE]}
         \/ ReadsBody(n)
  PROVE  /\ holder' \in [Node -> Holder]
         /\ poisoned' \in [Node -> BOOLEAN]
         /\ \A m \in Node : /\ holder'[m].response # << >> =>
                                  Trustworthy(holder'[m].response)
                            /\ ~ Resolving(m)' => holder'[m].new_chain = << >>
                            /\ poisoned'[m] => holder'[m].pc = "none"
                            /\ m # n => /\ holder'[m] = holder[m]
                                        /\ poisoned'[m] = poisoned[m]
         /\ ~ Resolving(n)'
         /\ holder'[n].new_chain = << >>
<1>1. TypeOK /\ holder[n] \in Holder
  BY DEF LockInvariant, TypeOK
<1>2. CASE Unlock(n) /\ poisoned' \in {poisoned, [poisoned EXCEPT ![n] = TRUE]}
  <2>1. holder' \in [Node -> Holder] /\ poisoned' \in [Node -> BOOLEAN]
    BY <1>1, <1>2, NobodyType DEF TypeOK, Unlock
  <2>2. /\ holder'[n] = Nobody
        /\ \A m \in Node : m # n => /\ holder'[m] = holder[m]
                                   /\ poisoned'[m] = poisoned[m]
    BY <1>1, <1>2 DEF TypeOK, Unlock
  <2> QED
    BY <2>1, <2>2 DEF LockInvariant, Resolving, Nobody
<1>3. CASE ReadsBody(n)
  <2>1. /\ holder' = [holder EXCEPT ![n] = [holder[n] EXCEPT !.pc = "reading"]]
        /\ ~ Resolving(n) /\ ~ poisoned[n] /\ poisoned' = poisoned
    BY <1>1, <1>3 DEF ReadsBody, Locks, Resolving, TypeOK
  <2>2. holder' \in [Node -> Holder]
    BY <1>1, <2>1 DEF TypeOK, Holder
  <2>3. /\ holder'[n].pc = "reading"
        /\ holder'[n].new_chain = holder[n].new_chain
        /\ holder'[n].response = holder[n].response
        /\ \A m \in Node : m # n => holder'[m] = holder[m]
    BY <1>1, <2>1 DEF TypeOK, Holder
  <2> QED
    BY <1>1, <2>1, <2>2, <2>3 DEF LockInvariant, Resolving, TypeOK
<1> QED
  BY <1>2, <1>3

LEMMA PostHolds ==
  ASSUME LockInvariant, NEW n \in Node,
         \/ \E tx \in UserTransaction : NewTransaction(n, tx)
         \/ \E body \in RegisterRequest[n] : RegisterNodes(n, body)
         \/ BodyRefused(n)
         \/ BodyPanics(n)
         \/ ReadsBody(n)
         \/ RequestFails(n)
  PROVE  LockInvariant'
<1>1. TypeOK
  BY DEF LockInvariant
<1>2. current_transactions' \in [Node -> Seq(Transaction)]
  <2>1. ASSUME NEW tx \in UserTransaction, NewTransaction(n, tx)
        PROVE  current_transactions' \in [Node -> Seq(Transaction)]
    <3>3. current_transactions[n] \in Seq(Transaction) /\ tx \in Transaction
      BY <1>1 DEF TypeOK, Transaction, Minted
    <3>1. Append(current_transactions[n], tx) \in Seq(Transaction)
      BY <3>3
    <3>2. current_transactions' =
            [current_transactions EXCEPT ![n] = Append(current_transactions[n], tx)]
      BY <1>1, <2>1 DEF NewTransaction, TypeOK
    <3> QED
      BY <1>1, <3>1, <3>2 DEF TypeOK
  <2> QED
    BY <1>1, <2>1 DEF TypeOK, RegisterNodes, BodyRefused,
                      BodyPanics, ReadsBody, RequestFails, Panics
<1>3. nodes' \in [Node -> SUBSET Peer]
  <2>1. ASSUME NEW body \in RegisterRequest[n], RegisterNodes(n, body)
        PROVE  nodes' \in [Node -> SUBSET Peer]
    <3> DEFINE added == {body[i].host :
                           i \in {j \in 1 .. Len(body) : body[j].form = "url"}}
    <3>1. body \in Seq(Address)
      BY RustAssumption
    <3>2. \A i \in 1 .. Len(body) : body[i] \in Address
      BY <3>1
    <3>4. added \subseteq Peer
      BY <3>2 DEF Address
    <3>3. nodes' = [nodes EXCEPT ![n] = @ \cup added]
      BY <2>1 DEF RegisterNodes
    <3> HIDE DEF added
    <3> QED
      BY <1>1, <3>4, <3>3 DEF TypeOK
  <2> QED
    BY <1>1, <2>1 DEF TypeOK, NewTransaction, BodyRefused,
                      BodyPanics, ReadsBody, RequestFails, Panics
<1>4. /\ UNCHANGED << chain, clock >>
      /\ posted' \subseteq UserTransaction
      /\ \/ Unlock(n) /\ poisoned' \in {poisoned, [poisoned EXCEPT ![n] = TRUE]}
         \/ ReadsBody(n)
  BY <1>1 DEF NewTransaction, RegisterNodes, BodyRefused,
              BodyPanics, ReadsBody, RequestFails, Panics, TypeOK
<1>5. /\ holder' \in [Node -> Holder]
      /\ poisoned' \in [Node -> BOOLEAN]
      /\ \A m \in Node : /\ holder'[m].response # << >> =>
                               Trustworthy(holder'[m].response)
                         /\ ~ Resolving(m)' => holder'[m].new_chain = << >>
                         /\ poisoned'[m] => holder'[m].pc = "none"
                         /\ m # n => /\ holder'[m] = holder[m]
                                     /\ poisoned'[m] = poisoned[m]
      /\ ~ Resolving(n)'
      /\ holder'[n].new_chain = << >>
  BY <1>4, LockHolds
<1>6. TypeOK'
  BY <1>1, <1>2, <1>3, <1>4, <1>5 DEF TypeOK
<1> QED
  BY <1>4, <1>5, <1>6 DEF LockInvariant, Resolving

LEMMA AppendIs ==
  ASSUME NEW s \in Seq(Content), NEW z \in Content
  PROVE  Append(s, z) = [k \in 1 .. Len(s) + 1 |->
                           IF k = Len(s) + 1 THEN z ELSE s[k]]
<1> DEFINE app == Append(s, z)
<1>1. /\ app \in Seq(Content)
      /\ Len(app) = Len(s) + 1
      /\ \A k \in 1 .. Len(s) : app[k] = s[k]
      /\ app[Len(s) + 1] = z
      /\ Len(s) \in Nat
  OBVIOUS
<1> HIDE DEF app
<1>2. app = [k \in 1 .. Len(s) + 1 |-> app[k]]
  BY <1>1
<1>3. \A k \in 1 .. Len(s) + 1 :
        app[k] = IF k = Len(s) + 1 THEN z ELSE s[k]
  BY <1>1
<1> QED
  BY <1>2, <1>3 DEF app

(* What comes of a good chain whose timestamps are read as others, if it is *)
(* still valid: a good chain.  Its digests are as they were written, so the *)
(* validity of the one ties all timestamps but the last to the other's.     *)
LEMMA ParsedTrustworthy ==
  ASSUME NEW c \in Seq(Block), Trustworthy(c), valid_chain(Parsed(c))
  PROVE  /\ Parsed(c) \in Seq(Block)
         /\ Len(Parsed(c)) = Len(c)
         /\ Trustworthy(Parsed(c))
<1> DEFINE p == Parsed(c)
<1>1. Len(c) \in Nat /\ Len(c) >= 1
  BY DEF Trustworthy, SoundChain
<1>2. \A time \in Nat : ParsedTime(time) \in Nat
  BY RustAssumption DEF ParsedTime
<1>3. ASSUME NEW i \in 1 .. Len(c)
      PROVE  /\ p[i] \in Block
             /\ p[i].index = c[i].index
             /\ p[i].previous_hash = c[i].previous_hash
  <2>1. c[i] \in Block
    OBVIOUS
  <2>2. p[i] = [c[i] EXCEPT !.timestamp = ParsedTime(c[i].timestamp)]
    BY DEF Parsed
  <2>3. ParsedTime(c[i].timestamp) \in Nat
    BY <1>2, <2>1 DEF Block
  <2> HIDE DEF p
  <2> QED
    BY <2>1, <2>2, <2>3 DEF Block
<1>4. p \in Seq(Block) /\ Len(p) = Len(c)
  BY <1>1, <1>3 DEF Parsed
<1>5. valid_chain(p)
  OBVIOUS
<1> HIDE DEF p
<1>6. SoundChain(p)
  BY <1>1, <1>3, <1>4, <1>5 DEF Trustworthy, SoundChain
<1>7. ASSUME NEW i \in 1 .. Len(c)
      PROVE  /\ hash(c[i]) = Append(c[i].previous_hash, ContentOf(c[i]))
             /\ hash(p[i]) = Append(c[i].previous_hash, ContentOf(p[i]))
             /\ c[i].previous_hash \in Seq(Content)
             /\ ContentOf(c[i]) \in Content /\ ContentOf(p[i]) \in Content
  <2>1. c[i] \in Block
    OBVIOUS
  <2> QED
    BY <1>3, <2>1, HashType DEF hash, Block, Digest
<1>8. ASSUME NEW s \in Seq(Content), NEW x \in Content, NEW y \in Content,
             Append(s, x) = Append(s, y)
      PROVE  x = y
  <2>1. Append(s, x)[Len(s) + 1] = x /\ Append(s, y)[Len(s) + 1] = y
    OBVIOUS
  <2> QED
    BY <1>8, <2>1
<1>9. ASSUME NEW i \in 2 .. Len(c)
      PROVE  ContentOf(p[i - 1]) = ContentOf(c[i - 1])
  <2>1. i \in 1 .. Len(c) /\ i - 1 \in 1 .. Len(c) /\ i \in 2 .. Len(p)
    BY <1>1, <1>4
  <2>2. c[i].previous_hash = hash(c[i - 1])
    BY <2>1 DEF Trustworthy, SoundChain, valid_chain
  <2>3. p[i].previous_hash = hash(p[i - 1])
    BY <1>5, <2>1 DEF valid_chain
  <2>4. hash(p[i - 1]) = hash(c[i - 1])
    BY <1>3, <2>1, <2>2, <2>3
  <2> QED
    BY <1>7, <1>8, <2>1, <2>4
<1>10. \A k \in 1 .. Len(c) - 1 : ContentOf(p[k]) = ContentOf(c[k])
  <2> SUFFICES ASSUME NEW k \in 1 .. Len(c) - 1
               PROVE  ContentOf(p[k]) = ContentOf(c[k])
    OBVIOUS
  <2>1. k + 1 \in 2 .. Len(c) /\ (k + 1) - 1 = k
    BY <1>1
  <2> QED
    BY <1>9, <2>1
<1>11. ASSUME NEW i \in 1 .. Len(p)
       PROVE  hash(p[i]) = [k \in 1 .. i |-> ContentOf(p[k])]
  <2>1. hash(c[i]) = [k \in 1 .. i |-> ContentOf(c[k])] /\ i \in 1 .. Len(c)
    BY <1>4 DEF Trustworthy, Rooted
  <2> DEFINE s == c[i].previous_hash
             x == ContentOf(c[i])
             y == ContentOf(p[i])
  <2>2. /\ Append(s, x) = [k \in 1 .. i |-> ContentOf(c[k])]
        /\ s \in Seq(Content) /\ x \in Content /\ y \in Content
        /\ hash(p[i]) = Append(s, y)
    BY <1>7, <2>1
  <2>3. \A k \in 1 .. i - 1 : ContentOf(p[k]) = ContentOf(c[k])
    BY <1>1, <1>10, <2>1
  <2> HIDE DEF s, x, y
  <2>4. /\ Len(s) \in Nat
        /\ \A z \in Content :
             Append(s, z) = [k \in 1 .. Len(s) + 1 |->
                               IF k = Len(s) + 1 THEN z ELSE s[k]]
    BY <2>2, AppendIs
  <2>5. Len(s) + 1 = i
    <3>1. 1 .. Len(s) + 1 = 1 .. i
      BY <2>2, <2>4
    <3> QED
      BY <3>1, <2>4, <2>1, <1>1
  <2>6. \A k \in 1 .. i - 1 : Append(s, y)[k] = Append(s, x)[k]
    BY <2>2, <2>4, <2>5
  <2>7. \A k \in 1 .. i : Append(s, y)[k] = ContentOf(p[k])
    <3> SUFFICES ASSUME NEW k \in 1 .. i
                 PROVE  Append(s, y)[k] = ContentOf(p[k])
      OBVIOUS
    <3>1. CASE k = i
      BY <3>1, <2>2, <2>4, <2>5 DEF y
    <3>2. CASE k \in 1 .. i - 1
      BY <3>2, <2>2, <2>3, <2>6
    <3> QED
      BY <3>1, <3>2, <2>5
  <2>8. Append(s, y) = [k \in 1 .. i |-> Append(s, y)[k]]
    BY <2>2, <2>4, <2>5
  <2> QED
    BY <2>2, <2>7, <2>8
<1> QED
  BY <1>4, <1>6, <1>11 DEF Trustworthy, Rooted, p

(* The transactions of a chain are read as they were sent. *)
LEMMA ParsedNotAhead ==
  ASSUME NEW c \in Seq(Block), NEW chains, AheadOfNoMiner(c, chains)
  PROVE  /\ Parsed(c) \in Seq(Block)
         /\ AheadOfNoMiner(Parsed(c), chains)
<1>1. Len(c) \in Nat /\ \A time \in Nat : ParsedTime(time) \in Nat
  BY RustAssumption DEF ParsedTime
<1>2. ASSUME NEW i \in 1 .. Len(c)
      PROVE  /\ Parsed(c)[i] \in Block
             /\ Parsed(c)[i].transactions = c[i].transactions
  <2>1. c[i] \in Block
    OBVIOUS
  <2>2. Parsed(c)[i] = [c[i] EXCEPT !.timestamp = ParsedTime(c[i].timestamp)]
    BY DEF Parsed
  <2>3. ParsedTime(c[i].timestamp) \in Nat
    BY <1>1, <2>1 DEF Block
  <2> QED
    BY <2>1, <2>2, <2>3 DEF Block
<1>3. Parsed(c) \in Seq(Block) /\ Len(Parsed(c)) = Len(c)
  BY <1>1, <1>2 DEF Parsed
<1> QED
  BY <1>2, <1>3 DEF AheadOfNoMiner, MinedBy

(* Ledger means by these words what the node means by them. *)
LEMMA SameWords ==
  /\ \A c : Promise!SoundChain(c) = SoundChain(c)
  /\ \A c : Promise!last_block(c) = last_block(c)
  /\ \A n : Promise!Reward(n) = Reward(n)
  /\ \A b, n : Promise!MinedBy(b, n) = MinedBy(b, n)
  /\ Promise!Transaction = Transaction
<1>1. \A n : Promise!Reward(n) = Reward(n)
  BY DEF Promise!Reward, Reward
<1>2. Promise!UndefinedTransaction = UndefinedTransaction
  BY DEF Promise!UndefinedTransaction, UndefinedTransaction
<1>3. Promise!Transaction = Transaction
  BY <1>1, <1>2 DEF Promise!Transaction, Promise!Minted, Transaction, Minted
<1>4. \A c : Promise!last_block(c) = last_block(c)
  BY DEF Promise!last_block, last_block
<1>5. \A b : Promise!hash(b) = hash(b)
  BY DEF Promise!hash, hash, Promise!ContentOf, ContentOf
<1>6. \A p, q, h : Promise!valid_proof(p, q, h) = valid_proof(p, q, h)
  BY DEF Promise!valid_proof, valid_proof
<1>7. \A c : Promise!valid_chain(c) = valid_chain(c)
  BY <1>5, <1>6 DEF Promise!valid_chain, valid_chain
<1>8. \A c : Promise!SoundChain(c) = SoundChain(c)
  BY <1>7 DEF Promise!SoundChain, SoundChain,
              Promise!GenesisPreviousHash, GenesisPreviousHash
<1>9. \A b, n : Promise!MinedBy(b, n) = MinedBy(b, n)
  BY <1>1 DEF Promise!MinedBy, MinedBy
<1> QED
  BY <1>1, <1>3, <1>4, <1>8, <1>9

(* What goes on after an answer, or ends: the invariant holds, and the node *)
(* keeps its chain or adopts a longer one.                                  *)
LEMMA ContinueHolds ==
  ASSUME LockInvariant, NEW n \in Node, NEW left \in SUBSET Peer,
         NEW longest \in Nat, NEW best \in Seq(Block),
         longest >= Len(chain[n]), ~ poisoned[n],
         best # << >> => /\ Trustworthy(best)
                         /\ longest = Len(best)
                         /\ Len(best) > Len(chain[n])
                         /\ ~ MinedBy(last_block(best), n),
         Continue(n, left, longest, best)
  PROVE  /\ LockInvariant'
         /\ \/ UNCHANGED << chain, current_transactions >>
            \/ Promise!Adopt(n) /\ Promise!OthersKeep(n)
<1>1. TypeOK
  BY DEF LockInvariant
<1>2. CASE Ask(n, left, longest, best)
  <2>1. PICK node \in left :
          holder' = [holder EXCEPT ![n] =
            [pc |-> "asking", left |-> left \ {node}, node |-> node,
             max_length |-> longest, new_chain |-> best, response |-> << >>]]
    BY <1>2 DEF Ask
  <2>2. << >> \in Seq(Block) /\ node \in Peer /\ left \ {node} \in SUBSET Peer
    OBVIOUS
  <2>3. holder' \in [Node -> Holder]
    BY <1>1, <2>1, <2>2 DEF TypeOK, Holder
  <2>4. UNCHANGED << chain, current_transactions, nodes, poisoned, clock, posted >>
    BY <1>2 DEF Ask, Continue
  <2>5. TypeOK'
    BY <1>1, <2>3, <2>4 DEF TypeOK
  <2>6. /\ holder'[n].pc = "asking"
        /\ holder'[n].response = << >>
        /\ holder'[n].new_chain = best
        /\ holder'[n].max_length = longest
        /\ \A m \in Node : m # n => holder'[m] = holder[m]
    BY <1>1, <2>1 DEF TypeOK
  <2> QED
    BY <2>4, <2>5, <2>6 DEF LockInvariant, Resolving
<1>3. CASE Conclude(n, left, best)
  <2>1. /\ holder' = [holder EXCEPT ![n] = Nobody]
        /\ UNCHANGED << current_transactions, nodes, poisoned, clock, posted >>
    BY <1>3 DEF Conclude, Continue, Unlock
  <2>2. chain' \in [Node -> Seq(Block)]
    BY <1>1, <1>3 DEF Conclude, TypeOK
  <2>3. TypeOK'
    BY <1>1, <2>1, <2>2, NobodyType DEF TypeOK
  <2>4. /\ holder'[n] = Nobody
        /\ \A m \in Node : m # n => /\ holder'[m] = holder[m]
                                   /\ chain'[m] = chain[m]
    BY <1>1, <1>3, <2>1 DEF Conclude, TypeOK
  <2>5. \/ chain' = chain
        \/ best # << >> /\ chain'[n] = best
    BY <1>1, <1>3 DEF Conclude, TypeOK
  <2>6. LockInvariant'
    BY <2>1, <2>3, <2>4, <2>5 DEF LockInvariant, Resolving, Nobody
  <2>7. ASSUME best # << >>, chain'[n] = best
        PROVE  Promise!Adopt(n) /\ Promise!OthersKeep(n)
    BY <2>1, <2>4, <2>7, SameWords
       DEF Promise!Adopt, Promise!OthersKeep, Trustworthy
  <2> QED
    BY <2>1, <2>5, <2>6, <2>7
<1> QED
  BY <1>2, <1>3 DEF Continue

LEMMA ConsensusHolds ==
  ASSUME LockInvariant, NEW n \in Node, Consensus(n)
  PROVE  /\ LockInvariant'
         /\ \/ UNCHANGED << chain, current_transactions >>
            \/ Promise!Adopt(n) /\ Promise!OthersKeep(n)
<1>1. Len(chain[n]) \in Nat /\ Len(chain[n]) >= Len(chain[n])
  BY HolderFields DEF LockInvariant
<1>2. << >> \in Seq(Block) /\ nodes[n] \in SUBSET Peer
  BY DEF LockInvariant, TypeOK
<1>3. Continue(n, nodes[n], Len(chain[n]), << >>) /\ ~ poisoned[n]
  BY DEF Consensus, Locks
<1> QED
  BY <1>1, <1>2, <1>3, ContinueHolds

LEMMA FullChainHolds ==
  ASSUME LockInvariant, NEW n \in Node, FullChain(n)
  PROVE  LockInvariant'
<1>1. TypeOK /\ holder[n] \in Holder
  BY DEF LockInvariant, TypeOK
<1>2. /\ chain[holder[n].node] \in Seq(Block)
      /\ Trustworthy(chain[holder[n].node])
  BY DEF FullChain, LockInvariant, TypeOK
<1>3. holder' = [holder EXCEPT ![n] =
        [holder[n] EXCEPT !.pc = "answered",
                           !.response = chain[holder[n].node]]]
  BY <1>1 DEF FullChain, Answer, TypeOK
<1>4. /\ holder'[n].pc = "answered"
      /\ holder'[n].response = chain[holder[n].node]
      /\ holder'[n].new_chain = holder[n].new_chain
      /\ holder'[n].max_length = holder[n].max_length
      /\ \A m \in Node : m # n => holder'[m] = holder[m]
  BY <1>1, <1>3 DEF TypeOK, Holder
<1>5. holder' \in [Node -> Holder]
  BY <1>1, <1>2, <1>3 DEF TypeOK, Holder
<1>6. UNCHANGED << chain, current_transactions, nodes, poisoned, clock, posted >>
      /\ Resolving(n)
  BY DEF FullChain, Answer, Resolving
<1>7. TypeOK'
  BY <1>1, <1>5, <1>6 DEF TypeOK
<1> QED
  BY <1>2, <1>4, <1>6, <1>7 DEF LockInvariant, Resolving

LEMMA ResumeConsensusHolds ==
  ASSUME LockInvariant, NoneAhead, NEW n \in Node,
         ResumeConsensus(n) \/ NotOK(n)
  PROVE  /\ LockInvariant'
         /\ \/ UNCHANGED << chain, current_transactions >>
            \/ Promise!Adopt(n) /\ Promise!OthersKeep(n)
<1> DEFINE h == holder[n]
           received == Parsed(h.response)
<1>1. /\ h.left \in SUBSET Peer
      /\ h.max_length \in Nat
      /\ h.new_chain \in Seq(Block) /\ h.response \in Seq(Block)
      /\ Len(h.response) \in Nat
      /\ Len(chain[n]) \in Nat
  BY HolderFields DEF LockInvariant
<1>2. /\ h.max_length >= Len(chain[n])
      /\ ~ poisoned[n]
      /\ h.new_chain # << >> => /\ Trustworthy(h.new_chain)
                                /\ h.max_length = Len(h.new_chain)
                                /\ Len(h.new_chain) > Len(chain[n])
  BY DEF LockInvariant, ResumeConsensus, NotOK, Resolving
<1>3. CASE ResumeConsensus(n) /\ Longer(received, h.max_length)
  <2>1. Continue(n, h.left, Len(received), received)
    BY <1>3 DEF ResumeConsensus
  <2>2. valid_chain(received) /\ Len(received) > h.max_length
    BY <1>3 DEF Longer
  <2>3. Len(received) = Len(h.response)
    BY <1>1 DEF Parsed
  <2>4. h.response # << >>
    BY <1>1, <2>2, <2>3
  <2>5. Trustworthy(h.response) /\ AheadOfNoMiner(h.response, chain)
    BY <2>4 DEF LockInvariant, NoneAhead
  <2> HIDE DEF h
  <2>6. received \in Seq(Block) /\ Trustworthy(received)
    BY <1>1, <2>2, <2>5, ParsedTrustworthy
  <2>8. AheadOfNoMiner(received, chain)
    BY <1>1, <2>5, ParsedNotAhead
  <2> HIDE DEF received
  <2>7. /\ Len(received) \in Nat
        /\ Len(received) >= Len(chain[n])
        /\ Len(received) > Len(chain[n])
    BY <1>1, <1>2, <2>2, <2>6
  <2>9. ~ MinedBy(last_block(received), n)
    BY <2>6, <2>7, <2>8, LongerOfAnother DEF LockInvariant, TypeOK
  <2> QED
    BY <1>1, <1>2, <2>1, <2>6, <2>7, <2>9, ContinueHolds
<1>4. CASE \/ ResumeConsensus(n) /\ ~ Longer(received, h.max_length)
           \/ NotOK(n)
  <2>1. Continue(n, h.left, h.max_length, h.new_chain)
    BY <1>4 DEF ResumeConsensus, NotOK
  <2>2. h.new_chain # << >> => ~ MinedBy(last_block(h.new_chain), n)
    BY <1>1, <1>2, LongerOfAnother DEF NoneAhead, LockInvariant, TypeOK
  <2> QED
    BY <1>1, <1>2, <2>1, <2>2, ContinueHolds
<1> QED
  BY <1>3, <1>4

LEMMA LockStep == RustInvariant /\ [Next]_vars => LockInvariant'
<1>1. ASSUME LockInvariant, UNCHANGED vars
      PROVE  LockInvariant'
  BY <1>1 DEF LockInvariant, TypeOK, Resolving, vars
<1> QED
  BY <1>1, PostHolds, MineHolds, ConsensusHolds, FullChainHolds,
     ResumeConsensusHolds DEF Next, RustInvariant

(* The chains in use at a node: its own, the answer it has, the one found. *)
InUse(n) == {chain[n], holder[n].response, holder[n].new_chain}

LEMMA InUseTyped ==
  ASSUME TypeOK, NEW n \in Node
  PROVE  InUse(n) \subseteq Seq(Block)
BY HolderFields DEF InUse

(* Where chains only grow, and none comes into use but those in use before *)
(* and one that is not ahead of its miner, no chain is ahead of its miner. *)
LEMMA NoneAheadHolds ==
  ASSUME TypeOK, TypeOK', NoneAhead,
         \A n \in Node : Len(chain'[n]) >= Len(chain[n]),
         \A n \in Node : \A c \in InUse(n)' :
           \/ \E m \in Node : \E d \in InUse(m) : c \in {d, Parsed(d)}
           \/ c = << >>
           \/ AheadOfNoMiner(c, chain')
  PROVE  NoneAhead'
<1>1. chain \in [Node -> Seq(Block)] /\ chain' \in [Node -> Seq(Block)]
  BY DEF TypeOK
<1>2. ASSUME NEW n \in Node, NEW c \in InUse(n)'
      PROVE  AheadOfNoMiner(c, chain')
  <2>1. CASE \E m \in Node : \E d \in InUse(m) : c \in {d, Parsed(d)}
    <3>2. PICK m \in Node : \E d \in InUse(m) : c \in {d, Parsed(d)}
      BY <2>1
    <3>3. PICK d \in InUse(m) : c \in {d, Parsed(d)}
      BY <3>2
    <3>4. d \in Seq(Block) /\ AheadOfNoMiner(d, chain)
      BY <3>3, InUseTyped DEF NoneAhead, InUse
    <3>1. c \in Seq(Block) /\ AheadOfNoMiner(c, chain)
      BY <3>3, <3>4, ParsedNotAhead
    <3> QED
      BY <1>1, <3>1, AheadGrows
  <2> QED
    BY <1>2, <2>1, EmptyNotAhead
<1> QED
  BY <1>2 DEF NoneAhead, InUse

LEMMA MineNoneAhead ==
  ASSUME RustInvariant, TypeOK', NEW n \in Node, Mine(n)
  PROVE  NoneAhead'
<1>1. PICK new \in Seq(Block) :
        /\ chain' = [chain EXCEPT ![n] = new]
        /\ Len(new) = Len(chain[n]) + 1
        /\ new = Append(chain[n], last_block(new))
        /\ last_block(new).transactions =
             Append(current_transactions[n], Reward(n))
  BY Mined DEF RustInvariant
<1>2. /\ TypeOK /\ NoneAhead /\ holder' = holder
      /\ chain \in [Node -> Seq(Block)] /\ chain' \in [Node -> Seq(Block)]
      /\ current_transactions[n] \in Seq(Transaction)
  BY DEF RustInvariant, LockInvariant, TypeOK, Mine
<1>3. /\ chain'[n] = new
      /\ \A m \in Node : m # n => chain'[m] = chain[m]
      /\ \A m \in Node : Len(chain[m]) \in Nat
  BY <1>1, <1>2
<1>4. \A m \in Node : Len(chain'[m]) >= Len(chain[m])
  BY <1>1, <1>3
<1>5. AheadOfNoMiner(chain[n], chain')
  BY <1>2, <1>4, AheadGrows DEF NoneAhead
<1>6. AheadOfNoMiner(new, chain')
  <2> DEFINE top == last_block(new)
  <2>1. /\ new = Append(chain[n], top)
        /\ top.transactions = Append(current_transactions[n], Reward(n))
        /\ chain[n] \in Seq(Block)
        /\ Len(chain'[n]) = Len(chain[n]) + 1
    BY <1>1, <1>2, <1>3
  <2> HIDE DEF top
  <2> QED
    BY <1>1, <1>2, <1>5, <2>1, MinedNotAhead
<1>7. \A m \in Node : \A c \in InUse(m)' : c \in InUse(m) \/ c = new
  BY <1>2, <1>3 DEF InUse
<1> QED
  BY <1>2, <1>4, <1>6, <1>7, NoneAheadHolds

LEMMA ResolveNoneAhead ==
  ASSUME RustInvariant, TypeOK', NEW n \in Node,
         Consensus(n) \/ FullChain(n) \/ ResumeConsensus(n) \/ NotOK(n)
  PROVE  NoneAhead'
<1>1. TypeOK /\ NoneAhead /\ holder[n] \in Holder
  BY DEF RustInvariant, LockInvariant, TypeOK
<1>2. \A m \in Node : Len(chain[m]) \in Nat
  BY <1>1, HolderFields
<1>3. \A m \in Node : m # n => chain'[m] = chain[m] /\ holder'[m] = holder[m]
  BY <1>1 DEF Consensus, FullChain, Answer, ResumeConsensus, NotOK, Unlock,
              Continue, Ask, Conclude, TypeOK
<1>4. \A m \in Node : Len(chain'[m]) >= Len(chain[m])
  <2>1. CASE FullChain(n)
    BY <1>2, <2>1 DEF FullChain, Answer
  <2>2. CASE Consensus(n) \/ ResumeConsensus(n) \/ NotOK(n)
    <3>1. \/ UNCHANGED << chain, current_transactions >>
          \/ Promise!Adopt(n)
      BY <2>2, ConsensusHolds, ResumeConsensusHolds DEF RustInvariant
    <3>2. Len(chain'[n]) >= Len(chain[n])
      <4>1. CASE Promise!Adopt(n)
        <5>1. chain'[n] \in Seq(Block)
          BY DEF TypeOK
        <5> QED
          BY <1>2, <4>1, <5>1 DEF Promise!Adopt
      <4> QED
        BY <1>2, <3>1, <4>1
    <3> QED
      BY <1>2, <1>3, <3>2
  <2> QED
    BY <2>1, <2>2
<1>5. \A c \in InUse(n)' :
        (\E m \in Node : \E d \in InUse(m) : c \in {d, Parsed(d)}) \/ c = << >>
  <2>1. CASE FullChain(n)
    <3>1. /\ holder' = [holder EXCEPT ![n] =
                 [holder[n] EXCEPT !.pc = "answered",
                                   !.response = chain[holder[n].node]]]
          /\ chain' = chain /\ holder[n].node \in Node
      BY <1>1, <2>1 DEF FullChain, Answer, TypeOK
    <3>2. /\ holder'[n].response = chain[holder[n].node]
          /\ holder'[n].new_chain = holder[n].new_chain
      BY <1>1, <3>1 DEF TypeOK, Holder
    <3> QED
      BY <3>1, <3>2 DEF InUse
  <2>3. ASSUME NEW left, NEW longest, NEW best, Continue(n, left, longest, best)
        PROVE  \A c \in InUse(n)' : c \in InUse(n) \/ c = best \/ c = << >>
    <3>1. CASE Ask(n, left, longest, best)
      <4>1. /\ holder'[n].response = << >> /\ holder'[n].new_chain = best
            /\ chain' = chain
        BY <1>1, <3>1 DEF Ask, TypeOK
      <4> QED
        BY <4>1 DEF InUse
    <3>2. CASE Conclude(n, left, best)
      <4>1. holder'[n] = Nobody /\ chain'[n] \in {chain[n], best}
        BY <1>1, <3>2 DEF Conclude, Unlock, TypeOK
      <4> QED
        BY <4>1 DEF InUse, Nobody
    <3> QED
      BY <2>3, <3>1, <3>2 DEF Continue
  <2>4. CASE Consensus(n) \/ ResumeConsensus(n) \/ NotOK(n)
    <3>1. \E left, longest, best :
            /\ Continue(n, left, longest, best)
            /\ best = << >> \/ \E d \in InUse(n) : best \in {d, Parsed(d)}
      BY <2>4 DEF Consensus, ResumeConsensus, NotOK, InUse
    <3> QED
      BY <2>3, <3>1
  <2> QED
    BY <2>1, <2>4
<1>6. \A m \in Node : m # n => InUse(m)' = InUse(m)
  BY <1>3 DEF InUse
<1> QED
  BY <1>1, <1>4, <1>5, <1>6, NoneAheadHolds

LEMMA PostNoneAhead ==
  ASSUME RustInvariant, NEW n \in Node,
         \/ \E tx \in UserTransaction : NewTransaction(n, tx)
         \/ \E body \in RegisterRequest[n] : RegisterNodes(n, body)
         \/ BodyRefused(n)
         \/ BodyPanics(n)
         \/ ReadsBody(n)
         \/ RequestFails(n)
  PROVE  NoneAhead'
<1>1. TypeOK /\ NoneAhead /\ TypeOK'
  BY PostHolds DEF RustInvariant, LockInvariant
<1>2. chain' = chain
  BY DEF NewTransaction, RegisterNodes, BodyRefused, BodyPanics, ReadsBody,
         RequestFails, Panics
<1>3. \/ holder' = [holder EXCEPT ![n] = Nobody]
      \/ holder' = [holder EXCEPT ![n] = [holder[n] EXCEPT !.pc = "reading"]]
  BY <1>1 DEF NewTransaction, RegisterNodes, BodyRefused, BodyPanics, ReadsBody,
              RequestFails, Panics, Unlock, TypeOK
<1>4. holder[n] \in Holder
  BY <1>1 DEF TypeOK
<1>5. \A m \in Node : \A c \in InUse(m)' : c \in InUse(m) \/ c = << >>
  <2>1. \A m \in Node : m # n => holder'[m] = holder[m]
    BY <1>1, <1>3 DEF TypeOK
  <2>2. \/ holder'[n].response = << >> /\ holder'[n].new_chain = << >>
        \/ /\ holder'[n].response = holder[n].response
           /\ holder'[n].new_chain = holder[n].new_chain
    <3>1. CASE holder' = [holder EXCEPT ![n] = Nobody]
      <4>1. holder'[n] = Nobody
        BY <1>1, <3>1 DEF TypeOK
      <4> QED
        BY <4>1 DEF Nobody
    <3>2. CASE holder' = [holder EXCEPT ![n] = [holder[n] EXCEPT !.pc = "reading"]]
      <4>1. holder'[n] = [holder[n] EXCEPT !.pc = "reading"]
        BY <1>1, <3>2 DEF TypeOK
      <4> QED
        BY <1>4, <4>1 DEF Holder
    <3> QED
      BY <1>3, <3>1, <3>2
  <2> QED
    BY <1>2, <2>1, <2>2 DEF InUse
<1>6. \A m \in Node : Len(chain'[m]) >= Len(chain[m])
  BY <1>1, <1>2, HolderFields
<1> QED
  BY <1>1, <1>5, <1>6, NoneAheadHolds

LEMMA StepHolds == RustInvariant /\ [Next]_vars => RustInvariant'
<1> SUFFICES ASSUME RustInvariant, [Next]_vars PROVE RustInvariant'
  OBVIOUS
<1>1. LockInvariant' /\ TypeOK' /\ NoneAhead
  BY LockStep DEF LockInvariant, RustInvariant
<1>2. ASSUME UNCHANGED vars
      PROVE  NoneAhead'
  BY <1>1, <1>2 DEF NoneAhead, AheadOfNoMiner, vars
<1>4. NoneAhead'
  BY <1>1, <1>2, MineNoneAhead, ResolveNoneAhead, PostNoneAhead DEF Next
<1> QED
  BY <1>1, <1>4 DEF RustInvariant

(***************************************************************************)
(* The inductive invariant: chains held, sent and found are good ones,     *)
(* while a node resolves, the lock keeps its chain as it is, and no chain  *)
(* is ahead of the miner of any of its blocks.                             *)
(***************************************************************************)
THEOREM Invariance == Spec => []RustInvariant
<1>1. Init => RustInvariant
  BY InitHolds, InitNoneAhead DEF RustInvariant
<1> QED
  BY <1>1, StepHolds, PTL DEF Spec

-----------------------------------------------------------------------------
(* The promise *)

LEMMA InitPromised == Init => Promise!Init
BY GenesisSound, RustAssumption, SameWords DEF Init, Promise!Init

LEMMA StepPromised ==
  ASSUME RustInvariant, [Next]_vars
  PROVE  [Promise!Next]_(Promise!ledgerVars)
<1> SUFFICES ASSUME Next
             PROVE  Promise!Next \/ UNCHANGED << chain, current_transactions >>
  BY DEF vars, Promise!ledgerVars
<1>1. TypeOK /\ LockInvariant /\ NoneAhead
  BY DEF RustInvariant, LockInvariant
<1>2. ASSUME NEW n \in Node, NEW tx \in UserTransaction, NewTransaction(n, tx)
      PROVE  Promise!Next
  <2>1. tx \in Transaction
    BY DEF Transaction, Minted
  <2>2. /\ current_transactions'[n] = Append(current_transactions[n], tx)
        /\ \A m \in Node \ {n} :
             current_transactions'[m] = current_transactions[m]
        /\ chain' = chain
    BY <1>1, <1>2 DEF NewTransaction, TypeOK
  <2>3. Promise!Accept(n) /\ Promise!OthersKeep(n)
    BY <2>1, <2>2, SameWords DEF Promise!Accept, Promise!OthersKeep
  <2> QED
    BY <2>3 DEF Promise!Next
<1>3. ASSUME NEW n \in Node, Mine(n)
      PROVE  Promise!Next
  <2>1. PICK new \in Seq(Block) :
          /\ chain' = [chain EXCEPT ![n] = new]
          /\ new = Append(chain[n], last_block(new))
          /\ last_block(new).transactions =
               Append(current_transactions[n], Reward(n))
          /\ Trustworthy(new)
    BY <1>1, <1>3, Mined
  <2>2. /\ chain'[n] = new
        /\ current_transactions'[n] = << >>
        /\ \A m \in Node \ {n} :
             /\ chain'[m] = chain[m]
             /\ current_transactions'[m] = current_transactions[m]
    BY <1>1, <1>3, <2>1 DEF Mine, TakeTransactions, TypeOK
  <2>3. Promise!Extend(n) /\ Promise!OthersKeep(n)
    BY <2>1, <2>2, SameWords
       DEF Promise!Extend, Promise!OthersKeep, Trustworthy
  <2> QED
    BY <2>3 DEF Promise!Next
<1>4. ASSUME NEW n \in Node,
             Promise!Adopt(n) /\ Promise!OthersKeep(n)
      PROVE  Promise!Next
  BY <1>4 DEF Promise!Next
<1>5. ASSUME NEW n \in Node,
             Consensus(n) \/ ResumeConsensus(n) \/ NotOK(n)
      PROVE  Promise!Next \/ UNCHANGED << chain, current_transactions >>
  BY <1>1, <1>4, <1>5, ConsensusHolds, ResumeConsensusHolds
<1>6. ASSUME NEW n \in Node,
             \/ \E body \in RegisterRequest[n] : RegisterNodes(n, body)
             \/ ReadsBody(n)
             \/ BodyRefused(n)
             \/ BodyPanics(n)
             \/ FullChain(n)
             \/ RequestFails(n)
      PROVE  UNCHANGED << chain, current_transactions >>
  BY <1>6 DEF RegisterNodes, ReadsBody, BodyRefused, BodyPanics, FullChain,
              Answer, RequestFails, Panics
<1> QED
  BY <1>2, <1>3, <1>5, <1>6 DEF Next

(***************************************************************************)
(* The Rust node implements the ledger, panics and changed timestamps      *)
(* included: chains grow by blocks that carry all that waits, or are       *)
(* replaced by longer valid ones.                                          *)
(***************************************************************************)
THEOREM PromiseKept == Spec => KeepsPromise
BY InitPromised, StepPromised, Invariance, PTL
   DEF Spec, KeepsPromise, Promise!Spec

=============================================================================
