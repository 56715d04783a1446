---------------------------- MODULE BlockProofs ----------------------------
(***************************************************************************)
(* Facts about blocks and chains that the proofs about every port use.     *)
(***************************************************************************)
EXTENDS Blocks, FiniteSetTheorems, TLAPS

-----------------------------------------------------------------------------
(* Blocks and chains *)

(* A digest is a sequence of block contents. *)
LEMMA HashType ==
  ASSUME NEW b \in Block
  PROVE  /\ ContentOf(b) \in Content
         /\ hash(b) \in Digest
<1>1. ContentOf(b) \in Content
  BY DEF Block, Content, ContentOf
<1>2. b.previous_hash \in Digest
  BY DEF Block
<1> QED
  BY <1>1, <1>2 DEF hash, Digest

(* The block new_block makes of its arguments for the place i. *)
BlockAt(i, txs, proof, prev, ts) ==
  [index |-> i, timestamp |-> ts, transactions |-> txs, proof |-> proof,
   previous_hash |-> prev]

(* new_block leaves the blocks there are alone and adds one at the end. *)
LEMMA NewBlock ==
  ASSUME NEW ch \in Seq(Block), NEW txs \in Seq(Transaction),
         NEW proof \in Nat, NEW prev \in Digest, NEW ts \in Nat
  PROVE  LET new == new_block(ch, txs, proof, prev, ts)
         IN  /\ new \in Seq(Block)
             /\ Len(new) = Len(ch) + 1
             /\ \A i \in 1 .. Len(ch) : new[i] = ch[i]
             /\ new[Len(ch) + 1] = BlockAt(Len(ch) + 1, txs, proof, prev, ts)
<1> DEFINE b == BlockAt(Len(ch) + 1, txs, proof, prev, ts)
<1>1. b \in Block
  BY DEF Block, BlockAt
<1>2. new_block(ch, txs, proof, prev, ts) = Append(ch, b)
  BY DEF new_block, BlockAt
<1> HIDE DEF b
<1>3. /\ Append(ch, b) \in Seq(Block)
      /\ Len(Append(ch, b)) = Len(ch) + 1
      /\ \A i \in 1 .. Len(ch) : Append(ch, b)[i] = ch[i]
      /\ Append(ch, b)[Len(ch) + 1] = b
  BY <1>1
<1> QED
  BY <1>2, <1>3 DEF b

(* The block new_block adds carries the transactions it was given. *)
LEMMA NewestTransactions ==
  ASSUME NEW ch \in Seq(Block), NEW txs \in Seq(Transaction),
         NEW proof \in Nat, NEW prev \in Digest, NEW ts \in Nat
  PROVE  last_block(new_block(ch, txs, proof, prev, ts)).transactions = txs
<1> DEFINE new == new_block(ch, txs, proof, prev, ts)
<1>1. /\ Len(new) = Len(ch) + 1
      /\ new[Len(ch) + 1] = BlockAt(Len(ch) + 1, txs, proof, prev, ts)
  BY NewBlock
<1> HIDE DEF new
<1>2. last_block(new) = BlockAt(Len(ch) + 1, txs, proof, prev, ts)
  BY <1>1 DEF last_block
<1> QED
  BY <1>2 DEF BlockAt, new

(* What new_block does is append its last block. *)
LEMMA NewestBlock ==
  ASSUME NEW ch \in Seq(Block), NEW txs \in Seq(Transaction),
         NEW proof \in Nat, NEW prev \in Digest, NEW ts \in Nat
  PROVE  LET new == new_block(ch, txs, proof, prev, ts)
         IN  new = Append(ch, last_block(new))
<1> DEFINE new == new_block(ch, txs, proof, prev, ts)
           b == BlockAt(Len(ch) + 1, txs, proof, prev, ts)
<1>1. new = Append(ch, b)
  BY DEF new_block, BlockAt
<1>2. Len(new) = Len(ch) + 1 /\ new[Len(ch) + 1] = b
  BY NewBlock
<1> HIDE DEF new, b
<1>3. last_block(new) = b
  BY <1>2 DEF last_block
<1> QED
  BY <1>1, <1>3 DEF new

(* The first chain of a node is typed and sound. *)
LEMMA GenesisSound ==
  ASSUME NEW ts \in Nat
  PROVE  /\ GenesisChain(ts) \in Seq(Block)
         /\ Len(GenesisChain(ts)) = 1
         /\ SoundChain(GenesisChain(ts))
<1> DEFINE g == GenesisChain(ts)
           none == << >>
<1>1. none \in Seq(Block) /\ none \in Seq(Transaction) /\ Len(none) = 0
  OBVIOUS
<1>2. GenesisPreviousHash \in Digest
  BY DEF Digest, GenesisPreviousHash
<1>3. PICK proof \in Nat : proof = 100
  OBVIOUS
<1>4. g = new_block(none, none, proof, GenesisPreviousHash, ts)
  BY <1>3 DEF GenesisChain
<1> HIDE DEF g, none
<1>5. /\ g \in Seq(Block)
      /\ Len(g) = Len(none) + 1
      /\ g[Len(none) + 1] =
           BlockAt(Len(none) + 1, none, proof, GenesisPreviousHash, ts)
  BY <1>1, <1>2, <1>4, NewBlock
<1>6. Len(g) = 1 /\ g[1].index = 1 /\ g[1].previous_hash = GenesisPreviousHash
  BY <1>1, <1>5 DEF BlockAt
<1>7. valid_chain(g)
  BY <1>6 DEF valid_chain
<1>8. \A i \in 1 .. Len(g) : g[i].index = i
  BY <1>6
<1>9. SoundChain(g)
  BY <1>6, <1>7, <1>8 DEF SoundChain
<1> QED
  BY <1>5, <1>6, <1>9 DEF g

(* A block mined on the last block of a sound chain leaves it sound. *)
LEMMA MinedSound ==
  ASSUME NEW ch \in Seq(Block), SoundChain(ch), NEW txs \in Seq(Transaction),
         NEW proof \in Nat, NEW ts \in Nat,
         FoundByProofOfWork(last_block(ch), proof)
  PROVE  SoundChain(new_block(ch, txs, proof, hash(last_block(ch)), ts))
<1> DEFINE last == last_block(ch)
           new == new_block(ch, txs, proof, hash(last), ts)
<1>1. Len(ch) \in Nat /\ Len(ch) >= 1
  BY DEF SoundChain
<1>2. last = ch[Len(ch)] /\ last \in Block
  BY <1>1 DEF last_block
<1>3. /\ Len(new) = Len(ch) + 1
      /\ \A i \in 1 .. Len(ch) : new[i] = ch[i]
      /\ new[Len(ch) + 1].index = Len(ch) + 1
      /\ new[Len(ch) + 1].proof = proof
      /\ new[Len(ch) + 1].previous_hash = hash(last)
  <2>1. hash(last) \in Digest
    BY <1>2, HashType
  <2>2. /\ Len(new) = Len(ch) + 1
        /\ \A i \in 1 .. Len(ch) : new[i] = ch[i]
        /\ new[Len(ch) + 1] = BlockAt(Len(ch) + 1, txs, proof, hash(last), ts)
    BY <2>1, NewBlock
  <2> QED
    BY <2>2 DEF BlockAt
<1>4. valid_proof(last.proof, proof, hash(last))
  BY DEF FoundByProofOfWork
<1> HIDE DEF new, last
<1>5. valid_chain(new)
  <2> SUFFICES ASSUME NEW i \in 2 .. Len(new)
               PROVE  /\ new[i].previous_hash = hash(new[i - 1])
                      /\ valid_proof(new[i - 1].proof, new[i].proof,
                                     hash(new[i - 1]))
    BY DEF valid_chain
  <2>1. CASE i = Len(ch) + 1
    <3>1. new[i - 1] = last
      BY <2>1, <1>1, <1>2, <1>3
    <3> QED
      BY <3>1, <2>1, <1>3, <1>4
  <2>2. CASE i \in 2 .. Len(ch)
    <3>1. new[i] = ch[i] /\ new[i - 1] = ch[i - 1]
      BY <2>2, <1>1, <1>3
    <3>2. valid_chain(ch)
      BY DEF SoundChain
    <3> QED
      BY <3>1, <3>2, <2>2 DEF valid_chain
  <2> QED
    BY <2>1, <2>2, <1>1, <1>3
<1>6. \A i \in 1 .. Len(new) : new[i].index = i
  <2> SUFFICES ASSUME NEW i \in 1 .. Len(new)
               PROVE  new[i].index = i
    OBVIOUS
  <2>1. CASE i = Len(ch) + 1
    BY <2>1, <1>3
  <2>2. CASE i \in 1 .. Len(ch)
    BY <2>2, <1>3 DEF SoundChain
  <2> QED
    BY <2>1, <2>2, <1>1, <1>3
<1>7. new[1].previous_hash = GenesisPreviousHash /\ Len(new) >= 1
  BY <1>1, <1>3 DEF SoundChain
<1> QED
  BY <1>5, <1>6, <1>7 DEF SoundChain, new, last
(* So is its past told by its digest, if that of the chain was. *)
LEMMA MinedRooted ==
  ASSUME NEW ch \in Seq(Block), Len(ch) >= 1, Rooted(ch),
         NEW txs \in Seq(Transaction), NEW proof \in Nat, NEW ts \in Nat
  PROVE  Rooted(new_block(ch, txs, proof, hash(last_block(ch)), ts))
<1> DEFINE last == last_block(ch)
           new == new_block(ch, txs, proof, hash(last), ts)
<1>1. Len(ch) \in Nat
  OBVIOUS
<1>2. last = ch[Len(ch)] /\ last \in Block
  BY <1>1 DEF last_block
<1>3. hash(last) \in Digest
  BY <1>2, HashType
<1>4. /\ new \in Seq(Block)
      /\ Len(new) = Len(ch) + 1
      /\ \A i \in 1 .. Len(ch) : new[i] = ch[i]
      /\ new[Len(ch) + 1] = BlockAt(Len(ch) + 1, txs, proof, hash(last), ts)
  BY <1>3, NewBlock
<1> HIDE DEF new, last
<1>5. SUFFICES ASSUME NEW i \in 1 .. Len(new)
               PROVE  hash(new[i]) = [k \in 1 .. i |-> ContentOf(new[k])]
  BY DEF Rooted, new, last
<1>6. CASE i \in 1 .. Len(ch)
  <2>1. hash(ch[i]) = [k \in 1 .. i |-> ContentOf(ch[k])]
    BY <1>6 DEF Rooted
  <2>2. \A k \in 1 .. i : new[k] = ch[k]
    BY <1>1, <1>4, <1>6
  <2>3. i \in 1 .. i
    BY <1>1, <1>6
  <2> QED
    BY <2>1, <2>2, <2>3
<1>7. CASE i = Len(ch) + 1
  <2> DEFINE h == hash(last)
             b == new[i]
  <2>1. h = [k \in 1 .. Len(ch) |-> ContentOf(ch[k])]
    BY <1>1, <1>2 DEF Rooted
  <2>2. h \in Seq(Content) /\ ContentOf(b) \in Content
    <3>1. b \in Block
      BY <1>1, <1>4, <1>7
    <3> QED
      BY <3>1, <1>3, HashType DEF Digest
  <2>3. Len(h) = Len(ch)
    BY <1>1, <2>1, <2>2
  <2>4. hash(b) = Append(h, ContentOf(b))
    BY <1>4, <1>7 DEF hash, BlockAt
  <2> HIDE DEF h
  <2>5. Append(h, ContentOf(b)) =
          [k \in 1 .. Len(h) + 1 |-> IF k = Len(h) + 1 THEN ContentOf(b)
                                                      ELSE h[k]]
    BY <2>2
  <2>6. \A k \in 1 .. Len(ch) : h[k] = ContentOf(new[k])
    BY <1>4, <2>1
  <2> QED
    BY <1>1, <1>7, <2>3, <2>4, <2>5, <2>6
<1> QED
  BY <1>1, <1>4, <1>5, <1>6, <1>7

(* All of it together, for the block a node n makes of what waits there. *)
LEMMA MinedBlock ==
  ASSUME NEW ch \in Seq(Block), Trustworthy(ch), NEW n \in Node,
         NEW pool \in Seq(Transaction), NEW proof \in Nat, NEW ts \in Nat,
         FoundByProofOfWork(last_block(ch), proof),
         NEW new,
         new = new_block(ch, Append(pool, Reward(n)), proof,
                         hash(last_block(ch)), ts)
  PROVE  /\ new \in Seq(Block)
         /\ Len(new) = Len(ch) + 1
         /\ new = Append(ch, last_block(new))
         /\ last_block(new).transactions = Append(pool, Reward(n))
         /\ Trustworthy(new)
<1> DEFINE last == last_block(ch)
           txs == Append(pool, Reward(n))
<1>1. SoundChain(ch) /\ Rooted(ch) /\ Len(ch) >= 1 /\ Len(ch) \in Nat
  BY DEF Trustworthy, SoundChain
<1>2. last \in Block
  BY <1>1 DEF last_block
<1>3. hash(last) \in Digest
  BY <1>2, HashType
<1>4. txs \in Seq(Transaction)
  <2>1. Reward(n) \in Transaction
    BY DEF Transaction, Minted
  <2> QED
    BY <2>1
<1> HIDE DEF txs
<1>5. new = new_block(ch, txs, proof, hash(last_block(ch)), ts)
  BY DEF txs
<1>6. SoundChain(new)
  BY <1>1, <1>4, <1>5, MinedSound
<1>7. Rooted(new)
  BY <1>1, <1>4, <1>5, MinedRooted
<1> HIDE DEF last
<1>8. new = new_block(ch, txs, proof, hash(last), ts)
  BY <1>5 DEF last
<1>9. new \in Seq(Block) /\ Len(new) = Len(ch) + 1
  BY <1>3, <1>4, <1>8, NewBlock
<1>10. last_block(new).transactions = txs
  BY <1>3, <1>4, <1>8, NewestTransactions
<1>11. new = Append(ch, last_block(new))
  BY <1>3, <1>4, <1>8, NewestBlock
<1> QED
  BY <1>6, <1>7, <1>9, <1>10, <1>11 DEF txs, Trustworthy

LEMMA GenesisRooted ==
  ASSUME NEW ts \in Nat
  PROVE  Rooted(GenesisChain(ts))
<1> DEFINE g == GenesisChain(ts)
           b == BlockAt(1, << >>, 100, GenesisPreviousHash, ts)
<1>1. g = << b >>
  BY DEF GenesisChain, new_block, BlockAt
<1>2. hash(b) = << ContentOf(b) >>
  BY DEF hash, BlockAt, GenesisPreviousHash
<1> HIDE DEF g, b
<1>3. Len(g) = 1 /\ g[1] = b
  BY <1>1
<1>4. << ContentOf(b) >> = [k \in 1 .. 1 |-> ContentOf(g[k])]
  BY <1>3
<1>5. \A i \in 1 .. Len(g) : i = 1
  BY <1>3
<1> QED
  BY <1>2, <1>3, <1>4, <1>5 DEF Rooted, g

(* A block is its content and the digest it points at. *)
LEMMA SameFields ==
  ASSUME NEW x \in Block, NEW y \in Block,
         ContentOf(x) = ContentOf(y), x.previous_hash = y.previous_hash
  PROVE  x = y
<1>1. /\ ContentOf(x).index = x.index /\ ContentOf(y).index = y.index
      /\ ContentOf(x).timestamp = x.timestamp
      /\ ContentOf(y).timestamp = y.timestamp
      /\ ContentOf(x).transactions = x.transactions
      /\ ContentOf(y).transactions = y.transactions
      /\ ContentOf(x).proof = x.proof /\ ContentOf(y).proof = y.proof
  BY DEF ContentOf
<1>2. /\ x.index = y.index /\ x.timestamp = y.timestamp
      /\ x.transactions = y.transactions /\ x.proof = y.proof
  BY <1>1
<1> QED
  BY <1>2 DEF Block

(* Two blocks with the same digest rest on the same blocks. *)
LEMMA SameBlockSamePast ==
  ASSUME NEW c \in Seq(Block), NEW d \in Seq(Block),
         Trustworthy(c), Trustworthy(d),
         NEW i \in 1 .. Len(c), NEW j \in 1 .. Len(d), c[i] = d[j]
  PROVE  i = j /\ \A k \in 1 .. i : c[k] = d[k]
<1>1. Len(c) \in Nat /\ Len(d) \in Nat
  OBVIOUS
<1>2. i = j
  BY DEF Trustworthy, SoundChain
<1>3. \A k \in 1 .. i : ContentOf(c[k]) = ContentOf(d[k])
  <2>1. [k \in 1 .. i |-> ContentOf(c[k])] = [k \in 1 .. i |-> ContentOf(d[k])]
    BY <1>2 DEF Trustworthy, Rooted
  <2> QED
    BY <2>1
<1>4. \A k \in 1 .. i : c[k].previous_hash = d[k].previous_hash
  <2> SUFFICES ASSUME NEW k \in 1 .. i
               PROVE  c[k].previous_hash = d[k].previous_hash
    OBVIOUS
  <2>1. CASE k = 1
    BY <2>1 DEF Trustworthy, SoundChain
  <2>2. CASE k # 1
    <3>1. k \in 2 .. Len(c) /\ k \in 2 .. Len(d) /\ k - 1 \in 1 .. i
      BY <1>1, <1>2, <2>2
    <3>2. k - 1 \in 1 .. Len(c) /\ k - 1 \in 1 .. Len(d)
      BY <3>1, <1>1
    <3>3. hash(c[k - 1]) = [m \in 1 .. k - 1 |-> ContentOf(c[m])]
      BY <3>2 DEF Trustworthy, Rooted
    <3>4. hash(d[k - 1]) = [m \in 1 .. k - 1 |-> ContentOf(d[m])]
      BY <3>2 DEF Trustworthy, Rooted
    <3>5. \A m \in 1 .. k - 1 : ContentOf(c[m]) = ContentOf(d[m])
      BY <3>1, <1>1, <1>3
    <3>6. hash(c[k - 1]) = hash(d[k - 1])
      BY <3>3, <3>4, <3>5
    <3>7. /\ c[k].previous_hash = hash(c[k - 1])
          /\ d[k].previous_hash = hash(d[k - 1])
      BY <3>1 DEF Trustworthy, SoundChain, valid_chain
    <3> QED
      BY <3>6, <3>7
  <2> QED
    BY <2>1, <2>2
<1>5. \A k \in 1 .. i : c[k] \in Block /\ d[k] \in Block
  BY <1>1, <1>2
<1>6. \A x, y \in Block : ContentOf(x) = ContentOf(y)
                           /\ x.previous_hash = y.previous_hash => x = y
  BY SameFields
<1> QED
  BY <1>2, <1>3, <1>4, <1>5, <1>6
-----------------------------------------------------------------------------
(* Who mined what *)

(* Nothing is ahead of its miner, and stays so while chains grow. *)
LEMMA AheadGrows ==
  ASSUME NEW chains \in [Node -> Seq(Block)], NEW longer \in [Node -> Seq(Block)],
         \A n \in Node : Len(longer[n]) >= Len(chains[n]),
         NEW c \in Seq(Block), AheadOfNoMiner(c, chains)
  PROVE  AheadOfNoMiner(c, longer)
<1> SUFFICES ASSUME NEW i \in 1 .. Len(c), NEW n \in Node, MinedBy(c[i], n)
             PROVE  i <= Len(longer[n])
  BY DEF AheadOfNoMiner
<1>1. i <= Len(chains[n])
  BY DEF AheadOfNoMiner
<1>2. Len(longer[n]) \in Nat /\ Len(chains[n]) \in Nat /\ Len(c) \in Nat
  OBVIOUS
<1> QED
  BY <1>1, <1>2

(* The block a node puts on top of its chain is not ahead of it. *)
LEMMA MinedNotAhead ==
  ASSUME NEW chains \in [Node -> Seq(Block)], NEW n \in Node,
         NEW c \in Seq(Block), NEW top, NEW pool \in Seq(Transaction),
         Append(c, top) \in Seq(Block),
         top.transactions = Append(pool, Reward(n)),
         AheadOfNoMiner(c, chains),
         Len(chains[n]) = Len(c) + 1
  PROVE  AheadOfNoMiner(Append(c, top), chains)
<1> DEFINE new == Append(c, top)
<1>1. /\ Len(c) \in Nat
      /\ Len(new) = Len(c) + 1
      /\ \A i \in 1 .. Len(c) : new[i] = c[i]
      /\ new[Len(c) + 1] = top
  OBVIOUS
<1> HIDE DEF new
<1> SUFFICES ASSUME NEW i \in 1 .. Len(new), NEW m \in Node, MinedBy(new[i], m)
             PROVE  i <= Len(chains[m])
  BY DEF AheadOfNoMiner, new
<1>2. CASE i \in 1 .. Len(c)
  BY <1>1, <1>2 DEF AheadOfNoMiner
<1>3. CASE i = Len(c) + 1
  <2>1. top.transactions[Len(top.transactions)] = Reward(n)
    <3>1. Reward(n) \in Transaction
      BY DEF Transaction, Minted
    <3> QED
      BY <3>1
  <2>2. Reward(m) = Reward(n)
    BY <1>1, <1>3, <2>1 DEF MinedBy
  <2>3. Reward(m).recipient = m /\ Reward(n).recipient = n
    BY DEF Reward
  <2> QED
    BY <1>3, <2>2, <2>3, <1>1
<1> QED
  BY <1>1, <1>2, <1>3

(* A chain longer than a node's own ends with the block of another. *)
LEMMA LongerOfAnother ==
  ASSUME NEW chains \in [Node -> Seq(Block)], NEW n \in Node,
         NEW c \in Seq(Block), AheadOfNoMiner(c, chains),
         Len(c) > Len(chains[n])
  PROVE  ~ MinedBy(last_block(c), n)
<1>1. Len(c) \in Nat /\ Len(chains[n]) \in Nat
  OBVIOUS
<1>2. Len(c) \in 1 .. Len(c)
  BY <1>1
<1> QED
  BY <1>1, <1>2 DEF AheadOfNoMiner, last_block

(* Nobody has mined a first block. *)
LEMMA GenesisNotAhead ==
  ASSUME NEW chains, NEW ts \in Nat
  PROVE  AheadOfNoMiner(GenesisChain(ts), chains)
<1>1. /\ Len(GenesisChain(ts)) = 1
      /\ GenesisChain(ts)[1].transactions = << >>
  BY DEF GenesisChain, new_block
<1> QED
  BY <1>1 DEF AheadOfNoMiner, MinedBy

LEMMA EmptyNotAhead ==
  ASSUME NEW chains
  PROVE  AheadOfNoMiner(<< >>, chains)
BY DEF AheadOfNoMiner

-----------------------------------------------------------------------------
(* A transaction in the chains of a network and in the lists that wait *)

AtMostOne(S) == \A p, q \in S : p = q

(* Two places, one of them nowhere, are no two places. *)
LEMMA OnceCounted ==
  ASSUME NEW S, NEW T, AtMostOne(S), AtMostOne(T), S = {} \/ T = {}
  PROVE  Cardinality(S) + Cardinality(T) <= 1
<1>1. ASSUME NEW U, AtMostOne(U)
      PROVE  Cardinality(U) = 0 \/ Cardinality(U) = 1
  <2>1. CASE U = {}
    BY <2>1, FS_EmptySet
  <2>2. CASE U # {}
    <3>1. PICK x \in U : TRUE
      BY <2>2
    <3>2. U = {x}
      BY <1>1, <3>1 DEF AtMostOne
    <3> QED
      BY <3>2, FS_Singleton
  <2> QED
    BY <2>1, <2>2
<1>2. Cardinality({}) = 0
  BY FS_EmptySet
<1>3. CASE S = {}
  BY <1>1, <1>2, <1>3
<1>4. CASE T = {}
  BY <1>1, <1>2, <1>4
<1> QED
  BY <1>3, <1>4

LEMMA EmptyPlaces ==
  ASSUME NEW tx
  PROVE  PlacesInChain(<< >>, tx) = {} /\ PlacesIn(<< >>, tx) = {}
BY DEF PlacesInChain, PlacesIn

(* The places of tx in a list that has got longer by one. *)
LEMMA PlacesAppended ==
  ASSUME NEW txs \in Seq(Transaction), NEW new \in Transaction, NEW tx
  PROVE  PlacesIn(Append(txs, new), tx) =
           PlacesIn(txs, tx) \cup (IF new = tx THEN {Len(txs) + 1} ELSE {})
<1> DEFINE longer == Append(txs, new)
<1>1. /\ Len(txs) \in Nat
      /\ Len(longer) = Len(txs) + 1
      /\ \A k \in 1 .. Len(txs) : longer[k] = txs[k]
      /\ longer[Len(txs) + 1] = new
  OBVIOUS
<1> HIDE DEF longer
<1> QED
  BY <1>1 DEF PlacesIn, longer

LEMMA OtherAppended ==
  ASSUME NEW txs \in Seq(Transaction), NEW new \in Transaction, NEW tx, new # tx
  PROVE  PlacesIn(Append(txs, new), tx) = PlacesIn(txs, tx)
<1> DEFINE last == IF new = tx THEN {Len(txs) + 1} ELSE {}
<1>1. last = {}
  OBVIOUS
<1>2. PlacesIn(Append(txs, new), tx) = PlacesIn(txs, tx) \cup last
  BY PlacesAppended
<1> HIDE DEF last
<1> QED
  BY <1>1, <1>2

(* ... and in a chain that has got longer by a block. *)
LEMMA PlacesInLonger ==
  ASSUME NEW c \in Seq(Block), NEW b \in Block, NEW tx
  PROVE  PlacesInChain(Append(c, b), tx) =
           PlacesInChain(c, tx)
             \cup ({Len(c) + 1} \X PlacesIn(b.transactions, tx))
<1> DEFINE longer == Append(c, b)
<1>1. /\ Len(c) \in Nat
      /\ Len(longer) = Len(c) + 1
      /\ \A i \in 1 .. Len(c) : longer[i] = c[i]
      /\ longer[Len(c) + 1] = b
  OBVIOUS
<1>2. 1 .. Len(longer) = (1 .. Len(c)) \cup {Len(c) + 1}
  BY <1>1
<1> HIDE DEF longer
<1> DEFINE At(d, i) == {i} \X PlacesIn(d[i].transactions, tx)
<1>3. \A i \in 1 .. Len(c) : At(longer, i) = At(c, i)
  BY <1>1
<1>4. At(longer, Len(c) + 1) = {Len(c) + 1} \X PlacesIn(b.transactions, tx)
  BY <1>1
<1>5. /\ PlacesInChain(longer, tx) = UNION {At(longer, i) : i \in 1 .. Len(longer)}
      /\ PlacesInChain(c, tx) = UNION {At(c, i) : i \in 1 .. Len(c)}
  BY DEF PlacesInChain
<1> HIDE DEF At
<1> QED
  BY <1>2, <1>3, <1>4, <1>5 DEF longer

(***************************************************************************)
(* tx is at most once anywhere: in a chain that is held or in a list that  *)
(* waits, and while it waits at a node it is in no other list or chain.    *)
(***************************************************************************)
OnceAnywhere(held, waiting, tx) ==
  /\ \A c \in held : AtMostOne(PlacesInChain(c, tx))
  /\ \A n \in Node : AtMostOne(PlacesIn(waiting[n], tx))
  /\ \A n \in Node : PlacesIn(waiting[n], tx) # {} =>
       /\ \A m \in Node : PlacesIn(waiting[m], tx) # {} => m = n
       /\ \A c \in held : PlacesInChain(c, tx) = {}

Nowhere(held, waiting, tx) ==
  /\ \A c \in held : PlacesInChain(c, tx) = {}
  /\ \A n \in Node : PlacesIn(waiting[n], tx) = {}

(* Chains are passed on, replaced and forgotten. *)
LEMMA PassedOnOnce ==
  ASSUME NEW held, NEW later, NEW waiting, NEW tx,
         \A c \in later : c \in held \/ PlacesInChain(c, tx) = {}
  PROVE  /\ OnceAnywhere(held, waiting, tx) => OnceAnywhere(later, waiting, tx)
         /\ Nowhere(held, waiting, tx) => Nowhere(later, waiting, tx)
BY DEF OnceAnywhere, Nowhere, AtMostOne

(* A node accepts tx, which was nowhere. *)
LEMMA AcceptedOnce ==
  ASSUME NEW held, NEW waiting \in [Node -> Seq(Transaction)],
         NEW n \in Node, NEW tx \in Transaction, NEW later,
         later = [waiting EXCEPT ![n] = Append(@, tx)],
         Nowhere(held, waiting, tx)
  PROVE  OnceAnywhere(held, later, tx)
<1>1. \A m \in Node : m # n => later[m] = waiting[m]
  OBVIOUS
<1>2. PlacesIn(later[n], tx) = {Len(waiting[n]) + 1}
  <2>1. later[n] = Append(waiting[n], tx) /\ PlacesIn(waiting[n], tx) = {}
    BY DEF Nowhere
  <2> QED
    BY <2>1, PlacesAppended
<1> QED
  BY <1>1, <1>2 DEF OnceAnywhere, Nowhere, AtMostOne

(* A node puts all that waits there and its reward into a block that lands *)
(* on a chain that is held; what waited there waits no more.               *)
LEMMA MinedOnce ==
  ASSUME NEW held \in SUBSET Seq(Block), NEW later,
         NEW waiting \in [Node -> Seq(Transaction)], NEW n \in Node,
         NEW tx, tx \notin Minted, NEW old \in held, NEW b \in Block,
         b.transactions = Append(waiting[n], Reward(n)),
         \A c \in later : c \in held \/ c = Append(old, b),
         NEW rest, rest = [waiting EXCEPT ![n] = << >>]
  PROVE  /\ OnceAnywhere(held, waiting, tx) => OnceAnywhere(later, rest, tx)
         /\ Nowhere(held, waiting, tx) => Nowhere(later, rest, tx)
<1>1. Reward(n) \in Transaction /\ Reward(n) # tx
  BY DEF Transaction, Minted
<1>2. PlacesIn(b.transactions, tx) = PlacesIn(waiting[n], tx)
  <2>1. waiting[n] \in Seq(Transaction)
    OBVIOUS
  <2>2. PlacesIn(Append(waiting[n], Reward(n)), tx) = PlacesIn(waiting[n], tx)
    BY <1>1, <2>1, OtherAppended
  <2> QED
    BY <2>2
<1>3. PlacesInChain(Append(old, b), tx) =
        PlacesInChain(old, tx) \cup ({Len(old) + 1} \X PlacesIn(waiting[n], tx))
  <2>1. old \in Seq(Block)
    OBVIOUS
  <2>2. PlacesInChain(Append(old, b), tx) =
          PlacesInChain(old, tx) \cup ({Len(old) + 1} \X PlacesIn(b.transactions, tx))
    BY <2>1, PlacesInLonger
  <2> QED
    BY <1>2, <2>2
<1>4. PlacesIn(rest[n], tx) = {}
  BY DEF PlacesIn
<1>5. \A m \in Node : m # n => rest[m] = waiting[m]
  OBVIOUS
<1>6. ASSUME OnceAnywhere(held, waiting, tx) PROVE OnceAnywhere(later, rest, tx)
  <2>1. CASE PlacesIn(waiting[n], tx) = {}
    <3>1. PlacesInChain(Append(old, b), tx) = PlacesInChain(old, tx)
      BY <1>3, <2>1
    <3> QED
      BY <1>4, <1>5, <1>6, <3>1 DEF OnceAnywhere, AtMostOne
  <2>2. CASE PlacesIn(waiting[n], tx) # {}
    <3>1. PlacesInChain(Append(old, b), tx) =
            {Len(old) + 1} \X PlacesIn(waiting[n], tx)
      BY <1>3, <1>6, <2>2 DEF OnceAnywhere
    <3>2. AtMostOne(PlacesInChain(Append(old, b), tx))
      BY <1>6, <3>1 DEF OnceAnywhere, AtMostOne
    <3>3. \A m \in Node : PlacesIn(rest[m], tx) = {}
      BY <1>4, <1>5, <1>6, <2>2 DEF OnceAnywhere
    <3>4. \A c \in later : AtMostOne(PlacesInChain(c, tx))
      BY <1>6, <3>2 DEF OnceAnywhere
    <3> QED
      BY <3>3, <3>4 DEF OnceAnywhere, AtMostOne
  <2> QED
    BY <2>1, <2>2
<1>7. ASSUME Nowhere(held, waiting, tx) PROVE Nowhere(later, rest, tx)
  <2>1. PlacesInChain(Append(old, b), tx) = {}
    BY <1>3, <1>7 DEF Nowhere
  <2> QED
    BY <1>4, <1>5, <1>7, <2>1 DEF Nowhere
<1> QED
  BY <1>6, <1>7

-----------------------------------------------------------------------------
(* A block with a proof for, and a link to, the last keeps a chain valid. *)
LEMMA ValidAppended ==
  ASSUME NEW ch \in Seq(Block), Len(ch) >= 1, valid_chain(ch), NEW b \in Block,
         b.previous_hash = hash(last_block(ch)),
         valid_proof(last_block(ch).proof, b.proof, hash(last_block(ch)))
  PROVE  /\ Append(ch, b) \in Seq(Block)
         /\ Len(Append(ch, b)) >= 1
         /\ last_block(Append(ch, b)) = b
         /\ valid_chain(Append(ch, b))
<1> DEFINE new == Append(ch, b)
<1>1. /\ new \in Seq(Block)
      /\ Len(new) = Len(ch) + 1
      /\ new[Len(ch) + 1] = b
      /\ \A i \in 1 .. Len(ch) : new[i] = ch[i]
  OBVIOUS
<1> HIDE DEF new
<1>2. ASSUME NEW i \in 2 .. Len(new)
      PROVE  /\ new[i].previous_hash = hash(new[i - 1])
             /\ valid_proof(new[i - 1].proof, new[i].proof, hash(new[i - 1]))
  <2>1. CASE i = Len(ch) + 1
    <3>1. new[i] = b /\ new[i - 1] = last_block(ch)
      BY <1>1, <2>1 DEF last_block
    <3> QED
      BY <3>1
  <2>2. CASE i \in 2 .. Len(ch)
    <3>1. new[i] = ch[i] /\ new[i - 1] = ch[i - 1]
      BY <1>1, <2>2
    <3> QED
      BY <2>2, <3>1 DEF valid_chain
  <2> QED
    BY <1>1, <2>1, <2>2
<1>3. valid_chain(new)
  BY <1>2 DEF valid_chain
<1> QED
  BY <1>1, <1>3 DEF new, last_block

=============================================================================
