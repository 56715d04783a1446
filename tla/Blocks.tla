------------------------------- MODULE Blocks -------------------------------
(***************************************************************************)
(* The data every port of the program shares: transactions, blocks, the    *)
(* hash of a block, the proof of work and the test of a whole chain.       *)
(* The functions are static in the code and read nothing but their         *)
(* arguments, so they are operators here.                                  *)
(***************************************************************************)
EXTENDS Naturals, Sequences

CONSTANTS
  UserTransaction,        \* what clients post to /transactions/new
  Node,                   \* the running nodes, named by their node identifier
  Difficulty,             \* leading zero digits valid_proof asks for
  MaxProof,               \* largest proof the search reaches (int64_t in the code)
  LeadingZeros(_, _, _)   \* zeroes SHA-256 gives for (last_proof, proof, last_hash)

ASSUME BlocksAssumption ==
  /\ Difficulty \in Nat
  /\ MaxProof \in Nat

-----------------------------------------------------------------------------
(* Transactions *)

Reward(n) == [sender |-> "0", recipient |-> n, amount |-> 1]

(* What the JavaScript port stores for a request that lacks its fields. *)
UndefinedTransaction ==
  [sender |-> "undefined", recipient |-> "undefined", amount |-> 0]

(* The transactions that nodes make, which no client need have posted. *)
Minted == {Reward(n) : n \in Node} \cup {UndefinedTransaction}

Transaction == UserTransaction \cup Minted

-----------------------------------------------------------------------------
(***************************************************************************)
(* Blocks and digests.  SHA-256 of the JSON text of a block is read as     *)
(* collision free: the digest of a block is the sequence of the contents   *)
(* of the blocks it rests on, ending with its own.  Two blocks then have   *)
(* the same digest only if they are the same block with the same past.     *)
(***************************************************************************)
Content ==
  [index: Nat, timestamp: Nat, transactions: Seq(Transaction), proof: Nat]

Digest == Seq(Content)

Block ==
  [index: Nat, timestamp: Nat, transactions: Seq(Transaction), proof: Nat,
   previous_hash: Digest]

(* The fields of a block its digest adds to the digest it points to. *)
ContentOf(b) ==
  [index |-> b.index, timestamp |-> b.timestamp,
   transactions |-> b.transactions, proof |-> b.proof]

hash(b) == Append(b.previous_hash, ContentOf(b))

(* The previous_hash "1" of a first block: the digest of nothing. *)
GenesisPreviousHash == << >>

-----------------------------------------------------------------------------
(* Proof of work *)

valid_proof(last_proof, proof, last_hash) ==
  LeadingZeros(last_proof, proof, last_hash) >= Difficulty

(* proof_of_work(last) counts up from 0 and returns the first valid proof. *)
FoundByProofOfWork(last, proof) ==
  /\ valid_proof(last.proof, proof, hash(last))
  /\ \A p \in 0 .. (proof - 1) : ~ valid_proof(last.proof, p, hash(last))

-----------------------------------------------------------------------------
(* Chains *)

last_block(chain) == chain[Len(chain)]

(* A plausible bug: the first block is counted as number 0. *)
new_block_counted_from_0(chain, transactions, proof, previous_hash, timestamp) ==
  Append(chain, [index         |-> Len(chain),
                 timestamp     |-> timestamp,
                 transactions  |-> transactions,
                 proof         |-> proof,
                 previous_hash |-> previous_hash])

(***************************************************************************)
(* new_block: the block appended to chain, made of the transactions in     *)
(* hand.  Every handler passes the previous_hash it computed, so the       *)
(* default the code has for an empty one is never taken.                   *)
(***************************************************************************)
new_block(chain, transactions, proof, previous_hash, timestamp) ==
  Append(chain, [index         |-> Len(chain) + 1,
                 timestamp     |-> timestamp,
                 transactions  |-> transactions,
                 proof         |-> proof,
                 previous_hash |-> previous_hash])

(* The constructor: an empty chain, then new_block(100, "1"). *)
GenesisChain(timestamp) ==
  new_block(<< >>, << >>, 100, GenesisPreviousHash, timestamp)

(* Every block but the first points at, and has a proof for, the one before. *)
valid_chain(chain) ==
  \A i \in 2 .. Len(chain) :
    /\ chain[i].previous_hash = hash(chain[i - 1])
    /\ valid_proof(chain[i - 1].proof, chain[i].proof, hash(chain[i - 1]))

-----------------------------------------------------------------------------
(* What should hold of a chain *)

(***************************************************************************)
(* A chain as its users understand it: it passes valid_chain, the index    *)
(* of a block is its place (valid_chain never looks at it), and it starts  *)
(* from the digest of nothing.                                             *)
(***************************************************************************)
SoundChain(c) ==
  /\ Len(c) >= 1
  /\ valid_chain(c)
  /\ \A i \in 1 .. Len(c) : c[i].index = i
  /\ c[1].previous_hash = GenesisPreviousHash

(* A digest names the whole past of its block, as it does in a chain *)
(* mined block by block.                                             *)
Rooted(c) ==
  \A i \in 1 .. Len(c) : hash(c[i]) = [k \in 1 .. i |-> ContentOf(c[k])]

Trustworthy(c) == SoundChain(c) /\ Rooted(c)

(* Where a transaction is in a list of transactions, and in a chain. *)
PlacesIn(transactions, tx) ==
  {k \in 1 .. Len(transactions) : transactions[k] = tx}

PlacesInChain(c, tx) ==
  UNION {{i} \X PlacesIn(c[i].transactions, tx) : i \in 1 .. Len(c)}

-----------------------------------------------------------------------------
(* Who mined what *)

(* The last transaction of a block rewards the node that mined it. *)
MinedBy(block, n) ==
  /\ block.transactions # << >>
  /\ block.transactions[Len(block.transactions)] = Reward(n)

(* c has no block of a node higher up than the node's own chain reaches. *)
AheadOfNoMiner(c, chains) ==
  \A i \in 1 .. Len(c), n \in Node : MinedBy(c[i], n) => i <= Len(chains[n])
=============================================================================
