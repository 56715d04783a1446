----------------------------- MODULE PyThreaded -----------------------------
(***************************************************************************)
(* The Python node with threaded=True: a thread per request, switched      *)
(* between any two byte codes, and no lock but the interpreter's.  A list  *)
(* is an object: whoever fetched it before an attribute was assigned anew  *)
(* goes on with the old one, and a block holds the list of transactions    *)
(* itself, not a copy, so that a late append changes a block that is in    *)
(* the chain.                                                              *)
(*                                                                         *)
(* self.chain and self.current_transactions are only ever assigned new     *)
(* lists, so the last one made is the one the attribute names.             *)
(***************************************************************************)
EXTENDS Blocks, FiniteSets

CONSTANTS
  Thread,       \* threads that run /mine, /transactions/new and /nodes/resolve
  Home,         \* the node each of them belongs to
  Requests,     \* bound: the requests each of them is given
  Registered,   \* the hosts clients register at each node, one after the other
  BootTime,     \* when each node started: the timestamp of its first block
  FirstTick,    \* the time of the first block stamped after that
  LastTick      \* bound: no block is stamped from this time on

(* Hosts a node can register: a node, or another server. *)
Peer == Node \cup {"elsewhere"}

ASSUME ThreadedAssumption ==
  /\ Home \in [Thread -> Node]
  /\ Requests \in [Thread -> SUBSET {"post", "mine", "resolve"}]
  /\ Registered \in [Node -> Seq(Peer)]
  /\ BootTime \in [Node -> Nat]
  /\ FirstTick \in Nat
  /\ LastTick \in Nat

VARIABLES
  chains,      \* chains[n]: the lists of blocks made at n, the last self.chain
  lists,       \* lists[n]: the lists of transactions made at n, the last
               \* self.current_transactions
  nodes,       \* nodes[n]: the peers registered at n
  thread,      \* thread[t]: the handler t runs and its local variables
  clock,       \* advances whenever a block is stamped
  posted,      \* the transactions clients have posted
  overlapped   \* overlapped[n]: what has been in progress together with a mine

vars == << chains, lists, nodes, thread, clock, posted, overlapped >>

(* A block in a list of blocks: its transactions are those of the list of *)
(* that number, or of its own if it was received (number 0).              *)
Entry == [block: Block, list: Nat]

Received(chain) == [i \in 1 .. Len(chain) |-> [block |-> chain[i], list |-> 0]]

NoBlock ==
  [index |-> 0, timestamp |-> 0, transactions |-> << >>, proof |-> 0,
   previous_hash |-> GenesisPreviousHash]

NoEntry == [block |-> NoBlock, list |-> 0]

Idle(t) ==
  [pc |-> "idle", last |-> NoEntry, entry |-> NoEntry, list |-> 0, chain |-> 0,
   tx |-> Reward(Home[t]), left |-> {}, known |-> {}, peer |-> "elsewhere",
   max_length |-> 0, new_chain |-> << >>, reply |-> << >>, length |-> 0]

Mining ==
  {"hashing", "found", "rewarding", "rewarded", "hashed",
   "taken", "reset", "appending"}

Resolving == {"looping", "asking", "serving", "serialising", "answered"}

Work ==
  [pc: {"idle", "posting"} \cup Mining \cup Resolving,
   last: Entry, entry: Entry, list: Nat, chain: Nat, tx: Transaction,
   left: SUBSET Peer, known: SUBSET Peer, peer: Peer, max_length: Nat,
   new_chain: Seq(Block), reply: Seq(Block), length: Nat]

TypeOK ==
  /\ chains \in [Node -> Seq(Seq(Entry))]
  /\ lists \in [Node -> Seq(Seq(Transaction))]
  /\ nodes \in [Node -> SUBSET Peer]
  /\ thread \in [Thread -> Work]
  /\ clock \in Nat
  /\ posted \subseteq UserTransaction
  /\ overlapped \in [Node -> SUBSET {"mine", "other"}]

Init ==
  /\ chains = [n \in Node |-> << Received(GenesisChain(BootTime[n])) >>]
  /\ lists = [n \in Node |-> << << >> >>]
  /\ nodes = [n \in Node |-> {}]
  /\ thread = [t \in Thread |-> Idle(t)]
  /\ clock = FirstTick
  /\ posted = {}
  /\ overlapped = [n \in Node |-> {}]

-----------------------------------------------------------------------------
(* self.chain and self.current_transactions, and a block as it is by now *)

CurrentChain(n) == last_block(chains[n])
CurrentList(n) == Len(lists[n])

Now(n, entry) ==
  IF entry.list = 0
    THEN entry.block
    ELSE [entry.block EXCEPT !.transactions = lists[n][entry.list]]

BlocksNow(n) ==
  [i \in 1 .. Len(CurrentChain(n)) |-> Now(n, CurrentChain(n)[i])]

(* Threads *)

Local(n) == {t \in Thread : Home[t] = n}

Others(t) == {u \in Thread \ {t} : Home[u] = Home[t] /\ thread[u].pc # "idle"}

Accepts(t, request) == thread[t].pc = "idle" /\ request \in Requests[t]

(* The handler of t goes on with work; entered, it may overlap a mine. *)
Goes(t, work) == thread' = [thread EXCEPT ![t] = work]

Enters(t, pc) ==
  LET mines(u) == thread[u].pc \in Mining
  IN  overlapped' = [overlapped EXCEPT ![Home[t]] = @ \cup
        IF pc \in Mining
          THEN {IF mines(u) THEN "mine" ELSE "other" : u \in Others(t)}
          ELSE {"other" : u \in {v \in Others(t) : mines(v)}}]

-----------------------------------------------------------------------------
(* new_transaction: the list is fetched ... *)
FetchList(t, pc) ==
  Goes(t, [thread[t] EXCEPT !.pc = pc, !.list = CurrentList(Home[t])])

(* ... and appended to, which a block may hold by then. *)
AppendTransaction(t) ==
  lists' = [lists EXCEPT ![Home[t]][thread[t].list] = Append(@, thread[t].tx)]

(* POST /transactions/new *)
PostStarts(t, tx) ==
  /\ Accepts(t, "post")
  /\ tx \notin posted
  /\ posted' = posted \cup {tx}
  /\ Goes(t, [Idle(t) EXCEPT !.pc = "posting", !.tx = tx,
                             !.list = CurrentList(Home[t])])
  /\ Enters(t, "posting")
  /\ UNCHANGED << chains, lists, nodes, clock >>

PostAppends(t) ==
  /\ thread[t].pc = "posting"
  /\ AppendTransaction(t)
  /\ Goes(t, Idle(t))
  /\ UNCHANGED << chains, nodes, clock, posted, overlapped >>

(* POST /nodes/register adds one address of its body after the other; one *)
(* that is in the set already changes nothing.                            *)
Register(n, i) ==
  /\ Registered[n][i] \notin nodes[n]
  /\ \A k \in 1 .. i - 1 : Registered[n][k] \in nodes[n]
  /\ nodes' = [nodes EXCEPT ![n] = @ \cup {Registered[n][i]}]
  /\ UNCHANGED << chains, lists, thread, clock, posted, overlapped >>

-----------------------------------------------------------------------------
(* GET /mine *)

(* The mines whose block will be stamped. *)
Unstamped ==
  {t \in Thread : thread[t].pc \in {"hashing", "found", "rewarding", "rewarded",
                                   "hashed"}}

MineStarts(t) ==
  /\ Accepts(t, "mine")
  /\ clock + Cardinality(Unstamped) < LastTick
  /\ Goes(t, [Idle(t) EXCEPT !.pc = "hashing",
                             !.last = last_block(CurrentChain(Home[t]))])
  /\ Enters(t, "hashing")
  /\ UNCHANGED << chains, lists, nodes, clock, posted >>

(* A plausible bug: the search returns the number after the proof. *)
MineSearchesOneTooFar(t) ==
  /\ thread[t].pc = "hashing"
  /\ \E proof \in 0 .. MaxProof :
       /\ FoundByProofOfWork(Now(Home[t], thread[t].last), proof)
       /\ Goes(t, [thread[t] EXCEPT !.pc = "found",
                                     !.entry.block.proof = proof + 1])
  /\ UNCHANGED << chains, lists, nodes, clock, posted, overlapped >>

(* proof_of_work: the digest is that of the block as it is now. *)
MineSearches(t) ==
  /\ thread[t].pc = "hashing"
  /\ \E proof \in 0 .. MaxProof :
       /\ FoundByProofOfWork(Now(Home[t], thread[t].last), proof)
       /\ Goes(t, [thread[t] EXCEPT !.pc = "found", !.entry.block.proof = proof])
  /\ UNCHANGED << chains, lists, nodes, clock, posted, overlapped >>

MineFetches(t) ==
  /\ thread[t].pc = "found"
  /\ FetchList(t, "rewarding")
  /\ UNCHANGED << chains, lists, nodes, clock, posted, overlapped >>

MineRewards(t) ==
  /\ thread[t].pc = "rewarding"
  /\ AppendTransaction(t)
  /\ Goes(t, [thread[t] EXCEPT !.pc = "rewarded"])
  /\ UNCHANGED << chains, nodes, clock, posted, overlapped >>

(* previous_hash = blockchain.hash(last_block): hashed for the second time. *)
MineHashes(t) ==
  /\ thread[t].pc = "rewarded"
  /\ Goes(t, [thread[t] EXCEPT
       !.pc = "hashed",
       !.entry.block.previous_hash = hash(Now(Home[t], thread[t].last))])
  /\ UNCHANGED << chains, lists, nodes, clock, posted, overlapped >>

(* A plausible bug: the list is taken when it has been replaced. *)
MineTakesNext(t) ==
  /\ thread[t].pc = "hashed"
  /\ Goes(t, [thread[t] EXCEPT
       !.pc = "taken",
       !.entry.block.index = Len(CurrentChain(Home[t])) + 1,
       !.entry.block.timestamp = clock,
       !.entry.list = CurrentList(Home[t]) + 1])
  /\ clock' = clock + 1
  /\ UNCHANGED << chains, lists, nodes, posted, overlapped >>

(***************************************************************************)
(* new_block makes the block of the length of the chain, the time and the  *)
(* list of transactions.  What runs between these reads could run before   *)
(* or after them, but for a whole mine, which would change only the index. *)
(***************************************************************************)
MineTakes(t) ==
  /\ thread[t].pc = "hashed"
  /\ Goes(t, [thread[t] EXCEPT
       !.pc = "taken",
       !.entry.block.index = Len(CurrentChain(Home[t])) + 1,
       !.entry.block.timestamp = clock,
       !.entry.list = CurrentList(Home[t])])
  /\ clock' = clock + 1
  /\ UNCHANGED << chains, lists, nodes, posted, overlapped >>

(* A plausible bug: the list is not reset. *)
MineResetsNothing(t) ==
  /\ thread[t].pc = "taken"
  /\ Goes(t, [thread[t] EXCEPT !.pc = "reset"])
  /\ UNCHANGED << chains, lists, nodes, clock, posted, overlapped >>

(* ... a new list in its place ... *)
MineResets(t) ==
  /\ thread[t].pc = "taken"
  /\ lists' = [lists EXCEPT ![Home[t]] = Append(@, << >>)]
  /\ Goes(t, [thread[t] EXCEPT !.pc = "reset"])
  /\ UNCHANGED << chains, nodes, clock, posted, overlapped >>

(* ... and the chain that the block is appended to, current or not. *)
MineFetchesChain(t) ==
  /\ thread[t].pc = "reset"
  /\ Goes(t, [thread[t] EXCEPT !.pc = "appending",
                               !.chain = Len(chains[Home[t]])])
  /\ UNCHANGED << chains, lists, nodes, clock, posted, overlapped >>

MineAppends(t) ==
  /\ thread[t].pc = "appending"
  /\ chains' = [chains EXCEPT ![Home[t]][thread[t].chain] =
                  Append(@, thread[t].entry)]
  /\ Goes(t, Idle(t))
  /\ UNCHANGED << lists, nodes, clock, posted, overlapped >>

-----------------------------------------------------------------------------
(* GET /nodes/resolve *)

(* The loop runs over the live set, which it remembers the size of. *)
ResolveStarts(t) ==
  LET n == Home[t]
  IN  /\ Accepts(t, "resolve")
      /\ Goes(t, [Idle(t) EXCEPT !.pc = "looping", !.left = nodes[n],
                                 !.known = nodes[n],
                                 !.max_length = Len(CurrentChain(n))])
      /\ Enters(t, "looping")
      /\ UNCHANGED << chains, lists, nodes, clock, posted >>

(* The set has changed its size during the iteration: RuntimeError. *)
ResolveRaises(t) ==
  /\ thread[t].pc = "looping"
  /\ nodes[Home[t]] # thread[t].known
  /\ Goes(t, Idle(t))
  /\ UNCHANGED << chains, lists, nodes, clock, posted, overlapped >>

ResolveAsks(t) ==
  /\ thread[t].pc = "looping"
  /\ nodes[Home[t]] = thread[t].known
  /\ \E peer \in thread[t].left :
       Goes(t, [thread[t] EXCEPT !.pc = "asking", !.peer = peer,
                                 !.left = @ \ {peer}])
  /\ UNCHANGED << chains, lists, nodes, clock, posted, overlapped >>

ResolveEnds(t) ==
  LET work == thread[t]
  IN  /\ work.pc = "looping"
      /\ nodes[Home[t]] = work.known
      /\ work.left = {}
      /\ chains' = IF work.new_chain = << >> THEN chains
                   ELSE [chains EXCEPT ![Home[t]] =
                           Append(@, Received(work.new_chain))]
      /\ Goes(t, Idle(t))
      /\ UNCHANGED << lists, nodes, clock, posted, overlapped >>

(* GET /chain at the neighbour, in a thread of its own: it fetches the     *)
(* chain, ...                                                              *)
FullChain(t) ==
  /\ thread[t].pc = "asking"
  /\ thread[t].peer \in Node
  /\ Goes(t, [thread[t] EXCEPT !.pc = "serving",
                               !.chain = Len(chains[thread[t].peer])])
  /\ UNCHANGED << chains, lists, nodes, clock, posted, overlapped >>

(* ... the length of the chain, which may be another one by then, ... *)
FullChainLength(t) ==
  /\ thread[t].pc = "serving"
  /\ Goes(t, [thread[t] EXCEPT !.pc = "serialising",
                               !.length = Len(CurrentChain(thread[t].peer))])
  /\ UNCHANGED << chains, lists, nodes, clock, posted, overlapped >>

(* ... and serialises the first one block by block, for as long as there   *)
(* is another: jsonify indents, which the encoder does in byte code.       *)
Serialise(t) ==
  LET work == thread[t]
      chain == chains[work.peer][work.chain]
      done == Len(work.reply)
  IN  /\ work.pc = "serialising"
      /\ Goes(t, IF done < Len(chain)
                   THEN [work EXCEPT !.reply =
                           Append(@, Now(work.peer, chain[done + 1]))]
                   ELSE [work EXCEPT !.pc = "answered"])
      /\ UNCHANGED << chains, lists, nodes, clock, posted, overlapped >>

(* A plausible bug: the longest chain wins, valid or not. *)
BetterUnvalidated(work) == work.length > work.max_length

(* What the neighbour calls its length is greater, and its chain is valid. *)
Better(work) == work.length > work.max_length /\ valid_chain(work.reply)

ResumeResolve(t) ==
  LET work == thread[t]
      next == [work EXCEPT !.pc = "looping", !.reply = << >>, !.length = 0,
                           !.chain = 0]
  IN  /\ work.pc = "answered"
      /\ Goes(t, IF Better(work)
                   THEN [next EXCEPT !.max_length = work.length,
                                     !.new_chain = work.reply]
                   ELSE next)
      /\ UNCHANGED << chains, lists, nodes, clock, posted, overlapped >>

(* The answer has a status that is not 200: the neighbour is passed over. *)
NotOK(t) ==
  /\ thread[t].pc = "asking"
  /\ Goes(t, [thread[t] EXCEPT !.pc = "looping"])
  /\ UNCHANGED << chains, lists, nodes, clock, posted, overlapped >>

(* requests.get or json() raises: what was found is forgotten. *)
RequestFails(t) ==
  /\ thread[t].pc \in {"asking", "serving", "serialising", "answered"}
  /\ Goes(t, Idle(t))
  /\ UNCHANGED << chains, lists, nodes, clock, posted, overlapped >>

-----------------------------------------------------------------------------
Next ==
  \/ \E n \in Node : \E i \in 1 .. Len(Registered[n]) : Register(n, i)
  \/ \E t \in Thread :
       \/ \E tx \in UserTransaction : PostStarts(t, tx)
       \/ PostAppends(t)
       \/ MineStarts(t)
       \/ MineSearches(t)
       \/ MineFetches(t)
       \/ MineRewards(t)
       \/ MineHashes(t)
       \/ MineTakes(t)
       \/ MineResets(t)
       \/ MineFetchesChain(t)
       \/ MineAppends(t)
       \/ ResolveStarts(t)
       \/ ResolveRaises(t)
       \/ ResolveAsks(t)
       \/ ResolveEnds(t)
       \/ FullChain(t)
       \/ FullChainLength(t)
       \/ Serialise(t)
       \/ ResumeResolve(t)
       \/ NotOK(t)
       \/ RequestFails(t)

Spec == Init /\ [][Next]_vars

-----------------------------------------------------------------------------
(* What holds although nothing is locked *)

(* No mine of n has been in progress together with another handler of n, *)
(* or none with another mine.  Peers may be served at any time.          *)
Quiet(n) == overlapped[n] = {}
SoleMiner(n) == "mine" \notin overlapped[n]

(***************************************************************************)
(* The chain of a quiet node is valid, also while its peers have broken    *)
(* theirs and serve chains that change under the serialisation.            *)
(***************************************************************************)
QuietNodesAreValid == \A n \in Node : Quiet(n) => valid_chain(BlocksNow(n))

(* The lists of transactions that blocks of n hold, finished ones and those *)
(* about to be appended, in the chain of now and in those before it.        *)
HeldByBlocks(n) ==
  {thread[t].entry.list : t \in Local(n)} \cup
  UNION {{chains[n][k][i].list : i \in 1 .. Len(chains[n][k])} :
           k \in 1 .. Len(chains[n])}

(***************************************************************************)
(* No transaction is lost while a node mines one block at a time, however  *)
(* posts and resolves overlap it: a list of transactions gives way to a    *)
(* new one only when a block holds it, and a late append still reaches it. *)
(* About the reset in new_block, in which two mines may drop a list.       *)
(***************************************************************************)
SoleMinersLoseNothing ==
  \A n \in Node : SoleMiner(n) =>
    \A k \in 1 .. Len(lists[n]) - 1 : k \in HeldByBlocks(n)

(***************************************************************************)
(* A transaction posted once is never twice in what such a node believes,  *)
(* although two mines of a neighbour may put one list into two blocks: the *)
(* chain that has both is not valid and stays where it is.                 *)
(***************************************************************************)
SoleMinersDoubleNothing ==
  \A n \in Node, tx \in UserTransaction \ Minted : SoleMiner(n) =>
    Cardinality(PlacesInChain(BlocksNow(n), tx))
      + Cardinality(PlacesIn(last_block(lists[n]), tx)) <= 1

(***************************************************************************)
(* A chain taken over is valid, although the neighbour may have given the  *)
(* length of another one and changed its blocks while it wrote them.       *)
(***************************************************************************)
OnlyValidAdopted ==
  [][\A n \in Node :
       Len(chains'[n]) > Len(chains[n]) => valid_chain(BlocksNow(n)')]_vars

(* Every list that a thread or a block of n names has been made, and a list *)
(* in the hands of a mine is not the current one once it has been reset.    *)
NodeNames(n) ==
  /\ Len(lists[n]) >= 1
  /\ Len(chains[n]) >= 1
  /\ \A k \in 1 .. Len(chains[n]) :
       /\ Len(chains[n][k]) >= 1
       /\ \A i \in 1 .. Len(chains[n][k]) : chains[n][k][i].list <= CurrentList(n)

ThreadNames(t) ==
  LET work == thread[t]
      current == CurrentList(Home[t])
  IN  /\ work.list <= current
      /\ work.last.list <= current
      /\ work.pc \in {"posting", "rewarding"} => work.list >= 1
      /\ IF work.pc \in {"taken", "reset", "appending"}
           THEN work.entry.list \in 1 .. current
           ELSE work.entry.list = 0
      /\ work.pc \in {"reset", "appending"} => work.entry.list < current
      /\ work.pc = "appending" => work.chain \in 1 .. Len(chains[Home[t]])
      /\ work.pc \in {"serving", "serialising"} =>
           work.peer \in Node /\ work.chain \in 1 .. Len(chains[work.peer])
      /\ valid_chain(work.new_chain)

(* While n mines one block at a time, a list gives way only to a mine that *)
(* has it in hand.                                                         *)
HandedOver(n) ==
  /\ \A t, u \in Local(n) :
       thread[t].pc \in Mining /\ thread[u].pc \in Mining => t = u
  /\ \A k \in 1 .. CurrentList(n) - 1 : k \in HeldByBlocks(n)
  /\ \A t \in Local(n) :
       thread[t].pc = "taken" => thread[t].entry.list = CurrentList(n)

(* While nothing overlaps the mines of n, what a handler of t has read is *)
(* still so: the list, the last block with its proof and digest, the chain. *)
MineInOrder(t) ==
  LET n == Home[t]
      work == thread[t]
      last == last_block(CurrentChain(n))
      now == Now(n, last)
  IN  /\ work.pc \in {"posting", "rewarding"} => work.list = CurrentList(n)
      /\ work.pc \in {"hashing", "found", "rewarding", "rewarded"} =>
           work.last = last
      /\ work.pc \in Mining \ {"hashing"} =>
           valid_proof(now.proof, work.entry.block.proof, hash(now))
      /\ work.pc \in {"hashed", "taken", "reset", "appending"} =>
           work.entry.block.previous_hash = hash(now)
      /\ work.pc = "appending" => work.chain = Len(chains[n])

(* ... and no block of the chain names the list that appends go to. *)
Undisturbed(n) ==
  /\ \A t, u \in Local(n) :
       t # u /\ thread[t].pc \in Mining => thread[u].pc = "idle"
  /\ valid_chain(BlocksNow(n))
  /\ \A i \in 1 .. Len(CurrentChain(n)) : CurrentChain(n)[i].list < CurrentList(n)
  /\ \A t \in Local(n) : MineInOrder(t)

(***************************************************************************)
(* The inductive invariant: names are good at all times, and each of the   *)
(* two kinds of overlap spoils only what is said of the node it is in.     *)
(* About all the handlers together.                                        *)
(***************************************************************************)
ThreadedInvariant ==
  /\ TypeOK
  /\ \A n \in Node : /\ NodeNames(n)
                     /\ SoleMiner(n) => HandedOver(n)
                     /\ Quiet(n) => Undisturbed(n)
  /\ \A t \in Thread : ThreadNames(t)
=============================================================================
