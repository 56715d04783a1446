----------------------------- MODULE FSharpNode -----------------------------
(***************************************************************************)
(* The F# node on Suave: handlers run on a pool of threads, without a      *)
(* lock.  Blocks, lists and sets never change; what threads share are the  *)
(* three attributes that name them.  A handler reads one, makes the next   *)
(* value and stores it, and whatever another thread stored in between is   *)
(* gone.  A handler is cut at its reads and its stores.                    *)
(***************************************************************************)
EXTENDS Blocks, FiniteSets

CONSTANTS
  Thread,       \* threads of the pool
  Home,         \* the node each of them belongs to
  Requests,     \* bound: the requests each of them is given
  Registered,   \* the body posted to /nodes/register of each node
  BootTime,     \* when each node started: the timestamp of its first block
  FirstTick,    \* the time of the first block stamped after that
  LastTick      \* bound: no block is stamped from this time on

(* Hosts a node can register: a node, or another server. *)
Peer == Node \cup {"elsewhere"}

(* An address of a body by the host it names, or one that is none. *)
Address == Peer \cup {"invalid"}

Attribute == {"Chain", "currentTransactions", "Nodes"}

Mining == {"searching", "found", "rewarded", "taken", "cleared", "appending"}

Registering == {"registering", "joining"}

Resolving == {"looping", "asking", "serving", "answered"}

(* The attributes a handler that is at pc stores before it returns ... *)
StoredBy(pc) ==
  CASE pc = "posting"       -> {"currentTransactions"}
    [] pc \in Mining        -> {"currentTransactions", "Chain"}
    [] pc \in Registering   -> {"Nodes"}
    [] pc \in Resolving     -> {"Chain"}
    [] OTHER                -> {}

(* ... and those whose new value it makes of one it has read: a resolve *)
(* stores a chain it has received.                                      *)
UpdatedBy(pc) == IF pc \in Resolving THEN {} ELSE StoredBy(pc)

ASSUME FSharpAssumption ==
  /\ "elsewhere" \notin Node /\ "invalid" \notin Peer
  /\ Home \in [Thread -> Node]
  /\ Requests \in [Thread -> SUBSET {"post", "mine", "register", "resolve"}]
  /\ Registered \in [Node -> Seq(Address)]
  /\ BootTime \in [Node -> Nat]
  /\ FirstTick \in Nat
  /\ LastTick \in Nat

VARIABLES
  Chain,                \* Chain[n]: the blocks node n believes in
  currentTransactions,  \* currentTransactions[n]: accepted, not in a block yet
  Nodes,                \* Nodes[n]: the peers registered at n
  thread,               \* thread[t]: the handler t runs and its local variables
  clock,                \* advances whenever a block is stamped
  posted,               \* the transactions clients have posted
  overlapped            \* overlapped[n]: attributes that a handler of n was
                        \* updating while another one was to store them

vars == << Chain, currentTransactions, Nodes, thread, clock, posted, overlapped >>

NoBlock ==
  [index |-> 0, timestamp |-> 0, transactions |-> << >>, proof |-> 0,
   previous_hash |-> GenesisPreviousHash]

Idle(t) ==
  [pc |-> "idle", last |-> NoBlock, block |-> NoBlock,
   list |-> << >>, chain |-> << >>, tx |-> Reward(Home[t]), known |-> {},
   place |-> 1, left |-> {}, peer |-> "elsewhere", maxLength |-> 0,
   newChain |-> << >>, reply |-> << >>, length |-> 0]

Work ==
  [pc: {"idle", "posting"} \cup Mining \cup Registering \cup Resolving,
   last: Block, block: Block, list: Seq(Transaction), chain: Seq(Block),
   tx: Transaction, known: SUBSET Peer, place: Nat \ {0}, left: SUBSET Peer,
   peer: Peer, maxLength: Nat, newChain: Seq(Block), reply: Seq(Block),
   length: Nat]

TypeOK ==
  /\ Chain \in [Node -> Seq(Block)]
  /\ currentTransactions \in [Node -> Seq(Transaction)]
  /\ Nodes \in [Node -> SUBSET Peer]
  /\ thread \in [Thread -> Work]
  /\ clock \in Nat
  /\ posted \subseteq UserTransaction
  /\ overlapped \in [Node -> SUBSET Attribute]

Init ==
  /\ Chain = [n \in Node |-> GenesisChain(BootTime[n])]
  /\ currentTransactions = [n \in Node |-> << >>]
  /\ Nodes = [n \in Node |-> {}]
  /\ thread = [t \in Thread |-> Idle(t)]
  /\ clock = FirstTick
  /\ posted = {}
  /\ overlapped = [n \in Node |-> {}]

-----------------------------------------------------------------------------
(* Threads *)

Local(n) == {t \in Thread : Home[t] = n}

(* What one of two handlers updates while the other one is to store it. *)
Conflicts(pc, other) ==
  (UpdatedBy(pc) \cap StoredBy(other)) \cup (StoredBy(pc) \cap UpdatedBy(other))

(* An idle t takes a request; work is what its handler begins with. *)
Enters(t, request, work) ==
  /\ thread[t].pc = "idle"
  /\ request \in Requests[t]
  /\ thread' = [thread EXCEPT ![t] = work]
  /\ overlapped' = [overlapped EXCEPT ![Home[t]] = @ \cup
       UNION {Conflicts(work.pc, thread[u].pc) : u \in Local(Home[t])}]

(* The handler of t gets from one of its steps to another, or returns. *)
Moves(t, from, work) ==
  /\ thread[t].pc = from
  /\ thread' = [thread EXCEPT ![t] = work]
  /\ UNCHANGED overlapped

-----------------------------------------------------------------------------
(* NewTransaction: the list is read, and a longer one is stored. *)
Longer(t) == Append(thread[t].list, thread[t].tx)

(* POST /transactions/new; one that lacks a field changes nothing. *)
PostStarts(t, tx) ==
  /\ tx \notin posted
  /\ posted' = posted \cup {tx}
  /\ Enters(t, "post", [Idle(t) EXCEPT
       !.pc = "posting", !.tx = tx, !.list = currentTransactions[Home[t]]])
  /\ UNCHANGED << Chain, currentTransactions, Nodes, clock >>

PostStores(t) ==
  /\ Moves(t, "posting", Idle(t))
  /\ currentTransactions' = [currentTransactions EXCEPT ![Home[t]] = Longer(t)]
  /\ UNCHANGED << Chain, Nodes, clock, posted >>

-----------------------------------------------------------------------------
(* GET /mine *)

(* The mines whose block will be stamped. *)
Unstamped ==
  {t \in Thread : thread[t].pc \in {"searching", "found", "rewarded"}}

MineStarts(t) ==
  /\ clock + Cardinality(Unstamped) < LastTick
  /\ Enters(t, "mine", [Idle(t) EXCEPT
       !.pc = "searching", !.last = last_block(Chain[Home[t]])])
  /\ UNCHANGED << Chain, currentTransactions, Nodes, clock, posted >>

(* A plausible bug: the search returns the number after the proof. *)
MineFindsOneTooFar(t) ==
  /\ \E proof \in 0 .. MaxProof :
       /\ FoundByProofOfWork(thread[t].last, proof)
       /\ Moves(t, "searching", [thread[t] EXCEPT
            !.pc = "found", !.block.proof = proof + 1,
            !.list = currentTransactions[Home[t]]])
  /\ UNCHANGED << Chain, currentTransactions, Nodes, clock, posted >>

(* The proof is found, and the list is read to add the reward to it. *)
MineFinds(t) ==
  /\ \E proof \in 0 .. MaxProof :
       /\ FoundByProofOfWork(thread[t].last, proof)
       /\ Moves(t, "searching", [thread[t] EXCEPT
            !.pc = "found", !.block.proof = proof,
            !.list = currentTransactions[Home[t]]])
  /\ UNCHANGED << Chain, currentTransactions, Nodes, clock, posted >>

MineRewards(t) ==
  /\ Moves(t, "found", [thread[t] EXCEPT !.pc = "rewarded", !.list = << >>])
  /\ currentTransactions' = [currentTransactions EXCEPT ![Home[t]] = Longer(t)]
  /\ UNCHANGED << Chain, Nodes, clock, posted >>

(* A plausible bug: the block gets an empty list. *)
MineTakesNothing(t) ==
  /\ Moves(t, "rewarded", [thread[t] EXCEPT
       !.pc = "taken",
       !.last = NoBlock,
       !.block.index = Len(Chain[Home[t]]) + 1,
       !.block.timestamp = clock,
       !.block.previous_hash = hash(thread[t].last)])
  /\ clock' = clock + 1
  /\ UNCHANGED << Chain, currentTransactions, Nodes, posted >>

(***************************************************************************)
(* NewBlock makes the block of the length of the chain, the time and the   *)
(* list.  What runs between these reads could run before or after them,    *)
(* but for a store of a chain, which would change only the index.          *)
(***************************************************************************)
MineTakes(t) ==
  /\ Moves(t, "rewarded", [thread[t] EXCEPT
       !.pc = "taken",
       !.last = NoBlock,
       !.block.index = Len(Chain[Home[t]]) + 1,
       !.block.timestamp = clock,
       !.block.transactions = currentTransactions[Home[t]],
       !.block.previous_hash = hash(thread[t].last)])
  /\ clock' = clock + 1
  /\ UNCHANGED << Chain, currentTransactions, Nodes, posted >>

(* A plausible bug: the list is not emptied. *)
MineClearsNothing(t) ==
  /\ Moves(t, "taken", [thread[t] EXCEPT !.pc = "cleared"])
  /\ UNCHANGED << Chain, currentTransactions, Nodes, clock, posted >>

(* ... empties the list ... *)
MineClears(t) ==
  /\ Moves(t, "taken", [thread[t] EXCEPT !.pc = "cleared"])
  /\ currentTransactions' = [currentTransactions EXCEPT ![Home[t]] = << >>]
  /\ UNCHANGED << Chain, Nodes, clock, posted >>

(* ... reads the chain, and stores one that has the block at its end. *)
MineReadsChain(t) ==
  /\ Moves(t, "cleared", [thread[t] EXCEPT !.pc = "appending",
                                           !.chain = Chain[Home[t]]])
  /\ UNCHANGED << Chain, currentTransactions, Nodes, clock, posted >>

MineAppends(t) ==
  /\ Moves(t, "appending", Idle(t))
  /\ Chain' = [Chain EXCEPT ![Home[t]] = Append(thread[t].chain, thread[t].block)]
  /\ UNCHANGED << currentTransactions, Nodes, clock, posted >>

-----------------------------------------------------------------------------
(* POST /nodes/register, one address of the body after the other *)

(* At the place-th address: one that is none raises, which ends the request *)
(* and keeps the addresses before it; after the last one it is answered.    *)
RegisterFrom(t, place) ==
  LET body == Registered[Home[t]]
  IN  IF place <= Len(body) /\ body[place] # "invalid"
        THEN [Idle(t) EXCEPT !.pc = "registering", !.place = place]
        ELSE Idle(t)

RegisterStarts(t) ==
  /\ Enters(t, "register", RegisterFrom(t, 1))
  /\ UNCHANGED << Chain, currentTransactions, Nodes, clock, posted >>

(* RegisterNode reads the set ... *)
RegisterReads(t) ==
  /\ Moves(t, "registering", [thread[t] EXCEPT !.pc = "joining",
                                               !.known = Nodes[Home[t]]])
  /\ UNCHANGED << Chain, currentTransactions, Nodes, clock, posted >>

(* A plausible bug: a set of the new address alone is stored. *)
RegisterStoresAlone(t) ==
  LET n == Home[t]
      place == thread[t].place
  IN  /\ Moves(t, "joining", RegisterFrom(t, place + 1))
      /\ Nodes' = [Nodes EXCEPT ![n] = {Registered[n][place]}]
      /\ UNCHANGED << Chain, currentTransactions, clock, posted >>

(* ... and stores one with the address. *)
RegisterStores(t) ==
  LET n == Home[t]
      place == thread[t].place
  IN  /\ Moves(t, "joining", RegisterFrom(t, place + 1))
      /\ Nodes' = [Nodes EXCEPT ![n] = thread[t].known \cup {Registered[n][place]}]
      /\ UNCHANGED << Chain, currentTransactions, clock, posted >>

-----------------------------------------------------------------------------
(* GET /nodes/resolve *)

(* The list of neighbours and the length of the chain are read once. *)
ResolveStarts(t) ==
  LET n == Home[t]
  IN  /\ Enters(t, "resolve", [Idle(t) EXCEPT
           !.pc = "looping", !.left = Nodes[n], !.maxLength = Len(Chain[n])])
      /\ UNCHANGED << Chain, currentTransactions, Nodes, clock, posted >>

ResolveAsks(t) ==
  /\ \E peer \in thread[t].left :
       Moves(t, "looping", [thread[t] EXCEPT !.pc = "asking", !.peer = peer,
                                             !.left = @ \ {peer}])
  /\ UNCHANGED << Chain, currentTransactions, Nodes, clock, posted >>

(* GET /chain at the neighbour, in a thread of its own: the chain ... *)
FullChain(t) ==
  /\ thread[t].peer \in Node
  /\ Moves(t, "asking", [thread[t] EXCEPT !.pc = "serving",
                                          !.reply = Chain[thread[t].peer]])
  /\ UNCHANGED << Chain, currentTransactions, Nodes, clock, posted >>

(* ... and the length of what the chain is by then. *)
FullChainLength(t) ==
  /\ Moves(t, "serving", [thread[t] EXCEPT !.pc = "answered",
                                           !.length = Len(Chain[thread[t].peer])])
  /\ UNCHANGED << Chain, currentTransactions, Nodes, clock, posted >>

(* A plausible bug: the longest chain wins, valid or not. *)
BetterUnvalidated(work) == work.length > work.maxLength

(* What the neighbour calls its length is greater, and its chain is valid. *)
Better(work) == work.length > work.maxLength /\ valid_chain(work.reply)

ResumeResolve(t) ==
  LET work == thread[t]
      next == [work EXCEPT !.pc = "looping", !.reply = << >>, !.length = 0]
  IN  /\ Moves(t, "answered",
           IF Better(work) THEN [next EXCEPT !.maxLength = work.length,
                                             !.newChain = work.reply]
           ELSE next)
      /\ UNCHANGED << Chain, currentTransactions, Nodes, clock, posted >>

ResolveEnds(t) ==
  LET work == thread[t]
  IN  /\ work.left = {}
      /\ Moves(t, "looping", Idle(t))
      /\ Chain' = IF work.newChain = << >> THEN Chain
                  ELSE [Chain EXCEPT ![Home[t]] = work.newChain]
      /\ UNCHANGED << currentTransactions, Nodes, clock, posted >>

(***************************************************************************)
(* No connection, an answer that takes longer than the 100 seconds of      *)
(* HttpClient, a status of failure or a text that is no chain: an exception *)
(* ends the request, with what was found until then forgotten.             *)
(***************************************************************************)
RequestThrows(t) ==
  /\ \E pc \in {"asking", "serving", "answered"} : Moves(t, pc, Idle(t))
  /\ UNCHANGED << Chain, currentTransactions, Nodes, clock, posted >>

-----------------------------------------------------------------------------
(* The steps of a thread that depend on nobody else. *)
Runs(t) ==
  \/ PostStores(t)
  \/ MineFinds(t)
  \/ MineRewards(t)
  \/ MineTakes(t)
  \/ MineClears(t)
  \/ MineReadsChain(t)
  \/ MineAppends(t)
  \/ RegisterReads(t)
  \/ RegisterStores(t)
  \/ ResolveAsks(t)
  \/ ResumeResolve(t)
  \/ ResolveEnds(t)

Next ==
  \E t \in Thread :
    \/ \E tx \in UserTransaction : PostStarts(t, tx)
    \/ MineStarts(t)
    \/ RegisterStarts(t)
    \/ ResolveStarts(t)
    \/ FullChain(t)
    \/ FullChainLength(t)
    \/ RequestThrows(t)
    \/ Runs(t)

Spec == Init /\ [][Next]_vars

-----------------------------------------------------------------------------
(* What holds although nothing is locked *)

(* No handler of n has updated attribute a while another was to store it. *)
Alone(n, a) == a \notin overlapped[n]

(***************************************************************************)
(* Only a mine that overlaps a mine or a resolve can break the chain of    *)
(* its node; transactions that come in at any time cannot, and neither can *)
(* neighbours.  About /mine: the block is forged on the last block of a    *)
(* chain read at the start, and appended to one read at the end.           *)
(***************************************************************************)
ChainsAreValid == \A n \in Node : Alone(n, "Chain") => valid_chain(Chain[n])

(* A transaction waits at n, in the list or in a block not appended yet. *)
Waits(n, tx) ==
  \/ PlacesIn(currentTransactions[n], tx) # {}
  \/ \E t \in Local(n) :
       /\ thread[t].pc \in {"taken", "cleared", "appending"}
       /\ PlacesIn(thread[t].block.transactions, tx) # {}

(***************************************************************************)
(* While posts and mines of a node do not overlap, a transaction waits     *)
(* until the chain ends with a block that carries it, whatever resolves    *)
(* do.  About NewBlock and NewTransaction, which store lists made of lists *)
(* they read before.                                                       *)
(***************************************************************************)
WaitsUntilMined ==
  [][\A n \in Node, tx \in UserTransaction :
       Waits(n, tx) /\ Alone(n, "currentTransactions")' =>
         \/ Waits(n, tx)'
         \/ PlacesIn(last_block(Chain[n]).transactions, tx)' # {}]_vars

(***************************************************************************)
(* In a network of such nodes no transaction gets twice into what a node   *)
(* believes, although chains are adopted, broken and overwritten.  About   *)
(* the same stores: a late one brings a list back that a block has taken.  *)
(***************************************************************************)
EachTransactionOnce ==
  (\A n \in Node : Alone(n, "currentTransactions")) =>
    \A n \in Node, tx \in UserTransaction \ Minted :
      Cardinality(PlacesInChain(Chain[n], tx))
        + Cardinality(PlacesIn(currentTransactions[n], tx)) <= 1

(***************************************************************************)
(* A registered host stays registered while no two registrations overlap,  *)
(* a body that raises in its middle included.                              *)
(***************************************************************************)
RegistrationsStay ==
  [][\A n \in Node : Alone(n, "Nodes")' => Nodes[n] \subseteq Nodes'[n]]_vars

(***************************************************************************)
(* What a handler of t has read is still so while nothing overlaps it: the *)
(* last block with its proof and digest, the chain, the list, the set.     *)
(***************************************************************************)
MineInOrder(t) ==
  LET work == thread[t]
      last == last_block(Chain[Home[t]])
  IN  /\ work.pc \in {"searching", "found", "rewarded"} => work.last = last
      /\ work.pc \in {"found", "rewarded", "taken", "cleared", "appending"} =>
           valid_proof(last.proof, work.block.proof, hash(last))
      /\ work.pc \in {"taken", "cleared", "appending"} =>
           work.block.previous_hash = hash(last)
      /\ work.pc = "appending" => work.chain = Chain[Home[t]]

ListInOrder(t) ==
  LET work == thread[t]
      list == currentTransactions[Home[t]]
  IN  /\ work.pc \in {"posting", "found"} => work.list = list
      /\ work.pc = "taken" => work.block.transactions = list

(* What the invariant says of the handler of t ... *)
HandlerInOrder(t) ==
  LET n == Home[t]
      work == thread[t]
  IN  /\ valid_chain(work.newChain)
      /\ Alone(n, "Chain") => MineInOrder(t)
      /\ Alone(n, "currentTransactions") => ListInOrder(t)
      /\ Alone(n, "Nodes") /\ work.pc = "joining" => work.known = Nodes[n]
      /\ work.pc \in Registering =>
           /\ work.place \in 1 .. Len(Registered[n])
           /\ Registered[n][work.place] # "invalid"
      /\ work.pc = "serving" => work.peer \in Node

(* ... and of node n. *)
NodeInOrder(n) ==
  /\ Len(Chain[n]) >= 1
  /\ Alone(n, "Chain") => valid_chain(Chain[n])
  /\ \A t, u \in Local(n) :
       t # u => Conflicts(thread[t].pc, thread[u].pc) \subseteq overlapped[n]

(***************************************************************************)
(* The inductive invariant: where an attribute was never updated by two at *)
(* once, at most one handler in progress updates it, and then it is in     *)
(* order; what any resolve has found is valid.                             *)
(***************************************************************************)
FSharpInvariant ==
  /\ TypeOK
  /\ \A n \in Node : NodeInOrder(n)
  /\ \A t \in Thread : HandlerInOrder(t)
=============================================================================
