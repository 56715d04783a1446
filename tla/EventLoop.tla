----------------------------- MODULE EventLoop -----------------------------
(***************************************************************************)
(* The JavaScript node (the TypeScript port is the same program): a        *)
(* network of event loops.  A handler runs to its end without              *)
(* interruption, except that /nodes/resolve gives the loop back at every   *)
(* await of a neighbour's answer; the other handlers of the node and of    *)
(* its peers run in between.  Mining is left to the modules that extend    *)
(* this one, because the two programs of the port do it differently.       *)
(***************************************************************************)
EXTENDS Blocks, FiniteSets

CONSTANTS
  Call,              \* activations of /nodes/resolve that may be open at once
  Owner,             \* the node each of them runs on
  RegisterRequest,   \* the bodies posted to /nodes/register of each node
  IncompleteAt,      \* the nodes that are sent transactions lacking a field
  BootTime,          \* when each node started: the timestamp of its first block
  FirstTick,         \* the time of the first block mined after that
  LastTick,          \* bound: no block is stamped from this time on
  MaxPending         \* bound: transactions waiting at one node

(* The forms an address is written in: 'http://h', 'https://h', 'h:port'     *)
(* with h a name, 'h:port' with h an IP number.                              *)
Address == [form: {"http", "https", "name", "ip"}, host: Node]

ASSUME EventLoopAssumption ==
  /\ Owner \in [Call -> Node]
  /\ \A n \in Node : \A body \in RegisterRequest[n] : body \in Seq(Address)
  /\ IncompleteAt \subseteq Node
  /\ BootTime \in [Node -> Nat]
  /\ FirstTick \in Nat
  /\ LastTick \in Nat
  /\ MaxPending \in Nat

VARIABLES
  chain,                \* chain[n]: the blocks node n believes in
  currentTransactions,  \* currentTransactions[n]: accepted, not in a block yet
  nodes,                \* nodes[n]: the peers registered at n
  calls,                \* calls[c]: the local variables of resolveConflicts
  clock,                \* advances whenever a block is stamped
  promised              \* the block index the client of a transaction was told

loopVars == << chain, currentTransactions, nodes, calls, clock, promised >>

(* new URL('http://https://h') has the host "https". *)
Peer == Node \cup {"https"}

Idle(c) ==
  [pc |-> "idle", peer |-> Owner[c], visited |-> {}, maxLength |-> 0,
   newChain |-> << >>, reply |-> << >>]

CallState ==
  [pc: {"idle", "sent", "served"}, peer: Peer, visited: SUBSET Peer,
   maxLength: Nat, newChain: Seq(Block), reply: Seq(Block)]

TypeOK ==
  /\ chain \in [Node -> Seq(Block)]
  /\ currentTransactions \in [Node -> Seq(Transaction)]
  /\ nodes \in [Node -> SUBSET Peer]
  /\ calls \in [Call -> CallState]
  /\ clock \in Nat
  /\ promised \in [UserTransaction -> Nat]

LoopInit ==
  /\ chain = [n \in Node |-> GenesisChain(BootTime[n])]
  /\ currentTransactions = [n \in Node |-> << >>]
  /\ nodes = [n \in Node |-> {}]
  /\ calls = [c \in Call |-> Idle(c)]
  /\ clock = FirstTick
  /\ promised = [tx \in UserTransaction |-> 0]

-----------------------------------------------------------------------------
(* POST /transactions/new *)

(* newTransaction(sender, recipient, amount) *)
AcceptTransaction(n, transaction) ==
  currentTransactions' =
    [currentTransactions EXCEPT ![n] = Append(@, transaction)]

(***************************************************************************)
(* The client learns the index one past the last block.  A client posts a  *)
(* transaction once: promised tells which have been posted.                *)
(***************************************************************************)
NewTransaction(n, tx) ==
  /\ promised[tx] = 0
  /\ Len(currentTransactions[n]) < MaxPending
  /\ AcceptTransaction(n, tx)
  /\ promised' = [promised EXCEPT ![tx] = last_block(chain[n]).index + 1]
  /\ UNCHANGED << chain, nodes, calls, clock >>

(***************************************************************************)
(* A field is missing: the handler answers 400 and, having no return       *)
(* there, goes on to store the undefined values; sending the second answer *)
(* then throws.                                                            *)
(***************************************************************************)
NewTransactionMissingValues(n) ==
  /\ Len(currentTransactions[n]) < MaxPending
  /\ AcceptTransaction(n, UndefinedTransaction)
  /\ UNCHANGED << chain, nodes, calls, clock, promised >>

-----------------------------------------------------------------------------
(* POST /nodes/register *)

(* A plausible bug: the test that there is a host at all is forgotten. *)
HostsAddedUntested(address) ==
  CASE address.form = "http"  -> {address.host}
    [] address.form = "https" -> {"https"}
    [] OTHER                  -> {""}

(***************************************************************************)
(* The host registerNode adds for an address.  Only 'https://' is          *)
(* prefixed with 'http://', which makes "https" the host; in 'name:port'   *)
(* the name is read as the scheme and nothing is added.                    *)
(***************************************************************************)
HostsAdded(address) ==
  CASE address.form = "http"  -> {address.host}
    [] address.form = "https" -> {"https"}
    [] OTHER                  -> {}

(* 'ip:port' is no URL: registerNode throws. *)
Throws(address) == address.form = "ip"

(* The loop stops at the first address that throws, keeping those before. *)
RegisterNodes(n, body) ==
  /\ nodes' = [nodes EXCEPT ![n] = @ \cup
       UNION {HostsAdded(body[i]) :
                i \in {j \in 1 .. Len(body) :
                         \A k \in 1 .. j : ~ Throws(body[k])}}]
  /\ UNCHANGED << chain, currentTransactions, calls, clock, promised >>

-----------------------------------------------------------------------------
(* GET /nodes/resolve *)

(***************************************************************************)
(* The head of the loop over this.nodes, reached with the values longest   *)
(* and best of maxLength and newChain: fetch the chain of a neighbour not  *)
(* visited yet, or leave the loop and replace the chain.  this.nodes is    *)
(* the live set: neighbours registered meanwhile are visited too.          *)
(***************************************************************************)
NextNeighbor(c, visited, longest, best) ==
  \E peer \in nodes[Owner[c]] \ visited :
    /\ calls' = [calls EXCEPT ![c] =
         [pc |-> "sent", peer |-> peer, visited |-> visited \cup {peer},
          maxLength |-> longest, newChain |-> best, reply |-> << >>]]
    /\ UNCHANGED chain

(* A plausible bug: the blocks taken over are put behind one's own first. *)
LeaveLoopKeepingFirst(c, visited, best) ==
  /\ nodes[Owner[c]] \subseteq visited
  /\ calls' = [calls EXCEPT ![c] = Idle(c)]
  /\ chain' = IF best = << >>
                THEN chain
                ELSE [chain EXCEPT ![Owner[c]] = << @[1] >> \o Tail(best)]

LeaveLoop(c, visited, best) ==
  /\ nodes[Owner[c]] \subseteq visited
  /\ calls' = [calls EXCEPT ![c] = Idle(c)]
  /\ chain' = IF best = << >> THEN chain
                              ELSE [chain EXCEPT ![Owner[c]] = best]

Continue(c, visited, longest, best) ==
  /\ \/ NextNeighbor(c, visited, longest, best)
     \/ LeaveLoop(c, visited, best)
  /\ UNCHANGED << currentTransactions, nodes, clock, promised >>

StartResolve(c) ==
  /\ calls[c].pc = "idle"
  /\ Continue(c, {}, Len(chain[Owner[c]]), << >>)

(* GET /chain, asked by the call c: chain and length are of one instant. *)
FullChain(c) ==
  /\ calls[c].pc = "sent"
  /\ calls[c].peer \in Node
  /\ calls' = [calls EXCEPT ![c].pc = "served",
                            ![c].reply = chain[calls[c].peer]]
  /\ UNCHANGED << chain, currentTransactions, nodes, clock, promised >>

(* A plausible bug: the longest chain wins, valid or not. *)
BetterUnvalidated(call) == Len(call.reply) > call.maxLength

(* The answer is longer than anything seen so far, and valid. *)
Better(call) ==
  /\ Len(call.reply) > call.maxLength
  /\ valid_chain(call.reply)

(* Plausible bugs: only one of maxLength and newChain is updated. *)
ResumeWithOldLength(c) ==
  /\ calls[c].pc = "served"
  /\ IF Better(calls[c])
       THEN Continue(c, calls[c].visited, calls[c].maxLength, calls[c].reply)
       ELSE Continue(c, calls[c].visited, calls[c].maxLength, calls[c].newChain)

ResumeWithOldChain(c) ==
  /\ calls[c].pc = "served"
  /\ IF Better(calls[c])
       THEN Continue(c, calls[c].visited, Len(calls[c].reply), calls[c].newChain)
       ELSE Continue(c, calls[c].visited, calls[c].maxLength, calls[c].newChain)

ResumeResolve(c) ==
  /\ calls[c].pc = "served"
  /\ IF Better(calls[c])
       THEN Continue(c, calls[c].visited, Len(calls[c].reply), calls[c].reply)
       ELSE Continue(c, calls[c].visited, calls[c].maxLength, calls[c].newChain)

(* A plausible bug: a neighbour that failed is asked again. *)
FetchIsRetried(c) ==
  /\ calls[c].pc \in {"sent", "served"}
  /\ Continue(c, calls[c].visited \ {calls[c].peer},
              calls[c].maxLength, calls[c].newChain)

(* fetch is rejected or the status is not 200: the error is logged only. *)
FetchFails(c) ==
  /\ calls[c].pc \in {"sent", "served"}
  /\ Continue(c, calls[c].visited, calls[c].maxLength, calls[c].newChain)

-----------------------------------------------------------------------------
LoopNext ==
  \/ \E n \in Node, tx \in UserTransaction : NewTransaction(n, tx)
  \/ \E n \in IncompleteAt : NewTransactionMissingValues(n)
  \/ \E n \in Node : \E body \in RegisterRequest[n] : RegisterNodes(n, body)
  \/ \E c \in Call : \/ StartResolve(c)
                     \/ FullChain(c)
                     \/ ResumeResolve(c)
                     \/ FetchFails(c)

(* The new block of node n rests on block last, by a proof found for last. *)
AppendBlock(n, last, proof, transactions) ==
  /\ clock < LastTick
  /\ FoundByProofOfWork(last, proof)
  /\ chain' = [chain EXCEPT ![n] =
                 new_block(@, transactions, proof, hash(last), clock)]
  /\ clock' = clock + 1
  /\ UNCHANGED << nodes, calls, promised >>

(* Plausible bugs: the transactions are cleared too late, or too early. *)
ForgeKeepingTransactions(n, last, proof) ==
  /\ AppendBlock(n, last, proof, Append(currentTransactions[n], Reward(n)))
  /\ UNCHANGED currentTransactions

ForgeLosingTransactions(n, last, proof) ==
  /\ AppendBlock(n, last, proof, << Reward(n) >>)
  /\ currentTransactions' = [currentTransactions EXCEPT ![n] = << >>]

(* What /mine does once it has a proof: the block carries the transactions *)
(* waiting and the reward, and none is left waiting.                       *)
Forge(n, last, proof) ==
  /\ AppendBlock(n, last, proof, Append(currentTransactions[n], Reward(n)))
  /\ currentTransactions' = [currentTransactions EXCEPT ![n] = << >>]

(* An open call is answered or fails, and goes on. *)
LoopFairness ==
  \A c \in Call : WF_loopVars(FullChain(c) \/ ResumeResolve(c) \/ FetchFails(c))

-----------------------------------------------------------------------------
(* What should hold of the network *)

(***************************************************************************)
(* Whatever is mined, served, awaited and adopted in whatever order, the   *)
(* chain of every node passes the node's own validity test, with indices   *)
(* counting from 1.  About newBlock, /mine and resolveConflicts.           *)
(***************************************************************************)
ChainsAreSound == \A n \in Node : SoundChain(chain[n])

(***************************************************************************)
(* The chain a resolve carries across its awaits is sound and has the      *)
(* length it is compared by: maxLength and newChain never drift apart.     *)
(***************************************************************************)
CandidatesAreSound ==
  \A c \in Call :
    calls[c].newChain # << >> =>
      /\ SoundChain(calls[c].newChain)
      /\ calls[c].maxLength = Len(calls[c].newChain)

(***************************************************************************)
(* Two nodes that hold the same block hold the same blocks below it: a     *)
(* chain is adopted whole and linked by digests, so histories never cross. *)
(***************************************************************************)
SharedBlockSharedPast ==
  \A m, n \in Node :
    \A i \in 1 .. Len(chain[m]), j \in 1 .. Len(chain[n]) :
      chain[m][i] = chain[n][j] =>
        /\ i = j
        /\ \A k \in 1 .. i : chain[m][k] = chain[n][k]

(***************************************************************************)
(* A transaction posted once is never twice in what a node believes: not   *)
(* in two blocks of its chain, nor in a block and still waiting, however   *)
(* chains are exchanged.  About newBlock clearing currentTransactions.     *)
(***************************************************************************)
EachTransactionOnce ==
  \A n \in Node, tx \in UserTransaction \ Minted :
    Cardinality(PlacesInChain(chain[n], tx))
      + Cardinality(PlacesIn(currentTransactions[n], tx)) <= 1

(***************************************************************************)
(* An accepted transaction waits, across resolves and whatever the peers   *)
(* do, until a block of its own node carries it.                           *)
(***************************************************************************)
PendingUntilMined ==
  [][\A n \in Node, tx \in UserTransaction :
       PlacesIn(currentTransactions[n], tx) # {} =>
         \/ PlacesIn(currentTransactions'[n], tx) # {}
         \/ PlacesIn(last_block(chain'[n]).transactions, tx) # {}]_loopVars

(***************************************************************************)
(* /nodes/resolve comes to an end, even while peers fail and neighbours    *)
(* are registered under it.                                                *)
(***************************************************************************)
ResolveReturns == \A c \in Call : []<>(calls[c].pc = "idle")

(***************************************************************************)
(* A resolve that ends leaves its node with a chain at least as long as    *)
(* the longest it compared against, although that length was read before   *)
(* the awaits.  True while a node has one resolve open at a time.          *)
(***************************************************************************)
ResolveKeepsLongestSeen ==
  [][\A c \in Call :
       calls[c].pc # "idle" /\ calls'[c].pc = "idle" =>
         Len(chain'[Owner[c]]) >= calls[c].maxLength]_loopVars

(***************************************************************************)
(* What every step of a node preserves, and the properties above follow    *)
(* from: not only the chains of the nodes but the answers on their way and *)
(* the chains resolves carry across awaits are sound and rooted.  About    *)
(* newBlock, /chain and resolveConflicts together.                         *)
(***************************************************************************)
LoopInvariant ==
  /\ TypeOK
  /\ \A n \in Node : Trustworthy(chain[n])
  /\ \A c \in Call :
       /\ calls[c].reply # << >> => Trustworthy(calls[c].reply)
       /\ calls[c].newChain # << >> =>
            /\ Trustworthy(calls[c].newChain)
            /\ calls[c].maxLength = Len(calls[c].newChain)

-----------------------------------------------------------------------------
(* What the program says of itself and does not keep *)

(***************************************************************************)
(* "replacing our chain with the longest one in the network": a chain is   *)
(* never replaced by one that is shorter.                                  *)
(***************************************************************************)
NeverReplacedByShorter ==
  [][\A n \in Node : Len(chain'[n]) >= Len(chain[n])]_loopVars
=============================================================================
