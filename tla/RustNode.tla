------------------------------ MODULE RustNode ------------------------------
(***************************************************************************)
(* The Rust node.  Handlers run in threads, and each locks the one mutex   *)
(* of the node for as long as it runs: while it reads the body a client is *)
(* sending, and while it waits for the /chain of a neighbour.  A handler   *)
(* that panics leaves the mutex poisoned: every later one panics as well.  *)
(*                                                                         *)
(* A timestamp is an f64, and serde_json may read another one than it      *)
(* wrote: 1658967714.4750001 comes back as 1658967714.475.                 *)
(***************************************************************************)
EXTENDS Blocks, FiniteSets

CONSTANTS
  RegisterRequest,   \* the bodies posted to /nodes/register of each node
  BootTime,          \* when each node started: the timestamp of its first block
  FirstTick,         \* the time of the first block mined after that
  LastTick,          \* bound: no block is stamped from this time on
  MaxPending,        \* bound: transactions waiting when another is posted
  ReadAs             \* ReadAs[time]: what serde_json reads where it wrote time

(* Hosts a node can register: a node, or another server. *)
Peer == Node \cup {"elsewhere"}

(* 'http://h:p'; or what Url::parse refuses, or has no host. *)
Address == [form: {"url", "invalid"}, host: Peer]

ASSUME RustAssumption ==
  /\ \A n \in Node : \A body \in RegisterRequest[n] : body \in Seq(Address)
  /\ BootTime \in [Node -> Nat]
  /\ FirstTick \in Nat
  /\ LastTick \in Nat
  /\ MaxPending \in Nat
  /\ \A time \in DOMAIN ReadAs : time \in Nat /\ ReadAs[time] \in Nat

VARIABLES
  chain,                 \* chain[n]: the blocks node n believes in
  current_transactions,  \* current_transactions[n]: accepted, not in a block yet
  nodes,                 \* nodes[n]: the peers registered at n
  holder,                \* holder[n]: the handler that keeps the mutex of n
  poisoned,              \* poisoned[n]: has a handler of n panicked?
  clock,                 \* advances whenever a block is stamped
  posted                 \* the transactions clients have posted

vars == << chain, current_transactions, nodes, holder, poisoned, clock, posted >>

Nobody ==
  [pc |-> "none", left |-> {}, node |-> "elsewhere", max_length |-> 0,
   new_chain |-> << >>, response |-> << >>]

(* A handler that reads a body, or one that resolves. *)
Holder ==
  [pc: {"none", "reading", "asking", "answered"}, left: SUBSET Peer, node: Peer,
   max_length: Nat, new_chain: Seq(Block), response: Seq(Block)]

TypeOK ==
  /\ chain \in [Node -> Seq(Block)]
  /\ current_transactions \in [Node -> Seq(Transaction)]
  /\ nodes \in [Node -> SUBSET Peer]
  /\ holder \in [Node -> Holder]
  /\ poisoned \in [Node -> BOOLEAN]
  /\ clock \in Nat
  /\ posted \subseteq UserTransaction

Init ==
  /\ chain = [n \in Node |-> GenesisChain(BootTime[n])]
  /\ current_transactions = [n \in Node |-> << >>]
  /\ nodes = [n \in Node |-> {}]
  /\ holder = [n \in Node |-> Nobody]
  /\ poisoned = [n \in Node |-> FALSE]
  /\ clock = FirstTick
  /\ posted = {}

(* lock().unwrap() returns. *)
Locks(n) == holder[n].pc = "none" /\ ~ poisoned[n]

Unlock(n) == holder' = [holder EXCEPT ![n] = Nobody]

(* The handler that holds the mutex of n panics. *)
Panics(n) ==
  /\ poisoned' = [poisoned EXCEPT ![n] = TRUE]
  /\ Unlock(n)
  /\ UNCHANGED << chain, current_transactions, nodes, clock, posted >>

-----------------------------------------------------------------------------
(* POST /transactions/new and /nodes/register lock before they read. *)
ReadsBody(n) ==
  /\ Locks(n)
  /\ holder' = [holder EXCEPT ![n].pc = "reading"]
  /\ UNCHANGED << chain, current_transactions, nodes, poisoned, clock, posted >>

NewTransaction(n, tx) ==
  /\ holder[n].pc = "reading"
  /\ tx \notin posted
  /\ Len(current_transactions[n]) < MaxPending
  /\ current_transactions' = [current_transactions EXCEPT ![n] = Append(@, tx)]
  /\ posted' = posted \cup {tx}
  /\ Unlock(n)
  /\ UNCHANGED << chain, nodes, poisoned, clock >>

(* What register_node makes of an address it refuses is ignored. *)
RegisterNodes(n, body) ==
  /\ holder[n].pc = "reading"
  /\ nodes' = [nodes EXCEPT ![n] = @ \cup
       {body[i].host : i \in {j \in 1 .. Len(body) : body[j].form = "url"}}]
  /\ Unlock(n)
  /\ UNCHANGED << chain, current_transactions, poisoned, clock, posted >>

(* Missing values, or no list of nodes. *)
BodyRefused(n) ==
  /\ holder[n].pc = "reading"
  /\ Unlock(n)
  /\ UNCHANGED << chain, current_transactions, nodes, poisoned, clock, posted >>

(* A body that is cut off, no JSON, or has fields of another type. *)
BodyPanics(n) == holder[n].pc = "reading" /\ Panics(n)

(* A plausible bug: the transactions are not taken out of the vector. *)
KeepTransactions(n) == UNCHANGED current_transactions

(* mem::replace leaves an empty vector. *)
TakeTransactions(n) ==
  current_transactions' = [current_transactions EXCEPT ![n] = << >>]

(* GET /mine: the reward, the proof and the block under one lock. *)
Mine(n) ==
  /\ Locks(n)
  /\ clock < LastTick
  /\ LET last == last_block(chain[n])
     IN  \E proof \in 0 .. MaxProof :
           /\ FoundByProofOfWork(last, proof)
           /\ chain' = [chain EXCEPT ![n] =
                new_block(@, Append(current_transactions[n], Reward(n)),
                          proof, hash(last), clock)]
  /\ TakeTransactions(n)
  /\ clock' = clock + 1
  /\ UNCHANGED << nodes, holder, poisoned, posted >>

-----------------------------------------------------------------------------
(* GET /nodes/resolve *)

(* reqwest::get(...) for one of the neighbours left. *)
Ask(n, left, longest, best) ==
  \E node \in left :
    /\ holder' = [holder EXCEPT ![n] =
         [pc |-> "asking", left |-> left \ {node}, node |-> node,
          max_length |-> longest, new_chain |-> best, response |-> << >>]]
    /\ UNCHANGED chain

(* None is left: replace the chain if a longer one was found, and answer. *)
Conclude(n, left, best) ==
  /\ left = {}
  /\ Unlock(n)
  /\ chain' = IF best = << >> THEN chain ELSE [chain EXCEPT ![n] = best]

Continue(n, left, longest, best) ==
  /\ Ask(n, left, longest, best) \/ Conclude(n, left, best)
  /\ UNCHANGED << current_transactions, nodes, poisoned, clock, posted >>

Consensus(n) ==
  /\ Locks(n)
  /\ Continue(n, nodes[n], Len(chain[n]), << >>)

Answer(n) ==
  /\ holder' = [holder EXCEPT ![n].pc = "answered",
                              ![n].response = chain[holder[n].node]]
  /\ UNCHANGED << chain, current_transactions, nodes, poisoned, clock, posted >>

(* A plausible bug: /chain is read whether the mutex is poisoned or not. *)
FullChainPoisoned(n) ==
  /\ holder[n].pc = "asking"
  /\ holder[n].node \in Node
  /\ holder[holder[n].node].pc = "none"
  /\ Answer(n)

(* GET /chain at the node n asks, which waits for its mutex. *)
FullChain(n) ==
  /\ holder[n].pc = "asking"
  /\ holder[n].node \in Node
  /\ Locks(holder[n].node)
  /\ Answer(n)

ParsedTime(time) == IF time \in DOMAIN ReadAs THEN ReadAs[time] ELSE time

(* from_value: the blocks with their timestamps as serde_json reads them. *)
Parsed(sent) ==
  [i \in 1 .. Len(sent) |->
     [sent[i] EXCEPT !.timestamp = ParsedTime(sent[i].timestamp)]]

(* A plausible bug: a chain as long as the longest known is taken as well. *)
NotShorter(received, length) ==
  Len(received) >= length /\ valid_chain(received)

(* A plausible bug: the longest chain is taken, valid or not. *)
LongerUnvalidated(received, length) == Len(received) > length

Longer(received, length) ==
  Len(received) > length /\ valid_chain(received)

ResumeConsensus(n) ==
  LET h == holder[n]
      received == Parsed(h.response)
  IN  /\ h.pc = "answered"
      /\ IF Longer(received, h.max_length)
           THEN Continue(n, h.left, Len(received), received)
           ELSE Continue(n, h.left, h.max_length, h.new_chain)

(* Another server answers with a status that is not 200. *)
NotOK(n) ==
  LET h == holder[n]
  IN  /\ h.pc = "asking"
      /\ h.node = "elsewhere"
      /\ Continue(n, h.left, h.max_length, h.new_chain)

(* A plausible bug: the client waits for ever. *)
RequestNeverTimesOut(n) ==
  /\ holder[n].pc = "asking"
  /\ holder[n].node \in {m \in Node : poisoned[m]} \cup {"elsewhere"}
  /\ Panics(n)

(***************************************************************************)
(* unwrap() panics: no connection, one that the panic of the neighbour's   *)
(* handler ends, a text that is no chain, or 30 seconds have passed.       *)
(***************************************************************************)
RequestFails(n) == holder[n].pc \in {"asking", "answered"} /\ Panics(n)

-----------------------------------------------------------------------------
Next ==
  \E n \in Node :
    \/ ReadsBody(n)
    \/ \E tx \in UserTransaction : NewTransaction(n, tx)
    \/ \E body \in RegisterRequest[n] : RegisterNodes(n, body)
    \/ BodyRefused(n)
    \/ BodyPanics(n)
    \/ Mine(n)
    \/ Consensus(n)
    \/ FullChain(n)
    \/ ResumeConsensus(n)
    \/ NotOK(n)
    \/ RequestFails(n)

Spec == Init /\ [][Next]_vars

(***************************************************************************)
(* An answer that has arrived is used, another server answers, and the     *)
(* client times out.  A client of the node may keep a body for ever.       *)
(***************************************************************************)
Fairness ==
  \A n \in Node : /\ WF_vars(ResumeConsensus(n))
                  /\ WF_vars(NotOK(n))
                  /\ WF_vars(RequestFails(n))

FairSpec == Spec /\ Fairness

-----------------------------------------------------------------------------
Promise == INSTANCE Ledger WITH pending <- current_transactions

(***************************************************************************)
(* A node keeps what the comments promise, also when handlers panic under  *)
(* the lock and timestamps change on the way: a chain grows by a block     *)
(* that takes up all that waits, or gives way to a longer valid one.  What *)
(* waits is put into one block, and nothing else is.                       *)
(***************************************************************************)
KeepsPromise == Promise!Spec

Resolving(n) == holder[n].pc \in {"asking", "answered"}

(* Chains held, sent and found are good ones, a resolve compares by a length *)
(* no chain of its node outgrows under it, and nobody holds a poisoned mutex. *)
LockInvariant ==
  /\ TypeOK
  /\ \A n \in Node :
       /\ Trustworthy(chain[n])
       /\ holder[n].response # << >> => Trustworthy(holder[n].response)
       /\ ~ Resolving(n) => holder[n].new_chain = << >>
       /\ poisoned[n] => holder[n].pc = "none"
       /\ Resolving(n) => holder[n].max_length >= Len(chain[n])
       /\ holder[n].new_chain # << >> =>
            /\ Trustworthy(holder[n].new_chain)
            /\ holder[n].max_length = Len(holder[n].new_chain)
            /\ Len(holder[n].new_chain) > Len(chain[n])

NoneAhead ==
  \A n \in Node : /\ AheadOfNoMiner(chain[n], chain)
                  /\ AheadOfNoMiner(holder[n].response, chain)
                  /\ AheadOfNoMiner(holder[n].new_chain, chain)

(***************************************************************************)
(* What every step preserves: the chains are good, the lock keeps the      *)
(* length a resolve compares by, nobody holds a poisoned mutex, and nobody *)
(* has, sends or finds a block of a node that the node's own chain does    *)
(* not reach: a chain is never replaced by a shorter one.                  *)
(***************************************************************************)
RustInvariant == LockInvariant /\ NoneAhead

(***************************************************************************)
(* "return: true if our chain was replaced, false if not": a resolve ends, *)
(* by a panic if need be, also where nodes ask each other or themselves,   *)
(* and where a client never finishes its body at the one asked.            *)
(***************************************************************************)
ResolveReturns == \A n \in Node : []<>(~ Resolving(n))

AsksPoisoned(n) ==
  /\ holder[n].pc = "asking"
  /\ holder[n].node \in Node
  /\ poisoned[holder[n].node]

(***************************************************************************)
(* Poison spreads along requests: a node that asks a poisoned node is      *)
(* poisoned itself.  About the unwrap() of the response, under the lock.   *)
(***************************************************************************)
PoisonSpreads == \A n \in Node : AsksPoisoned(n) ~> poisoned[n]

(***************************************************************************)
(* "it resolves conflicts by replacing our chain with the longest one in   *)
(* the network": a resolve that goes on past a valid chain longer than all *)
(* it knew goes on with a chain as long.                                   *)
(***************************************************************************)
LongestIsTaken ==
  [][\A n \in Node :
       LET h == holder[n]
       IN  /\ h.pc = "answered"
           /\ holder'[n] # h
           /\ ~ poisoned'[n]
           /\ valid_chain(h.response)
           => \/ holder'[n].max_length >= Len(h.response)
              \/ Len(chain'[n]) >= Len(h.response)]_vars
=============================================================================
