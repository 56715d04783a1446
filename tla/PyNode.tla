------------------------------- MODULE PyNode -------------------------------
(***************************************************************************)
(* The Python node, blockchain.py: a server that does one request at a     *)
(* time.  While it is at /nodes/resolve it waits, without a timeout, for   *)
(* the /chain of its neighbours, and answers nobody.                       *)
(***************************************************************************)
EXTENDS Blocks, FiniteSets

CONSTANTS
  RegisterRequest,   \* the bodies posted to /nodes/register of each node
  BootTime,          \* when each node started: the timestamp of its first block
  FirstTick,         \* the time of the first block mined after that
  LastTick,          \* bound: no block is stamped from this time on
  MaxPending         \* bound: transactions waiting at one node

(* Hosts a node can register: a node, or another server. *)
Peer == Node \cup {"elsewhere"}

(* The forms of an address: 'http://h' or 'https://h', a number and a port
   without a scheme, ''. *)
Address == [form: {"url", "bare", "empty"}, host: Peer]

ASSUME PyAssumption ==
  /\ \A n \in Node : \A body \in RegisterRequest[n] : body \in Seq(Address)
  /\ BootTime \in [Node -> Nat]
  /\ FirstTick \in Nat
  /\ LastTick \in Nat
  /\ MaxPending \in Nat

VARIABLES
  chain,                 \* chain[n]: the blocks node n believes in
  current_transactions,  \* current_transactions[n]: accepted, not in a block yet
  nodes,                 \* nodes[n]: the peers registered at n
  request,               \* request[n]: the state of resolve_conflicts at n
  clock,                 \* advances whenever a block is stamped
  posted                 \* the transactions clients have posted

vars == << chain, current_transactions, nodes, request, clock, posted >>

NoRequest ==
  [pc |-> "none", left |-> {}, node |-> "elsewhere", max_length |-> 0,
   new_chain |-> << >>, response |-> << >>]

RequestState ==
  [pc: {"none", "asking", "answered"}, left: SUBSET Peer, node: Peer,
   max_length: Nat, new_chain: Seq(Block), response: Seq(Block)]

TypeOK ==
  /\ chain \in [Node -> Seq(Block)]
  /\ current_transactions \in [Node -> Seq(Transaction)]
  /\ nodes \in [Node -> SUBSET Peer]
  /\ request \in [Node -> RequestState]
  /\ clock \in Nat
  /\ posted \subseteq UserTransaction

Init ==
  /\ chain = [n \in Node |-> GenesisChain(BootTime[n])]
  /\ current_transactions = [n \in Node |-> << >>]
  /\ nodes = [n \in Node |-> {}]
  /\ request = [n \in Node |-> NoRequest]
  /\ clock = FirstTick
  /\ posted = {}

(* The server of n is not in the middle of a /nodes/resolve. *)
Free(n) == request[n].pc = "none"

-----------------------------------------------------------------------------
(* POST /transactions/new; one that lacks a field changes nothing. *)
NewTransaction(n, tx) ==
  /\ Free(n)
  /\ tx \notin posted
  /\ Len(current_transactions[n]) < MaxPending
  /\ current_transactions' = [current_transactions EXCEPT ![n] = Append(@, tx)]
  /\ posted' = posted \cup {tx}
  /\ UNCHANGED << chain, nodes, request, clock >>

(* register_node knows a host by its netloc or its path, or raises. *)
Accepts(address) == address.form # "empty"

(* POST /nodes/register: an address that raises ends the loop over the body. *)
RegisterNodes(n, body) ==
  /\ Free(n)
  /\ nodes' = [nodes EXCEPT ![n] = @ \cup
       {body[i].host : i \in {j \in 1 .. Len(body) :
                                \A k \in 1 .. j : Accepts(body[k])}}]
  /\ UNCHANGED << chain, current_transactions, request, clock, posted >>

(* A plausible bug: the list of transactions is not reset. *)
ResetNothing(n) == UNCHANGED current_transactions

ResetTransactions(n) ==
  current_transactions' = [current_transactions EXCEPT ![n] = << >>]

(* GET /mine: the proof is searched for while the server is busy with it. *)
Mine(n) ==
  /\ Free(n)
  /\ clock < LastTick
  /\ LET last == last_block(chain[n])
     IN  \E proof \in 0 .. MaxProof :
           /\ FoundByProofOfWork(last, proof)
           /\ chain' = [chain EXCEPT ![n] =
                new_block(@, Append(current_transactions[n], Reward(n)),
                          proof, hash(last), clock)]
  /\ ResetTransactions(n)
  /\ clock' = clock + 1
  /\ UNCHANGED << nodes, request, posted >>

-----------------------------------------------------------------------------
(* GET /nodes/resolve *)

(* A plausible bug: a neighbour asked is not done with. *)
AskAgain(n, left, longest, best) ==
  \E node \in left :
    /\ request' = [request EXCEPT ![n] =
         [pc |-> "asking", left |-> left, node |-> node,
          max_length |-> longest, new_chain |-> best, response |-> << >>]]
    /\ UNCHANGED chain

(* requests.get(...) for one of the neighbours left. *)
Ask(n, left, longest, best) ==
  \E node \in left :
    /\ request' = [request EXCEPT ![n] =
         [pc |-> "asking", left |-> left \ {node}, node |-> node,
          max_length |-> longest, new_chain |-> best, response |-> << >>]]
    /\ UNCHANGED chain

(* None is left: replace the chain if a longer one was found, and answer. *)
Conclude(n, left, best) ==
  /\ left = {}
  /\ request' = [request EXCEPT ![n] = NoRequest]
  /\ chain' = IF best = << >> THEN chain ELSE [chain EXCEPT ![n] = best]

Continue(n, left, longest, best) ==
  /\ Ask(n, left, longest, best) \/ Conclude(n, left, best)
  /\ UNCHANGED << current_transactions, nodes, clock, posted >>

Consensus(n) ==
  /\ Free(n)
  /\ Continue(n, nodes[n], Len(chain[n]), << >>)

(* GET /chain, at the node n asks: a node that is busy lets n wait. *)
FullChain(n) ==
  /\ request[n].pc = "asking"
  /\ request[n].node \in Node
  /\ Free(request[n].node)
  /\ request' = [request EXCEPT ![n].pc = "answered",
                                ![n].response = chain[request[n].node]]
  /\ UNCHANGED << chain, current_transactions, nodes, clock, posted >>

(* A plausible bug: a chain as long as the longest known is taken as well. *)
NotShorter(r) ==
  Len(r.response) >= r.max_length /\ valid_chain(r.response)

(* The length is greater and the chain is valid. *)
Longer(r) ==
  Len(r.response) > r.max_length /\ valid_chain(r.response)

ResumeConsensus(n) ==
  LET r == request[n]
  IN  /\ r.pc = "answered"
      /\ IF Longer(r)
           THEN Continue(n, r.left, Len(r.response), r.response)
           ELSE Continue(n, r.left, r.max_length, r.new_chain)

(* Another server answers with a status that is not 200. *)
NotOK(n) ==
  LET r == request[n]
  IN  /\ r.pc = "asking"
      /\ r.node = "elsewhere"
      /\ Continue(n, r.left, r.max_length, r.new_chain)

(* requests.get raises: the handler is left, and what was found forgotten. *)
RequestFails(n) ==
  /\ ~ Free(n)
  /\ request' = [request EXCEPT ![n] = NoRequest]
  /\ UNCHANGED << chain, current_transactions, nodes, clock, posted >>

-----------------------------------------------------------------------------
Next ==
  \E n \in Node :
    \/ \E tx \in UserTransaction : NewTransaction(n, tx)
    \/ \E body \in RegisterRequest[n] : RegisterNodes(n, body)
    \/ Mine(n)
    \/ Consensus(n)
    \/ FullChain(n)
    \/ ResumeConsensus(n)
    \/ NotOK(n)
    \/ RequestFails(n)

Spec == Init /\ [][Next]_vars

(***************************************************************************)
(* Requests that wait are taken from the backlog in turn, so one is not    *)
(* passed over for ever by a server that is free again and again; an       *)
(* answer that has arrived is used.  No request fails of itself, and       *)
(* another server may be silent for ever: requests.get has no timeout.     *)
(***************************************************************************)
Fairness ==
  \A n \in Node : SF_vars(FullChain(n)) /\ WF_vars(ResumeConsensus(n))

FairSpec == Spec /\ Fairness

-----------------------------------------------------------------------------
Promise == INSTANCE Ledger WITH pending <- current_transactions

(***************************************************************************)
(* A node keeps what the comments promise: chains only ever grow by a      *)
(* block that takes up all that waits, or give way to longer valid ones.   *)
(***************************************************************************)
KeepsPromise == Promise!Spec

(* Chains held, answered and found are trustworthy, and a resolve compares *)
(* by the length of its own node's chain or of the longer one it found.    *)
ResolveInvariant ==
  /\ TypeOK
  /\ \A n \in Node :
       /\ Trustworthy(chain[n])
       /\ request[n].response # << >> => Trustworthy(request[n].response)
       /\ Free(n) => request[n] = NoRequest
       /\ ~ Free(n) => request[n].max_length >= Len(chain[n])
       /\ request[n].new_chain # << >> =>
            /\ Trustworthy(request[n].new_chain)
            /\ request[n].max_length = Len(request[n].new_chain)
            /\ Len(request[n].new_chain) > Len(chain[n])

NoneAhead ==
  \A n \in Node : /\ AheadOfNoMiner(chain[n], chain)
                  /\ AheadOfNoMiner(request[n].response, chain)
                  /\ AheadOfNoMiner(request[n].new_chain, chain)

(***************************************************************************)
(* What every step preserves: the chains are good, and a resolve compares  *)
(* by a length its own node's chain has not outgrown, which is what the    *)
(* busy server ensures and what fails in the JavaScript node; and nobody   *)
(* has, sends or finds a block of a node that the node's own chain does    *)
(* not reach: a chain is never replaced by a shorter one.                  *)
(***************************************************************************)
PyInvariant == ResolveInvariant /\ NoneAhead

(* n waits for nodes that wait for one another, or for another server. *)
Stuck(n) ==
  \E S \in SUBSET {m \in Node : request[m].pc = "asking"} :
    n \in S /\ \A m \in S : request[m].node \in S \cup {"elsewhere"}

(***************************************************************************)
(* "return: True if our chain was replaced, False if not": a server comes  *)
(* to the end of its resolves, or is, from some time on, stuck for ever.   *)
(* Two nodes that have registered each other, as the tests have it, are    *)
(* as soon as both are told to resolve; so is a node registered with       *)
(* itself, or one that asks a server which accepts and stays silent, and   *)
(* whoever asks one of these.                                              *)
(***************************************************************************)
OnlyStuckWait == \A n \in Node : []<>Free(n) \/ <>[]Stuck(n)
=============================================================================
