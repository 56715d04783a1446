----------------------------- MODULE RacingNode -----------------------------
(***************************************************************************)
(* The class blockchain of the two C++ ports, one object per node, as the  *)
(* handlers of several threads use it: nothing locks it.  A handler is cut *)
(* into the steps between which another thread may reach the same vector.  *)
(*                                                                         *)
(* Two accesses to one container at the same moment, one of them a write,  *)
(* are undefined.  Modelled outcomes: one of two writes is lost; a size or *)
(* a block that is read is none there ever was (TornSize, NoBlock); or the *)
(* process ends (CppNetwork).  A reference into a vector that was written  *)
(* since may dangle: reading it gives the block it referred to, or none of *)
(* any chain (Garbage), or ends the process.                               *)
(***************************************************************************)
EXTENDS Blocks, FiniteSets

CONSTANTS
  Thread,            \* threads that run handlers
  Home,              \* the node each of them belongs to
  Crow,              \* the nodes that run the port to crow; the others: cpp-httplib
  RegisterRequest,   \* the bodies posted to /nodes/register of each node
  BootTime,          \* when each node started: the timestamp of its first block
  FirstTick,         \* the time of the first block stamped after that
  LastTick,          \* bound: no mining starts at a node from this time on
  LastRestart,       \* bound: no process is started again from this time on
  MaxPending         \* bound: with as many waiting at a node, none is posted to it

(* Hosts a node can register: a node, another server, a node without its port. *)
Peer == Node \cup {"elsewhere", "noport"}

(* 'http://h:p' or 'h:p'; 'https://h:p'; 'http://h'; 'http://:p' or 'http://h:x'. *)
Address == [form: {"port", "https", "noport", "invalid"}, host: Peer]

ASSUME RacingAssumption ==
  /\ Home \in [Thread -> Node]
  /\ Crow \subseteq Node
  /\ \A n \in Node : \A body \in RegisterRequest[n] : body \in Seq(Address)
  /\ BootTime \in [Node -> Nat]
  /\ FirstTick \in Nat
  /\ LastTick \in [Node -> Nat]
  /\ LastRestart \in Nat
  /\ MaxPending \in [Node -> Nat]

VARIABLES
  chain,                 \* chain[n]: the blocks node n believes in
  current_transactions,  \* current_transactions[n]: accepted, not in a block yet
  nodes,                 \* nodes[n]: the peers registered at n
  thread,                \* thread[t]: the handler t runs and its local variables
  clock,                 \* advances whenever a block is stamped
  posted,                \* the transactions clients have posted
  overlapped             \* have two handlers of n ever been in progress together?

vars == << chain, current_transactions, nodes, thread, clock, posted, overlapped >>

NoBlock ==
  [index |-> 0, timestamp |-> 0, transactions |-> << >>, proof |-> 0,
   previous_hash |-> GenesisPreviousHash]

(* The digest of freed memory, which is that of no block of a chain. *)
Garbage == hash(NoBlock)

(* A size computed from two pointers that do not belong together. *)
TornSize == 100

Idle(t) ==
  [pc |-> "idle", last |-> NoBlock, stale |-> FALSE, forged |-> NoBlock,
   left |-> {}, peer |-> "elsewhere", server |-> t, max_length |-> 0,
   new_chain |-> << >>, reply |-> << >>]

Work ==
  [pc: {"idle", "searching", "rewarded", "stamped", "appended",
        "asking", "serialised", "lost", "concluding",
        "posting", "registering"},
   last: Block, stale: BOOLEAN, forged: Block,
   left: SUBSET Peer, peer: Peer, server: Thread, max_length: Nat,
   new_chain: Seq(Block), reply: Seq(Block)]

TypeOK ==
  /\ chain \in [Node -> Seq(Block)]
  /\ current_transactions \in [Node -> Seq(Transaction)]
  /\ nodes \in [Node -> SUBSET Peer]
  /\ thread \in [Thread -> Work]
  /\ clock \in Nat
  /\ posted \subseteq UserTransaction
  /\ overlapped \in [Node -> BOOLEAN]

Init ==
  /\ chain = [n \in Node |-> GenesisChain(BootTime[n])]
  /\ current_transactions = [n \in Node |-> << >>]
  /\ nodes = [n \in Node |-> {}]
  /\ thread = [t \in Thread |-> Idle(t)]
  /\ clock = FirstTick
  /\ posted = {}
  /\ overlapped = [n \in Node |-> FALSE]

-----------------------------------------------------------------------------
(* Threads *)

Local(n) == {t \in Thread : Home[t] = n}

(* A worker of crow answers the /chain of another thread. *)
Serving(t) ==
  \E u \in Thread \ {t} : thread[u].pc = "serialised" /\ thread[u].server = t

Free(t) == thread[t].pc = "idle" /\ ~ Serving(t)

(***************************************************************************)
(* The handlers in progress that take part in the state of n: all but      *)
(* /chain, which only reads.  A /chain may overlap any of them; what comes *)
(* of that is in TornSize, ChainsRead and DataRace.                        *)
(***************************************************************************)
InProgress(n) == {t \in Local(n) : thread[t].pc # "idle"}

(* A handler of t is entered: it overlaps those in progress. *)
Overlaps(t) ==
  overlapped' = [overlapped EXCEPT ![Home[t]] = @ \/ InProgress(Home[t]) # {}]

Enters(t, work) ==
  /\ Free(t)
  /\ thread' = [thread EXCEPT ![t] = work]
  /\ Overlaps(t)
  /\ UNCHANGED << chain, current_transactions, nodes, clock >>

(* What the next step of t writes of its node, and what it reads. *)
Writes(t) ==
  CASE thread[t].pc \in {"posting", "searching", "appended"} ->
         {"current_transactions"}
    [] thread[t].pc \in {"stamped", "concluding"} -> {"chain"}
    [] thread[t].pc = "registering"               -> {"nodes"}
    [] OTHER                                      -> {}

Reads(t) ==
  CASE thread[t].pc \in {"posting", "searching", "rewarded", "appended",
                        "concluding"} -> {"chain"}
    [] thread[t].pc = "stamped"       -> {"current_transactions"}
    [] OTHER                          -> {}

Uses(t) == Writes(t) \cup Reads(t)

(* Another thread of the node of t writes vector v with its next step. *)
Raced(t, v) == \E u \in Local(Home[t]) \ {t} : v \in Writes(u)

(* What the write of new to vector v by t leaves: raced, it may be lost. *)
Outcomes(t, v, old, new) == {new} \cup (IF Raced(t, v) THEN {old} ELSE {})

(* t goes on with work; references its node's mines hold now may dangle. *)
AfterWrite(t, work) ==
  [u \in Thread |->
     IF u = t THEN work
     ELSE IF Home[u] = Home[t] /\ thread[u].pc \in {"searching", "rewarded"}
       THEN [thread[u] EXCEPT !.stale = TRUE]
       ELSE thread[u]]

(* A thread of n writes the chain with its next step. *)
ChainIsWritten(n) == \E u \in Local(n) : "chain" \in Writes(u)

(***************************************************************************)
(* What chain.size() gives to be compared, and what the chain is made JSON *)
(* of, while it may be written.  An index may be torn as well; nobody      *)
(* looks at it.                                                            *)
(***************************************************************************)
SizesRead(n) ==
  {Len(chain[n])} \cup (IF ChainIsWritten(n) THEN {TornSize} ELSE {})

ChainsRead(n) ==
  LET torn == [chain[n] EXCEPT ![Len(chain[n])] = NoBlock]
  IN  {chain[n]} \cup (IF ChainIsWritten(n) THEN {torn} ELSE {})

-----------------------------------------------------------------------------
(* POST /transactions/new; one that lacks a field changes nothing. *)
PostEnters(t, tx) ==
  /\ tx \notin posted
  /\ posted' = posted \cup {tx}
  /\ Len(current_transactions[Home[t]]) < MaxPending[Home[t]]
  /\ Enters(t, [Idle(t) EXCEPT !.pc = "posting", !.forged.transactions = << tx >>])

NewTransaction(t) ==
  LET work == thread[t]
  IN  /\ work.pc = "posting"
      /\ current_transactions' \in
           Outcomes(t, "current_transactions", current_transactions,
                    [current_transactions EXCEPT ![Home[t]] =
                       @ \o work.forged.transactions])
      /\ thread' = [thread EXCEPT ![t] = Idle(t)]
      /\ UNCHANGED << chain, nodes, clock, posted, overlapped >>

-----------------------------------------------------------------------------
(* GET /mine *)

(* last_block is a reference; proof_of_work copies what it needs of it. *)
MineStarts(t) ==
  /\ clock < LastTick[Home[t]]
  /\ Enters(t, [Idle(t) EXCEPT !.pc = "searching",
                               !.last = last_block(chain[Home[t]])])
  /\ UNCHANGED posted

(* A plausible bug: the search returns the number after the proof. *)
MineRewardsOneTooFar(t) ==
  LET n == Home[t]
  IN  /\ thread[t].pc = "searching"
      /\ \E proof \in 0 .. MaxProof :
           /\ FoundByProofOfWork(thread[t].last, proof)
           /\ thread' = [thread EXCEPT ![t].pc = "rewarded",
                                       ![t].forged.proof = proof + 1]
      /\ current_transactions' \in
           Outcomes(t, "current_transactions", current_transactions,
                    [current_transactions EXCEPT ![n] = Append(@, Reward(n))])
      /\ UNCHANGED << chain, nodes, clock, posted, overlapped >>

(* The proof is found: new_transaction("0", node_identifier, 1). *)
MineRewards(t) ==
  LET n == Home[t]
  IN  /\ thread[t].pc = "searching"
      /\ \E proof \in 0 .. MaxProof :
           /\ FoundByProofOfWork(thread[t].last, proof)
           /\ thread' = [thread EXCEPT ![t].pc = "rewarded",
                                       ![t].forged.proof = proof]
      /\ current_transactions' \in
           Outcomes(t, "current_transactions", current_transactions,
                    [current_transactions EXCEPT ![n] = Append(@, Reward(n))])
      /\ UNCHANGED << chain, nodes, clock, posted, overlapped >>

(* The block that last_block refers to is hashed, whatever it is by now. *)
HashOfReference(t) ==
  {hash(thread[t].last)} \cup (IF thread[t].stale THEN {Garbage} ELSE {})

(* new_block reads the size of the chain and the time ... *)
MineStamps(t) ==
  /\ thread[t].pc = "rewarded"
  /\ \E previous_hash \in HashOfReference(t) :
       thread' = [thread EXCEPT ![t] = [@ EXCEPT
         !.pc = "stamped",
         !.last = NoBlock,
         !.stale = FALSE,
         !.forged.index = Len(chain[Home[t]]) + 1,
         !.forged.timestamp = clock,
         !.forged.previous_hash = previous_hash]]
  /\ clock' = clock + 1
  /\ UNCHANGED << chain, current_transactions, nodes, posted, overlapped >>

(* A plausible bug: the transactions are moved away before they are copied. *)
MineAppendsEmpty(t) ==
  LET n == Home[t]
  IN  /\ thread[t].pc = "stamped"
      /\ chain' \in Outcomes(t, "chain", chain, [chain EXCEPT ![n] =
           Append(@, thread[t].forged)])
      /\ thread' = AfterWrite(t, [Idle(t) EXCEPT !.pc = "appended"])
      /\ UNCHANGED << current_transactions, nodes, clock, posted, overlapped >>

(* ... copies the transactions into the block it appends (a move from a    *)
(* vector passed on as const&) ...                                         *)
MineAppends(t) ==
  LET n == Home[t]
  IN  /\ thread[t].pc = "stamped"
      /\ chain' \in Outcomes(t, "chain", chain, [chain EXCEPT ![n] =
           Append(@, [thread[t].forged EXCEPT
                        !.transactions = current_transactions[n]])])
      /\ thread' = AfterWrite(t, [Idle(t) EXCEPT !.pc = "appended"])
      /\ UNCHANGED << current_transactions, nodes, clock, posted, overlapped >>

(* ... and empties the vector of transactions. *)
MineClears(t) ==
  LET n == Home[t]
  IN  /\ thread[t].pc = "appended"
      /\ current_transactions' \in
           Outcomes(t, "current_transactions", current_transactions,
                    [current_transactions EXCEPT ![n] = << >>])
      /\ thread' = [thread EXCEPT ![t] = Idle(t)]
      /\ UNCHANGED << chain, nodes, clock, posted, overlapped >>

-----------------------------------------------------------------------------
(* GET /nodes/resolve *)

(* A request to a node of crow is dealt to one of its workers. *)
Servers(t, peer) == IF peer \in Crow THEN Local(peer) ELSE {t}

Asking(t, peer, left, longest, best) ==
  {[Idle(t) EXCEPT !.pc = "asking", !.peer = peer, !.server = server,
                   !.left = left \ {peer}, !.max_length = longest,
                   !.new_chain = best] : server \in Servers(t, peer)}

(***************************************************************************)
(* The head of the loop over neighbors, a copy of nodes: ask the next for  *)
(* its /chain, or leave the loop, with a longer chain or without.          *)
(***************************************************************************)
Continue(t, left, longest, best) ==
  /\ \/ \E peer \in left :
          \E work \in Asking(t, peer, left, longest, best) :
            thread' = [thread EXCEPT ![t] = work]
     \/ /\ left = {}
        /\ best # << >>
        /\ thread' = [thread EXCEPT ![t] =
             [Idle(t) EXCEPT !.pc = "concluding", !.new_chain = best]]
     \/ /\ left = {}
        /\ best = << >>
        /\ thread' = [thread EXCEPT ![t] = Idle(t)]
  /\ UNCHANGED << chain, current_transactions, nodes, clock, posted >>

ResolveStarts(t) ==
  /\ Free(t)
  /\ \E size \in SizesRead(Home[t]) : Continue(t, nodes[Home[t]], size, << >>)
  /\ Overlaps(t)

(* The chain is replaced by the longer one. *)
Concludes(t) ==
  /\ thread[t].pc = "concluding"
  /\ chain' \in Outcomes(t, "chain", chain,
                        [chain EXCEPT ![Home[t]] = thread[t].new_chain])
  /\ thread' = AfterWrite(t, Idle(t))
  /\ UNCHANGED << current_transactions, nodes, clock, posted, overlapped >>

(* GET /chain at the neighbour: the chain is made JSON ... *)
ChainSerialised(t) ==
  LET peer == thread[t].peer
  IN  /\ thread[t].pc = "asking"
      /\ peer \in Node
      /\ peer \in Crow => Free(thread[t].server)
      /\ \E reply \in ChainsRead(peer) :
           thread' = [thread EXCEPT ![t].pc = "serialised", ![t].reply = reply]
      /\ UNCHANGED << chain, current_transactions, nodes, clock, posted, overlapped >>

(* A plausible bug: the longest chain wins, valid or not. *)
BetterUnvalidated(work, length) == length > work.max_length

(* What the neighbour calls its length is greater, and its chain is valid. *)
Better(work, length) == length > work.max_length /\ valid_chain(work.reply)

(***************************************************************************)
(* ... and then its size is asked for.  What t does with the answer is its *)
(* own affair.                                                             *)
(***************************************************************************)
Answered(t) ==
  LET work == thread[t]
  IN  /\ work.pc = "serialised"
      /\ \E length \in SizesRead(work.peer) :
           IF Better(work, length)
             THEN Continue(t, work.left, length, work.reply)
             ELSE Continue(t, work.left, work.max_length, work.new_chain)
      /\ UNCHANGED overlapped
=============================================================================
