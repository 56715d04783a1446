----------------------------- MODULE CppNetwork -----------------------------
(***************************************************************************)
(* A network of C++ nodes, some built on cpp-httplib and some on crow.     *)
(* The class and the routes are the same; what differs is who runs a       *)
(* handler, what an exception does to it, and how a neighbour is asked:    *)
(*                                                                         *)
(*   cpp-httplib   a new thread per connection; an exception ends the      *)
(*                 process; a neighbour that does not answer in time is    *)
(*                 skipped                                                 *)
(*   crow          a worker among a fixed number, busy with its handler    *)
(*                 until that returns; an exception is answered with 500;  *)
(*                 a neighbour is waited for without a limit               *)
(***************************************************************************)
EXTENDS RacingNode

-----------------------------------------------------------------------------
(* The end of a process *)

(***************************************************************************)
(* Its operator starts it again, with a first block of its own and nothing *)
(* remembered; whoever was waiting for an answer loses the connection.     *)
(***************************************************************************)
Terminate(n) ==
  /\ clock < LastRestart
  /\ chain' = [chain EXCEPT ![n] = GenesisChain(clock)]
  /\ current_transactions' = [current_transactions EXCEPT ![n] = << >>]
  /\ nodes' = [nodes EXCEPT ![n] = {}]
  /\ thread' = [t \in Thread |->
       IF Home[t] = n THEN Idle(t)
       ELSE IF thread[t].pc \in {"asking", "serialised"} /\ thread[t].peer = n
         THEN [thread[t] EXCEPT !.pc = "lost"]
         ELSE thread[t]]
  /\ overlapped' = [overlapped EXCEPT ![n] = FALSE]
  /\ clock' = clock + 1
  /\ UNCHANGED posted

(***************************************************************************)
(* The next steps of two threads of n use what one of them writes; or one  *)
(* writes what a request may read that comes at any moment, in a thread of *)
(* httplib or by a free worker of crow: /chain and /mine begin with the    *)
(* chain, /nodes/resolve with the nodes.                                   *)
(***************************************************************************)
DataRace(n) ==
  \E t \in Local(n) :
    \/ \E u \in Local(n) \ {t} : Writes(t) \cap Uses(u) # {}
    \/ /\ Writes(t) \cap {"chain", "nodes"} # {}
       /\ n \in Crow => \E u \in Local(n) \ {t} : thread[u].pc = "idle"

(* A mine at n hashes a block that is no longer where it was. *)
DanglingReference(n) ==
  \E t \in Local(n) : thread[t].pc = "rewarded" /\ thread[t].stale

UndefinedBehaviour(n) == (DataRace(n) \/ DanglingReference(n)) /\ Terminate(n)

(* An exception leaves a handler: nobody catches it in a thread of httplib, *)
(* and the router of crow makes it an answer.                               *)
Throws(t) ==
  \/ Home[t] \notin Crow /\ Terminate(Home[t])
  \/ /\ Home[t] \in Crow
     /\ thread' = [thread EXCEPT ![t] = Idle(t)]
     /\ UNCHANGED << chain, current_transactions, nodes, clock, posted, overlapped >>

-----------------------------------------------------------------------------
(* POST /nodes/register *)

(***************************************************************************)
(* register_node adds the host, with its port if it has one.  'https://' is *)
(* prefixed with 'http://' like any other, which makes "https" the host,   *)
(* with an empty port.                                                     *)
(***************************************************************************)
HostAdded(address) ==
  CASE address.form = "port" -> address.host
    [] OTHER                 -> "noport"

(* No host, or a port that is no number. *)
IsInvalid(address) == address.form = "invalid"

(***************************************************************************)
(* An address that throws ends the loop: those before it are kept, if the  *)
(* process survives.                                                       *)
(***************************************************************************)
HostsAdded(body) ==
  {HostAdded(body[i]) : i \in {j \in 1 .. Len(body) :
     \A k \in 1 .. j : ~ IsInvalid(body[k])}}

RegisterEnters(t, body) ==
  IF Home[t] \notin Crow /\ \E k \in 1 .. Len(body) : IsInvalid(body[k])
    THEN Free(t) /\ Terminate(Home[t])
    ELSE /\ Enters(t, [Idle(t) EXCEPT !.pc = "registering",
                                     !.left = HostsAdded(body)])
         /\ UNCHANGED posted

RegisterNodes(t) ==
  /\ thread[t].pc = "registering"
  /\ nodes' \in Outcomes(t, "nodes", nodes,
                        [nodes EXCEPT ![Home[t]] = @ \cup thread[t].left])
  /\ thread' = [thread EXCEPT ![t] = Idle(t)]
  /\ UNCHANGED << chain, current_transactions, clock, posted, overlapped >>

-----------------------------------------------------------------------------
(* What may come of asking a neighbour *)

(***************************************************************************)
(* httplib::Client keeps port 0 for a host without one, where nobody       *)
(* listens; requests_get asks port 80 of the host, another server.         *)
(***************************************************************************)
AsksOther(t) ==
  /\ thread[t].pc = "asking"
  /\ \/ thread[t].peer = "elsewhere"
     \/ thread[t].peer = "noport" /\ Home[t] \in Crow

Skip(t) ==
  /\ Continue(t, thread[t].left, thread[t].max_length, thread[t].new_chain)
  /\ UNCHANGED overlapped

(* Another server answers with a status that is not 200 ... *)
OtherStatus(t) == AsksOther(t) /\ Skip(t)

(* ... or with 200 and a text that is no chain. *)
OtherText(t) == AsksOther(t) /\ Throws(t)

Waits(t) == thread[t].pc \in {"asking", "serialised", "lost"}

(* A plausible bug: select without a timeout; only a lost connection fails. *)
GetFailsWhenLost(t) ==
  Home[t] \notin Crow /\ thread[t].pc = "lost" /\ Skip(t)

(* httplib: no connection, none in time, no answer in time: Get is null. *)
GetFails(t) == Home[t] \notin Crow /\ Waits(t) /\ Skip(t)

(* happyhttp: no connection, or it ends before the answer does: Wobbly. *)
PumpThrows(t) == Home[t] \in Crow /\ Waits(t) /\ Throws(t)

-----------------------------------------------------------------------------
(* A request comes in; what t does by itself; what others do for it. *)
Request(t) ==
  \/ \E tx \in UserTransaction : PostEnters(t, tx)
  \/ \E body \in RegisterRequest[Home[t]] : RegisterEnters(t, body)
  \/ MineStarts(t)
  \/ ResolveStarts(t)

Run(t) ==
  \/ NewTransaction(t)
  \/ RegisterNodes(t)
  \/ MineRewards(t)
  \/ MineStamps(t)
  \/ MineAppends(t)
  \/ MineClears(t)
  \/ Concludes(t)

Answer(t) ==
  \/ ChainSerialised(t)
  \/ Answered(t)
  \/ OtherStatus(t)
  \/ OtherText(t)
  \/ GetFails(t)
  \/ PumpThrows(t)

Step(t) == Request(t) \/ Run(t) \/ Answer(t)

Next ==
  \/ \E t \in Thread : Step(t)
  \/ \E n \in Node : UndefinedBehaviour(n)

Spec == Init /\ [][Next]_vars

(***************************************************************************)
(* A thread that can run does, and a handler that searches finds.  The     *)
(* client of httplib gives up by its timeout if nothing else happens (it   *)
(* is one for each read: a server that sends a byte now and then for ever  *)
(* is left out); that of crow notices a lost connection, and is served in  *)
(* its turn by a worker that is free again and again.  Other servers may   *)
(* be silent for ever.                                                     *)
(***************************************************************************)
Fairness ==
  \A t \in Thread :
    /\ WF_vars(Run(t))
    /\ WF_vars(Answered(t))
    /\ WF_vars(GetFails(t))
    /\ WF_vars(thread[t].pc = "lost" /\ PumpThrows(t))
    /\ SF_vars(ChainSerialised(t))

FairSpec == Spec /\ Fairness

-----------------------------------------------------------------------------
(* What holds although nothing is locked *)

(* Two handlers of n that update it (not /chain, which does not) have not   *)
(* been in progress together since its process started.                     *)
Quiet(n) == ~ overlapped[n]

(***************************************************************************)
(* The damage of a race stays at the node it happened at: a node whose own *)
(* handlers never overlapped has a valid chain, whatever its neighbours    *)
(* have become and serve.  About /mine, resolve_conflicts and valid_chain. *)
(***************************************************************************)
QuietNodesAreValid == \A n \in Node : Quiet(n) => valid_chain(chain[n])

(***************************************************************************)
(* What a mine by t holds belongs to the chain as it is: the reference to  *)
(* the last block, the proof, the digest, and the transactions it is about *)
(* to drop, which the new last block has.                                  *)
(***************************************************************************)
MineInOrder(t) ==
  LET n == Home[t]
      work == thread[t]
      last == last_block(chain[n])
  IN  /\ work.pc \in {"searching", "rewarded"} => work.last = last /\ ~ work.stale
      /\ work.pc \in {"rewarded", "stamped"} =>
           valid_proof(last.proof, work.forged.proof, hash(last))
      /\ work.pc = "stamped" => work.forged.previous_hash = hash(last)
      /\ work.pc = "appended" => last.transactions = current_transactions[n]

(* What a resolve has found is valid; a node is making the answer, if any; *)
(* and one that replaces the chain has found something.                   *)
ResolveInOrder(work) ==
  /\ valid_chain(work.new_chain)
  /\ work.pc = "serialised" => work.peer \in Node
  /\ work.pc = "concluding" => work.new_chain # << >>

(***************************************************************************)
(* The inductive invariant: in a quiet node one handler that updates it is *)
(* in progress at most, and a mine there is in order; what any resolve has *)
(* found is valid.                                                         *)
(***************************************************************************)
RacingInvariant ==
  /\ TypeOK
  /\ \A n \in Node :
       /\ Len(chain[n]) >= 1
       /\ Quiet(n) => /\ valid_chain(chain[n])
                      /\ \A t, u \in InProgress(n) : t = u
  /\ \A t \in Thread :
       /\ ResolveInOrder(thread[t])
       /\ Quiet(Home[t]) => MineInOrder(t)

(***************************************************************************)
(* In a quiet node whose process goes on running, a transaction that was   *)
(* accepted waits until a block of the node carries it.  About new_block,  *)
(* which copies the vector and empties it only in a later step.            *)
(***************************************************************************)
QuietKeepsTransactions ==
  [][\A n \in Node, tx \in UserTransaction :
       PlacesIn(current_transactions[n], tx) # {} /\ Quiet(n)' =>
         \/ PlacesIn(current_transactions[n], tx)' # {}
         \/ PlacesIn(last_block(chain[n]).transactions, tx)' # {}
         \/ chain'[n] = GenesisChain(clock)]_vars

(***************************************************************************)
(* t belongs to workers of crow that wait for one another, or for another  *)
(* server.                                                                 *)
(***************************************************************************)
Stuck(t) ==
  \E S \in SUBSET {u \in Thread : Home[u] \in Crow /\ thread[u].pc = "asking"} :
    /\ t \in S
    /\ \A u \in S : \/ AsksOther(u)
                    \/ (thread[u].peer \in Crow /\ thread[u].server \in S)

(***************************************************************************)
(* "return true if our chain was replaced, false if not": a thread comes   *)
(* to the end of its handlers, on cpp-httplib always, by the timeouts of   *)
(* its client if need be; a worker of crow does, or is stuck from some     *)
(* time on: it asks, through others, for itself, or for a server that      *)
(* accepts and stays silent.                                               *)
(***************************************************************************)
OnlyStuckWait ==
  \A t \in Thread :
    \/ []<>(thread[t].pc = "idle")
    \/ (Home[t] \in Crow /\ <>[]Stuck(t))
=============================================================================
