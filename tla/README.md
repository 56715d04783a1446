# A verification of the blockchain nodes

The repository holds one program many times over: *Learn Blockchains by Building
One* in Python, and its ports to JavaScript, TypeScript, C++ (twice), Rust, Go,
Kotlin, F# and C#.  Each is an HTTP server, a *node*, that keeps a chain of
blocks in memory.  This directory models what the nodes of one port do to one
another.  TLC checks the modules on small networks, and TLAPS proves the main
properties for networks of any size.

## 1. The system

Every node has the same state and the same five routes.

| state | meaning |
|---|---|
| `chain` | the blocks the node believes in, the first one made at start |
| `current_transactions` | transactions accepted but not in a block yet |
| `nodes` | hosts of the peers it asks |

| route | what it does |
|---|---|
| `POST /transactions/new` | appends to the waiting transactions and tells the client the index of the next block |
| `GET /mine` | searches a proof for the last block, adds a reward, forges a block of all that waits, appends it |
| `GET /chain` | answers with the chain and its length |
| `POST /nodes/register` | adds the host of each address in the body |
| `GET /nodes/resolve` | asks every peer for `/chain` and takes over the longest valid chain that is longer than its own |

Nodes interact only through `/chain`, asked by the `/nodes/resolve` of a peer.
Nothing is written to disk: a node that restarts is a new node.  What differs
between the ports, and what makes them hard, is how the handlers of one node
overlap.

| component | how handlers overlap | what is hard | what should hold |
|---|---|---|---|
| digests, proof of work, `valid_chain` | pure functions | `valid_chain` never looks at `index` or at the first block | chains made and exchanged by nodes are sound all the same |
| JavaScript `app.js`, TypeScript `app.ts` | one event loop; `/nodes/resolve` yields at each `await` | `maxLength` and `newChain` survive awaits in which the node mines, registers and resolves | sound chains, no lost or doubled transaction, no regress |
| `app-with-worker.js` / `.ts` | as above, and `/mine` yields while a worker thread searches | `lastBlock` is from before the search | broken chains stay at home |
| Python `blockchain.py` | one request at a time (flask 0.12.2 is not threaded unless asked) | servers blocked on one another or on a silent one, no timeout | the node does what its comments promise; a resolve that never returns waits in a circle or for a silent server |
| Python `blockchain-threaded.py` | a thread per request, switched between byte codes | lists are shared with the blocks that hold them; a set changes while it is iterated | the damage is bounded: what is adopted is valid, and nodes where mines do not overlap lose and double nothing |
| Rust | a thread per request, one mutex held for the whole handler | the mutex is held while a body is read and while a peer is asked; the 30 s timeout panics and poisons it | resolves end, and the node does what its comments promise |
| C++ on cpp-httplib | a thread per connection, no lock | data races; a reference to the last block outlives a reallocation; length and chain answered from two moments; an exception ends the process | a node whose handlers do not overlap stays sound; resolves end |
| C++ on crow | a fixed number of workers, no lock between them | the same, and workers that wait for workers, or for a silent server, without a timeout | the same, but for workers that wait so for ever |
| connections of crow | callbacks of one worker | objects that delete themselves, deadlines named by places in a moving queue, exceptions in a callback | no use after deletion, no early close, a leak at two known moments only |
| Go, Kotlin, C# (two frameworks) | threads without a lock | collections changed while iterated or serialised | as C++ |
| F# | a pool of threads, no lock; immutable lists and sets replaced | lost updates; chain and length answered from two moments; threads that wait for one another until a timeout | an overlap harms the attribute it is about and no other |
| vendored libraries, system tests | – | – | – |

## 2. The modules

| module | models | source |
|---|---|---|
| `Blocks` | transactions, blocks, digests, proof of work, `new_block`, `valid_chain`; what a sound chain is | `blockchain-cpp/src/Blockchain/blockchain.hpp` (the same functions in every port) |
| `EventLoop` | a network of JavaScript nodes: all routes but `/mine` | `blockchain.js`, `app.js` |
| `App` | `EventLoop` and a `/mine` that holds the loop | `app.js` |
| `AppWithWorker` | `EventLoop` and a `/mine` of two halves, around the worker | `app-with-worker.js` |
| `PyNode` | a network of single-threaded Python nodes, all routes | `blockchain-py/blockchain.py` |
| `PyThreaded` | a network of threaded Python nodes, lists as objects | `blockchain-py/blockchain-threaded.py` |
| `RustNode` | a network of Rust nodes, all routes, mutex and poison | `blockchain-rust/src` |
| `RacingNode` | the class `blockchain` of both C++ ports as threads use it without a lock | `blockchain-cpp/src/Blockchain` |
| `FSharpNode` | a network of F# nodes, all routes | `blockchain-fsharp/Blockchain` |
| `CppNetwork` | `RacingNode`, who runs the handlers in either port, exceptions, restarts, what comes of asking a neighbour | both C++ ports, `httplib.h`, `crow`, `happyhttp.cpp`, `url.cpp` |
| `CrowConnection` | the connections of one worker of crow and the queue of their deadlines | `crow/http_connection.h`, `dumb_timer_queue.h`, `http_server.h` |
| `Ledger` | what the comments promise of a node: accept a transaction, extend the chain by a block of all that waits, adopt a longer chain another node made longer | abstract |
| `BlockProofs` | lemmas about `Blocks` that several ports' proofs use | |
| `AppProofs`, `PyProofs`, `ThreadedProofs`, `RustProofs`, `CppProofs`, `CrowProofs`, `FSharpProofs` | theorems and proofs; `AppProofs` is about both JavaScript variants | |
| `MC...` | instances for TLC | |

`App` extends `EventLoop` and `AppWithWorker` extends `App`, whose functions it keeps and
whose `/mine` it replaces (`WorkerSpec`); `CppNetwork` extends `RacingNode`.
`EventLoop`, `PyNode`, `PyThreaded`, `RustNode`, `RacingNode`, `FSharpNode` and `Ledger`
extend `Blocks`.  `PyNode` and `RustNode` instantiate `Ledger` with
`pending <- current_transactions`.  `CrowConnection` stands alone: to
`CppNetwork` a worker is a thread that is free or not.

### State and actions

**JavaScript** (`EventLoop`, `App`, `AppWithWorker`)

| code | model |
|---|---|
| `this.chain`, `this.currentTransactions`, `this.nodes` of each node | `chain[n]`, `currentTransactions[n]`, `nodes[n]` |
| locals of an open `resolveConflicts` | `calls[c]`: `maxLength`, `newChain`, the peers `visited`, the answer `reply`, and `pc`: `idle`, `sent` (the peer has not answered), `served` (the answer is under way) |
| `lastBlock` of an open `/mine` with a worker | `workers[w]` |
| `POST /transactions/new` | `NewTransaction`, `NewTransactionMissingValues` (no `return` after the 400) |
| `POST /nodes/register` | `RegisterNodes`: a body is a sequence of addresses and ends at the first that throws |
| `GET /mine` | `Mine`; with a worker `MineStarts`, `MineEnds` |
| `GET /chain` | `FullChain`, an atomic read at the peer |
| `GET /nodes/resolve` | `StartResolve`, `ResumeResolve`, `FetchFails`; each runs to the next `await` or to the assignment of the chain (`Continue` = `NextNeighbor` or `LeaveLoop`) |

**Python, single-threaded** (`PyNode`).  A node is busy from the start of `/mine`
or `/nodes/resolve` to its end.  Nobody sees a node in the middle of `/mine`, so it
is one action; a resolve waits for others and is `Consensus`, `FullChain` (the peer
must be free), `ResumeConsensus`, `NotOK` and `RequestFails`, with its locals in
`request[n]`.

**Python, threaded** (`PyThreaded`).  `chains[n]` and `lists[n]` are the list objects
made at `n`, and the last of each is the one `self.chain` or
`self.current_transactions` names: the code only ever assigns *new* lists to them.  A
block names its list of transactions by number (`Entry`), and `Now` reads it as it is
by now.  A handler is cut at every access to what another thread may change:

| code | steps |
|---|---|
| `mine()` | `MineStarts` (:207), `MineSearches` (:208), `MineFetches` and `MineRewards` (:212), `MineHashes` (:219), `MineTakes` (:110-116), `MineResets` (:119), `MineFetchesChain` and `MineAppends` (:121) |
| `new_transaction()` | `PostStarts`, `PostAppends` |
| `register_nodes()` | `Register`, one address after the other |
| `full_chain()` | `FullChain` (:251), `FullChainLength` (:252), `Serialise`, a block at a time |
| `resolve_conflicts()` | `ResolveStarts`, `ResolveAsks`, `ResumeResolve`, `NotOK`, `RequestFails`, `ResolveRaises` (the set changed its size), `ResolveEnds` |

`jsonify` of this version of flask indents, which makes `json.dumps` an encoder in
Python that other threads interrupt; the digest is made by `json.dumps` without
`indent`, in one call of the C encoder, and is atomic.  `MineTakes` joins the reads of
the length, the time and the list: what another thread does between them it could
do before or after, except append a block, and that would change the `index` only, of
which no property of this module speaks.

**Rust** (`RustNode`).  `holder[n]` is the handler that keeps the mutex of `n`
across something slow: the body of a client (`ReadsBody`, then `NewTransaction`,
`RegisterNodes`, `BodyRefused` or `BodyPanics`) or the answer of a neighbour
(`Consensus`, `FullChain`, `ResumeConsensus`, `NotOK`, `RequestFails`).  `Mine` is one
action.  Every `unwrap()` that may fail is a panic, which sets `poisoned[n]`.
`ReadAs` says which timestamps `serde_json` reads as others.  A body whose later
address is no string panics after earlier ones were added; nobody can see those any
more, and `BodyPanics` leaves them out.

**C++** (`RacingNode`, `CppNetwork`).

| code | model |
|---|---|
| a thread of httplib, a worker of crow | `thread[t]` with its node `Home[t]`; `Crow` are the nodes that run the port to crow |
| `/mine` | `MineStarts` (the reference), `MineRewards`, `MineStamps` (the reference is read again, size and time), `MineAppends` (the transactions are *copied*: the move is from a vector that `emplace_back` passes on as `const&`), `MineClears` |
| `/transactions/new`, `/nodes/register` | `PostEnters` and `NewTransaction`, `RegisterEnters` and `RegisterNodes`: the handler is entered, and writes |
| `/chain` | `ChainSerialised`, and the length with `Answered` at the one who asked |
| `/nodes/resolve` | `ResolveStarts`, `Answered`, `Concludes` (the chain is replaced), and by the client: `OtherStatus`, `OtherText`, `GetFails` (httplib's null), `PumpThrows` (happyhttp's `Wobbly`) |
| an uncaught exception | `Throws`: the end of the process on httplib (`Terminate`), 500 on crow |
| two accesses to one container, one of them a write | `Outcomes`: one of two writes is lost; `SizesRead`, `ChainsRead`: a length or a block is read that there never was; `UndefinedBehaviour`: the process ends |
| reading a reference into a vector that has been written since | the block as it was, `Garbage`, or the end of the process |

`Writes` and `Reads` say which container the next step of a thread uses.  `DataRace`
takes two such steps, or a write of the chain or of the nodes and a request that comes in
at that moment: `/chain` and the others begin by reading one of these, in a new thread of
httplib or in a worker of crow that is free.  A `/chain` is in no thread's way otherwise,
and does not count as a handler in progress: a node is `Quiet` while its handlers that
*update* it do not overlap, which is a weaker premise than that nothing overlaps.

A node whose process ends starts again with a chain of its own, and whoever waited
for it loses the connection.

**F#** (`FSharpNode`).  Lists, sets and blocks never change, so a value that was read
needs no name: a handler keeps a copy in `thread[t]`.  The attributes `Chain`,
`currentTransactions` and `Nodes` are what is shared, and a handler is cut where it reads
one and where it stores one.

| code | steps |
|---|---|
| `/mine` | `MineStarts` (`LastBlock`), `MineFinds` (the proof, and the list read for the reward), `MineRewards`, `MineTakes` (the record of `NewBlock`), `MineClears`, `MineReadsChain` and `MineAppends` (the two halves of `this.Chain <- this.Chain @ [ block ]`) |
| `/transactions/new` | `PostStarts`, `PostStores` |
| `/chain` | `FullChain`, `FullChainLength` |
| `/nodes/register` | `RegisterStarts`, then `RegisterReads` and `RegisterStores` for each address, until one raises |
| `/nodes/resolve` | `ResolveStarts`, `ResolveAsks`, `ResumeResolve`, `RequestThrows`, `ResolveEnds` |

`overlapped[n]` is history: an attribute gets into it when a handler that makes its new
value from the old one meets, at node `n`, another that is to store it.  `MineTakes`
joins three reads as it does in `PyThreaded`.

**crow** (`CrowConnection`).  `conn[c]` is the object: its two flags, `close_connection_`,
the key of its deadline, and the read and the write whose callbacks hold its pointer.
`dq` and `step` are those of `dumb_timer_queue`.  A callback is an action: `Start`,
`ReadPart`, `ReadRequest` or `ReadRequestThrows`, `HandlerReturns`, `ReadError`,
`Written`, `WriteError`, `ProcessTimers`.  While `handling` is a connection the worker
runs nothing else, but clients act and seconds pass.

An operation of the socket is over before its callback runs, and callbacks run in the
order in which their operations were over.  `WriteDone` and `ReadEnds` are these moments:
a write is `written` with its callback to come, or `behind` that of a read which had met
the close of the client.  Then the read's callback closes the socket, deletes nothing since
`is_writing` is up, and the write's, which has no error, deletes nothing either, unless
`close_connection_` is set (`http_connection.h:479-486`, `:519-527`).

### What is abstracted

* **Digest.** SHA-256 is taken as free of collisions: `hash(b)` is the digest `b`
  points at with the content of `b` appended.  Equal digests then mean equal
  blocks with equal pasts, which is how the program uses them.
* **Proof of work.** `LeadingZeros` is a constant: any function of last proof,
  proof and last digest; `Difficulty` covers the ports' three, four and six zeroes.
  The search is modelled by its result, the least valid proof.  In the runs about half
  of all guesses succeed, so chains hold different proofs and both outcomes of
  `valid_proof` occur; the proofs make no use of it.
* **Time.** `clock` advances with every block, so two blocks never have the same
  timestamp; nodes start at different times.  Two nodes whose first blocks were
  made at the same reading of the clock are left out.
* **Order of a set.** The neighbours are visited in any order.
* **Clients.** A client posts a transaction once (`promised`, `posted`); the code
  has nothing to tell a repetition by.  For the same reason what is said of transactions
  that are never twice leaves out those that nodes make themselves (`Minted`): a client
  may post the very words of a reward.  Clients of crow wait for an answer before they
  send the next request, as all of the program's do.
* **Addresses.** The forms each port tells apart, by the host that gets registered.
* **Answers of a peer** are those of the same program, a failure, or those of another
  server: another status, or in C++ and Rust a text that is no chain.  A server that
  invents chains is left out, and so are networks of nodes of different ports, whose
  digests differ.
* **Numbers.** `index`, proofs and the `int step_` of crow's queue are naturals:
  their 31 and 63 bits last longer than any of the processes.

## 3. The runs

All passing runs exhaust their state space, without constraints besides the named
bounds: `LastTick` (how many blocks can be mined), `LastRestart` (until when a process
may end), `MaxPending` (transactions waiting at one node), `Requests` (which handlers
a thread may run), `MaxSends` (how often a client sends), `MaxProof` and the finite
request bodies.  Deadlock is checked in every run but those of `RustNode`, where a
network of poisoned nodes really stops.

| run | instance | checks | shows |
|---|---|---|---|
| `app_safety` | 3 nodes, 2 resolving (one asks both others, one the third only), 3 blocks; a body that throws in its middle | `LoopInvariant`, `ChainsAreSound`, `CandidatesAreSound`, `SharedBlockSharedPast`, `EachTransactionOnce`, `PendingUntilMined`, `ResolveKeepsLongestSeen`, `ResolveReturns` | mining, serving, registering, failing and adopting in any order |
| `worker_two_at_one` | 2 nodes, 2 workers at one, at the other a worker and 2 resolves at once; every form of address, requests that lack a field | `WorkersTypeOK`, `IndicesArePlaces`, `EachTransactionOnce`, `PendingUntilMined`, `OnlySoundChainsAdopted` | what survives late workers and overlapping resolves |
| `py_node` | 3 nodes, 2 that ask each other and one that asks itself, another server, a body that raises in its middle, 2 blocks | `PyInvariant`, `KeepsPromise`, `OnlyStuckWait` | Python nodes implement the ledger, and resolves return unless nodes wait for one another, or for a silent server |
| `py_threaded` | 2 nodes that register each other, 2 threads and 1, 2 blocks | `ThreadedInvariant`, `QuietNodesAreValid`, `SoleMinersLoseNothing`, `SoleMinersDoubleNothing`, `OnlyValidAdopted` | which promise survives which overlap |
| `cpp_safety` | a node on httplib with 2 threads, one on crow with 1; either mines a block, and a process may end before and after it was stamped | `RacingInvariant`, `QuietNodesAreValid`, `QuietKeepsTransactions` | the damage of a race stays where it happened |
| `cpp_liveness` | a node on httplib with 1 thread, one on crow with 2 workers, which mines; addresses without a port, other servers, restarts | `OnlyStuckWait` | handlers return unless workers of crow wait for one another or for a silent server |
| `crow_connection` | 2 connections, one whose client sends twice, one once, a deadline of 2 seconds | `CrowInvariant`, `DeletedIsForgotten`, `KeysFindTheirDeadlines`, `OnlyBrokenLeak`, `NotClosedEarly`, `ConnectionsEnd` | objects, callbacks and deadlines fit together |
| `fsharp_node` | a node with 2 threads and one with 1, which register each other and another server, one with an address in between that raises; 2 blocks | `FSharpInvariant`, `ChainsAreValid`, `EachTransactionOnce`, `WaitsUntilMined`, `RegistrationsStay` | an overlap harms only the attribute it is about |
| `rust_node` | 3 nodes, 2 that ask each other, 2 blocks, one timestamp that changes | `RustInvariant`, `KeepsPromise`, `ResolveReturns`, `PoisonSpreads` | Rust nodes implement the ledger; resolves end; what poison does |

Three runs are meant to fail; each states what a comment says and the code does not do.

| run | property | what happens |
|---|---|---|
| `app_shorter` | `NeverReplacedByShorter` | `maxLength` is read before the awaits; the node mines two blocks in between and is set back to a chain that is shorter |
| `worker_broken` | `ChainsAreSound` | the second of two workers forges on the block that was last before |
| `rust_timestamps` | `LongestIsTaken` | a timestamp such as 1658967714.4750001 comes back as 1658967714.475, the digest changes, and a valid longer chain is refused |

**Why the bounds are enough.**  A regress needs one node to mine two blocks inside
one resolve of another chain of length two: three blocks.  A doubled transaction
needs it in a block of one node, taken over by another that has it waiting: one
transaction, two nodes.  A candidate that disagrees with its length needs two
neighbours with longer chains of different length, hence three nodes.  A worker that
is late needs a second block, and so do two mines of a threaded node that share a
list.  A race needs two threads of one node, a circle two workers.  A key that
outlives its deadline needs a deadline that leaves the queue before another: two
connections, and two seconds tell a deadline that expired from one that did not.
All of these occur: for each checked property `PROJECT.json` names a mutation of one
definition, the kind of slip that code might have, and TLC finds the property broken
in the same instance.

**Properties that hold although one would not expect it.**  `ResolveKeepsLongestSeen`
does hold in `app_safety` although `NeverReplacedByShorter` does not: a resolve is
wrong about its own node, never about its peers.  That is so while a node has one resolve
open at a time, as in this run; `AppProofs!LongestSeenKept` says what is left of it when
there are more: another resolve of the node must have replaced the chain meanwhile.
`OnlySoundChainsAdopted` holds with workers although `ChainsAreSound` does not,
because every adoption is validated, and `OnlyValidAdopted` holds for threads although
a peer may change its blocks while it writes them.  `QuietNodesAreValid` holds next to
neighbours that race, dangle and restart.

**What premises leave out.**  Nothing locks the threaded Python node, the C++ nodes and the
F# node, and their overlaps do lose and double things.  `Quiet`, `SoleMiner` and `Alone`
are the overlaps that do; a property with one of these as its premise says that nothing less
does the damage and that neighbours are not harmed, and says nothing of the node where the
overlap happened: not of a transaction that is posted between the copy and the
emptying of `new_block`, nor of a list that the second of two mines drops, nor of a store that
comes late.  Two failures are in the models with no property to catch them: a registration
makes a resolve of the threaded Python node raise (`ResolveRaises`), and a resolve of the F#
node drops a block mined while it asked (`Blockchain.fs:210`), which leaves a valid chain.

**Behaviour met on the way that no run is about.**

* JavaScript: a transaction may be mined under another index than its client was told
  (`blockchain.js:134`, when a resolve replaces the chain in between); a request
  answered with 400 is stored and mined (`app.js:51`, for lack of a `return`);
  `https://h` is prefixed with `http://` and the host `https` is listed
  (`blockchain.js:23`).
* Python: two nodes registered with each other, as the tests register them, that are told
  to resolve at once wait for each other for ever, since `requests.get` has no timeout
  (`blockchain.py:83`), and answer nobody from then on; so does a node registered with
  itself, and a node that asks a server which accepts and stays silent.  `OnlyStuckWait`
  says that a resolve which never returns is, with those it waits for, one of these.
* F#: `Async.RunSynchronously` keeps a thread of the pool while a neighbour, or the node
  itself, may have none left to answer with (`Blockchain.fs:215`); only the client's
  timeout ends that.
* `PyThreaded` without its premises: two mines that overlap put one list of
  transactions into two blocks, or drop a list that clients have filled; a post
  or a resolve that overlaps a mine leaves the chain invalid.
* C++: `/chain` may tell a length that its chain does not have
  (`blockchain.cpp:90-92`), and a neighbour that compares by the length may then replace
  its chain by a shorter one, itself quiet.  F# (`Program.fs:70-71`) and the threaded
  Python node read the two apart in the same way.
  The comment on `proof_of_work` says four zeroes, `valid_proof` asks for three.
  `url.port() >= 0` (`blockchain.hpp:150`) is always true, so an address without a port
  is asked at port 0.
* crow: the line that logs a request throws when the client has gone
  (`http_connection.h:302`), and the connection is never deleted; nor is one whose
  client goes while the answer is on its way, if the read has met the close before the
  write is done (`:479-486`, `:519`).  `OnlyBrokenLeak` says that, for clients as modelled
  here, a connection is leaked at these two moments only.

### Fairness

`LoopFairness` (JavaScript): a request that was sent is answered or fails, and an
answer that has arrived is used.  The event loop takes callbacks in order and no
handler blocks it; connections are closed or reset at last.  Nothing is assumed of
clients.

`PyNode`: a request waits in the backlog of its peer's socket, which is
served in order of arrival, so a peer that is free again and again answers it at last
(`SF` on `FullChain`); an answer that has arrived is used (`WF` on `ResumeConsensus`).
No fairness is put on `RequestFails`, since `requests.get` without `timeout=` never gives
up, nor on `NotOK`: another server need not answer.

`RustNode`: as above, but `reqwest` gives up after 30 seconds by default (`WF` on
`RequestFails`).  Nothing is assumed of `FullChain`, since a client may keep a body and
with it the mutex of the peer for ever.

`CppNetwork`: threads that can run do, and a search ends (`WF` on `Run` and `Answered`).
httplib's `select` has a timeout, so a request that nothing answers fails (`WF` on
`GetFails`; the timeout is one for each read, and a server that sends a byte now and then
for ever is left out); happyhttp has none, and only a lost connection ends its wait (`WF`
on `PumpThrows` of a thread that is `lost`).  A worker of crow takes connections in order
(`SF` on `ChainSerialised`).  Nothing is assumed of other servers.

`CrowConnection`: a free worker runs the callbacks that are ready (`WF` on `Ready` of
any connection) and its timer, and time passes.  One `WF` for all connections is enough
because a client sends a bounded number of times, so that no connection keeps the worker
from another's callbacks for ever.  Handlers need not return: a resolve may wait for ever
(`cpp_liveness`), and then no callback of the worker runs again.  Nor need a client take
an answer; behind one that closes the connection no deadline runs
(`http_connection.h:490`), and it is written for ever.  `ConnectionsEnd` has these two as
premises, that the worker is free again and again and that no last answer of the connection
waits for ever for its client, and what it then says includes clients that are silent, or
do not take an answer that keeps the connection.

`PyThreaded`, `FSharpNode`, `AppWithWorker` and `cpp_safety` are checked for safety only, and assume no fairness.

## 4. The proofs

TLAPS checks the following for all values of the constants that satisfy the
assumptions of the modules (which say that constants have their types).

| theorem | states |
|---|---|
| `AppProofs!Invariance`, `TypeCorrect` | `Spec => []LoopInvariant`, `[]TypeOK` |
| `AppProofs!Soundness` | `Spec => []ChainsAreSound` |
| `AppProofs!CandidateSoundness` | `Spec => []CandidatesAreSound` |
| `AppProofs!SharedPast` | `Spec => []SharedBlockSharedPast` |
| `AppProofs!NoTransactionLost` | `Spec => PendingUntilMined` |
| `AppProofs!LongestSeenKept` | a resolve that ends leaves a chain at least as long as any it compared against, unless another resolve of its node replaced the chain since it began; with any number open at once |
| `AppProofs!NothingTwice` | `Spec => []EachTransactionOnce` |
| `AppProofs!WorkerInvariance`, `WorkersTypeCorrect`, `WorkersNumberPlaces` | `WorkerSpec => []WorkerInvariant`, `[]WorkersTypeOK`, `[]IndicesArePlaces` |
| `AppProofs!BrokenStayAtHome`, `WorkersLoseNothing`, `WorkersDoubleNothing` | `WorkerSpec => OnlySoundChainsAdopted`, `PendingUntilMined`, `[]EachTransactionOnce` |
| `PyProofs!Invariance`, `PromiseKept` | `Spec => []PyInvariant`; `PyNode` implements `Ledger` |
| `ThreadedProofs!Invariance` | `Spec => []ThreadedInvariant` |
| `ThreadedProofs!QuietValid`, `SoleMinersKeepLists` | `Spec => []QuietNodesAreValid`, `[]SoleMinersLoseNothing` |
| `ThreadedProofs!ValidTakenOver` | `Spec => OnlyValidAdopted` |
| `ThreadedProofs!SoleMinersOnce` | `Spec => []SoleMinersDoubleNothing` |
| `RustProofs!Invariance`, `PromiseKept` | `Spec => []RustInvariant`; `RustNode` implements `Ledger` |
| `CppProofs!Invariance`, `QuietValid` | `Spec => []RacingInvariant`, `[]QuietNodesAreValid` |
| `CppProofs!QuietKeeps` | `Spec => QuietKeepsTransactions` |
| `FSharpProofs!Invariance`, `ChainsValid` | `Spec => []FSharpInvariant`, `[]ChainsAreValid` |
| `FSharpProofs!RegistrationsKept`, `WaitsKept` | `Spec => RegistrationsStay`, `Spec => WaitsUntilMined` |
| `FSharpProofs!NothingTwice` | `Spec => []EachTransactionOnce` |
| `CrowProofs!Invariance` | `Spec => []CrowInvariant` |
| `CrowProofs!NoneHoldsDeleted`, `KeysFind`, `LeaksAreBroken` | `Spec => []DeletedIsForgotten`, `[]KeysFindTheirDeadlines`, `OnlyBrokenLeak` |
| `CrowProofs!ClosedInTime` | `Spec => NotClosedEarly` |

**Argument for app.js.**  `ChainsAreSound` alone is not inductive: a chain that is
adopted was read from a peer some steps ago.  `LoopInvariant` therefore says the same
of the answers under way and of the chains resolves carry, and that `maxLength` is
the length of `newChain` where there is one.  `SharedBlockSharedPast` needs more
than soundness: `valid_chain` compares a digest with the digest of *this* chain's
previous block, so `Rooted` says that the digest of each block is the whole sequence
of contents below it.  Then equal blocks have equal digests, hence equal pasts
(`SameBlockSamePast` in `BlockProofs`).  The lemmas about `new_block` and the first
block (`MinedSound`, `MinedRooted`, `GenesisSound`, `GenesisRooted`) do not know who
mines, and serve three ports.

`EachTransactionOnce` counts over a whole chain, and says nothing that a step could use:
a transaction that is once in each chain may become two by an adoption that meets it
among the waiting ones.  `OnceInvariant` (`AppProofs`) follows each transaction over the
whole network instead: until it is posted it is nowhere; once it waits at a node it is in
no chain that is held, answered or found, and waits at no other; once a block holds it, it
waits nowhere and is in one place of each chain.  Chains under way are among those, so an adoption
brings nothing new; a `/mine` moves all that waits into one block.  The lemmas about this
(`PassedOnOnce`, `AcceptedOnce`, `MinedOnce` in `BlockProofs`) speak of any set of chains
and any waiting lists.

**Argument for app-with-worker.js.**  The same steps but for the mine, whose block rests on
a last block that may not be the last any more.  So chains are not valid, and
`WorkerInvariant` keeps what a late worker cannot break: a block is numbered by its place,
and the first is the first (`Placed`); what a resolve *carries* has passed `valid_chain`
and is sound (`ChainsPlaced`).  `OnlySoundChainsAdopted` and `IndicesArePlaces` follow.
`OnceInvariant` and the fate of what waits do not depend on who is the last block, and
their lemmas serve both variants.

**Argument for overlapping resolves.**  `ResolveKeepsLongestSeen` is false where a node has
two resolves open: the second begins behind a mine, with a longer chain than the first then
takes over, finds nothing, and ends.  Which resolves this may happen to is not to be seen in
a state, so `LongestSeenKept` is about `HistorySpec`, which adds the variable `overtaken` and
restricts nothing.  By `LengthKept`, a resolve that has found nothing and is not in
`overtaken` has a chain no shorter than when it began, since a mine makes it longer and any
other end of a resolve is written down.

**Argument for Python.**  `PyInvariant` adds that `max_length` is at least the length
of the node's own chain while a resolve is open, which holds because a busy server
mines nothing, and that a chain found is longer than it.  So the assignment at the end
of a resolve is an `Adopt` of the ledger.  `Adopt` takes only chains that another node
made longer: else a mine that forgets to reset the transactions would pass for one.  Hence
`NoneAhead`: no chain held, answered or found has a block of a node higher up than the
node's own chain reaches, which is preserved because no chain ever gets shorter
(`AheadGrows`) and a node mines on top of its own (`MinedNotAhead`); a chain longer than
the node's own then ends with a block of another (`LongerOfAnother`).
`max_length >= Len(chain[n])` is precisely what fails in JavaScript, and `app_shorter`
shows it.

**Argument for threaded Python.**  `ThreadedInvariant` has three layers, one for each kind
of overlap that has or has not happened at a node.  *Always*: every list and chain that a
thread or a block names has been made (`NodeNames`, `ThreadNames`), which holds because
they are only ever added to (`Grows`); a list in the hands of a mine that has reset the
attribute is not the current one; and what a resolve has found is valid.  The last gives
`OnlyValidAdopted`: a received chain names no list, so nobody can change it later.
*While no mine met a mine* (`SoleMiner`): one thread mines at most, and each list but the
current one is in a block or in the hands of the mine that is about to make one
(`HandedOver`); `SoleMinersLoseNothing` is a part of it.  *While a mine met nothing*
(`Quiet`): besides a mine all other threads of the node are idle, the chain as it is by
now is valid, no block of it names the list that appends go to, and what the mine has read
(list, last block, proof, digest, chain) is still so (`Undisturbed`).  The proof of a step
has three parts accordingly: the threads of other nodes and the names in other threads'
hands (`NodeStays`, `NamesStay`), what the overlaps written down allow besides the thread that
moves (`Apart`), and what the step does to its own node (`StepHolds` gathers them, and one
lemma per action supplies the last).

`SoleMinersDoubleNothing` rests on more than its own node: two mines of a *neighbour* may
put one list into two blocks, and late appends go on changing both.  Two more invariants
show that a chain with both is never taken over.  `PostedOnce`: a transaction is in the hand
of one post, or in one place of one list of one node, so that only blocks which share a list
(or copies of them) can repeat it.  `TwinsApart`: such twins are all stamped before the first
of them is appended, because a list is in hand only until it is replaced, and the digest a
block rests on was made of a chain, before the block was stamped.  So no twin rests on the
other, directly or through blocks between: in a chain that is linked, each block is stamped
after all twins of those before it (`After`).  A timestamp is given once (`clock` advances)
and names its mine; each block that was received is a first block or a copy, possibly an
early one, of a block some node has mined (`Genuine`).  A resolve gathers the blocks one by
one while they change, so the order is claimed of what it has gathered only as far as that is
linked (`Ordered`); `valid_chain` then says that all of it is (`LinkedAfter`).  At the node
itself, with one mine at a time, two blocks in a chain never share a list
(`ChainsInOrder`), and no block has the list that is current (`ListsNamed`).

**Argument for Rust.**  The same, with the mutex in place of the busy server, and two
steps more: a chain that is parsed with other timestamps is taken only if it passes
`valid_chain` as parsed, and then it is trustworthy as parsed; and a panic leaves
`chain` and `current_transactions` as they were, because both change in the last step of
a handler.

**Argument for C++.**  That a chain is valid is not inductive where anything may overlap,
so `RacingInvariant` says it of nodes whose handlers never overlapped since their process
started (`Quiet`), and for those two things more: one handler is in progress at most,
and what a mine holds (the reference, the proof, the digest, the transactions about to be
dropped) belongs to the chain as it is now (`MineInOrder`).  A resolve may be fed
anything by its neighbours; what it keeps is valid because `valid_chain` is applied to
the very list that is kept.

**Argument for F#.**  The same idea, an attribute at a time.  Where an attribute never
overlapped, at most one handler in progress updates it (`NodeInOrder`: whoever conflicts
is written down), so what that handler has read is still there (`HandlerInOrder`); a
step of any other thread stores other attributes (`OthersInOrder`).  A resolve stores a
chain it did not make of the old one: two resolves may overlap and leave a valid chain.
`EachTransactionOnce` needs `OnceInvariant` besides: a transaction is nowhere until it
is posted; from then on it is in the hand of the post, in one list, or in the block a
mine took after it emptied the list, once and in one of these only, and when that block
is appended it is in chains, in each at most once (those a handler has read included).
The block a mine takes carries what is in the list because no post and no other mine came
in between (`ListInOrder`); what mines add themselves are rewards, which the property leaves
out.  Chains may break, and resolves may overlap: a broken chain repeats no transaction.

**Argument for crow.**  `DeletedIsForgotten` needs that the flags cover the callbacks:
`is_reading` is up while a read or a handler is under way, `is_writing` exactly while a
write is.  `KeysFindTheirDeadlines` needs that a key never exceeds the number of the
last deadline, so that a new one is nobody else's.  `NotClosedEarly` follows from the
age of a deadline that runs being the silence of its connection.  `OnlyBrokenLeak` needs to
know how a connection may be left that reads no more (`ReadsNoMore`): each callback that
ends without deleting it leaves another that will, but for the two that are named.

**Only model-checked:** liveness, which needs fairness and ENABLED (of F# handlers it is not
even checked), and the instances of findings.  Every safety property the other runs check is
proved, `ResolveKeepsLongestSeen` in the form of `LongestSeenKept`.

## 5. What is not modelled

* **Go, Kotlin, C#.**  Each has its own outcomes of the races that `RacingNode` and
  `PyThreaded` cut out: Go ends the process when a map is written while it is
  iterated, Kotlin and C# throw.  They would be further instances of
  the same steps.
* **TypeScript.**  The JavaScript program statement by statement; the modules are mapped to
  the JavaScript source, and the conversion between camel and snake case is left out.
* **httplib's descriptors.**  A failed connect closes its socket twice (`httplib.h:1951`
  and `:669`), which may close a socket another thread was given in between.  To the
  model, a connection of httplib may fail at any time anyway.
* **crow** beyond what the nodes use: `Expect: 100-continue`, websockets, answers that
  are completed after the handler has returned, pipelined requests, its router and parser.
* Logging, HTTP and JSON libraries, hashing, command lines, test frameworks, build files.

Of the 95,000 lines of C++ in the repository nearly all are vendored libraries of that
kind, the JSON library and the test frameworks with two thirds of them.  The program's
own C++ is the two directories `Blockchain`, and the modules cover all of it that is not
output.

What would come next: eventual agreement on the length once mining stops.
