--------------------------- MODULE ThreadedProofs ---------------------------
(***************************************************************************)
(* Theorems about the threaded Python node, for any nodes, any number of   *)
(* threads and any requests.                                               *)
(***************************************************************************)
EXTENDS PyThreaded, BlockProofs, SequenceTheorems

-----------------------------------------------------------------------------
(* Entries, and threads at rest *)

LEMMA EntryFields ==
  ASSUME NEW e \in Entry
  PROVE  e.block \in Block /\ e.list \in Nat
BY DEF Entry

LEMMA IdleType ==
  ASSUME NEW t \in Thread
  PROVE  /\ NoBlock \in Block
         /\ NoEntry \in Entry
         /\ Idle(t) \in Work
         /\ Home[t] \in Node
<1>1. << >> \in Seq(Transaction) /\ << >> \in Seq(Block) /\ << >> \in Digest
  BY DEF Digest
<1>2. NoBlock \in Block
  BY <1>1 DEF NoBlock, Block, GenesisPreviousHash
<1>3. NoEntry \in Entry
  BY <1>2 DEF NoEntry, Entry
<1>4. Home[t] \in Node
  BY ThreadedAssumption
<1>5. Reward(Home[t]) \in Transaction
  BY <1>4 DEF Transaction, Minted
<1>6. "elsewhere" \in Peer
  BY DEF Peer
<1> QED
  BY <1>1, <1>2, <1>3, <1>4, <1>5, <1>6 DEF Idle, Work

LEMMA WorkFields ==
  ASSUME TypeOK, NEW t \in Thread
  PROVE  /\ thread[t] \in Work
         /\ thread[t].last \in Entry
         /\ thread[t].entry \in Entry
         /\ thread[t].entry.block \in Block
         /\ thread[t].entry.list \in Nat
         /\ thread[t].last.list \in Nat
         /\ thread[t].list \in Nat
         /\ thread[t].chain \in Nat
         /\ thread[t].tx \in Transaction
         /\ thread[t].new_chain \in Seq(Block)
         /\ thread[t].reply \in Seq(Block)
         /\ thread[t].peer \in Peer
         /\ thread[t].left \in SUBSET Peer
         /\ thread[t].length \in Nat
<1>1. thread[t] \in Work
  BY DEF TypeOK
<1> QED
  BY <1>1, EntryFields DEF Work

(* A block as it is now is a block, with the proof and link it was made with. *)
LEMMA NowType ==
  ASSUME TypeOK, NEW n \in Node, NEW e \in Entry, e.list <= CurrentList(n)
  PROVE  /\ Now(n, e) \in Block
         /\ Now(n, e).proof = e.block.proof
         /\ Now(n, e).previous_hash = e.block.previous_hash
<1>1. e.block \in Block /\ e.list \in Nat
  BY EntryFields
<1>2. CASE e.list = 0
  BY <1>1, <1>2 DEF Now
<1>3. CASE e.list # 0
  <2>1. lists[n] \in Seq(Seq(Transaction))
    BY DEF TypeOK
  <2>2. lists[n][e.list] \in Seq(Transaction)
    BY <1>1, <1>3, <2>1 DEF CurrentList
  <2>3. Now(n, e) = [e.block EXCEPT !.transactions = lists[n][e.list]]
    BY <1>3 DEF Now
  <2> QED
    BY <1>1, <2>2, <2>3 DEF Block
<1> QED
  BY <1>2, <1>3

LEMMA NodeTypes ==
  ASSUME TypeOK, NEW n \in Node
  PROVE  /\ chains[n] \in Seq(Seq(Entry))
         /\ lists[n] \in Seq(Seq(Transaction))
         /\ Len(chains[n]) \in Nat
         /\ CurrentList(n) \in Nat
         /\ \A k \in 1 .. Len(chains[n]) : /\ chains[n][k] \in Seq(Entry)
                                           /\ Len(chains[n][k]) \in Nat
<1>1. chains[n] \in Seq(Seq(Entry)) /\ lists[n] \in Seq(Seq(Transaction))
  BY DEF TypeOK
<1>2. \A k \in 1 .. Len(chains[n]) : chains[n][k] \in Seq(Entry)
  BY <1>1
<1> QED
  BY <1>1, <1>2 DEF CurrentList

LEMMA CurrentChainType ==
  ASSUME TypeOK, NEW n \in Node, NodeNames(n)
  PROVE  /\ CurrentChain(n) = chains[n][Len(chains[n])]
         /\ Len(chains[n]) \in 1 .. Len(chains[n])
         /\ CurrentChain(n) \in Seq(Entry)
         /\ Len(CurrentChain(n)) \in Nat
         /\ Len(CurrentChain(n)) >= 1
         /\ \A i \in 1 .. Len(CurrentChain(n)) :
              /\ CurrentChain(n)[i] \in Entry
              /\ CurrentChain(n)[i].list <= CurrentList(n)
         /\ last_block(CurrentChain(n)) \in Entry
         /\ last_block(CurrentChain(n)).list <= CurrentList(n)
<1>1. /\ CurrentChain(n) = chains[n][Len(chains[n])]
      /\ Len(chains[n]) \in 1 .. Len(chains[n])
  BY NodeTypes DEF CurrentChain, last_block, NodeNames
<1>2. CurrentChain(n) \in Seq(Entry) /\ Len(CurrentChain(n)) >= 1
  BY <1>1, NodeTypes DEF NodeNames
<1>3. \A i \in 1 .. Len(CurrentChain(n)) :
        /\ CurrentChain(n)[i] \in Entry
        /\ CurrentChain(n)[i].list <= CurrentList(n)
  BY <1>1, <1>2 DEF NodeNames
<1>4. Len(CurrentChain(n)) \in 1 .. Len(CurrentChain(n))
  BY <1>2
<1> QED
  BY <1>1, <1>2, <1>3, <1>4 DEF last_block

(* A chain that was received names no list. *)
LEMMA ReceivedType ==
  ASSUME NEW c \in Seq(Block)
  PROVE  /\ Received(c) \in Seq(Entry)
         /\ Len(Received(c)) = Len(c)
         /\ \A i \in 1 .. Len(c) :
              Received(c)[i].block = c[i] /\ Received(c)[i].list = 0
<1>1. Len(c) \in Nat /\ \A i \in 1 .. Len(c) : c[i] \in Block
  OBVIOUS
<1>2. \A i \in 1 .. Len(c) : [block |-> c[i], list |-> 0] \in Entry
  BY <1>1 DEF Entry
<1>3. ASSUME NEW i \in 1 .. Len(c)
      PROVE  Received(c)[i].block = c[i] /\ Received(c)[i].list = 0
  <2>1. Received(c)[i] = [block |-> c[i], list |-> 0]
    BY DEF Received
  <2> QED
    BY <2>1
<1> QED
  BY <1>1, <1>2, <1>3 DEF Received

-----------------------------------------------------------------------------
(* What a step of a thread does to what is shared *)

LEMMA GoesOn ==
  ASSUME TypeOK, NEW t \in Thread, NEW work \in Work, Goes(t, work)
  PROVE  /\ thread' \in [Thread -> Work]
         /\ thread'[t] = work
         /\ \A u \in Thread : u # t => thread'[u] = thread[u]
BY DEF TypeOK, Goes

(* Lists and chains are never taken away, and chains keep their blocks. *)
Grows ==
  \A n \in Node :
    /\ Len(lists'[n]) >= Len(lists[n])
    /\ Len(chains'[n]) >= Len(chains[n])
    /\ \A k \in 1 .. Len(chains[n]) :
         /\ Len(chains'[n][k]) >= Len(chains[n][k])
         /\ \A i \in 1 .. Len(chains[n][k]) : chains'[n][k][i] = chains[n][k][i]

LEMMA UnchangedGrows ==
  ASSUME TypeOK, UNCHANGED << chains, lists >>
  PROVE  Grows
BY NodeTypes DEF Grows, CurrentList

(* An append changes the list that was fetched, and no other. *)
LEMMA AppendTransactionDoes ==
  ASSUME TypeOK, NEW t \in Thread, AppendTransaction(t), UNCHANGED chains,
         thread[t].list \in 1 .. CurrentList(Home[t])
  PROVE  /\ lists' \in [Node -> Seq(Seq(Transaction))]
         /\ Grows
         /\ \A n \in Node :
              /\ CurrentList(n)' = CurrentList(n)
              /\ n # Home[t] => lists'[n] = lists[n]
         /\ \A k \in 1 .. CurrentList(Home[t]) :
              k # thread[t].list => lists'[Home[t]][k] = lists[Home[t]][k]
<1> DEFINE n == Home[t]
           k == thread[t].list
           longer == Append(lists[n][k], thread[t].tx)
           new == [lists[n] EXCEPT ![k] = longer]
<1>1. n \in Node /\ lists[n] \in Seq(Seq(Transaction)) /\ k \in 1 .. Len(lists[n])
  BY ThreadedAssumption, NodeTypes DEF CurrentList
<1>2. longer \in Seq(Transaction)
  <2>1. lists[n][k] \in Seq(Transaction) /\ thread[t].tx \in Transaction
    BY <1>1, WorkFields
  <2> QED
    BY <2>1
<1>3. lists' = [lists EXCEPT ![n] = new]
  BY DEF AppendTransaction
<1> HIDE DEF longer, n, k
<1>4. /\ new \in Seq(Seq(Transaction))
      /\ Len(new) = Len(lists[n])
      /\ \A j \in 1 .. Len(lists[n]) : j # k => new[j] = lists[n][j]
  BY <1>1, <1>2, ExceptSeq
<1> HIDE DEF new
<1>5. lists' \in [Node -> Seq(Seq(Transaction))]
  BY <1>1, <1>3, <1>4 DEF TypeOK
<1>6. lists'[n] = new /\ \A m \in Node : m # n => lists'[m] = lists[m]
  BY <1>1, <1>3 DEF TypeOK
<1>7. \A m \in Node : Len(lists'[m]) = Len(lists[m])
  BY <1>4, <1>6
<1>8. Grows
  BY <1>7, NodeTypes DEF Grows, CurrentList
<1> QED
  BY <1>4, <1>5, <1>6, <1>7, <1>8 DEF CurrentList, n, k

(* A reset makes one more list, an empty one. *)
LEMMA ResetDoes ==
  ASSUME TypeOK, NEW n \in Node, UNCHANGED chains,
         lists' = [lists EXCEPT ![n] = Append(@, << >>)]
  PROVE  /\ lists' \in [Node -> Seq(Seq(Transaction))]
         /\ Grows
         /\ \A m \in Node : m # n => lists'[m] = lists[m]
         /\ CurrentList(n)' = CurrentList(n) + 1
         /\ \A k \in 1 .. CurrentList(n) : lists'[n][k] = lists[n][k]
<1> DEFINE none == << >>
           new == Append(lists[n], none)
<1>1. lists[n] \in Seq(Seq(Transaction)) /\ none \in Seq(Transaction)
  BY NodeTypes
<1> HIDE DEF none
<1>2. /\ new \in Seq(Seq(Transaction))
      /\ Len(new) = Len(lists[n]) + 1
      /\ \A j \in 1 .. Len(lists[n]) : new[j] = lists[n][j]
  BY <1>1, AppendProperties
<1>3. lists' = [lists EXCEPT ![n] = new]
  BY DEF none
<1> HIDE DEF new
<1>4. lists' \in [Node -> Seq(Seq(Transaction))]
  BY <1>2, <1>3 DEF TypeOK
<1>5. lists'[n] = new /\ \A m \in Node : m # n => lists'[m] = lists[m]
  BY <1>3 DEF TypeOK
<1>6. Grows
  BY <1>2, <1>5, NodeTypes DEF Grows, CurrentList
<1> QED
  BY <1>2, <1>4, <1>5, <1>6 DEF CurrentList

(* A block is put at the end of the chain that was fetched. *)
LEMMA MineAppendsDoes ==
  ASSUME TypeOK, NEW t \in Thread, MineAppends(t),
         thread[t].chain \in 1 .. Len(chains[Home[t]])
  PROVE  LET n == Home[t]
             k == thread[t].chain
         IN  /\ chains' \in [Node -> Seq(Seq(Entry))]
             /\ Grows
             /\ \A m \in Node : m # n => chains'[m] = chains[m]
             /\ Len(chains'[n]) = Len(chains[n])
             /\ \A j \in 1 .. Len(chains[n]) : j # k => chains'[n][j] = chains[n][j]
             /\ chains'[n][k] = Append(chains[n][k], thread[t].entry)
<1> DEFINE n == Home[t]
           k == thread[t].chain
           longer == Append(chains[n][k], thread[t].entry)
           new == [chains[n] EXCEPT ![k] = longer]
<1>1. n \in Node /\ chains[n] \in Seq(Seq(Entry)) /\ k \in 1 .. Len(chains[n])
  BY ThreadedAssumption, NodeTypes
<1>2. chains[n][k] \in Seq(Entry) /\ thread[t].entry \in Entry
  BY <1>1, WorkFields
<1>3. /\ longer \in Seq(Entry)
      /\ Len(longer) = Len(chains[n][k]) + 1
      /\ \A i \in 1 .. Len(chains[n][k]) : longer[i] = chains[n][k][i]
  BY <1>2
<1>4. chains' = [chains EXCEPT ![n] = new] /\ lists' = lists
  BY DEF MineAppends
<1> HIDE DEF longer, n, k
<1>5. /\ new \in Seq(Seq(Entry))
      /\ Len(new) = Len(chains[n])
      /\ new[k] = longer
      /\ \A j \in 1 .. Len(chains[n]) : j # k => new[j] = chains[n][j]
  BY <1>1, <1>3, ExceptSeq
<1> HIDE DEF new
<1>6. chains' \in [Node -> Seq(Seq(Entry))]
  BY <1>1, <1>4, <1>5 DEF TypeOK
<1>7. chains'[n] = new /\ \A m \in Node : m # n => chains'[m] = chains[m]
  BY <1>1, <1>4 DEF TypeOK
<1>8. \A j \in 1 .. Len(chains[n]) :
        /\ Len(chains[n][j]) \in Nat
        /\ Len(new[j]) >= Len(chains[n][j])
        /\ \A i \in 1 .. Len(chains[n][j]) : new[j][i] = chains[n][j][i]
  <2> TAKE j \in 1 .. Len(chains[n])
  <2>1. Len(chains[n][j]) \in Nat
    BY <1>1, NodeTypes
  <2>2. CASE j = k
    BY <1>3, <1>5, <2>1, <2>2
  <2>3. CASE j # k
    <3>1. new[j] = chains[n][j]
      BY <1>5, <2>3
    <3> QED
      BY <2>1, <3>1
  <2> QED
    BY <2>1, <2>2, <2>3
<1>9. Grows
  <2>1. \A m \in Node : Len(lists'[m]) >= Len(lists[m])
    <3>1. \A m \in Node : Len(lists[m]) \in Nat
      BY NodeTypes DEF CurrentList
    <3> QED
      BY <1>4, <3>1
  <2>2. ASSUME NEW m \in Node
        PROVE  /\ Len(chains'[m]) >= Len(chains[m])
               /\ \A j \in 1 .. Len(chains[m]) :
                    /\ Len(chains'[m][j]) >= Len(chains[m][j])
                    /\ \A i \in 1 .. Len(chains[m][j]) :
                         chains'[m][j][i] = chains[m][j][i]
    <3>1. /\ Len(chains[m]) \in Nat
          /\ \A j \in 1 .. Len(chains[m]) : Len(chains[m][j]) \in Nat
      BY NodeTypes
    <3>2. CASE m = n
      BY <1>5, <1>7, <1>8, <3>1, <3>2
    <3>3. CASE m # n
      <4>1. chains'[m] = chains[m]
        BY <1>7, <3>3
      <4> QED
        BY <3>1, <4>1
    <3> QED
      BY <3>2, <3>3
  <2> QED
    BY <2>1, <2>2 DEF Grows
<1> QED
  BY <1>5, <1>6, <1>7, <1>9 DEF n, k, longer

(* A chain that was received becomes the last one of its node. *)
LEMMA AdoptionDoes ==
  ASSUME TypeOK, NEW n \in Node, NEW c \in Seq(Block), UNCHANGED lists,
         chains' = [chains EXCEPT ![n] = Append(@, Received(c))]
  PROVE  /\ chains' \in [Node -> Seq(Seq(Entry))]
         /\ Grows
         /\ \A m \in Node : m # n => chains'[m] = chains[m]
         /\ Len(chains'[n]) = Len(chains[n]) + 1
         /\ \A j \in 1 .. Len(chains[n]) : chains'[n][j] = chains[n][j]
         /\ chains'[n][Len(chains[n]) + 1] = Received(c)
<1> DEFINE r == Received(c)
           new == Append(chains[n], r)
<1>1. chains[n] \in Seq(Seq(Entry)) /\ r \in Seq(Entry)
  BY NodeTypes, ReceivedType
<1>2. chains' = [chains EXCEPT ![n] = new]
  OBVIOUS
<1> HIDE DEF r
<1>3. /\ new \in Seq(Seq(Entry))
      /\ Len(new) = Len(chains[n]) + 1
      /\ \A j \in 1 .. Len(chains[n]) : new[j] = chains[n][j]
      /\ new[Len(chains[n]) + 1] = r
  BY <1>1, AppendProperties
<1> HIDE DEF new
<1>4. chains' \in [Node -> Seq(Seq(Entry))]
  BY <1>2, <1>3 DEF TypeOK
<1>5. chains'[n] = new /\ \A m \in Node : m # n => chains'[m] = chains[m]
  BY <1>2 DEF TypeOK
<1>6. Grows
  BY <1>3, <1>5, NodeTypes DEF Grows, CurrentList
<1> QED
  BY <1>3, <1>4, <1>5, <1>6 DEF r

-----------------------------------------------------------------------------
(* What a step of a thread does to the others *)

(* What the overlaps written down so far allow besides t, which goes to pc. *)
Apart(t, pc) ==
  LET n == Home[t]
  IN  /\ overlapped' \in [Node -> SUBSET {"mine", "other"}]
      /\ \A m \in Node : overlapped[m] \subseteq overlapped'[m]
      /\ \A m \in Node \ {n} : overlapped'[m] = overlapped[m]
      /\ \A u \in Local(n) \ {t} :
           /\ SoleMiner(n)' /\ pc \in Mining => thread[u].pc \notin Mining
           /\ Quiet(n)' /\ pc \in Mining => thread[u].pc = "idle"
           /\ Quiet(n)' /\ pc # "idle" => thread[u].pc \notin Mining

LEMMA EnteredApart ==
  ASSUME TypeOK, NEW t \in Thread, NEW pc, Enters(t, pc)
  PROVE  Apart(t, pc)
<1> DEFINE n == Home[t]
           mines(u) == thread[u].pc \in Mining
           met == IF pc \in Mining
                    THEN {IF mines(u) THEN "mine" ELSE "other" : u \in Others(t)}
                    ELSE {"other" : u \in {v \in Others(t) : mines(v)}}
<1>1. n \in Node
  BY ThreadedAssumption
<1>2. overlapped' = [overlapped EXCEPT ![n] = @ \cup met]
  BY DEF Enters
<1>3. met \subseteq {"mine", "other"}
  OBVIOUS
<1>4. ASSUME NEW u \in Local(n) \ {t}
      PROVE  /\ "mine" \notin met /\ pc \in Mining => thread[u].pc \notin Mining
             /\ met = {} /\ pc \in Mining => thread[u].pc = "idle"
             /\ met = {} /\ pc # "idle" => thread[u].pc \notin Mining
  <2>1. u \in Thread \ {t} /\ Home[u] = n
    BY DEF Local
  <2>2. CASE thread[u].pc = "idle"
    BY <2>2 DEF Mining
  <2>3. CASE thread[u].pc # "idle"
    <3>1. u \in Others(t)
      BY <2>1, <2>3 DEF Others
    <3>2. pc \in Mining => IF mines(u) THEN "mine" \in met ELSE "other" \in met
      BY <3>1
    <3>3. pc \notin Mining /\ mines(u) => "other" \in met
      BY <3>1
    <3> QED
      BY <3>2, <3>3
  <2> QED
    BY <2>2, <2>3
<1> HIDE DEF met
<1>5. /\ overlapped' \in [Node -> SUBSET {"mine", "other"}]
      /\ overlapped'[n] = overlapped[n] \cup met
      /\ \A m \in Node \ {n} : overlapped'[m] = overlapped[m]
  BY <1>1, <1>2, <1>3 DEF TypeOK
<1>6. /\ SoleMiner(n)' => "mine" \notin met
      /\ Quiet(n)' => met = {}
  BY <1>5 DEF SoleMiner, Quiet
<1> QED
  BY <1>4, <1>5, <1>6 DEF Apart

LEMMA StillApart ==
  ASSUME ThreadedInvariant, NEW t \in Thread, NEW pc, UNCHANGED overlapped,
         \/ pc = "idle"
         \/ thread[t].pc # "idle" /\ (pc \in Mining => thread[t].pc \in Mining)
  PROVE  Apart(t, pc)
<1> DEFINE n == Home[t]
<1>1. n \in Node /\ t \in Local(n)
  BY ThreadedAssumption DEF Local
<1>2. overlapped \in [Node -> SUBSET {"mine", "other"}]
  BY DEF ThreadedInvariant, TypeOK
<1>3. ASSUME NEW u \in Local(n) \ {t}
      PROVE  /\ SoleMiner(n)' /\ pc \in Mining => thread[u].pc \notin Mining
             /\ Quiet(n)' /\ pc \in Mining => thread[u].pc = "idle"
             /\ Quiet(n)' /\ pc # "idle" => thread[u].pc \notin Mining
  <2>1. CASE pc = "idle"
    BY <2>1 DEF Mining
  <2>2. CASE thread[t].pc # "idle" /\ (pc \in Mining => thread[t].pc \in Mining)
    <3>1. SoleMiner(n) => HandedOver(n)
      BY <1>1 DEF ThreadedInvariant
    <3>2. Quiet(n) => Undisturbed(n)
      BY <1>1 DEF ThreadedInvariant
    <3>3. SoleMiner(n)' = SoleMiner(n) /\ Quiet(n)' = Quiet(n)
      BY DEF SoleMiner, Quiet
    <3>4. HandedOver(n) /\ thread[t].pc \in Mining => thread[u].pc \notin Mining
      BY <1>1 DEF HandedOver
    <3>5. Undisturbed(n) =>
            /\ thread[t].pc \in Mining => thread[u].pc = "idle"
            /\ thread[u].pc \in Mining => thread[t].pc = "idle"
      BY <1>1 DEF Undisturbed
    <3> QED
      BY <2>2, <3>1, <3>2, <3>3, <3>4, <3>5
  <2> QED
    BY <2>1, <2>2
<1> QED
  BY <1>2, <1>3 DEF Apart

(* A step of t, after which its handler goes on with work. *)
StepOf(t, work) ==
  LET n == Home[t]
  IN  /\ thread[t].pc # "idle" \/ work.pc # "idle"
      /\ TypeOK'
      /\ thread'[t] = work
      /\ \A u \in Thread \ {t} : thread'[u] = thread[u]
      /\ Grows
      /\ \A m \in Node \ {n} : lists'[m] = lists[m] /\ chains'[m] = chains[m]
      /\ Apart(t, work.pc)

(* The names in the hands of a thread stay good when lists and chains grow. *)
LEMMA NamesStay ==
  ASSUME ThreadedInvariant, NEW u \in Thread, Grows, TypeOK',
         thread'[u] = thread[u]
  PROVE  ThreadNames(u)'
<1> DEFINE h == Home[u]
<1>1. TypeOK /\ ThreadNames(u) /\ h \in Node
  BY ThreadedAssumption DEF ThreadedInvariant
<1>2. /\ Len(lists'[h]) >= Len(lists[h])
      /\ \A m \in Node : Len(chains'[m]) >= Len(chains[m])
  BY <1>1 DEF Grows
<1>3. \A m \in Node : Len(lists[m]) \in Nat /\ Len(chains[m]) \in Nat
  BY <1>1, NodeTypes DEF CurrentList
<1> DEFINE work == thread[u]
<1>5. work.list \in Nat /\ work.last.list \in Nat /\ work.entry.list \in Nat /\ work.chain \in Nat
  BY <1>1, WorkFields
<1>6. /\ CurrentList(h)' >= CurrentList(h)
      /\ CurrentList(h) \in Nat
  BY <1>1, <1>2, <1>3 DEF CurrentList
<1>7. /\ CurrentList(h)' \in Nat
      /\ \A p \in Node : Len(chains'[p]) \in Nat
  <2>1. lists'[h] \in Seq(Seq(Transaction))
    BY <1>1 DEF TypeOK
  <2>2. \A p \in Node : chains'[p] \in Seq(Seq(Entry))
    BY DEF TypeOK
  <2> QED
    BY <2>1, <2>2 DEF CurrentList
<1>8. /\ work.list <= CurrentList(h)
      /\ work.last.list <= CurrentList(h)
      /\ work.pc \in {"posting", "rewarding"} => work.list >= 1
      /\ work.pc \in {"taken", "reset", "appending"} =>
           work.entry.list \in 1 .. CurrentList(h)
      /\ work.pc \notin {"taken", "reset", "appending"} => work.entry.list = 0
      /\ work.pc \in {"reset", "appending"} => work.entry.list < CurrentList(h)
      /\ work.pc = "appending" => work.chain \in 1 .. Len(chains[h])
      /\ work.pc \in {"serving", "serialising"} =>
           work.peer \in Node /\ work.chain \in 1 .. Len(chains[work.peer])
      /\ valid_chain(work.new_chain)
  BY <1>1 DEF ThreadNames
<1>9. /\ work.list <= CurrentList(h)'
      /\ work.last.list <= CurrentList(h)'
      /\ work.pc \in {"taken", "reset", "appending"} =>
           work.entry.list \in 1 .. CurrentList(h)'
      /\ work.pc \in {"reset", "appending"} => work.entry.list < CurrentList(h)'
  BY <1>5, <1>6, <1>7, <1>8
<1>10. work.pc = "appending" => work.chain \in 1 .. Len(chains'[h])
  BY <1>1, <1>2, <1>3, <1>5, <1>7, <1>8
<1>11. work.pc \in {"serving", "serialising"} =>
         work.peer \in Node /\ work.chain \in 1 .. Len(chains'[work.peer])
  BY <1>2, <1>3, <1>5, <1>7, <1>8
<1> HIDE DEF work
<1>12. thread'[u] = work
  BY DEF work
<1> QED
  BY <1>8, <1>9, <1>10, <1>11, <1>12 DEF ThreadNames

(* A node in which t does not run is as it was. *)
LEMMA NodeStays ==
  ASSUME ThreadedInvariant, NEW t \in Thread, NEW work, StepOf(t, work),
         NEW m \in Node, m # Home[t]
  PROVE  /\ NodeNames(m)'
         /\ SoleMiner(m)' => HandedOver(m)'
         /\ Quiet(m)' => Undisturbed(m)'
<1>1. /\ NodeNames(m)
      /\ SoleMiner(m) => HandedOver(m)
      /\ Quiet(m) => Undisturbed(m)
  BY DEF ThreadedInvariant
<1>2. lists'[m] = lists[m] /\ chains'[m] = chains[m] /\ overlapped'[m] = overlapped[m]
  BY DEF StepOf, Apart
<1>3. \A u \in Local(m) : thread'[u] = thread[u] /\ Home[u] = m
  BY DEF StepOf, Local
<1>4. SoleMiner(m)' = SoleMiner(m) /\ Quiet(m)' = Quiet(m)
  BY <1>2 DEF SoleMiner, Quiet
<1>5. CurrentList(m)' = CurrentList(m) /\ CurrentChain(m)' = CurrentChain(m)
  BY <1>2 DEF CurrentList, CurrentChain
<1>6. NodeNames(m)'
  BY <1>1, <1>2, <1>5 DEF NodeNames
<1>7. HeldByBlocks(m)' = HeldByBlocks(m)
  BY <1>2, <1>3 DEF HeldByBlocks, Local
<1>8. HandedOver(m) => HandedOver(m)'
  BY <1>3, <1>5, <1>7 DEF HandedOver, Local
<1>9. BlocksNow(m)' = BlocksNow(m)
  BY <1>2, <1>5 DEF BlocksNow, Now
<1>10. \A e : Now(m, e)' = Now(m, e)
  BY <1>2 DEF Now
<1>11. ASSUME NEW u \in Local(m), MineInOrder(u) PROVE MineInOrder(u)'
  BY <1>2, <1>3, <1>5, <1>10, <1>11 DEF MineInOrder, Now
<1>12. Undisturbed(m) => Undisturbed(m)'
  BY <1>3, <1>5, <1>9, <1>11 DEF Undisturbed, Local
<1> QED
  BY <1>1, <1>4, <1>6, <1>8, <1>12

(* What is left to show of a step: what it does to the node of t, and to t. *)
LEMMA StepHolds ==
  ASSUME ThreadedInvariant, NEW t \in Thread, NEW work, StepOf(t, work),
         NodeNames(Home[t])', ThreadNames(t)',
         thread[t].pc \in Mining \/ CurrentList(Home[t])' = CurrentList(Home[t]),
         SoleMiner(Home[t]) /\ SoleMiner(Home[t])' /\ HandedOver(Home[t]) =>
           /\ \A k \in 1 .. CurrentList(Home[t])' - 1 : k \in HeldByBlocks(Home[t])'
           /\ work.pc = "taken" => work.entry.list = CurrentList(Home[t])',
         Quiet(Home[t]) /\ Quiet(Home[t])' /\ Undisturbed(Home[t]) =>
           /\ valid_chain(BlocksNow(Home[t]))'
           /\ \A i \in 1 .. Len(CurrentChain(Home[t])') :
                CurrentChain(Home[t])'[i].list < CurrentList(Home[t])'
           /\ MineInOrder(t)'
  PROVE  ThreadedInvariant'
<1> DEFINE n == Home[t]
<1>1. n \in Node /\ t \in Local(n)
  BY ThreadedAssumption DEF Local
<1>2. /\ SoleMiner(n)' => SoleMiner(n) /\ HandedOver(n)
      /\ Quiet(n)' => Quiet(n) /\ Undisturbed(n)
  <2>1. overlapped[n] \subseteq overlapped'[n]
    BY <1>1 DEF StepOf, Apart
  <2>2. (SoleMiner(n) => HandedOver(n)) /\ (Quiet(n) => Undisturbed(n))
    BY <1>1 DEF ThreadedInvariant
  <2> QED
    BY <2>1, <2>2 DEF SoleMiner, Quiet
<1>3. thread'[t] = work /\ \A u \in Local(n) \ {t} : thread'[u] = thread[u]
  BY DEF StepOf, Local
<1>4. \A u \in Local(n) \ {t} :
        /\ SoleMiner(n)' /\ work.pc \in Mining => thread[u].pc \notin Mining
        /\ Quiet(n)' /\ work.pc \in Mining => thread[u].pc = "idle"
        /\ Quiet(n)' /\ work.pc # "idle" => thread[u].pc \notin Mining
  BY DEF StepOf, Apart
<1>5. Local(n)' = Local(n)
  BY DEF Local
<1>6. ASSUME SoleMiner(n)' PROVE HandedOver(n)'
  <2>1. ASSUME NEW u \in Local(n), NEW v \in Local(n),
               thread'[u].pc \in Mining, thread'[v].pc \in Mining
        PROVE  u = v
    <3>1. CASE u = t \/ v = t
      BY <1>3, <1>4, <1>6, <2>1, <3>1
    <3>2. CASE u # t /\ v # t
      BY <1>2, <1>3, <1>6, <2>1, <3>2 DEF HandedOver
    <3> QED
      BY <3>1, <3>2
  <2>2. ASSUME NEW u \in Local(n), thread'[u].pc = "taken"
        PROVE  thread'[u].entry.list = CurrentList(n)'
    <3>1. CASE u = t
      BY <1>2, <1>3, <1>6, <2>2, <3>1
    <3>2. CASE u # t
      <4>1. thread[u].pc = "taken" /\ thread'[u] = thread[u]
        BY <1>3, <2>2, <3>2
      <4>2. thread[t].pc \notin Mining
        BY <1>1, <1>2, <1>6, <3>2, <4>1 DEF HandedOver, Mining
      <4> QED
        BY <1>2, <1>6, <4>1, <4>2 DEF HandedOver
    <3> QED
      BY <3>1, <3>2
  <2>3. \A k \in 1 .. CurrentList(n)' - 1 : k \in HeldByBlocks(n)'
    BY <1>2, <1>6
  <2> QED
    BY <1>5, <2>1, <2>2, <2>3 DEF HandedOver
<1>7. ASSUME Quiet(n)' PROVE Undisturbed(n)'
  <2>1. /\ valid_chain(BlocksNow(n))'
        /\ \A i \in 1 .. Len(CurrentChain(n)') :
             CurrentChain(n)'[i].list < CurrentList(n)'
        /\ MineInOrder(t)'
    BY <1>2, <1>7
  <2>2. ASSUME NEW u \in Local(n) \ {t} PROVE thread'[u].pc \notin Mining
    <3>1. thread[u].pc \notin Mining
      BY <1>1, <1>2, <1>4, <1>7 DEF StepOf, Undisturbed
    <3> QED
      BY <1>3, <3>1
  <2>3. ASSUME NEW u \in Local(n), NEW v \in Local(n), u # v,
               thread'[u].pc \in Mining
        PROVE  thread'[v].pc = "idle"
    <3>1. u = t
      BY <2>2, <2>3
    <3> QED
      BY <1>3, <1>4, <1>7, <2>3, <3>1
  <2>4. ASSUME NEW u \in Local(n) \ {t} PROVE MineInOrder(u)'
    <3>1. Home[u] = n /\ thread'[u] = thread[u]
      BY <1>3 DEF Local
    <3>2. thread[u].pc = "posting" => thread[u].list = CurrentList(n)'
      <4>1. thread[u].pc = "posting" => thread[t].pc \notin Mining
        BY <1>1, <1>2, <1>7 DEF Undisturbed
      <4>2. MineInOrder(u)
        BY <1>2, <1>7 DEF Undisturbed
      <4> QED
        BY <3>1, <4>1, <4>2 DEF MineInOrder
    <3> QED
      BY <2>2, <3>1, <3>2 DEF MineInOrder, Mining
  <2>5. \A u \in Local(n) : MineInOrder(u)'
    BY <2>1, <2>4
  <2> QED
    BY <1>5, <2>1, <2>3, <2>5 DEF Undisturbed
<1>8. ASSUME NEW m \in Node
      PROVE  /\ NodeNames(m)'
             /\ SoleMiner(m)' => HandedOver(m)'
             /\ Quiet(m)' => Undisturbed(m)'
  <2>1. CASE m = n
    BY <1>6, <1>7, <2>1
  <2>2. CASE m # n
    BY <2>2, NodeStays
  <2> QED
    BY <2>1, <2>2
<1>9. ASSUME NEW u \in Thread PROVE ThreadNames(u)'
  <2>1. CASE u = t
    BY <2>1
  <2>2. CASE u # t
    <3>1. Grows /\ TypeOK' /\ thread'[u] = thread[u]
      BY <2>2 DEF StepOf
    <3> QED
      BY <3>1, NamesStay
  <2> QED
    BY <2>1, <2>2
<1>10. TypeOK'
  BY DEF StepOf
<1> QED
  BY <1>8, <1>9, <1>10 DEF ThreadedInvariant

(* The lists that the blocks of some chains name. *)
ListsIn(some) ==
  UNION {{some[k][i].list : i \in 1 .. Len(some[k])} : k \in 1 .. Len(some)}

LEMMA InLists ==
  ASSUME NEW some, NEW k \in 1 .. Len(some), NEW i \in 1 .. Len(some[k])
  PROVE  some[k][i].list \in ListsIn(some)
<1> DEFINE named == {some[k][j].list : j \in 1 .. Len(some[k])}
<1>1. some[k][i].list \in named
  OBVIOUS
<1>2. named \in {{some[m][j].list : j \in 1 .. Len(some[m])} : m \in 1 .. Len(some)}
  OBVIOUS
<1> HIDE DEF named
<1> QED
  BY <1>1, <1>2 DEF ListsIn

(* A list that a block of the node holds is held on to. *)
LEMMA HeldStays ==
  ASSUME TypeOK, NEW t \in Thread, NEW work, StepOf(t, work),
         thread[t].entry.list \in {0} \cup HeldByBlocks(Home[t])',
         NEW k \in HeldByBlocks(Home[t]), k # 0
  PROVE  k \in HeldByBlocks(Home[t])'
<1> DEFINE n == Home[t]
<1>1. n \in Node
  BY ThreadedAssumption
<1>2. CASE \E u \in Local(n) : k = thread[u].entry.list
  <2>1. PICK u \in Local(n) : k = thread[u].entry.list
    BY <1>2
  <2>2. CASE u = t
    BY <2>1, <2>2
  <2>3. CASE u # t
    <3>1. thread'[u] = thread[u]
      BY <2>3 DEF StepOf, Local
    <3> QED
      BY <2>1, <3>1 DEF HeldByBlocks, Local
  <2> QED
    BY <2>2, <2>3
<1>3. CASE \E j \in 1 .. Len(chains[n]) :
             \E i \in 1 .. Len(chains[n][j]) : k = chains[n][j][i].list
  <2>1. PICK j \in 1 .. Len(chains[n]) :
               \E i \in 1 .. Len(chains[n][j]) : k = chains[n][j][i].list
    BY <1>3
  <2>2. PICK i \in 1 .. Len(chains[n][j]) : k = chains[n][j][i].list
    BY <2>1
  <2>3. /\ Len(chains'[n]) >= Len(chains[n])
        /\ Len(chains'[n][j]) >= Len(chains[n][j])
        /\ chains'[n][j][i] = chains[n][j][i]
    BY <1>1 DEF StepOf, Grows
  <2>4. Len(chains[n]) \in Nat /\ Len(chains[n][j]) \in Nat
    BY <1>1, NodeTypes
  <2>5. chains'[n] \in Seq(Seq(Entry)) /\ Len(chains'[n]) \in Nat
    BY <1>1 DEF StepOf, TypeOK
  <2>6. j \in 1 .. Len(chains'[n])
    BY <2>3, <2>4, <2>5
  <2>7. Len(chains'[n][j]) \in Nat
    BY <2>5, <2>6
  <2>8. i \in 1 .. Len(chains'[n][j])
    BY <2>3, <2>4, <2>7
  <2>9. k \in ListsIn(chains'[n])
    BY <2>2, <2>3, <2>6, <2>8, InLists
  <2> QED
    BY <2>9 DEF HeldByBlocks, ListsIn
<1>4. k \in {thread[u].entry.list : u \in Local(n)} \/ k \in ListsIn(chains[n])
  <2>1. k \in HeldByBlocks(n)
    OBVIOUS
  <2> QED
    BY <2>1 DEF HeldByBlocks, ListsIn
<1>5. k \in HeldByBlocks(n)'
  <2>1. CASE k \in {thread[u].entry.list : u \in Local(n)}
    BY <1>2, <2>1
  <2>2. CASE k \in ListsIn(chains[n])
    BY <1>3, <2>2 DEF ListsIn
  <2> QED
    BY <1>4, <2>1, <2>2
<1> QED
  BY <1>5

(* A step that changes no list and no chain. *)
LEMMA SharesNothing ==
  ASSUME ThreadedInvariant, NEW t \in Thread, NEW work \in Work,
         Goes(t, work), UNCHANGED << chains, lists >>, TypeOK',
         thread[t].pc # "idle" \/ work.pc # "idle",
         Apart(t, work.pc),
         ThreadNames(t)',
         thread[t].entry.list \in {0, work.entry.list},
         work.pc = "taken" => work.entry.list = CurrentList(Home[t]),
         Quiet(Home[t]) /\ Undisturbed(Home[t]) => MineInOrder(t)'
  PROVE  ThreadedInvariant'
<1> DEFINE n == Home[t]
<1>1. n \in Node /\ t \in Local(n)
  BY ThreadedAssumption DEF Local
<1>2. TypeOK /\ NodeNames(n)
  BY <1>1 DEF ThreadedInvariant
<1>3. StepOf(t, work)
  <2>1. thread'[t] = work /\ \A u \in Thread : u # t => thread'[u] = thread[u]
    BY <1>2, GoesOn
  <2>2. Grows
    BY <1>2, UnchangedGrows
  <2> QED
    BY <2>1, <2>2 DEF StepOf
<1>4. NodeNames(n)'
  BY <1>2 DEF NodeNames, CurrentList
<1>5. CurrentList(n)' = CurrentList(n) /\ CurrentChain(n)' = CurrentChain(n)
  BY DEF CurrentList, CurrentChain
<1>6. ASSUME HandedOver(n), NEW k \in 1 .. CurrentList(n)' - 1
      PROVE  k \in HeldByBlocks(n)'
  <2>1. k \in HeldByBlocks(n)
    BY <1>5, <1>6 DEF HandedOver
  <2>2. thread'[t].entry.list \in HeldByBlocks(n)'
    BY <1>1 DEF HeldByBlocks, Local
  <2>3. thread[t].entry.list \in {0} \cup HeldByBlocks(n)'
    BY <1>3, <2>2 DEF StepOf
  <2>4. k # 0
    OBVIOUS
  <2> QED
    BY <1>2, <1>3, <2>1, <2>3, <2>4, HeldStays
<1>7. ASSUME Undisturbed(n)
      PROVE  /\ valid_chain(BlocksNow(n))'
             /\ \A i \in 1 .. Len(CurrentChain(n)') :
                  CurrentChain(n)'[i].list < CurrentList(n)'
  <2>1. BlocksNow(n)' = BlocksNow(n)
    BY <1>5 DEF BlocksNow, Now
  <2> QED
    BY <1>5, <1>7, <2>1 DEF Undisturbed
<1> QED
  BY <1>3, <1>4, <1>5, <1>6, <1>7, StepHolds

-----------------------------------------------------------------------------
(* The steps, one by one *)

(* What every step starts from. *)
LEMMA Start ==
  ASSUME ThreadedInvariant, NEW t \in Thread
  PROVE  /\ TypeOK /\ Home[t] \in Node
         /\ NodeNames(Home[t]) /\ ThreadNames(t)
         /\ SoleMiner(Home[t]) => HandedOver(Home[t])
         /\ Quiet(Home[t]) => Undisturbed(Home[t])
         /\ CurrentList(Home[t]) \in Nat
         /\ clock \in Nat /\ posted \subseteq UserTransaction
         /\ nodes \in [Node -> SUBSET Peer]
<1>1. TypeOK /\ Home[t] \in Node
  BY ThreadedAssumption DEF ThreadedInvariant
<1>2. CurrentList(Home[t]) \in Nat
  BY <1>1, NodeTypes
<1> QED
  BY <1>1, <1>2 DEF ThreadedInvariant, TypeOK

(* A step of a handler that neither posts nor mines. *)
LEMMA Resolves ==
  ASSUME ThreadedInvariant, NEW t \in Thread, NEW work \in Work,
         Goes(t, work), UNCHANGED << chains, lists, nodes, clock, posted >>,
         thread[t].pc # "idle" \/ work.pc # "idle",
         Apart(t, work.pc),
         work.pc \in {"idle"} \cup Resolving,
         thread[t].entry.list = 0,
         work.list <= CurrentList(Home[t]),
         work.last.list <= CurrentList(Home[t]),
         work.entry.list = 0,
         valid_chain(work.new_chain),
         work.pc \in {"serving", "serialising"} =>
           work.peer \in Node /\ work.chain \in 1 .. Len(chains[work.peer])
  PROVE  ThreadedInvariant'
<1>1. TypeOK
  BY Start
<1>2. thread' \in [Thread -> Work] /\ thread'[t] = work
  BY <1>1, GoesOn
<1>3. TypeOK'
  BY <1>1, <1>2 DEF TypeOK, Apart
<1>4. CurrentList(Home[t])' = CurrentList(Home[t])
  BY DEF CurrentList
<1>5. work.pc \notin Mining /\ work.pc # "posting"
  BY DEF Mining, Resolving
<1>6. ThreadNames(t)'
  BY <1>2, <1>4, <1>5 DEF ThreadNames, Mining
<1>7. MineInOrder(t)'
  BY <1>2, <1>5 DEF MineInOrder, Mining
<1> QED
  BY <1>3, <1>5, <1>6, <1>7, SharesNothing DEF Mining

LEMMA EmptyIsValid == << >> \in Seq(Block) /\ valid_chain(<< >>)
BY DEF valid_chain

(* A handler ends, or is given up, without a change. *)
LEMMA GivesUp ==
  ASSUME ThreadedInvariant, NEW t \in Thread, thread[t].pc \in Resolving,
         Goes(t, Idle(t)),
         UNCHANGED << chains, lists, nodes, clock, posted, overlapped >>
  PROVE  ThreadedInvariant'
<1>1. TypeOK /\ ThreadNames(t) /\ CurrentList(Home[t]) \in Nat
  BY Start
<1>2. thread[t].pc \notin {"taken", "reset", "appending"} /\ thread[t].pc # "idle"
  BY DEF Resolving
<1>3. thread[t].entry.list = 0
  BY <1>1, <1>2 DEF ThreadNames
<1>4. Idle(t) \in Work
  BY IdleType
<1>5. /\ Idle(t).pc = "idle" /\ Idle(t).list = 0 /\ Idle(t).last.list = 0
      /\ Idle(t).entry.list = 0 /\ Idle(t).new_chain = << >>
  BY DEF Idle, NoEntry
<1>6. Apart(t, "idle")
  BY StillApart
<1> QED
  BY <1>1, <1>2, <1>3, <1>4, <1>5, <1>6, EmptyIsValid, Resolves

(* A resolve goes on with work, which leaves what a mine would use alone. *)
LEMMA GoesOnResolving ==
  ASSUME ThreadedInvariant, NEW t \in Thread, NEW work \in Work,
         thread[t].pc \in Resolving, work.pc \in Resolving, Goes(t, work),
         UNCHANGED << chains, lists, nodes, clock, posted, overlapped >>,
         work.list = thread[t].list, work.last = thread[t].last,
         work.entry = thread[t].entry,
         valid_chain(work.new_chain),
         work.pc \in {"serving", "serialising"} =>
           work.peer \in Node /\ work.chain \in 1 .. Len(chains[work.peer])
  PROVE  ThreadedInvariant'
<1>1. TypeOK /\ ThreadNames(t)
  BY Start
<1>2. /\ thread[t].pc \notin {"taken", "reset", "appending"} /\ thread[t].pc # "idle"
      /\ work.pc \notin Mining
  BY DEF Resolving, Mining
<1>3. /\ thread[t].entry.list = 0
      /\ thread[t].list <= CurrentList(Home[t])
      /\ thread[t].last.list <= CurrentList(Home[t])
  BY <1>1, <1>2 DEF ThreadNames
<1>4. Apart(t, work.pc)
  BY <1>2, StillApart
<1> QED
  BY <1>2, <1>3, <1>4, Resolves

LEMMA ResolveStartsHolds ==
  ASSUME ThreadedInvariant, NEW t \in Thread, ResolveStarts(t)
  PROVE  ThreadedInvariant'
<1> DEFINE n == Home[t]
           work == [Idle(t) EXCEPT !.pc = "looping", !.left = nodes[n],
                                   !.known = nodes[n],
                                   !.max_length = Len(CurrentChain(n))]
<1>1. /\ TypeOK /\ n \in Node /\ NodeNames(n) /\ ThreadNames(t)
      /\ CurrentList(n) \in Nat /\ nodes[n] \in SUBSET Peer
  BY Start DEF TypeOK
<1>2. Len(CurrentChain(n)) \in Nat
  BY <1>1, CurrentChainType
<1>3. /\ thread[t].pc = "idle" /\ Goes(t, work) /\ Enters(t, "looping")
      /\ UNCHANGED << chains, lists, nodes, clock, posted >>
  BY DEF ResolveStarts, Accepts
<1>4. Idle(t) \in Work
  BY IdleType
<1>5. work \in Work /\ work.pc = "looping"
  BY <1>1, <1>2, <1>4 DEF Work, Resolving
<1>6. /\ work.list = 0 /\ work.last.list = 0
      /\ work.entry.list = 0 /\ work.new_chain = << >>
  BY DEF Idle, NoEntry
<1>7. thread[t].entry.list = 0
  BY <1>1, <1>3 DEF ThreadNames
<1>8. Apart(t, work.pc)
  BY <1>1, <1>3, <1>5, EnteredApart
<1> HIDE DEF work
<1>9. work.pc \in Resolving
  BY <1>5 DEF Resolving
<1> QED
  BY <1>1, <1>3, <1>5, <1>6, <1>7, <1>8, <1>9, EmptyIsValid, Resolves

(* The steps of a resolve between its start and its end. *)
LEMMA ResolveGoesOnHolds ==
  ASSUME ThreadedInvariant, NEW t \in Thread,
         \/ ResolveAsks(t)
         \/ FullChain(t)
         \/ FullChainLength(t)
         \/ Serialise(t)
         \/ ResumeResolve(t)
         \/ NotOK(t)
  PROVE  ThreadedInvariant'
<1>1. /\ TypeOK /\ Home[t] \in Node /\ ThreadNames(t) /\ thread[t] \in Work
      /\ valid_chain(thread[t].new_chain)
  BY Start, WorkFields DEF ThreadNames
<1>2. CASE ResolveAsks(t)
  <2>1. PICK peer \in thread[t].left :
          Goes(t, [thread[t] EXCEPT !.pc = "asking", !.peer = peer,
                                    !.left = @ \ {peer}])
    BY <1>2 DEF ResolveAsks
  <2> DEFINE work == [thread[t] EXCEPT !.pc = "asking", !.peer = peer,
                                       !.left = @ \ {peer}]
  <2>2. peer \in Peer /\ thread[t].left \in SUBSET Peer
    BY <1>1, WorkFields
  <2>3. work \in Work /\ work.pc = "asking"
    BY <1>1, <2>2 DEF Work, Resolving
  <2>4. /\ work.list = thread[t].list /\ work.last = thread[t].last
        /\ work.entry = thread[t].entry /\ work.new_chain = thread[t].new_chain
    BY <1>1 DEF Work
  <2>5. UNCHANGED << chains, lists, nodes, clock, posted, overlapped >>
    BY <1>2 DEF ResolveAsks
  <2>6. thread[t].pc \in Resolving
    BY <1>2 DEF ResolveAsks, Resolving
  <2> HIDE DEF work
  <2>7. work.pc \in Resolving
    BY <2>3 DEF Resolving
  <2>8. Goes(t, work)
    BY <2>1 DEF work
  <2> QED
    BY <1>1, <2>3, <2>4, <2>5, <2>6, <2>7, <2>8, GoesOnResolving
<1>3. CASE FullChain(t)
  <2> DEFINE peer == thread[t].peer
             work == [thread[t] EXCEPT !.pc = "serving",
                                       !.chain = Len(chains[peer])]
  <2>1. /\ thread[t].pc = "asking" /\ peer \in Node /\ Goes(t, work)
        /\ UNCHANGED << chains, lists, nodes, clock, posted, overlapped >>
    BY <1>3 DEF FullChain
  <2>2. NodeNames(peer)
    BY <2>1 DEF ThreadedInvariant
  <2>3. Len(chains[peer]) \in 1 .. Len(chains[peer]) /\ Len(chains[peer]) \in Nat
    BY <1>1, <2>1, <2>2, CurrentChainType, NodeTypes
  <2>4. work \in Work /\ work.pc = "serving"
    BY <1>1, <2>3 DEF Work, Resolving
  <2>5. /\ work.list = thread[t].list /\ work.last = thread[t].last
        /\ work.entry = thread[t].entry /\ work.new_chain = thread[t].new_chain
        /\ work.peer = peer /\ work.chain = Len(chains[peer])
    BY <1>1 DEF Work
  <2> HIDE DEF work
  <2>6. thread[t].pc \in Resolving /\ work.pc \in Resolving
    BY <2>1, <2>4 DEF Resolving
  <2> QED
    BY <1>1, <2>1, <2>3, <2>4, <2>5, <2>6, GoesOnResolving
<1>4. CASE FullChainLength(t)
  <2> DEFINE peer == thread[t].peer
             work == [thread[t] EXCEPT !.pc = "serialising",
                                       !.length = Len(CurrentChain(peer))]
  <2>1. /\ thread[t].pc = "serving" /\ Goes(t, work)
        /\ UNCHANGED << chains, lists, nodes, clock, posted, overlapped >>
    BY <1>4 DEF FullChainLength
  <2>2. peer \in Node /\ thread[t].chain \in 1 .. Len(chains[peer])
    BY <1>1, <2>1 DEF ThreadNames
  <2>3. NodeNames(peer)
    BY <2>2 DEF ThreadedInvariant
  <2>4. Len(CurrentChain(peer)) \in Nat
    BY <1>1, <2>2, <2>3, CurrentChainType
  <2>5. work \in Work /\ work.pc = "serialising"
    BY <1>1, <2>4 DEF Work, Resolving
  <2>6. /\ work.list = thread[t].list /\ work.last = thread[t].last
        /\ work.entry = thread[t].entry /\ work.new_chain = thread[t].new_chain
        /\ work.peer = peer /\ work.chain = thread[t].chain
    BY <1>1 DEF Work
  <2> HIDE DEF work
  <2>7. thread[t].pc \in Resolving /\ work.pc \in Resolving
    BY <2>1, <2>5 DEF Resolving
  <2> QED
    BY <1>1, <2>1, <2>2, <2>5, <2>6, <2>7, GoesOnResolving
<1>5. CASE Serialise(t)
  <2> DEFINE peer == thread[t].peer
             chain == chains[peer][thread[t].chain]
             done == Len(thread[t].reply)
             block == Now(peer, chain[done + 1])
             longer == Append(thread[t].reply, block)
             more == [thread[t] EXCEPT !.reply = longer]
             answered == [thread[t] EXCEPT !.pc = "answered"]
             work == IF done < Len(chain) THEN more ELSE answered
  <2>1. /\ thread[t].pc = "serialising" /\ Goes(t, work)
        /\ UNCHANGED << chains, lists, nodes, clock, posted, overlapped >>
    BY <1>5 DEF Serialise
  <2>2. peer \in Node /\ thread[t].chain \in 1 .. Len(chains[peer])
    BY <1>1, <2>1 DEF ThreadNames
  <2>3. NodeNames(peer)
    BY <2>2 DEF ThreadedInvariant
  <2>4. /\ chain \in Seq(Entry)
        /\ \A i \in 1 .. Len(chain) : chain[i].list <= CurrentList(peer)
    BY <1>1, <2>2, <2>3, NodeTypes DEF NodeNames
  <2>5. thread[t].reply \in Seq(Block) /\ done \in Nat
    BY <1>1, WorkFields
  <2>6. CASE done < Len(chain)
    <3>1. chain[done + 1] \in Entry /\ chain[done + 1].list <= CurrentList(peer)
      <4> HIDE DEF chain, done
      <4>1. done + 1 \in 1 .. Len(chain)
        BY <2>4, <2>5, <2>6
      <4> QED
        BY <2>4, <4>1
    <3>2. block \in Block
      BY <1>1, <2>2, <3>1, NowType
    <3> HIDE DEF block, chain
    <3>3. longer \in Seq(Block)
      BY <2>5, <3>2
    <3>4. Goes(t, more)
      BY <2>1, <2>6
    <3> HIDE DEF longer
    <3>5. more \in Work /\ more.pc = "serialising"
      BY <1>1, <2>1, <3>3 DEF Work
    <3>6. /\ more.list = thread[t].list /\ more.last = thread[t].last
          /\ more.entry = thread[t].entry /\ more.new_chain = thread[t].new_chain
          /\ more.peer = peer /\ more.chain = thread[t].chain
      BY <1>1 DEF Work
    <3> HIDE DEF more
    <3>7. thread[t].pc \in Resolving /\ more.pc \in Resolving
      BY <2>1, <3>5 DEF Resolving
    <3> QED
      BY <1>1, <2>1, <2>2, <3>4, <3>5, <3>6, <3>7, GoesOnResolving
  <2>7. CASE ~ (done < Len(chain))
    <3>1. answered \in Work /\ answered.pc = "answered"
      BY <1>1 DEF Work, Resolving
    <3>2. /\ answered.list = thread[t].list /\ answered.last = thread[t].last
          /\ answered.entry = thread[t].entry
          /\ answered.new_chain = thread[t].new_chain
      BY <1>1 DEF Work
    <3>3. Goes(t, answered)
      BY <2>1, <2>7
    <3> HIDE DEF answered
    <3>4. thread[t].pc \in Resolving /\ answered.pc \in Resolving
      BY <2>1, <3>1 DEF Resolving
    <3> QED
      BY <1>1, <2>1, <3>1, <3>2, <3>3, <3>4, GoesOnResolving
  <2> QED
    BY <2>6, <2>7
<1>6. CASE ResumeResolve(t)
  <2> DEFINE next == [thread[t] EXCEPT !.pc = "looping", !.reply = << >>,
                                       !.length = 0, !.chain = 0]
             taken == [next EXCEPT !.max_length = thread[t].length,
                                   !.new_chain = thread[t].reply]
             work == IF Better(thread[t]) THEN taken ELSE next
  <2>1. /\ thread[t].pc = "answered" /\ Goes(t, work)
        /\ UNCHANGED << chains, lists, nodes, clock, posted, overlapped >>
    BY <1>6 DEF ResumeResolve
  <2>2. thread[t].reply \in Seq(Block) /\ thread[t].length \in Nat
    BY <1>1, WorkFields
  <2>3. /\ next \in Work /\ next.pc = "looping"
        /\ next.list = thread[t].list /\ next.last = thread[t].last
        /\ next.entry = thread[t].entry /\ next.new_chain = thread[t].new_chain
    BY <1>1, EmptyIsValid DEF Work, Resolving
  <2> HIDE DEF next
  <2>4. /\ taken \in Work /\ taken.pc = "looping"
        /\ taken.list = next.list /\ taken.last = next.last
        /\ taken.entry = next.entry /\ taken.new_chain = thread[t].reply
    BY <2>2, <2>3 DEF Work
  <2> HIDE DEF taken
  <2>5. /\ work \in Work /\ work.pc = "looping"
        /\ work.list = thread[t].list /\ work.last = thread[t].last
        /\ work.entry = thread[t].entry /\ valid_chain(work.new_chain)
    BY <1>1, <2>3, <2>4 DEF Better
  <2> HIDE DEF work
  <2>6. thread[t].pc \in Resolving /\ work.pc \in Resolving
    BY <2>1, <2>5 DEF Resolving
  <2> QED
    BY <2>1, <2>5, <2>6, GoesOnResolving
<1>7. CASE NotOK(t)
  <2> DEFINE work == [thread[t] EXCEPT !.pc = "looping"]
  <2>1. /\ thread[t].pc = "asking" /\ Goes(t, work)
        /\ UNCHANGED << chains, lists, nodes, clock, posted, overlapped >>
    BY <1>7 DEF NotOK
  <2>2. /\ work \in Work /\ work.pc = "looping"
        /\ work.list = thread[t].list /\ work.last = thread[t].last
        /\ work.entry = thread[t].entry /\ work.new_chain = thread[t].new_chain
    BY <1>1 DEF Work, Resolving
  <2> HIDE DEF work
  <2>3. thread[t].pc \in Resolving /\ work.pc \in Resolving
    BY <2>1, <2>2 DEF Resolving
  <2> QED
    BY <1>1, <2>1, <2>2, <2>3, GoesOnResolving
<1> QED
  BY <1>2, <1>3, <1>4, <1>5, <1>6, <1>7

LEMMA ResolveGivesUpHolds ==
  ASSUME ThreadedInvariant, NEW t \in Thread, ResolveRaises(t) \/ RequestFails(t)
  PROVE  ThreadedInvariant'
<1>1. /\ thread[t].pc \in Resolving /\ Goes(t, Idle(t))
      /\ UNCHANGED << chains, lists, nodes, clock, posted, overlapped >>
  BY DEF ResolveRaises, RequestFails, Resolving
<1> QED
  BY <1>1, GivesUp

LEMMA PostStartsHolds ==
  ASSUME ThreadedInvariant, NEW t \in Thread, NEW tx \in UserTransaction,
         PostStarts(t, tx)
  PROVE  ThreadedInvariant'
<1> DEFINE n == Home[t]
           work == [Idle(t) EXCEPT !.pc = "posting", !.tx = tx,
                                   !.list = CurrentList(n)]
<1>1. /\ TypeOK /\ n \in Node /\ NodeNames(n) /\ ThreadNames(t)
      /\ CurrentList(n) \in Nat /\ posted \subseteq UserTransaction
  BY Start
<1>2. /\ thread[t].pc = "idle" /\ Goes(t, work) /\ Enters(t, "posting")
      /\ posted' = posted \cup {tx}
      /\ UNCHANGED << chains, lists, nodes, clock >>
  BY DEF PostStarts, Accepts
<1>3. tx \in Transaction
  BY DEF Transaction
<1>4. Idle(t) \in Work
  BY IdleType
<1>5. work \in Work /\ work.pc = "posting"
  BY <1>1, <1>3, <1>4 DEF Work
<1>6. /\ work.list = CurrentList(n) /\ work.last.list = 0
      /\ work.entry.list = 0 /\ work.new_chain = << >>
  BY <1>4 DEF Idle, NoEntry, Work
<1>7. thread[t].entry.list = 0
  BY <1>1, <1>2 DEF ThreadNames
<1>8. Apart(t, work.pc)
  BY <1>1, <1>2, <1>5, EnteredApart
<1> HIDE DEF work
<1>9. thread' \in [Thread -> Work] /\ thread'[t] = work
  BY <1>1, <1>2, <1>5, GoesOn
<1>10. TypeOK'
  BY <1>1, <1>2, <1>8, <1>9 DEF TypeOK, Apart
<1>11. CurrentList(n)' = CurrentList(n)
  BY <1>2 DEF CurrentList
<1>12. ThreadNames(t)'
  <2>1. CurrentList(n) >= 1
    BY <1>1 DEF NodeNames, CurrentList
  <2> QED
    BY <1>1, <1>5, <1>6, <1>9, <1>11, <2>1, EmptyIsValid DEF ThreadNames
<1>13. MineInOrder(t)'
  BY <1>5, <1>6, <1>9, <1>11 DEF MineInOrder, Mining
<1> QED
  BY <1>2, <1>5, <1>7, <1>8, <1>10, <1>12, <1>13, SharesNothing

LEMMA MineStartsHolds ==
  ASSUME ThreadedInvariant, NEW t \in Thread, MineStarts(t)
  PROVE  ThreadedInvariant'
<1> DEFINE n == Home[t]
           last == last_block(CurrentChain(n))
           work == [Idle(t) EXCEPT !.pc = "hashing", !.last = last]
<1>1. /\ TypeOK /\ n \in Node /\ NodeNames(n) /\ ThreadNames(t)
      /\ CurrentList(n) \in Nat
  BY Start
<1>2. last \in Entry /\ last.list <= CurrentList(n)
  BY <1>1, CurrentChainType
<1>3. /\ thread[t].pc = "idle" /\ Goes(t, work) /\ Enters(t, "hashing")
      /\ UNCHANGED << chains, lists, nodes, clock, posted >>
  BY DEF MineStarts, Accepts
<1>4. Idle(t) \in Work
  BY IdleType
<1> HIDE DEF last
<1>5. work \in Work /\ work.pc = "hashing"
  BY <1>2, <1>4 DEF Work, Mining
<1>6. /\ work.list = 0 /\ work.last = last
      /\ work.entry.list = 0 /\ work.new_chain = << >>
  BY <1>4 DEF Idle, NoEntry, Work
<1>7. thread[t].entry.list = 0
  BY <1>1, <1>3 DEF ThreadNames
<1>8. Apart(t, work.pc)
  BY <1>1, <1>3, <1>5, EnteredApart
<1> HIDE DEF work
<1>9. thread' \in [Thread -> Work] /\ thread'[t] = work
  BY <1>1, <1>3, <1>5, GoesOn
<1>10. TypeOK'
  BY <1>1, <1>3, <1>8, <1>9 DEF TypeOK, Apart
<1>11. CurrentList(n)' = CurrentList(n)
  BY <1>3 DEF CurrentList
<1>12. ThreadNames(t)'
  BY <1>1, <1>2, <1>5, <1>6, <1>9, <1>11, EmptyIsValid DEF ThreadNames
<1>13. MineInOrder(t)'
  <2>1. last_block(CurrentChain(n))' = last
    BY <1>3 DEF last, CurrentChain
  <2> QED
    BY <1>5, <1>6, <1>9, <2>1 DEF MineInOrder, Mining
<1> QED
  BY <1>3, <1>5, <1>6, <1>7, <1>8, <1>10, <1>12, <1>13, SharesNothing

(* A mine goes on with work, which changes nothing others see. *)
LEMMA GoesOnMining ==
  ASSUME ThreadedInvariant, NEW t \in Thread, NEW work \in Work,
         thread[t].pc \in Mining, work.pc \in Mining, Goes(t, work),
         UNCHANGED << chains, lists, nodes, posted, overlapped >>, clock' \in Nat,
         thread[t].entry.list \in {0, work.entry.list},
         work.pc = "taken" => work.entry.list = CurrentList(Home[t]),
         ThreadNames(t)',
         Quiet(Home[t]) /\ Undisturbed(Home[t]) => MineInOrder(t)'
  PROVE  ThreadedInvariant'
<1>1. TypeOK
  BY Start
<1>2. thread' \in [Thread -> Work]
  BY <1>1, GoesOn
<1>3. TypeOK'
  BY <1>1, <1>2 DEF TypeOK
<1>4. work.pc # "idle"
  BY DEF Mining
<1>5. Apart(t, work.pc)
  BY <1>4, StillApart DEF Mining
<1> QED
  BY <1>3, <1>4, <1>5, SharesNothing

LEMMA LastStays ==
  ASSUME NEW n, UNCHANGED << chains, lists >>
  PROVE  /\ last_block(CurrentChain(n))' = last_block(CurrentChain(n))
         /\ Now(n, last_block(CurrentChain(n)))' = Now(n, last_block(CurrentChain(n)))
BY DEF CurrentChain, Now

LEMMA MineSearchesHolds ==
  ASSUME ThreadedInvariant, NEW t \in Thread, MineSearches(t)
  PROVE  ThreadedInvariant'
<1> DEFINE n == Home[t]
           last == thread[t].last
<1>1. /\ TypeOK /\ n \in Node /\ ThreadNames(t) /\ thread[t] \in Work
      /\ CurrentList(n) \in Nat
  BY Start, WorkFields
<1>2. PICK proof \in 0 .. MaxProof :
        /\ FoundByProofOfWork(Now(n, last), proof)
        /\ Goes(t, [thread[t] EXCEPT !.pc = "found", !.entry.block.proof = proof])
  BY DEF MineSearches
<1> DEFINE entry == [thread[t].entry EXCEPT !.block.proof = proof]
           work == [thread[t] EXCEPT !.pc = "found", !.entry = entry]
<1>3. /\ thread[t].pc = "hashing" /\ UNCHANGED clock
      /\ UNCHANGED << chains, lists, nodes, posted, overlapped >>
  BY DEF MineSearches
<1>4. Goes(t, work)
  BY <1>1, <1>2 DEF Work
<1>5. entry \in Entry /\ entry.list = thread[t].entry.list /\ entry.block.proof = proof
  <2>1. thread[t].entry \in Entry
    BY <1>1, WorkFields
  <2> QED
    BY <2>1, BlocksAssumption DEF Entry, Block
<1> HIDE DEF entry
<1>6. /\ work \in Work /\ work.pc = "found"
      /\ work.list = thread[t].list /\ work.last = last
      /\ work.entry = entry /\ work.new_chain = thread[t].new_chain
  BY <1>1, <1>5 DEF Work, Mining
<1> HIDE DEF work
<1>7. thread'[t] = work
  BY <1>1, <1>4, <1>6, GoesOn
<1>8. CurrentList(n)' = CurrentList(n)
  BY <1>3 DEF CurrentList
<1>9. ThreadNames(t)'
  BY <1>1, <1>3, <1>5, <1>6, <1>7, <1>8 DEF ThreadNames
<1>10. ASSUME Undisturbed(n) PROVE MineInOrder(t)'
  <2>1. MineInOrder(t)
    BY <1>10, <1>1 DEF Undisturbed, Local
  <2>2. last = last_block(CurrentChain(n))
    BY <1>3, <2>1 DEF MineInOrder
  <2>3. valid_proof(Now(n, last).proof, proof, hash(Now(n, last)))
    BY <1>2 DEF FoundByProofOfWork
  <2>4. /\ last_block(CurrentChain(n))' = last
        /\ Now(n, last_block(CurrentChain(n)))' = Now(n, last)
    BY <1>3, <2>2, LastStays
  <2> QED
    BY <1>5, <1>6, <1>7, <2>3, <2>4 DEF MineInOrder
<1>11. thread[t].pc \in Mining /\ work.pc \in Mining
  BY <1>3, <1>6 DEF Mining
<1>12. clock' \in Nat
  BY <1>1, <1>3 DEF TypeOK
<1>13. thread[t].entry.list = work.entry.list
  BY <1>5, <1>6
<1> QED
  BY <1>3, <1>4, <1>6, <1>9, <1>10, <1>11, <1>12, <1>13, GoesOnMining

LEMMA MineFetchesHolds ==
  ASSUME ThreadedInvariant, NEW t \in Thread, MineFetches(t)
  PROVE  ThreadedInvariant'
<1> DEFINE n == Home[t]
           work == [thread[t] EXCEPT !.pc = "rewarding", !.list = CurrentList(n)]
<1>1. /\ TypeOK /\ n \in Node /\ NodeNames(n) /\ ThreadNames(t)
      /\ thread[t] \in Work /\ CurrentList(n) \in Nat /\ clock \in Nat
  BY Start, WorkFields
<1>2. /\ thread[t].pc = "found" /\ Goes(t, work)
      /\ UNCHANGED << chains, lists, nodes, clock, posted, overlapped >>
  BY DEF MineFetches, FetchList
<1>3. /\ work \in Work /\ work.pc = "rewarding"
      /\ work.list = CurrentList(n) /\ work.last = thread[t].last
      /\ work.entry = thread[t].entry /\ work.new_chain = thread[t].new_chain
  BY <1>1 DEF Work, Mining
<1> HIDE DEF work
<1>4. thread'[t] = work
  BY <1>1, <1>2, <1>3, GoesOn
<1>5. CurrentList(n)' = CurrentList(n) /\ CurrentList(n) >= 1
  BY <1>1, <1>2 DEF CurrentList, NodeNames
<1>6. ThreadNames(t)'
  BY <1>1, <1>2, <1>3, <1>4, <1>5 DEF ThreadNames
<1>7. ASSUME Undisturbed(n) PROVE MineInOrder(t)'
  <2>1. MineInOrder(t)
    BY <1>7, <1>1 DEF Undisturbed, Local
  <2> QED
    BY <1>2, <1>3, <1>4, <1>5, <2>1, LastStays DEF MineInOrder, Mining
<1>8. thread[t].pc \in Mining /\ work.pc \in Mining
  BY <1>2, <1>3 DEF Mining
<1> QED
  BY <1>1, <1>2, <1>3, <1>6, <1>7, <1>8, GoesOnMining

LEMMA MineHashesHolds ==
  ASSUME ThreadedInvariant, NEW t \in Thread, MineHashes(t)
  PROVE  ThreadedInvariant'
<1> DEFINE n == Home[t]
           last == thread[t].last
           digest == hash(Now(n, last))
           entry == [thread[t].entry EXCEPT !.block.previous_hash = digest]
           work == [thread[t] EXCEPT !.pc = "hashed", !.entry = entry]
<1>1. /\ TypeOK /\ n \in Node /\ ThreadNames(t) /\ thread[t] \in Work
      /\ CurrentList(n) \in Nat /\ clock \in Nat
      /\ last \in Entry /\ thread[t].entry \in Entry
  BY Start, WorkFields
<1>2. /\ thread[t].pc = "rewarded" /\ Goes(t, work)
      /\ UNCHANGED << chains, lists, nodes, clock, posted, overlapped >>
  BY <1>1 DEF MineHashes, Work
<1>3. digest \in Digest
  <2>1. last.list <= CurrentList(n)
    BY <1>1 DEF ThreadNames
  <2>2. Now(n, last) \in Block
    BY <1>1, <2>1, NowType
  <2> QED
    BY <2>2, HashType
<1>4. ASSUME Undisturbed(n)
      PROVE  /\ last = last_block(CurrentChain(n))
             /\ valid_proof(Now(n, last).proof, thread[t].entry.block.proof, digest)
  <2>1. MineInOrder(t)
    BY <1>4, <1>1 DEF Undisturbed, Local
  <2>2. last = last_block(CurrentChain(n))
    BY <1>2, <2>1 DEF MineInOrder
  <2> QED
    BY <1>2, <2>1, <2>2 DEF MineInOrder, Mining
<1>5. hash(Now(n, last)) = digest
  OBVIOUS
<1> HIDE DEF digest
<1>6. /\ entry \in Entry /\ entry.list = thread[t].entry.list
      /\ entry.block.proof = thread[t].entry.block.proof
      /\ entry.block.previous_hash = digest
  BY <1>1, <1>3 DEF Entry, Block
<1> HIDE DEF entry
<1>7. /\ work \in Work /\ work.pc = "hashed"
      /\ work.list = thread[t].list /\ work.last = last
      /\ work.entry = entry /\ work.new_chain = thread[t].new_chain
  BY <1>1, <1>6 DEF Work, Mining
<1> HIDE DEF work, last
<1>8. thread'[t] = work
  BY <1>1, <1>2, <1>7, GoesOn
<1>9. CurrentList(n)' = CurrentList(n)
  BY <1>2 DEF CurrentList
<1>10. ThreadNames(t)'
  BY <1>1, <1>2, <1>6, <1>7, <1>8, <1>9 DEF ThreadNames, last
<1>11. ASSUME Undisturbed(n) PROVE MineInOrder(t)'
  BY <1>2, <1>4, <1>5, <1>6, <1>7, <1>8, <1>11, LastStays DEF MineInOrder, Mining
<1>12. thread[t].pc \in Mining /\ work.pc \in Mining
  BY <1>2, <1>7 DEF Mining
<1> QED
  BY <1>1, <1>2, <1>6, <1>7, <1>10, <1>11, <1>12, GoesOnMining

LEMMA MineTakesHolds ==
  ASSUME ThreadedInvariant, NEW t \in Thread, MineTakes(t)
  PROVE  ThreadedInvariant'
<1> DEFINE n == Home[t]
           index == Len(CurrentChain(n)) + 1
           old == thread[t].entry.block
           current == CurrentList(n)
           work == [thread[t] EXCEPT !.pc = "taken",
                                     !.entry.block.index = index,
                                     !.entry.block.timestamp = clock,
                                     !.entry.list = current]
<1>1. /\ TypeOK /\ n \in Node /\ NodeNames(n) /\ ThreadNames(t)
      /\ thread[t] \in Work /\ CurrentList(n) \in Nat /\ clock \in Nat
      /\ thread[t].entry \in Entry /\ old \in Block
  BY Start, WorkFields
<1>2. index \in Nat
  BY <1>1, CurrentChainType
<1>3. /\ thread[t].pc = "hashed" /\ Goes(t, work) /\ clock' = clock + 1
      /\ UNCHANGED << chains, lists, nodes, posted, overlapped >>
  BY DEF MineTakes
<1> HIDE DEF index, current
<1>4. /\ work.pc = "taken"
      /\ work.list = thread[t].list /\ work.last = thread[t].last
      /\ work.new_chain = thread[t].new_chain
      /\ work.entry.list = current
  BY <1>1 DEF Work, Entry
<1>5. /\ work.entry.block.proof = old.proof
      /\ work.entry.block.previous_hash = old.previous_hash
  BY <1>1 DEF Work, Entry, Block
<1>6. work.entry \in Entry
  BY <1>1, <1>2 DEF Work, Entry, Block, current
<1>7. work \in Work
  BY <1>1, <1>6 DEF Work, Mining
<1> HIDE DEF work, old
<1>8. thread'[t] = work
  BY <1>1, <1>3, <1>7, GoesOn
<1>9. CurrentList(n)' = CurrentList(n) /\ CurrentList(n) >= 1
  BY <1>1, <1>3 DEF CurrentList, NodeNames
<1>10. ThreadNames(t)'
  BY <1>1, <1>3, <1>4, <1>8, <1>9 DEF ThreadNames, current
<1>11. ASSUME Undisturbed(n) PROVE MineInOrder(t)'
  <2>1. MineInOrder(t)
    BY <1>11, <1>1 DEF Undisturbed, Local
  <2> QED
    BY <1>3, <1>4, <1>5, <1>8, <2>1, LastStays DEF MineInOrder, Mining, old
<1>12. thread[t].pc \in Mining /\ work.pc \in Mining
  BY <1>3, <1>4 DEF Mining
<1>13. thread[t].entry.list = 0
  BY <1>1, <1>3 DEF ThreadNames
<1>14. clock' \in Nat
  BY <1>1, <1>3
<1> QED
  BY <1>3, <1>4, <1>7, <1>10, <1>11, <1>12, <1>13, <1>14, GoesOnMining DEF current

LEMMA MineFetchesChainHolds ==
  ASSUME ThreadedInvariant, NEW t \in Thread, MineFetchesChain(t)
  PROVE  ThreadedInvariant'
<1> DEFINE n == Home[t]
           work == [thread[t] EXCEPT !.pc = "appending", !.chain = Len(chains[n])]
<1>1. /\ TypeOK /\ n \in Node /\ NodeNames(n) /\ ThreadNames(t)
      /\ thread[t] \in Work /\ CurrentList(n) \in Nat /\ clock \in Nat
  BY Start, WorkFields
<1>2. /\ thread[t].pc = "reset" /\ Goes(t, work)
      /\ UNCHANGED << chains, lists, nodes, clock, posted, overlapped >>
  BY DEF MineFetchesChain
<1>3. Len(chains[n]) \in 1 .. Len(chains[n]) /\ Len(chains[n]) \in Nat
  BY <1>1, CurrentChainType, NodeTypes
<1>4. /\ work \in Work /\ work.pc = "appending"
      /\ work.list = thread[t].list /\ work.last = thread[t].last
      /\ work.entry = thread[t].entry /\ work.new_chain = thread[t].new_chain
      /\ work.chain = Len(chains[n])
  BY <1>1, <1>3 DEF Work, Mining
<1> HIDE DEF work
<1>5. thread'[t] = work
  BY <1>1, <1>2, <1>4, GoesOn
<1>6. CurrentList(n)' = CurrentList(n)
  BY <1>2 DEF CurrentList
<1>7. ThreadNames(t)'
  BY <1>1, <1>2, <1>3, <1>4, <1>5, <1>6 DEF ThreadNames
<1>8. ASSUME Undisturbed(n) PROVE MineInOrder(t)'
  <2>1. MineInOrder(t)
    BY <1>8, <1>1 DEF Undisturbed, Local
  <2> QED
    BY <1>2, <1>4, <1>5, <2>1, LastStays DEF MineInOrder, Mining
<1>9. thread[t].pc \in Mining /\ work.pc \in Mining
  BY <1>2, <1>4 DEF Mining
<1> QED
  BY <1>1, <1>2, <1>4, <1>7, <1>8, <1>9, GoesOnMining

(* The blocks of a chain are what they were while the lists they name are. *)
LEMMA BlocksStay ==
  ASSUME TypeOK, NEW n \in Node, NodeNames(n), UNCHANGED chains,
         \A i \in 1 .. Len(CurrentChain(n)) :
           CurrentChain(n)[i].list # 0 =>
             lists'[n][CurrentChain(n)[i].list] = lists[n][CurrentChain(n)[i].list]
  PROVE  /\ BlocksNow(n)' = BlocksNow(n)
         /\ CurrentChain(n)' = CurrentChain(n)
         /\ last_block(CurrentChain(n))' = last_block(CurrentChain(n))
         /\ Now(n, last_block(CurrentChain(n)))' = Now(n, last_block(CurrentChain(n)))
<1> DEFINE chain == CurrentChain(n)
<1>1. chain' = chain
  BY DEF CurrentChain
<1>2. Len(chain) \in 1 .. Len(chain)
  BY CurrentChainType
<1>3. \A i \in 1 .. Len(chain) : Now(n, chain[i])' = Now(n, chain[i])
  <2> TAKE i \in 1 .. Len(chain)
  <2>1. chain[i]' = chain[i]
    BY <1>1
  <2>2. chain[i].list # 0 => lists'[n][chain[i].list] = lists[n][chain[i].list]
    OBVIOUS
  <2> HIDE DEF chain
  <2> QED
    BY <2>1, <2>2 DEF Now
<1> HIDE DEF chain
<1>4. [i \in 1 .. Len(chain) |-> Now(n, chain[i])]' =
        [i \in 1 .. Len(chain) |-> Now(n, chain[i])]
  BY <1>1, <1>3
<1>5. BlocksNow(n)' = BlocksNow(n)
  BY <1>4 DEF BlocksNow, chain
<1>6. last_block(chain)' = last_block(chain)
  BY <1>1 DEF last_block
<1>7. Now(n, last_block(chain))' = Now(n, last_block(chain))
  BY <1>1, <1>2, <1>3 DEF last_block
<1> QED
  BY <1>1, <1>5, <1>6, <1>7 DEF chain

(* A transaction is appended to a list, which blocks may hold by then. *)
LEMMA AppendHolds ==
  ASSUME ThreadedInvariant, NEW t \in Thread, NEW work \in Work,
         thread[t].pc \in {"posting", "rewarding"}, AppendTransaction(t),
         Goes(t, work),
         UNCHANGED << chains, nodes, clock, posted, overlapped >>,
         \/ work.pc = "idle"
         \/ thread[t].pc = "rewarding" /\ work.pc = "rewarded",
         work.list <= CurrentList(Home[t]),
         work.last.list <= CurrentList(Home[t]),
         work.entry.list = 0,
         valid_chain(work.new_chain),
         work.pc = "rewarded" => /\ work.last = thread[t].last
                                 /\ work.entry = thread[t].entry
  PROVE  ThreadedInvariant'
<1> DEFINE n == Home[t]
<1>1. /\ TypeOK /\ n \in Node /\ NodeNames(n) /\ ThreadNames(t)
      /\ thread[t] \in Work /\ CurrentList(n) \in Nat /\ t \in Local(n)
  BY Start, WorkFields DEF Local
<1>2. thread[t].list \in 1 .. CurrentList(n) /\ thread[t].entry.list = 0
  <2>1. thread[t].list \in Nat
    BY <1>1, WorkFields
  <2> QED
    BY <1>1, <2>1 DEF ThreadNames
<1>3. /\ lists' \in [Node -> Seq(Seq(Transaction))]
      /\ Grows
      /\ \A m \in Node : /\ CurrentList(m)' = CurrentList(m)
                         /\ m # n => lists'[m] = lists[m]
      /\ \A k \in 1 .. CurrentList(n) :
           k # thread[t].list => lists'[n][k] = lists[n][k]
  BY <1>1, <1>2, AppendTransactionDoes
<1>4. /\ thread' \in [Thread -> Work]
      /\ thread'[t] = work
      /\ \A u \in Thread : u # t => thread'[u] = thread[u]
  BY <1>1, GoesOn
<1>5. TypeOK'
  BY <1>1, <1>3, <1>4 DEF TypeOK
<1>6. Apart(t, work.pc)
  BY StillApart DEF Mining
<1>7. StepOf(t, work)
  BY <1>3, <1>4, <1>5, <1>6 DEF StepOf
<1>8. /\ CurrentList(n)' = CurrentList(n) /\ CurrentChain(n)' = CurrentChain(n)
      /\ Len(lists'[n]) = Len(lists[n])
  BY <1>1, <1>3 DEF CurrentChain, CurrentList
<1>9. NodeNames(n)'
  BY <1>1, <1>8 DEF NodeNames
<1>10. ThreadNames(t)'
  BY <1>4, <1>8 DEF ThreadNames
<1>11. ASSUME HandedOver(n), NEW k \in 1 .. CurrentList(n)' - 1
       PROVE  k \in HeldByBlocks(n)'
  <2>1. k \in HeldByBlocks(n) /\ k # 0
    BY <1>8, <1>11 DEF HandedOver
  <2>2. thread[t].entry.list \in {0} \cup HeldByBlocks(n)'
    BY <1>2
  <2> QED
    BY <1>1, <1>7, <2>1, <2>2, HeldStays
<1>12. ASSUME Undisturbed(n)
       PROVE  /\ valid_chain(BlocksNow(n))'
              /\ \A i \in 1 .. Len(CurrentChain(n)') :
                   CurrentChain(n)'[i].list < CurrentList(n)'
              /\ MineInOrder(t)'
  <2>1. MineInOrder(t)
    BY <1>1, <1>12 DEF Undisturbed
  <2>2. thread[t].list = CurrentList(n)
    BY <2>1 DEF MineInOrder
  <2>3. \A i \in 1 .. Len(CurrentChain(n)) :
          CurrentChain(n)[i].list # 0 =>
            lists'[n][CurrentChain(n)[i].list] = lists[n][CurrentChain(n)[i].list]
    <3> TAKE i \in 1 .. Len(CurrentChain(n))
    <3>1. CurrentChain(n)[i].list \in Nat
      BY <1>1, CurrentChainType, EntryFields
    <3>2. CurrentChain(n)[i].list < CurrentList(n)
      BY <1>12 DEF Undisturbed
    <3> DEFINE k == CurrentChain(n)[i].list
    <3> HIDE DEF k
    <3>3. k # 0 => k \in 1 .. CurrentList(n) /\ k # thread[t].list
      BY <1>1, <2>2, <3>1, <3>2 DEF k
    <3> QED
      BY <1>3, <3>3 DEF k
  <2>4. /\ BlocksNow(n)' = BlocksNow(n)
        /\ last_block(CurrentChain(n))' = last_block(CurrentChain(n))
        /\ Now(n, last_block(CurrentChain(n)))' = Now(n, last_block(CurrentChain(n)))
    BY <1>1, <2>3, BlocksStay
  <2>5. MineInOrder(t)'
    BY <1>4, <2>1, <2>4 DEF MineInOrder, Mining
  <2>6. valid_chain(BlocksNow(n))'
    BY <1>12, <2>4 DEF Undisturbed
  <2> QED
    BY <1>8, <1>12, <2>5, <2>6 DEF Undisturbed
<1>13. work.pc # "taken"
  OBVIOUS
<1> QED
  BY <1>7, <1>8, <1>9, <1>10, <1>11, <1>12, <1>13, StepHolds

LEMMA PostAppendsHolds ==
  ASSUME ThreadedInvariant, NEW t \in Thread, PostAppends(t)
  PROVE  ThreadedInvariant'
<1>1. CurrentList(Home[t]) \in Nat
  BY Start
<1>2. /\ Idle(t) \in Work /\ Idle(t).pc = "idle" /\ Idle(t).list = 0
      /\ Idle(t).last.list = 0 /\ Idle(t).entry.list = 0
      /\ Idle(t).new_chain = << >>
  BY IdleType DEF Idle, NoEntry
<1>3. /\ thread[t].pc = "posting" /\ AppendTransaction(t) /\ Goes(t, Idle(t))
      /\ UNCHANGED << chains, nodes, clock, posted, overlapped >>
  BY DEF PostAppends
<1> QED
  BY <1>1, <1>2, <1>3, EmptyIsValid, AppendHolds

LEMMA MineRewardsHolds ==
  ASSUME ThreadedInvariant, NEW t \in Thread, MineRewards(t)
  PROVE  ThreadedInvariant'
<1> DEFINE work == [thread[t] EXCEPT !.pc = "rewarded"]
<1>1. ThreadNames(t) /\ thread[t] \in Work
  BY Start, WorkFields
<1>2. /\ thread[t].pc = "rewarding" /\ AppendTransaction(t) /\ Goes(t, work)
      /\ UNCHANGED << chains, nodes, clock, posted, overlapped >>
  BY DEF MineRewards
<1>3. /\ work \in Work /\ work.pc = "rewarded" /\ work.list = thread[t].list
      /\ work.last = thread[t].last /\ work.entry = thread[t].entry
      /\ work.new_chain = thread[t].new_chain
  BY <1>1 DEF Work, Mining
<1> HIDE DEF work
<1>4. /\ work.list <= CurrentList(Home[t])
      /\ work.last.list <= CurrentList(Home[t])
      /\ work.entry.list = 0
      /\ valid_chain(work.new_chain)
  BY <1>1, <1>2, <1>3 DEF ThreadNames
<1> QED
  BY <1>2, <1>3, <1>4, AppendHolds

LEMMA MineResetsHolds ==
  ASSUME ThreadedInvariant, NEW t \in Thread, MineResets(t)
  PROVE  ThreadedInvariant'
<1> DEFINE n == Home[t]
           work == [thread[t] EXCEPT !.pc = "reset"]
<1>1. /\ TypeOK /\ n \in Node /\ NodeNames(n) /\ ThreadNames(t)
      /\ thread[t] \in Work /\ CurrentList(n) \in Nat /\ t \in Local(n)
      /\ thread[t].list \in Nat /\ thread[t].last.list \in Nat
  BY Start, WorkFields DEF Local
<1>2. /\ thread[t].pc = "taken" /\ Goes(t, work)
      /\ lists' = [lists EXCEPT ![n] = Append(@, << >>)]
      /\ UNCHANGED << chains, nodes, clock, posted, overlapped >>
  BY DEF MineResets
<1>3. /\ lists' \in [Node -> Seq(Seq(Transaction))]
      /\ Grows
      /\ \A m \in Node : m # n => lists'[m] = lists[m]
      /\ CurrentList(n)' = CurrentList(n) + 1
      /\ \A k \in 1 .. CurrentList(n) : lists'[n][k] = lists[n][k]
  BY <1>1, <1>2, ResetDoes
<1>4. /\ work \in Work /\ work.pc = "reset"
      /\ work.list = thread[t].list /\ work.last = thread[t].last
      /\ work.entry = thread[t].entry /\ work.new_chain = thread[t].new_chain
  BY <1>1 DEF Work, Mining
<1> HIDE DEF work
<1>5. /\ thread' \in [Thread -> Work]
      /\ thread'[t] = work
      /\ \A u \in Thread : u # t => thread'[u] = thread[u]
  BY <1>1, <1>2, <1>4, GoesOn
<1>6. TypeOK'
  BY <1>1, <1>2, <1>3, <1>5 DEF TypeOK
<1>7. Apart(t, work.pc)
  BY <1>2, <1>4, StillApart DEF Mining
<1>8. StepOf(t, work)
  BY <1>2, <1>3, <1>4, <1>5, <1>6, <1>7 DEF StepOf
<1>9. CurrentChain(n)' = CurrentChain(n)
  BY <1>2 DEF CurrentChain
<1>10. NodeNames(n)'
  <2>1. \A k \in 1 .. Len(chains[n]) :
          /\ Len(chains[n][k]) >= 1
          /\ \A i \in 1 .. Len(chains[n][k]) :
               /\ chains[n][k][i].list \in Nat
               /\ chains[n][k][i].list <= CurrentList(n)
    <3>1. \A k \in 1 .. Len(chains[n]) : \A i \in 1 .. Len(chains[n][k]) :
            chains[n][k][i] \in Entry
      BY <1>1, NodeTypes
    <3> QED
      BY <1>1, <3>1, EntryFields DEF NodeNames
  <2>2. \A k \in 1 .. Len(chains[n]) : \A i \in 1 .. Len(chains[n][k]) :
          chains[n][k][i].list <= CurrentList(n)'
    BY <1>1, <1>3, <2>1
  <2>3. Len(lists'[n]) >= 1
    BY <1>1, <1>3 DEF NodeNames, CurrentList
  <2> QED
    BY <1>1, <1>2, <2>1, <2>2, <2>3 DEF NodeNames
<1>11. thread[t].entry.list \in 1 .. CurrentList(n)
  BY <1>1, <1>2 DEF ThreadNames
<1>12. ThreadNames(t)'
  <2>1. /\ work.list <= CurrentList(n)'
        /\ work.last.list <= CurrentList(n)'
        /\ work.entry.list \in 1 .. CurrentList(n)'
        /\ work.entry.list < CurrentList(n)'
    BY <1>1, <1>3, <1>4, <1>11 DEF ThreadNames
  <2>2. valid_chain(work.new_chain)
    BY <1>1, <1>4 DEF ThreadNames
  <2> QED
    BY <1>4, <1>5, <2>1, <2>2 DEF ThreadNames
<1>13. ASSUME HandedOver(n), NEW k \in 1 .. CurrentList(n)' - 1
       PROVE  k \in HeldByBlocks(n)'
  <2>1. thread'[t].entry.list \in HeldByBlocks(n)'
    BY <1>1 DEF HeldByBlocks, Local
  <2>2. thread[t].entry.list \in HeldByBlocks(n)'
    BY <1>4, <1>5, <2>1
  <2>3. CASE k = CurrentList(n)
    BY <1>1, <1>2, <1>13, <2>2, <2>3 DEF HandedOver
  <2>4. CASE k # CurrentList(n)
    <3>1. k \in 1 .. CurrentList(n) - 1
      BY <1>1, <1>3, <2>4
    <3>2. k \in HeldByBlocks(n) /\ k # 0
      BY <1>13, <3>1 DEF HandedOver
    <3> QED
      BY <1>1, <1>8, <2>2, <3>2, HeldStays
  <2> QED
    BY <2>3, <2>4
<1>14. ASSUME Undisturbed(n)
       PROVE  /\ valid_chain(BlocksNow(n))'
              /\ \A i \in 1 .. Len(CurrentChain(n)') :
                   CurrentChain(n)'[i].list < CurrentList(n)'
              /\ MineInOrder(t)'
  <2>1. MineInOrder(t)
    BY <1>1, <1>14 DEF Undisturbed
  <2>2. \A i \in 1 .. Len(CurrentChain(n)) :
          /\ CurrentChain(n)[i].list \in Nat
          /\ CurrentChain(n)[i].list < CurrentList(n)
    BY <1>1, <1>14, CurrentChainType, EntryFields DEF Undisturbed
  <2>3. \A i \in 1 .. Len(CurrentChain(n)) :
          CurrentChain(n)[i].list # 0 =>
            lists'[n][CurrentChain(n)[i].list] = lists[n][CurrentChain(n)[i].list]
    <3> TAKE i \in 1 .. Len(CurrentChain(n))
    <3> DEFINE k == CurrentChain(n)[i].list
    <3>1. k \in Nat /\ k < CurrentList(n)
      BY <2>2
    <3> HIDE DEF k
    <3>2. k # 0 => k \in 1 .. CurrentList(n)
      BY <1>1, <3>1
    <3> QED
      BY <1>3, <3>2 DEF k
  <2>4. /\ BlocksNow(n)' = BlocksNow(n)
        /\ last_block(CurrentChain(n))' = last_block(CurrentChain(n))
        /\ Now(n, last_block(CurrentChain(n)))' = Now(n, last_block(CurrentChain(n)))
    BY <1>1, <1>2, <2>3, BlocksStay
  <2>5. MineInOrder(t)'
    BY <1>2, <1>4, <1>5, <2>1, <2>4 DEF MineInOrder, Mining
  <2>6. valid_chain(BlocksNow(n))'
    BY <1>14, <2>4 DEF Undisturbed
  <2>7. \A i \in 1 .. Len(CurrentChain(n)) :
          CurrentChain(n)[i].list < CurrentList(n)'
    BY <1>1, <1>3, <2>2
  <2> QED
    BY <1>9, <2>5, <2>6, <2>7
<1>15. work.pc # "taken" /\ thread[t].pc \in Mining
  BY <1>2, <1>4 DEF Mining
<1> QED
  BY <1>8, <1>10, <1>12, <1>13, <1>14, <1>15, StepHolds

(* No node and no thread knows what others have registered. *)
LEMMA RegistersOnly ==
  ASSUME ThreadedInvariant, nodes' \in [Node -> SUBSET Peer],
         UNCHANGED << chains, lists, thread, clock, posted, overlapped >>
  PROVE  ThreadedInvariant'
<1>1. TypeOK'
  BY DEF ThreadedInvariant, TypeOK
<1>2. ASSUME NEW m \in Node
      PROVE  /\ NodeNames(m)'
             /\ SoleMiner(m)' => HandedOver(m)'
             /\ Quiet(m)' => Undisturbed(m)'
  <2>1. /\ NodeNames(m)
        /\ SoleMiner(m) => HandedOver(m)
        /\ Quiet(m) => Undisturbed(m)
    BY DEF ThreadedInvariant
  <2>2. CurrentList(m)' = CurrentList(m) /\ CurrentChain(m)' = CurrentChain(m)
    BY DEF CurrentList, CurrentChain
  <2>3. NodeNames(m)' = NodeNames(m)
    BY <2>2 DEF NodeNames
  <2>4. HeldByBlocks(m)' = HeldByBlocks(m)
    BY DEF HeldByBlocks, Local
  <2>5. HandedOver(m) => HandedOver(m)'
    BY <2>2, <2>4 DEF HandedOver, Local
  <2>6. BlocksNow(m)' = BlocksNow(m)
    BY <2>2 DEF BlocksNow, Now
  <2>7. \A u \in Local(m) : MineInOrder(u) => MineInOrder(u)'
    BY <2>2 DEF MineInOrder, Now, CurrentList, CurrentChain, Local
  <2>8. Undisturbed(m) => Undisturbed(m)'
    BY <2>2, <2>6, <2>7 DEF Undisturbed, Local
  <2> QED
    BY <2>1, <2>3, <2>5, <2>8 DEF SoleMiner, Quiet
<1>3. ASSUME NEW u \in Thread PROVE ThreadNames(u)'
  BY DEF ThreadedInvariant, ThreadNames, CurrentList
<1> QED
  BY <1>1, <1>2, <1>3 DEF ThreadedInvariant

LEMMA RegisterHolds ==
  ASSUME ThreadedInvariant, NEW n \in Node, NEW i \in 1 .. Len(Registered[n]),
         Register(n, i)
  PROVE  ThreadedInvariant'
<1>1. Registered[n][i] \in Peer
  BY ThreadedAssumption
<1>2. nodes' \in [Node -> SUBSET Peer]
  BY <1>1 DEF ThreadedInvariant, TypeOK, Register
<1> QED
  BY <1>2, RegistersOnly DEF Register

LEMMA BlocksNowType ==
  ASSUME TypeOK, NEW n \in Node, NodeNames(n)
  PROVE  /\ BlocksNow(n) \in Seq(Block)
         /\ Len(BlocksNow(n)) = Len(CurrentChain(n))
         /\ Len(BlocksNow(n)) >= 1
         /\ \A i \in 1 .. Len(CurrentChain(n)) :
              BlocksNow(n)[i] = Now(n, CurrentChain(n)[i])
         /\ last_block(BlocksNow(n)) = Now(n, last_block(CurrentChain(n)))
<1> DEFINE chain == CurrentChain(n)
<1>1. /\ Len(chain) \in Nat /\ Len(chain) >= 1
      /\ \A i \in 1 .. Len(chain) : Now(n, chain[i]) \in Block
  BY CurrentChainType, NowType
<1> HIDE DEF chain
<1>2. BlocksNow(n) = [i \in 1 .. Len(chain) |-> Now(n, chain[i])]
  BY DEF BlocksNow, chain
<1>3. BlocksNow(n) \in Seq(Block) /\ Len(BlocksNow(n)) = Len(chain)
  BY <1>1, <1>2
<1> QED
  BY <1>1, <1>2, <1>3 DEF last_block, chain

(* The chain of now, when it has the blocks b and nothing else. *)
LEMMA BlocksBecome ==
  ASSUME NEW n, NEW b \in Seq(Block), Len(CurrentChain(n))' = Len(b),
         \A i \in 1 .. Len(b) : Now(n, CurrentChain(n)[i])' = b[i]
  PROVE  BlocksNow(n)' = b
<1>1. BlocksNow(n)' = [i \in 1 .. Len(b) |-> Now(n, CurrentChain(n)[i])']
  BY DEF BlocksNow
<1>2. BlocksNow(n)' = [i \in 1 .. Len(b) |-> b[i]]
  BY <1>1
<1>3. [i \in 1 .. Len(b) |-> b[i]] = b
  OBVIOUS
<1> QED
  BY <1>2, <1>3

(* A mine in order puts a valid block at the end of the chain. *)
LEMMA AppendedInOrder ==
  ASSUME ThreadedInvariant, NEW t \in Thread, MineAppends(t),
         Undisturbed(Home[t])
  PROVE  /\ valid_chain(BlocksNow(Home[t]))'
         /\ \A i \in 1 .. Len(CurrentChain(Home[t])') :
              CurrentChain(Home[t])'[i].list < CurrentList(Home[t])'
<1> DEFINE n == Home[t]
           entry == thread[t].entry
           chain == CurrentChain(n)
           old == BlocksNow(n)
           block == Now(n, entry)
           b == Append(old, block)
<1>1. /\ TypeOK /\ n \in Node /\ NodeNames(n) /\ ThreadNames(t)
      /\ CurrentList(n) \in Nat /\ t \in Local(n)
      /\ entry \in Entry /\ entry.list \in Nat
  BY Start, WorkFields DEF Local
<1>2. thread[t].pc = "appending" /\ UNCHANGED lists
  BY DEF MineAppends
<1>3. /\ thread[t].chain \in 1 .. Len(chains[n])
      /\ entry.list < CurrentList(n)
  BY <1>1, <1>2 DEF ThreadNames
<1>4. MineInOrder(t)
  BY <1>1 DEF Undisturbed
<1>5. thread[t].chain = Len(chains[n])
  BY <1>2, <1>4 DEF MineInOrder
<1>6. /\ Len(chains'[n]) = Len(chains[n])
      /\ chains'[n][thread[t].chain] = Append(chains[n][thread[t].chain], entry)
  BY <1>1, <1>3, MineAppendsDoes
<1>7. CurrentChain(n)' = Append(chain, entry)
  BY <1>5, <1>6 DEF CurrentChain, last_block
<1>8. chain \in Seq(Entry) /\ Len(chain) \in Nat /\ Len(chain) >= 1
  BY <1>1, CurrentChainType
<1>9. \A i \in 1 .. Len(chain) : chain[i].list < CurrentList(n)
  BY DEF Undisturbed
<1>10. /\ old \in Seq(Block) /\ Len(old) = Len(chain)
       /\ \A i \in 1 .. Len(chain) : old[i] = Now(n, chain[i])
       /\ last_block(old) = Now(n, last_block(chain))
       /\ valid_chain(old)
  BY <1>1, BlocksNowType DEF Undisturbed
<1>11. /\ block \in Block
       /\ block.proof = entry.block.proof
       /\ block.previous_hash = entry.block.previous_hash
  <2>1. entry.list <= CurrentList(n)
    BY <1>1, <1>3
  <2> QED
    BY <1>1, <2>1, NowType
<1>12. /\ block.previous_hash = hash(last_block(old))
       /\ valid_proof(last_block(old).proof, block.proof, hash(last_block(old)))
  BY <1>2, <1>4, <1>10, <1>11 DEF MineInOrder, Mining
<1> HIDE DEF old, block, chain, entry
<1>13. /\ Len(CurrentChain(n)') = Len(chain) + 1
       /\ CurrentChain(n)'[Len(chain) + 1] = entry
       /\ \A i \in 1 .. Len(chain) : CurrentChain(n)'[i] = chain[i]
  BY <1>1, <1>7, <1>8
<1>14. b \in Seq(Block) /\ valid_chain(b)
  BY <1>8, <1>10, <1>11, <1>12, ValidAppended
<1>15. /\ Len(b) = Len(chain) + 1
       /\ b[Len(chain) + 1] = block
       /\ \A i \in 1 .. Len(chain) : b[i] = old[i]
  BY <1>8, <1>10, <1>11
<1> HIDE DEF b
<1>16. ASSUME NEW i \in 1 .. Len(b) PROVE Now(n, CurrentChain(n)[i])' = b[i]
  <2>1. CASE i = Len(chain) + 1
    <3>1. CurrentChain(n)[i]' = entry
      BY <1>13, <2>1
    <3>2. Now(n, CurrentChain(n)[i])' = Now(n, entry)
      BY <1>2, <3>1 DEF Now
    <3> QED
      BY <1>15, <2>1, <3>2 DEF block
  <2>2. CASE i \in 1 .. Len(chain)
    <3>1. CurrentChain(n)[i]' = chain[i]
      BY <1>13, <2>2
    <3>2. Now(n, CurrentChain(n)[i])' = Now(n, chain[i])
      BY <1>2, <3>1 DEF Now
    <3> QED
      BY <1>10, <1>15, <2>2, <3>2
  <2> QED
    BY <1>8, <1>15, <2>1, <2>2
<1>17. BlocksNow(n)' = b
  BY <1>13, <1>14, <1>15, <1>16, BlocksBecome
<1>18. ASSUME NEW i \in 1 .. Len(CurrentChain(n)')
       PROVE  CurrentChain(n)'[i].list < CurrentList(n)'
  <2>1. CurrentList(n)' = CurrentList(n)
    BY <1>2 DEF CurrentList
  <2>2. CASE i = Len(chain) + 1
    BY <1>3, <1>13, <2>1, <2>2 DEF entry
  <2>3. CASE i \in 1 .. Len(chain)
    BY <1>9, <1>13, <2>1, <2>3 DEF chain
  <2> QED
    BY <1>8, <1>13, <2>2, <2>3
<1> QED
  BY <1>14, <1>17, <1>18

(* The names in a chain that a block is appended to. *)
LEMMA NamesAppended ==
  ASSUME NEW c \in Seq(Seq(Entry)), NEW d \in Seq(Seq(Entry)),
         NEW k \in 1 .. Len(c), NEW e \in Entry, NEW current \in Nat,
         Len(d) = Len(c), d[k] = Append(c[k], e),
         \A j \in 1 .. Len(c) : j # k => d[j] = c[j],
         e.list <= current,
         \A j \in 1 .. Len(c) :
           /\ Len(c[j]) >= 1
           /\ \A i \in 1 .. Len(c[j]) : c[j][i].list <= current
  PROVE  /\ \A j \in 1 .. Len(d) :
              /\ Len(d[j]) >= 1
              /\ \A i \in 1 .. Len(d[j]) : d[j][i].list <= current
         /\ e.list \in ListsIn(d)
<1>1. c[k] \in Seq(Entry)
  OBVIOUS
<1>2. /\ Len(d[k]) = Len(c[k]) + 1 /\ Len(c[k]) \in Nat
      /\ d[k][Len(c[k]) + 1] = e
      /\ \A i \in 1 .. Len(c[k]) : d[k][i] = c[k][i]
  BY <1>1
<1>3. ASSUME NEW j \in 1 .. Len(d)
      PROVE  /\ Len(d[j]) >= 1
             /\ \A i \in 1 .. Len(d[j]) : d[j][i].list <= current
  <2>1. CASE j = k
    <3>1. ASSUME NEW i \in 1 .. Len(d[k]) PROVE d[k][i].list <= current
      <4>1. CASE i = Len(c[k]) + 1
        BY <1>2, <4>1
      <4>2. CASE i \in 1 .. Len(c[k])
        BY <1>2, <4>2
      <4> QED
        BY <1>2, <4>1, <4>2
    <3>2. Len(d[k]) >= 1
      BY <1>2
    <3> QED
      BY <2>1, <3>1, <3>2
  <2>2. CASE j # k
    <3>1. d[j] = c[j]
      BY <2>2
    <3> QED
      BY <3>1
  <2> QED
    BY <2>1, <2>2
<1>4. e.list \in ListsIn(d)
  <2>1. k \in 1 .. Len(d) /\ Len(c[k]) + 1 \in 1 .. Len(d[k])
    BY <1>2
  <2> QED
    BY <1>2, <2>1, InLists
<1> QED
  BY <1>3, <1>4

LEMMA MineAppendsHolds ==
  ASSUME ThreadedInvariant, NEW t \in Thread, MineAppends(t)
  PROVE  ThreadedInvariant'
<1> DEFINE n == Home[t]
           entry == thread[t].entry
           k == thread[t].chain
<1>1. /\ TypeOK /\ n \in Node /\ NodeNames(n) /\ ThreadNames(t)
      /\ CurrentList(n) \in Nat /\ t \in Local(n)
      /\ entry \in Entry /\ entry.list \in Nat
  BY Start, WorkFields DEF Local
<1>2. /\ thread[t].pc = "appending" /\ Goes(t, Idle(t))
      /\ UNCHANGED << lists, nodes, clock, posted, overlapped >>
  BY DEF MineAppends
<1>3. k \in 1 .. Len(chains[n]) /\ entry.list < CurrentList(n)
  BY <1>1, <1>2 DEF ThreadNames
<1>4. /\ chains' \in [Node -> Seq(Seq(Entry))]
      /\ Grows
      /\ \A m \in Node : m # n => chains'[m] = chains[m]
      /\ Len(chains'[n]) = Len(chains[n])
      /\ \A j \in 1 .. Len(chains[n]) : j # k => chains'[n][j] = chains[n][j]
      /\ chains'[n][k] = Append(chains[n][k], entry)
  BY <1>1, <1>3, MineAppendsDoes
<1>5. /\ Idle(t) \in Work /\ Idle(t).pc = "idle" /\ Idle(t).list = 0
      /\ Idle(t).last.list = 0 /\ Idle(t).entry.list = 0
      /\ Idle(t).new_chain = << >>
  BY IdleType DEF Idle, NoEntry
<1>6. /\ thread' \in [Thread -> Work]
      /\ thread'[t] = Idle(t)
      /\ \A u \in Thread : u # t => thread'[u] = thread[u]
  BY <1>1, <1>2, <1>5, GoesOn
<1>7. TypeOK'
  BY <1>1, <1>2, <1>4, <1>6 DEF TypeOK
<1>8. Apart(t, Idle(t).pc)
  BY <1>2, <1>5, StillApart
<1>9. StepOf(t, Idle(t))
  BY <1>2, <1>4, <1>6, <1>7, <1>8 DEF StepOf
<1>10. CurrentList(n)' = CurrentList(n)
  BY <1>2 DEF CurrentList
<1>11. /\ \A j \in 1 .. Len(chains'[n]) :
            /\ Len(chains'[n][j]) >= 1
            /\ \A i \in 1 .. Len(chains'[n][j]) :
                 chains'[n][j][i].list <= CurrentList(n)
       /\ entry.list \in ListsIn(chains'[n])
  <2>1. chains[n] \in Seq(Seq(Entry)) /\ chains'[n] \in Seq(Seq(Entry))
    BY <1>1, <1>4, NodeTypes
  <2>2. entry.list <= CurrentList(n)
    BY <1>1, <1>3
  <2>3. \A j \in 1 .. Len(chains[n]) :
          /\ Len(chains[n][j]) >= 1
          /\ \A i \in 1 .. Len(chains[n][j]) : chains[n][j][i].list <= CurrentList(n)
    BY <1>1 DEF NodeNames
  <2> DEFINE c == chains[n]
             d == chains'[n]
             current == CurrentList(n)
  <2>4. /\ Len(d) = Len(c) /\ d[k] = Append(c[k], entry)
        /\ \A j \in 1 .. Len(c) : j # k => d[j] = c[j]
    BY <1>4
  <2>5. /\ c \in Seq(Seq(Entry)) /\ d \in Seq(Seq(Entry)) /\ k \in 1 .. Len(c)
        /\ entry \in Entry /\ current \in Nat /\ entry.list <= current
        /\ \A j \in 1 .. Len(c) :
             /\ Len(c[j]) >= 1
             /\ \A i \in 1 .. Len(c[j]) : c[j][i].list <= current
    BY <1>1, <1>3, <2>1, <2>2, <2>3
  <2> HIDE DEF c, d, current, k, entry
  <2>6. /\ \A j \in 1 .. Len(d) :
             /\ Len(d[j]) >= 1
             /\ \A i \in 1 .. Len(d[j]) : d[j][i].list <= current
        /\ entry.list \in ListsIn(d)
    BY <2>4, <2>5, NamesAppended
  <2> QED
    BY <2>6 DEF d, current
<1>12. NodeNames(n)'
  BY <1>1, <1>2, <1>4, <1>10, <1>11 DEF NodeNames
<1>13. ThreadNames(t)'
  BY <1>1, <1>5, <1>6, <1>10, EmptyIsValid DEF ThreadNames
<1>14. ASSUME HandedOver(n), NEW j \in 1 .. CurrentList(n)' - 1
       PROVE  j \in HeldByBlocks(n)'
  <2>1. entry.list \in HeldByBlocks(n)'
    BY <1>11 DEF HeldByBlocks, ListsIn
  <2>2. j \in HeldByBlocks(n) /\ j # 0
    BY <1>10, <1>14 DEF HandedOver
  <2> QED
    BY <1>1, <1>9, <2>1, <2>2, HeldStays
<1>15. MineInOrder(t)'
  BY <1>5, <1>6 DEF MineInOrder, Mining
<1>16. Undisturbed(n) =>
         /\ valid_chain(BlocksNow(n))'
         /\ \A i \in 1 .. Len(CurrentChain(n)') :
              CurrentChain(n)'[i].list < CurrentList(n)'
         /\ MineInOrder(t)'
  BY <1>15, AppendedInOrder
<1> QED
  BY <1>5, <1>9, <1>10, <1>12, <1>13, <1>14, <1>16, StepHolds

(* What a resolve takes over is the chain it found, which is valid. *)
LEMMA AdoptedChain ==
  ASSUME ThreadedInvariant, NEW t \in Thread, ResolveEnds(t),
         thread[t].new_chain # << >>
  PROVE  /\ BlocksNow(Home[t])' = thread[t].new_chain
         /\ valid_chain(BlocksNow(Home[t]))'
         /\ CurrentChain(Home[t])' = Received(thread[t].new_chain)
         /\ thread[t].new_chain \in Seq(Block)
<1> DEFINE n == Home[t]
           c == thread[t].new_chain
<1>1. /\ TypeOK /\ n \in Node /\ NodeNames(n) /\ ThreadNames(t)
      /\ c \in Seq(Block)
  BY Start, WorkFields
<1>2. /\ chains' = [chains EXCEPT ![n] = Append(@, Received(c))]
      /\ UNCHANGED lists
  BY DEF ResolveEnds
<1>3. /\ Len(chains'[n]) = Len(chains[n]) + 1
      /\ chains'[n][Len(chains[n]) + 1] = Received(c)
  BY <1>1, <1>2, AdoptionDoes
<1>4. CurrentChain(n)' = Received(c)
  BY <1>3 DEF CurrentChain, last_block
<1>5. valid_chain(c)
  BY <1>1 DEF ThreadNames
<1> HIDE DEF c
<1>6. /\ Len(CurrentChain(n))' = Len(c)
      /\ \A i \in 1 .. Len(c) :
           CurrentChain(n)[i].block' = c[i] /\ CurrentChain(n)[i].list' = 0
  BY <1>1, <1>4, ReceivedType
<1>7. \A i \in 1 .. Len(c) : Now(n, CurrentChain(n)[i])' = c[i]
  BY <1>6 DEF Now
<1>8. BlocksNow(n)' = c
  BY <1>1, <1>6, <1>7, BlocksBecome
<1>9. valid_chain(BlocksNow(n))'
  BY <1>5, <1>8
<1> QED
  BY <1>1, <1>4, <1>8, <1>9 DEF c

LEMMA ResolveEndsHolds ==
  ASSUME ThreadedInvariant, NEW t \in Thread, ResolveEnds(t)
  PROVE  ThreadedInvariant'
<1> DEFINE n == Home[t]
           c == thread[t].new_chain
<1>1. /\ TypeOK /\ n \in Node /\ NodeNames(n) /\ ThreadNames(t)
      /\ CurrentList(n) \in Nat /\ t \in Local(n) /\ c \in Seq(Block)
  BY Start, WorkFields DEF Local
<1>2. /\ thread[t].pc = "looping" /\ Goes(t, Idle(t))
      /\ UNCHANGED << lists, nodes, clock, posted, overlapped >>
  BY DEF ResolveEnds
<1>3. CASE c = << >>
  <2>1. UNCHANGED chains
    BY <1>3 DEF ResolveEnds
  <2>2. thread[t].pc \in Resolving
    BY <1>2 DEF Resolving
  <2> QED
    BY <1>2, <2>1, <2>2, GivesUp
<1>4. CASE c # << >>
  <2>1. chains' = [chains EXCEPT ![n] = Append(@, Received(c))]
    BY <1>4 DEF ResolveEnds
  <2>2. /\ chains' \in [Node -> Seq(Seq(Entry))]
        /\ Grows
        /\ \A m \in Node : m # n => chains'[m] = chains[m]
        /\ Len(chains'[n]) = Len(chains[n]) + 1
        /\ \A j \in 1 .. Len(chains[n]) : chains'[n][j] = chains[n][j]
        /\ chains'[n][Len(chains[n]) + 1] = Received(c)
    BY <1>1, <1>2, <2>1, AdoptionDoes
  <2>3. /\ Idle(t) \in Work /\ Idle(t).pc = "idle" /\ Idle(t).list = 0
        /\ Idle(t).last.list = 0 /\ Idle(t).entry.list = 0
        /\ Idle(t).new_chain = << >>
    BY IdleType DEF Idle, NoEntry
  <2>4. /\ thread' \in [Thread -> Work]
        /\ thread'[t] = Idle(t)
        /\ \A u \in Thread : u # t => thread'[u] = thread[u]
    BY <1>1, <1>2, <2>3, GoesOn
  <2>5. TypeOK'
    BY <1>1, <1>2, <2>2, <2>4 DEF TypeOK
  <2>6. Apart(t, Idle(t).pc)
    BY <1>2, <2>3, StillApart
  <2>7. StepOf(t, Idle(t))
    BY <1>2, <2>2, <2>4, <2>5, <2>6 DEF StepOf
  <2>8. CurrentList(n)' = CurrentList(n)
    BY <1>2 DEF CurrentList
  <2>9. /\ Len(Received(c)) = Len(c) /\ Len(c) >= 1
        /\ \A i \in 1 .. Len(c) : Received(c)[i].list = 0
    <3>1. Len(c) >= 1
      BY <1>1, <1>4
    <3> HIDE DEF c
    <3>2. /\ Len(Received(c)) = Len(c)
          /\ \A i \in 1 .. Len(c) : Received(c)[i].list = 0
      BY <1>1, ReceivedType
    <3> QED
      BY <3>1, <3>2
  <2>10. NodeNames(n)'
    <3>1. ASSUME NEW j \in 1 .. Len(chains'[n])
          PROVE  /\ Len(chains'[n][j]) >= 1
                 /\ \A i \in 1 .. Len(chains'[n][j]) :
                      chains'[n][j][i].list <= CurrentList(n)
      <4>1. CASE j = Len(chains[n]) + 1
        <5> DEFINE received == Received(c)
        <5>1. chains'[n][j] = received
          BY <2>2, <4>1
        <5>2. Len(received) >= 1 /\ \A i \in 1 .. Len(received) : received[i].list = 0
          BY <2>9
        <5>3. CurrentList(n) >= 0
          BY <1>1
        <5> HIDE DEF received
        <5> QED
          BY <5>1, <5>2, <5>3
      <4>2. CASE j \in 1 .. Len(chains[n])
        <5>1. chains'[n][j] = chains[n][j]
          BY <2>2, <4>2
        <5> QED
          BY <1>1, <4>2, <5>1 DEF NodeNames
      <4>3. Len(chains[n]) \in Nat
        BY <1>1, NodeTypes
      <4> QED
        BY <2>2, <4>1, <4>2, <4>3
    <3>2. Len(lists'[n]) >= 1 /\ Len(chains'[n]) >= 1
      <4>1. Len(chains[n]) \in Nat
        BY <1>1, NodeTypes
      <4> QED
        BY <1>1, <1>2, <2>2, <4>1 DEF NodeNames
    <3> QED
      BY <2>8, <3>1, <3>2 DEF NodeNames
  <2>11. ThreadNames(t)'
    BY <1>1, <2>3, <2>4, <2>8, EmptyIsValid DEF ThreadNames
  <2>12. thread[t].entry.list = 0
    BY <1>1, <1>2 DEF ThreadNames
  <2>13. ASSUME HandedOver(n), NEW j \in 1 .. CurrentList(n)' - 1
         PROVE  j \in HeldByBlocks(n)'
    <3>1. j \in HeldByBlocks(n) /\ j # 0
      BY <2>8, <2>13 DEF HandedOver
    <3> QED
      BY <1>1, <2>7, <2>12, <3>1, HeldStays
  <2>14. MineInOrder(t)'
    BY <2>3, <2>4 DEF MineInOrder, Mining
  <2>15. valid_chain(BlocksNow(n))' /\ CurrentChain(n)' = Received(c)
    BY <1>4, AdoptedChain
  <2>16. \A i \in 1 .. Len(CurrentChain(n)') :
           CurrentChain(n)'[i].list < CurrentList(n)'
    <3>1. CurrentList(n) >= 1
      BY <1>1 DEF NodeNames, CurrentList
    <3> QED
      BY <1>1, <2>8, <2>9, <2>15, <3>1
  <2> QED
    BY <2>3, <2>7, <2>8, <2>10, <2>11, <2>13, <2>14, <2>15, <2>16, StepHolds
<1> QED
  BY <1>3, <1>4

-----------------------------------------------------------------------------
(* The invariant *)

LEMMA InitHolds == Init => ThreadedInvariant
<1> SUFFICES ASSUME Init PROVE ThreadedInvariant
  OBVIOUS
<1>1. ASSUME NEW n \in Node
      PROVE  /\ Received(GenesisChain(BootTime[n])) \in Seq(Entry)
             /\ Len(Received(GenesisChain(BootTime[n]))) = 1
             /\ Received(GenesisChain(BootTime[n]))[1].list = 0
  <2> DEFINE c == GenesisChain(BootTime[n])
  <2>1. BootTime[n] \in Nat
    BY ThreadedAssumption
  <2>2. c \in Seq(Block) /\ Len(c) = 1
    BY <2>1, GenesisSound
  <2> HIDE DEF c
  <2>3. /\ Received(c) \in Seq(Entry) /\ Len(Received(c)) = Len(c)
        /\ \A i \in 1 .. Len(c) : Received(c)[i].list = 0
    BY <2>2, ReceivedType
  <2>4. Received(c)[1].list = 0
    BY <2>2, <2>3
  <2> QED
    BY <2>2, <2>3, <2>4 DEF c
<1>2. << >> \in Seq(Transaction)
  OBVIOUS
<1>3. TypeOK
  <2>1. chains \in [Node -> Seq(Seq(Entry))]
    <3>1. \A n \in Node : << Received(GenesisChain(BootTime[n])) >> \in Seq(Seq(Entry))
      BY <1>1
    <3> QED
      BY <3>1 DEF Init
  <2>2. lists \in [Node -> Seq(Seq(Transaction))]
    <3> DEFINE none == << >>
    <3>1. none \in Seq(Transaction)
      OBVIOUS
    <3>2. lists = [n \in Node |-> << none >>]
      BY DEF Init
    <3> HIDE DEF none
    <3>3. << none >> \in Seq(Seq(Transaction))
      BY <3>1
    <3> QED
      BY <3>2, <3>3
  <2>3. thread \in [Thread -> Work]
    BY IdleType DEF Init
  <2> QED
    BY <2>1, <2>2, <2>3, ThreadedAssumption DEF Init, TypeOK
<1>4. ASSUME NEW t \in Thread
      PROVE  /\ Home[t] \in Node
             /\ thread[t].pc = "idle" /\ thread[t].list = 0
             /\ thread[t].last.list = 0 /\ thread[t].entry.list = 0
             /\ thread[t].new_chain = << >>
  BY ThreadedAssumption DEF Init, Idle, NoEntry
<1>5. ASSUME NEW n \in Node
      PROVE  /\ Len(chains[n]) = 1
             /\ Len(chains[n][1]) = 1
             /\ chains[n][1][1].list = 0
             /\ CurrentList(n) = 1
             /\ CurrentChain(n) = chains[n][1]
  <2> DEFINE c == Received(GenesisChain(BootTime[n]))
  <2>1. Len(c) = 1 /\ c[1].list = 0
    BY <1>1
  <2>2. chains[n] = << c >>
    BY DEF Init
  <2> HIDE DEF c
  <2>3. /\ Len(chains[n]) = 1 /\ chains[n][1] = c
    BY <2>2
  <2>4. CurrentList(n) = 1
    BY DEF Init, CurrentList
  <2> QED
    BY <2>1, <2>3, <2>4 DEF CurrentChain, last_block
<1>6. ASSUME NEW n \in Node
      PROVE  NodeNames(n) /\ HandedOver(n) /\ Undisturbed(n)
  <2>1. NodeNames(n)
    BY <1>5 DEF NodeNames, CurrentList
  <2>2. \A t \in Local(n) : thread[t].pc = "idle"
    BY <1>4 DEF Local
  <2>3. HandedOver(n)
    BY <1>5, <2>2 DEF HandedOver, Mining
  <2>4. valid_chain(BlocksNow(n))
    <3>1. BlocksNow(n) = [i \in 1 .. 1 |-> Now(n, CurrentChain(n)[i])]
      BY <1>5 DEF BlocksNow
    <3>2. Len(BlocksNow(n)) = 1
      BY <1>3, <1>5, <2>1, BlocksNowType
    <3> QED
      BY <3>2 DEF valid_chain
  <2>5. \A t \in Local(n) : MineInOrder(t)
    BY <2>2 DEF MineInOrder, Mining
  <2>6. \A i \in 1 .. Len(CurrentChain(n)) : CurrentChain(n)[i].list < CurrentList(n)
    BY <1>5
  <2> QED
    BY <2>1, <2>2, <2>3, <2>4, <2>5, <2>6 DEF Undisturbed, Mining
<1>7. ASSUME NEW t \in Thread PROVE ThreadNames(t)
  BY <1>4, <1>5, EmptyIsValid DEF ThreadNames
<1> QED
  BY <1>3, <1>6, <1>7 DEF ThreadedInvariant

LEMMA NextHolds ==
  ASSUME ThreadedInvariant, [Next]_vars
  PROVE  ThreadedInvariant'
<1>1. CASE \E n \in Node : \E i \in 1 .. Len(Registered[n]) : Register(n, i)
  BY <1>1, RegisterHolds
<1>2. ASSUME NEW t \in Thread, \E tx \in UserTransaction : PostStarts(t, tx)
      PROVE  ThreadedInvariant'
  BY <1>2, PostStartsHolds
<1>3. ASSUME NEW t \in Thread,
             \/ PostAppends(t)
             \/ MineStarts(t)
             \/ MineSearches(t)
             \/ MineFetches(t)
             \/ MineRewards(t)
             \/ MineHashes(t)
             \/ MineTakes(t)
             \/ MineResets(t)
             \/ MineFetchesChain(t)
             \/ MineAppends(t)
      PROVE  ThreadedInvariant'
  BY <1>3, PostAppendsHolds, MineStartsHolds, MineSearchesHolds,
     MineFetchesHolds, MineRewardsHolds, MineHashesHolds, MineTakesHolds,
     MineResetsHolds, MineFetchesChainHolds, MineAppendsHolds
<1>4. ASSUME NEW t \in Thread,
             \/ ResolveStarts(t)
             \/ ResolveRaises(t)
             \/ ResolveAsks(t)
             \/ ResolveEnds(t)
             \/ FullChain(t)
             \/ FullChainLength(t)
             \/ Serialise(t)
             \/ ResumeResolve(t)
             \/ NotOK(t)
             \/ RequestFails(t)
      PROVE  ThreadedInvariant'
  BY <1>4, ResolveStartsHolds, ResolveGivesUpHolds, ResolveGoesOnHolds,
     ResolveEndsHolds
<1>5. CASE UNCHANGED vars
  <2>1. nodes' \in [Node -> SUBSET Peer]
    BY <1>5 DEF ThreadedInvariant, TypeOK, vars
  <2> QED
    BY <1>5, <2>1, RegistersOnly DEF vars
<1> QED
  BY <1>1, <1>2, <1>3, <1>4, <1>5 DEF Next

(* Names are good at all times, and each of the two kinds of overlap spoils *)
(* only what is said of the node it is in.                                  *)
THEOREM Invariance == Spec => []ThreadedInvariant
BY InitHolds, NextHolds, PTL DEF Spec

(* The chain of a node whose mines nothing overlaps is valid at all times. *)
THEOREM QuietValid == Spec => []QuietNodesAreValid
<1>1. ThreadedInvariant => QuietNodesAreValid
  BY DEF ThreadedInvariant, QuietNodesAreValid, Undisturbed
<1> QED
  BY <1>1, Invariance, PTL

(* A node that mines one block at a time loses no list of transactions. *)
THEOREM SoleMinersKeepLists == Spec => []SoleMinersLoseNothing
<1>1. ThreadedInvariant => SoleMinersLoseNothing
  BY DEF ThreadedInvariant, SoleMinersLoseNothing, HandedOver, CurrentList
<1> QED
  BY <1>1, Invariance, PTL

-----------------------------------------------------------------------------
(* What is taken over *)

LEMMA AdoptsValid ==
  ASSUME ThreadedInvariant, [Next]_vars,
         NEW n \in Node, Len(chains'[n]) > Len(chains[n])
  PROVE  valid_chain(BlocksNow(n)')
<1>1. TypeOK /\ Len(chains[n]) \in Nat
  BY NodeTypes DEF ThreadedInvariant
<1>2. chains' # chains
  BY <1>1
<1>3. ASSUME NEW t \in Thread, MineAppends(t)
      PROVE  FALSE
  <2>1. thread[t].chain \in 1 .. Len(chains[Home[t]])
    BY <1>3, Start DEF ThreadNames, MineAppends
  <2>2. /\ Len(chains'[Home[t]]) = Len(chains[Home[t]])
        /\ \A m \in Node : m # Home[t] => chains'[m] = chains[m]
    BY <1>1, <1>3, <2>1, MineAppendsDoes
  <2>3. Len(chains'[n]) = Len(chains[n])
    BY <2>2
  <2> QED
    BY <1>1, <2>3
<1>4. ASSUME NEW t \in Thread, ResolveEnds(t)
      PROVE  valid_chain(BlocksNow(n)')
  <2>1. thread[t].new_chain # << >>
    BY <1>2, <1>4 DEF ResolveEnds
  <2>2. n = Home[t]
    <3> DEFINE c == thread[t].new_chain
    <3>1. c \in Seq(Block) /\ Home[t] \in Node
      BY <1>1, Start, WorkFields
    <3>2. /\ chains' = [chains EXCEPT ![Home[t]] = Append(@, Received(c))]
          /\ UNCHANGED lists
      BY <1>4, <2>1 DEF ResolveEnds
    <3>3. \A m \in Node : m # Home[t] => chains'[m] = chains[m]
      BY <1>1, <3>1, <3>2, AdoptionDoes
    <3> QED
      BY <1>1, <3>3
  <2> QED
    BY <1>4, <2>1, <2>2, AdoptedChain
<1>5. \/ \E t \in Thread : MineAppends(t) \/ ResolveEnds(t)
      \/ UNCHANGED chains
  BY DEF Next, vars, Register, PostStarts, PostAppends, MineStarts, MineSearches,
     MineFetches, MineRewards, MineHashes, MineTakes, MineResets,
     MineFetchesChain, ResolveStarts, ResolveRaises, ResolveAsks, FullChain,
     FullChainLength, Serialise, ResumeResolve, NotOK, RequestFails
<1> QED
  BY <1>2, <1>3, <1>4, <1>5

(* A chain taken over is valid, however its neighbour changed it meanwhile. *)
THEOREM ValidTakenOver == Spec => OnlyValidAdopted
<1>1. ThreadedInvariant /\ [Next]_vars =>
        [\A n \in Node : Len(chains'[n]) > Len(chains[n]) =>
           valid_chain(BlocksNow(n)')]_vars
  BY AdoptsValid
<1> QED
  BY <1>1, Invariance, PTL DEF Spec, OnlyValidAdopted

-----------------------------------------------------------------------------
(* Nothing twice at a sole miner *)

(* What the nodes have in their chains, those they mined, and those whose *)
(* blocks have been stamped, appended or not.                             *)
ChainsOf(n) == {chains[n][k] : k \in 1 .. Len(chains[n])}
EntriesOf(n) == UNION {{c[i] : i \in 1 .. Len(c)} : c \in ChainsOf(n)}
MinedOf(n) == {e \in EntriesOf(n) : e.list # 0}

Stamping == {"taken", "reset", "appending"}
InHand(n) == {thread[t].entry : t \in {u \in Local(n) : thread[u].pc \in Stamping}}
Stamped(n) == MinedOf(n) \cup InHand(n)

(* A block that rests on another one was mined and not made at the start. *)
IsMined(b) == b.previous_hash # << >>

(* The times of the blocks that have been mined and appended, and with each *)
(* the times of the blocks stamped with the same list of transactions.      *)
Times == UNION {{e.block.timestamp : e \in MinedOf(n)} : n \in Node}

TwinsAt(n, e) ==
  {<< e.block.timestamp, g.block.timestamp >> :
     g \in {h \in Stamped(n) : h.list = e.list}}
Twins == UNION {UNION {TwinsAt(n, e) : e \in MinedOf(n)} : n \in Node}

(* What is stamped at the time when comes after the block of the time ts, *)
(* and after all others that hold its list.                               *)
After(ts, when) == \A p \in Twins : p[1] = ts => p[2] < when

(* b is a copy of e, made when the list of transactions may have been shorter. *)
CopyOf(b, n, e) ==
  /\ b.timestamp = e.block.timestamp
  /\ b.previous_hash = e.block.previous_hash
  /\ \A p \in 1 .. Len(b.transactions) :
       /\ p \in 1 .. Len(lists[n][e.list])
       /\ b.transactions[p] = lists[n][e.list][p]

(* A block that came from another node. *)
Genuine(b) ==
  \/ b.previous_hash = << >> /\ b.transactions = << >>
  \/ \E n \in Node : \E e \in MinedOf(n) : CopyOf(b, n, e)

(* The digest names a first block, or one that has been appended. *)
Names(d) ==
  /\ d # << >>
  /\ Len(d) >= 2 => last_block(d).timestamp \in Times

(* As far as blocks are linked, each comes after those before it. *)
Linked(c, i, j) == \A k \in i + 1 .. j : c[k].previous_hash = hash(c[k - 1])

Ordered(c) ==
  \A j \in 1 .. Len(c) : \A i \in 1 .. j - 1 :
    Linked(c, i, j) /\ IsMined(c[i]) => After(c[i].timestamp, c[j].timestamp)

(* Blocks taken over come before those mined on top of them, in order. *)
TakenOver(c) ==
  \A j \in 1 .. Len(c) : c[j].list = 0 => \A i \in 1 .. j - 1 :
    /\ c[i].list = 0
    /\ IsMined(c[i].block) => After(c[i].block.timestamp, c[j].block.timestamp)

(* A block mined here is in a chain once, taken over or not. *)
StampedOnce(c) ==
  \A j \in 1 .. Len(c) : c[j].list # 0 => \A i \in 1 .. Len(c) :
    i # j /\ IsMined(c[i].block) => c[i].block.timestamp # c[j].block.timestamp

StampsInOrder ==
  /\ \A n \in Node : \A e \in Stamped(n) :
       /\ e.block.timestamp < clock
       /\ Names(e.block.previous_hash)
       /\ Len(e.block.previous_hash) >= 2 =>
            After(last_block(e.block.previous_hash).timestamp, e.block.timestamp)
  /\ \A t \in Thread : thread[t].pc \in Stamping =>
       /\ thread[t].entry.block.timestamp \notin Times
       /\ \A u \in Thread \ {t} : thread[u].pc \in Stamping =>
            thread[u].entry.block.timestamp # thread[t].entry.block.timestamp

ChainsInOrder ==
  \A n \in Node :
    /\ \A e \in EntriesOf(n) : /\ e.list < CurrentList(n)
                               /\ e.list = 0 => Genuine(e.block)
    /\ \A c \in ChainsOf(n) : TakenOver(c) /\ StampedOnce(c)
    /\ SoleMiner(n) => \A e, g \in Stamped(n) :
         e.list = g.list => e.block.timestamp = g.block.timestamp

WorkInOrder(n, work) ==
  /\ work.pc \in {"hashing", "found", "rewarding", "rewarded"} =>
       work.last \in EntriesOf(n)
  /\ work.pc = "hashed" => Names(work.entry.block.previous_hash)
  /\ \A i \in 1 .. Len(work.reply) : Genuine(work.reply[i])
  /\ \A i \in 1 .. Len(work.new_chain) : Genuine(work.new_chain[i])
  /\ Ordered(work.reply)
  /\ Ordered(work.new_chain)

(* The invariant: twins, blocks with the same list of one node, are stamped *)
(* before the first of them is appended, and so neither rests on the other. *)
TwinsApart ==
  /\ StampsInOrder
  /\ ChainsInOrder
  /\ \A t \in Thread : \A work \in {thread[t]} : WorkInOrder(Home[t], work)

(* Where tx is in the lists of all nodes, and who is about to put it there. *)
ListedAt(all, tx) ==
  UNION {UNION {{<< n, k, p >> : p \in PlacesIn(all[n][k], tx)} :
                  k \in 1 .. Len(all[n])} : n \in Node}

Posts(t, tx) == thread[t].pc = "posting" /\ thread[t].tx = tx

(* A transaction is posted once: it is in one hand or one place of one list. *)
PostedOnce ==
  /\ \A t \in Thread :
       IF thread[t].pc = "posting" THEN thread[t].tx \in posted
                                   ELSE thread[t].tx = Reward(Home[t])
  /\ \A tx \in UserTransaction \ Minted :
       /\ \A t, u \in Thread : Posts(t, tx) /\ Posts(u, tx) => t = u
       /\ AtMostOne(ListedAt(lists, tx))
       /\ ListedAt(lists, tx) # {} =>
            tx \in posted /\ \A t \in Thread : ~ Posts(t, tx)

-----------------------------------------------------------------------------
(* What stays true when lists and chains grow *)

(* Blocks stay mined, and one that is new to a list was not stamped before *)
(* the first of that list had been appended; lists keep what they have.    *)
Evolves ==
  \A n \in Node :
    /\ MinedOf(n) \subseteq MinedOf(n)'
    /\ \A e \in MinedOf(n)' : e \in MinedOf(n) \/ e.block.timestamp \notin Times
    /\ \A g \in Stamped(n)' :
         g \in Stamped(n) \/ \A e \in MinedOf(n) : e.list # g.list
    /\ \A k \in 1 .. Len(lists[n]) : \A p \in 1 .. Len(lists[n][k]) :
         p \in 1 .. Len(lists'[n][k]) /\ lists'[n][k][p] = lists[n][k][p]

LEMMA EntriesType ==
  ASSUME TypeOK, NEW n \in Node
  PROVE  /\ \A k \in 1 .. Len(chains[n]) : chains[n][k] \in ChainsOf(n)
         /\ \A c \in ChainsOf(n) :
              /\ c \in Seq(Entry) /\ Len(c) \in Nat
              /\ \A i \in 1 .. Len(c) : c[i] \in EntriesOf(n)
         /\ EntriesOf(n) \subseteq Entry
         /\ MinedOf(n) \subseteq Stamped(n)
         /\ Stamped(n) \subseteq Entry
<1>1. \A k \in 1 .. Len(chains[n]) : chains[n][k] \in Seq(Entry)
  BY NodeTypes
<1>2. \A c \in ChainsOf(n) : c \in Seq(Entry)
  BY <1>1 DEF ChainsOf
<1>3. \A c \in ChainsOf(n) : Len(c) \in Nat /\ \A i \in 1 .. Len(c) : c[i] \in Entry
  BY <1>2
<1>4. \A c \in ChainsOf(n) : \A i \in 1 .. Len(c) : c[i] \in EntriesOf(n)
  BY DEF EntriesOf
<1>5. EntriesOf(n) \subseteq Entry
  BY <1>3 DEF EntriesOf
<1>6. InHand(n) \subseteq Entry
  BY WorkFields DEF InHand, Local
<1>7. \A k \in 1 .. Len(chains[n]) : chains[n][k] \in ChainsOf(n)
  BY DEF ChainsOf
<1> QED
  BY <1>2, <1>3, <1>4, <1>5, <1>6, <1>7 DEF Stamped, MinedOf

(* What a mined block has to do with the two sets of times. *)
LEMMA MinedTimes ==
  ASSUME NEW n \in Node, NEW e \in MinedOf(n)
  PROVE  /\ e.block.timestamp \in Times
         /\ \A g \in Stamped(n) : g.list = e.list =>
              << e.block.timestamp, g.block.timestamp >> \in Twins
<1>1. e.block.timestamp \in Times
  BY DEF Times
<1>2. ASSUME NEW g \in Stamped(n), g.list = e.list
      PROVE  << e.block.timestamp, g.block.timestamp >> \in Twins
  <2>1. << e.block.timestamp, g.block.timestamp >> \in TwinsAt(n, e)
    BY <1>2 DEF TwinsAt
  <2>2. TwinsAt(n, e) \in {TwinsAt(n, f) : f \in MinedOf(n)}
    OBVIOUS
  <2> QED
    BY <2>1, <2>2 DEF Twins
<1> QED
  BY <1>1, <1>2

TwinsShare ==
  \A p \in Twins : \E n \in Node : \E e \in MinedOf(n), g \in Stamped(n) :
    g.list = e.list /\ p = << e.block.timestamp, g.block.timestamp >>

LEMMA TwinsAre == TwinsShare
<1> SUFFICES ASSUME NEW p \in Twins
             PROVE  \E n \in Node : \E e \in MinedOf(n), g \in Stamped(n) :
                      /\ g.list = e.list
                      /\ p = << e.block.timestamp, g.block.timestamp >>
  BY DEF TwinsShare
<1>1. PICK n \in Node : p \in UNION {TwinsAt(n, e) : e \in MinedOf(n)}
  BY DEF Twins
<1>2. PICK e \in MinedOf(n) : p \in TwinsAt(n, e)
  BY <1>1
<1> QED
  BY <1>2 DEF TwinsAt

LEMMA TimesStay ==
  ASSUME Evolves, NEW ts \in Times
  PROVE  ts \in Times'
<1>1. PICK n \in Node : \E e \in MinedOf(n) : ts = e.block.timestamp
  BY DEF Times
<1>2. PICK e \in MinedOf(n) : ts = e.block.timestamp
  BY <1>1
<1>3. e \in MinedOf(n)'
  BY DEF Evolves
<1>4. e.block.timestamp \in {f.block.timestamp : f \in MinedOf(n)'}
  BY <1>3
<1> QED
  BY <1>2, <1>4 DEF Times

LEMMA AfterStays ==
  ASSUME Evolves, NEW ts \in Times, NEW when, After(ts, when)
  PROVE  After(ts, when)'
<1> SUFFICES ASSUME NEW p \in Twins', p[1] = ts
             PROVE  p[2] < when
  BY DEF After
<1>1. TwinsShare'
  BY TwinsAre, PTL
<1>2. PICK n \in Node : \E e \in MinedOf(n)', g \in Stamped(n)' :
        g.list = e.list /\ p = << e.block.timestamp, g.block.timestamp >>
  BY <1>1 DEF TwinsShare
<1>3. PICK e \in MinedOf(n)', g \in Stamped(n)' :
        g.list = e.list /\ p = << e.block.timestamp, g.block.timestamp >>
  BY <1>2
<1>4. e \in MinedOf(n)
  <2>1. e.block.timestamp \in Times
    BY <1>3
  <2> QED
    BY <2>1 DEF Evolves
<1>5. g \in Stamped(n)
  BY <1>3, <1>4 DEF Evolves
<1>6. << e.block.timestamp, g.block.timestamp >> \in Twins
  BY <1>3, <1>4, <1>5, MinedTimes
<1> QED
  BY <1>3, <1>6 DEF After

LEMMA GenuineTimes ==
  ASSUME NEW b, Genuine(b), IsMined(b)
  PROVE  b.timestamp \in Times
<1>1. PICK n \in Node : \E e \in MinedOf(n) : CopyOf(b, n, e)
  BY DEF Genuine, IsMined
<1>2. PICK e \in MinedOf(n) : CopyOf(b, n, e)
  BY <1>1
<1> QED
  BY <1>2, MinedTimes DEF CopyOf

LEMMA ListsNamed ==
  ASSUME TypeOK, ChainsInOrder, NEW n \in Node, NEW e \in MinedOf(n)
  PROVE  e.list \in 1 .. CurrentList(n) /\ e.list < CurrentList(n)
<1>1. e \in EntriesOf(n) /\ e.list # 0
  BY DEF MinedOf
<1>2. e.list \in Nat
  BY <1>1, EntriesType, EntryFields
<1>3. e.list < CurrentList(n) /\ CurrentList(n) \in Nat
  BY <1>1, NodeTypes DEF ChainsInOrder
<1> QED
  BY <1>1, <1>2, <1>3

LEMMA GenuineStays ==
  ASSUME TypeOK, ChainsInOrder, Evolves, NEW b, Genuine(b)
  PROVE  Genuine(b)'
<1>1. CASE b.previous_hash = << >> /\ b.transactions = << >>
  BY <1>1 DEF Genuine
<1>2. CASE \E n \in Node : \E e \in MinedOf(n) : CopyOf(b, n, e)
  <2>1. PICK n \in Node : \E e \in MinedOf(n) : CopyOf(b, n, e)
    BY <1>2
  <2>2. PICK e \in MinedOf(n) : CopyOf(b, n, e)
    BY <2>1
  <2>3. e \in MinedOf(n)'
    BY DEF Evolves
  <2>4. e.list \in 1 .. Len(lists[n])
    BY ListsNamed DEF CurrentList
  <2>5. \A p \in 1 .. Len(lists[n][e.list]) :
          /\ p \in 1 .. Len(lists'[n][e.list])
          /\ lists'[n][e.list][p] = lists[n][e.list][p]
    BY <2>4 DEF Evolves
  <2>6. CopyOf(b, n, e)'
    BY <2>2, <2>5 DEF CopyOf
  <2> QED
    BY <2>3, <2>6 DEF Genuine
<1> QED
  BY <1>1, <1>2 DEF Genuine

LEMMA NamesKept ==
  ASSUME Evolves, NEW d, Names(d)
  PROVE  Names(d)'
<1> DEFINE ts == last_block(d).timestamp
<1>1. d # << >> /\ (Len(d) >= 2 => ts \in Times)
  BY DEF Names
<1> HIDE DEF ts
<1>2. Len(d) >= 2 => ts \in Times'
  BY <1>1, TimesStay
<1> QED
  BY <1>1, <1>2 DEF Names, ts

LEMMA OrderedStays ==
  ASSUME Evolves, NEW c, Ordered(c), \A i \in 1 .. Len(c) : Genuine(c[i]),
         Len(c) \in Nat
  PROVE  Ordered(c)'
<1> SUFFICES ASSUME NEW j \in 1 .. Len(c), NEW i \in 1 .. j - 1,
                    Linked(c, i, j), IsMined(c[i])
             PROVE  After(c[i].timestamp, c[j].timestamp)'
  BY DEF Ordered
<1> DEFINE a == c[i].timestamp
           b == c[j].timestamp
<1>1. After(a, b)
  BY DEF Ordered
<1>2. a \in Times
  BY GenuineTimes
<1> HIDE DEF a, b
<1>3. After(a, b)'
  BY <1>1, <1>2, AfterStays
<1> QED
  BY <1>3 DEF a, b

LEMMA TakenOverStays ==
  ASSUME Evolves, NEW c, TakenOver(c), Len(c) \in Nat,
         \A i \in 1 .. Len(c) : c[i].list = 0 => Genuine(c[i].block)
  PROVE  TakenOver(c)'
<1> SUFFICES ASSUME NEW j \in 1 .. Len(c), c[j].list = 0, NEW i \in 1 .. j - 1
             PROVE  /\ c[i].list = 0
                    /\ IsMined(c[i].block) =>
                         After(c[i].block.timestamp, c[j].block.timestamp)'
  BY DEF TakenOver
<1> DEFINE a == c[i].block.timestamp
           b == c[j].block.timestamp
<1>1. c[i].list = 0 /\ (IsMined(c[i].block) => After(a, b))
  BY DEF TakenOver
<1>2. IsMined(c[i].block) => a \in Times
  BY <1>1, GenuineTimes
<1> HIDE DEF a, b
<1>3. IsMined(c[i].block) => After(a, b)'
  BY <1>1, <1>2, AfterStays
<1> QED
  BY <1>1, <1>3 DEF a, b

LEMMA WorkStays ==
  ASSUME TypeOK, ChainsInOrder, Evolves, NEW n \in Node, NEW work \in Work,
         WorkInOrder(n, work), EntriesOf(n) \subseteq EntriesOf(n)'
  PROVE  WorkInOrder(n, work)'
<1>1. work.pc \in {"hashing", "found", "rewarding", "rewarded"} =>
        work.last \in EntriesOf(n)'
  BY DEF WorkInOrder
<1>2. work.pc = "hashed" => Names(work.entry.block.previous_hash)'
  BY NamesKept DEF WorkInOrder
<1>3. ASSUME NEW c, \A i \in 1 .. Len(c) : Genuine(c[i])
      PROVE  \A i \in 1 .. Len(c) : Genuine(c[i])'
  BY <1>3, GenuineStays
<1>4. ASSUME NEW c \in Seq(Block), Ordered(c), \A i \in 1 .. Len(c) : Genuine(c[i])
      PROVE  Ordered(c)'
  BY <1>4, OrderedStays
<1>5. work.reply \in Seq(Block) /\ work.new_chain \in Seq(Block)
  BY DEF Work
<1>6. /\ \A i \in 1 .. Len(work.reply) : Genuine(work.reply[i])'
      /\ \A i \in 1 .. Len(work.new_chain) : Genuine(work.new_chain[i])'
  BY <1>3 DEF WorkInOrder
<1>7. Ordered(work.reply)' /\ Ordered(work.new_chain)'
  BY <1>4, <1>5 DEF WorkInOrder
<1> QED
  BY <1>1, <1>2, <1>6, <1>7 DEF WorkInOrder

(* The work of a thread stays in order, and so does work a thread begins. *)
LEMMA WorksStay ==
  ASSUME TypeOK, TypeOK', TwinsApart, Evolves,
         \A u \in Thread : \A w \in {thread'[u]} : WorkInOrder(Home[u], w),
         \A n \in Node : EntriesOf(n) \subseteq EntriesOf(n)'
  PROVE  \A u \in Thread : \A w \in {thread'[u]} : WorkInOrder(Home[u], w)'
<1> SUFFICES ASSUME NEW u \in Thread, NEW w, w = thread'[u]
             PROVE  WorkInOrder(Home[u], w)'
  OBVIOUS
<1> DEFINE h == Home[u]
<1>1. h \in Node
  BY ThreadedAssumption
<1>2. w \in Work
  BY DEF TypeOK
<1>3. WorkInOrder(h, w)
  OBVIOUS
<1> HIDE DEF h
<1>4. WorkInOrder(h, w)'
  BY <1>1, <1>2, <1>3, WorkStays DEF TwinsApart
<1> QED
  BY <1>4 DEF h

LEMMA WorkOf ==
  ASSUME TypeOK, TwinsApart, NEW t \in Thread, NEW work \in Work,
         Goes(t, work), WorkInOrder(Home[t], work)
  PROVE  \A u \in Thread : \A w \in {thread'[u]} : WorkInOrder(Home[u], w)
BY GoesOn DEF TwinsApart

(* No block is stamped. *)
LEMMA StampsStay ==
  ASSUME TwinsApart, Evolves, UNCHANGED clock,
         \A n \in Node : Stamped(n)' = Stamped(n),
         \A u \in Thread : thread'[u].pc \in Stamping =>
           /\ thread[u].pc \in Stamping
           /\ thread'[u].entry = thread[u].entry
           /\ thread[u].entry.block.timestamp \notin Times'
  PROVE  StampsInOrder'
<1>1. ASSUME NEW n \in Node, NEW e \in Stamped(n)
      PROVE  /\ e.block.timestamp < clock'
             /\ Names(e.block.previous_hash)'
             /\ Len(e.block.previous_hash) >= 2 =>
                  After(last_block(e.block.previous_hash).timestamp,
                        e.block.timestamp)'
  <2> DEFINE d == e.block.previous_hash
             ts == last_block(d).timestamp
             when == e.block.timestamp
  <2>1. /\ when < clock /\ Names(d)
        /\ Len(d) >= 2 => ts \in Times /\ After(ts, when)
    BY DEF TwinsApart, StampsInOrder, Names
  <2> HIDE DEF ts, d, when
  <2>2. Names(d)'
    BY <2>1, NamesKept
  <2>3. Len(d) >= 2 => After(ts, when)'
    BY <2>1, AfterStays
  <2> QED
    BY <2>1, <2>2, <2>3 DEF ts, d, when
<1>2. ASSUME NEW u \in Thread, thread'[u].pc \in Stamping
      PROVE  /\ thread'[u].entry.block.timestamp \notin Times'
             /\ \A v \in Thread \ {u} : thread'[v].pc \in Stamping =>
                  thread'[v].entry.block.timestamp
                    # thread'[u].entry.block.timestamp
  BY <1>2 DEF TwinsApart, StampsInOrder
<1>3. \A n \in Node : \A e \in Stamped(n)' : e \in Stamped(n)
  OBVIOUS
<1> QED
  BY <1>1, <1>2, <1>3 DEF StampsInOrder

(* What is new in the chains is in order. *)
LEMMA ChainsStay ==
  ASSUME TypeOK, TypeOK', TwinsApart, Evolves,
         \A n \in Node : CurrentList(n)' >= CurrentList(n),
         \A n \in Node : \A e \in EntriesOf(n)' :
           \/ e \in EntriesOf(n)
           \/ e.list < CurrentList(n)' /\ (e.list = 0 => Genuine(e.block)'),
         \A n \in Node : \A c \in ChainsOf(n)' :
           \/ c \in ChainsOf(n)
           \/ TakenOver(c)' /\ StampedOnce(c),
         \A n \in Node : SoleMiner(n)' => \A e, g \in Stamped(n)' :
           e.list = g.list => e.block.timestamp = g.block.timestamp
  PROVE  ChainsInOrder'
<1>1. ASSUME NEW n \in Node, NEW e \in EntriesOf(n)
      PROVE  e.list < CurrentList(n)' /\ (e.list = 0 => Genuine(e.block)')
  <2>1. e.list < CurrentList(n) /\ (e.list = 0 => Genuine(e.block))
    BY DEF TwinsApart, ChainsInOrder
  <2>2. e.list \in Nat /\ CurrentList(n) \in Nat /\ CurrentList(n)' \in Nat
    <3>1. CurrentList(n)' \in Nat
      BY DEF TypeOK, CurrentList
    <3> QED
      BY <3>1, EntriesType, EntryFields, NodeTypes
  <2>3. CurrentList(n)' >= CurrentList(n)
    OBVIOUS
  <2>4. e.list = 0 => Genuine(e.block)'
    BY <2>1, GenuineStays DEF TwinsApart
  <2> QED
    BY <2>1, <2>2, <2>3, <2>4
<1>2. ASSUME NEW n \in Node, NEW c \in ChainsOf(n)
      PROVE  TakenOver(c)' /\ StampedOnce(c)
  <2>1. TakenOver(c) /\ StampedOnce(c)
    BY DEF TwinsApart, ChainsInOrder
  <2>2. Len(c) \in Nat /\ \A i \in 1 .. Len(c) : c[i].list = 0 => Genuine(c[i].block)
    BY EntriesType DEF TwinsApart, ChainsInOrder
  <2>3. TakenOver(c)'
    BY <2>1, <2>2, TakenOverStays
  <2> QED
    BY <2>1, <2>3
<1>3. \A n \in Node : \A e \in EntriesOf(n)' :
        e.list < CurrentList(n)' /\ (e.list = 0 => Genuine(e.block)')
  BY <1>1
<1>4. \A n \in Node : \A c \in ChainsOf(n)' : TakenOver(c)' /\ StampedOnce(c)'
  <2>1. \A c : StampedOnce(c)' <=> StampedOnce(c)
    BY DEF StampedOnce
  <2> QED
    BY <1>2, <2>1
<1> QED
  BY <1>3, <1>4 DEF ChainsInOrder

ListsGrow ==
  \A n \in Node :
    /\ CurrentList(n)' >= CurrentList(n)
    /\ \A k \in 1 .. Len(lists[n]) : \A p \in 1 .. Len(lists[n][k]) :
         p \in 1 .. Len(lists'[n][k]) /\ lists'[n][k][p] = lists[n][k][p]

SameStamps ==
  \A u \in Thread :
    /\ thread'[u].pc \in Stamping <=> thread[u].pc \in Stamping
    /\ thread[u].pc \in Stamping => thread'[u].entry = thread[u].entry

LEMMA StampedStays ==
  ASSUME \A n \in Node : MinedOf(n)' = MinedOf(n), SameStamps
  PROVE  Times' = Times /\ \A n \in Node : Stamped(n)' = Stamped(n)
<1>1. Times' = Times
  <2>1. \A n \in Node : {e.block.timestamp : e \in MinedOf(n)'} =
                        {e.block.timestamp : e \in MinedOf(n)}
    OBVIOUS
  <2> QED
    BY <2>1 DEF Times
<1>2. ASSUME NEW n \in Node PROVE InHand(n)' = InHand(n)
  <2>1. {u \in Local(n) : thread'[u].pc \in Stamping} =
        {u \in Local(n) : thread[u].pc \in Stamping}
    BY DEF Local, SameStamps
  <2>2. \A u \in {v \in Local(n) : thread[v].pc \in Stamping} :
          thread'[u].entry = thread[u].entry
    BY DEF Local, SameStamps
  <2> QED
    BY <2>1, <2>2 DEF InHand
<1> QED
  BY <1>1, <1>2 DEF Stamped

(* A step that stamps no block and changes no chain. *)
LEMMA NothingStamped ==
  ASSUME ThreadedInvariant, ThreadedInvariant', TwinsApart,
         UNCHANGED << chains, clock >>, ListsGrow, SameStamps,
         \A n \in Node : overlapped[n] \subseteq overlapped'[n],
         \A u \in Thread : \A w \in {thread'[u]} : WorkInOrder(Home[u], w)
  PROVE  TwinsApart'
<1>1. TypeOK /\ TypeOK'
  BY DEF ThreadedInvariant
<1>2. \A n \in Node : /\ ChainsOf(n)' = ChainsOf(n)
                      /\ EntriesOf(n)' = EntriesOf(n)
                      /\ MinedOf(n)' = MinedOf(n)
  BY DEF ChainsOf, EntriesOf, MinedOf
<1>3. Times' = Times /\ \A n \in Node : Stamped(n)' = Stamped(n)
  BY <1>2, StampedStays
<1>4. Evolves
  BY <1>2, <1>3 DEF Evolves, ListsGrow
<1>5. StampsInOrder'
  BY <1>3, <1>4, StampsStay DEF SameStamps, TwinsApart, StampsInOrder
<1>6. ChainsInOrder'
  <2>1. \A n \in Node : SoleMiner(n)' => \A e, g \in Stamped(n)' :
          e.list = g.list => e.block.timestamp = g.block.timestamp
    BY <1>3 DEF SoleMiner, TwinsApart, ChainsInOrder
  <2> QED
    BY <1>1, <1>2, <1>4, <2>1, ChainsStay DEF ListsGrow
<1>7. \A u \in Thread : \A w \in {thread'[u]} : WorkInOrder(Home[u], w)'
  BY <1>1, <1>2, <1>4, WorksStay
<1> QED
  BY <1>5, <1>6, <1>7 DEF TwinsApart

LEMMA QuietTwins ==
  ASSUME ThreadedInvariant, ThreadedInvariant', TwinsApart,
         NEW t \in Thread, NEW work \in Work,
         Goes(t, work), UNCHANGED << chains, clock >>,
         \A n \in Node : overlapped[n] \subseteq overlapped'[n],
         ListsGrow,
         \/ thread[t].pc \notin Stamping /\ work.pc \notin Stamping
         \/ /\ thread[t].pc \in Stamping /\ work.pc \in Stamping
            /\ work.entry = thread[t].entry,
         WorkInOrder(Home[t], work)
  PROVE  TwinsApart'
<1>1. TypeOK
  BY DEF ThreadedInvariant
<1>2. SameStamps
  BY <1>1, GoesOn DEF SameStamps
<1> QED
  BY <1>1, <1>2, WorkOf, NothingStamped

-----------------------------------------------------------------------------
(* The steps that stamp no block and change no chain *)

LEMMA GoesWhere ==
  ASSUME ThreadedInvariant, ThreadedInvariant', NEW t \in Thread, NEW work,
         Goes(t, work)
  PROVE  work \in Work
<1>1. thread \in [Thread -> Work] /\ thread' \in [Thread -> Work]
  BY DEF ThreadedInvariant, TypeOK
<1>2. thread'[t] = work
  BY <1>1 DEF Goes
<1> QED
  BY <1>1, <1>2

LEMMA SameLists ==
  ASSUME ThreadedInvariant, UNCHANGED lists
  PROVE  ListsGrow
<1>1. \A n \in Node : CurrentList(n) \in Nat /\ CurrentList(n)' = CurrentList(n)
  BY NodeTypes DEF ThreadedInvariant, CurrentList
<1> QED
  BY <1>1 DEF ListsGrow

(* Nothing received, nothing read. *)
LEMMA NothingInOrder ==
  ASSUME NEW n, NEW work, work.reply = << >>, work.new_chain = << >>,
         work.pc \notin {"hashing", "found", "rewarding", "rewarded", "hashed"}
  PROVE  WorkInOrder(n, work)
BY DEF WorkInOrder, Ordered

LEMMA IdleTwins ==
  ASSUME ThreadedInvariant, ThreadedInvariant', TwinsApart, NEW t \in Thread,
         Goes(t, Idle(t)), UNCHANGED << chains, clock, overlapped >>, ListsGrow,
         thread[t].pc \notin Stamping
  PROVE  TwinsApart'
<1> DEFINE work == Idle(t)
<1>1. work.reply = << >> /\ work.new_chain = << >> /\ work.pc = "idle"
  BY DEF Idle
<1>2. work \in Work /\ Goes(t, work)
  BY GoesWhere
<1> HIDE DEF work
<1>3. WorkInOrder(Home[t], work) /\ work.pc \notin Stamping
  BY <1>1, NothingInOrder DEF Stamping
<1> QED
  BY <1>2, <1>3, QuietTwins

Reading == {"hashing", "found", "rewarding", "rewarded"}

LEMMA MovesTwins ==
  ASSUME ThreadedInvariant, ThreadedInvariant', TwinsApart, NEW t \in Thread,
         NEW work, Goes(t, work), ListsGrow,
         UNCHANGED << chains, clock, overlapped >>,
         work.reply = thread[t].reply, work.new_chain = thread[t].new_chain,
         \/ thread[t].pc \notin Stamping /\ work.pc \notin Stamping
         \/ /\ thread[t].pc \in Stamping /\ work.pc \in Stamping
            /\ work.entry = thread[t].entry,
         work.pc \in Reading =>
           thread[t].pc \in Reading /\ work.last = thread[t].last,
         work.pc = "hashed" => Names(work.entry.block.previous_hash)
  PROVE  TwinsApart'
<1>1. work \in Work
  BY GoesWhere
<1>2. WorkInOrder(Home[t], thread[t])
  BY DEF TwinsApart
<1>3. WorkInOrder(Home[t], work)
  BY <1>2 DEF WorkInOrder, Reading
<1> QED
  BY <1>1, <1>3, QuietTwins

LEMMA ResolveMovesTwins ==
  ASSUME ThreadedInvariant, ThreadedInvariant', TwinsApart, NEW t \in Thread,
         \/ ResolveAsks(t)
         \/ FullChain(t)
         \/ FullChainLength(t)
         \/ NotOK(t)
  PROVE  TwinsApart'
<1>1. thread[t] \in Work /\ ListsGrow
  <2>1. UNCHANGED lists
    BY DEF ResolveAsks, FullChain, FullChainLength, NotOK
  <2> QED
    BY <2>1, WorkFields, SameLists DEF ThreadedInvariant
<1>2. UNCHANGED << chains, clock, overlapped >>
  BY DEF ResolveAsks, FullChain, FullChainLength, NotOK
<1>3. thread[t].pc \notin Stamping
  BY DEF ResolveAsks, FullChain, FullChainLength, NotOK, Stamping
<1>4. CASE ResolveAsks(t)
  <2>1. PICK peer \in thread[t].left :
          Goes(t, [thread[t] EXCEPT !.pc = "asking", !.peer = peer,
                                    !.left = @ \ {peer}])
    BY <1>4 DEF ResolveAsks
  <2> DEFINE work == [thread[t] EXCEPT !.pc = "asking", !.peer = peer,
                                       !.left = @ \ {peer}]
  <2>2. /\ work.pc = "asking" /\ work.reply = thread[t].reply
        /\ work.new_chain = thread[t].new_chain
    BY <1>1 DEF Work
  <2>3. Goes(t, work)
    BY <2>1
  <2> HIDE DEF work
  <2> QED
    BY <1>1, <1>2, <1>3, <2>2, <2>3, MovesTwins DEF Stamping, Reading
<1>5. CASE FullChain(t)
  <2> DEFINE work == [thread[t] EXCEPT !.pc = "serving",
                                       !.chain = Len(chains[thread[t].peer])]
  <2>1. /\ work.pc = "serving" /\ work.reply = thread[t].reply
        /\ work.new_chain = thread[t].new_chain
    BY <1>1 DEF Work
  <2>2. Goes(t, work)
    BY <1>5 DEF FullChain
  <2> HIDE DEF work
  <2> QED
    BY <1>1, <1>2, <1>3, <2>1, <2>2, MovesTwins DEF Stamping, Reading
<1>6. CASE FullChainLength(t)
  <2> DEFINE length == Len(CurrentChain(thread[t].peer))
             work == [thread[t] EXCEPT !.pc = "serialising", !.length = length]
  <2>1. /\ work.pc = "serialising" /\ work.reply = thread[t].reply
        /\ work.new_chain = thread[t].new_chain
    BY <1>1 DEF Work
  <2>2. Goes(t, work)
    BY <1>6 DEF FullChainLength
  <2> HIDE DEF work
  <2> QED
    BY <1>1, <1>2, <1>3, <2>1, <2>2, MovesTwins DEF Stamping, Reading
<1>7. CASE NotOK(t)
  <2> DEFINE work == [thread[t] EXCEPT !.pc = "looping"]
  <2>1. /\ work.pc = "looping" /\ work.reply = thread[t].reply
        /\ work.new_chain = thread[t].new_chain
    BY <1>1 DEF Work
  <2>2. Goes(t, work)
    BY <1>7 DEF NotOK
  <2> HIDE DEF work
  <2> QED
    BY <1>1, <1>2, <1>3, <2>1, <2>2, MovesTwins DEF Stamping, Reading
<1> QED
  BY <1>4, <1>5, <1>6, <1>7

LEMMA ResolveStartsTwins ==
  ASSUME ThreadedInvariant, ThreadedInvariant', TwinsApart, NEW t \in Thread,
         ResolveStarts(t)
  PROVE  TwinsApart'
<1> DEFINE known == nodes[Home[t]]
           length == Len(CurrentChain(Home[t]))
           work == [Idle(t) EXCEPT !.pc = "looping", !.left = known,
                                   !.known = known, !.max_length = length]
<1>1. /\ thread[t].pc = "idle" /\ Goes(t, work) /\ Enters(t, "looping")
      /\ UNCHANGED << chains, lists, clock >>
  BY DEF ResolveStarts, Accepts
<1>2. work.reply = << >> /\ work.new_chain = << >> /\ work.pc = "looping"
  BY DEF Idle
<1> HIDE DEF work
<1>3. WorkInOrder(Home[t], work) /\ work.pc \notin Stamping
  BY <1>2, NothingInOrder DEF Stamping
<1>4. \A n \in Node : overlapped[n] \subseteq overlapped'[n]
  BY <1>1, EnteredApart DEF Apart, ThreadedInvariant
<1> QED
  BY <1>1, <1>3, <1>4, GoesWhere, SameLists, QuietTwins DEF Stamping

LEMMA ResolveGivesUpTwins ==
  ASSUME ThreadedInvariant, ThreadedInvariant', TwinsApart, NEW t \in Thread,
         ResolveRaises(t) \/ RequestFails(t)
  PROVE  TwinsApart'
<1>1. /\ Goes(t, Idle(t)) /\ UNCHANGED << chains, lists, clock, overlapped >>
      /\ thread[t].pc \notin Stamping
  BY DEF ResolveRaises, RequestFails, Stamping
<1> QED
  BY <1>1, SameLists, IdleTwins

LEMMA PostStartsTwins ==
  ASSUME ThreadedInvariant, ThreadedInvariant', TwinsApart, NEW t \in Thread,
         NEW tx \in UserTransaction, PostStarts(t, tx)
  PROVE  TwinsApart'
<1> DEFINE list == CurrentList(Home[t])
           work == [Idle(t) EXCEPT !.pc = "posting", !.tx = tx, !.list = list]
<1>1. /\ thread[t].pc = "idle" /\ Goes(t, work) /\ Enters(t, "posting")
      /\ UNCHANGED << chains, lists, clock >>
  BY DEF PostStarts, Accepts
<1>2. work.reply = << >> /\ work.new_chain = << >> /\ work.pc = "posting"
  BY DEF Idle
<1> HIDE DEF work
<1>3. WorkInOrder(Home[t], work) /\ work.pc \notin Stamping
  BY <1>2, NothingInOrder DEF Stamping
<1>4. \A n \in Node : overlapped[n] \subseteq overlapped'[n]
  BY <1>1, EnteredApart DEF Apart, ThreadedInvariant
<1> QED
  BY <1>1, <1>3, <1>4, GoesWhere, SameLists, QuietTwins DEF Stamping

LEMMA MineStartsTwins ==
  ASSUME ThreadedInvariant, ThreadedInvariant', TwinsApart, NEW t \in Thread,
         MineStarts(t)
  PROVE  TwinsApart'
<1> DEFINE n == Home[t]
           last == last_block(CurrentChain(n))
           work == [Idle(t) EXCEPT !.pc = "hashing", !.last = last]
<1>1. /\ thread[t].pc = "idle" /\ Goes(t, work) /\ Enters(t, "hashing")
      /\ UNCHANGED << chains, lists, clock >>
  BY DEF MineStarts, Accepts
<1>2. /\ work.reply = << >> /\ work.new_chain = << >> /\ work.pc = "hashing"
      /\ work.last = last
  BY DEF Idle
<1>3. last \in EntriesOf(n)
  <2>1. TypeOK /\ n \in Node /\ NodeNames(n)
    BY Start
  <2>2. /\ CurrentChain(n) = chains[n][Len(chains[n])]
        /\ Len(chains[n]) \in 1 .. Len(chains[n])
        /\ Len(CurrentChain(n)) \in Nat /\ Len(CurrentChain(n)) >= 1
    BY <2>1, CurrentChainType
  <2>3. CurrentChain(n) \in ChainsOf(n)
    BY <2>2 DEF ChainsOf
  <2> QED
    BY <2>1, <2>2, <2>3, EntriesType DEF last_block
<1> HIDE DEF work, last
<1>4. WorkInOrder(n, work) /\ work.pc \notin Stamping
  BY <1>2, <1>3 DEF WorkInOrder, Ordered, Stamping
<1>5. \A m \in Node : overlapped[m] \subseteq overlapped'[m]
  BY <1>1, EnteredApart DEF Apart, ThreadedInvariant
<1> QED
  BY <1>1, <1>4, <1>5, GoesWhere, SameLists, QuietTwins DEF Stamping

LEMMA MineSearchesTwins ==
  ASSUME ThreadedInvariant, ThreadedInvariant', TwinsApart, NEW t \in Thread,
         MineSearches(t)
  PROVE  TwinsApart'
<1>1. PICK proof \in 0 .. MaxProof :
        Goes(t, [thread[t] EXCEPT !.pc = "found", !.entry.block.proof = proof])
  BY DEF MineSearches
<1> DEFINE entry == [thread[t].entry EXCEPT !.block.proof = proof]
           work == [thread[t] EXCEPT !.pc = "found", !.entry = entry]
<1>2. thread[t] \in Work
  BY WorkFields DEF ThreadedInvariant
<1>3. Goes(t, work)
  BY <1>1, <1>2 DEF Work
<1>4. /\ work.pc = "found" /\ work.reply = thread[t].reply
      /\ work.new_chain = thread[t].new_chain /\ work.last = thread[t].last
  BY <1>2 DEF Work
<1>5. /\ thread[t].pc = "hashing"
      /\ UNCHANGED << chains, lists, clock, overlapped >>
  BY DEF MineSearches
<1> HIDE DEF work
<1> QED
  BY <1>3, <1>4, <1>5, SameLists, MovesTwins DEF Stamping, Reading

(* The steps of a mine that read a name. *)
LEMMA MineFetchesTwins ==
  ASSUME ThreadedInvariant, ThreadedInvariant', TwinsApart, NEW t \in Thread,
         MineFetches(t) \/ MineFetchesChain(t)
  PROVE  TwinsApart'
<1>1. thread[t] \in Work
  BY WorkFields DEF ThreadedInvariant
<1>2. CASE MineFetches(t)
  <2> DEFINE list == CurrentList(Home[t])
             work == [thread[t] EXCEPT !.pc = "rewarding", !.list = list]
  <2>1. /\ thread[t].pc = "found" /\ Goes(t, work)
        /\ UNCHANGED << chains, lists, clock, overlapped >>
    BY <1>2 DEF MineFetches, FetchList
  <2>2. /\ work.pc = "rewarding" /\ work.reply = thread[t].reply
        /\ work.new_chain = thread[t].new_chain /\ work.last = thread[t].last
    BY <1>1 DEF Work
  <2> HIDE DEF work
  <2> QED
    BY <2>1, <2>2, SameLists, MovesTwins DEF Stamping, Reading
<1>3. CASE MineFetchesChain(t)
  <2> DEFINE chain == Len(chains[Home[t]])
             work == [thread[t] EXCEPT !.pc = "appending", !.chain = chain]
  <2>1. /\ thread[t].pc = "reset" /\ Goes(t, work)
        /\ UNCHANGED << chains, lists, clock, overlapped >>
    BY <1>3 DEF MineFetchesChain
  <2>2. /\ work.pc = "appending" /\ work.reply = thread[t].reply
        /\ work.new_chain = thread[t].new_chain /\ work.entry = thread[t].entry
    BY <1>1 DEF Work
  <2> HIDE DEF work
  <2> QED
    BY <2>1, <2>2, SameLists, MovesTwins DEF Stamping, Reading
<1> QED
  BY <1>2, <1>3

(* The digest a mine makes names a block of a chain. *)
LEMMA HashNames ==
  ASSUME TypeOK, TwinsApart, NEW n \in Node, NEW e \in EntriesOf(n),
         Now(n, e) \in Block
  PROVE  Names(hash(Now(n, e)))
<1> DEFINE b == Now(n, e)
           d == hash(b)
<1>1. /\ b.timestamp = e.block.timestamp
      /\ b.previous_hash = e.block.previous_hash
  BY EntriesType, EntryFields DEF Now, Block
<1>2. b.previous_hash \in Seq(Content)
  BY DEF Block, Digest
<1>3. /\ d = Append(b.previous_hash, ContentOf(b))
      /\ ContentOf(b).timestamp = e.block.timestamp
  BY <1>1 DEF hash, ContentOf
<1>4. IsMined(b) => e.block.timestamp \in Times
  <2>1. CASE e.list = 0
    <3>1. Genuine(e.block)
      BY <2>1 DEF TwinsApart, ChainsInOrder
    <3> QED
      BY <1>1, <3>1, GenuineTimes DEF IsMined
  <2>2. CASE e.list # 0
    BY <2>2, MinedTimes DEF MinedOf
  <2> QED
    BY <2>1, <2>2
<1> HIDE DEF b, d
<1>5. /\ Len(d) = Len(b.previous_hash) + 1 /\ d # << >>
      /\ d[Len(d)] = ContentOf(b)
      /\ Len(b.previous_hash) \in Nat
  <2> DEFINE c == ContentOf(b)
  <2>1. b.previous_hash \in Seq(Content) /\ d = Append(b.previous_hash, c)
    BY <1>2, <1>3
  <2> HIDE DEF c
  <2>2. Len(b.previous_hash) \in Nat
    BY <2>1
  <2> QED
    BY <2>1, <2>2 DEF c
<1>6. Len(d) >= 2 => IsMined(b)
  BY <1>5 DEF IsMined
<1>7. Names(d)
  BY <1>3, <1>4, <1>5, <1>6 DEF Names, last_block
<1> QED
  BY <1>7 DEF b, d

LEMMA MineHashesTwins ==
  ASSUME ThreadedInvariant, ThreadedInvariant', TwinsApart, NEW t \in Thread,
         MineHashes(t)
  PROVE  TwinsApart'
<1> DEFINE n == Home[t]
           d == hash(Now(n, thread[t].last))
           work == [thread[t] EXCEPT !.pc = "hashed",
                                     !.entry.block.previous_hash = d]
<1>1. /\ TypeOK /\ n \in Node /\ ThreadNames(t) /\ thread[t] \in Work
      /\ thread[t].last \in Entry /\ thread[t].entry \in Entry
  BY Start, WorkFields
<1>2. /\ thread[t].pc = "rewarded" /\ Goes(t, work)
      /\ UNCHANGED << chains, lists, clock, overlapped >>
  BY DEF MineHashes
<1>3. thread[t].last \in EntriesOf(n)
  BY <1>2 DEF TwinsApart, WorkInOrder
<1>4. Now(n, thread[t].last) \in Block
  BY <1>1, NowType DEF ThreadNames
<1>5. Names(d)
  BY <1>1, <1>3, <1>4, HashNames
<1> HIDE DEF d
<1>6. /\ work.pc = "hashed" /\ work.reply = thread[t].reply
      /\ work.new_chain = thread[t].new_chain
      /\ work.entry.block.previous_hash = d
  BY <1>1 DEF Work, Entry, Block
<1> HIDE DEF work
<1> QED
  BY <1>2, <1>5, <1>6, SameLists, MovesTwins DEF Stamping, Reading

LEMMA MineResetsTwins ==
  ASSUME ThreadedInvariant, ThreadedInvariant', TwinsApart, NEW t \in Thread,
         MineResets(t)
  PROVE  TwinsApart'
<1> DEFINE n == Home[t]
           work == [thread[t] EXCEPT !.pc = "reset"]
<1>1. TypeOK /\ n \in Node /\ thread[t] \in Work /\ CurrentList(n) \in Nat
  BY Start, WorkFields
<1>2. /\ thread[t].pc = "taken" /\ Goes(t, work)
      /\ lists' = [lists EXCEPT ![n] = Append(@, << >>)]
      /\ UNCHANGED << chains, clock, overlapped >>
  BY DEF MineResets
<1>3. /\ \A m \in Node : m # n => lists'[m] = lists[m]
      /\ CurrentList(n)' = CurrentList(n) + 1
      /\ \A k \in 1 .. CurrentList(n) : lists'[n][k] = lists[n][k]
  BY <1>1, <1>2, ResetDoes
<1>4. ListsGrow
  <2> SUFFICES ASSUME NEW m \in Node
               PROVE  /\ CurrentList(m)' >= CurrentList(m)
                      /\ \A k \in 1 .. Len(lists[m]) :
                           lists'[m][k] = lists[m][k]
    BY DEF ListsGrow
  <2>1. CASE m = n
    BY <1>1, <1>3, <2>1 DEF CurrentList
  <2>2. CASE m # n
    <3>1. CurrentList(m) \in Nat
      BY <1>1, NodeTypes
    <3> QED
      BY <1>3, <2>2, <3>1 DEF CurrentList
  <2> QED
    BY <2>1, <2>2
<1>5. /\ work.pc = "reset" /\ work.reply = thread[t].reply
      /\ work.new_chain = thread[t].new_chain /\ work.entry = thread[t].entry
  BY <1>1 DEF Work
<1> HIDE DEF work
<1> QED
  BY <1>2, <1>4, <1>5, MovesTwins DEF Stamping, Reading

(* An append leaves what is in the lists where it is. *)
LEMMA AppendGrows ==
  ASSUME ThreadedInvariant, NEW t \in Thread, AppendTransaction(t),
         thread[t].list \in 1 .. CurrentList(Home[t])
  PROVE  ListsGrow
<1> DEFINE n == Home[t]
           k == thread[t].list
<1>1. TypeOK /\ n \in Node /\ lists[n] \in Seq(Seq(Transaction))
  BY Start, NodeTypes
<1>2. thread[t].tx \in Transaction
  BY <1>1, WorkFields
<1>3. /\ \A m \in Node : m # n => lists'[m] = lists[m]
      /\ Len(lists'[n]) = Len(lists[n])
      /\ \A j \in 1 .. Len(lists[n]) : j # k => lists'[n][j] = lists[n][j]
      /\ lists'[n][k] = Append(lists[n][k], thread[t].tx)
  BY <1>1 DEF AppendTransaction, TypeOK, CurrentList
<1>4. \A m \in Node : CurrentList(m)' >= CurrentList(m)
  <2>1. \A m \in Node : CurrentList(m) \in Nat
    BY <1>1, NodeTypes
  <2>2. \A m \in Node : CurrentList(m)' = CurrentList(m)
    BY <1>3 DEF CurrentList
  <2> QED
    BY <2>1, <2>2
<1>5. ASSUME NEW p \in 1 .. Len(lists[n][k])
      PROVE  p \in 1 .. Len(lists'[n][k]) /\ lists'[n][k][p] = lists[n][k][p]
  <2>1. lists[n][k] \in Seq(Transaction)
    BY <1>1 DEF CurrentList
  <2> HIDE DEF n, k
  <2> QED
    BY <1>2, <1>3, <2>1
<1>6. ASSUME NEW m \in Node, NEW j \in 1 .. Len(lists[m]),
             NEW p \in 1 .. Len(lists[m][j])
      PROVE  p \in 1 .. Len(lists'[m][j]) /\ lists'[m][j][p] = lists[m][j][p]
  <2>1. CASE m = n /\ j = k
    BY <1>5, <2>1
  <2>2. CASE ~ (m = n /\ j = k)
    BY <1>3, <2>2
  <2> QED
    BY <2>1, <2>2
<1> QED
  BY <1>4, <1>6 DEF ListsGrow

LEMMA AppendTwins ==
  ASSUME ThreadedInvariant, ThreadedInvariant', TwinsApart, NEW t \in Thread,
         PostAppends(t) \/ MineRewards(t)
  PROVE  TwinsApart'
<1>1. /\ thread[t].pc \in {"posting", "rewarding"} /\ AppendTransaction(t)
      /\ UNCHANGED << chains, clock, overlapped >>
  BY DEF PostAppends, MineRewards
<1>2. thread[t].list \in 1 .. CurrentList(Home[t]) /\ thread[t] \in Work
  <2>1. ThreadNames(t) /\ thread[t].list \in Nat /\ thread[t] \in Work
    BY Start, WorkFields
  <2> QED
    BY <1>1, <2>1, Start DEF ThreadNames
<1>3. ListsGrow
  BY <1>1, <1>2, AppendGrows
<1>4. CASE PostAppends(t)
  BY <1>1, <1>3, <1>4, IdleTwins DEF PostAppends, Stamping
<1>5. CASE MineRewards(t)
  <2> DEFINE work == [thread[t] EXCEPT !.pc = "rewarded"]
  <2>1. thread[t].pc = "rewarding" /\ Goes(t, work)
    BY <1>5 DEF MineRewards
  <2>2. /\ work.pc = "rewarded" /\ work.reply = thread[t].reply
        /\ work.new_chain = thread[t].new_chain /\ work.last = thread[t].last
    BY <1>2 DEF Work
  <2> HIDE DEF work
  <2> QED
    BY <1>1, <1>3, <2>1, <2>2, MovesTwins DEF Stamping, Reading
<1> QED
  BY <1>4, <1>5

-----------------------------------------------------------------------------
(* A chain on its way to a node that resolves *)

(* What is served of an entry is a copy of it. *)
LEMMA ServedGenuine ==
  ASSUME TypeOK, TwinsApart, NEW n \in Node, NEW e \in EntriesOf(n)
  PROVE  Genuine(Now(n, e))
<1>1. CASE e.list = 0
  <2>1. Genuine(e.block)
    BY <1>1 DEF TwinsApart, ChainsInOrder
  <2>2. Now(n, e) = e.block
    BY <1>1 DEF Now
  <2> QED
    BY <2>1, <2>2
<1>2. CASE e.list # 0
  <2> DEFINE b == Now(n, e)
             list == lists[n][e.list]
  <2>1. e.block \in Block
    BY EntriesType, EntryFields
  <2>2. b = [e.block EXCEPT !.transactions = list]
    BY <1>2 DEF Now
  <2> HIDE DEF b, list
  <2>3. /\ b.timestamp = e.block.timestamp
        /\ b.previous_hash = e.block.previous_hash
        /\ b.transactions = list
    BY <2>1, <2>2 DEF Block
  <2>4. CopyOf(b, n, e)
    BY <2>3 DEF CopyOf, list
  <2>5. Genuine(b)
    BY <1>2, <2>4 DEF Genuine, MinedOf
  <2> QED
    BY <2>5 DEF b
<1> QED
  BY <1>1, <1>2

LEMMA GenuineAfter ==
  ASSUME TypeOK, TwinsApart, NEW b, Genuine(b), IsMined(b),
         Len(b.previous_hash) >= 2
  PROVE  After(last_block(b.previous_hash).timestamp, b.timestamp)
<1>1. PICK n \in Node : \E e \in MinedOf(n) : CopyOf(b, n, e)
  BY DEF Genuine, IsMined
<1>2. PICK e \in MinedOf(n) : CopyOf(b, n, e)
  BY <1>1
<1>3. e \in Stamped(n)
  BY EntriesType
<1>4. After(last_block(e.block.previous_hash).timestamp, e.block.timestamp)
  BY <1>2, <1>3 DEF TwinsApart, StampsInOrder, CopyOf
<1> QED
  BY <1>2, <1>4 DEF CopyOf

LEMMA TwinNumbers ==
  ASSUME TypeOK, NEW p \in Twins
  PROVE  p[2] \in Nat
<1>1. PICK n \in Node : \E e \in MinedOf(n), g \in Stamped(n) :
        p = << e.block.timestamp, g.block.timestamp >>
  BY TwinsAre DEF TwinsShare
<1>2. PICK e \in MinedOf(n), g \in Stamped(n) :
        p = << e.block.timestamp, g.block.timestamp >>
  BY <1>1
<1>3. g.block \in Block
  BY EntriesType, EntryFields
<1> QED
  BY <1>2, <1>3 DEF Block

(* What comes after a block is later than the block. *)
LEMMA AfterIsLater ==
  ASSUME TypeOK, NEW b, Genuine(b), IsMined(b), NEW when, After(b.timestamp, when)
  PROVE  b.timestamp < when
<1>1. PICK n \in Node : \E e \in MinedOf(n) : CopyOf(b, n, e)
  BY DEF Genuine, IsMined
<1>2. PICK e \in MinedOf(n) : CopyOf(b, n, e)
  BY <1>1
<1>3. e \in Stamped(n)
  BY EntriesType
<1>4. << b.timestamp, b.timestamp >> \in Twins
  BY <1>2, <1>3, MinedTimes DEF CopyOf
<1> QED
  BY <1>4 DEF After

(* A block that is linked to a mined one comes after it. *)
LEMMA LinkedAfter ==
  ASSUME TypeOK, TwinsApart, NEW a \in Block, NEW b \in Block, Genuine(b),
         IsMined(a), b.previous_hash = hash(a)
  PROVE  IsMined(b) /\ After(a.timestamp, b.timestamp)
<1> DEFINE d == a.previous_hash
           c == ContentOf(a)
<1>1. d \in Seq(Content) /\ d # << >> /\ b.previous_hash = Append(d, c)
  BY DEF Block, Digest, IsMined, hash
<1>2. c.timestamp = a.timestamp
  BY DEF ContentOf
<1> HIDE DEF d, c
<1>3. Len(d) \in Nat /\ Len(d) # 0
  BY <1>1
<1>4. /\ Len(b.previous_hash) = Len(d) + 1
      /\ b.previous_hash[Len(d) + 1] = c
  BY <1>1
<1>5. last_block(b.previous_hash).timestamp = a.timestamp
  BY <1>2, <1>4 DEF last_block
<1>6. Len(b.previous_hash) >= 2
  BY <1>3, <1>4
<1>7. IsMined(b)
  BY <1>6 DEF IsMined
<1>8. After(last_block(b.previous_hash).timestamp, b.timestamp)
  BY <1>6, <1>7, GenuineAfter
<1> QED
  BY <1>5, <1>7, <1>8

LEMMA LinkMines ==
  ASSUME NEW a \in Block, NEW b \in Block, b.previous_hash = hash(a)
  PROVE  IsMined(b)
<1> DEFINE d == a.previous_hash
           c == ContentOf(a)
<1>1. d \in Seq(Content) /\ b.previous_hash = Append(d, c)
  BY DEF Block, Digest, hash
<1> HIDE DEF d, c
<1>2. Len(d) \in Nat /\ Len(b.previous_hash) = Len(d) + 1
  BY <1>1
<1> QED
  BY <1>2 DEF IsMined

(* One more block keeps a chain in order, as far as it is linked. *)
LEMMA OrderedAppended ==
  ASSUME TypeOK, TwinsApart, NEW c \in Seq(Block), NEW b \in Block,
         Ordered(c), Genuine(b), \A i \in 1 .. Len(c) : Genuine(c[i])
  PROVE  Ordered(Append(c, b))
<1> DEFINE d == Append(c, b)
<1>1. /\ Len(c) \in Nat /\ Len(d) = Len(c) + 1 /\ d[Len(c) + 1] = b
      /\ \A i \in 1 .. Len(c) : d[i] = c[i] /\ c[i] \in Block
  OBVIOUS
<1> HIDE DEF d
<1> SUFFICES ASSUME NEW j \in 1 .. Len(d), NEW i \in 1 .. j - 1,
                    Linked(d, i, j), IsMined(d[i])
             PROVE  After(d[i].timestamp, d[j].timestamp)
  BY DEF Ordered, d
<1>2. i \in Nat /\ j \in Nat /\ i < j /\ i \in 1 .. Len(c)
  BY <1>1
<1>3. \A k \in i + 1 .. j : k - 1 \in 1 .. Len(c)
  BY <1>1, <1>2
<1>4. CASE j \in 1 .. Len(c)
  <2>1. Linked(c, i, j)
    BY <1>1, <1>2, <1>3, <1>4 DEF Linked
  <2>2. After(c[i].timestamp, c[j].timestamp)
    BY <1>1, <1>2, <1>4, <2>1 DEF Ordered
  <2> QED
    BY <1>1, <1>2, <1>4, <2>2
<1>5. CASE j = Len(c) + 1
  <2> DEFINE m == Len(c)
  <2>1. m \in 1 .. Len(c) /\ c[m] \in Block
    BY <1>1, <1>2
  <2>2. b.previous_hash = hash(c[m])
    BY <1>1, <1>2, <1>5, <2>1 DEF Linked
  <2>3. CASE i = m
    <3>1. After(c[m].timestamp, b.timestamp)
      BY <1>1, <2>1, <2>2, <2>3, LinkedAfter
    <3> QED
      BY <1>1, <1>5, <2>1, <2>3, <3>1
  <2>4. CASE i # m
    <3>1. m \in i + 1 .. j /\ m - 1 \in 1 .. Len(c) /\ i \in 1 .. m - 1
      BY <1>1, <1>2, <1>5, <2>4
    <3>2. c[m].previous_hash = hash(c[m - 1])
      BY <1>1, <2>1, <3>1 DEF Linked
    <3>3. IsMined(c[m])
      BY <1>1, <2>1, <3>1, <3>2, LinkMines
    <3>4. After(c[m].timestamp, b.timestamp)
      BY <2>1, <2>2, <3>3, LinkedAfter
    <3>5. c[m].timestamp < b.timestamp
      BY <2>1, <3>3, <3>4, AfterIsLater
    <3>6. Linked(c, i, m)
      <4>1. \A k \in i + 1 .. m : /\ k \in i + 1 .. j
                                  /\ k \in 1 .. Len(c) /\ k - 1 \in 1 .. Len(c)
        BY <1>1, <1>2, <1>5
      <4> QED
        BY <1>1, <4>1 DEF Linked
    <3>7. After(c[i].timestamp, c[m].timestamp)
      BY <1>1, <1>2, <2>1, <3>1, <3>6 DEF Ordered
    <3>8. c[m].timestamp \in Nat /\ b.timestamp \in Nat
      BY <2>1 DEF Block
    <3>9. \A p \in Twins : p[2] \in Nat
      BY TwinNumbers
    <3>10. After(c[i].timestamp, b.timestamp)
      BY <3>5, <3>7, <3>8, <3>9 DEF After
    <3> QED
      BY <1>1, <1>2, <1>5, <3>10
  <2> QED
    BY <2>3, <2>4
<1> QED
  BY <1>1, <1>4, <1>5

LEMMA SerialiseTwins ==
  ASSUME ThreadedInvariant, ThreadedInvariant', TwinsApart, NEW t \in Thread,
         Serialise(t)
  PROVE  TwinsApart'
<1> DEFINE old == thread[t]
           peer == old.peer
           chain == chains[peer][old.chain]
           done == Len(old.reply)
           b == Now(peer, chain[done + 1])
<1>1. /\ TypeOK /\ ThreadNames(t) /\ old \in Work /\ old.reply \in Seq(Block)
  BY Start, WorkFields
<1>2. /\ old.pc = "serialising" /\ UNCHANGED << chains, lists, clock, overlapped >>
      /\ Goes(t, IF done < Len(chain)
                   THEN [old EXCEPT !.reply = Append(@, b)]
                   ELSE [old EXCEPT !.pc = "answered"])
  BY DEF Serialise
<1>3. peer \in Node /\ old.chain \in 1 .. Len(chains[peer])
  BY <1>1, <1>2 DEF ThreadNames
<1>4. WorkInOrder(Home[t], old)
  BY DEF TwinsApart
<1>5. ListsGrow
  BY <1>2, SameLists
<1>6. CASE done < Len(chain)
  <2> DEFINE reply == Append(old.reply, b)
             work == [old EXCEPT !.reply = reply]
  <2>1. Goes(t, work)
    BY <1>2, <1>6
  <2>2. chain \in ChainsOf(peer) /\ Len(chain) \in Nat /\ done \in Nat
    <3>1. chain \in ChainsOf(peer)
      BY <1>3 DEF ChainsOf
    <3>2. done \in Nat
      BY <1>1
    <3> HIDE DEF chain, peer, done
    <3>3. Len(chain) \in Nat
      BY <1>1, <1>3, <3>1, EntriesType
    <3> QED
      BY <3>1, <3>2, <3>3
  <2>3. done + 1 \in 1 .. Len(chain)
    <3> HIDE DEF chain, peer, done
    <3> QED
      BY <1>6, <2>2
  <2>4. chain[done + 1] \in EntriesOf(peer)
    BY <1>1, <1>3, <2>2, <2>3, EntriesType
  <2>5. Genuine(b)
    BY <1>1, <1>3, <2>4, ServedGenuine
  <2>6. b \in Block
    <3> DEFINE e == chain[done + 1]
    <3>1. e \in Entry
      BY <1>1, <1>3, <2>4, EntriesType
    <3>2. e.list <= CurrentList(peer)
      <4>1. e.list \in Nat /\ CurrentList(peer) \in Nat
        BY <1>1, <1>3, <3>1, EntryFields, NodeTypes
      <4>2. e.list < CurrentList(peer)
        BY <1>3, <2>4 DEF TwinsApart, ChainsInOrder
      <4> QED
        BY <4>1, <4>2
    <3> QED
      BY <1>1, <1>3, <3>1, <3>2, NowType
  <2> HIDE DEF b
  <2>7. \A i \in 1 .. Len(old.reply) : Genuine(old.reply[i])
    BY <1>4 DEF WorkInOrder
  <2>8. Ordered(reply)
    BY <1>1, <1>4, <2>5, <2>6, <2>7, OrderedAppended DEF WorkInOrder
  <2>9. \A i \in 1 .. Len(reply) : Genuine(reply[i])
    <3>1. /\ Len(reply) = done + 1 /\ reply[done + 1] = b
          /\ \A i \in 1 .. done : reply[i] = old.reply[i]
      BY <1>1, <2>6
    <3> QED
      BY <2>2, <2>5, <2>7, <3>1
  <2> HIDE DEF reply
  <2>10. /\ work.pc = "serialising" /\ work.reply = reply
         /\ work.new_chain = old.new_chain
    BY <1>1, <1>2 DEF Work
  <2> HIDE DEF work
  <2>11. WorkInOrder(Home[t], work)
    BY <1>4, <2>8, <2>9, <2>10 DEF WorkInOrder
  <2> QED
    BY <1>2, <1>5, <2>1, <2>10, <2>11, GoesWhere, QuietTwins DEF Stamping
<1>7. CASE ~ (done < Len(chain))
  <2> DEFINE work == [old EXCEPT !.pc = "answered"]
  <2>1. Goes(t, work)
    BY <1>2, <1>7
  <2>2. /\ work.pc = "answered" /\ work.reply = old.reply
        /\ work.new_chain = old.new_chain
    BY <1>1 DEF Work
  <2> HIDE DEF work
  <2> QED
    BY <1>2, <1>5, <2>1, <2>2, MovesTwins DEF Stamping, Reading
<1> QED
  BY <1>6, <1>7

LEMMA ResumeResolveTwins ==
  ASSUME ThreadedInvariant, ThreadedInvariant', TwinsApart, NEW t \in Thread,
         ResumeResolve(t)
  PROVE  TwinsApart'
<1> DEFINE old == thread[t]
           next == [old EXCEPT !.pc = "looping", !.reply = << >>, !.length = 0,
                               !.chain = 0]
           better == [next EXCEPT !.max_length = old.length,
                                  !.new_chain = old.reply]
           work == IF Better(old) THEN better ELSE next
<1>1. old \in Work
  BY WorkFields DEF ThreadedInvariant
<1>2. /\ old.pc = "answered" /\ UNCHANGED << chains, lists, clock, overlapped >>
      /\ Goes(t, work)
  BY DEF ResumeResolve
<1>3. /\ next.pc = "looping" /\ next.reply = << >>
      /\ next.new_chain = old.new_chain
  BY <1>1 DEF Work
<1>4. /\ better.pc = "looping" /\ better.reply = << >>
      /\ better.new_chain = old.reply
  BY <1>1 DEF Work
<1> HIDE DEF next, better
<1>5. /\ work.pc = "looping" /\ work.reply = << >>
      /\ work.new_chain \in {old.reply, old.new_chain}
  BY <1>3, <1>4
<1> HIDE DEF work
<1>6. WorkInOrder(Home[t], old)
  BY DEF TwinsApart
<1>7. WorkInOrder(Home[t], work)
  <2>1. Ordered(<< >>)
    BY DEF Ordered
  <2>2. CASE work.new_chain = old.reply
    BY <1>5, <1>6, <2>1, <2>2 DEF WorkInOrder
  <2>3. CASE work.new_chain = old.new_chain
    BY <1>5, <1>6, <2>1, <2>3 DEF WorkInOrder
  <2> QED
    BY <1>5, <2>2, <2>3
<1> QED
  BY <1>2, <1>5, <1>7, GoesWhere, SameLists, QuietTwins DEF Stamping

-----------------------------------------------------------------------------
(* The steps that stamp a block, append it and take over a chain *)

(* A list in hand after its reset is not taken again: what is stamped now is *)
(* no twin of what has been appended.                                        *)
LEMMA MineTakesTwins ==
  ASSUME ThreadedInvariant, ThreadedInvariant', TwinsApart, NEW t \in Thread,
         MineTakes(t)
  PROVE  TwinsApart'
<1> DEFINE n == Home[t]
           old == thread[t]
           index == Len(CurrentChain(n)) + 1
           list == CurrentList(n)
           work == [old EXCEPT !.pc = "taken",
                               !.entry.block.index = index,
                               !.entry.block.timestamp = clock,
                               !.entry.list = list]
           new == work.entry
           d == new.block.previous_hash
<1>1. /\ TypeOK /\ TypeOK' /\ n \in Node /\ old \in Work /\ old.entry \in Entry
      /\ list \in Nat /\ clock \in Nat /\ t \in Local(n)
  BY Start, WorkFields DEF Local, ThreadedInvariant
<1>2. /\ old.pc = "hashed" /\ Goes(t, work) /\ clock' = clock + 1
      /\ UNCHANGED << chains, lists, overlapped >>
  BY DEF MineTakes
<1>3. /\ work.pc = "taken" /\ work.reply = old.reply
      /\ work.new_chain = old.new_chain
      /\ new.list = list /\ new.block.timestamp = clock
      /\ d = old.entry.block.previous_hash
  BY <1>1 DEF Work, Entry, Block
<1> HIDE DEF work, new, list, d
<1>4. thread'[t] = work /\ \A u \in Thread : u # t => thread'[u] = thread[u]
  BY <1>1, <1>2, GoesWhere, GoesOn
<1>5. \A m \in Node : /\ ChainsOf(m)' = ChainsOf(m)
                      /\ EntriesOf(m)' = EntriesOf(m)
                      /\ MinedOf(m)' = MinedOf(m)
  BY <1>2 DEF ChainsOf, EntriesOf, MinedOf
<1>6. ASSUME NEW m \in Node
      PROVE  /\ Stamped(m) \subseteq Stamped(m)'
             /\ \A g \in Stamped(m)' : g \in Stamped(m) \/ (m = n /\ g = new)
  <2>1. old.pc \notin Stamping
    BY <1>2 DEF Stamping
  <2>2. ASSUME NEW g \in InHand(m) PROVE g \in InHand(m)'
    <3>1. PICK u \in Local(m) : thread[u].pc \in Stamping /\ g = thread[u].entry
      BY DEF InHand
    <3>2. thread'[u] = thread[u]
      BY <1>4, <2>1, <3>1 DEF Local
    <3> QED
      BY <3>1, <3>2 DEF InHand
  <2>3. ASSUME NEW g \in InHand(m)' PROVE g \in InHand(m) \/ (m = n /\ g = new)
    <3>1. PICK u \in Local(m) : thread'[u].pc \in Stamping /\ g = thread'[u].entry
      BY DEF InHand, Local
    <3>2. CASE u = t
      BY <1>4, <3>1, <3>2 DEF Local, new
    <3>3. CASE u # t
      BY <1>4, <3>1, <3>3 DEF InHand, Local
    <3> QED
      BY <3>2, <3>3
  <2> QED
    BY <1>5, <2>2, <2>3 DEF Stamped
<1>7. \A m \in Node : \A e \in MinedOf(m) : e.list < CurrentList(m) /\ e.list \in Nat
  BY <1>1, ListsNamed DEF TwinsApart
<1>8. \A e \in MinedOf(n) : e.list # new.list
  BY <1>1, <1>3, <1>7 DEF list
<1>9. Evolves
  BY <1>2, <1>5, <1>6, <1>8 DEF Evolves
<1>10. Times' = Times
  <2>1. \A m \in Node : {e.block.timestamp : e \in MinedOf(m)'} =
                        {e.block.timestamp : e \in MinedOf(m)}
    BY <1>5
  <2> QED
    BY <2>1 DEF Times
<1>11. \A m \in Node : \A e \in Stamped(m) :
         e.block.timestamp < clock /\ e.block.timestamp \in Nat
  <2>1. \A m \in Node : \A e \in Stamped(m) : e.block \in Block
    BY <1>1, EntriesType, EntryFields
  <2> QED
    BY <2>1 DEF TwinsApart, StampsInOrder, Block
<1>12. ASSUME NEW m \in Node, NEW e \in Stamped(m)'
       PROVE  /\ e.block.timestamp < clock'
              /\ Names(e.block.previous_hash)'
              /\ Len(e.block.previous_hash) >= 2 =>
                   After(last_block(e.block.previous_hash).timestamp,
                         e.block.timestamp)'
  <2>1. CASE e \in Stamped(m)
    <3> DEFINE p == e.block.previous_hash
               ts == last_block(p).timestamp
               when == e.block.timestamp
    <3>1. /\ Names(p) /\ (Len(p) >= 2 => ts \in Times /\ After(ts, when))
      BY <2>1 DEF TwinsApart, StampsInOrder, Names
    <3>2. when < clock'
      BY <1>1, <1>2, <1>11, <2>1
    <3> HIDE DEF ts, p, when
    <3>3. Names(p)' /\ (Len(p) >= 2 => After(ts, when)')
      BY <1>9, <3>1, NamesKept, AfterStays
    <3> QED
      BY <3>2, <3>3 DEF ts, p, when
  <2>2. CASE m = n /\ e = new
    <3> DEFINE p == e.block.previous_hash
               ts == last_block(p).timestamp
               when == e.block.timestamp
    <3>1. Names(p) /\ when = clock
      BY <1>2, <1>3, <2>2 DEF TwinsApart, WorkInOrder, d
    <3>2. when < clock'
      BY <1>1, <1>2, <3>1
    <3>3. ASSUME NEW q \in Twins' PROVE q[2] < when
      <4>1. TwinsShare'
        BY TwinsAre, PTL
      <4>2. PICK k \in Node : \E f \in MinedOf(k)', g \in Stamped(k)' :
              /\ g.list = f.list
              /\ q = << f.block.timestamp, g.block.timestamp >>
        BY <4>1 DEF TwinsShare
      <4>3. PICK f \in MinedOf(k)', g \in Stamped(k)' :
              /\ g.list = f.list
              /\ q = << f.block.timestamp, g.block.timestamp >>
        BY <4>2
      <4>4. g \in Stamped(k)
        BY <1>5, <1>6, <1>8, <4>3
      <4> HIDE DEF when
      <4> QED
        BY <1>11, <3>1, <4>3, <4>4
    <3> HIDE DEF ts, p, when
    <3>4. Names(p)'
      BY <1>9, <3>1, NamesKept
    <3>5. After(ts, when)'
      BY <3>3 DEF After
    <3> QED
      BY <3>2, <3>4, <3>5 DEF ts, p, when
  <2> QED
    BY <1>6, <2>1, <2>2
<1>13. StampsInOrder'
  <2>1. ASSUME NEW u \in Thread, thread[u].pc \in Stamping
        PROVE  /\ thread[u].entry \in Stamped(Home[u])
               /\ thread[u].entry.block.timestamp # clock
    <3>1. thread[u].entry \in Stamped(Home[u]) /\ Home[u] \in Node
      BY <2>1, ThreadedAssumption DEF Stamped, InHand, Local
    <3> QED
      BY <1>1, <1>11, <3>1
  <2>2. clock \notin Times
    <3>1. ASSUME NEW m \in Node, NEW e \in MinedOf(m)
          PROVE  e.block.timestamp # clock
      BY <1>1, <1>11, EntriesType
    <3> QED
      BY <3>1 DEF Times
  <2>3. ASSUME NEW u \in Thread, thread'[u].pc \in Stamping
        PROVE  /\ thread'[u].entry.block.timestamp \notin Times'
               /\ \A v \in Thread \ {u} : thread'[v].pc \in Stamping =>
                    thread'[v].entry.block.timestamp
                      # thread'[u].entry.block.timestamp
    <3>1. thread'[t].entry.block.timestamp = clock
      BY <1>3, <1>4 DEF new
    <3>2. \A v \in Thread \ {t} : thread'[v].pc \in Stamping =>
            thread[v].pc \in Stamping /\ thread'[v].entry = thread[v].entry
      BY <1>4
    <3>3. CASE u = t
      BY <1>10, <2>1, <2>2, <3>1, <3>2, <3>3
    <3>4. CASE u # t
      <4>1. /\ thread[u].pc \in Stamping /\ thread'[u].entry = thread[u].entry
            /\ thread[u].entry.block.timestamp \notin Times
        BY <2>3, <3>2, <3>4 DEF TwinsApart, StampsInOrder
      <4>2. ASSUME NEW v \in Thread \ {u}, thread'[v].pc \in Stamping
            PROVE  thread'[v].entry.block.timestamp
                     # thread'[u].entry.block.timestamp
        <5>1. CASE v = t
          BY <2>1, <3>1, <4>1, <5>1
        <5>2. CASE v # t
          BY <3>2, <4>1, <4>2, <5>2 DEF TwinsApart, StampsInOrder
        <5> QED
          BY <5>1, <5>2
      <4> QED
        BY <1>10, <4>1, <4>2
    <3> QED
      BY <3>3, <3>4
  <2> QED
    BY <1>12, <2>3 DEF StampsInOrder
<1>14. ASSUME NEW m \in Node, SoleMiner(m)',
              NEW e \in Stamped(m)', NEW g \in Stamped(m)', e.list = g.list
       PROVE  e.block.timestamp = g.block.timestamp
  <2>1. SoleMiner(m)
    BY <1>2, <1>14 DEF SoleMiner
  <2>2. CASE e \in Stamped(m) /\ g \in Stamped(m)
    BY <1>14, <2>1, <2>2 DEF TwinsApart, ChainsInOrder
  <2>3. ASSUME m = n, NEW h \in Stamped(n), h.list = new.list
        PROVE  FALSE
    <3>1. h \in InHand(n)
      BY <1>8, <2>3 DEF Stamped
    <3>2. PICK u \in Local(n) : thread[u].pc \in Stamping
      BY <3>1 DEF InHand
    <3>3. HandedOver(n)
      BY <1>1, <2>1, <2>3 DEF ThreadedInvariant
    <3>4. thread[u].pc \in Mining /\ thread[t].pc \in Mining
      BY <1>2, <3>2 DEF Stamping, Mining
    <3>5. u = t
      BY <1>1, <3>2, <3>3, <3>4 DEF HandedOver
    <3> QED
      BY <1>2, <3>2, <3>5 DEF Stamping
  <2> QED
    BY <1>6, <1>14, <2>2, <2>3
<1>15. ChainsInOrder'
  <2>1. \A m \in Node : CurrentList(m)' >= CurrentList(m)
    <3>1. \A m \in Node : CurrentList(m) \in Nat /\ CurrentList(m)' = CurrentList(m)
      BY <1>1, <1>2, NodeTypes DEF CurrentList
    <3> QED
      BY <3>1
  <2> QED
    BY <1>1, <1>5, <1>9, <1>14, <2>1, ChainsStay
<1>16. \A u \in Thread : \A w \in {thread'[u]} : WorkInOrder(Home[u], w)'
  <2>1. WorkInOrder(n, work)
    BY <1>3 DEF TwinsApart, WorkInOrder
  <2> QED
    BY <1>1, <1>2, <1>5, <1>9, <2>1, GoesWhere, WorkOf, WorksStay
<1> QED
  BY <1>13, <1>15, <1>16 DEF TwinsApart

(* One more entry, mined here and in no chain yet, at the end of a chain. *)
LEMMA AppendedChainInOrder ==
  ASSUME NEW c \in Seq(Entry), NEW e \in Entry, e.list # 0,
         TakenOver(c), StampedOnce(c),
         \A i \in 1 .. Len(c) : c[i].list # 0 \/ IsMined(c[i].block) =>
           c[i].block.timestamp # e.block.timestamp
  PROVE  TakenOver(Append(c, e)) /\ StampedOnce(Append(c, e))
<1> DEFINE d == Append(c, e)
<1>1. /\ Len(c) \in Nat /\ Len(d) = Len(c) + 1 /\ d[Len(c) + 1] = e
      /\ \A i \in 1 .. Len(c) : d[i] = c[i]
  OBVIOUS
<1> HIDE DEF d
<1>2. TakenOver(d)
  <2> SUFFICES ASSUME NEW j \in 1 .. Len(d), d[j].list = 0, NEW i \in 1 .. j - 1
               PROVE  /\ d[i].list = 0
                      /\ IsMined(d[i].block) =>
                           After(d[i].block.timestamp, d[j].block.timestamp)
    BY DEF TakenOver
  <2>1. j \in 1 .. Len(c) /\ i \in 1 .. Len(c)
    BY <1>1
  <2> QED
    BY <1>1, <2>1 DEF TakenOver
<1>3. StampedOnce(d)
  <2> SUFFICES ASSUME NEW j \in 1 .. Len(d), d[j].list # 0,
                      NEW i \in 1 .. Len(d), i # j, IsMined(d[i].block)
               PROVE  d[i].block.timestamp # d[j].block.timestamp
    BY DEF StampedOnce
  <2>1. CASE i \in 1 .. Len(c) /\ j \in 1 .. Len(c)
    BY <1>1, <2>1 DEF StampedOnce
  <2>2. CASE i = Len(c) + 1 /\ j \in 1 .. Len(c)
    BY <1>1, <2>2
  <2>3. CASE i \in 1 .. Len(c) /\ j = Len(c) + 1
    BY <1>1, <2>3
  <2> QED
    BY <1>1, <2>1, <2>2, <2>3
<1> QED
  BY <1>2, <1>3 DEF d

LEMMA MineAppendsTwins ==
  ASSUME ThreadedInvariant, ThreadedInvariant', TwinsApart, NEW t \in Thread,
         MineAppends(t)
  PROVE  TwinsApart'
<1> DEFINE n == Home[t]
           k == thread[t].chain
           new == thread[t].entry
           c == chains[n][k]
           d == Append(c, new)
<1>1. /\ TypeOK /\ TypeOK' /\ n \in Node /\ new \in Entry /\ t \in Local(n)
      /\ thread[t].pc = "appending" /\ Goes(t, Idle(t)) /\ ThreadNames(t)
      /\ UNCHANGED << lists, clock, overlapped >>
  BY Start, WorkFields DEF Local, ThreadedInvariant, MineAppends
<1>2. k \in 1 .. Len(chains[n]) /\ new.list # 0
  BY <1>1 DEF ThreadNames
<1>3. /\ \A m \in Node : m # n => chains'[m] = chains[m]
      /\ Len(chains'[n]) = Len(chains[n])
      /\ \A j \in 1 .. Len(chains[n]) : j # k => chains'[n][j] = chains[n][j]
      /\ chains'[n][k] = d
  BY <1>1, <1>2, MineAppendsDoes
<1>4. /\ c \in ChainsOf(n) /\ c \in Seq(Entry)
  BY <1>1, <1>2, EntriesType
<1>5. new.list < CurrentList(n) /\ CurrentList(n)' = CurrentList(n)
  BY <1>1 DEF ThreadNames, CurrentList
<1>6. new.block.timestamp \notin Times
  BY <1>1 DEF TwinsApart, StampsInOrder, Stamping
<1>7. thread'[t].pc = "idle" /\ \A u \in Thread : u # t => thread'[u] = thread[u]
  BY <1>1, IdleType, GoesOn DEF Idle
<1> HIDE DEF n, k, new
<1>8. /\ Len(c) \in Nat /\ Len(d) = Len(c) + 1 /\ d[Len(c) + 1] = new
      /\ \A i \in 1 .. Len(c) : d[i] = c[i]
  BY <1>1, <1>4
<1> HIDE DEF c, d
<1>9. ASSUME NEW m \in Node
      PROVE  \A b \in ChainsOf(m)' : b \in ChainsOf(m) \/ (m = n /\ b = d)
  <2>1. CASE m # n
    BY <1>3, <2>1 DEF ChainsOf
  <2>2. CASE m = n
    <3>1. ASSUME NEW j \in 1 .. Len(chains[n])
          PROVE  chains'[n][j] \in ChainsOf(n) \/ chains'[n][j] = d
      BY <1>3 DEF ChainsOf
    <3> QED
      BY <1>3, <2>2, <3>1 DEF ChainsOf
  <2> QED
    BY <2>1, <2>2
<1>10. \A b \in ChainsOf(n) : b \in ChainsOf(n)' \/ b = c
  <2>1. ASSUME NEW j \in 1 .. Len(chains[n]), chains[n][j] # c
        PROVE  chains[n][j] \in {chains'[n][i] : i \in 1 .. Len(chains'[n])}
    <3>1. j # k /\ j \in 1 .. Len(chains'[n])
      BY <1>3, <2>1 DEF c
    <3>2. chains'[n][j] = chains[n][j]
      BY <1>3, <3>1
    <3> QED
      BY <3>1, <3>2
  <2> QED
    BY <2>1 DEF ChainsOf
<1>11. d \in ChainsOf(n)'
  <2>1. k \in 1 .. Len(chains'[n])
    BY <1>2, <1>3
  <2> QED
    BY <1>3, <2>1 DEF ChainsOf
<1>12. ASSUME NEW m \in Node
       PROVE  /\ EntriesOf(m) \subseteq EntriesOf(m)'
              /\ \A e \in EntriesOf(m)' : e \in EntriesOf(m) \/ (m = n /\ e = new)
              /\ m = n => new \in EntriesOf(m)'
  <2>1. ASSUME NEW e \in EntriesOf(m)' PROVE e \in EntriesOf(m) \/ (m = n /\ e = new)
    <3>1. PICK b \in ChainsOf(m)' : e \in {b[i] : i \in 1 .. Len(b)}
      BY DEF EntriesOf
    <3>2. CASE b \in ChainsOf(m)
      BY <3>1, <3>2 DEF EntriesOf
    <3>3. CASE m = n /\ b = d
      <4>1. PICK i \in 1 .. Len(d) : e = d[i]
        BY <3>1, <3>3
      <4>2. CASE i = Len(c) + 1
        BY <1>8, <3>3, <4>1, <4>2
      <4>3. CASE i \in 1 .. Len(c)
        <5>1. e \in {c[j] : j \in 1 .. Len(c)}
          BY <1>8, <4>1, <4>3
        <5> QED
          BY <1>4, <3>3, <5>1 DEF EntriesOf
      <4> QED
        BY <1>8, <4>2, <4>3
    <3> QED
      BY <1>9, <3>2, <3>3
  <2>2. ASSUME NEW i \in 1 .. Len(d), m = n PROVE d[i] \in EntriesOf(m)'
    <3>1. d[i] \in {d[j] : j \in 1 .. Len(d)}
      OBVIOUS
    <3> QED
      BY <1>11, <2>2, <3>1 DEF EntriesOf
  <2>3. ASSUME NEW e \in EntriesOf(m) PROVE e \in EntriesOf(m)'
    <3>1. PICK b \in ChainsOf(m) : e \in {b[i] : i \in 1 .. Len(b)}
      BY DEF EntriesOf
    <3>2. CASE b \in ChainsOf(m)'
      BY <3>1, <3>2 DEF EntriesOf
    <3>3. CASE m = n /\ b = c
      <4>1. PICK i \in 1 .. Len(c) : e = c[i]
        BY <3>1, <3>3
      <4>2. i \in 1 .. Len(d) /\ d[i] = e
        BY <1>8, <4>1
      <4> QED
        BY <2>2, <3>3, <4>2
    <3>4. CASE m # n
      BY <1>3, <3>1, <3>4 DEF EntriesOf, ChainsOf
    <3> QED
      BY <1>10, <3>2, <3>3, <3>4
  <2>4. m = n => new \in EntriesOf(m)'
    BY <1>8, <2>2
  <2> QED
    BY <2>1, <2>3, <2>4
<1>13. ASSUME NEW m \in Node
       PROVE  /\ MinedOf(m) \subseteq MinedOf(m)'
              /\ \A e \in MinedOf(m)' : e \in MinedOf(m) \/ (m = n /\ e = new)
              /\ m = n => new \in MinedOf(m)'
  BY <1>2, <1>12 DEF MinedOf
<1>14. ASSUME NEW m \in Node PROVE Stamped(m)' = Stamped(m)
  <2>1. thread[t].pc \in Stamping /\ thread'[t].pc \notin Stamping
    BY <1>1, <1>7 DEF Stamping
  <2>2. ASSUME NEW g \in InHand(m) PROVE g \in InHand(m)' \/ (m = n /\ g = new)
    <3>1. PICK u \in Local(m) : thread[u].pc \in Stamping /\ g = thread[u].entry
      BY DEF InHand
    <3>2. CASE u = t
      BY <3>1, <3>2 DEF Local, n, new
    <3>3. CASE u # t
      <4>1. thread'[u] = thread[u]
        BY <1>7, <3>3 DEF Local
      <4> QED
        BY <3>1, <4>1 DEF InHand
    <3> QED
      BY <3>2, <3>3
  <2>3. ASSUME NEW g \in InHand(m)' PROVE g \in InHand(m)
    <3>1. PICK u \in Local(m) : thread'[u].pc \in Stamping /\ g = thread'[u].entry
      BY DEF InHand, Local
    <3>2. thread'[u] = thread[u]
      BY <1>7, <2>1, <3>1 DEF Local
    <3> QED
      BY <3>1, <3>2 DEF InHand
  <2>4. m = n => new \in InHand(m)
    BY <1>1, <2>1 DEF InHand, new
  <2> QED
    BY <1>13, <2>2, <2>3, <2>4 DEF Stamped
<1>15. Evolves
  BY <1>1, <1>6, <1>13, <1>14 DEF Evolves
<1>16. Times' \subseteq Times \cup {new.block.timestamp}
  <2>1. ASSUME NEW m \in Node, NEW e \in MinedOf(m)'
        PROVE  e.block.timestamp \in Times \cup {new.block.timestamp}
    BY <1>13, MinedTimes
  <2> QED
    BY <2>1 DEF Times
<1>17. StampsInOrder'
  <2>1. ASSUME NEW u \in Thread, thread'[u].pc \in Stamping
        PROVE  /\ thread[u].pc \in Stamping
               /\ thread'[u].entry = thread[u].entry
               /\ thread[u].entry.block.timestamp \notin Times'
    <3>1. thread[t].pc \in Stamping /\ thread'[t].pc \notin Stamping
      BY <1>1, <1>7 DEF Stamping
    <3>2. u # t /\ thread'[u] = thread[u]
      BY <1>7, <2>1, <3>1
    <3>3. /\ thread[u].entry.block.timestamp \notin Times
          /\ thread[u].entry.block.timestamp # new.block.timestamp
      BY <2>1, <3>1, <3>2 DEF TwinsApart, StampsInOrder, new
    <3> QED
      BY <1>16, <2>1, <3>2, <3>3
  <2> QED
    BY <1>1, <1>14, <1>15, <2>1, StampsStay
<1>18. ChainsInOrder'
  <2>1. ASSUME NEW b, b = d PROVE TakenOver(b)' /\ StampedOnce(b)
    <3>1. TakenOver(c) /\ StampedOnce(c)
      BY <1>1, <1>4 DEF TwinsApart, ChainsInOrder
    <3>2. ASSUME NEW i \in 1 .. Len(c)
          PROVE  /\ c[i].list = 0 => Genuine(c[i].block)
                 /\ c[i].list # 0 \/ IsMined(c[i].block) =>
                      c[i].block.timestamp # new.block.timestamp
      <4>1. c[i] \in EntriesOf(n)
        BY <1>1, <1>4, EntriesType
      <4>2. c[i].list = 0 => Genuine(c[i].block)
        BY <1>1, <4>1 DEF TwinsApart, ChainsInOrder
      <4>3. c[i].list # 0 => c[i].block.timestamp \in Times
        BY <1>1, <4>1, MinedTimes DEF MinedOf
      <4>4. c[i].list = 0 /\ IsMined(c[i].block) => c[i].block.timestamp \in Times
        BY <4>2, GenuineTimes
      <4> QED
        BY <1>6, <4>2, <4>3, <4>4
    <3>3. TakenOver(d) /\ StampedOnce(d)
      BY <1>1, <1>2, <1>4, <3>1, <3>2, AppendedChainInOrder DEF d
    <3>4. \A i \in 1 .. Len(d) : d[i].list = 0 => Genuine(d[i].block)
      BY <1>2, <1>8, <3>2
    <3>5. Len(d) \in Nat
      BY <1>8
    <3>6. TakenOver(b) /\ StampedOnce(b) /\ Len(b) \in Nat
      BY <2>1, <3>3, <3>5
    <3>7. \A i \in 1 .. Len(b) : b[i].list = 0 => Genuine(b[i].block)
      BY <2>1, <3>4
    <3>8. TakenOver(b)'
      BY <1>15, <3>6, <3>7, TakenOverStays
    <3> QED
      BY <3>6, <3>8
  <2>2. \A m \in Node : CurrentList(m)' >= CurrentList(m)
    <3>1. \A m \in Node : CurrentList(m) \in Nat /\ CurrentList(m)' = CurrentList(m)
      BY <1>1, NodeTypes DEF CurrentList
    <3> QED
      BY <3>1
  <2>3. \A m \in Node : \A e \in EntriesOf(m)' :
          \/ e \in EntriesOf(m)
          \/ e.list < CurrentList(m)' /\ (e.list = 0 => Genuine(e.block)')
    BY <1>2, <1>5, <1>12
  <2>4. \A m \in Node : SoleMiner(m)' => \A e, g \in Stamped(m)' :
          e.list = g.list => e.block.timestamp = g.block.timestamp
    BY <1>1, <1>14 DEF SoleMiner, TwinsApart, ChainsInOrder
  <2>5. \A m \in Node : \A b \in ChainsOf(m)' :
          \/ b \in ChainsOf(m)
          \/ TakenOver(b)' /\ StampedOnce(b)
    BY <1>9, <2>1
  <2> QED
    BY <1>1, <1>15, <2>2, <2>3, <2>4, <2>5, ChainsStay
<1>19. \A u \in Thread : \A w \in {thread'[u]} : WorkInOrder(Home[u], w)'
  <2>1. ASSUME NEW u \in Thread PROVE WorkInOrder(Home[u], thread'[u])
    <3>1. CASE u = t
      <4>1. thread'[t] = Idle(t)
        BY <1>1, IdleType, GoesOn
      <4> DEFINE work == Idle(t)
      <4>2. work.reply = << >> /\ work.new_chain = << >> /\ work.pc = "idle"
        BY DEF Idle
      <4> HIDE DEF work
      <4>3. WorkInOrder(Home[t], work)
        BY <4>2, NothingInOrder
      <4> QED
        BY <3>1, <4>1, <4>3 DEF work
    <3>2. CASE u # t
      BY <1>7, <3>2 DEF TwinsApart
    <3> QED
      BY <3>1, <3>2
  <2> QED
    BY <1>1, <1>12, <1>15, <2>1, WorksStay
<1> QED
  BY <1>17, <1>18, <1>19 DEF TwinsApart

(* A chain that was received and found valid is in order. *)
LEMMA ReceivedInOrder ==
  ASSUME NEW c \in Seq(Block), valid_chain(c), Ordered(c)
  PROVE  TakenOver(Received(c)) /\ StampedOnce(Received(c))
<1> DEFINE d == Received(c)
<1>1. /\ Len(c) \in Nat /\ Len(d) = Len(c)
      /\ \A i \in 1 .. Len(c) : d[i].list = 0 /\ d[i].block = c[i]
  BY ReceivedType
<1> HIDE DEF d
<1>2. ASSUME NEW j \in 1 .. Len(c), NEW i \in 1 .. j - 1, IsMined(c[i])
      PROVE  After(c[i].timestamp, c[j].timestamp)
  <2>1. \A k \in i + 1 .. j : k \in 2 .. Len(c)
    BY <1>1
  <2>2. Linked(c, i, j)
    BY <2>1 DEF Linked, valid_chain
  <2> QED
    BY <1>2, <2>2 DEF Ordered
<1>3. TakenOver(d)
  <2>1. \A j \in 1 .. Len(c) : \A i \in 1 .. j - 1 : i \in 1 .. Len(c)
    BY <1>1
  <2> QED
    BY <1>1, <1>2, <2>1 DEF TakenOver
<1>4. StampedOnce(d)
  BY <1>1 DEF StampedOnce
<1> QED
  BY <1>3, <1>4 DEF d

LEMMA ResolveEndsTwins ==
  ASSUME ThreadedInvariant, ThreadedInvariant', TwinsApart, NEW t \in Thread,
         ResolveEnds(t)
  PROVE  TwinsApart'
<1> DEFINE n == Home[t]
           c == thread[t].new_chain
           d == Received(c)
<1>1. /\ TypeOK /\ TypeOK' /\ n \in Node /\ ThreadNames(t) /\ NodeNames(n)
      /\ c \in Seq(Block) /\ thread[t].pc = "looping" /\ Goes(t, Idle(t))
      /\ UNCHANGED << lists, clock, overlapped >>
  BY Start, WorkFields DEF ThreadedInvariant, ResolveEnds
<1>2. ListsGrow /\ thread[t].pc \notin Stamping
  BY <1>1, SameLists DEF Stamping
<1>3. CASE c = << >>
  <2>1. UNCHANGED chains
    BY <1>3 DEF ResolveEnds
  <2> QED
    BY <1>1, <1>2, <2>1, IdleTwins
<1>4. CASE c # << >>
  <2>1. chains' = [chains EXCEPT ![n] = Append(@, d)]
    BY <1>4 DEF ResolveEnds
  <2>2. /\ \A m \in Node : m # n => chains'[m] = chains[m]
        /\ Len(chains'[n]) = Len(chains[n]) + 1
        /\ \A j \in 1 .. Len(chains[n]) : chains'[n][j] = chains[n][j]
        /\ chains'[n][Len(chains[n]) + 1] = d
        /\ Len(chains[n]) \in Nat
    BY <1>1, <2>1, AdoptionDoes, NodeTypes
  <2>3. valid_chain(c)
    BY <1>1 DEF ThreadNames
  <2>4. Ordered(c) /\ \A i \in 1 .. Len(c) : Genuine(c[i])
    BY DEF TwinsApart, WorkInOrder
  <2> HIDE DEF n, c
  <2>5. /\ Len(d) = Len(c) /\ Len(c) \in Nat
        /\ \A i \in 1 .. Len(c) : d[i].list = 0 /\ d[i].block = c[i]
    BY <1>1, ReceivedType
  <2>6. TakenOver(d) /\ StampedOnce(d)
    BY <1>1, <2>3, <2>4, ReceivedInOrder
  <2> HIDE DEF d
  <2>7. ASSUME NEW m \in Node
        PROVE  /\ ChainsOf(m) \subseteq ChainsOf(m)'
               /\ \A b \in ChainsOf(m)' : b \in ChainsOf(m) \/ (m = n /\ b = d)
    <3>1. CASE m # n
      BY <2>2, <3>1 DEF ChainsOf
    <3>2. CASE m = n
      <4>1. ASSUME NEW j \in 1 .. Len(chains'[n])
            PROVE  chains'[n][j] \in ChainsOf(n) \/ chains'[n][j] = d
        <5>1. CASE j \in 1 .. Len(chains[n])
          BY <2>2, <5>1 DEF ChainsOf
        <5>2. CASE j = Len(chains[n]) + 1
          BY <2>2, <5>2
        <5> QED
          BY <2>2, <5>1, <5>2
      <4>2. ASSUME NEW j \in 1 .. Len(chains[n])
            PROVE  chains[n][j] \in {chains'[n][i] : i \in 1 .. Len(chains'[n])}
        <5>1. j \in 1 .. Len(chains'[n]) /\ chains'[n][j] = chains[n][j]
          BY <2>2
        <5> QED
          BY <5>1
      <4> QED
        BY <3>2, <4>1, <4>2 DEF ChainsOf
    <3> QED
      BY <3>1, <3>2
  <2>8. ASSUME NEW m \in Node
        PROVE  /\ EntriesOf(m) \subseteq EntriesOf(m)'
               /\ \A e \in EntriesOf(m)' :
                    \/ e \in EntriesOf(m)
                    \/ m = n /\ \E i \in 1 .. Len(c) : e = d[i]
    <3>1. EntriesOf(m) \subseteq EntriesOf(m)'
      BY <2>7 DEF EntriesOf
    <3>2. ASSUME NEW e \in EntriesOf(m)', e \notin EntriesOf(m)
          PROVE  m = n /\ \E i \in 1 .. Len(c) : e = d[i]
      <4>1. PICK b \in ChainsOf(m)' : e \in {b[i] : i \in 1 .. Len(b)}
        BY DEF EntriesOf
      <4>2. b \notin ChainsOf(m)
        BY <3>2, <4>1 DEF EntriesOf
      <4>3. m = n /\ b = d
        BY <2>7, <4>2
      <4> QED
        BY <2>5, <4>1, <4>3
    <3> QED
      BY <3>1, <3>2
  <2>9. \A m \in Node : MinedOf(m)' = MinedOf(m)
    BY <2>5, <2>8 DEF MinedOf
  <2>10. SameStamps
    <3>1. thread'[t].pc = "idle" /\ \A u \in Thread : u # t => thread'[u] = thread[u]
      BY <1>1, IdleType, GoesOn DEF Idle
    <3> QED
      BY <1>1, <3>1 DEF SameStamps, Stamping
  <2>11. Times' = Times /\ \A m \in Node : Stamped(m)' = Stamped(m)
    BY <2>9, <2>10, StampedStays
  <2>12. Evolves
    BY <1>2, <2>9, <2>11 DEF Evolves, ListsGrow
  <2>13. StampsInOrder'
    BY <1>1, <2>10, <2>11, <2>12, StampsStay
       DEF SameStamps, TwinsApart, StampsInOrder
  <2>14. ASSUME NEW b, b = d PROVE TakenOver(b)' /\ StampedOnce(b)
    <3>1. TakenOver(b) /\ StampedOnce(b) /\ Len(b) \in Nat
      BY <2>5, <2>6, <2>14
    <3>2. \A i \in 1 .. Len(b) : b[i].list = 0 => Genuine(b[i].block)
      BY <2>4, <2>5, <2>14
    <3>3. TakenOver(b)'
      BY <2>12, <3>1, <3>2, TakenOverStays
    <3> QED
      BY <3>1, <3>3
  <2>15. ASSUME NEW m \in Node, NEW e \in EntriesOf(m)'
         PROVE  \/ e \in EntriesOf(m)
                \/ e.list < CurrentList(m)' /\ (e.list = 0 => Genuine(e.block)')
    <3>1. ASSUME m = n, NEW i \in 1 .. Len(c), e = d[i]
          PROVE  e.list < CurrentList(m)' /\ (e.list = 0 => Genuine(e.block)')
      <4> DEFINE b == e.block
      <4>1. e.list = 0 /\ b = c[i]
        BY <2>5, <3>1
      <4>2. Genuine(b)
        BY <2>4, <4>1
      <4> HIDE DEF b
      <4>3. Genuine(b)'
        BY <1>1, <2>12, <4>2, GenuineStays DEF TwinsApart
      <4>4. CurrentList(n) >= 1 /\ CurrentList(n) \in Nat
        BY <1>1, NodeTypes DEF NodeNames, CurrentList
      <4>5. CurrentList(m)' = CurrentList(n)
        BY <1>1, <3>1 DEF CurrentList
      <4> QED
        BY <4>1, <4>3, <4>4, <4>5 DEF b
    <3> QED
      BY <2>8, <3>1
  <2>16. ChainsInOrder'
    <3>1. \A m \in Node : SoleMiner(m)' => \A e, g \in Stamped(m)' :
            e.list = g.list => e.block.timestamp = g.block.timestamp
      BY <1>1, <2>11 DEF SoleMiner, TwinsApart, ChainsInOrder
    <3>2. \A m \in Node : \A b \in ChainsOf(m)' :
            \/ b \in ChainsOf(m)
            \/ TakenOver(b)' /\ StampedOnce(b)
      BY <2>7, <2>14
    <3>3. \A m \in Node : CurrentList(m)' >= CurrentList(m)
      BY <1>2 DEF ListsGrow
    <3> QED
      BY <1>1, <2>12, <2>15, <3>1, <3>2, <3>3, ChainsStay
  <2>17. \A u \in Thread : \A w \in {thread'[u]} : WorkInOrder(Home[u], w)'
    <3> DEFINE work == Idle(t)
    <3>1. work.reply = << >> /\ work.new_chain = << >> /\ work.pc = "idle"
      BY DEF Idle
    <3>2. work \in Work /\ Goes(t, work)
      BY <1>1, IdleType
    <3> HIDE DEF work
    <3>3. WorkInOrder(Home[t], work)
      BY <3>1, NothingInOrder
    <3> QED
      BY <1>1, <2>8, <2>12, <3>2, <3>3, WorkOf, WorksStay
  <2> QED
    BY <2>13, <2>16, <2>17 DEF TwinsApart
<1> QED
  BY <1>3, <1>4

LEMMA InitTwins == Init => TwinsApart
<1> SUFFICES ASSUME Init PROVE TwinsApart
  OBVIOUS
<1>1. ASSUME NEW n \in Node
      PROVE  \E c \in Seq(Entry) :
               /\ ChainsOf(n) = {c} /\ Len(c) = 1 /\ c[1].list = 0
               /\ c[1].block.previous_hash = << >>
               /\ c[1].block.transactions = << >>
  <2> DEFINE g == GenesisChain(BootTime[n])
             c == Received(g)
  <2>1. g \in Seq(Block) /\ Len(g) = 1
    BY GenesisSound, ThreadedAssumption
  <2>2. g[1].previous_hash = << >> /\ g[1].transactions = << >>
    <3> DEFINE b == [index |-> Len(<< >>) + 1, timestamp |-> BootTime[n],
                     transactions |-> << >>, proof |-> 100,
                     previous_hash |-> GenesisPreviousHash]
    <3>1. g = Append(<< >>, b)
      BY DEF GenesisChain, new_block
    <3>2. b.previous_hash = << >> /\ b.transactions = << >>
      BY DEF GenesisPreviousHash
    <3> HIDE DEF b, g
    <3>3. g[1] = b
      BY <3>1
    <3> QED
      BY <3>2, <3>3
  <2> HIDE DEF g
  <2>3. c \in Seq(Entry) /\ Len(c) = 1 /\ c[1].list = 0 /\ c[1].block = g[1]
    BY <2>1, ReceivedType
  <2>4. chains[n] = << c >>
    BY DEF Init, g
  <2> HIDE DEF c
  <2>5. ChainsOf(n) = {c}
    BY <2>4 DEF ChainsOf
  <2> QED
    BY <2>2, <2>3, <2>5
<1>2. \A t \in Thread : thread[t] = Idle(t) /\ Idle(t).pc = "idle"
  BY DEF Init, Idle
<1>3. ASSUME NEW n \in Node
      PROVE  /\ \A e \in EntriesOf(n) : e.list = 0 /\ Genuine(e.block)
             /\ \A c \in ChainsOf(n) : TakenOver(c) /\ StampedOnce(c)
             /\ Stamped(n) = {}
  <2>1. PICK c \in Seq(Entry) :
          /\ ChainsOf(n) = {c} /\ Len(c) = 1 /\ c[1].list = 0
          /\ c[1].block.previous_hash = << >>
          /\ c[1].block.transactions = << >>
    BY <1>1
  <2>2. \A e \in EntriesOf(n) : e = c[1]
    <3>1. \A i \in 1 .. Len(c) : i = 1
      BY <2>1
    <3> QED
      BY <2>1, <3>1 DEF EntriesOf
  <2>3. Genuine(c[1].block)
    BY <2>1 DEF Genuine
  <2>4. TakenOver(c) /\ StampedOnce(c)
    BY <2>1 DEF TakenOver, StampedOnce
  <2>5. InHand(n) = {}
    BY <1>2 DEF InHand, Local, Stamping
  <2>6. MinedOf(n) = {}
    BY <2>1, <2>2 DEF MinedOf
  <2> QED
    BY <2>1, <2>2, <2>3, <2>4, <2>5, <2>6 DEF Stamped
<1>4. StampsInOrder
  BY <1>2, <1>3 DEF StampsInOrder, Stamping
<1>5. \A n \in Node : CurrentList(n) = 1
  BY DEF Init, CurrentList
<1>6. ChainsInOrder
  BY <1>3, <1>5 DEF ChainsInOrder
<1>7. ASSUME NEW t \in Thread PROVE WorkInOrder(Home[t], thread[t])
  <2> DEFINE work == Idle(t)
  <2>1. work.reply = << >> /\ work.new_chain = << >> /\ work.pc = "idle"
    BY DEF Idle
  <2> HIDE DEF work
  <2>2. WorkInOrder(Home[t], work)
    BY <2>1, NothingInOrder
  <2> QED
    BY <1>2, <2>2 DEF work
<1> QED
  BY <1>4, <1>6, <1>7 DEF TwinsApart

LEMMA NextTwins ==
  ASSUME ThreadedInvariant, TwinsApart, [Next]_vars
  PROVE  TwinsApart'
<1>1. ThreadedInvariant'
  BY NextHolds
<1>2. ASSUME UNCHANGED << chains, lists, thread, clock, overlapped >>
      PROVE  TwinsApart'
  <2>1. ListsGrow /\ SameStamps
    BY <1>2, SameLists DEF SameStamps
  <2>2. \A u \in Thread : \A w \in {thread'[u]} : WorkInOrder(Home[u], w)
    BY <1>2 DEF TwinsApart
  <2> QED
    BY <1>1, <1>2, <2>1, <2>2, NothingStamped
<1>3. ASSUME NEW n \in Node, NEW i \in 1 .. Len(Registered[n]), Register(n, i)
      PROVE  TwinsApart'
  BY <1>2, <1>3 DEF Register
<1>4. ASSUME NEW t \in Thread, \E tx \in UserTransaction : PostStarts(t, tx)
      PROVE  TwinsApart'
  BY <1>1, <1>4, PostStartsTwins
<1>5. ASSUME NEW t \in Thread,
             \/ PostAppends(t)
             \/ MineStarts(t)
             \/ MineSearches(t)
             \/ MineFetches(t)
             \/ MineRewards(t)
             \/ MineHashes(t)
             \/ MineTakes(t)
             \/ MineResets(t)
             \/ MineFetchesChain(t)
             \/ MineAppends(t)
      PROVE  TwinsApart'
  BY <1>1, <1>5, AppendTwins, MineStartsTwins, MineSearchesTwins,
     MineFetchesTwins, MineHashesTwins, MineTakesTwins, MineResetsTwins,
     MineAppendsTwins
<1>6. ASSUME NEW t \in Thread,
             \/ ResolveStarts(t)
             \/ ResolveRaises(t)
             \/ ResolveAsks(t)
             \/ ResolveEnds(t)
             \/ FullChain(t)
             \/ FullChainLength(t)
             \/ Serialise(t)
             \/ ResumeResolve(t)
             \/ NotOK(t)
             \/ RequestFails(t)
      PROVE  TwinsApart'
  BY <1>1, <1>6, ResolveStartsTwins, ResolveGivesUpTwins, ResolveMovesTwins,
     ResolveEndsTwins, SerialiseTwins, ResumeResolveTwins
<1>7. CASE UNCHANGED vars
  BY <1>2, <1>7 DEF vars
<1> QED
  BY <1>3, <1>4, <1>5, <1>6, <1>7 DEF Next

-----------------------------------------------------------------------------
(* Every transaction in one place *)

LEMMA ListedPlaces ==
  ASSUME NEW all, NEW tx
  PROVE  /\ \A n \in Node : \A k \in 1 .. Len(all[n]) :
              \A p \in 1 .. Len(all[n][k]) : all[n][k][p] = tx =>
                << n, k, p >> \in ListedAt(all, tx)
         /\ \A x \in ListedAt(all, tx) :
              \E n \in Node : \E k \in 1 .. Len(all[n]) :
                \E p \in 1 .. Len(all[n][k]) :
                  x = << n, k, p >> /\ all[n][k][p] = tx
<1>1. ASSUME NEW n \in Node, NEW k \in 1 .. Len(all[n]),
             NEW p \in 1 .. Len(all[n][k]), all[n][k][p] = tx
      PROVE  << n, k, p >> \in ListedAt(all, tx)
  <2>1. << n, k, p >> \in {<< n, k, q >> : q \in PlacesIn(all[n][k], tx)}
    BY <1>1 DEF PlacesIn
  <2>2. << n, k, p >> \in
          UNION {{<< n, j, q >> : q \in PlacesIn(all[n][j], tx)} :
                   j \in 1 .. Len(all[n])}
    BY <2>1
  <2> QED
    BY <2>2 DEF ListedAt
<1>2. ASSUME NEW x \in ListedAt(all, tx)
      PROVE  \E n \in Node : \E k \in 1 .. Len(all[n]) :
               \E p \in 1 .. Len(all[n][k]) :
                 x = << n, k, p >> /\ all[n][k][p] = tx
  <2>1. PICK n \in Node :
          x \in UNION {{<< n, k, p >> : p \in PlacesIn(all[n][k], tx)} :
                         k \in 1 .. Len(all[n])}
    BY DEF ListedAt
  <2>2. PICK k \in 1 .. Len(all[n]) :
          x \in {<< n, k, p >> : p \in PlacesIn(all[n][k], tx)}
    BY <2>1
  <2>3. PICK p \in PlacesIn(all[n][k], tx) : x = << n, k, p >>
    BY <2>2
  <2>4. p \in 1 .. Len(all[n][k]) /\ all[n][k][p] = tx
    BY DEF PlacesIn
  <2> QED
    BY <2>3, <2>4
<1> QED
  BY <1>1, <1>2

(* The places of tx in lists that have got one more, at the place new. *)
LEMMA ListedLater ==
  ASSUME NEW all, NEW later, NEW tx, NEW new,
         \A n \in Node : \A k \in 1 .. Len(later[n]) :
           \A p \in 1 .. Len(later[n][k]) : later[n][k][p] = tx =>
             \/ /\ k \in 1 .. Len(all[n]) /\ p \in 1 .. Len(all[n][k])
                /\ all[n][k][p] = tx
             \/ << n, k, p >> \in new
  PROVE  ListedAt(later, tx) \subseteq ListedAt(all, tx) \cup new
<1> SUFFICES ASSUME NEW x \in ListedAt(later, tx), x \notin new
             PROVE  x \in ListedAt(all, tx)
  OBVIOUS
<1>1. PICK n \in Node : \E k \in 1 .. Len(later[n]) :
        \E p \in 1 .. Len(later[n][k]) :
          x = << n, k, p >> /\ later[n][k][p] = tx
  BY ListedPlaces
<1>2. PICK k \in 1 .. Len(later[n]) : \E p \in 1 .. Len(later[n][k]) :
        x = << n, k, p >> /\ later[n][k][p] = tx
  BY <1>1
<1>3. PICK p \in 1 .. Len(later[n][k]) :
        x = << n, k, p >> /\ later[n][k][p] = tx
  BY <1>2
<1>4. k \in 1 .. Len(all[n]) /\ p \in 1 .. Len(all[n][k]) /\ all[n][k][p] = tx
  BY <1>3
<1> QED
  BY <1>3, <1>4, ListedPlaces

(* A handler goes on, with the transaction it has, or ends. *)
Moves(t) ==
  /\ \A u \in Thread : u # t => thread'[u] = thread[u]
  /\ thread'[t].pc # "posting"
  /\ thread'[t].tx \in {thread[t].tx, Reward(Home[t])}

LEMMA IdleMoves ==
  ASSUME TypeOK, NEW t \in Thread, Goes(t, Idle(t))
  PROVE  Moves(t)
<1> DEFINE work == Idle(t)
<1>1. work.pc = "idle" /\ work.tx = Reward(Home[t])
  BY DEF Idle
<1> HIDE DEF work
<1>2. /\ thread'[t] = work
      /\ \A u \in Thread : u # t => thread'[u] = thread[u]
  BY DEF Goes, TypeOK, work
<1> QED
  BY <1>1, <1>2 DEF Moves

LEMMA WorkMoves ==
  ASSUME TypeOK, NEW t \in Thread, NEW work, Goes(t, work),
         work.pc # "posting",
         work.tx = thread[t].tx \/ work.tx = Reward(Home[t])
  PROVE  Moves(t)
<1>1. /\ thread'[t] = work
      /\ \A u \in Thread : u # t => thread'[u] = thread[u]
  BY DEF Goes, TypeOK
<1> QED
  BY <1>1 DEF Moves

(* A handler goes on without a transaction in hand, and no place is new. *)
LEMMA MovesOnce ==
  ASSUME ThreadedInvariant, PostedOnce, NEW t \in Thread, Moves(t),
         thread'[t].tx = Reward(Home[t]), UNCHANGED posted,
         \A tx \in UserTransaction \ Minted :
           ListedAt(lists', tx) \subseteq ListedAt(lists, tx)
  PROVE  PostedOnce'
<1>1. /\ thread'[t].pc # "posting"
      /\ \A u \in Thread : u # t => thread'[u] = thread[u]
  BY DEF Moves
<1>2. ASSUME NEW u \in Thread
      PROVE  IF thread'[u].pc = "posting" THEN thread'[u].tx \in posted
                                          ELSE thread'[u].tx = Reward(Home[u])
  BY <1>1 DEF PostedOnce
<1>3. ASSUME NEW u \in Thread, NEW tx, Posts(u, tx)' PROVE Posts(u, tx)
  BY <1>1, <1>3 DEF Posts
<1>4. ASSUME NEW tx \in UserTransaction \ Minted
      PROVE  /\ \A u, v \in Thread : Posts(u, tx)' /\ Posts(v, tx)' => u = v
             /\ AtMostOne(ListedAt(lists', tx))
             /\ ListedAt(lists', tx) # {} =>
                  tx \in posted /\ \A u \in Thread : ~ Posts(u, tx)'
  BY <1>3 DEF PostedOnce, AtMostOne
<1> QED
  BY <1>2, <1>4 DEF PostedOnce

(* The lists stay as they are. *)
LEMMA MovesOnceOnly ==
  ASSUME ThreadedInvariant, PostedOnce, NEW t \in Thread, Moves(t),
         thread[t].pc # "posting", UNCHANGED << lists, posted >>
  PROVE  PostedOnce'
<1>1. thread'[t].tx = Reward(Home[t])
  BY DEF PostedOnce, Moves
<1>2. \A tx \in UserTransaction \ Minted :
        ListedAt(lists', tx) \subseteq ListedAt(lists, tx)
  OBVIOUS
<1> QED
  BY <1>1, <1>2, MovesOnce

(* What an append puts where. *)
LEMMA AppendListed ==
  ASSUME ThreadedInvariant, NEW t \in Thread, AppendTransaction(t),
         thread[t].list \in 1 .. CurrentList(Home[t]), NEW tx
  PROVE  LET n == Home[t]
             k == thread[t].list
             place == << n, k, Len(lists[n][k]) + 1 >>
         IN  ListedAt(lists', tx) \subseteq ListedAt(lists, tx) \cup
               (IF thread[t].tx = tx THEN {place} ELSE {})
<1> DEFINE n == Home[t]
           k == thread[t].list
           new == IF thread[t].tx = tx THEN {<< n, k, Len(lists[n][k]) + 1 >>}
                                       ELSE {}
<1>1. TypeOK /\ n \in Node /\ lists[n] \in Seq(Seq(Transaction))
  BY Start, NodeTypes
<1>2. thread[t].tx \in Transaction
  BY <1>1, WorkFields
<1>3. /\ \A m \in Node : m # n => lists'[m] = lists[m]
      /\ Len(lists'[n]) = Len(lists[n])
      /\ \A j \in 1 .. Len(lists[n]) : j # k => lists'[n][j] = lists[n][j]
      /\ lists'[n][k] = Append(lists[n][k], thread[t].tx)
  BY <1>1 DEF AppendTransaction, TypeOK, CurrentList
<1>4. ASSUME NEW p \in 1 .. Len(lists'[n][k]), lists'[n][k][p] = tx
      PROVE  \/ p \in 1 .. Len(lists[n][k]) /\ lists[n][k][p] = tx
             \/ << n, k, p >> \in new
  <2> DEFINE old == lists[n][k]
             more == thread[t].tx
             longer == Append(old, more)
  <2>1. old \in Seq(Transaction) /\ more \in Transaction
    BY <1>1, <1>2 DEF CurrentList
  <2> HIDE DEF old, more
  <2>2. /\ Len(old) \in Nat /\ Len(longer) = Len(old) + 1
        /\ longer[Len(old) + 1] = more
        /\ \A q \in 1 .. Len(old) : longer[q] = old[q]
    BY <2>1, AppendProperties
  <2>3. lists'[n][k] = longer
    BY <1>3 DEF old, more
  <2> HIDE DEF longer
  <2>4. CASE p = Len(old) + 1
    BY <1>4, <2>2, <2>3, <2>4 DEF old, more
  <2>5. CASE p # Len(old) + 1
    <3>1. p \in 1 .. Len(old)
      BY <2>2, <2>3, <2>5
    <3>2. old[p] = tx
      BY <1>4, <2>2, <2>3, <3>1
    <3> QED
      BY <3>1, <3>2 DEF old
  <2> QED
    BY <2>4, <2>5
<1>5. k \in 1 .. Len(lists[n])
  BY DEF CurrentList
<1> HIDE DEF n, k, new
<1>6. ASSUME NEW m \in Node, NEW j \in 1 .. Len(lists'[m]),
             NEW p \in 1 .. Len(lists'[m][j]), lists'[m][j][p] = tx
      PROVE  \/ /\ j \in 1 .. Len(lists[m]) /\ p \in 1 .. Len(lists[m][j])
                /\ lists[m][j][p] = tx
             \/ << m, j, p >> \in new
  <2>1. CASE m = n /\ j = k
    BY <1>4, <1>5, <1>6, <2>1
  <2>2. CASE ~ (m = n /\ j = k)
    <3>1. j \in 1 .. Len(lists[m]) /\ lists'[m][j] = lists[m][j]
      BY <1>3, <2>2
    <3> QED
      BY <1>6, <3>1
  <2> QED
    BY <2>1, <2>2
<1>7. ListedAt(lists', tx) \subseteq ListedAt(lists, tx) \cup new
  BY <1>6, ListedLater
<1> QED
  BY <1>7 DEF n, k, new

LEMMA PostStartsOnce ==
  ASSUME ThreadedInvariant, PostedOnce, NEW t \in Thread,
         \E tx \in UserTransaction : PostStarts(t, tx)
  PROVE  PostedOnce'
<1>1. PICK new \in UserTransaction : PostStarts(t, new)
  OBVIOUS
<1> DEFINE work == [Idle(t) EXCEPT !.pc = "posting", !.tx = new,
                                   !.list = CurrentList(Home[t])]
<1>2. /\ new \notin posted /\ posted' = posted \cup {new}
      /\ Goes(t, work) /\ UNCHANGED lists
      /\ work.pc = "posting" /\ work.tx = new
  BY <1>1 DEF PostStarts, Idle
<1> HIDE DEF work
<1>3. /\ thread'[t] = work
      /\ \A u \in Thread : u # t => thread'[u] = thread[u]
  BY <1>2 DEF Goes, ThreadedInvariant, TypeOK
<1>4. ASSUME NEW u \in Thread
      PROVE  IF thread'[u].pc = "posting" THEN thread'[u].tx \in posted'
                                          ELSE thread'[u].tx = Reward(Home[u])
  BY <1>2, <1>3 DEF PostedOnce
<1>5. ASSUME NEW u \in Thread, NEW tx
      PROVE  Posts(u, tx)' => Posts(u, tx) \/ (u = t /\ tx = new)
  BY <1>2, <1>3 DEF Posts
<1>6. \A u \in Thread : ~ Posts(u, new)
  BY <1>2 DEF Posts, PostedOnce
<1>7. ASSUME NEW tx \in UserTransaction \ Minted
      PROVE  /\ \A u, v \in Thread : Posts(u, tx)' /\ Posts(v, tx)' => u = v
             /\ AtMostOne(ListedAt(lists', tx))
             /\ ListedAt(lists', tx) # {} =>
                  tx \in posted' /\ \A u \in Thread : ~ Posts(u, tx)'
  BY <1>2, <1>5, <1>6 DEF PostedOnce
<1> QED
  BY <1>4, <1>7 DEF PostedOnce

LEMMA PostAppendsOnce ==
  ASSUME ThreadedInvariant, PostedOnce, NEW t \in Thread, PostAppends(t)
  PROVE  PostedOnce'
<1> DEFINE work == Idle(t)
           new == thread[t].tx
           place == << Home[t], thread[t].list,
                       Len(lists[Home[t]][thread[t].list]) + 1 >>
<1>1. /\ thread[t].pc = "posting" /\ AppendTransaction(t) /\ Goes(t, work)
      /\ UNCHANGED posted /\ work.pc = "idle" /\ work.tx = Reward(Home[t])
  BY DEF PostAppends, Idle
<1>2. thread[t].list \in 1 .. CurrentList(Home[t])
  <2>1. ThreadNames(t) /\ thread[t].list \in Nat /\ CurrentList(Home[t]) \in Nat
    BY Start, WorkFields
  <2> QED
    BY <1>1, <2>1 DEF ThreadNames
<1>3. \A tx : ListedAt(lists', tx) \subseteq ListedAt(lists, tx) \cup
                (IF new = tx THEN {place} ELSE {})
  BY <1>1, <1>2, AppendListed
<1> HIDE DEF work, place
<1>4. /\ thread'[t] = work
      /\ \A u \in Thread : u # t => thread'[u] = thread[u]
  BY <1>1 DEF Goes, ThreadedInvariant, TypeOK
<1>5. ASSUME NEW u \in Thread
      PROVE  IF thread'[u].pc = "posting" THEN thread'[u].tx \in posted
                                          ELSE thread'[u].tx = Reward(Home[u])
  BY <1>1, <1>4 DEF PostedOnce
<1>6. ASSUME NEW u \in Thread, NEW tx
      PROVE  Posts(u, tx)' => Posts(u, tx) /\ u # t
  BY <1>1, <1>4 DEF Posts
<1>7. Posts(t, new) /\ new \in posted
  BY <1>1 DEF Posts, PostedOnce
<1> HIDE DEF new
<1>8. ASSUME NEW tx \in UserTransaction \ Minted
      PROVE  /\ \A u, v \in Thread : Posts(u, tx)' /\ Posts(v, tx)' => u = v
             /\ AtMostOne(ListedAt(lists', tx))
             /\ ListedAt(lists', tx) # {} =>
                  tx \in posted /\ \A u \in Thread : ~ Posts(u, tx)'
  <2>1. CASE tx = new
    <3>1. ListedAt(lists, tx) = {}
      BY <1>7, <2>1 DEF PostedOnce
    <3>2. ListedAt(lists', tx) \subseteq {place}
      BY <1>3, <2>1, <3>1
    <3>3. \A u \in Thread : ~ Posts(u, tx)'
      BY <1>6, <1>7, <2>1 DEF PostedOnce
    <3> QED
      BY <1>7, <2>1, <3>2, <3>3 DEF AtMostOne
  <2>2. CASE tx # new
    <3>1. ListedAt(lists', tx) \subseteq ListedAt(lists, tx)
      BY <1>3, <2>2
    <3> QED
      BY <1>6, <3>1 DEF PostedOnce, AtMostOne
  <2> QED
    BY <2>1, <2>2
<1> QED
  BY <1>1, <1>5, <1>8 DEF PostedOnce

LEMMA MineRewardsOnce ==
  ASSUME ThreadedInvariant, PostedOnce, NEW t \in Thread, MineRewards(t)
  PROVE  PostedOnce'
<1> DEFINE work == [thread[t] EXCEPT !.pc = "rewarded"]
<1>1. /\ thread[t].pc = "rewarding" /\ AppendTransaction(t) /\ Goes(t, work)
      /\ UNCHANGED posted /\ Home[t] \in Node /\ thread[t] \in Work
  BY Start, WorkFields DEF MineRewards
<1>2. work.pc = "rewarded" /\ work.tx = thread[t].tx
  BY <1>1 DEF Work
<1> HIDE DEF work
<1>3. thread[t].tx = Reward(Home[t]) /\ Reward(Home[t]) \in Minted
  BY <1>1 DEF PostedOnce, Minted
<1>4. thread[t].list \in 1 .. CurrentList(Home[t])
  <2>1. ThreadNames(t) /\ thread[t].list \in Nat /\ CurrentList(Home[t]) \in Nat
    BY Start, WorkFields
  <2> QED
    BY <1>1, <2>1 DEF ThreadNames
<1>5. ASSUME NEW tx \in UserTransaction \ Minted
      PROVE  ListedAt(lists', tx) \subseteq ListedAt(lists, tx)
  <2>1. thread[t].tx # tx
    BY <1>3
  <2> QED
    BY <1>1, <1>4, <2>1, AppendListed
<1>6. Moves(t) /\ thread'[t].tx = Reward(Home[t])
  <2>1. TypeOK
    BY Start
  <2>2. Moves(t)
    BY <1>1, <1>2, <2>1, WorkMoves
  <2> QED
    BY <1>3, <2>2 DEF Moves
<1> QED
  BY <1>1, <1>5, <1>6, MovesOnce

LEMMA MineResetsOnce ==
  ASSUME ThreadedInvariant, PostedOnce, NEW t \in Thread, MineResets(t)
  PROVE  PostedOnce'
<1> DEFINE n == Home[t]
           work == [thread[t] EXCEPT !.pc = "reset"]
           none == << >>
<1>1. /\ thread[t].pc = "taken" /\ Goes(t, work) /\ UNCHANGED posted
      /\ n \in Node /\ thread[t] \in Work
      /\ lists' = [lists EXCEPT ![n] = Append(@, none)]
      /\ lists \in [Node -> Seq(Seq(Transaction))]
  BY Start, WorkFields DEF MineResets, TypeOK
<1>2. work.pc = "reset" /\ work.tx = thread[t].tx
  BY <1>1 DEF Work
<1>3. thread[t].tx = Reward(Home[t])
  BY <1>1 DEF PostedOnce
<1>4. none \in Seq(Transaction) /\ Len(none) = 0
  OBVIOUS
<1> HIDE DEF work, n, none
<1>5. /\ \A m \in Node : m # n => lists'[m] = lists[m]
      /\ lists'[n] = Append(lists[n], none) /\ lists[n] \in Seq(Seq(Transaction))
  BY <1>1
<1>6. /\ Len(lists[n]) \in Nat /\ Len(lists'[n]) = Len(lists[n]) + 1
      /\ lists'[n][Len(lists[n]) + 1] = none
      /\ \A k \in 1 .. Len(lists[n]) : lists'[n][k] = lists[n][k]
  BY <1>4, <1>5, AppendProperties
<1>7. ASSUME NEW m \in Node, NEW k \in 1 .. Len(lists'[m]),
             NEW p \in 1 .. Len(lists'[m][k])
      PROVE  k \in 1 .. Len(lists[m]) /\ lists'[m][k] = lists[m][k]
  <2>1. CASE m # n
    BY <1>5, <2>1
  <2>2. CASE m = n
    <3>1. k # Len(lists[n]) + 1
      BY <1>4, <1>6, <2>2
    <3>2. k \in 1 .. Len(lists[n])
      BY <1>6, <2>2, <3>1
    <3> QED
      BY <1>6, <2>2, <3>2
  <2> QED
    BY <2>1, <2>2
<1>8. ASSUME NEW tx
      PROVE  ListedAt(lists', tx) \subseteq ListedAt(lists, tx)
  <2> DEFINE new == {}
  <2>1. ListedAt(lists', tx) \subseteq ListedAt(lists, tx) \cup new
    <3> HIDE DEF new
    <3> QED
      BY <1>7, ListedLater
  <2> QED
    BY <2>1
<1>9. Moves(t) /\ thread'[t].tx = Reward(Home[t])
  <2>1. TypeOK
    BY Start
  <2>2. Moves(t)
    BY <1>1, <1>2, <2>1, WorkMoves
  <2> QED
    BY <1>3, <2>2 DEF Moves
<1> QED
  BY <1>1, <1>8, <1>9, MovesOnce

LEMMA MinesOnce ==
  ASSUME ThreadedInvariant, PostedOnce, NEW t \in Thread,
         \/ MineStarts(t)
         \/ MineSearches(t)
         \/ MineFetches(t)
         \/ MineHashes(t)
         \/ MineTakes(t)
         \/ MineFetchesChain(t)
         \/ MineAppends(t)
  PROVE  PostedOnce'
<1>1. TypeOK /\ thread[t] \in Work
  BY Start, WorkFields
<1>2. thread[t].pc # "posting" /\ UNCHANGED << lists, posted >>
  BY DEF MineStarts, Accepts, MineSearches, MineFetches, MineHashes, MineTakes,
     MineFetchesChain, MineAppends
<1>3. CASE MineStarts(t)
  <2> DEFINE work == [Idle(t) EXCEPT !.pc = "hashing",
                                     !.last = last_block(CurrentChain(Home[t]))]
  <2>1. Goes(t, work) /\ work.pc = "hashing" /\ work.tx = Reward(Home[t])
    BY <1>3 DEF MineStarts, Idle
  <2> HIDE DEF work
  <2> QED
    BY <1>1, <1>2, <2>1, WorkMoves, MovesOnceOnly
<1>4. CASE MineSearches(t)
  <2>1. PICK proof \in 0 .. MaxProof :
          Goes(t, [thread[t] EXCEPT !.pc = "found", !.entry.block.proof = proof])
    BY <1>4 DEF MineSearches
  <2> DEFINE work == [thread[t] EXCEPT !.pc = "found",
                                       !.entry.block.proof = proof]
  <2>2. Goes(t, work) /\ work.pc = "found" /\ work.tx = thread[t].tx
    BY <1>1, <2>1 DEF Work
  <2> HIDE DEF work
  <2> QED
    BY <1>1, <1>2, <2>2, WorkMoves, MovesOnceOnly
<1>5. CASE MineFetches(t)
  <2> DEFINE work == [thread[t] EXCEPT !.pc = "rewarding",
                                       !.list = CurrentList(Home[t])]
  <2>1. Goes(t, work) /\ work.pc = "rewarding" /\ work.tx = thread[t].tx
    BY <1>1, <1>5 DEF MineFetches, FetchList, Work
  <2> HIDE DEF work
  <2> QED
    BY <1>1, <1>2, <2>1, WorkMoves, MovesOnceOnly
<1>6. CASE MineHashes(t)
  <2> DEFINE work == [thread[t] EXCEPT
               !.pc = "hashed",
               !.entry.block.previous_hash = hash(Now(Home[t], thread[t].last))]
  <2>1. Goes(t, work) /\ work.pc = "hashed" /\ work.tx = thread[t].tx
    BY <1>1, <1>6 DEF MineHashes, Work
  <2> HIDE DEF work
  <2> QED
    BY <1>1, <1>2, <2>1, WorkMoves, MovesOnceOnly
<1>7. CASE MineTakes(t)
  <2> DEFINE work == [thread[t] EXCEPT
               !.pc = "taken",
               !.entry.block.index = Len(CurrentChain(Home[t])) + 1,
               !.entry.block.timestamp = clock,
               !.entry.list = CurrentList(Home[t])]
  <2>1. Goes(t, work) /\ work.pc = "taken" /\ work.tx = thread[t].tx
    BY <1>1, <1>7 DEF MineTakes, Work
  <2> HIDE DEF work
  <2> QED
    BY <1>1, <1>2, <2>1, WorkMoves, MovesOnceOnly
<1>8. CASE MineFetchesChain(t)
  <2> DEFINE work == [thread[t] EXCEPT !.pc = "appending",
                                       !.chain = Len(chains[Home[t]])]
  <2>1. Goes(t, work) /\ work.pc = "appending" /\ work.tx = thread[t].tx
    BY <1>1, <1>8 DEF MineFetchesChain, Work
  <2> HIDE DEF work
  <2> QED
    BY <1>1, <1>2, <2>1, WorkMoves, MovesOnceOnly
<1>9. CASE MineAppends(t)
  BY <1>1, <1>2, <1>9, IdleMoves, MovesOnceOnly DEF MineAppends
<1> QED
  BY <1>3, <1>4, <1>5, <1>6, <1>7, <1>8, <1>9

LEMMA ResolvesOnce ==
  ASSUME ThreadedInvariant, PostedOnce, NEW t \in Thread,
         \/ ResolveStarts(t)
         \/ ResolveRaises(t)
         \/ ResolveAsks(t)
         \/ ResolveEnds(t)
         \/ FullChain(t)
         \/ FullChainLength(t)
         \/ Serialise(t)
         \/ ResumeResolve(t)
         \/ NotOK(t)
         \/ RequestFails(t)
  PROVE  PostedOnce'
<1>1. TypeOK /\ thread[t] \in Work
  BY Start, WorkFields
<1>2. thread[t].pc # "posting" /\ UNCHANGED << lists, posted >>
  BY DEF ResolveStarts, Accepts, ResolveRaises, ResolveAsks, ResolveEnds,
     FullChain, FullChainLength, Serialise, ResumeResolve, NotOK, RequestFails
<1>3. CASE ResolveStarts(t)
  <2> DEFINE work == [Idle(t) EXCEPT !.pc = "looping", !.left = nodes[Home[t]],
                                     !.known = nodes[Home[t]],
                                     !.max_length = Len(CurrentChain(Home[t]))]
  <2>1. Goes(t, work) /\ work.pc = "looping" /\ work.tx = Reward(Home[t])
    BY <1>3 DEF ResolveStarts, Idle
  <2> HIDE DEF work
  <2> QED
    BY <1>1, <1>2, <2>1, WorkMoves, MovesOnceOnly
<1>4. CASE ResolveRaises(t) \/ ResolveEnds(t) \/ RequestFails(t)
  BY <1>1, <1>2, <1>4, IdleMoves, MovesOnceOnly
  DEF ResolveRaises, ResolveEnds, RequestFails
<1>5. CASE ResolveAsks(t)
  <2>1. PICK peer \in thread[t].left :
          Goes(t, [thread[t] EXCEPT !.pc = "asking", !.peer = peer,
                                    !.left = @ \ {peer}])
    BY <1>5 DEF ResolveAsks
  <2> DEFINE work == [thread[t] EXCEPT !.pc = "asking", !.peer = peer,
                                       !.left = @ \ {peer}]
  <2>2. Goes(t, work) /\ work.pc = "asking" /\ work.tx = thread[t].tx
    BY <1>1, <2>1 DEF Work
  <2> HIDE DEF work
  <2> QED
    BY <1>1, <1>2, <2>2, WorkMoves, MovesOnceOnly
<1>6. CASE FullChain(t)
  <2> DEFINE work == [thread[t] EXCEPT !.pc = "serving",
                                       !.chain = Len(chains[thread[t].peer])]
  <2>1. Goes(t, work) /\ work.pc = "serving" /\ work.tx = thread[t].tx
    BY <1>1, <1>6 DEF FullChain, Work
  <2> HIDE DEF work
  <2> QED
    BY <1>1, <1>2, <2>1, WorkMoves, MovesOnceOnly
<1>7. CASE FullChainLength(t)
  <2> DEFINE work == [thread[t] EXCEPT
               !.pc = "serialising",
               !.length = Len(CurrentChain(thread[t].peer))]
  <2>1. Goes(t, work) /\ work.pc = "serialising" /\ work.tx = thread[t].tx
    BY <1>1, <1>7 DEF FullChainLength, Work
  <2> HIDE DEF work
  <2> QED
    BY <1>1, <1>2, <2>1, WorkMoves, MovesOnceOnly
<1>8. CASE Serialise(t)
  <2> DEFINE b == Now(thread[t].peer,
                      chains[thread[t].peer][thread[t].chain]
                        [Len(thread[t].reply) + 1])
             more == [thread[t] EXCEPT !.reply = Append(@, b)]
             done == [thread[t] EXCEPT !.pc = "answered"]
  <2>1. thread[t].pc = "serialising" /\ (Goes(t, more) \/ Goes(t, done))
    BY <1>8 DEF Serialise
  <2>2. /\ more.pc = thread[t].pc /\ more.tx = thread[t].tx
        /\ done.pc = "answered" /\ done.tx = thread[t].tx
    BY <1>1 DEF Work
  <2> HIDE DEF more, done
  <2>3. Moves(t)
    BY <1>1, <2>1, <2>2, WorkMoves
  <2> QED
    BY <1>2, <2>3, MovesOnceOnly
<1>9. CASE ResumeResolve(t)
  <2> DEFINE next == [thread[t] EXCEPT !.pc = "looping", !.reply = << >>,
                                       !.length = 0, !.chain = 0]
             better == [next EXCEPT !.max_length = thread[t].length,
                                    !.new_chain = thread[t].reply]
  <2>1. Goes(t, better) \/ Goes(t, next)
    BY <1>9 DEF ResumeResolve
  <2>2. /\ next.pc = "looping" /\ next.tx = thread[t].tx
        /\ better.pc = "looping" /\ better.tx = thread[t].tx
    BY <1>1 DEF Work
  <2> HIDE DEF next, better
  <2>3. Moves(t)
    BY <1>1, <2>1, <2>2, WorkMoves
  <2> QED
    BY <1>2, <2>3, MovesOnceOnly
<1>10. CASE NotOK(t)
  <2> DEFINE work == [thread[t] EXCEPT !.pc = "looping"]
  <2>1. Goes(t, work) /\ work.pc = "looping" /\ work.tx = thread[t].tx
    BY <1>1, <1>10 DEF NotOK, Work
  <2> HIDE DEF work
  <2> QED
    BY <1>1, <1>2, <2>1, WorkMoves, MovesOnceOnly
<1> QED
  BY <1>3, <1>4, <1>5, <1>6, <1>7, <1>8, <1>9, <1>10

LEMMA InitOnce == Init => PostedOnce
<1> SUFFICES ASSUME Init PROVE PostedOnce
  OBVIOUS
<1>1. \A t \in Thread : thread[t].pc = "idle" /\ thread[t].tx = Reward(Home[t])
  BY DEF Init, Idle
<1>2. ASSUME NEW tx, NEW x \in ListedAt(lists, tx) PROVE FALSE
  <2>1. PICK n \in Node : \E k \in 1 .. Len(lists[n]) :
          \E p \in 1 .. Len(lists[n][k]) : TRUE
    BY ListedPlaces
  <2>2. PICK k \in 1 .. Len(lists[n]) : \E p \in 1 .. Len(lists[n][k]) : TRUE
    BY <2>1
  <2> DEFINE none == << >>
  <2>3. lists[n] = << none >> /\ Len(none) = 0
    BY DEF Init
  <2> HIDE DEF none
  <2>4. lists[n][k] = none
    BY <2>3
  <2> QED
    BY <2>2, <2>3, <2>4
<1> QED
  BY <1>1, <1>2 DEF PostedOnce, Posts, AtMostOne

LEMMA NextOnce ==
  ASSUME ThreadedInvariant, PostedOnce, [Next]_vars
  PROVE  PostedOnce'
<1>1. ASSUME UNCHANGED << lists, thread, posted >>
      PROVE  PostedOnce'
  BY <1>1 DEF PostedOnce, Posts
<1>2. ASSUME NEW n \in Node, NEW i \in 1 .. Len(Registered[n]), Register(n, i)
      PROVE  PostedOnce'
  BY <1>1, <1>2 DEF Register
<1>3. ASSUME NEW t \in Thread, \E tx \in UserTransaction : PostStarts(t, tx)
      PROVE  PostedOnce'
  BY <1>3, PostStartsOnce
<1>4. ASSUME NEW t \in Thread,
             \/ PostAppends(t)
             \/ MineStarts(t)
             \/ MineSearches(t)
             \/ MineFetches(t)
             \/ MineRewards(t)
             \/ MineHashes(t)
             \/ MineTakes(t)
             \/ MineResets(t)
             \/ MineFetchesChain(t)
             \/ MineAppends(t)
      PROVE  PostedOnce'
  BY <1>4, PostAppendsOnce, MineRewardsOnce, MineResetsOnce, MinesOnce
<1>5. ASSUME NEW t \in Thread,
             \/ ResolveStarts(t)
             \/ ResolveRaises(t)
             \/ ResolveAsks(t)
             \/ ResolveEnds(t)
             \/ FullChain(t)
             \/ FullChainLength(t)
             \/ Serialise(t)
             \/ ResumeResolve(t)
             \/ NotOK(t)
             \/ RequestFails(t)
      PROVE  PostedOnce'
  BY <1>5, ResolvesOnce
<1>6. CASE UNCHANGED vars
  BY <1>1, <1>6 DEF vars
<1> QED
  BY <1>2, <1>3, <1>4, <1>5, <1>6 DEF Next

-----------------------------------------------------------------------------
(* Why that leaves nothing twice *)

(* tx is at the place p of the list with the number k of the node n. *)
Listed(n, k, p, tx) ==
  /\ k \in 1 .. Len(lists[n])
  /\ p \in 1 .. Len(lists[n][k])
  /\ lists[n][k][p] = tx

(* Where the transaction tx of a block in a chain of n comes from. *)
OriginOf(n, entry, p, tx) ==
  \E m \in Node : \E e \in MinedOf(m) :
    /\ Listed(m, e.list, p, tx)
    /\ IsMined(entry.block)
    /\ e.block.timestamp = entry.block.timestamp
    /\ entry.list # 0 => m = n /\ e = entry

LEMMA Origins ==
  ASSUME ThreadedInvariant, TwinsApart, NEW n \in Node, NEW entry \in EntriesOf(n),
         NEW tx, NEW p \in PlacesIn(Now(n, entry).transactions, tx)
  PROVE  OriginOf(n, entry, p, tx)
<1>1. TypeOK /\ ChainsInOrder /\ StampsInOrder
  BY DEF ThreadedInvariant, TwinsApart
<1>2. entry \in Entry
  BY <1>1, EntriesType
<1>3. ASSUME NEW m \in Node, NEW e \in MinedOf(m)
      PROVE  e.list \in 1 .. Len(lists[m]) /\ IsMined(e.block)
  <2>1. e \in Stamped(m)
    BY <1>1, EntriesType
  <2> QED
    BY <1>1, <2>1, ListsNamed DEF CurrentList, StampsInOrder, Names, IsMined
<1>4. CASE entry.list = 0
  <2> DEFINE b == entry.block
  <2>1. /\ Genuine(b) /\ b \in Block
        /\ p \in 1 .. Len(b.transactions) /\ b.transactions[p] = tx
    BY <1>1, <1>2, <1>4, EntryFields DEF ChainsInOrder, Now, PlacesIn
  <2> HIDE DEF b
  <2>2. b.transactions # << >>
    BY <2>1
  <2>3. PICK m \in Node : \E e \in MinedOf(m) : CopyOf(b, m, e)
    BY <2>1, <2>2 DEF Genuine
  <2>4. PICK e \in MinedOf(m) : CopyOf(b, m, e)
    BY <2>3
  <2>5. IsMined(b)
    BY <1>3, <2>4 DEF CopyOf, IsMined
  <2> QED
    BY <1>3, <1>4, <2>1, <2>4, <2>5 DEF CopyOf, OriginOf, Listed, b
<1>5. CASE entry.list # 0
  <2>1. entry \in MinedOf(n)
    BY <1>5 DEF MinedOf
  <2>2. entry.list \in 1 .. Len(lists[n]) /\ IsMined(entry.block)
    BY <1>3, <2>1
  <2>3. Now(n, entry).transactions = lists[n][entry.list]
    <3>1. entry.block \in Block
      BY <1>2, EntryFields
    <3> QED
      BY <1>5, <3>1 DEF Now, Block
  <2>4. p \in 1 .. Len(lists[n][entry.list]) /\ lists[n][entry.list][p] = tx
    BY <2>3 DEF PlacesIn
  <2> QED
    BY <2>1, <2>2, <2>4 DEF OriginOf, Listed
<1> QED
  BY <1>4, <1>5

(* Two places of tx in lists are one. *)
LEMMA OneListed ==
  ASSUME PostedOnce, NEW tx \in UserTransaction \ Minted,
         NEW n \in Node, NEW k, NEW p, Listed(n, k, p, tx),
         NEW m \in Node, NEW j, NEW q, Listed(m, j, q, tx)
  PROVE  n = m /\ k = j /\ p = q
<1>1. << n, k, p >> \in ListedAt(lists, tx) /\ << m, j, q >> \in ListedAt(lists, tx)
  BY ListedPlaces DEF Listed
<1>2. << n, k, p >> = << m, j, q >>
  BY <1>1 DEF PostedOnce, AtMostOne
<1> QED
  BY <1>2

(* No chain of a node that mines one block at a time has it in two blocks. *)
LEMMA InOneBlock ==
  ASSUME ThreadedInvariant, TwinsApart, PostedOnce, NEW n \in Node, SoleMiner(n),
         NEW tx \in UserTransaction \ Minted, NEW c \in ChainsOf(n),
         NEW j \in 1 .. Len(c), NEW i \in 1 .. j - 1,
         NEW p \in PlacesIn(Now(n, c[i]).transactions, tx),
         NEW q \in PlacesIn(Now(n, c[j]).transactions, tx)
  PROVE  FALSE
<1>1. /\ TypeOK /\ ChainsInOrder /\ TakenOver(c) /\ StampedOnce(c)
      /\ Len(c) \in Nat /\ c \in Seq(Entry)
  BY EntriesType DEF ThreadedInvariant, TwinsApart, ChainsInOrder
<1>2. i \in 1 .. Len(c) /\ i # j
  BY <1>1
<1>3. c[i] \in EntriesOf(n) /\ c[j] \in EntriesOf(n)
  BY <1>1, <1>2, EntriesType
<1>4. OriginOf(n, c[i], p, tx) /\ OriginOf(n, c[j], q, tx)
  BY <1>3, Origins
<1>5. PICK m \in Node : \E e \in MinedOf(m) :
        /\ Listed(m, e.list, p, tx)
        /\ IsMined(c[i].block)
        /\ e.block.timestamp = c[i].block.timestamp
        /\ c[i].list # 0 => m = n /\ e = c[i]
  BY <1>4 DEF OriginOf
<1>6. PICK e \in MinedOf(m) :
        /\ Listed(m, e.list, p, tx)
        /\ IsMined(c[i].block)
        /\ e.block.timestamp = c[i].block.timestamp
        /\ c[i].list # 0 => m = n /\ e = c[i]
  BY <1>5
<1>7. PICK l \in Node : \E g \in MinedOf(l) :
        /\ Listed(l, g.list, q, tx)
        /\ g.block.timestamp = c[j].block.timestamp
        /\ c[j].list # 0 => l = n /\ g = c[j]
  BY <1>4 DEF OriginOf
<1>8. PICK g \in MinedOf(l) :
        /\ Listed(l, g.list, q, tx)
        /\ g.block.timestamp = c[j].block.timestamp
        /\ c[j].list # 0 => l = n /\ g = c[j]
  BY <1>7
<1>9. l = m /\ g.list = e.list
  BY <1>6, <1>8, OneListed
<1>10. /\ e \in Stamped(m) /\ g \in Stamped(m) /\ g \in Entry
       /\ g.block.timestamp \in Nat
  <2>1. e \in Stamped(m) /\ g \in Stamped(m) /\ g \in Entry
    BY <1>1, <1>9, EntriesType
  <2>2. g.block \in Block
    BY <2>1, EntryFields
  <2> QED
    BY <2>1, <2>2 DEF Block
<1>11. CASE c[j].list = 0
  <2>1. After(c[i].block.timestamp, c[j].block.timestamp)
    BY <1>1, <1>6, <1>11 DEF TakenOver
  <2>2. << e.block.timestamp, g.block.timestamp >> \in Twins
    BY <1>9, <1>10, MinedTimes
  <2>3. g.block.timestamp < g.block.timestamp
    BY <1>6, <1>8, <2>1, <2>2 DEF After
  <2> QED
    BY <1>10, <2>3
<1>12. CASE c[j].list # 0
  <2>1. m = n
    BY <1>8, <1>9, <1>12
  <2>2. e.block.timestamp = g.block.timestamp
    BY <1>1, <1>9, <1>10, <2>1 DEF ChainsInOrder
  <2>3. c[i].block.timestamp # c[j].block.timestamp
    BY <1>1, <1>2, <1>6, <1>12 DEF StampedOnce
  <2> QED
    BY <1>6, <1>8, <2>2, <2>3
<1> QED
  BY <1>11, <1>12

(* A transaction posted once is in one place of what a sole miner believes. *)
LEMMA InOnePlace ==
  ASSUME ThreadedInvariant, TwinsApart, PostedOnce
  PROVE  SoleMinersDoubleNothing
<1> SUFFICES ASSUME NEW n \in Node, NEW tx \in UserTransaction \ Minted,
                    SoleMiner(n)
             PROVE  Cardinality(PlacesInChain(BlocksNow(n), tx))
                      + Cardinality(PlacesIn(last_block(lists[n]), tx)) <= 1
  BY DEF SoleMinersDoubleNothing
<1> DEFINE c == CurrentChain(n)
           b == BlocksNow(n)
           waiting == last_block(lists[n])
           last == CurrentList(n)
<1>1. TypeOK /\ NodeNames(n) /\ ChainsInOrder
  BY DEF ThreadedInvariant, TwinsApart
<1>2. /\ c \in ChainsOf(n) /\ c \in Seq(Entry) /\ Len(c) \in Nat
      /\ \A i \in 1 .. Len(c) : c[i] \in EntriesOf(n)
  <2>1. c = chains[n][Len(chains[n])] /\ Len(chains[n]) \in 1 .. Len(chains[n])
    BY <1>1, CurrentChainType
  <2> HIDE DEF c
  <2>2. c \in ChainsOf(n)
    BY <1>1, <2>1, EntriesType
  <2> QED
    BY <1>1, <2>2, EntriesType
<1>3. Len(b) = Len(c) /\ \A i \in 1 .. Len(c) : b[i] = Now(n, c[i])
  BY <1>1, BlocksNowType
<1>4. /\ last \in Nat /\ last >= 1 /\ last \in 1 .. Len(lists[n])
      /\ waiting = lists[n][last]
  <2>1. last \in Nat /\ last >= 1
    BY <1>1, NodeTypes DEF NodeNames, CurrentList
  <2> QED
    BY <2>1 DEF CurrentList, last_block
<1> HIDE DEF c, b, waiting, last
<1>5. ASSUME NEW x \in PlacesInChain(b, tx)
      PROVE  \E i \in 1 .. Len(c) :
               \E p \in PlacesIn(Now(n, c[i]).transactions, tx) : x = << i, p >>
  <2>1. PICK i \in 1 .. Len(b) : x \in {i} \X PlacesIn(b[i].transactions, tx)
    BY DEF PlacesInChain
  <2> QED
    BY <1>3, <2>1
<1>6. ASSUME NEW i \in 1 .. Len(c), NEW p \in PlacesIn(Now(n, c[i]).transactions, tx)
      PROVE  OriginOf(n, c[i], p, tx)
  BY <1>2, Origins
<1>7. AtMostOne(PlacesInChain(b, tx))
  <2> SUFFICES ASSUME NEW x \in PlacesInChain(b, tx),
                      NEW y \in PlacesInChain(b, tx)
               PROVE  x = y
    BY DEF AtMostOne
  <2>1. PICK i \in 1 .. Len(c) :
          \E p \in PlacesIn(Now(n, c[i]).transactions, tx) : x = << i, p >>
    BY <1>5
  <2>2. PICK p \in PlacesIn(Now(n, c[i]).transactions, tx) : x = << i, p >>
    BY <2>1
  <2>3. PICK j \in 1 .. Len(c) :
          \E q \in PlacesIn(Now(n, c[j]).transactions, tx) : y = << j, q >>
    BY <1>5
  <2>4. PICK q \in PlacesIn(Now(n, c[j]).transactions, tx) : y = << j, q >>
    BY <2>3
  <2>5. i = j
    <3>1. CASE i < j
      <4>1. i \in 1 .. j - 1
        BY <1>2, <3>1
      <4> QED
        BY <1>2, <4>1, InOneBlock
    <3>2. CASE j < i
      <4>1. j \in 1 .. i - 1
        BY <1>2, <3>2
      <4> QED
        BY <1>2, <4>1, InOneBlock
    <3> QED
      BY <1>2, <3>1, <3>2
  <2>6. p = q
    <3>1. OriginOf(n, c[i], p, tx) /\ OriginOf(n, c[i], q, tx)
      BY <1>6, <2>5
    <3>2. PICK m \in Node : \E e \in MinedOf(m) : Listed(m, e.list, p, tx)
      BY <3>1 DEF OriginOf
    <3>3. PICK l \in Node : \E g \in MinedOf(l) : Listed(l, g.list, q, tx)
      BY <3>1 DEF OriginOf
    <3> QED
      BY <3>2, <3>3, OneListed
  <2> QED
    BY <2>2, <2>4, <2>5, <2>6
<1>8. AtMostOne(PlacesIn(waiting, tx))
  <2> SUFFICES ASSUME NEW p \in PlacesIn(waiting, tx),
                      NEW q \in PlacesIn(waiting, tx)
               PROVE  p = q
    BY DEF AtMostOne
  <2>1. Listed(n, last, p, tx) /\ Listed(n, last, q, tx)
    BY <1>4 DEF PlacesIn, Listed
  <2> QED
    BY <2>1, OneListed
<1>9. PlacesInChain(b, tx) = {} \/ PlacesIn(waiting, tx) = {}
  <2> SUFFICES ASSUME NEW x \in PlacesInChain(b, tx), NEW q \in PlacesIn(waiting, tx)
               PROVE  FALSE
    OBVIOUS
  <2>1. PICK i \in 1 .. Len(c) :
          \E p \in PlacesIn(Now(n, c[i]).transactions, tx) : x = << i, p >>
    BY <1>5
  <2>2. PICK p \in PlacesIn(Now(n, c[i]).transactions, tx) : x = << i, p >>
    BY <2>1
  <2>3. PICK m \in Node : \E e \in MinedOf(m) : Listed(m, e.list, p, tx)
    BY <1>6 DEF OriginOf
  <2>4. PICK e \in MinedOf(m) : Listed(m, e.list, p, tx)
    BY <2>3
  <2>5. Listed(n, last, q, tx)
    BY <1>4 DEF PlacesIn, Listed
  <2>6. m = n /\ e.list = last
    BY <2>4, <2>5, OneListed
  <2>7. e.list < last
    BY <1>1, <2>6, ListsNamed DEF last
  <2> QED
    BY <1>4, <2>6, <2>7
<1>10. Cardinality(PlacesInChain(b, tx)) + Cardinality(PlacesIn(waiting, tx)) <= 1
  BY <1>7, <1>8, <1>9, OnceCounted
<1> QED
  BY <1>10 DEF b, waiting

(* A transaction posted once is never twice in the chain and the list of a  *)
(* node that mines one block at a time, whatever its neighbours do to their *)
(* chains while they serve them.                                            *)
THEOREM SoleMinersOnce == Spec => []SoleMinersDoubleNothing
<1>1. Init => ThreadedInvariant /\ TwinsApart /\ PostedOnce
  BY InitHolds, InitTwins, InitOnce
<1>2. ThreadedInvariant /\ TwinsApart /\ PostedOnce /\ [Next]_vars =>
        (ThreadedInvariant /\ TwinsApart /\ PostedOnce)'
  BY NextHolds, NextTwins, NextOnce
<1>3. ThreadedInvariant /\ TwinsApart /\ PostedOnce => SoleMinersDoubleNothing
  BY InOnePlace
<1> QED
  BY <1>1, <1>2, <1>3, PTL DEF Spec

=============================================================================
