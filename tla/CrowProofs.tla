------------------------------ MODULE CrowProofs ------------------------------
(***************************************************************************)
(* Theorems about the connections of a worker of crow, for any number of   *)
(* connections and any tick: flags, keys and deadlines stay together.      *)
(***************************************************************************)
EXTENDS CrowConnection, TLAPS

Deadline == [owner: Conn \cup {NoConn}, age: 0 .. tick]

(***************************************************************************)
(* The deadlines as they are: one of a connection has the number that the  *)
(* connection keeps, and its age is the silence of the connection.         *)
(***************************************************************************)
LEMMA Queue ==
  ASSUME CrowInvariant
  PROVE  /\ dq \in Seq(Deadline)
         /\ Len(dq) \in Nat
         /\ step \in Nat
         /\ \A i \in 1 .. Len(dq) :
              /\ dq[i] \in Deadline
              /\ dq[i].owner \in Conn \cup {NoConn}
              /\ dq[i].age \in 0 .. tick
              /\ dq[i].owner # NoConn => /\ dq[i].age = silent[dq[i].owner]
                                         /\ conn[dq[i].owner].key = step + i
         /\ \A c \in Conn : /\ conn[c] \in Connection
                            /\ conn[c].key \in Nat
                            /\ conn[c].key <= step + Len(dq)
                            /\ c # NoConn
<1>1. dq \in Seq(Deadline) /\ step \in Nat /\ conn \in [Conn -> Connection]
  BY DEF CrowInvariant, TypeOK, Deadline
<1>2. \A i \in 1 .. Len(dq) : dq[i] \in Deadline
  BY <1>1
<1> QED
  BY <1>1, <1>2, CrowAssumption
     DEF CrowInvariant, KeysFindTheirDeadlines, Deadline, Connection

(* Cancelling by the key of c leaves no deadline of c, and all others. *)
LEMMA CancelledQueue ==
  ASSUME CrowInvariant, NEW c \in Conn
  PROVE  LET q == Cancelled(dq, conn[c].key)
         IN  /\ q \in Seq(Deadline)
             /\ Len(q) = Len(dq)
             /\ \A i \in 1 .. Len(dq) :
                  /\ dq[i].owner = c => q[i].owner = NoConn
                  /\ dq[i].owner # c => q[i] = dq[i]
<1> DEFINE key == conn[c].key
           q == Cancelled(dq, key)
<1>1. /\ dq \in Seq(Deadline) /\ Len(dq) \in Nat /\ step \in Nat /\ key \in Nat
      /\ key <= step + Len(dq) /\ c # NoConn
      /\ \A i \in 1 .. Len(dq) :
           /\ dq[i] \in Deadline
           /\ dq[i].owner = c => key = step + i
           /\ key = step + i => dq[i].owner = c
  BY Queue DEF CrowInvariant, KeysFindTheirDeadlines
<1> HIDE DEF key
<1>2. CASE key > step
  <2> DEFINE j == key - step
  <2>1. j \in 1 .. Len(dq) /\ key = step + j
    BY <1>1, <1>2
  <2> DEFINE x == [dq[j] EXCEPT !.owner = NoConn]
  <2>2. q = [dq EXCEPT ![j] = x]
    BY <1>1, <1>2, <2>1 DEF Cancelled
  <2> HIDE DEF j, q
  <2>3. dq[j].owner = c /\ \A i \in 1 .. Len(dq) : dq[i].owner = c => i = j
    BY <1>1, <2>1
  <2>4. x \in Deadline /\ x.owner = NoConn
    BY <1>1, <2>1 DEF Deadline
  <2>5. q \in Seq(Deadline) /\ Len(q) = Len(dq)
    BY <1>1, <2>1, <2>2, <2>4
  <2>6. \A i \in 1 .. Len(dq) : q[i] = IF i = j THEN x ELSE dq[i]
    BY <1>1, <2>1, <2>2
  <2> QED
    BY <2>3, <2>4, <2>5, <2>6 DEF q, key
<1>3. CASE ~ (key > step)
  <2>1. q = dq
    BY <1>1, <1>3 DEF Cancelled
  <2>2. \A i \in 1 .. Len(dq) : dq[i].owner # c
    BY <1>1, <1>3
  <2> HIDE DEF q
  <2> QED
    BY <1>1, <2>1, <2>2 DEF q, key
<1> QED
  BY <1>2, <1>3

(* start_deadline leaves one deadline of c, the last, that has just begun. *)
LEMMA AddedQueue ==
  ASSUME CrowInvariant, NEW c \in Conn
  PROVE  /\ Added(dq, c) \in Seq(Deadline)
         /\ Len(Added(dq, c)) = Len(dq) + 1
         /\ Added(dq, c)[Len(dq) + 1].owner = c
         /\ Added(dq, c)[Len(dq) + 1].age = 0
         /\ \A i \in 1 .. Len(dq) :
              /\ dq[i].owner = c => Added(dq, c)[i].owner = NoConn
              /\ dq[i].owner # c => Added(dq, c)[i] = dq[i]
<1> DEFINE q == Cancelled(dq, conn[c].key)
           last == [owner |-> c, age |-> 0]
<1>1. /\ q \in Seq(Deadline)
      /\ Len(q) = Len(dq)
      /\ \A i \in 1 .. Len(dq) :
           /\ dq[i].owner = c => q[i].owner = NoConn
           /\ dq[i].owner # c => q[i] = dq[i]
  BY CancelledQueue
<1>2. last \in Deadline /\ last.owner = c /\ last.age = 0
  BY CrowAssumption DEF Deadline
<1>3. Added(dq, c) = Append(q, last)
  BY DEF Added
<1> HIDE DEF q, last
<1>4. /\ Append(q, last) \in Seq(Deadline)
      /\ Len(Append(q, last)) = Len(q) + 1
      /\ Append(q, last)[Len(q) + 1] = last
      /\ \A i \in 1 .. Len(q) : Append(q, last)[i] = q[i]
  BY <1>1, <1>2
<1> QED
  BY <1>1, <1>2, <1>3, <1>4

-----------------------------------------------------------------------------
(* The invariant in parts *)

QueueOK ==
  /\ dq \in Seq(Deadline)
  /\ step \in Nat
  /\ silent \in [Conn -> 0 .. tick]
  /\ \A i \in 1 .. Len(dq) : dq[i].owner # NoConn =>
       /\ dq[i].age = silent[dq[i].owner]
       /\ conn[dq[i].owner].key = step + i
       /\ conn[dq[i].owner].life = "alive"
  /\ \A c \in Conn :
       /\ conn[c].key <= step + Len(dq)
       /\ \A i \in 1 .. Len(dq) : conn[c].key = step + i => dq[i].owner = c

(* ReadsNoMore and the rest that CrowInvariant says of a connection, of an *)
(* object, its client, and whether its handler runs.                      *)
NoMore(object, other) ==
  \/ /\ object.is_reading
     /\ object.write = "none"
     /\ ~ object.is_open \/ ~ other.connected
  \/ /\ ~ object.is_reading
     /\ object.close_connection
     /\ object.write \in {"pending", "written"}
  \/ /\ ~ object.is_reading
     /\ ~ object.close_connection
     /\ ~ object.is_open
     /\ object.write \in {"pending", "behind"} \/ ~ other.connected
     /\ object.write # "written"

FlagsOf(object, other, handled) ==
  /\ (object.is_writing <=> object.write # "none")
  /\ object.read # "none" \/ handled => object.is_reading
  /\ ~ (object.read # "none" /\ handled)
  /\ object.life # "alive" => ~ object.is_reading /\ ~ object.is_writing
  /\ object.read # "none" \/ object.life \in {"listening", "posted"} =>
       ~ object.close_connection
  /\ object.read = "ended" \/ object.write = "behind" => ~ other.connected
  /\ object.write = "behind" => object.read # "pending"
  /\ other.inbox \in {"keep", "close"} => other.waits
  /\ object.write = "pending" \/ handled => other.waits /\ other.inbox = "nothing"
  /\ object.life = "alive" /\ object.read = "none" /\ ~ handled =>
       NoMore(object, other)

FlagsOK(c) == FlagsOf(conn[c], client[c], handling = c)

OthersTyped ==
  /\ conn \in [Conn -> Connection]
  /\ client \in [Conn -> Client]
  /\ due \in BOOLEAN
  /\ handling \in Conn \cup {NoConn}

LEMMA Parts ==
  CrowInvariant <=> OthersTyped /\ QueueOK /\ \A c \in Conn : FlagsOK(c)
<1>1. CrowInvariant => OthersTyped /\ QueueOK /\ \A c \in Conn : FlagsOK(c)
  <2> SUFFICES ASSUME CrowInvariant
               PROVE  OthersTyped /\ QueueOK /\ \A c \in Conn : FlagsOK(c)
    OBVIOUS
  <2>1. OthersTyped /\ \A c \in Conn : FlagsOK(c)
    BY DEF CrowInvariant, TypeOK, OthersTyped, FlagsOK, FlagsOf, NoMore,
           ReadsNoMore
  <2>2. \A i \in 1 .. Len(dq) : dq[i].owner # NoConn =>
          conn[dq[i].owner].life = "alive"
    BY Queue DEF CrowInvariant, Runs
  <2>3. QueueOK
    BY <2>2, Queue DEF CrowInvariant, TypeOK, QueueOK, KeysFindTheirDeadlines
  <2> QED
    BY <2>1, <2>3
<1>2. OthersTyped /\ QueueOK /\ (\A c \in Conn : FlagsOK(c)) => CrowInvariant
  <2> SUFFICES ASSUME OthersTyped, QueueOK, \A c \in Conn : FlagsOK(c)
               PROVE  CrowInvariant
    OBVIOUS
  <2>1. TypeOK
    BY DEF OthersTyped, QueueOK, TypeOK, Deadline
  <2>2. \A c \in Conn : conn[c].life # "alive" => ~ Runs(c)
    BY CrowAssumption DEF QueueOK, Runs
  <2> QED
    BY <2>1, <2>2 DEF FlagsOK, FlagsOf, NoMore, ReadsNoMore, QueueOK,
                      CrowInvariant, KeysFindTheirDeadlines
<1> QED
  BY <1>1, <1>2

LEMMA PartsNext ==
  OthersTyped' /\ QueueOK' /\ (\A c \in Conn : FlagsOK(c))' => CrowInvariant'
BY Parts, PTL

(* The flags of an object do not depend on its key. *)
LEMMA FlagsOfKey ==
  ASSUME NEW object \in Connection, NEW other \in Client, NEW handled \in BOOLEAN,
         NEW key \in Nat
  PROVE  LET new == [object EXCEPT !.key = key]
         IN  /\ new \in Connection
             /\ new.key = key
             /\ FlagsOf(object, other, handled) => FlagsOf(new, other, handled)
<1> DEFINE new == [object EXCEPT !.key = key]
<1>1. /\ new \in Connection /\ new.key = key
      /\ new.life = object.life /\ new.is_open = object.is_open
      /\ new.is_reading = object.is_reading
      /\ new.is_writing = object.is_writing
      /\ new.close_connection = object.close_connection
      /\ new.read = object.read /\ new.write = object.write
  BY DEF Connection
<1> HIDE DEF new
<1>2. FlagsOf(object, other, handled) => FlagsOf(new, other, handled)
  BY <1>1 DEF FlagsOf, NoMore
<1> QED
  BY <1>1, <1>2 DEF new

LEMMA Fields ==
  ASSUME CrowInvariant, NEW c \in Conn
  PROVE  /\ conn[c] \in Connection
         /\ client[c] \in Client
         /\ FlagsOK(c)
         /\ OthersTyped
         /\ QueueOK
BY Parts DEF OthersTyped

(* A step that changes one object, and leaves the queue and flags in order. *)
LEMMA ObjectStep ==
  ASSUME CrowInvariant, NEW c \in Conn,
         NEW object \in Connection, NEW other \in Client,
         conn' = [conn EXCEPT ![c] = object],
         client' = [client EXCEPT ![c] = other],
         due' \in BOOLEAN,
         handling' \in Conn \cup {NoConn},
         \A d \in Conn : d # c => (handling' = d <=> handling = d),
         QueueOK', FlagsOf(object, other, handling' = c)
  PROVE  CrowInvariant'
<1>1. OthersTyped /\ \A d \in Conn : FlagsOK(d)
  BY Parts
<1>2. OthersTyped'
  BY <1>1 DEF OthersTyped
<1>3. ASSUME NEW d \in Conn, d # c
      PROVE  FlagsOK(d)'
  <2>1. conn'[d] = conn[d] /\ client'[d] = client[d]
    BY <1>1, <1>3 DEF OthersTyped
  <2> QED
    BY <1>1, <1>3, <2>1 DEF FlagsOK, FlagsOf, NoMore
<1>4. conn'[c] = object /\ client'[c] = other
  BY <1>1 DEF OthersTyped
<1>5. FlagsOK(c)'
  BY <1>4 DEF FlagsOK
<1>6. (\A d \in Conn : FlagsOK(d))'
  BY <1>3, <1>5
<1> QED
  BY <1>2, <1>6, PartsNext

LEMMA QueueAdded ==
  ASSUME CrowInvariant, NEW c \in Conn, NEW object \in Connection,
         StartReading(c, object), object.life = "alive"
  PROVE  QueueOK' /\ \E key \in Nat :
           conn' = [conn EXCEPT ![c] = [object EXCEPT
             !.key = key, !.is_reading = TRUE, !.read = "pending"]]
<1> DEFINE q == Added(dq, c)
           key == KeyOfLast(q)
           new == [object EXCEPT !.key = key, !.is_reading = TRUE,
                                 !.read = "pending"]
<1>1. /\ dq' = q /\ step' = step
      /\ conn' = [conn EXCEPT ![c] = new]
      /\ silent' = [silent EXCEPT ![c] = 0]
  BY DEF StartReading
<1>2. /\ OthersTyped /\ QueueOK /\ Len(dq) \in Nat /\ step \in Nat
      /\ conn \in [Conn -> Connection] /\ silent \in [Conn -> 0 .. tick]
      /\ \A d \in Conn : d # NoConn /\ conn[d].key \in Nat
      /\ \A i \in 1 .. Len(dq) : dq[i] \in Deadline
  BY Fields, Queue DEF OthersTyped, QueueOK
<1>3. /\ q \in Seq(Deadline)
      /\ Len(q) = Len(dq) + 1
      /\ q[Len(dq) + 1].owner = c
      /\ q[Len(dq) + 1].age = 0
      /\ \A i \in 1 .. Len(dq) :
           /\ dq[i].owner = c => q[i].owner = NoConn
           /\ dq[i].owner # c => q[i] = dq[i]
  BY AddedQueue
<1> HIDE DEF q
<1>4. key = step + Len(dq) + 1 /\ key \in Nat
  BY <1>2, <1>3 DEF KeyOfLast
<1> HIDE DEF key
<1>5. new.key = key /\ new.life = "alive"
  BY <1>4 DEF Connection
<1>6. /\ conn'[c] = new /\ silent'[c] = 0
      /\ \A d \in Conn : d # c => conn'[d] = conn[d] /\ silent'[d] = silent[d]
      /\ silent' \in [Conn -> 0 .. tick]
  BY <1>1, <1>2, CrowAssumption
<1> HIDE DEF new
<1>7. ASSUME NEW i \in 1 .. Len(q)
      PROVE  /\ q[i].owner # NoConn => /\ q[i].age = silent'[q[i].owner]
                                      /\ conn'[q[i].owner].key = step + i
                                      /\ conn'[q[i].owner].life = "alive"
             /\ \A d \in Conn : conn'[d].key = step + i => q[i].owner = d
  <2>1. CASE i = Len(dq) + 1
    <3>1. \A d \in Conn : d # c => conn'[d].key # step + i
      BY <1>2, <1>6, <2>1 DEF QueueOK
    <3> QED
      BY <1>2, <1>3, <1>4, <1>5, <1>6, <2>1, <3>1
  <2>2. CASE i \in 1 .. Len(dq) /\ dq[i].owner = c
    <3>1. q[i].owner = NoConn
      BY <1>2, <1>3, <2>2 DEF Deadline
    <3>2. conn'[c].key # step + i
      BY <1>2, <1>4, <1>5, <1>6, <2>2
    <3>3. \A d \in Conn : d # c => conn'[d].key # step + i
      BY <1>2, <1>6, <2>2 DEF QueueOK
    <3> QED
      BY <3>1, <3>2, <3>3
  <2>3. CASE i \in 1 .. Len(dq) /\ dq[i].owner # c
    <3>1. q[i] = dq[i] /\ (dq[i].owner # NoConn => dq[i].owner \in Conn)
      BY <1>2, <1>3, <2>3 DEF Deadline
    <3>2. conn'[c].key # step + i
      BY <1>2, <1>4, <1>5, <1>6, <2>3
    <3>3. /\ dq[i].owner # NoConn => /\ dq[i].age = silent[dq[i].owner]
                                     /\ conn[dq[i].owner].key = step + i
                                     /\ conn[dq[i].owner].life = "alive"
          /\ \A d \in Conn : conn[d].key = step + i => dq[i].owner = d
      BY <1>2, <2>3 DEF QueueOK
    <3> QED
      BY <1>6, <2>3, <3>1, <3>2, <3>3
  <2> QED
    BY <1>2, <1>3, <2>1, <2>2, <2>3
<1>8. \A d \in Conn : conn'[d].key <= step + Len(q)
  <2>1. \A d \in Conn : conn[d].key <= step + Len(dq)
    BY <1>2 DEF QueueOK
  <2>2. conn'[c].key = step + Len(q)
    BY <1>2, <1>3, <1>4, <1>5, <1>6
  <2>3. ASSUME NEW d \in Conn, d # c
        PROVE  conn'[d].key <= step + Len(q)
    <3>1. conn'[d].key = conn[d].key
      BY <1>6, <2>3
    <3>2. conn[d].key <= step + Len(dq) /\ conn[d].key \in Nat
      BY <1>2, <2>1
    <3>3. Len(q) = Len(dq) + 1 /\ Len(dq) \in Nat /\ step \in Nat
      BY <1>2, <1>3
    <3> QED
      BY <3>1, <3>2, <3>3
  <2>4. step + Len(q) <= step + Len(q)
    BY <1>2, <1>3
  <2> QED
    BY <2>2, <2>3, <2>4
<1>9. QueueOK'
  BY <1>1, <1>2, <1>3, <1>6, <1>7, <1>8 DEF QueueOK
<1> QED
  BY <1>1, <1>4, <1>9 DEF new

LEMMA QueueStopped ==
  ASSUME CrowInvariant, NEW c \in Conn, NEW object \in Connection,
         StopDeadline(c, object)
  PROVE  QueueOK' /\ conn' = [conn EXCEPT ![c] = [object EXCEPT !.key = 0]]
<1> DEFINE q == Cancelled(dq, conn[c].key)
           new == [object EXCEPT !.key = 0]
<1>1. /\ dq' = q /\ step' = step
      /\ conn' = [conn EXCEPT ![c] = new]
      /\ silent' = [silent EXCEPT ![c] = 0]
  BY DEF StopDeadline
<1>2. /\ QueueOK /\ Len(dq) \in Nat /\ step \in Nat
      /\ conn \in [Conn -> Connection] /\ silent \in [Conn -> 0 .. tick]
      /\ \A d \in Conn : d # NoConn /\ conn[d].key \in Nat
      /\ \A i \in 1 .. Len(dq) : dq[i] \in Deadline
  BY Fields, Queue DEF OthersTyped, QueueOK
<1>3. /\ q \in Seq(Deadline)
      /\ Len(q) = Len(dq)
      /\ \A i \in 1 .. Len(dq) :
           /\ dq[i].owner = c => q[i].owner = NoConn
           /\ dq[i].owner # c => q[i] = dq[i]
  BY CancelledQueue
<1> HIDE DEF q
<1>5. new.key = 0
  BY DEF Connection
<1>6. /\ conn'[c] = new
      /\ \A d \in Conn : d # c => conn'[d] = conn[d] /\ silent'[d] = silent[d]
      /\ silent' \in [Conn -> 0 .. tick]
  BY <1>1, <1>2, CrowAssumption
<1> HIDE DEF new
<1>7. ASSUME NEW i \in 1 .. Len(q)
      PROVE  /\ q[i].owner # NoConn => /\ q[i].age = silent'[q[i].owner]
                                      /\ conn'[q[i].owner].key = step + i
                                      /\ conn'[q[i].owner].life = "alive"
             /\ \A d \in Conn : conn'[d].key = step + i => q[i].owner = d
  <2>1. conn'[c].key # step + i
    BY <1>2, <1>3, <1>5, <1>6
  <2>2. CASE dq[i].owner = c
    <3>1. q[i].owner = NoConn
      BY <1>2, <1>3, <2>2 DEF Deadline
    <3>2. \A d \in Conn : d # c => conn'[d].key # step + i
      BY <1>2, <1>3, <1>6, <2>2 DEF QueueOK
    <3> QED
      BY <2>1, <3>1, <3>2
  <2>3. CASE dq[i].owner # c
    <3>1. q[i] = dq[i] /\ (dq[i].owner # NoConn => dq[i].owner \in Conn)
      BY <1>2, <1>3, <2>3 DEF Deadline
    <3>2. /\ dq[i].owner # NoConn => /\ dq[i].age = silent[dq[i].owner]
                                     /\ conn[dq[i].owner].key = step + i
                                     /\ conn[dq[i].owner].life = "alive"
          /\ \A d \in Conn : conn[d].key = step + i => dq[i].owner = d
      BY <1>2, <1>3 DEF QueueOK
    <3> QED
      BY <1>6, <2>1, <2>3, <3>1, <3>2
  <2> QED
    BY <2>2, <2>3
<1>8. \A d \in Conn : conn'[d].key <= step + Len(q)
  <2>1. \A d \in Conn : conn[d].key <= step + Len(q)
    BY <1>2, <1>3 DEF QueueOK
  <2>2. conn'[c].key <= step + Len(q)
    BY <1>2, <1>3, <1>5, <1>6
  <2> QED
    BY <1>6, <2>1, <2>2
<1>9. QueueOK'
  BY <1>1, <1>2, <1>3, <1>6, <1>7, <1>8 DEF QueueOK
<1> QED
  BY <1>1, <1>9 DEF new

(* The queue stays in order when an object changes but for its key and life. *)
LEMMA QueueKept ==
  ASSUME CrowInvariant, NEW c \in Conn, NEW object \in Connection,
         conn' = [conn EXCEPT ![c] = object],
         object.key = conn[c].key,
         object.life = conn[c].life \/ conn[c].life # "alive",
         UNCHANGED << dq, step, silent >>
  PROVE  QueueOK'
<1>1. QueueOK /\ conn \in [Conn -> Connection]
  BY Fields DEF OthersTyped
<1>2. /\ conn'[c] = object
      /\ \A d \in Conn : d # c => conn'[d] = conn[d]
  BY <1>1
<1>3. \A i \in 1 .. Len(dq) : dq[i].owner # NoConn => dq[i].owner \in Conn
  BY Queue
<1> QED
  BY <1>1, <1>2, <1>3 DEF QueueOK

-----------------------------------------------------------------------------
(* The inductive invariant *)

LEMMA InitHolds == Init => CrowInvariant
<1> SUFFICES ASSUME Init PROVE CrowInvariant
  OBVIOUS
<1>1. << >> \in Seq(Deadline) /\ Len(<< >>) = 0
  OBVIOUS
<1>2. OthersTyped
  BY DEF Init, OthersTyped, Connection, Client
<1>3. \A c \in Conn : FlagsOK(c) /\ conn[c].key = 0
  BY CrowAssumption DEF Init, FlagsOK, FlagsOf
<1>4. dq = << >> /\ step = 0 /\ silent \in [Conn -> 0 .. tick]
  BY CrowAssumption DEF Init
<1>5. QueueOK
  BY <1>1, <1>3, <1>4 DEF QueueOK
<1> QED
  BY <1>2, <1>3, <1>5, Parts

LEMMA AcceptHolds ==
  ASSUME CrowInvariant, NEW c \in Conn, Accept(c) \/ AcceptFails(c)
  PROVE  CrowInvariant'
<1>1. /\ conn[c] \in Connection /\ client[c] \in Client /\ FlagsOK(c)
      /\ OthersTyped /\ conn[c].life = "listening"
      /\ UNCHANGED << dq, step, silent, due, handling >>
  BY Fields DEF Accept, AcceptFails
<1>2. /\ ~ conn[c].is_reading /\ ~ conn[c].is_writing
      /\ conn[c].read = "none" /\ conn[c].write = "none" /\ handling # c
      /\ ~ conn[c].close_connection
  BY <1>1 DEF FlagsOK, FlagsOf
<1>3. CASE Accept(c)
  <2> DEFINE object == [conn[c] EXCEPT !.life = "posted", !.is_open = TRUE]
             other == [client[c] EXCEPT !.connected = TRUE]
  <2>1. conn' = [conn EXCEPT ![c] = object] /\ client' = [client EXCEPT ![c] = other]
    BY <1>1, <1>3 DEF Accept, OthersTyped
  <2>2. /\ object \in Connection /\ other \in Client
        /\ object.life = "posted" /\ object.key = conn[c].key
        /\ ~ object.is_reading /\ ~ object.is_writing
        /\ object.read = "none" /\ object.write = "none"
        /\ ~ object.close_connection
        /\ other.inbox = client[c].inbox /\ other.waits = client[c].waits
    BY <1>1, <1>2 DEF Connection, Client
  <2> HIDE DEF object, other
  <2>3. FlagsOf(object, other, handling' = c)
    BY <1>1, <1>2, <2>2 DEF FlagsOK, FlagsOf
  <2>4. QueueOK'
    BY <1>1, <2>1, <2>2, QueueKept
  <2> QED
    BY <1>1, <2>1, <2>2, <2>3, <2>4, ObjectStep DEF OthersTyped
<1>4. CASE AcceptFails(c)
  <2> DEFINE object == [conn[c] EXCEPT !.life = "deleted"]
  <2>1. /\ conn' = [conn EXCEPT ![c] = object]
        /\ client' = [client EXCEPT ![c] = client[c]]
    BY <1>1, <1>4 DEF AcceptFails, OthersTyped
  <2>2. /\ object \in Connection
        /\ object.life = "deleted" /\ object.key = conn[c].key
        /\ ~ object.is_reading /\ ~ object.is_writing
        /\ object.read = "none" /\ object.write = "none"
    BY <1>1, <1>2 DEF Connection
  <2> HIDE DEF object
  <2>3. FlagsOf(object, client[c], handling' = c)
    BY <1>1, <1>2, <2>2 DEF FlagsOK, FlagsOf
  <2>4. QueueOK'
    BY <1>1, <2>1, <2>2, QueueKept
  <2> QED
    BY <1>1, <2>1, <2>2, <2>3, <2>4, ObjectStep DEF OthersTyped
<1> QED
  BY <1>3, <1>4

(* A callback of c that starts a read. *)
LEMMA ReadsOn ==
  ASSUME CrowInvariant, NEW c \in Conn, NEW object \in Connection,
         StartReading(c, object), object.life = "alive",
         ~ object.close_connection, object.write # "behind",
         (object.is_writing <=> object.write # "none"),
         NEW other \in Client, client' = [client EXCEPT ![c] = other],
         other.inbox \in {"keep", "close"} => other.waits,
         object.write = "pending" => other.waits /\ other.inbox = "nothing",
         due' = due,
         handling' \in {handling, NoConn}, handling' # c,
         \A d \in Conn : d # c => (handling' = d <=> handling = d)
  PROVE  CrowInvariant'
<1>1. QueueOK' /\ OthersTyped
  BY QueueAdded, Fields
<1>2. PICK key \in Nat :
        conn' = [conn EXCEPT ![c] = [object EXCEPT
          !.key = key, !.is_reading = TRUE, !.read = "pending"]]
  BY QueueAdded
<1> DEFINE new == [object EXCEPT !.key = key, !.is_reading = TRUE,
                                 !.read = "pending"]
<1>3. /\ new \in Connection /\ new.is_reading /\ new.read = "pending"
      /\ new.life = "alive" /\ new.is_writing = object.is_writing
      /\ new.write = object.write /\ ~ new.close_connection
  BY DEF Connection
<1> HIDE DEF new
<1>4. conn' = [conn EXCEPT ![c] = new]
  BY <1>2 DEF new
<1>5. FlagsOf(new, other, handling' = c)
  BY <1>3 DEF FlagsOf
<1>6. due' \in BOOLEAN /\ handling' \in Conn \cup {NoConn}
  BY <1>1 DEF OthersTyped
<1> QED
  BY <1>1, <1>3, <1>4, <1>5, <1>6, ObjectStep

(* A callback of c that stops the deadline. *)
LEMMA StopsDeadline ==
  ASSUME CrowInvariant, NEW c \in Conn, NEW object \in Connection,
         StopDeadline(c, object),
         NEW other \in Client, client' = [client EXCEPT ![c] = other],
         FlagsOf(object, other, handling' = c),
         due' = due,
         handling' \in {handling, c, NoConn},
         \A d \in Conn : d # c => (handling' = d <=> handling = d)
  PROVE  CrowInvariant'
<1> DEFINE new == [object EXCEPT !.key = 0]
<1>1. QueueOK' /\ conn' = [conn EXCEPT ![c] = new] /\ OthersTyped
  BY QueueStopped, Fields
<1>2. new \in Connection /\ FlagsOf(new, other, handling' = c)
  BY FlagsOfKey
<1>3. due' \in BOOLEAN /\ handling' \in Conn \cup {NoConn}
  BY <1>1 DEF OthersTyped
<1> HIDE DEF new
<1> QED
  BY <1>1, <1>2, <1>3, ObjectStep

LEMMA StartHolds ==
  ASSUME CrowInvariant, NEW c \in Conn, Start(c)
  PROVE  CrowInvariant'
<1> DEFINE object == [conn[c] EXCEPT !.life = "alive"]
<1>1. /\ conn[c] \in Connection /\ client[c] \in Client /\ FlagsOK(c)
      /\ OthersTyped /\ conn[c].life = "posted"
      /\ StartReading(c, object) /\ UNCHANGED << client, due, handling >>
      /\ handling # c
  BY Fields, CrowAssumption DEF Start, WorkerIsFree
<1>2. /\ ~ conn[c].close_connection /\ ~ conn[c].is_writing
      /\ conn[c].write = "none"
      /\ client[c].inbox \in {"keep", "close"} => client[c].waits
  BY <1>1 DEF FlagsOK, FlagsOf
<1>3. /\ object \in Connection /\ object.life = "alive"
      /\ ~ object.close_connection /\ ~ object.is_writing
      /\ object.write = "none"
  BY <1>1, <1>2 DEF Connection
<1>4. client' = [client EXCEPT ![c] = client[c]]
  BY <1>1 DEF OthersTyped
<1> HIDE DEF object
<1> QED
  BY <1>1, <1>2, <1>3, <1>4, ReadsOn

LEMMA ReadPartHolds ==
  ASSUME CrowInvariant, NEW c \in Conn, ReadPart(c)
  PROVE  CrowInvariant'
<1> DEFINE object == conn[c]
           other == [client[c] EXCEPT !.inbox = "nothing"]
<1>1. /\ object \in Connection /\ client[c] \in Client /\ FlagsOK(c)
      /\ OthersTyped /\ object.read = "pending" /\ object.write # "written"
      /\ client[c].inbox = "part"
      /\ StartReading(c, object) /\ UNCHANGED << due, handling >>
      /\ client' = [client EXCEPT ![c].inbox = "nothing"]
      /\ handling # c
  BY Fields, CrowAssumption DEF ReadPart, ReadIsNext, WorkerIsFree
<1>2. /\ object.life = "alive" /\ (object.is_writing <=> object.write # "none")
      /\ ~ object.close_connection
      /\ object.write = "none"
  BY <1>1 DEF FlagsOK, FlagsOf, Connection
<1>3. /\ other \in Client /\ client' = [client EXCEPT ![c] = other]
      /\ other.inbox = "nothing"
  BY <1>1 DEF Client, OthersTyped
<1> HIDE DEF object, other
<1> QED
  BY <1>1, <1>2, <1>3, ReadsOn

LEMMA CompleteHolds ==
  ASSUME CrowInvariant, NEW c \in Conn, ReadRequest(c) \/ ReadRequestThrows(c)
  PROVE  CrowInvariant'
<1> DEFINE closes == client[c].inbox = "close"
           object == [conn[c] EXCEPT !.read = "none", !.close_connection = closes]
           other == [client[c] EXCEPT !.inbox = "nothing"]
<1>1. /\ conn[c] \in Connection /\ client[c] \in Client /\ FlagsOK(c)
      /\ OthersTyped /\ conn[c].read = "pending" /\ conn[c].write # "written"
      /\ client[c].inbox \in {"keep", "close"} /\ handling = NoConn
      /\ StopDeadline(c, object) /\ due' = due
      /\ client' = [client EXCEPT ![c].inbox = "nothing"]
      /\ \/ handling' = c
         \/ handling' = handling /\ (~ conn[c].is_open \/ ~ client[c].connected)
  BY Fields
     DEF ReadRequest, ReadRequestThrows, Complete, ReadIsNext, WorkerIsFree
<1>2. /\ conn[c].is_reading /\ conn[c].life = "alive"
      /\ ~ conn[c].is_writing /\ conn[c].write = "none"
      /\ client[c].waits
  BY <1>1 DEF FlagsOK, FlagsOf, Connection
<1>3. closes \in BOOLEAN
  OBVIOUS
<1> HIDE DEF closes
<1>4. /\ object \in Connection /\ object.is_reading /\ object.read = "none"
      /\ object.life = "alive" /\ ~ object.is_writing /\ object.write = "none"
      /\ object.is_open = conn[c].is_open
  BY <1>1, <1>2, <1>3 DEF Connection
<1>5. /\ other \in Client /\ client' = [client EXCEPT ![c] = other]
      /\ other.connected = client[c].connected
      /\ other.inbox = "nothing" /\ other.waits
  BY <1>1, <1>2 DEF Client, OthersTyped
<1> HIDE DEF object, other
<1>6. /\ handling' \in {handling, c, NoConn}
      /\ \A d \in Conn : d # c => (handling' = d <=> handling = d)
      /\ handling' # c => ~ object.is_open \/ ~ other.connected
  BY <1>1, <1>4, <1>5, CrowAssumption
<1>7. FlagsOf(object, other, handling' = c)
  BY <1>4, <1>5, <1>6 DEF FlagsOf, NoMore
<1> QED
  BY <1>1, <1>4, <1>5, <1>6, <1>7, StopsDeadline DEF closes

(* check_destroy deletes or does nothing. *)
LEMMA Checked ==
  ASSUME NEW object \in Connection
  PROVE  /\ CheckDestroyed(object) \in Connection
         /\ CheckDestroyed(object).key = object.key
         /\ object.is_reading \/ object.is_writing =>
              CheckDestroyed(object) = object
         /\ ~ object.is_reading /\ ~ object.is_writing =>
              CheckDestroyed(object).life = "deleted"
         /\ CheckDestroyed(object).is_reading = object.is_reading
         /\ CheckDestroyed(object).is_writing = object.is_writing
         /\ CheckDestroyed(object).read = object.read
         /\ CheckDestroyed(object).write = object.write
BY DEF CheckDestroyed, Connection

LEMMA HandlerReturnsHolds ==
  ASSUME CrowInvariant, NEW c \in Conn, HandlerReturns(c)
  PROVE  CrowInvariant'
<1> DEFINE object == [conn[c] EXCEPT !.is_writing = TRUE, !.write = "pending"]
           closing == [object EXCEPT !.is_reading = FALSE]
<1>1. /\ conn[c] \in Connection /\ client[c] \in Client /\ FlagsOK(c)
      /\ OthersTyped /\ handling = c /\ handling' = NoConn
      /\ UNCHANGED << client, due >>
      /\ \/ conn[c].close_connection /\ StopDeadline(c, CheckDestroyed(closing))
         \/ ~ conn[c].close_connection /\ StartReading(c, object)
  BY Fields DEF HandlerReturns
<1>2. /\ conn[c].is_reading /\ conn[c].life = "alive" /\ conn[c].read = "none"
      /\ client[c].waits /\ client[c].inbox = "nothing"
  BY <1>1 DEF FlagsOK, FlagsOf
<1>3. /\ client' = [client EXCEPT ![c] = client[c]]
      /\ c # NoConn
      /\ \A d \in Conn : d # c => (handling' = d <=> handling = d)
  BY <1>1, CrowAssumption DEF OthersTyped
<1>4. /\ object \in Connection /\ object.life = "alive"
      /\ object.is_writing /\ object.write = "pending"
      /\ object.close_connection = conn[c].close_connection
      /\ object.read = "none"
  BY <1>1, <1>2 DEF Connection
<1> HIDE DEF object
<1>5. /\ closing \in Connection /\ closing.life = "alive"
      /\ closing.is_writing /\ closing.write = "pending" /\ ~ closing.is_reading
      /\ closing.close_connection = conn[c].close_connection
      /\ closing.read = "none"
  BY <1>4 DEF Connection
<1> HIDE DEF closing
<1>6. CASE ~ conn[c].close_connection /\ StartReading(c, object)
  BY <1>1, <1>2, <1>3, <1>4, <1>6, ReadsOn
<1>7. CASE conn[c].close_connection /\ StopDeadline(c, CheckDestroyed(closing))
  <2>1. CheckDestroyed(closing) = closing
    BY <1>5, Checked
  <2>2. FlagsOf(closing, client[c], handling' = c)
    BY <1>1, <1>2, <1>3, <1>5, <1>7 DEF FlagsOf, NoMore
  <2> QED
    BY <1>1, <1>3, <1>5, <1>7, <2>1, <2>2, StopsDeadline
<1> QED
  BY <1>1, <1>6, <1>7

LEMMA ReadErrorHolds ==
  ASSUME CrowInvariant, NEW c \in Conn, ReadError(c)
  PROVE  CrowInvariant'
<1> DEFINE object == [conn[c] EXCEPT !.is_open = FALSE, !.is_reading = FALSE,
                                     !.read = "none"]
           new == CheckDestroyed(object)
<1>1. /\ conn[c] \in Connection /\ client[c] \in Client /\ FlagsOK(c)
      /\ OthersTyped /\ conn[c].read # "none" /\ conn[c].write # "written"
      /\ handling = NoConn
      /\ UNCHANGED << client, due, handling >>
      /\ StopDeadline(c, new)
  BY Fields DEF ReadError, ReadIsNext, ReadFailed, WorkerIsFree
<1>2. /\ client' = [client EXCEPT ![c] = client[c]]
      /\ handling' # c
  BY <1>1, CrowAssumption DEF OthersTyped
<1>3. /\ conn[c].life = "alive" /\ ~ conn[c].close_connection
      /\ (conn[c].is_writing <=> conn[c].write # "none")
      /\ conn[c].write = "behind" => ~ client[c].connected
      /\ client[c].inbox \in {"keep", "close"} => client[c].waits
      /\ conn[c].write = "pending" => client[c].waits /\ client[c].inbox = "nothing"
  BY <1>1 DEF FlagsOK, FlagsOf
<1>4. /\ object \in Connection
      /\ ~ object.is_reading /\ object.read = "none" /\ ~ object.is_open
      /\ object.is_writing = conn[c].is_writing /\ object.write = conn[c].write
      /\ object.life = "alive" /\ ~ object.close_connection
  BY <1>1, <1>3 DEF Connection
<1> HIDE DEF object
<1>5. CASE conn[c].write = "none"
  <2>1. /\ new \in Connection /\ new.life = "deleted" /\ new.read = "none"
        /\ new.write = "none" /\ ~ new.is_reading /\ ~ new.is_writing
    BY <1>3, <1>4, <1>5, Checked
  <2> HIDE DEF new
  <2>2. FlagsOf(new, client[c], handling' = c)
    BY <1>2, <1>3, <2>1 DEF FlagsOf
  <2> QED
    BY <1>1, <1>2, <2>1, <2>2, StopsDeadline
<1>6. CASE conn[c].write # "none"
  <2>1. new = object
    BY <1>3, <1>4, <1>6, Checked
  <2>2. conn[c].write \in {"pending", "behind"}
    BY <1>1, <1>6 DEF Connection
  <2> HIDE DEF new
  <2>3. FlagsOf(object, client[c], handling' = c)
    BY <1>2, <1>3, <1>4, <1>6, <2>2 DEF FlagsOf, NoMore
  <2> QED
    BY <1>1, <1>2, <1>4, <2>1, <2>3, StopsDeadline
<1> QED
  BY <1>5, <1>6

(* The end of an operation, seen by the reactor, changes no deadline. *)
LEMMA OperationEndsHolds ==
  ASSUME CrowInvariant, NEW c \in Conn, ReadEnds(c) \/ WriteDone(c)
  PROVE  CrowInvariant'
<1>1. /\ conn[c] \in Connection /\ client[c] \in Client /\ FlagsOK(c)
      /\ OthersTyped /\ handling = NoConn /\ handling # c
      /\ UNCHANGED << dq, step, due, handling, silent >>
  BY Fields, CrowAssumption DEF ReadEnds, WriteDone, WorkerIsFree
<1>2. CASE ReadEnds(c)
  <2> DEFINE object == [conn[c] EXCEPT !.read = "ended"]
  <2>1. /\ conn' = [conn EXCEPT ![c] = object]
        /\ client' = [client EXCEPT ![c] = client[c]]
        /\ conn[c].read = "pending" /\ ~ client[c].connected
    BY <1>1, <1>2 DEF ReadEnds, OthersTyped
  <2>2. /\ object \in Connection
        /\ object.key = conn[c].key /\ object.life = conn[c].life
        /\ object.is_reading = conn[c].is_reading
        /\ object.is_writing = conn[c].is_writing
        /\ object.close_connection = conn[c].close_connection
        /\ object.read = "ended" /\ object.write = conn[c].write
    BY <1>1 DEF Connection
  <2> HIDE DEF object
  <2>3. FlagsOf(object, client[c], handling' = c)
    BY <1>1, <2>1, <2>2 DEF FlagsOK, FlagsOf
  <2>4. QueueOK'
    BY <1>1, <2>1, <2>2, QueueKept
  <2> QED
    BY <1>1, <2>1, <2>2, <2>3, <2>4, ObjectStep DEF OthersTyped
<1>3. CASE WriteDone(c)
  <2> DEFINE write == IF conn[c].read = "ended" THEN "behind" ELSE "written"
             object == [conn[c] EXCEPT !.write = write]
             other == [client[c] EXCEPT !.waits = FALSE]
  <2>1. /\ conn' = [conn EXCEPT ![c] = object]
        /\ client' = [client EXCEPT ![c] = other]
        /\ conn[c].write = "pending" /\ conn[c].is_open
    BY <1>1, <1>3 DEF WriteDone, OthersTyped
  <2>2. /\ write \in {"behind", "written"}
        /\ write = "behind" <=> conn[c].read = "ended"
    OBVIOUS
  <2> HIDE DEF write
  <2>3. /\ object \in Connection
        /\ object.key = conn[c].key /\ object.life = conn[c].life
        /\ object.is_open
        /\ object.is_reading = conn[c].is_reading
        /\ object.is_writing = conn[c].is_writing
        /\ object.close_connection = conn[c].close_connection
        /\ object.read = conn[c].read /\ object.write = write
    BY <1>1, <2>1, <2>2 DEF Connection
  <2>4. /\ other \in Client /\ other.connected = client[c].connected
        /\ other.inbox = client[c].inbox
    BY <1>1 DEF Client
  <2> HIDE DEF object, other
  <2>5. FlagsOf(object, other, handling' = c)
    BY <1>1, <2>1, <2>2, <2>3, <2>4 DEF FlagsOK, FlagsOf, NoMore
  <2>6. QueueOK'
    BY <1>1, <2>1, <2>3, QueueKept
  <2> QED
    BY <1>1, <2>1, <2>3, <2>4, <2>5, <2>6, ObjectStep DEF OthersTyped
<1> QED
  BY <1>2, <1>3

LEMMA WriteOverHolds ==
  ASSUME CrowInvariant, NEW c \in Conn, NEW object \in Connection,
         WriteOver(c, object), handling = NoConn, UNCHANGED client,
         object.key = conn[c].key,
         object.life = "deleted" \/ object.life = conn[c].life,
         FlagsOf(object, client[c], FALSE)
  PROVE  CrowInvariant'
<1>1. /\ OthersTyped /\ handling' = NoConn /\ c # NoConn
      /\ UNCHANGED << due, handling >>
      /\ client[c] \in Client /\ client' = [client EXCEPT ![c] = client[c]]
  BY Fields, CrowAssumption DEF WriteOver, OthersTyped
<1>2. /\ FlagsOf(object, client[c], handling' = c)
      /\ due' = due /\ handling' \in {handling, c, NoConn}
      /\ \A d \in Conn : d # c => (handling' = d <=> handling = d)
  BY <1>1 DEF FlagsOf
<1>3. CASE object.life = "deleted" /\ StopDeadline(c, object)
  BY <1>1, <1>2, <1>3, StopsDeadline
<1>4. CASE /\ object.life # "deleted"
           /\ conn' = [conn EXCEPT ![c] = object]
           /\ UNCHANGED << dq, step, silent >>
  <2>1. QueueOK'
    BY <1>4, QueueKept
  <2>2. due' \in BOOLEAN /\ handling' \in Conn \cup {NoConn}
    BY <1>1 DEF OthersTyped
  <2> QED
    BY <1>1, <1>2, <1>4, <2>1, <2>2, ObjectStep
<1> QED
  BY <1>3, <1>4 DEF WriteOver

LEMMA WriteEndsHolds ==
  ASSUME CrowInvariant, NEW c \in Conn, Written(c) \/ WriteError(c)
  PROVE  CrowInvariant'
<1> DEFINE object == [conn[c] EXCEPT !.is_writing = FALSE, !.write = "none"]
           closed == [object EXCEPT !.is_open = FALSE]
<1>1. /\ conn[c] \in Connection /\ client[c] \in Client /\ FlagsOK(c)
      /\ OthersTyped /\ conn[c].write # "none" /\ handling = NoConn
      /\ handling # c /\ UNCHANGED client
  BY Fields, CrowAssumption DEF Written, WriteError, WorkerIsFree
<1>2. /\ conn[c].life = "alive"
      /\ conn[c].read # "none" =>
           conn[c].is_reading /\ ~ conn[c].close_connection
      /\ conn[c].read = "ended" => ~ client[c].connected
      /\ client[c].inbox \in {"keep", "close"} => client[c].waits
      /\ conn[c].read = "none" => ~ conn[c].is_reading
  BY <1>1 DEF FlagsOK, FlagsOf, NoMore
<1>3. /\ object \in Connection /\ object.life = "alive"
      /\ object.key = conn[c].key
      /\ ~ object.is_writing /\ object.write = "none"
      /\ object.is_reading = conn[c].is_reading
      /\ object.read = conn[c].read
      /\ object.is_open = conn[c].is_open
      /\ object.close_connection = conn[c].close_connection
  BY <1>1, <1>2 DEF Connection
<1> HIDE DEF object
<1>4. /\ closed \in Connection /\ closed.life = "alive"
      /\ closed.key = conn[c].key
      /\ ~ closed.is_writing /\ closed.write = "none"
      /\ closed.is_reading = conn[c].is_reading
      /\ closed.read = conn[c].read
  BY <1>3 DEF Connection
<1> HIDE DEF closed
<1>5. CASE WriteError(c) /\ conn[c].read # "none"
  <2>1. CheckDestroyed(object) = object
    BY <1>2, <1>3, <1>5, Checked
  <2>2. WriteOver(c, object)
    BY <1>5, <2>1 DEF WriteError, object
  <2>3. FlagsOf(object, client[c], FALSE)
    BY <1>2, <1>3, <1>5 DEF FlagsOf
  <2> QED
    BY <1>1, <1>2, <1>3, <2>2, <2>3, WriteOverHolds
<1>6. CASE WriteError(c) /\ conn[c].read = "none"
  <2> DEFINE new == CheckDestroyed(object)
  <2>1. /\ new \in Connection /\ new.life = "deleted" /\ new.key = conn[c].key
        /\ new.read = "none" /\ new.write = "none"
        /\ ~ new.is_reading /\ ~ new.is_writing
    BY <1>2, <1>3, <1>6, Checked
  <2>2. WriteOver(c, new)
    BY <1>6 DEF WriteError, object
  <2> HIDE DEF new
  <2>3. FlagsOf(new, client[c], FALSE)
    BY <1>2, <2>1 DEF FlagsOf
  <2> QED
    BY <1>1, <2>1, <2>2, <2>3, WriteOverHolds
<1>7. CASE Written(c) /\ conn[c].close_connection
  <2> DEFINE new == CheckDestroyed(closed)
  <2>1. conn[c].read = "none" /\ ~ conn[c].is_reading
    BY <1>2, <1>7
  <2>2. /\ new \in Connection /\ new.life = "deleted" /\ new.key = conn[c].key
        /\ new.read = "none" /\ new.write = "none"
        /\ ~ new.is_reading /\ ~ new.is_writing
    BY <1>4, <2>1, Checked
  <2>3. WriteOver(c, new)
    BY <1>3, <1>7 DEF Written, object, closed
  <2> HIDE DEF new
  <2>4. FlagsOf(new, client[c], FALSE)
    BY <1>2, <2>2 DEF FlagsOf
  <2> QED
    BY <1>1, <2>2, <2>3, <2>4, WriteOverHolds
<1>8. CASE Written(c) /\ ~ conn[c].close_connection
  <2>1. WriteOver(c, object)
    BY <1>3, <1>8 DEF Written, object
  <2>2. /\ \/ conn[c].write = "written"
           \/ conn[c].write = "behind" /\ conn[c].read # "ended"
    BY <1>8 DEF Written
  <2>3. conn[c].read # "none" \/ (~ conn[c].is_open /\ ~ client[c].connected)
    BY <1>1, <1>2, <1>8, <2>2 DEF FlagsOK, FlagsOf, NoMore
  <2>4. FlagsOf(object, client[c], FALSE)
    BY <1>2, <1>3, <1>8, <2>3 DEF FlagsOf, NoMore
  <2> QED
    BY <1>1, <1>2, <1>3, <2>1, <2>4, WriteOverHolds
<1> QED
  BY <1>5, <1>6, <1>7, <1>8

LEMMA ClientHolds ==
  ASSUME CrowInvariant, NEW c \in Conn, Send(c) \/ Disconnect(c)
  PROVE  CrowInvariant'
<1>1. /\ conn[c] \in Connection /\ client[c] \in Client /\ FlagsOK(c)
      /\ OthersTyped /\ QueueOK
      /\ UNCHANGED << conn, dq, step, due, handling, silent >>
  BY Fields DEF Send, Disconnect
<1>2. PICK other \in Client :
        /\ client' = [client EXCEPT ![c] = other]
        /\ FlagsOf(conn[c], other, handling = c)
  <2>1. CASE Send(c)
    <3>1. PICK piece \in Piece :
            client' = [client EXCEPT ![c].inbox = piece,
                                     ![c].waits = piece # "part",
                                     ![c].sends = @ + 1]
      BY <2>1 DEF Send
    <3> DEFINE waits == piece # "part"
               other == [client[c] EXCEPT !.inbox = piece, !.waits = waits,
                                          !.sends = @ + 1]
    <3>2. client' = [client EXCEPT ![c] = other]
      BY <1>1, <3>1 DEF OthersTyped
    <3>3. \A waited \in BOOLEAN, count \in Nat :
            LET sent == [client[c] EXCEPT !.inbox = piece, !.waits = waited,
                                          !.sends = count]
            IN  /\ sent \in Client /\ sent.connected = client[c].connected
                /\ sent.inbox = piece /\ sent.waits = waited
      BY <1>1 DEF Client
    <3>4. waits \in BOOLEAN /\ (piece \in {"keep", "close"} => waits)
      OBVIOUS
    <3>5. client[c].sends + 1 \in Nat
      BY <1>1 DEF Client
    <3> HIDE DEF waits
    <3>6. /\ other \in Client /\ other.connected = client[c].connected
          /\ other.inbox = piece /\ other.waits = waits
      BY <3>3, <3>4, <3>5
    <3> HIDE DEF other
    <3>7. ~ client[c].waits
      BY <2>1 DEF Send
    <3>8. FlagsOf(conn[c], other, handling = c)
      BY <1>1, <3>4, <3>6, <3>7 DEF FlagsOK, FlagsOf, NoMore
    <3> QED
      BY <3>2, <3>6, <3>8
  <2>2. CASE Disconnect(c)
    <3> DEFINE other == [client[c] EXCEPT !.connected = FALSE]
    <3>1. client' = [client EXCEPT ![c] = other]
      BY <2>2 DEF Disconnect
    <3>2. /\ other \in Client /\ ~ other.connected
          /\ other.inbox = client[c].inbox /\ other.waits = client[c].waits
      BY <1>1 DEF Client
    <3> HIDE DEF other
    <3>3. FlagsOf(conn[c], other, handling = c)
      BY <1>1, <3>2 DEF FlagsOK, FlagsOf, NoMore
    <3> QED
      BY <3>1, <3>2, <3>3
  <2> QED
    BY <2>1, <2>2
<1>3. conn' = [conn EXCEPT ![c] = conn[c]] /\ handling' = handling
  BY <1>1 DEF OthersTyped
<1>4. FlagsOf(conn[c], other, handling' = c)
  BY <1>2, <1>3
<1>5. QueueOK'
  BY <1>1 DEF QueueOK
<1>6. /\ due' \in BOOLEAN /\ handling' \in Conn \cup {NoConn}
      /\ \A d \in Conn : d # c => (handling' = d <=> handling = d)
  BY <1>1 DEF OthersTyped
<1>7. client' = [client EXCEPT ![c] = other]
  BY <1>2
<1> QED
  BY <1>1, <1>3, <1>4, <1>5, <1>6, <1>7, ObjectStep

LEMMA SecondHolds ==
  ASSUME CrowInvariant, Second
  PROVE  CrowInvariant'
<1>1. /\ OthersTyped /\ QueueOK /\ \A c \in Conn : FlagsOK(c)
      /\ UNCHANGED << conn, client, step, handling >> /\ due' = TRUE
      /\ Len(dq) \in Nat /\ tick \in Nat
  BY Parts, Queue, CrowAssumption DEF Second
<1>2. \A age \in 0 .. tick : Older(age) \in 0 .. tick
  BY <1>1 DEF Older
<1>3. ASSUME NEW i \in 1 .. Len(dq)
      PROVE  /\ dq'[i] \in Deadline
             /\ dq'[i].owner = dq[i].owner
             /\ dq'[i].age = Older(dq[i].age)
  <2> DEFINE age == Older(dq[i].age)
  <2>1. dq[i] \in Deadline /\ dq'[i] = [dq[i] EXCEPT !.age = age]
    BY Queue DEF Second
  <2>2. age \in 0 .. tick
    BY <1>2, <2>1 DEF Deadline
  <2> HIDE DEF age
  <2>3. dq'[i] \in Deadline /\ dq'[i].owner = dq[i].owner /\ dq'[i].age = age
    BY <2>1, <2>2 DEF Deadline
  <2> QED
    BY <2>3 DEF age
<1>4. dq' \in Seq(Deadline) /\ Len(dq') = Len(dq)
  <2>1. dq' = [i \in 1 .. Len(dq) |-> dq'[i]]
    BY DEF Second
  <2> QED
    BY <1>1, <1>3, <2>1
<1>5. \A c \in Conn :
        silent'[c] = IF Runs(c) THEN Older(silent[c]) ELSE silent[c]
  BY DEF Second
<1>6. silent' \in [Conn -> 0 .. tick]
  <2>1. silent' = [c \in Conn |-> silent'[c]]
    BY DEF Second
  <2>2. \A c \in Conn : silent[c] \in 0 .. tick
    BY <1>1 DEF QueueOK
  <2> QED
    BY <1>2, <1>5, <2>1, <2>2
<1>7. ASSUME NEW i \in 1 .. Len(dq), dq[i].owner # NoConn
      PROVE  /\ dq[i].owner \in Conn
             /\ dq'[i].age = silent'[dq[i].owner]
             /\ conn[dq[i].owner].key = step + i
             /\ conn[dq[i].owner].life = "alive"
  <2>1. dq[i].owner \in Conn /\ Runs(dq[i].owner)
    BY <1>7, Queue DEF Runs
  <2> QED
    BY <1>1, <1>3, <1>5, <1>7, <2>1 DEF QueueOK
<1>8. QueueOK'
  BY <1>1, <1>3, <1>4, <1>6, <1>7 DEF QueueOK
<1>9. OthersTyped' /\ (\A c \in Conn : FlagsOK(c))'
  BY <1>1 DEF OthersTyped, FlagsOK, FlagsOf, NoMore
<1> QED
  BY <1>8, <1>9, PartsNext

LEMMA ProcessTimersHolds ==
  ASSUME CrowInvariant, ProcessTimers
  PROVE  CrowInvariant'
<1>1. /\ OthersTyped /\ QueueOK /\ \A c \in Conn : FlagsOK(c)
      /\ UNCHANGED << client, handling, silent >> /\ due' = FALSE
      /\ Len(dq) \in Nat /\ step \in Nat /\ dq \in Seq(Deadline)
  BY Parts, Queue DEF ProcessTimers
<1>2. PICK k \in 0 .. Len(dq) :
        /\ conn' = [c \in Conn |->
             IF \E i \in 1 .. k : dq[i].owner = c
               THEN [conn[c] EXCEPT !.is_open = FALSE]
               ELSE conn[c]]
        /\ dq' = SubSeq(dq, k + 1, Len(dq))
        /\ step' = step + k
  BY DEF ProcessTimers
<1>3. ASSUME NEW c \in Conn
      PROVE  /\ conn'[c] \in Connection
             /\ conn'[c] = conn[c]
                \/ conn'[c] = [conn[c] EXCEPT !.is_open = FALSE]
             /\ conn'[c].life = conn[c].life
             /\ conn'[c].key = conn[c].key
  <2>1. conn[c] \in Connection
    BY <1>1 DEF OthersTyped
  <2>2. \/ conn'[c] = conn[c]
        \/ conn'[c] = [conn[c] EXCEPT !.is_open = FALSE]
    BY <1>2
  <2> QED
    BY <2>1, <2>2 DEF Connection
<1>4. /\ dq' \in Seq(Deadline)
      /\ Len(dq') = Len(dq) - k
      /\ \A i \in 1 .. Len(dq) - k : dq'[i] = dq[i + k]
  BY <1>1, <1>2
<1>5. \A i \in 1 .. Len(dq') : i + k \in 1 .. Len(dq) /\ dq'[i] = dq[i + k]
                               /\ step' + i = step + (i + k)
  <2>1. k \in 0 .. Len(dq) /\ Len(dq) \in Nat /\ step \in Nat
    BY <1>1, <1>2
  <2>2. step' = step + k
    BY <1>2
  <2>3. ASSUME NEW i \in 1 .. Len(dq')
        PROVE  i + k \in 1 .. Len(dq) /\ step + k + i = step + (i + k)
    BY <1>4, <2>1
  <2> QED
    BY <1>4, <2>2, <2>3
<1>6. \A i \in 1 .. Len(dq) : dq[i].owner # NoConn => dq[i].owner \in Conn
  BY Queue
<1>7. ASSUME NEW i \in 1 .. Len(dq')
      PROVE  /\ dq'[i].owner # NoConn =>
                  /\ dq'[i].age = silent'[dq'[i].owner]
                  /\ conn'[dq'[i].owner].key = step' + i
                  /\ conn'[dq'[i].owner].life = "alive"
             /\ \A c \in Conn : conn'[c].key = step' + i => dq'[i].owner = c
  <2> DEFINE j == i + k
  <2>1. j \in 1 .. Len(dq) /\ dq'[i] = dq[j] /\ step' + i = step + j
    BY <1>5
  <2> HIDE DEF j
  <2>2. /\ dq[j].owner # NoConn => /\ dq[j].owner \in Conn
                                   /\ dq[j].age = silent[dq[j].owner]
                                   /\ conn[dq[j].owner].key = step + j
                                   /\ conn[dq[j].owner].life = "alive"
        /\ \A c \in Conn : conn[c].key = step + j => dq[j].owner = c
    BY <1>1, <1>6, <2>1 DEF QueueOK
  <2> QED
    BY <1>1, <1>3, <2>1, <2>2
<1>8. \A c \in Conn : conn'[c].key <= step' + Len(dq')
  <2>1. step' + Len(dq') = step + Len(dq)
    BY <1>1, <1>2, <1>4
  <2> QED
    BY <1>1, <1>3, <2>1 DEF QueueOK
<1>9. QueueOK'
  <2>1. step' \in Nat
    BY <1>1, <1>2
  <2> QED
    BY <1>1, <1>4, <1>7, <1>8, <2>1 DEF QueueOK
<1>10. OthersTyped'
  <2>1. conn' = [c \in Conn |-> conn'[c]]
    BY <1>2
  <2> QED
    BY <1>1, <1>3, <2>1 DEF OthersTyped
<1>11. ASSUME NEW c \in Conn
       PROVE  FlagsOK(c)'
  <2>1. conn[c] \in Connection
    BY <1>1 DEF OthersTyped
  <2> DEFINE closed == [conn[c] EXCEPT !.is_open = FALSE]
  <2>2. /\ closed.is_writing = conn[c].is_writing
        /\ closed.write = conn[c].write
        /\ closed.is_reading = conn[c].is_reading
        /\ closed.read = conn[c].read
        /\ closed.close_connection = conn[c].close_connection
        /\ closed.life = conn[c].life
        /\ ~ closed.is_open
    BY <2>1 DEF Connection
  <2>3. conn'[c] = conn[c] \/ conn'[c] = closed
    BY <1>3
  <2> HIDE DEF closed
  <2> QED
    BY <1>1, <2>2, <2>3 DEF FlagsOK, FlagsOf, NoMore
<1> QED
  BY <1>9, <1>10, <1>11, PartsNext

LEMMA StepHolds == CrowInvariant /\ [Next]_vars => CrowInvariant'
<1>1. ASSUME CrowInvariant, UNCHANGED vars
      PROVE  CrowInvariant'
  <2>1. OthersTyped /\ QueueOK /\ \A c \in Conn : FlagsOK(c)
    BY <1>1, Parts
  <2>2. OthersTyped' /\ QueueOK' /\ (\A c \in Conn : FlagsOK(c))'
    BY <1>1, <2>1 DEF OthersTyped, QueueOK, FlagsOK, FlagsOf, NoMore, vars
  <2> QED
    BY <2>2, PartsNext
<1> QED
  BY <1>1, AcceptHolds, StartHolds, ReadPartHolds, CompleteHolds,
     HandlerReturnsHolds, ReadErrorHolds, OperationEndsHolds, WriteEndsHolds,
     ClientHolds, SecondHolds, ProcessTimersHolds DEF Next, Callback, Ready

(***************************************************************************)
(* The inductive invariant, with the types: flags, keys and deadlines go   *)
(* together in every state of any number of connections.                   *)
(***************************************************************************)
THEOREM Invariance == Spec => []CrowInvariant
BY InitHolds, StepHolds, PTL DEF Spec

-----------------------------------------------------------------------------
(* What follows *)

(***************************************************************************)
(* A connection deletes itself only when no read, write, deadline or       *)
(* handler holds it: the bare pointers never dangle.                       *)
(***************************************************************************)
THEOREM NoneHoldsDeleted == Spec => []DeletedIsForgotten
<1>1. CrowInvariant => DeletedIsForgotten
  BY CrowAssumption DEF CrowInvariant, DeletedIsForgotten
<1> QED
  BY <1>1, Invariance, PTL

(***************************************************************************)
(* A key reaches the deadline of its own connection or none, whatever has  *)
(* left the queue since it was given out.                                  *)
(***************************************************************************)
THEOREM KeysFind == Spec => []KeysFindTheirDeadlines
<1>1. CrowInvariant => KeysFindTheirDeadlines
  BY DEF CrowInvariant
<1> QED
  BY <1>1, Invariance, PTL

(* What a step of another connection or of none leaves of c. *)
LEMMA LeakIsOwn ==
  ASSUME CrowInvariant, [Next]_vars, NEW c \in Conn,
         ~ Leaked(c), Leaked(c)'
  PROVE  ReadRequestThrows(c) \/ ReadError(c) \/ Written(c) \/ WriteError(c)
<1>1. /\ OthersTyped /\ conn[c] \in Connection
      /\ c # NoConn /\ FlagsOK(c)
  BY Fields, CrowAssumption
<1>2. ASSUME NEW d \in Conn, NEW object,
             \/ StartReading(d, object)
             \/ StopDeadline(d, object)
             \/ WriteOver(d, object)
      PROVE  d # c => conn'[c] = conn[c]
  BY <1>1, <1>2 DEF StartReading, StopDeadline, WriteOver, OthersTyped
<1>3. ASSUME NEW d \in Conn, d # c, Callback(d)
      PROVE  conn'[c] = conn[c] /\ (handling = c => handling' = c)
  <2>1. handling = c => handling' = c
    BY <1>1, <1>3
       DEF Callback, Ready, Start, ReadPart, ReadRequest, ReadRequestThrows,
           Complete, ReadIsNext, ReadEnds, ReadError, Written, WriteError,
           WriteOver, HandlerReturns, WriteDone, WorkerIsFree
  <2>2. CASE ReadEnds(d) \/ WriteDone(d)
    BY <1>1, <1>3, <2>1, <2>2 DEF ReadEnds, WriteDone, OthersTyped
  <2>3. CASE Start(d) \/ ReadPart(d)
    BY <1>2, <1>3, <2>1, <2>3 DEF Start, ReadPart
  <2>4. CASE ReadRequest(d) \/ ReadRequestThrows(d)
    BY <1>2, <1>3, <2>1, <2>4 DEF ReadRequest, ReadRequestThrows, Complete
  <2>5. CASE HandlerReturns(d)
    BY <1>2, <1>3, <2>1, <2>5 DEF HandlerReturns
  <2>6. CASE ReadError(d)
    BY <1>2, <1>3, <2>1, <2>6 DEF ReadError, ReadFailed
  <2>7. CASE Written(d) \/ WriteError(d)
    BY <1>2, <1>3, <2>1, <2>7 DEF Written, WriteError
  <2> QED
    BY <1>3, <2>2, <2>3, <2>4, <2>5, <2>6, <2>7 DEF Callback, Ready
<1>4. ASSUME NEW d \in Conn, d # c, Callback(d)
      PROVE  FALSE
  <2>1. conn'[c] = conn[c] /\ (handling = c => handling' = c)
    BY <1>3, <1>4
  <2> QED
    BY <2>1 DEF Leaked
<1>5. ASSUME NEW d \in Conn,
             Accept(d) \/ AcceptFails(d) \/ Send(d) \/ Disconnect(d)
      PROVE  FALSE
  <2>1. CASE Send(d) \/ Disconnect(d)
    BY <2>1 DEF Send, Disconnect, Leaked
  <2>2. CASE Accept(d)
    <3>1. conn' = [conn EXCEPT ![d] =
            [conn[d] EXCEPT !.life = "posted", !.is_open = TRUE]]
      BY <1>1, <2>2 DEF Accept, OthersTyped
    <3> QED
      BY <1>1, <2>2, <3>1 DEF Accept, Leaked, OthersTyped, Connection
  <2>3. CASE AcceptFails(d)
    BY <1>1, <2>3 DEF AcceptFails, Leaked, OthersTyped, Connection
  <2> QED
    BY <1>5, <2>1, <2>2, <2>3
<1>6. ~ ProcessTimers
  <2> SUFFICES ASSUME ProcessTimers PROVE FALSE
    OBVIOUS
  <2>1. /\ handling' = handling
        /\ conn'[c] = conn[c] \/ conn'[c] = [conn[c] EXCEPT !.is_open = FALSE]
    BY DEF ProcessTimers
  <2>2. /\ conn'[c].life = conn[c].life
        /\ conn'[c].read = conn[c].read /\ conn'[c].write = conn[c].write
    BY <1>1, <2>1 DEF Connection
  <2> QED
    BY <2>1, <2>2 DEF Leaked
<1>7. ~ Second /\ ~ UNCHANGED vars
  BY DEF Second, vars, Leaked
<1>8. ~ ReadRequest(c)
  BY DEF ReadRequest, Leaked
<1>9. ASSUME NEW object \in Connection, StartReading(c, object)
      PROVE  FALSE
  <2>1. PICK key : conn' = [conn EXCEPT ![c] =
          [object EXCEPT !.key = key, !.is_reading = TRUE, !.read = "pending"]]
    BY <1>9 DEF StartReading
  <2>2. conn'[c].read = "pending"
    BY <1>1, <2>1 DEF OthersTyped, Connection
  <2> QED
    BY <2>2 DEF Leaked
<1>10. ~ Start(c) /\ ~ ReadPart(c)
  <2>1. [conn[c] EXCEPT !.life = "alive"] \in Connection
    BY <1>1 DEF Connection
  <2> QED
    BY <1>1, <1>9, <2>1 DEF Start, ReadPart
<1>11. ~ HandlerReturns(c)
  <2> SUFFICES ASSUME HandlerReturns(c) PROVE FALSE
    OBVIOUS
  <2> DEFINE object == [conn[c] EXCEPT !.is_writing = TRUE, !.write = "pending"]
             closing == [object EXCEPT !.is_reading = FALSE]
             new == CheckDestroyed(closing)
  <2>1. object \in Connection /\ object.write = "pending"
    BY <1>1 DEF Connection
  <2>2. ~ StartReading(c, object)
    BY <1>9, <2>1
  <2> HIDE DEF object
  <2>3. closing \in Connection /\ closing.write = "pending"
    BY <2>1 DEF Connection
  <2> HIDE DEF closing
  <2>4. new \in Connection /\ new.write = "pending"
    BY <2>3, Checked
  <2>5. StopDeadline(c, new)
    BY <2>2 DEF HandlerReturns, object, closing
  <2> HIDE DEF new
  <2>6. conn'[c].write = "pending"
    BY <1>1, <2>4, <2>5 DEF StopDeadline, OthersTyped, Connection
  <2> QED
    BY <2>6 DEF Leaked
<1>12. ~ ReadEnds(c) /\ ~ WriteDone(c)
  <2>1. ReadEnds(c) => conn'[c].read = "ended"
    BY <1>1 DEF ReadEnds, OthersTyped, Connection
  <2>2. WriteDone(c) => conn'[c].write \in {"behind", "written"}
    <3> SUFFICES ASSUME WriteDone(c)
                 PROVE  conn'[c].write \in {"behind", "written"}
      OBVIOUS
    <3> DEFINE write == IF conn[c].read = "ended" THEN "behind" ELSE "written"
    <3>1. conn' = [conn EXCEPT ![c] = [conn[c] EXCEPT !.write = write]]
      BY <1>1 DEF WriteDone, OthersTyped
    <3>2. write \in {"behind", "written"}
      OBVIOUS
    <3> HIDE DEF write
    <3> QED
      BY <1>1, <3>1, <3>2 DEF OthersTyped, Connection
  <2> QED
    BY <2>1, <2>2 DEF Leaked
<1> QED
  BY <1>4, <1>5, <1>6, <1>7, <1>8, <1>10, <1>11, <1>12
     DEF Next, Callback, Ready

(***************************************************************************)
(* A connection is leaked only at the moment when the request of a broken  *)
(* one is in and not handled, or when the callback of an answer comes that *)
(* was done behind a read that has closed: none that works is lost, with   *)
(* any number of connections, pieces of requests and deadlines.            *)
(***************************************************************************)
THEOREM LeaksAreBroken == Spec => OnlyBrokenLeak
<1>1. ASSUME CrowInvariant, [Next]_vars, NEW c \in Conn,
             ~ Leaked(c), Leaked(c)'
      PROVE  RequestOfBroken(c) \/ AnswerOvertaken(c)
  <2>1. ReadRequestThrows(c) \/ ReadError(c) \/ Written(c) \/ WriteError(c)
    BY <1>1, LeakIsOwn
  <2>2. conn[c] \in Connection /\ FlagsOK(c) /\ OthersTyped
    BY <1>1, Fields
  <2>3. CASE ReadRequestThrows(c)
    BY <2>3 DEF ReadRequestThrows, Complete, ReadIsNext, RequestOfBroken
  <2>4. ASSUME NEW object \in Connection,
               \/ StopDeadline(c, object)
               \/ conn' = [conn EXCEPT ![c] = object]
        PROVE  /\ conn'[c].life = object.life
               /\ conn'[c].read = object.read /\ conn'[c].write = object.write
    BY <2>2, <2>4 DEF StopDeadline, OthersTyped, Connection
  <2>5. CASE ReadError(c)
    <3> DEFINE object == [conn[c] EXCEPT !.is_open = FALSE, !.is_reading = FALSE,
                                         !.read = "none"]
               new == CheckDestroyed(object)
    <3>1. StopDeadline(c, new)
      BY <2>5 DEF ReadError, ReadFailed
    <3>2. /\ object \in Connection /\ ~ object.is_reading
          /\ (object.is_writing <=> object.write # "none")
      BY <2>2 DEF FlagsOK, FlagsOf, Connection
    <3> HIDE DEF object
    <3>3. /\ new \in Connection
          /\ new.write = "none" => new.life = "deleted"
      BY <3>2, Checked
    <3> HIDE DEF new
    <3> QED
      BY <1>1, <2>4, <3>1, <3>3 DEF Leaked
  <2>6. CASE Written(c) \/ WriteError(c)
    <3> DEFINE object == [conn[c] EXCEPT !.is_writing = FALSE, !.write = "none"]
               closed == [object EXCEPT !.is_open = FALSE]
    <3>1. /\ object \in Connection /\ object.read = conn[c].read
          /\ object.is_reading = conn[c].is_reading /\ ~ object.is_writing
          /\ object.close_connection = conn[c].close_connection
      BY <2>2 DEF Connection
    <3> HIDE DEF object
    <3>2. /\ closed \in Connection /\ closed.read = conn[c].read
          /\ closed.is_reading = conn[c].is_reading /\ ~ closed.is_writing
      BY <3>1 DEF Connection
    <3> HIDE DEF closed
    <3>3. ASSUME NEW o \in Connection, WriteOver(c, o)
          PROVE  o.life # "deleted" /\ o.read = "none"
      BY <1>1, <2>4, <3>3 DEF WriteOver, Leaked
    <3>4. conn[c].read = "none" => ~ conn[c].is_reading
      <4>1. /\ conn[c].write # "none" /\ conn[c].life = "alive" /\ handling # c
        BY <2>2, <2>6, CrowAssumption
           DEF Written, WriteError, WorkerIsFree, FlagsOK, FlagsOf
      <4> QED
        BY <2>2, <4>1 DEF FlagsOK, FlagsOf, NoMore
    <3>5. ASSUME NEW o \in Connection, o.read = conn[c].read,
                 o.is_reading = conn[c].is_reading, ~ o.is_writing
          PROVE  ~ WriteOver(c, CheckDestroyed(o))
      <4> DEFINE new == CheckDestroyed(o)
      <4>1. /\ new \in Connection /\ new.read = conn[c].read
            /\ ~ conn[c].is_reading => new.life = "deleted"
        BY <3>5, Checked
      <4> HIDE DEF new
      <4> SUFFICES ASSUME WriteOver(c, new) PROVE FALSE
        BY DEF new
      <4>2. new.life # "deleted" /\ new.read = "none"
        BY <3>3, <4>1
      <4> QED
        BY <3>4, <4>1, <4>2
    <3>6. ~ WriteError(c)
      BY <3>1, <3>5 DEF WriteError, object
    <3>7. Written(c) /\ ~ conn[c].close_connection /\ WriteOver(c, object)
      BY <2>6, <3>1, <3>2, <3>5, <3>6 DEF Written, object, closed
    <3>8. conn[c].read = "none"
      BY <3>1, <3>3, <3>7
    <3>9. /\ conn[c].write \in {"written", "behind"}
          /\ conn[c].life = "alive" /\ handling # c
      BY <2>2, <3>7, CrowAssumption
         DEF Written, WorkerIsFree, FlagsOK, FlagsOf
    <3> QED
      BY <2>2, <3>4, <3>7, <3>8, <3>9 DEF FlagsOK, FlagsOf, NoMore, AnswerOvertaken
  <2> QED
    BY <2>1, <2>3, <2>5, <2>6
<1>2. CrowInvariant /\ [Next]_vars =>
        [\A c \in Conn :
           ~ Leaked(c) /\ Leaked(c)' =>
             RequestOfBroken(c) \/ AnswerOvertaken(c)]_vars
  BY <1>1
<1> QED
  BY <1>2, Invariance, PTL DEF Spec, OnlyBrokenLeak

(***************************************************************************)
(* A deadline closes a connection only after a whole tick of silence.      *)
(***************************************************************************)
THEOREM ClosedInTime == Spec => NotClosedEarly
<1>1. ASSUME CrowInvariant, [Next]_vars, NEW c \in Conn,
             step' > step, conn[c].is_open, ~ conn'[c].is_open
      PROVE  silent[c] = tick
  <2>1. step \in Nat /\ tick \in Nat
    BY <1>1, Queue, CrowAssumption
  <2>2. ProcessTimers
    <3>1. ASSUME NEW d \in Conn, Callback(d)
          PROVE  step' = step
      <4>1. \A object : StartReading(d, object) \/ StopDeadline(d, object)
                          => step' = step
        BY DEF StartReading, StopDeadline
      <4>2. \A object : WriteOver(d, object) => step' = step
        BY <4>1 DEF WriteOver
      <4> QED
        BY <3>1, <4>1, <4>2
           DEF Callback, Ready, ReadEnds, WriteDone, Start, ReadPart, Complete, ReadRequest,
               ReadRequestThrows, HandlerReturns, ReadError, ReadFailed,
               Written, WriteError
    <3>2. ASSUME NEW d \in Conn,
                 Accept(d) \/ AcceptFails(d) \/ Send(d) \/ Disconnect(d)
          PROVE  step' = step
      BY <3>2 DEF Accept, AcceptFails, Send, Disconnect
    <3>3. Second \/ UNCHANGED vars => step' = step
      BY DEF Second, vars
    <3> QED
      BY <1>1, <2>1, <3>1, <3>2, <3>3 DEF Next
  <2>3. PICK k \in 0 .. Len(dq) :
          /\ Expired(k)
          /\ conn' = [d \in Conn |->
               IF \E i \in 1 .. k : dq[i].owner = d
                 THEN [conn[d] EXCEPT !.is_open = FALSE]
                 ELSE conn[d]]
    BY <2>2 DEF ProcessTimers
  <2>4. PICK i \in 1 .. k : dq[i].owner = c
    BY <1>1, <2>3
  <2>5. dq[i].age >= tick
    BY <2>3 DEF Expired
  <2>6. i \in 1 .. Len(dq) /\ c # NoConn
    BY <1>1, Queue, CrowAssumption
  <2>7. dq[i].age = silent[c] /\ dq[i].age \in 0 .. tick
    BY <1>1, <2>4, <2>6, Queue
  <2> QED
    BY <2>1, <2>5, <2>7
<1>2. CrowInvariant /\ [Next]_vars =>
        [\A c \in Conn :
           step' > step /\ conn[c].is_open /\ ~ conn'[c].is_open =>
             silent[c] = tick]_vars
  BY <1>1
<1> QED
  BY <1>2, Invariance, PTL DEF Spec, NotClosedEarly
=============================================================================
