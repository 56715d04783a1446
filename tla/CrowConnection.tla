--------------------------- MODULE CrowConnection ---------------------------
(***************************************************************************)
(* The connections of one worker of crow and the queue of their deadlines. *)
(* A Connection is a bare pointer that the callbacks of its socket and of  *)
(* its deadline hold: it deletes itself when, by two flags, nobody does.   *)
(* All of it runs on the thread of the worker, one callback at a time; a   *)
(* handler of the node (a mine, a resolve) keeps the thread for as long as *)
(* it takes, while clients act and time passes.                            *)
(*                                                                         *)
(* The clients are those of the program: they wait for the answer to a     *)
(* request before they send the next.  The handlers answer before they     *)
(* return, so need_to_call_after_handlers_ is down again when they do.     *)
(***************************************************************************)
EXTENDS Naturals, Sequences

CONSTANTS
  Conn,       \* connections
  NoConn,     \* a deadline that was cancelled; a worker in no handler
  tick,       \* seconds a connection may be silent (5 in the code)
  MaxSends    \* bound: times each client sends something

ASSUME CrowAssumption ==
  /\ NoConn \notin Conn
  /\ tick \in Nat \ {0}
  /\ MaxSends \in [Conn -> Nat]

VARIABLES
  conn,      \* conn[c]: the object and its socket
  client,    \* client[c]: the other end
  dq,        \* the deadlines in the order they were added
  step,      \* how many deadlines have left the queue
  due,       \* the second of the worker's timer has passed
  handling,  \* the connection whose handler runs
  silent     \* silent[c]: seconds since the running deadline of c was started

vars == << conn, client, dq, step, due, handling, silent >>

(* What a client sends: a part of a request, the rest of one that asks for *)
(* the connection to be kept or to be closed, or what the parser refuses.  *)
Piece == {"part", "keep", "close", "refused"}

(***************************************************************************)
(* read and write are the operations of the socket whose callbacks are to  *)
(* come: pending, or over with the callback in the worker's queue, which   *)
(* is first in, first out.  A read has ended when it met the close of the  *)
(* client; a write that was done after that is behind it in the queue.     *)
(* key is 0 when timer_cancel_key_ names no queue, else its number plus 1. *)
(***************************************************************************)
Connection ==
  [life: {"listening", "posted", "alive", "deleted"}, is_open: BOOLEAN,
   is_reading: BOOLEAN, is_writing: BOOLEAN, close_connection: BOOLEAN,
   read: {"none", "pending", "ended"},
   write: {"none", "pending", "written", "behind"}, key: Nat]

Client ==
  [inbox: Piece \cup {"nothing"}, connected: BOOLEAN, waits: BOOLEAN, sends: Nat]

TypeOK ==
  /\ conn \in [Conn -> Connection]
  /\ client \in [Conn -> Client]
  /\ dq \in Seq([owner: Conn \cup {NoConn}, age: 0 .. tick])
  /\ step \in Nat
  /\ due \in BOOLEAN
  /\ handling \in Conn \cup {NoConn}
  /\ silent \in [Conn -> 0 .. tick]

Init ==
  /\ conn = [c \in Conn |->
       [life |-> "listening", is_open |-> FALSE, is_reading |-> FALSE,
        is_writing |-> FALSE, close_connection |-> FALSE,
        read |-> "none", write |-> "none", key |-> 0]]
  /\ client = [c \in Conn |->
       [inbox |-> "nothing", connected |-> FALSE, waits |-> FALSE, sends |-> 0]]
  /\ dq = << >>
  /\ step = 0
  /\ due = FALSE
  /\ handling = NoConn
  /\ silent = [c \in Conn |-> 0]

WorkerIsFree == handling = NoConn

-----------------------------------------------------------------------------
(* dumb_timer_queue *)

(* cancel: an index that is not in the queue any more is passed over. *)
Cancelled(q, key) ==
  IF key > step /\ key - step <= Len(q)
    THEN [q EXCEPT ![key - step].owner = NoConn]
    ELSE q

(* A plausible bug: the deadline before is left running. *)
AddedWithoutCancel(q, c) == Append(q, [owner |-> c, age |-> 0])

(* start_deadline: cancel the deadline before, then add one. *)
Added(q, c) ==
  Append(Cancelled(q, conn[c].key), [owner |-> c, age |-> 0])

(* A plausible bug: the number of the next deadline is returned. *)
KeyOfNext(q) == step + Len(q) + 1

(* The key of the deadline added last. *)
KeyOfLast(q) == step + Len(q)

(* The first k deadlines have run for tick seconds, and the next has not. *)
Expired(k) ==
  /\ \A i \in 1 .. k : dq[i].age >= tick
  /\ k < Len(dq) => dq[k + 1].age < tick

-----------------------------------------------------------------------------
(* What the callbacks of a connection do *)

(* A plausible bug: a connection that only writes is deleted as well. *)
DestroyedIfNotReading(object) ==
  IF ~ object.is_reading THEN [object EXCEPT !.life = "deleted"] ELSE object

(* check_destroy: delete this, unless a flag says that a callback will come. *)
CheckDestroyed(object) ==
  IF ~ object.is_reading /\ ~ object.is_writing
    THEN [object EXCEPT !.life = "deleted"]
    ELSE object

(* start_deadline(); do_read(). *)
StartReading(c, object) ==
  LET q == Added(dq, c)
  IN  /\ dq' = q
      /\ conn' = [conn EXCEPT ![c] =
           [object EXCEPT !.key = KeyOfLast(q), !.is_reading = TRUE,
                          !.read = "pending"]]
      /\ silent' = [silent EXCEPT ![c] = 0]
      /\ UNCHANGED step

(* cancel_deadline_timer(), then the object goes on as object. *)
StopDeadline(c, object) ==
  /\ dq' = Cancelled(dq, conn[c].key)
  /\ conn' = [conn EXCEPT ![c] = [object EXCEPT !.key = 0]]
  /\ silent' = [silent EXCEPT ![c] = 0]
  /\ UNCHANGED step

(* error_while_reading: close the socket; the destructor cancels again. *)
ReadFailed(c) ==
  StopDeadline(c, CheckDestroyed([conn[c] EXCEPT !.is_open = FALSE,
                                                 !.is_reading = FALSE,
                                                 !.read = "none"]))

-----------------------------------------------------------------------------
(* The acceptor *)

(* do_accept: a client connects; start is posted to the worker. *)
Accept(c) ==
  /\ conn[c].life = "listening"
  /\ conn' = [conn EXCEPT ![c].life = "posted", ![c].is_open = TRUE]
  /\ client' = [client EXCEPT ![c].connected = TRUE]
  /\ UNCHANGED << dq, step, due, handling, silent >>

(* async_accept fails: the object made for the connection is deleted. *)
AcceptFails(c) ==
  /\ conn[c].life = "listening"
  /\ conn' = [conn EXCEPT ![c].life = "deleted"]
  /\ UNCHANGED << client, dq, step, due, handling, silent >>

-----------------------------------------------------------------------------
(* The worker *)

Start(c) ==
  /\ WorkerIsFree
  /\ conn[c].life = "posted"
  /\ StartReading(c, [conn[c] EXCEPT !.life = "alive"])
  /\ UNCHANGED << client, due, handling >>

(* A plausible bug: the deadline is not started anew behind an answer. *)
HandlerReturnsWithoutDeadline(c) ==
  /\ handling = c
  /\ handling' = NoConn
  /\ LET object == [conn[c] EXCEPT !.is_writing = TRUE, !.write = "pending"]
     IN  IF conn[c].close_connection
           THEN StopDeadline(c, CheckDestroyed([object EXCEPT !.is_reading = FALSE]))
           ELSE StopDeadline(c, [object EXCEPT !.read = "pending"])
  /\ UNCHANGED << client, due >>

(* A plausible bug: the deadline runs, and nothing is read. *)
HandlerReturnsWithoutRead(c) ==
  /\ handling = c
  /\ handling' = NoConn
  /\ LET object == [conn[c] EXCEPT !.is_writing = TRUE, !.write = "pending"]
         q == Added(dq, c)
     IN  /\ dq' = q
         /\ conn' = [conn EXCEPT ![c] = [object EXCEPT !.key = KeyOfLast(q)]]
         /\ silent' = [silent EXCEPT ![c] = 0]
         /\ UNCHANGED step
  /\ UNCHANGED << client, due >>

(* The callback of the read that is pending is the next of c to run: that  *)
(* of a write done before would be ahead of it.                            *)
ReadIsNext(c) ==
  /\ WorkerIsFree
  /\ conn[c].read = "pending"
  /\ conn[c].write # "written"

(* The read is done: a part of a request is in. *)
ReadPart(c) ==
  /\ ReadIsNext(c)
  /\ conn[c].is_open
  /\ client[c].inbox = "part"
  /\ client' = [client EXCEPT ![c].inbox = "nothing"]
  /\ StartReading(c, conn[c])
  /\ UNCHANGED << due, handling >>

(***************************************************************************)
(* A request is complete: handle() cancels the deadline, asks for the      *)
(* address of the client to log it, and enters the handler.                *)
(***************************************************************************)
Complete(c) ==
  /\ ReadIsNext(c)
  /\ client[c].inbox \in {"keep", "close"}
  /\ client' = [client EXCEPT ![c].inbox = "nothing"]
  /\ StopDeadline(c, [conn[c] EXCEPT
       !.read = "none", !.close_connection = client[c].inbox = "close"])
  /\ UNCHANGED due

ReadRequest(c) ==
  /\ Complete(c)
  /\ conn[c].is_open
  /\ handling' = c

(***************************************************************************)
(* The address of a socket that the client has reset, or that the deadline *)
(* closed after the read was done and before its callback came: the log    *)
(* line throws, the worker logs the exception and runs on, and the         *)
(* connection, with is_reading up and no callback left, stays for ever.    *)
(***************************************************************************)
ReadRequestThrows(c) ==
  /\ Complete(c)
  /\ ~ conn[c].is_open \/ ~ client[c].connected
  /\ UNCHANGED handling

(***************************************************************************)
(* complete_request() has written the answer, and the callback of the read *)
(* ends: with the next read, or by leaving the closing to the write.       *)
(***************************************************************************)
HandlerReturns(c) ==
  /\ handling = c
  /\ handling' = NoConn
  /\ LET object == [conn[c] EXCEPT !.is_writing = TRUE, !.write = "pending"]
     IN  IF conn[c].close_connection
           THEN StopDeadline(c, CheckDestroyed([object EXCEPT !.is_reading = FALSE]))
           ELSE StartReading(c, object)
  /\ UNCHANGED << client, due >>

(* The read meets the end of what the client, which has gone, had sent. *)
ReadEnds(c) ==
  /\ WorkerIsFree
  /\ conn[c].read = "pending"
  /\ conn[c].is_open
  /\ client[c].inbox = "nothing"
  /\ ~ client[c].connected
  /\ conn' = [conn EXCEPT ![c].read = "ended"]
  /\ UNCHANGED << client, dq, step, due, handling, silent >>

(* Read to its end, cut off by the close of the socket, or refused by the *)
(* parser: the callback of the read closes.                               *)
ReadError(c) ==
  /\ \/ WorkerIsFree /\ conn[c].read = "ended" /\ conn[c].write # "written"
     \/ ReadIsNext(c) /\ (~ conn[c].is_open \/ client[c].inbox = "refused")
  /\ ReadFailed(c)
  /\ UNCHANGED << client, due, handling >>

(* The socket has taken all of the answer, also of a client that has gone. *)
WriteDone(c) ==
  /\ WorkerIsFree
  /\ conn[c].write = "pending"
  /\ conn[c].is_open
  /\ conn' = [conn EXCEPT ![c].write =
       IF conn[c].read = "ended" THEN "behind" ELSE "written"]
  /\ client' = [client EXCEPT ![c].waits = FALSE]
  /\ UNCHANGED << dq, step, due, handling, silent >>

(* A write is over; the destructor, where it runs, cancels the deadline. *)
WriteOver(c, object) ==
  /\ \/ object.life = "deleted" /\ StopDeadline(c, object)
     \/ /\ object.life # "deleted"
        /\ conn' = [conn EXCEPT ![c] = object]
        /\ UNCHANGED << dq, step, silent >>
  /\ UNCHANGED << due, handling >>

(***************************************************************************)
(* The callback of a write that was done: without an error, also when the  *)
(* callback of the read has closed the socket before it.  Behind the last  *)
(* answer the socket is closed; behind another nothing is destroyed.       *)
(***************************************************************************)
Written(c) ==
  /\ WorkerIsFree
  /\ conn[c].write = "written" \/ (conn[c].write = "behind" /\ conn[c].read # "ended")
  /\ LET object == [conn[c] EXCEPT !.is_writing = FALSE, !.write = "none"]
     IN  WriteOver(c, IF object.close_connection
                        THEN CheckDestroyed([object EXCEPT !.is_open = FALSE])
                        ELSE object)
  /\ UNCHANGED client

(* The write is cut off: the socket is closed, or the client has gone. *)
WriteError(c) ==
  /\ WorkerIsFree
  /\ conn[c].write = "pending"
  /\ ~ conn[c].is_open \/ ~ client[c].connected
  /\ WriteOver(c, CheckDestroyed(
       [conn[c] EXCEPT !.is_writing = FALSE, !.write = "none"]))
  /\ UNCHANGED client

(***************************************************************************)
(* process(), once a second while the worker is free: the deadlines at the *)
(* front that have expired leave the queue, and those that were not        *)
(* cancelled close the sockets of their connections.                       *)
(***************************************************************************)
ProcessTimers ==
  /\ WorkerIsFree
  /\ due
  /\ due' = FALSE
  /\ \E k \in 0 .. Len(dq) :
       /\ Expired(k)
       /\ conn' = [c \in Conn |->
            IF \E i \in 1 .. k : dq[i].owner = c
              THEN [conn[c] EXCEPT !.is_open = FALSE]
              ELSE conn[c]]
       /\ dq' = SubSeq(dq, k + 1, Len(dq))
       /\ step' = step + k
  /\ UNCHANGED << client, handling, silent >>

-----------------------------------------------------------------------------
(* Clients and time *)

Send(c) ==
  /\ client[c].connected
  /\ client[c].inbox = "nothing"
  /\ ~ client[c].waits
  /\ client[c].sends < MaxSends[c]
  /\ \E piece \in Piece :
       client' = [client EXCEPT ![c].inbox = piece,
                                ![c].waits = piece # "part",
                                ![c].sends = @ + 1]
  /\ UNCHANGED << conn, dq, step, due, handling, silent >>

Disconnect(c) ==
  /\ client[c].connected
  /\ client' = [client EXCEPT ![c].connected = FALSE]
  /\ UNCHANGED << conn, dq, step, due, handling, silent >>

Older(seconds) == IF seconds < tick THEN seconds + 1 ELSE tick

(* A deadline of c runs. *)
Runs(c) == \E i \in 1 .. Len(dq) : dq[i].owner = c

Second ==
  /\ dq' = [i \in 1 .. Len(dq) |-> [dq[i] EXCEPT !.age = Older(@)]]
  /\ silent' = [c \in Conn |-> IF Runs(c) THEN Older(silent[c]) ELSE silent[c]]
  /\ due' = TRUE
  /\ UNCHANGED << conn, client, step, handling >>

-----------------------------------------------------------------------------
(* What becomes of c without the client, but for the end of a handler and *)
(* for a write that the socket has room for.                              *)
Ready(c) ==
  \/ Start(c)
  \/ ReadPart(c)
  \/ ReadRequest(c)
  \/ ReadRequestThrows(c)
  \/ ReadEnds(c)
  \/ ReadError(c)
  \/ Written(c)
  \/ WriteError(c)

Callback(c) == Ready(c) \/ HandlerReturns(c) \/ WriteDone(c)

Next ==
  \/ \E c \in Conn :
       Accept(c) \/ AcceptFails(c) \/ Callback(c) \/ Send(c) \/ Disconnect(c)
  \/ ProcessTimers
  \/ Second

Spec == Init /\ [][Next]_vars

(***************************************************************************)
(* While it is free the worker runs the callbacks in its queue, and its    *)
(* timer; time passes; that a client has gone is noticed.  No handler need *)
(* return (a resolve may wait for ever), and no client need take an answer.*)
(***************************************************************************)
Fairness ==
  /\ WF_vars(\E c \in Conn : Ready(c))
  /\ WF_vars(ProcessTimers)
  /\ WF_vars(Second)

FairSpec == Spec /\ Fairness

-----------------------------------------------------------------------------
(***************************************************************************)
(* When a connection has deleted itself, no callback that holds it is left *)
(* to come: no read, no write, no deadline, and no handler runs for it.    *)
(* About check_destroy, whose flags are all it looks at.                   *)
(***************************************************************************)
DeletedIsForgotten ==
  \A c \in Conn : conn[c].life = "deleted" =>
    /\ conn[c].read = "none"
    /\ conn[c].write = "none"
    /\ handling # c
    /\ ~ Runs(c)

(***************************************************************************)
(* A deadline that runs is the one its connection can cancel, so there is  *)
(* one at most; and a key never reaches the deadline of another            *)
(* connection, however many deadlines have left the queue since.           *)
(***************************************************************************)
KeysFindTheirDeadlines ==
  /\ \A i \in 1 .. Len(dq) :
       dq[i].owner # NoConn => conn[dq[i].owner].key = step + i
  /\ \A c \in Conn, i \in 1 .. Len(dq) :
       conn[c].key = step + i => dq[i].owner = c

(* A connection none of whose reads is to come, and no handler: leaked by  *)
(* an exception, writing its last answer, or closed before the end of a    *)
(* write, after which it is deleted, or leaked if the write was done.      *)
ReadsNoMore(c) ==
  \/ /\ conn[c].is_reading
     /\ conn[c].write = "none"
     /\ ~ conn[c].is_open \/ ~ client[c].connected
  \/ /\ ~ conn[c].is_reading
     /\ conn[c].close_connection
     /\ conn[c].write \in {"pending", "written"}
  \/ /\ ~ conn[c].is_reading
     /\ ~ conn[c].close_connection
     /\ ~ conn[c].is_open
     /\ conn[c].write \in {"pending", "behind"} \/ ~ client[c].connected
     /\ conn[c].write # "written"

(***************************************************************************)
(* What every callback preserves, and the other safety properties follow   *)
(* from: the flags of a connection cover the callbacks that hold it, no    *)
(* deadline has a number that was not given out, its age is the silence of *)
(* its connection, a client waits while its request is handled and         *)
(* answered, and the reads of a connection that works go on until its last *)
(* answer is being written.                                                *)
(***************************************************************************)
CrowInvariant ==
  /\ TypeOK
  /\ \A c \in Conn :
       /\ (conn[c].is_writing <=> conn[c].write # "none")
       /\ conn[c].read # "none" \/ handling = c => conn[c].is_reading
       /\ ~ (conn[c].read # "none" /\ handling = c)
       /\ conn[c].life # "alive" =>
            ~ conn[c].is_reading /\ ~ conn[c].is_writing /\ ~ Runs(c)
       /\ conn[c].key <= step + Len(dq)
       /\ conn[c].read # "none" \/ conn[c].life \in {"listening", "posted"} =>
            ~ conn[c].close_connection
       /\ conn[c].read = "ended" \/ conn[c].write = "behind" =>
            ~ client[c].connected
       /\ conn[c].write = "behind" => conn[c].read # "pending"
       /\ client[c].inbox \in {"keep", "close"} => client[c].waits
       /\ conn[c].write = "pending" \/ handling = c =>
            client[c].waits /\ client[c].inbox = "nothing"
       /\ conn[c].life = "alive" /\ conn[c].read = "none" /\ handling # c =>
            ReadsNoMore(c)
  /\ \A i \in 1 .. Len(dq) :
       dq[i].owner # NoConn => dq[i].age = silent[dq[i].owner]
  /\ KeysFindTheirDeadlines

(***************************************************************************)
(* A deadline closes a connection only when nothing has been read from it, *)
(* and no answer started, for the whole of tick seconds.                   *)
(***************************************************************************)
NotClosedEarly ==
  [][\A c \in Conn :
       step' > step /\ conn[c].is_open /\ ~ conn'[c].is_open => silent[c] = tick]_vars

(* No callback that holds c is left to come, and c is not deleted. *)
Leaked(c) ==
  /\ conn[c].life = "alive"
  /\ conn[c].read = "none"
  /\ conn[c].write = "none"
  /\ handling # c

(* A whole request is in, not handled yet, and its address cannot be told. *)
RequestOfBroken(c) ==
  /\ conn[c].read = "pending"
  /\ client[c].inbox \in {"keep", "close"}
  /\ ~ conn[c].is_open \/ ~ client[c].connected

(* An answer was done after the read had met the close of the client, whose *)
(* callback has closed the socket and left the destroying to the write.     *)
AnswerOvertaken(c) ==
  /\ conn[c].write = "behind"
  /\ ~ conn[c].is_open
  /\ ~ client[c].connected

(***************************************************************************)
(* A connection is leaked at two moments only: when its request is in and  *)
(* not yet handled, and its client has gone or its deadline has closed the *)
(* socket; and when a write that is kept open for more ends well behind a  *)
(* read that has closed.  A connection that works is never lost.  About    *)
(* the flags that check_destroy looks at, and who calls it.                *)
(***************************************************************************)
OnlyBrokenLeak ==
  [][\A c \in Conn :
       ~ Leaked(c) /\ Leaked(c)' => RequestOfBroken(c) \/ AnswerOvertaken(c)]_vars

(* The last answer is being written to a client that does not take it: the *)
(* deadline was cancelled before, and none is started.                     *)
LastAnswerUntaken(c) ==
  /\ conn[c].close_connection
  /\ conn[c].write = "pending"
  /\ client[c].connected

(* c has not been accepted, is deleted, or was leaked as a broken one. *)
Ended(c) ==
  \/ conn[c].life \in {"listening", "deleted"}
  \/ Leaked(c) /\ conn[c].is_reading /\ ~ conn[c].is_open
  \/ Leaked(c) /\ ~ client[c].connected

(***************************************************************************)
(* While handlers return and last answers are taken, a connection that was *)
(* accepted comes to its end, also when the client neither sends, nor      *)
(* closes, nor takes an answer that keeps the connection: by its deadline. *)
(* One that works, or is closed by its deadline with an answer to write,   *)
(* is not leaked instead.                                                  *)
(***************************************************************************)
ConnectionsEnd ==
  \A c \in Conn :
    []<>WorkerIsFree /\ []<>(~ LastAnswerUntaken(c)) => []<>Ended(c)
=============================================================================
