---------------------------- MODULE MCPyThreaded ----------------------------
(***************************************************************************)
(* A node with two threads and one with one thread.                        *)
(***************************************************************************)
EXTENDS PyThreaded, TLC

CONSTANTS n1, n2, t1, t2, u1

(* A stand-in for SHA-256: about half of all guesses have enough zeroes. *)
MCLeadingZeros(last_proof, proof, last_hash) ==
  IF (last_proof + proof + Len(last_hash)) % 2 = 0 THEN Difficulty ELSE 0

MCUserTransaction == {[sender |-> "alice", recipient |-> "bob", amount |-> 5]}

MCHome == t1 :> n1 @@ t2 :> n1 @@ u1 :> n2
MCRequests ==
  t1 :> {"mine", "resolve"} @@ t2 :> {"mine", "post"} @@ u1 :> {"mine", "resolve"}
MCBootTime == n1 :> 0 @@ n2 :> 1

(* The nodes register each other, as the tests do. *)
MCRegistered == n1 :> << n2 >> @@ n2 :> << n1 >>
=============================================================================
