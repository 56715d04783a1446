---------------------------- MODULE MCFSharpNode ----------------------------
(***************************************************************************)
(* A node with two threads and one with one thread.                        *)
(***************************************************************************)
EXTENDS FSharpNode, TLC

CONSTANTS n1, n2, t1, t2, u1

(* A stand-in for SHA-256: about half of all guesses have enough zeroes. *)
MCLeadingZeros(last_proof, proof, last_hash) ==
  IF (last_proof + proof + Len(last_hash)) % 2 = 0 THEN Difficulty ELSE 0

MCUserTransaction == {[sender |-> "alice", recipient |-> "bob", amount |-> 5]}

MCHome == t1 :> n1 @@ t2 :> n1 @@ u1 :> n2

MCBootTime == n1 :> 0 @@ n2 :> 1

(* Mines, posts and resolves of one node overlap in any way. *)
MCRequests ==
  t1 :> {"mine", "resolve", "register"} @@ t2 :> {"mine", "post"} @@
  u1 :> {"mine", "resolve", "register"}

(* The nodes register each other, and another server; one body raises *)
(* after its first address.                                           *)
MCRegistered ==
  n1 :> << n2, "elsewhere" >> @@ n2 :> << n1, "invalid", "elsewhere" >>
=============================================================================
