---------------------------- MODULE MCCppNetwork ----------------------------
(***************************************************************************)
(* A node on cpp-httplib with two threads and one on crow.                 *)
(***************************************************************************)
EXTENDS CppNetwork, TLC

CONSTANTS n1, n2, t1, t2, w1, w2

(* A stand-in for SHA-256: about half of all guesses have enough zeroes. *)
MCLeadingZeros(last_proof, proof, last_hash) ==
  IF (last_proof + proof + Len(last_hash)) % 2 = 0 THEN Difficulty ELSE 0

MCUserTransaction == {[sender |-> "alice", recipient |-> "bob", amount |-> 5]}

MCBootTime == n1 :> 0 @@ n2 :> 1

(* Nothing is posted to the second node, or anywhere. *)
MCPostedToFirst == n1 :> 1 @@ n2 :> 0
MCNothingPosted == n1 :> 0 @@ n2 :> 0

(* Both mine, or the second. *)
MCBothMine == n1 :> 3 @@ n2 :> 3
MCSecondMines == n1 :> 2 @@ n2 :> 3

(* Threads at the first node and workers at the second: two of either. *)
MCHome21 == t1 :> n1 @@ t2 :> n1 @@ w1 :> n2
MCHome12 == t1 :> n1 @@ w1 :> n2 @@ w2 :> n2

(* The threads of one node are alike. *)
MCSymmetry == Permutations({t1, t2})

MCAddress(form, host) == [form |-> form, host |-> host]
MCPort(host) == MCAddress("port", host)

(* They ask each other; at either, one address is none. *)
MCRegisterEachOther ==
  n1 :> {<< MCPort(n2) >>, << MCAddress("invalid", n2) >>} @@
  n2 :> {<< MCPort(n1), MCAddress("invalid", n1) >>}

(* The second asks itself, and either another server, by name or for want *)
(* of a port.                                                             *)
MCRegisterOther ==
  n1 :> {<< MCPort(n2), MCPort("elsewhere") >>} @@
  n2 :> {<< MCPort(n2), MCAddress("https", n1) >>}
=============================================================================
