-------------------------- MODULE MCAppWithWorker --------------------------
(***************************************************************************)
(* Two nodes: one with two activations of /nodes/resolve open at once and  *)
(* one of /mine, the other with two of /mine.                              *)
(***************************************************************************)
EXTENDS AppWithWorker, TLC

CONSTANTS n1, n2, c1, c2, w1, w2, w3

(* A stand-in for SHA-256: about half of all guesses have enough zeroes. *)
MCLeadingZeros(last_proof, proof, last_hash) ==
  IF (last_proof + proof + Len(last_hash)) % 2 = 0 THEN Difficulty ELSE 0

MCUserTransaction == {[sender |-> "alice", recipient |-> "bob", amount |-> 5]}

MCOwner == c1 :> n1 @@ c2 :> n1
MCWorkerOwner == w1 :> n2 @@ w2 :> n2 @@ w3 :> n1
MCBootTime == n1 :> 0 @@ n2 :> 1

MCAddress(form, host) == [form |-> form, host |-> host]

(* Every form of address, in a body that fails before its last. *)
MCRegisterEachOther ==
  n1 :> {<< MCAddress("http", n2) >>} @@
  n2 :> {<< MCAddress("name", n2), MCAddress("https", n1), MCAddress("http", n1),
            MCAddress("ip", n1), MCAddress("http", n2) >>}
=============================================================================
