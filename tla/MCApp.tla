------------------------------- MODULE MCApp -------------------------------
(***************************************************************************)
(* Instances of App small enough for TLC.                                  *)
(***************************************************************************)
EXTENDS App, TLC

CONSTANTS n1, n2, n3, c1, c2

(* A stand-in for SHA-256: about half of all guesses have enough zeroes. *)
MCLeadingZeros(last_proof, proof, last_hash) ==
  IF (last_proof + proof + Len(last_hash)) % 2 = 0 THEN Difficulty ELSE 0

MCTransaction == [sender |-> "alice", recipient |-> "bob", amount |-> 5]
MCUserTransaction == {MCTransaction}

MCOwner2 == c1 :> n1 @@ c2 :> n2
MCBootTime2 == n1 :> 0 @@ n2 :> 1
MCBootTime3 == n1 :> 0 @@ n2 :> 1 @@ n3 :> 2

MCAddress(form, host) == [form |-> form, host |-> host]

(* Two nodes that register each other, as the tests do. *)
MCRegisterEachOther ==
  n1 :> {<< MCAddress("http", n2) >>} @@ n2 :> {<< MCAddress("http", n1) >>}

(* A third node that is asked by both others and mines alone; the second  *)
(* is asked by the first and sent a body that fails in its middle.        *)
MCRegisterThird ==
  n1 :> {<< MCAddress("http", n2), MCAddress("http", n3) >>} @@
  n2 :> {<< MCAddress("name", n1), MCAddress("http", n3), MCAddress("ip", n1),
            MCAddress("http", n1) >>} @@
  n3 :> {}
=============================================================================
