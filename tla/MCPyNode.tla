------------------------------ MODULE MCPyNode ------------------------------
(***************************************************************************)
(* Small networks of Python nodes.                                         *)
(***************************************************************************)
EXTENDS PyNode, TLC

CONSTANTS n1, n2, n3

(* A stand-in for SHA-256: about half of all guesses have enough zeroes. *)
MCLeadingZeros(last_proof, proof, last_hash) ==
  IF (last_proof + proof + Len(last_hash)) % 2 = 0 THEN Difficulty ELSE 0

MCUserTransaction == {[sender |-> "alice", recipient |-> "bob", amount |-> 5]}

MCBootTime == n1 :> 0 @@ n2 :> 1 @@ n3 :> 2

MCUrl(host) == [form |-> "url", host |-> host]

(* The first two ask each other and the third, the second another server *)
(* as well; the third asks itself.                                        *)
MCRegister ==
  n1 :> {<< MCUrl(n2), MCUrl(n3) >>} @@
  n2 :> {<< [form |-> "bare", host |-> n1], MCUrl("elsewhere"),
            [form |-> "empty", host |-> n2], MCUrl(n3) >>} @@
  n3 :> {<< MCUrl(n3) >>}
=============================================================================
