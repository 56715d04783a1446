----------------------------- MODULE MCRustNode -----------------------------
(***************************************************************************)
(* Small networks of Rust nodes.                                           *)
(***************************************************************************)
EXTENDS RustNode, TLC

CONSTANTS n1, n2, n3

(* A stand-in for SHA-256: about half of all guesses have enough zeroes. *)
MCLeadingZeros(last_proof, proof, last_hash) ==
  IF (last_proof + proof + Len(last_hash)) % 2 = 0 THEN Difficulty ELSE 0

MCUserTransaction == {[sender |-> "alice", recipient |-> "bob", amount |-> 5]}

(* The first time a block is mined at is read as another. *)
MCReadAs == FirstTick :> LastTick

MCBootTime2 == n1 :> 0 @@ n2 :> 1
MCBootTime3 == MCBootTime2 @@ n3 :> 2

MCUrl(host) == [form |-> "url", host |-> host]

(* The first asks the other two; an address in its body is refused. *)
MCRegisterThird ==
  n1 :> {<< MCUrl(n2), [form |-> "invalid", host |-> n2], MCUrl(n3) >>} @@
  n2 :> {<< MCUrl(n1), MCUrl("elsewhere") >>} @@ n3 :> {}

(* Two nodes that register each other, and one of them itself. *)
MCRegisterEachOther ==
  n1 :> {<< MCUrl(n2), [form |-> "invalid", host |-> n2], MCUrl("elsewhere") >>} @@
  n2 :> {<< MCUrl(n1), MCUrl(n2) >>}
=============================================================================
