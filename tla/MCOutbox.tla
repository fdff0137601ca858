------------------------------- MODULE MCOutbox ------------------------------
(* A small instance of Outbox for TLC. *)
EXTENDS Outbox

\* The first event of the first store is one the receiver refuses.
OneRefused == {<<1, 1>>}

\* One store fills more than a fetch, the other is visited after it.
ThreeAndOne == <<3, 1>>
TwoAndOne == <<2, 1>>
==============================================================================
