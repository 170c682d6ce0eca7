------------------------------ MODULE MCTicket ------------------------------
(* Small instances of Ticket: a policy that moves a waiting ticket on. *)
EXTENDS Ticket, TLC

PoliciesOne == {[source |-> "open", target |-> "escalated"]}
Symmetry == Permutations(Requests)
=============================================================================
