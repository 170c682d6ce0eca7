------------------------------ MODULE MCRelay ------------------------------
(* Relay on small sets: every ticket admits to the one room, whose peers are  *)
(* spread over two processes.                                                 *)
EXTENDS Relay, TLC

CONSTANT r1

MCTicketRoom == [t \in Ticket |-> r1]

\* Processes, connections and tickets are interchangeable.
Symmetry == Permutations(Process) \cup Permutations(Conn) \cup Permutations(Ticket)
=============================================================================
