--------------------------- MODULE MCRemoteSession --------------------------
(* RemoteSession on small sets: model values for ids, two request slots.    *)
EXTENDS RemoteSession, TLC

\* Ids and request slots are interchangeable.
Symmetry == Permutations(Sessions) \cup Permutations(Requests)

\* Two states that differ only in the audiences that were issued a ticket are
\* one state: no guard reads them, and no property but the type invariant.
View == <<session, code, device, passed, relayTask, req>>
=============================================================================
