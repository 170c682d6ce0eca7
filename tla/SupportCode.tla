---------------------------- MODULE SupportCode ----------------------------
(***************************************************************************)
(* What a support code promises its technician: it is open until it is     *)
(* redeemed for one session or closed, a redeemed code stays tied to that  *)
(* session until it ends, and no code stays open for ever.                 *)
(***************************************************************************)
CONSTANTS Codes, Sessions, NoSession

VARIABLES st, holder
cvars == <<st, holder>>

Init == /\ st = [c \in Codes |-> "none"]
        /\ holder = [c \in Codes |-> NoSession]

Open(c) == /\ st[c] = "none"
           /\ st' = [st EXCEPT ![c] = "open"]
           /\ UNCHANGED holder

\* A session redeems one code at most.
Redeem(c, s) == /\ st[c] = "open"
                /\ \A b \in Codes : holder[b] # s
                /\ st' = [st EXCEPT ![c] = "claimed"]
                /\ holder' = [holder EXCEPT ![c] = s]

End(c) == /\ st[c] = "claimed"
          /\ st' = [st EXCEPT ![c] = "ended"]
          /\ UNCHANGED holder

\* Codes are closed one by one by a technician or together by the sweep.
Close(S) == /\ S # {}
            /\ \A c \in S : st[c] = "open"
            /\ st' = [c \in Codes |-> IF c \in S THEN "expired" ELSE st[c]]
            /\ UNCHANGED holder

Next == \/ \E c \in Codes : Open(c) \/ End(c)
        \/ \E c \in Codes, s \in Sessions : Redeem(c, s)
        \/ \E S \in SUBSET Codes : Close(S)

Spec == Init /\ [][Next]_cvars

\* Every open code is eventually redeemed or closed.
Resolves == \A c \in Codes : (st[c] = "open") ~> (st[c] # "open")
=============================================================================
