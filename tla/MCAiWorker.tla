----------------------------- MODULE MCAiWorker -----------------------------
(* Small instances of AiWorker: plans with a gated and a device step. *)
EXTENDS AiWorker

PlansAll == {<<"restart", "resolve">>, <<"script", "read">>}
=============================================================================
