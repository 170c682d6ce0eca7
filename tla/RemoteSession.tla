--------------------------- MODULE RemoteSession ---------------------------
(***************************************************************************)
(* The control plane of a remote support session: the rows the API keeps   *)
(* (remote_sessions, adhoc_sessions, devices, session_join_tokens) and the *)
(* handlers that change them (modules/remote/remote.routes.ts,             *)
(* modules/remote/adhoc.routes.ts, modules/devices/devices.routes.ts).     *)
(*                                                                         *)
(* A handler runs in a READ COMMITTED transaction (db/pool.ts, withTenant):*)
(* it SELECTs the row, checks it, and later UPDATEs the row by its id. Any *)
(* other transaction may commit between the two, so such a handler is two  *)
(* actions here, XRead and XCommit, of one request slot. A handler whose   *)
(* guard is in the WHERE of its UPDATE is one action.                      *)
(***************************************************************************)
EXTENDS Naturals, FiniteSets

CONSTANTS
  Sessions,     \* ids of remote_sessions rows; finite: the bound on inserts
  Managed,      \* enrolled devices (devices.adhoc = false)
  Codes,        \* support codes; the device a claim creates has the code's id
  Requests,     \* slots for the HTTP requests in flight at one time
  Permission,   \* session permissions
  ViewScreen,   \* the permission every grant includes
  MaxLinks,     \* bound on the claim links mailed for one code
  NoDevice, NoSession

ASSUME SessionAssumption ==
  /\ ViewScreen \in Permission
  /\ MaxLinks \in Nat
  /\ Managed \cap Codes = {}
  /\ NoDevice \notin Managed \cup Codes
  /\ NoSession \notin Sessions

Device == Managed \cup Codes

Types     == {"attended", "unattended", "inspection"}
Awaiting  == {"requested", "consent_pending"}
Connected == {"connecting", "active", "reconnecting"}
Live      == Awaiting \cup Connected
Closed    == {"ended", "denied"}
\* "none": not inserted yet; "gone": deleted by the cascade from devices.
SessionState == Live \cup Closed \cup {"none", "gone"}
CodeState    == {"none", "open", "claimed", "ended", "expired"}
Reports      == Connected \cup {"ended"}   \* what an agent may report
Audience     == {"technician", "agent", "companion"}
Grants       == SUBSET Permission \ {{}}

VARIABLES
  session,    \* remote_sessions, by id
  code,       \* adhoc_sessions, by code
  device,     \* devices: the row and its agent_token_hash
  passed,     \* codes whose expires_at has passed
  ticket,     \* audiences a join token was issued to, by session
  relayTask,  \* sessions whose endpoint agent was handed an agent join token
  req         \* what each request in flight has read

vars == <<session, code, device, passed, ticket, relayTask, req>>

Idle == [op |-> "idle"]

Request ==
       {Idle}
  \cup [op : {"authed"}, device : Device]
  \cup [op : {"email"}, code : Codes, mode : {"code", "email_link"}]
  \cup [op : {"claim"}, code : Codes, link : 0..MaxLinks]
  \cup [op : {"consent"}, session : Sessions, grant : SUBSET Permission]
  \cup [op : {"end", "reconnect"}, session : Sessions]
  \cup [op : {"report"}, session : Sessions, state : Reports]
  \cup [op : {"ticket"}, session : Sessions, audience : Audience, agent : BOOLEAN]
  \cup [op : {"delete"}, device : Managed]

SessionRow == [state : SessionState, type : Types, device : Device \cup {NoDevice},
               permissions : SUBSET Permission, consented : BOOLEAN]
CodeRow    == [state : CodeState, mode : {"code", "email_link"},
               permissions : SUBSET Permission, session : Sessions \cup {NoSession},
               minted : 0..MaxLinks,   \* claim links mailed so far
               link : 0..MaxLinks,     \* the link claim_token_hash is of
               by : 0..MaxLinks,       \* the link it was claimed with
               claims : Nat]           \* devices enrolled with the code
DeviceRow  == [row : {"absent", "present", "retired", "deleted"},
               token : {"none", "live", "revoked"}]

TypeOK ==
  /\ session \in [Sessions -> SessionRow]
  /\ code \in [Codes -> CodeRow]
  /\ device \in [Device -> DeviceRow]
  /\ passed \in SUBSET Codes
  /\ ticket \in [Sessions -> SUBSET Audience]
  /\ relayTask \in SUBSET Sessions
  /\ req \in [Requests -> Request]

Init ==
  /\ session = [s \in Sessions |-> [state |-> "none", type |-> "attended",
                                    device |-> NoDevice, permissions |-> {},
                                    consented |-> FALSE]]
  /\ code = [c \in Codes |-> [state |-> "none", mode |-> "code", permissions |-> {},
                              session |-> NoSession, minted |-> 0, link |-> 0,
                              by |-> 0, claims |-> 0]]
  /\ device = [d \in Device |-> IF d \in Managed
                                THEN [row |-> "present", token |-> "live"]
                                ELSE [row |-> "absent", token |-> "none"]]
  /\ passed = {}
  /\ ticket = [s \in Sessions |-> {}]
  /\ relayTask = {}
  /\ req = [r \in Requests |-> Idle]

Exists(s) == session[s].state \notin {"none", "gone"}
IsIdle(r) == req[r] = Idle
Holding(r, op) == req[r].op = op
Finish(r) == req' = [req EXCEPT ![r] = Idle]

\* A row in remote_sessions, with the state the request type starts in.
Row(ty, st, d, ps) ==
  [state |-> st, type |-> ty, device |-> d, permissions |-> ps, consented |-> FALSE]

\* A guard that fails, an error or a lost client: nothing is committed.
Abandon(r) ==
  /\ ~IsIdle(r)
  /\ Finish(r)
  /\ UNCHANGED <<session, code, device, passed, ticket, relayTask>>

----------------------------------------------------------------------------
(* The technician's side *)

\* Mutant: a state the table does not know.
InitialStateUnknown(ty) == IF ty = "unattended" THEN "queued" ELSE "consent_pending"

InitialState(ty) == CASE ty = "attended"   -> "consent_pending"
                      [] ty = "inspection" -> "connecting"
                      [] ty = "unattended" -> "requested"

\* POST /sessions
CreateSession(s, d, ty, ps) ==
  /\ session[s].state = "none"
  /\ device[d].row \in {"present", "retired"}
  /\ session' = [session EXCEPT ![s] = Row(ty, InitialState(ty), d, ps)]
  /\ ticket' = [ticket EXCEPT ![s] = {"technician"}]
  /\ UNCHANGED <<code, device, passed, relayTask, req>>

\* POST /sessions/:id/join, up to its guard; IssueTicket commits it.
JoinRead(r, s) ==
  /\ IsIdle(r)
  /\ Exists(s) /\ session[s].state \notin Closed
  /\ req' = [req EXCEPT ![r] = [op |-> "ticket", session |-> s,
                                audience |-> "technician", agent |-> FALSE]]
  /\ UNCHANGED <<session, code, device, passed, ticket, relayTask>>

\* The token row references its session: the insert fails once that is deleted.
IssueTicket(r) ==
  /\ Holding(r, "ticket")
  /\ LET s == req[r].session IN
     /\ Exists(s)
     /\ ticket' = [ticket EXCEPT ![s] = @ \cup {req[r].audience}]
     /\ relayTask' = IF req[r].agent THEN relayTask \cup {s} ELSE relayTask
  /\ Finish(r)
  /\ UNCHANGED <<session, code, device, passed>>

\* What ending or denying a session changes: the row, the credential of an
\* ad-hoc device, and the claimed code the session came from.
\* (mutant: the credential survives)
RevokeNothing(d) == device
Revoke(d) == IF d \in Codes THEN [device EXCEPT ![d].token = "revoked"] ELSE device
CloseCodes(s) ==
  [c \in Codes |-> IF code[c].session = s /\ code[c].state = "claimed"
                   THEN [code[c] EXCEPT !.state = "ended"] ELSE code[c]]
CloseSession(s, st) ==
  /\ session' = [session EXCEPT ![s].state = st]
  /\ device' = Revoke(session[s].device)
  /\ code' = CloseCodes(s)
  /\ UNCHANGED <<passed, ticket, relayTask>>

\* POST /sessions/:id/end
EndRead(r, s) ==
  /\ IsIdle(r)
  /\ Exists(s) /\ session[s].state # "ended"
  /\ req' = [req EXCEPT ![r] = [op |-> "end", session |-> s]]
  /\ UNCHANGED <<session, code, device, passed, ticket, relayTask>>

EndCommit(r) ==
  /\ Holding(r, "end")
  /\ Exists(req[r].session)
  /\ CloseSession(req[r].session, "ended")
  /\ Finish(r)

----------------------------------------------------------------------------
(* The endpoint agent's side: every call authenticates the device token in *)
(* a transaction of its own, before the handler's.                         *)

TokenValid(d) ==
  /\ device[d].token = "live"
  /\ d \notin passed          \* an ad-hoc credential expires with its code

Authenticate(r, d) ==
  /\ IsIdle(r)
  /\ TokenValid(d)
  /\ req' = [req EXCEPT ![r] = [op |-> "authed", device |-> d]]
  /\ UNCHANGED <<session, code, device, passed, ticket, relayTask>>

\* The row the handler selects by session id and the authenticated device.
Selects(r, s) ==
  /\ Holding(r, "authed")
  /\ Exists(s)
  /\ session[s].device = req[r].device

AgentRead(r, next) ==
  /\ req' = [req EXCEPT ![r] = next]
  /\ UNCHANGED <<session, code, device, passed, ticket, relayTask>>

\* The permissions a grant leaves: what was requested, cut down to what the
\* body lists if it lists any. No permission at all stands for a refusal.
\* (mutant: the body's list is not cut down to what was requested)
EffectiveUnfiltered(requested, listed) == listed \cup {ViewScreen}
Effective(requested, listed) == (requested \cap listed) \cup {ViewScreen}
Answers(s) ==
  {{}} \cup {session[s].permissions}
       \cup {Effective(session[s].permissions, ps) : ps \in Grants}

\* POST /agent/sessions/:id/consent
AgentConsentRead(r, s) ==
  /\ Selects(r, s)
  /\ session[s].state \in Awaiting
  /\ \E ps \in Answers(s) :
       AgentRead(r, [op |-> "consent", session |-> s, grant |-> ps])

\* POST /connect/:code/consent, whose checks are a transaction of their own.
BrowserConsentRead(r, c) ==
  /\ Holding(r, "authed") /\ req[r].device = c
  /\ code[c].state = "claimed" /\ code[c].session # NoSession
  /\ session[code[c].session].state \in Awaiting
  /\ \E ps \in Answers(code[c].session) :
       AgentRead(r, [op |-> "consent", session |-> code[c].session, grant |-> ps])

\* Both routes write the answer by session id, whatever the state is by then.
ConsentCommit(r) ==
  /\ Holding(r, "consent")
  /\ LET s == req[r].session IN
     /\ Exists(s)
     /\ \/ /\ req[r].grant = {}
           /\ CloseSession(s, "denied")
        \/ /\ req[r].grant # {}
           /\ session' = [session EXCEPT ![s].state = "connecting",
                                         ![s].permissions = req[r].grant,
                                         ![s].consented = TRUE]
           /\ ticket' = [ticket EXCEPT ![s] = @ \cup {"agent"}]
           /\ relayTask' = relayTask \cup {s}
           /\ UNCHANGED <<code, device, passed>>
  /\ Finish(r)

\* POST /agent/sessions/:id/join: inspection sessions need no consent.
InspectionJoinRead(r, s) ==
  /\ Selects(r, s)
  /\ session[s].type = "inspection"
  /\ session[s].state = "connecting"
  /\ AgentRead(r, [op |-> "ticket", session |-> s,
                   audience |-> "agent", agent |-> TRUE])

\* Mutant: a reconnect in any state.
ReconnectReadAnyState(r, s) ==
  /\ Selects(r, s)
  /\ AgentRead(r, [op |-> "reconnect", session |-> s])

\* POST /agent/sessions/:id/reconnect
ReconnectRead(r, s) ==
  /\ Selects(r, s)
  /\ session[s].state \in Connected
  /\ AgentRead(r, [op |-> "reconnect", session |-> s])

ReconnectCommit(r) ==
  /\ Holding(r, "reconnect")
  /\ LET s == req[r].session IN
     /\ Exists(s)
     /\ session' = [session EXCEPT ![s].state = "reconnecting"]
     /\ ticket' = [ticket EXCEPT ![s] = @ \cup {"agent"}]
     /\ relayTask' = relayTask \cup {s}
  /\ Finish(r)
  /\ UNCHANGED <<code, device, passed>>

\* POST /agent/sessions/:id/end; EndCommit commits it.
AgentEndRead(r, s) ==
  /\ Selects(r, s)
  /\ session[s].state # "ended"
  /\ AgentRead(r, [op |-> "end", session |-> s])

\* POST /agent/sessions/:id/state. The handler does not look at the state the
\* session is in. The agent reports a session only once the relay has let it
\* in with its join token (agent/src/main.rs, run_relay_connection).
ReportRead(r, s, st) ==
  /\ Selects(r, s)
  /\ s \in relayTask
  /\ AgentRead(r, [op |-> "report", session |-> s, state |-> st])

ReportCommit(r) ==
  /\ Holding(r, "report")
  /\ LET s == req[r].session IN
     /\ Exists(s)
     /\ \/ /\ req[r].state = "ended"
           /\ CloseSession(s, "ended")
        \/ /\ req[r].state # "ended"
           /\ session' = [session EXCEPT ![s].state = req[r].state]
           /\ UNCHANGED <<code, device, passed, ticket, relayTask>>
  /\ Finish(r)

----------------------------------------------------------------------------
(* Support codes *)

\* POST /adhoc-sessions
CreateCode(c, ps) ==
  /\ code[c].state = "none"
  /\ code' = [code EXCEPT ![c].state = "open", ![c].permissions = ps]
  /\ UNCHANGED <<session, device, passed, ticket, relayTask, req>>

\* Time reaches expires_at.
PassExpiry(c) ==
  /\ code[c].state # "none"
  /\ c \notin passed
  /\ passed' = passed \cup {c}
  /\ UNCHANGED <<session, code, device, ticket, relayTask, req>>

\* POST /adhoc-sessions/:id/email, up to its check
EmailRead(r, c, mode) ==
  /\ IsIdle(r)
  /\ code[c].state = "open" /\ c \notin passed
  /\ code[c].minted < MaxLinks
  /\ req' = [req EXCEPT ![r] = [op |-> "email", code |-> c, mode |-> mode]]
  /\ UNCHANGED <<session, code, device, passed, ticket, relayTask>>

\* The update misses a code that was closed since, and the mail goes out anyway.
EmailCommit(r) ==
  /\ Holding(r, "email")
  /\ LET c == req[r].code
         minted == code[c].minted + (IF req[r].mode = "email_link" THEN 1 ELSE 0) IN
     /\ minted <= MaxLinks
     /\ code' = [code EXCEPT ![c] =
          IF @.state = "open"
          THEN [@ EXCEPT !.mode = req[r].mode, !.minted = minted, !.by = 0,
                         !.link = IF req[r].mode = "email_link" THEN minted ELSE 0]
          ELSE [@ EXCEPT !.minted = minted]]
  /\ Finish(r)
  /\ UNCHANGED <<session, device, passed, ticket, relayTask>>

\* Mutant: the revoking UPDATE without its WHERE on the state.
RevokeCodeAnyState(c) ==
  /\ code[c].state # "none"
  /\ code' = [code EXCEPT ![c].state = "expired"]
  /\ UNCHANGED <<session, device, passed, ticket, relayTask, req>>

\* POST /adhoc-sessions/:id/revoke
RevokeCode(c) ==
  /\ code[c].state = "open"
  /\ code' = [code EXCEPT ![c].state = "expired"]
  /\ UNCHANGED <<session, device, passed, ticket, relayTask, req>>

\* expireStaleAdhocCodes, every five minutes
\* (mutants: every expired code, whatever its state; the comparison reversed)
SweepStaleAnyState(c) == code[c].state # "none" /\ c \in passed
SweepStaleReversed(c) == code[c].state = "open" /\ c \notin passed
SweepStale(c) == code[c].state = "open" /\ c \in passed
Sweep ==
  /\ \E c \in Codes : SweepStale(c)
  /\ code' = [c \in Codes |-> IF SweepStale(c)
                              THEN [code[c] EXCEPT !.state = "expired"] ELSE code[c]]
  /\ UNCHANGED <<session, device, passed, ticket, relayTask, req>>

\* POST /connect/:code/claim, up to the checks on the row it read. link is the
\* claim link presented, 0 for none; it is dropped unless the row asks for one.
ClaimRead(r, c, link) ==
  /\ IsIdle(r)
  /\ code[c].state # "none" /\ c \notin passed
  /\ code[c].mode = "email_link" =>
       link # 0 /\ code[c].by = 0 /\ link = code[c].link
  /\ req' = [req EXCEPT ![r] =
       [op |-> "claim", code |-> c,
        link |-> IF code[c].mode = "email_link" THEN link ELSE 0]]
  /\ UNCHANGED <<session, code, device, passed, ticket, relayTask>>

\* Mutants: the UPDATE trusts the state, or the link, that was read before.
ClaimableStaleState(c, link) ==
  /\ code[c].state # "none" /\ c \notin passed
  /\ code[c].mode = "email_link" => link = code[c].link
ClaimableStaleLink(c, link) == code[c].state = "open" /\ c \notin passed

\* The WHERE of the claiming UPDATE, evaluated on the row as it is then.
Claimable(c, link) ==
  /\ code[c].state = "open"
  /\ c \notin passed
  /\ \/ code[c].mode = "code"
     \/ /\ code[c].mode = "email_link"
        /\ link # 0 /\ link = code[c].link /\ code[c].by = 0

ClaimCommit(r, s) ==
  /\ Holding(r, "claim")
  /\ LET c == req[r].code IN
     /\ Claimable(c, req[r].link)
     /\ session[s].state = "none"
     /\ session' = [session EXCEPT ![s] =
          Row("attended", "consent_pending", c, code[c].permissions)]
     /\ code' = [code EXCEPT ![c].state = "claimed", ![c].by = req[r].link,
                             ![c].session = s, ![c].claims = @ + 1]
     /\ device' = [device EXCEPT ![c] = [row |-> "present", token |-> "live"]]
  /\ Finish(r)
  /\ UNCHANGED <<passed, ticket, relayTask>>

\* POST /connect/:code/join (device token), /companion-join and /agent-join
\* (the code alone): IssueTicket commits them.
CodeLive(c) ==
  /\ code[c].state = "claimed" /\ code[c].session # NoSession
  /\ session[code[c].session].state \in Live
CodeTicket(c, aud) ==
  [op |-> "ticket", session |-> code[c].session, audience |-> aud, agent |-> FALSE]

ConnectJoinRead(r, c) ==
  /\ Holding(r, "authed") /\ req[r].device = c
  /\ CodeLive(c)
  /\ AgentRead(r, CodeTicket(c, "companion"))

CompanionJoinRead(r, c) ==
  /\ IsIdle(r) /\ c \notin passed
  /\ CodeLive(c)
  /\ AgentRead(r, CodeTicket(c, "companion"))

AgentJoinRead(r, c) ==
  /\ IsIdle(r) /\ c \notin passed
  /\ CodeLive(c)
  /\ AgentRead(r, CodeTicket(c, "agent"))

----------------------------------------------------------------------------
(* Device inventory: the operations on enrolled devices that touch sessions *)

OnDevice(d) == {s \in Sessions : Exists(s) /\ session[s].device = d}

\* POST /devices/:id/retire
RetireDevice(d) ==
  /\ d \in Managed /\ device[d].row = "present"
  /\ device' = [device EXCEPT ![d] = [row |-> "retired", token |-> "revoked"]]
  /\ session' = [s \in Sessions |->
       IF s \in OnDevice(d) /\ session[s].state \in Live
       THEN [session[s] EXCEPT !.state = "ended"] ELSE session[s]]
  /\ UNCHANGED <<code, passed, ticket, relayTask, req>>

\* POST /devices/:id/restore
RestoreDevice(d) ==
  /\ d \in Managed /\ device[d].row = "retired"
  /\ device' = [device EXCEPT ![d].row = "present"]
  /\ UNCHANGED <<session, code, passed, ticket, relayTask, req>>

\* POST /agent/enrol with the fleet token, for a host that is already known
ReEnrol(d) ==
  /\ d \in Managed /\ device[d].row \in {"present", "retired"}
  /\ device' = [device EXCEPT ![d].token = "live"]
  /\ UNCHANGED <<session, code, passed, ticket, relayTask, req>>

\* DELETE /devices/:id: refused while a session is live, then a cascade.
DeleteRead(r, d) ==
  /\ IsIdle(r)
  /\ d \in Managed /\ device[d].row \in {"present", "retired"}
  /\ \A s \in OnDevice(d) : session[s].state \notin Live
  /\ AgentRead(r, [op |-> "delete", device |-> d])

DeleteCommit(r) ==
  /\ Holding(r, "delete")
  /\ LET d == req[r].device IN
     /\ device' = [device EXCEPT ![d] = [row |-> "deleted", token |-> "none"]]
     /\ session' = [s \in Sessions |-> IF s \in OnDevice(d)
                                       THEN [session[s] EXCEPT !.state = "gone"]
                                       ELSE session[s]]
     /\ ticket' = [s \in Sessions |-> IF s \in OnDevice(d) THEN {} ELSE ticket[s]]
  /\ Finish(r)
  /\ UNCHANGED <<code, passed, relayTask>>

----------------------------------------------------------------------------
UserStep ==
  \/ \E s \in Sessions, d \in Device, ty \in Types, ps \in Grants :
       CreateSession(s, d, ty, ps)
  \/ \E r \in Requests, s \in Sessions : JoinRead(r, s) \/ EndRead(r, s)
  \/ \E r \in Requests : IssueTicket(r) \/ EndCommit(r) \/ Abandon(r)

AgentStep(r) ==
  \/ \E d \in Device : Authenticate(r, d)
  \/ \E s \in Sessions :
       \/ AgentConsentRead(r, s) \/ InspectionJoinRead(r, s)
       \/ ReconnectRead(r, s)    \/ AgentEndRead(r, s)
       \/ \E st \in Reports : ReportRead(r, s, st)
  \/ \E c \in Codes : BrowserConsentRead(r, c)
  \/ ConsentCommit(r) \/ ReconnectCommit(r) \/ ReportCommit(r)

CodeStep(c) ==
  \/ \E ps \in Grants : CreateCode(c, ps)
  \/ PassExpiry(c) \/ RevokeCode(c)
  \/ \E r \in Requests :
       \/ \E mode \in {"code", "email_link"} : EmailRead(r, c, mode)
       \/ \E link \in 0..code[c].minted : ClaimRead(r, c, link)
       \/ ConnectJoinRead(r, c) \/ CompanionJoinRead(r, c) \/ AgentJoinRead(r, c)

ClaimStep == \E r \in Requests : EmailCommit(r) \/ \E s \in Sessions : ClaimCommit(r, s)

InventoryStep ==
  \/ \E d \in Managed : RetireDevice(d) \/ RestoreDevice(d) \/ ReEnrol(d)
  \/ \E r \in Requests : (\E d \in Managed : DeleteRead(r, d)) \/ DeleteCommit(r)

Next ==
  \/ UserStep
  \/ \E r \in Requests : AgentStep(r)
  \/ \E c \in Codes : CodeStep(c)
  \/ ClaimStep
  \/ Sweep
  \/ InventoryStep

Spec == Init /\ [][Next]_vars

\* Time passes, and the sweep runs on a timer for as long as the API is up.
\* No request is fair: a client may never call.
FairSpec == Spec /\ WF_vars(Sweep) /\ \A c \in Codes : WF_vars(PassExpiry(c))

----------------------------------------------------------------------------
(* Safety *)

\* An attended or unattended session is connecting, active or reconnecting
\* only after the endpoint granted it, whatever calls were in flight: the agent
\* reports nothing about a session it holds no ticket for (consent, reconnect
\* and state handlers of remote.routes.ts).
ConsentBeforeLive ==
  \A s \in Sessions :
    session[s].type # "inspection" /\ session[s].state \in Connected
      => session[s].consented

\* A support code enrols at most one device, however many claims race for it
\* and for its mails, its revocation and its expiry (POST /connect/:code/claim).
SingleUse == \A c \in Codes : code[c].claims <= 1

\* The code, the device and the session a claim made stay tied together: a code
\* names a session exactly from its claim on, the session is on the code's own
\* device, and the device row exists (the one transaction of the claim).
ClaimLinks ==
  \A c \in Codes :
    /\ code[c].session # NoSession <=> code[c].state \in {"claimed", "ended"}
    /\ code[c].session # NoSession =>
         /\ session[code[c].session].device = c
         /\ session[code[c].session].type = "attended"
         /\ device[c].row = "present"
    /\ code[c].session = NoSession => device[c].token = "none"

\* Once a code's session was ended or refused, the credential its device was
\* given is dead, whichever of the four handlers closed it.
ClosedCodeRevoked ==
  \A c \in Codes : code[c].state = "ended" => device[c].token = "revoked"

\* A code that was turned into a mailed link is claimed by the bearer of the
\* last link mailed for it and of no earlier one, though the link may be
\* replaced between the check and the update of a claim in flight.
BoundToLatestLink ==
  \A c \in Codes :
    code[c].state \in {"claimed", "ended"} /\ code[c].mode = "email_link"
      => code[c].by # 0 /\ code[c].by = code[c].link

\* However many grants race, the session of a code never holds a permission
\* the technician did not ask for when the code was made.
NoPermissionBeyondCode ==
  \A c \in Codes :
    code[c].session # NoSession =>
      session[code[c].session].permissions \subseteq code[c].permissions \cup {ViewScreen}

----------------------------------------------------------------------------
(* The abstract view of the codes *)

SC == INSTANCE SupportCode
        WITH st <- [c \in Codes |-> code[c].state],
             holder <- [c \in Codes |-> code[c].session]

\* Every step of the control plane moves each support code as SupportCode
\* allows: redeemed once, from open only, and never reopened or re-tied
\* (claim, revoke, sweep and the four handlers that close a session).
ImplementsSupportCode == SC!Spec

\* No support code stays open: it is claimed, revoked, or swept once expired
\* (expireStaleAdhocCodes on its timer).
OpenCodeResolves == SC!Resolves
=============================================================================
