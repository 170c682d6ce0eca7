------------------------- MODULE RemoteSessionProofs -------------------------
(***************************************************************************)
(* Theorems about RemoteSession, for every number of sessions, devices,    *)
(* codes, links and requests in flight.                                    *)
(***************************************************************************)
EXTENDS RemoteSession, TLAPS

----------------------------------------------------------------------------
(* Types *)

\* What a request in flight carries, by operation.
LEMMA RequestFields ==
  ASSUME NEW q \in Request
  PROVE  /\ q.op \in {"consent", "end", "reconnect", "report", "ticket"}
              => q.session \in Sessions
         /\ q.op \in {"claim", "email"} => q.code \in Codes
         /\ q.op \in {"authed", "delete"} => q.device \in Device
         /\ q.op = "claim" => q.link \in 0..MaxLinks
         /\ q.op = "email" => q.mode \in {"code", "email_link"}
         /\ q.op = "consent" => q.grant \in SUBSET Permission
         /\ q.op = "report" => q.state \in Reports
         /\ q.op = "ticket" => q.audience \in Audience /\ q.agent \in BOOLEAN
         /\ q.op = "delete" => q.device \in Managed
  BY DEF Request, Idle, Device

\* A handler that finishes leaves its slot idle.
LEMMA FinishOK ==
  ASSUME TypeOK, NEW r \in Requests, Finish(r)
  PROVE  req' \in [Requests -> Request]
  BY DEF TypeOK, Finish, Request

\* A code's row stays well formed when its state changes.
LEMMA CodeStateOK ==
  ASSUME NEW row \in CodeRow, NEW st \in CodeState
  PROVE  [row EXCEPT !.state = st] \in CodeRow
  BY DEF CodeRow

\* Claiming a code leaves its row well formed.
LEMMA ClaimedRowOK ==
  ASSUME NEW row \in CodeRow, NEW s \in Sessions, NEW link \in 0..MaxLinks
  PROVE  [row EXCEPT !.state = "claimed", !.by = link,
                     !.session = s, !.claims = @ + 1] \in CodeRow
<1>1. row.claims + 1 \in Nat
  BY DEF CodeRow
<1>2. [row EXCEPT !.state = "claimed", !.by = link] \in CodeRow
  BY DEF CodeRow, CodeState
<1> QED
  BY <1>1, <1>2 DEF CodeRow

\* Closing a session keeps the rows it writes well formed.
LEMMA CloseOK ==
  ASSUME TypeOK, NEW s \in Sessions, NEW st \in Closed, CloseSession(s, st)
  PROVE  /\ session' \in [Sessions -> SessionRow]
         /\ code' \in [Codes -> CodeRow]
         /\ device' \in [Device -> DeviceRow]
         /\ passed' \in SUBSET Codes
         /\ ticket' \in [Sessions -> SUBSET Audience]
         /\ relayTask' \in SUBSET Sessions
<1>1. session' \in [Sessions -> SessionRow]
  BY DEF TypeOK, CloseSession, SessionRow, SessionState
<1>2. code' \in [Codes -> CodeRow]
  <2>1. ASSUME NEW c \in Codes PROVE code'[c] \in CodeRow
    BY CodeStateOK DEF TypeOK, CloseSession, CloseCodes, CodeState
  <2> QED
    BY <2>1 DEF CloseSession, CloseCodes
<1>3. device' \in [Device -> DeviceRow]
  BY DEF TypeOK, CloseSession, Revoke, DeviceRow
<1> QED
  BY <1>1, <1>2, <1>3 DEF TypeOK, CloseSession

\* A row of remote_sessions is well formed if what it is made of is.
LEMMA RowOK ==
  ASSUME NEW ty \in Types, NEW d \in Device, NEW ps \in SUBSET Permission,
         NEW st \in SessionState
  PROVE  Row(ty, st, d, ps) \in SessionRow
  BY DEF Row, SessionRow

\* Whatever the endpoint answers, it grants a set of permissions.
LEMMA AnswersOK ==
  ASSUME TypeOK, NEW s \in Sessions
  PROVE  Answers(s) \subseteq SUBSET Permission
  BY SessionAssumption DEF TypeOK, Answers, Effective, Grants, SessionRow

LEMMA InitTypeOK == Init => TypeOK
  BY SessionAssumption
     DEF Init, TypeOK, Request, Idle, Device, SessionRow, CodeRow, DeviceRow,
         SessionState, CodeState, Types

LEMMA UserTypeOK == TypeOK /\ UserStep => TypeOK'
<1> SUFFICES ASSUME TypeOK, UserStep PROVE TypeOK'
  OBVIOUS
<1>1. CASE \E s \in Sessions, d \in Device, ty \in Types, ps \in Grants :
             CreateSession(s, d, ty, ps)
  <2> PICK s \in Sessions, d \in Device, ty \in Types, ps \in Grants :
             CreateSession(s, d, ty, ps)
    BY <1>1
  <2>1. InitialState(ty) \in SessionState
    BY DEF InitialState, Types, SessionState, Live, Awaiting, Connected
  <2>2. Row(ty, InitialState(ty), d, ps) \in SessionRow
    BY <2>1, RowOK DEF Grants
  <2> QED
    BY <2>2 DEF TypeOK, CreateSession, Audience
<1>2. CASE \E r \in Requests, s \in Sessions : JoinRead(r, s)
  BY <1>2 DEF TypeOK, JoinRead, Request, Audience
<1>3. CASE \E r \in Requests, s \in Sessions : EndRead(r, s)
  BY <1>3 DEF TypeOK, EndRead, Request
<1>4. CASE \E r \in Requests : Abandon(r)
  BY <1>4, FinishOK DEF TypeOK, Abandon
<1>5. CASE \E r \in Requests : IssueTicket(r)
  BY <1>5, FinishOK, RequestFields DEF TypeOK, IssueTicket, Holding
<1>6. CASE \E r \in Requests : EndCommit(r)
  BY <1>6, FinishOK, CloseOK, RequestFields DEF TypeOK, EndCommit, Holding, Closed
<1> QED
  BY <1>1, <1>2, <1>3, <1>4, <1>5, <1>6 DEF UserStep

LEMMA AgentTypeOK ==
  ASSUME NEW r \in Requests
  PROVE  TypeOK /\ AgentStep(r) => TypeOK'
<1> SUFFICES ASSUME TypeOK, AgentStep(r) PROVE TypeOK'
  OBVIOUS
<1>0. ASSUME NEW next \in Request, AgentRead(r, next) PROVE TypeOK'
  BY <1>0 DEF TypeOK, AgentRead
<1>1. CASE \E d \in Device : Authenticate(r, d)
  BY <1>1 DEF TypeOK, Authenticate, Request
<1>2. CASE \E s \in Sessions : AgentConsentRead(r, s)
  BY <1>0, <1>2, AnswersOK DEF AgentConsentRead, Request
<1>3. CASE \E s \in Sessions : InspectionJoinRead(r, s)
  BY <1>0, <1>3 DEF InspectionJoinRead, Request, Audience
<1>4. CASE \E s \in Sessions : ReconnectRead(r, s) \/ AgentEndRead(r, s)
  BY <1>0, <1>4 DEF ReconnectRead, AgentEndRead, Request
<1>5. CASE \E s \in Sessions, st \in Reports : ReportRead(r, s, st)
  BY <1>0, <1>5 DEF ReportRead, Request
<1>6. CASE \E c \in Codes : BrowserConsentRead(r, c)
  <2> PICK c \in Codes : BrowserConsentRead(r, c)
    BY <1>6
  <2>1. code[c].session \in Sessions
    BY DEF TypeOK, CodeRow, BrowserConsentRead
  <2> QED
    BY <1>0, <2>1, AnswersOK DEF BrowserConsentRead, Request
<1>7. CASE ConsentCommit(r)
  <2> DEFINE s == req[r].session
  <2>1. s \in Sessions /\ req[r].grant \in SUBSET Permission
    BY <1>7, RequestFields DEF TypeOK, ConsentCommit, Holding
  <2>2. req' \in [Requests -> Request]
    BY <1>7, FinishOK DEF ConsentCommit
  <2>3. CASE CloseSession(s, "denied")
    BY <2>1, <2>2, <2>3, CloseOK DEF TypeOK, Closed
  <2>4. CASE ~CloseSession(s, "denied")
    <3>1. /\ session' = [session EXCEPT ![s].state = "connecting",
                                        ![s].permissions = req[r].grant,
                                        ![s].consented = TRUE]
          /\ ticket' = [ticket EXCEPT ![s] = @ \cup {"agent"}]
          /\ relayTask' = relayTask \cup {s}
          /\ UNCHANGED <<code, device, passed>>
      BY <1>7, <2>4 DEF ConsentCommit
    <3>2. session' \in [Sessions -> SessionRow]
      BY <2>1, <3>1 DEF TypeOK, SessionRow, SessionState, Live, Connected
    <3> QED
      BY <2>1, <2>2, <3>1, <3>2 DEF TypeOK, Audience
  <2> QED
    BY <2>3, <2>4
<1>8. CASE ReconnectCommit(r)
  BY <1>8, FinishOK, RequestFields
     DEF TypeOK, ReconnectCommit, Holding, SessionRow, SessionState, Live,
         Connected, Audience
<1>9. CASE ReportCommit(r)
  <2> DEFINE s == req[r].session
  <2>1. s \in Sessions /\ req[r].state \in Reports
    BY <1>9, RequestFields DEF TypeOK, ReportCommit, Holding
  <2>2. req' \in [Requests -> Request]
    BY <1>9, FinishOK DEF ReportCommit
  <2>3. CASE CloseSession(s, "ended")
    BY <2>1, <2>2, <2>3, CloseOK DEF TypeOK, Closed
  <2>4. CASE ~CloseSession(s, "ended")
    BY <1>9, <2>1, <2>2, <2>4
       DEF TypeOK, ReportCommit, Reports, SessionRow, SessionState, Live
  <2> QED
    BY <2>3, <2>4
<1> QED
  BY <1>1, <1>2, <1>3, <1>4, <1>5, <1>6, <1>7, <1>8, <1>9 DEF AgentStep

LEMMA CodeTypeOK ==
  ASSUME NEW c \in Codes
  PROVE  TypeOK /\ CodeStep(c) => TypeOK'
<1> SUFFICES ASSUME TypeOK, CodeStep(c) PROVE TypeOK'
  OBVIOUS
<1>1. CASE \E ps \in Grants : CreateCode(c, ps)
  <2> PICK ps \in Grants : CreateCode(c, ps)
    BY <1>1
  <2>1. [code[c] EXCEPT !.state = "open", !.permissions = ps] \in CodeRow
    BY DEF TypeOK, CodeRow, CodeState, Grants
  <2> QED
    BY <2>1 DEF TypeOK, CreateCode
<1>2. CASE PassExpiry(c) \/ RevokeCode(c)
  BY <1>2 DEF TypeOK, PassExpiry, RevokeCode, CodeRow, CodeState
<1>3. CASE \E r \in Requests, mode \in {"code", "email_link"} : EmailRead(r, c, mode)
  BY <1>3 DEF TypeOK, EmailRead, Request
<1>4. CASE \E r \in Requests, link \in 0..code[c].minted : ClaimRead(r, c, link)
  <2> PICK r \in Requests, link \in 0..code[c].minted : ClaimRead(r, c, link)
    BY <1>4
  <2>1. link \in 0..MaxLinks /\ 0 \in 0..MaxLinks
    BY SessionAssumption DEF TypeOK, CodeRow
  <2> QED
    BY <2>1 DEF TypeOK, ClaimRead, Request
<1>5. CASE \E r \in Requests : \/ ConnectJoinRead(r, c)
                               \/ CompanionJoinRead(r, c) \/ AgentJoinRead(r, c)
  <2>1. ASSUME CodeLive(c), NEW aud \in Audience
        PROVE  CodeTicket(c, aud) \in Request
    <3>1. code[c].session \in Sessions
      BY <2>1 DEF TypeOK, CodeLive, CodeRow
    <3> QED
      BY <3>1 DEF CodeTicket, Request
  <2>2. CodeLive(c) /\ \E r \in Requests, aud \in Audience : AgentRead(r, CodeTicket(c, aud))
    BY <1>5 DEF ConnectJoinRead, CompanionJoinRead, AgentJoinRead, Audience
  <2> QED
    BY <2>1, <2>2 DEF TypeOK, AgentRead
<1> QED
  BY <1>1, <1>2, <1>3, <1>4, <1>5 DEF CodeStep

LEMMA ClaimTypeOK == TypeOK /\ ClaimStep => TypeOK'
<1> SUFFICES ASSUME TypeOK, ClaimStep PROVE TypeOK'
  OBVIOUS
<1>1. CASE \E r \in Requests : EmailCommit(r)
  <2> PICK r \in Requests : EmailCommit(r)
    BY <1>1
  <2> DEFINE c == req[r].code
             mode == req[r].mode
             minted == code[c].minted + (IF mode = "email_link" THEN 1 ELSE 0)
             mailed == [code[c] EXCEPT !.mode = mode, !.minted = minted, !.by = 0,
                          !.link = IF mode = "email_link" THEN minted ELSE 0]
             missed == [code[c] EXCEPT !.minted = minted]
  <2>1. c \in Codes /\ mode \in {"code", "email_link"}
    BY RequestFields DEF TypeOK, EmailCommit, Holding
  <2>2. code[c] \in CodeRow
    BY <2>1 DEF TypeOK
  <2>3. minted \in 0..MaxLinks /\ 0 \in 0..MaxLinks
    BY <2>2, SessionAssumption DEF EmailCommit, CodeRow
  <2>4. mailed \in CodeRow /\ missed \in CodeRow
    <3> HIDE DEF minted, mode
    <3> QED
      BY <2>1, <2>2, <2>3 DEF CodeRow
  <2>5. code' = [code EXCEPT ![c] = IF code[c].state = "open" THEN mailed ELSE missed]
    BY DEF EmailCommit
  <2>6. code' \in [Codes -> CodeRow]
    <3> HIDE DEF mailed, missed
    <3> QED
      BY <2>4, <2>5 DEF TypeOK
  <2> QED
    BY <2>6, FinishOK DEF TypeOK, EmailCommit
<1>2. CASE \E r \in Requests, s \in Sessions : ClaimCommit(r, s)
  <2> PICK r \in Requests, s \in Sessions : ClaimCommit(r, s)
    BY <1>2
  <2> DEFINE c == req[r].code
  <2>1. c \in Codes /\ req[r].link \in 0..MaxLinks
    BY RequestFields DEF TypeOK, ClaimCommit, Holding
  <2>2. req' \in [Requests -> Request]
    BY FinishOK DEF ClaimCommit
  <2>3. Row("attended", "consent_pending", c, code[c].permissions) \in SessionRow
    BY <2>1, RowOK
       DEF TypeOK, CodeRow, Types, Device, SessionState, Live, Awaiting
  <2>4. session' \in [Sessions -> SessionRow]
    BY <2>3 DEF TypeOK, ClaimCommit
  <2>5. code' \in [Codes -> CodeRow]
    <3>1. [code[c] EXCEPT !.state = "claimed", !.by = req[r].link,
                          !.session = s, !.claims = @ + 1] \in CodeRow
      BY <2>1, ClaimedRowOK DEF TypeOK
    <3> QED
      BY <3>1 DEF TypeOK, ClaimCommit
  <2>6. device' \in [Device -> DeviceRow]
    BY <2>1 DEF TypeOK, ClaimCommit, DeviceRow
  <2> QED
    BY <2>2, <2>4, <2>5, <2>6 DEF TypeOK, ClaimCommit
<1> QED
  BY <1>1, <1>2 DEF ClaimStep

LEMMA SweepTypeOK == TypeOK /\ Sweep => TypeOK'
  BY DEF TypeOK, Sweep, CodeRow, CodeState

LEMMA InventoryTypeOK == TypeOK /\ InventoryStep => TypeOK'
<1> SUFFICES ASSUME TypeOK, InventoryStep PROVE TypeOK'
  OBVIOUS
<1>1. CASE \E d \in Managed : RetireDevice(d)
  <2> PICK d \in Managed : RetireDevice(d)
    BY <1>1
  <2>1. ASSUME NEW s \in Sessions PROVE session'[s] \in SessionRow
    BY DEF TypeOK, RetireDevice, SessionRow, SessionState, Closed
  <2>2. session' \in [Sessions -> SessionRow]
    BY <2>1 DEF RetireDevice
  <2> QED
    BY <2>2 DEF TypeOK, RetireDevice, DeviceRow
<1>2. CASE \E d \in Managed : RestoreDevice(d) \/ ReEnrol(d)
  BY <1>2 DEF TypeOK, RestoreDevice, ReEnrol, DeviceRow
<1>3. CASE \E r \in Requests, d \in Managed : DeleteRead(r, d)
  BY <1>3 DEF TypeOK, DeleteRead, AgentRead, Request
<1>4. CASE \E r \in Requests : DeleteCommit(r)
  <2> PICK r \in Requests : DeleteCommit(r)
    BY <1>4
  <2>1. ASSUME NEW s \in Sessions PROVE session'[s] \in SessionRow
    BY DEF TypeOK, DeleteCommit, SessionRow, SessionState
  <2>2. session' \in [Sessions -> SessionRow]
    BY <2>1 DEF DeleteCommit
  <2>3. ticket' \in [Sessions -> SUBSET Audience]
    BY DEF TypeOK, DeleteCommit
  <2> QED
    BY <2>2, <2>3, FinishOK DEF TypeOK, DeleteCommit, DeviceRow
<1> QED
  BY <1>1, <1>2, <1>3, <1>4 DEF InventoryStep

\* Every reachable state has its declared type, whatever the sets of ids.
THEOREM TypeCorrect == Spec => []TypeOK
<1>1. Init => TypeOK
  BY InitTypeOK
<1>2. TypeOK /\ [Next]_vars => TypeOK'
  <2>1. TypeOK /\ UNCHANGED vars => TypeOK'
    BY DEF TypeOK, vars
  <2> QED
    BY <2>1, UserTypeOK, AgentTypeOK, CodeTypeOK, ClaimTypeOK, SweepTypeOK,
       InventoryTypeOK DEF Next
<1> QED
  BY <1>1, <1>2, PTL DEF Spec

----------------------------------------------------------------------------
(* Consent. ConsentBeforeLive is not inductive: a report or a reconnect in  *)
(* flight writes the state long after its checks, so the invariant says of  *)
(* each of them, and of every agent that holds a ticket, that the endpoint  *)
(* has granted its session already.                                         *)

\* The session was inserted, and if it needs a grant it has one.
Granted(s) ==
  /\ session[s].state # "none"
  /\ session[s].type = "inspection" \/ session[s].consented

\* The requests that can make a session live, or let an agent in, on a
\* decision taken before.
Decided(q) == \/ q.op \in {"reconnect", "report"}
              \/ q.op = "ticket" /\ q.agent

ConsentInv ==
  /\ ConsentBeforeLive
  /\ \A s \in relayTask : Granted(s)
  /\ \A r \in Requests : Decided(req[r]) => Granted(req[r].session)

DecidedFor(s) == \E r \in Requests : Decided(req[r]) /\ req[r].session = s

\* How one step can change one session: not at all, by inserting it, by
\* closing or deleting it, by a grant, or by a decision taken before.
SessionMoves(s) ==
  \/ session'[s] = session[s]
  \/ /\ session[s].state = "none" /\ session'[s].state # "none"
     /\ session'[s].state \in Connected => session'[s].type = "inspection"
  \/ /\ session[s].state # "none"
     /\ session'[s].state \in Closed \cup {"gone"}
     /\ session'[s].type = session[s].type
     /\ session'[s].consented = session[s].consented
  \/ /\ session'[s].state = "connecting"
     /\ session'[s].consented
  \/ /\ DecidedFor(s)
     /\ session'[s].state \in Connected
     /\ session'[s].type = session[s].type
     /\ session'[s].consented = session[s].consented

\* Ending or denying a session touches no other session.
LEMMA CloseMoves ==
  ASSUME TypeOK, NEW s \in Sessions, NEW t \in Sessions, NEW st \in Closed,
         Exists(s), CloseSession(s, st)
  PROVE  SessionMoves(t)
  BY DEF TypeOK, SessionRow, CloseSession, SessionMoves, Exists

LEMMA SessionsMove ==
  ASSUME TypeOK, Next, NEW s \in Sessions
  PROVE  SessionMoves(s)
<1>1. CASE UserStep
  <2>1. CASE \E z \in Sessions, d \in Device, ty \in Types, ps \in Grants :
               CreateSession(z, d, ty, ps)
    <3> PICK z \in Sessions, d \in Device, ty \in Types, ps \in Grants :
               CreateSession(z, d, ty, ps)
      BY <2>1
    <3>1. CASE s = z
      <4>1. /\ session[s].state = "none"
            /\ session'[s].state = InitialState(ty)
            /\ session'[s].type = ty
        BY <3>1 DEF TypeOK, CreateSession, Row
      <4> QED
        BY <4>1 DEF InitialState, Types, SessionMoves, Connected
    <3>2. CASE s # z
      BY <3>2 DEF TypeOK, CreateSession, SessionMoves
    <3> QED
      BY <3>1, <3>2
  <2>2. CASE \E r \in Requests : EndCommit(r)
    BY <2>2, CloseMoves, RequestFields DEF TypeOK, EndCommit, Holding, Closed
  <2>3. CASE UNCHANGED session
    BY <2>3 DEF SessionMoves
  <2> QED
    BY <1>1, <2>1, <2>2, <2>3 DEF UserStep, JoinRead, EndRead, IssueTicket, Abandon
<1>2. CASE \E r \in Requests : AgentStep(r)
  <2> PICK r \in Requests : AgentStep(r)
    BY <1>2
  <2>1. CASE ConsentCommit(r)
    <3> DEFINE z == req[r].session
    <3>1. z \in Sessions
      BY <2>1, RequestFields DEF TypeOK, ConsentCommit, Holding
    <3>2. CASE CloseSession(z, "denied")
      BY <2>1, <3>1, <3>2, CloseMoves DEF ConsentCommit, Closed
    <3>3. CASE ~CloseSession(z, "denied")
      BY <2>1, <3>1, <3>3
         DEF TypeOK, SessionRow, ConsentCommit, SessionMoves, Exists
    <3> QED
      BY <3>2, <3>3
  <2>2. CASE ReconnectCommit(r)
    BY <2>2, RequestFields
       DEF TypeOK, SessionRow, ReconnectCommit, Holding, SessionMoves, DecidedFor,
           Decided, Connected
  <2>3. CASE ReportCommit(r)
    <3> DEFINE z == req[r].session
    <3>1. z \in Sessions /\ req[r].state \in Reports /\ Decided(req[r])
      BY <2>3, RequestFields DEF TypeOK, ReportCommit, Holding, Decided
    <3>2. CASE CloseSession(z, "ended")
      BY <2>3, <3>1, <3>2, CloseMoves DEF ReportCommit, Closed
    <3>3. CASE ~CloseSession(z, "ended")
      BY <2>3, <3>1, <3>3
         DEF TypeOK, SessionRow, ReportCommit, SessionMoves, DecidedFor, Reports
    <3> QED
      BY <3>2, <3>3
  <2>4. CASE UNCHANGED session
    BY <2>4 DEF SessionMoves
  <2> QED
    BY <2>1, <2>2, <2>3, <2>4
       DEF AgentStep, Authenticate, AgentConsentRead, InspectionJoinRead,
           ReconnectRead, AgentEndRead, ReportRead, BrowserConsentRead, AgentRead
<1>3. CASE \E c \in Codes : CodeStep(c)
  <2>1. UNCHANGED session
    BY <1>3 DEF CodeStep, CreateCode, PassExpiry, RevokeCode, EmailRead, ClaimRead,
                ConnectJoinRead, CompanionJoinRead, AgentJoinRead, AgentRead
  <2> QED
    BY <2>1 DEF SessionMoves
<1>4. CASE ClaimStep
  <2>1. CASE \E r \in Requests : EmailCommit(r)
    BY <2>1 DEF EmailCommit, SessionMoves
  <2>2. CASE \E r \in Requests, z \in Sessions : ClaimCommit(r, z)
    <3> PICK r \in Requests, z \in Sessions : ClaimCommit(r, z)
      BY <2>2
    <3> DEFINE c == req[r].code
    <3>1. /\ session[z].state = "none"
          /\ session' = [session EXCEPT ![z] =
               Row("attended", "consent_pending", c, code[c].permissions)]
      BY DEF ClaimCommit
    <3> QED
      BY <3>1 DEF TypeOK, Row, SessionMoves, Connected
  <2> QED
    BY <1>4, <2>1, <2>2 DEF ClaimStep
<1>5. CASE Sweep
  BY <1>5 DEF Sweep, SessionMoves
<1>6. CASE InventoryStep
  <2>1. CASE \E d \in Managed : RetireDevice(d)
    BY <2>1 DEF TypeOK, SessionRow, RetireDevice, SessionMoves, OnDevice, Exists, Closed
  <2>2. CASE \E r \in Requests : DeleteCommit(r)
    BY <2>2 DEF TypeOK, SessionRow, DeleteCommit, SessionMoves, OnDevice, Exists
  <2>3. CASE UNCHANGED session
    BY <2>3 DEF SessionMoves
  <2> QED
    BY <1>6, <2>1, <2>2, <2>3
       DEF InventoryStep, RestoreDevice, ReEnrol, DeleteRead, AgentRead
<1> QED
  BY <1>1, <1>2, <1>3, <1>4, <1>5, <1>6 DEF Next

\* A session that has its grant keeps it.
LEMMA GrantedStable ==
  ASSUME NEW s \in Sessions, SessionMoves(s), Granted(s)
  PROVE  Granted(s)'
  BY DEF SessionMoves, Granted, Connected, Closed

\* Who is let in at the relay: the agent that grants, and those decided before.
LEMMA RelayTaskMoves ==
  ASSUME TypeOK, Next, NEW s \in relayTask'
  PROVE  \/ s \in relayTask
         \/ DecidedFor(s)
         \/ s \in Sessions /\ session'[s].state = "connecting" /\ session'[s].consented
<1>1. CASE \E r \in Requests : IssueTicket(r)
  BY <1>1 DEF IssueTicket, Holding, DecidedFor, Decided
<1>2. CASE \E r \in Requests : ConsentCommit(r)
  <2> PICK r \in Requests : ConsentCommit(r)
    BY <1>2
  <2>1. req[r].session \in Sessions
    BY RequestFields DEF TypeOK, ConsentCommit, Holding
  <2> QED
    BY <2>1 DEF TypeOK, SessionRow, ConsentCommit, CloseSession
<1>3. CASE \E r \in Requests : ReconnectCommit(r)
  BY <1>3 DEF ReconnectCommit, Holding, DecidedFor, Decided
<1>4. CASE UNCHANGED relayTask
  BY <1>4
<1> QED
  BY <1>1, <1>2, <1>3, <1>4
     DEF Next, UserStep, CreateSession, JoinRead, EndRead, EndCommit, Abandon,
         AgentStep, Authenticate, AgentConsentRead, InspectionJoinRead, ReconnectRead,
         AgentEndRead, ReportRead, BrowserConsentRead, ReportCommit, AgentRead,
         CloseSession, CodeStep, CreateCode, PassExpiry, RevokeCode, EmailRead,
         ClaimRead, ConnectJoinRead, CompanionJoinRead, AgentJoinRead,
         ClaimStep, EmailCommit, ClaimCommit, Sweep,
         InventoryStep, RetireDevice, RestoreDevice, ReEnrol, DeleteRead, DeleteCommit

\* A decision that appears in a slot was taken on a session that was live, or
\* on one that needs no grant, or by an agent that holds a ticket.
LEMMA RequestMoves ==
  ASSUME TypeOK, Next, NEW r \in Requests, Decided(req'[r])
  PROVE  \/ req'[r] = req[r]
         \/ LET s == req'[r].session IN
            /\ s \in Sessions /\ session' = session
            /\ session[s].state # "none"
            /\ \/ session[s].state \in Connected
               \/ session[s].type = "inspection"
               \/ s \in relayTask
<1>1. ASSUME NEW z \in Requests, Finish(z) PROVE req'[r] = req[r]
  BY <1>1 DEF TypeOK, Finish, Idle, Decided
<1>2. ASSUME NEW z \in Requests, NEW next, AgentRead(z, next)
      PROVE  req'[r] = req[r] \/ (Decided(next) /\ req'[r] = next)
  BY <1>2 DEF TypeOK, AgentRead
<1>3. CASE UserStep
  <2>1. CASE \E z \in Requests, s \in Sessions : JoinRead(z, s) \/ EndRead(z, s)
    BY <2>1 DEF TypeOK, JoinRead, EndRead, Decided
  <2>2. CASE UNCHANGED req \/ \E z \in Requests : Finish(z)
    BY <1>1, <2>2
  <2> QED
    BY <1>3, <2>1, <2>2 DEF UserStep, CreateSession, IssueTicket, EndCommit, Abandon
<1>4. CASE \E z \in Requests : AgentStep(z)
  <2> PICK z \in Requests : AgentStep(z)
    BY <1>4
  <2>1. CASE \E d \in Device : Authenticate(z, d)
    BY <2>1 DEF TypeOK, Authenticate, Decided
  <2>2. CASE \E s \in Sessions : AgentConsentRead(z, s) \/ AgentEndRead(z, s)
    <3>1. CASE \E s \in Sessions : AgentConsentRead(z, s)
      BY <1>2, <3>1 DEF AgentConsentRead, Decided
    <3>2. CASE \E s \in Sessions : AgentEndRead(z, s)
      BY <1>2, <3>2 DEF AgentEndRead, Decided
    <3> QED
      BY <2>2, <3>1, <3>2
  <2>3. CASE \E c \in Codes : BrowserConsentRead(z, c)
    BY <1>2, <2>3 DEF BrowserConsentRead, Decided
  <2>4. CASE \E s \in Sessions : InspectionJoinRead(z, s) \/ ReconnectRead(z, s)
    BY <1>2, <2>4
       DEF InspectionJoinRead, ReconnectRead, AgentRead, Selects, Exists
  <2>5. CASE \E s \in Sessions, st \in Reports : ReportRead(z, s, st)
    BY <1>2, <2>5 DEF ReportRead, AgentRead, Selects, Exists
  <2>6. CASE Finish(z)
    BY <1>1, <2>6
  <2> QED
    BY <2>1, <2>2, <2>3, <2>4, <2>5, <2>6
       DEF AgentStep, ConsentCommit, ReconnectCommit, ReportCommit
<1>5. CASE \E c \in Codes : CodeStep(c)
  <2> PICK c \in Codes : CodeStep(c)
    BY <1>5
  <2>1. CASE \E z \in Requests : \/ \E mode \in {"code", "email_link"} : EmailRead(z, c, mode)
                                 \/ \E link \in 0..code[c].minted : ClaimRead(z, c, link)
    BY <2>1 DEF TypeOK, EmailRead, ClaimRead, Decided
  <2>2. CASE \E z \in Requests : \/ ConnectJoinRead(z, c) \/ CompanionJoinRead(z, c)
                                 \/ AgentJoinRead(z, c)
    BY <1>2, <2>2
       DEF ConnectJoinRead, CompanionJoinRead, AgentJoinRead, CodeTicket, Decided
  <2> QED
    BY <2>1, <2>2 DEF CodeStep, CreateCode, PassExpiry, RevokeCode
<1>6. CASE ClaimStep \/ Sweep
  BY <1>1, <1>6 DEF ClaimStep, EmailCommit, ClaimCommit, Sweep
<1>7. CASE InventoryStep
  <2>1. CASE \E z \in Requests, d \in Managed : DeleteRead(z, d)
    BY <1>2, <2>1 DEF DeleteRead, Decided
  <2> QED
    BY <1>1, <1>7, <2>1
       DEF InventoryStep, RetireDevice, RestoreDevice, ReEnrol, DeleteCommit
<1> QED
  BY <1>3, <1>4, <1>5, <1>6, <1>7 DEF Next

LEMMA ConsentInvInductive == TypeOK /\ ConsentInv /\ Next => ConsentInv'
<1> SUFFICES ASSUME TypeOK, ConsentInv, Next PROVE ConsentInv'
  OBVIOUS
<1>1. ASSUME NEW s \in Sessions, DecidedFor(s) PROVE Granted(s)
  BY <1>1 DEF ConsentInv, DecidedFor
<1>2. ConsentBeforeLive'
  <2> SUFFICES ASSUME NEW s \in Sessions,
                      session'[s].type # "inspection", session'[s].state \in Connected
               PROVE  session'[s].consented
    BY DEF ConsentBeforeLive
  <2>1. SessionMoves(s)
    BY SessionsMove
  <2> QED
    BY <1>1, <2>1 DEF SessionMoves, ConsentInv, ConsentBeforeLive, Granted, Connected, Closed
<1>3. ASSUME NEW s \in relayTask' PROVE Granted(s)'
  <2>1. s \in Sessions
    BY <1>3, UserTypeOK, AgentTypeOK, CodeTypeOK, ClaimTypeOK, SweepTypeOK,
       InventoryTypeOK DEF Next, TypeOK
  <2>2. s \in relayTask \/ DecidedFor(s) => Granted(s)
    BY <1>1, <2>1 DEF ConsentInv
  <2> QED
    BY <2>1, <2>2, SessionsMove, GrantedStable, RelayTaskMoves DEF Granted
<1>4. ASSUME NEW r \in Requests, Decided(req'[r]) PROVE Granted(req[r].session)'
  <2>1. CASE req'[r] = req[r]
    <3>1. Granted(req[r].session) /\ req[r].session \in Sessions
      BY <1>4, <2>1, RequestFields DEF ConsentInv, TypeOK, Decided
    <3>2. Granted(req[r].session) => /\ session'[req[r].session].state # "none"
                                     /\ \/ session'[req[r].session].type = "inspection"
                                        \/ session'[req[r].session].consented
      BY <3>1, SessionsMove, GrantedStable DEF Granted
    <3> QED
      BY <2>1, <3>1, <3>2 DEF Granted
  <2>2. CASE req'[r] # req[r]
    BY <1>4, <2>2, RequestMoves DEF ConsentInv, ConsentBeforeLive, Granted
  <2> QED
    BY <2>1, <2>2
<1> QED
  BY <1>2, <1>3, <1>4 DEF ConsentInv, Decided, Granted

\* No attended or unattended session is connecting, active or reconnecting
\* before its endpoint granted it, whatever requests are in flight.
THEOREM ConsentSafe == Spec => []ConsentBeforeLive
<1>1. Init => ConsentInv
  BY DEF Init, Idle, ConsentInv, ConsentBeforeLive, Connected, Decided
<1>2. TypeOK /\ ConsentInv /\ [Next]_vars => ConsentInv'
  <2>1. ConsentInv /\ UNCHANGED vars => ConsentInv'
    BY DEF ConsentInv, ConsentBeforeLive, Granted, Decided, vars
  <2> QED
    BY <2>1, ConsentInvInductive
<1>3. ConsentInv => ConsentBeforeLive
  BY DEF ConsentInv
<1> QED
  BY <1>1, <1>2, <1>3, TypeCorrect, PTL DEF Spec

----------------------------------------------------------------------------
(* The ties of a code. SingleUse, ClaimLinks and ClosedCodeRevoked stand or *)
(* fall together: that one more claim finds the code closed, and that what  *)
(* closes the session also finds the credential, rest on the code naming    *)
(* the only session and the only device that were made for it.              *)

\* A code enrolled a device for the session it names, or nothing at all yet.
CodeOK(c) ==
  /\ code[c].session # NoSession <=> code[c].state \in {"claimed", "ended"}
  /\ code[c].session = NoSession =>
       code[c].claims = 0 /\ device[c].row = "absent" /\ device[c].token = "none"
  /\ code[c].session # NoSession =>
       /\ code[c].claims = 1
       /\ device[c].row = "present"
       /\ session[code[c].session].device = c
       /\ session[code[c].session].type = "attended"
       /\ session[code[c].session].state # "none"
  /\ code[c].state = "ended" => device[c].token = "revoked"

\* Whoever has a session on a code's device, the code was claimed.
UsedCodesClaimed ==
  \A s \in Sessions :
    session[s].state # "none" /\ session[s].device \in Codes
      => code[session[s].device].session # NoSession

LinkInv == (\A c \in Codes : CodeOK(c)) /\ UsedCodesClaimed

\* A session that was inserted stays, on its device and of its type.
Stays(s) ==
  session[s].state # "none" =>
    /\ session'[s].state # "none"
    /\ session'[s].device = session[s].device
    /\ session'[s].type = session[s].type

\* An insert is on a device that has a row.
Inserts(s) ==
  session[s].state = "none" /\ session'[s].state # "none" =>
    /\ session'[s].device \in Device
    /\ device'[session'[s].device].row \in {"present", "retired"}

\* How one step can change the rows about a code.
Writes ==
  \/ UNCHANGED <<session, code, device>>
  \/ \E s \in Sessions, d \in Device, ty \in Types, ps \in Grants : CreateSession(s, d, ty, ps)
  \/ \E s \in Sessions, st \in Closed : Exists(s) /\ CloseSession(s, st)
  \/ \E r \in Requests : ConsentCommit(r) /\ UNCHANGED <<code, device>>
  \/ \E r \in Requests : ReportCommit(r) /\ UNCHANGED <<code, device>>
  \/ \E r \in Requests : ReconnectCommit(r)
  \/ \E c \in Codes : RevokeCode(c) \/ \E ps \in Grants : CreateCode(c, ps)
  \/ \E r \in Requests : EmailCommit(r)
  \/ \E r \in Requests, s \in Sessions : ClaimCommit(r, s)
  \/ Sweep
  \/ \E d \in Managed : RetireDevice(d) \/ RestoreDevice(d) \/ ReEnrol(d)
  \/ \E r \in Requests : DeleteCommit(r)

\* Every step changes the rows about a code as Writes says.
LEMMA WritesOnly == TypeOK /\ Next => Writes
<1> SUFFICES ASSUME TypeOK, Next PROVE Writes
  OBVIOUS
<1>1. CASE UserStep
  <2>1. CASE \E r \in Requests : EndCommit(r)
    <3>1. \E r \in Requests : req[r].session \in Sessions /\ EndCommit(r)
      BY <2>1, RequestFields DEF TypeOK, EndCommit, Holding
    <3> QED
      BY <3>1 DEF EndCommit, Closed, Writes
  <2> QED
    BY <1>1, <2>1 DEF UserStep, JoinRead, EndRead, IssueTicket, Abandon, Writes
<1>2. CASE \E r \in Requests : AgentStep(r)
  <2> PICK r \in Requests : AgentStep(r)
    BY <1>2
  <2>1. CASE ConsentCommit(r)
    <3>1. req[r].session \in Sessions
      BY <2>1, RequestFields DEF TypeOK, ConsentCommit, Holding
    <3>2. CASE CloseSession(req[r].session, "denied")
      <4>1. Exists(req[r].session) /\ "denied" \in Closed
        BY <2>1 DEF ConsentCommit, Closed
      <4>2. \E s \in Sessions, st \in Closed : Exists(s) /\ CloseSession(s, st)
        BY <3>1, <3>2, <4>1
      <4> QED
        BY <4>2 DEF Writes
    <3>3. CASE UNCHANGED <<code, device>>
      BY <2>1, <3>3 DEF Writes
    <3> QED
      BY <2>1, <3>2, <3>3 DEF ConsentCommit
  <2>2. CASE ReconnectCommit(r)
    BY <2>2 DEF ReconnectCommit, Writes
  <2>3. CASE ReportCommit(r)
    <3>1. req[r].session \in Sessions
      BY <2>3, RequestFields DEF TypeOK, ReportCommit, Holding
    <3> QED
      BY <2>3, <3>1 DEF ReportCommit, Closed, Writes
  <2>4. CASE UNCHANGED <<session, code, device>>
    BY <2>4 DEF Writes
  <2> QED
    BY <2>1, <2>2, <2>3, <2>4
       DEF AgentStep, Authenticate, AgentConsentRead, InspectionJoinRead,
           ReconnectRead, AgentEndRead, ReportRead, BrowserConsentRead, AgentRead
<1>3. CASE \E c \in Codes : CodeStep(c)
  BY <1>3 DEF CodeStep, PassExpiry, EmailRead, ClaimRead, ConnectJoinRead,
              CompanionJoinRead, AgentJoinRead, AgentRead, Writes
<1>4. CASE ClaimStep \/ Sweep
  BY <1>4 DEF ClaimStep, Writes
<1>5. CASE InventoryStep
  BY <1>5 DEF InventoryStep, DeleteRead, AgentRead, Writes
<1> QED
  BY <1>1, <1>2, <1>3, <1>4, <1>5 DEF Next

\* No step moves a session to another device or takes it back to before its insert.
LEMMA SessionsStay ==
  ASSUME TypeOK, Writes, NEW s \in Sessions
  PROVE  Stays(s) /\ Inserts(s)
<1> USE DEF TypeOK, SessionRow
<1>1. CASE \E z \in Sessions, d \in Device, ty \in Types, ps \in Grants : CreateSession(z, d, ty, ps)
  BY <1>1 DEF CreateSession, Row, Stays, Inserts
<1>2. CASE \E z \in Sessions, st \in Closed : Exists(z) /\ CloseSession(z, st)
  BY <1>2 DEF CloseSession, Exists, Closed, Stays, Inserts
<1>3. CASE \E r \in Requests : ConsentCommit(r) /\ UNCHANGED <<code, device>>
  BY <1>3, RequestFields DEF ConsentCommit, Holding, CloseSession, Exists, Stays, Inserts
<1>4. CASE \E r \in Requests : ReconnectCommit(r)
  BY <1>4, RequestFields DEF ReconnectCommit, Holding, Exists, Stays, Inserts
<1>5. CASE \E r \in Requests : ReportCommit(r) /\ UNCHANGED <<code, device>>
  BY <1>5, RequestFields
     DEF ReportCommit, Holding, CloseSession, Reports, Connected, Exists, Stays, Inserts
<1>6. CASE \E r \in Requests, z \in Sessions : ClaimCommit(r, z)
  <2> PICK r \in Requests, z \in Sessions : ClaimCommit(r, z)
    BY <1>6
  <2> DEFINE c == req[r].code
  <2>1. c \in Codes
    BY RequestFields DEF ClaimCommit, Holding
  <2>2. /\ session' = [session EXCEPT ![z] = Row("attended", "consent_pending", c, code[c].permissions)]
        /\ session[z].state = "none"
        /\ device' = [device EXCEPT ![c] = [row |-> "present", token |-> "live"]]
    BY DEF ClaimCommit
  <2>3. CASE s = z
    BY <2>1, <2>2, <2>3 DEF Row, Device, Stays, Inserts
  <2>4. CASE s # z
    BY <2>2, <2>4 DEF Stays, Inserts
  <2> QED
    BY <2>3, <2>4
<1>7. CASE \E d \in Managed : RetireDevice(d)
  BY <1>7 DEF RetireDevice, OnDevice, Exists, Stays, Inserts
<1>8. CASE \E r \in Requests : DeleteCommit(r)
  BY <1>8 DEF DeleteCommit, OnDevice, Exists, Stays, Inserts
<1>9. CASE UNCHANGED session
  BY <1>9 DEF Stays, Inserts
<1>10. CASE \E c \in Codes : RevokeCode(c) \/ \E ps \in Grants : CreateCode(c, ps)
  BY <1>9, <1>10 DEF RevokeCode, CreateCode
<1>11. CASE Sweep \/ \E r \in Requests : EmailCommit(r)
  BY <1>9, <1>11 DEF Sweep, EmailCommit
<1>12. CASE \E d \in Managed : RestoreDevice(d) \/ ReEnrol(d)
  BY <1>9, <1>12 DEF RestoreDevice, ReEnrol
<1> HIDE DEF TypeOK, SessionRow
<1> QED
  BY <1>1, <1>2, <1>3, <1>4, <1>5, <1>6, <1>7, <1>8, <1>9, <1>10, <1>11, <1>12 DEF Writes

\* A step that leaves a code's row and its device alone keeps it tied.
LEMMA CodeOKStable ==
  ASSUME TypeOK, Writes, NEW c \in Codes, CodeOK(c),
         code'[c] = code[c], device'[c] = device[c]
  PROVE  CodeOK(c)'
<1>1. code[c].session # NoSession =>
        code[c].session \in Sessions /\ Stays(code[c].session)
  BY SessionsStay DEF TypeOK, CodeRow
<1> QED
  BY <1>1 DEF CodeOK, Stays

\* So does a step that moves a code nobody claimed between the states in which
\* it has no session.
LEMMA CodeOKUnclaimed ==
  ASSUME NEW c \in Codes, CodeOK(c), device'[c] = device[c],
         code[c].state \notin {"claimed", "ended"},
         code'[c].state \notin {"claimed", "ended"},
         code'[c].session = code[c].session, code'[c].claims = code[c].claims
  PROVE  CodeOK(c)'
  BY DEF CodeOK

LEMMA CloseLinks ==
  ASSUME TypeOK, LinkInv, Writes, NEW s \in Sessions, NEW st \in Closed,
         Exists(s), CloseSession(s, st), NEW c \in Codes
  PROVE  CodeOK(c)' /\ code'[c].session = code[c].session
<1>1. CodeOK(c) /\ code[c] \in CodeRow /\ device[c] \in DeviceRow
  BY DEF LinkInv, TypeOK, Device
<1>2. code[c].session # NoSession => Stays(code[c].session)
  BY <1>1, SessionsStay DEF CodeRow
<1>3. code'[c] = IF code[c].session = s /\ code[c].state = "claimed"
                 THEN [code[c] EXCEPT !.state = "ended"] ELSE code[c]
  BY DEF CloseSession, CloseCodes
<1>4. session[s].device \in Codes => code[session[s].device].session # NoSession
  BY DEF LinkInv, UsedCodesClaimed, Exists
<1>5. device'[c] = IF c = session[s].device THEN [device[c] EXCEPT !.token = "revoked"]
                   ELSE device[c]
  BY DEF CloseSession, Revoke, TypeOK, Device
<1>6. /\ code'[c].session = code[c].session
      /\ code'[c].claims = code[c].claims
      /\ code'[c].state = IF code[c].session = s /\ code[c].state = "claimed"
                          THEN "ended" ELSE code[c].state
  BY <1>1, <1>3 DEF CodeRow
<1>7. /\ device'[c].row = device[c].row
      /\ device'[c].token = IF c = session[s].device THEN "revoked" ELSE device[c].token
  BY <1>1, <1>5 DEF DeviceRow
<1> QED
  BY <1>1, <1>2, <1>4, <1>6, <1>7, SessionAssumption DEF CodeOK, Stays

LEMMA ClaimTies ==
  ASSUME TypeOK, LinkInv, Writes, NEW r \in Requests, NEW s \in Sessions,
         ClaimCommit(r, s), NEW c \in Codes
  PROVE  CodeOK(c)'
<1>0. CodeOK(c) /\ code[c] \in CodeRow
  BY DEF LinkInv, TypeOK
<1>1. CASE c = req[r].code
  <2>1. /\ code[c].state = "open"
        /\ code' = [code EXCEPT ![c].state = "claimed", ![c].by = req[r].link,
                                ![c].session = s, ![c].claims = @ + 1]
        /\ device' = [device EXCEPT ![c] = [row |-> "present", token |-> "live"]]
        /\ session' = [session EXCEPT ![s] =
             Row("attended", "consent_pending", c, code[c].permissions)]
    BY <1>1 DEF ClaimCommit, Claimable
  <2>2. /\ code'[c].state = "claimed" /\ code'[c].session = s
        /\ code'[c].claims = code[c].claims + 1
    BY <1>0, <2>1 DEF TypeOK, CodeRow
  <2>3. device'[c].row = "present" /\ device'[c].token = "live"
    BY <2>1 DEF TypeOK, Device
  <2>4. /\ session'[s].device = c /\ session'[s].type = "attended"
        /\ session'[s].state = "consent_pending"
    BY <2>1 DEF TypeOK, Row
  <2> QED
    BY <1>0, <2>1, <2>2, <2>3, <2>4, SessionAssumption DEF CodeOK
<1>2. CASE c # req[r].code
  <2>1. code'[c] = code[c] /\ device'[c] = device[c]
    BY <1>2 DEF ClaimCommit, TypeOK
  <2> QED
    BY <1>0, <2>1, CodeOKStable
<1> QED
  BY <1>1, <1>2

\* A code that was redeemed keeps its session, and its permissions.
LEMMA RedeemedStays ==
  ASSUME TypeOK, LinkInv, Writes, NEW c \in Codes, code[c].session # NoSession
  PROVE  /\ code'[c].session = code[c].session
         /\ code'[c].permissions = code[c].permissions
         /\ \/ code'[c].state = code[c].state
            \/ /\ code[c].state = "claimed" /\ code'[c].state = "ended"
<1>0. code[c] \in CodeRow /\ code[c].state \in {"claimed", "ended"}
  BY DEF LinkInv, TypeOK, CodeOK
<1>1. CASE \E s \in Sessions, st \in Closed : Exists(s) /\ CloseSession(s, st)
  BY <1>0, <1>1 DEF CloseSession, CloseCodes, CodeRow
<1>2. CASE \E r \in Requests, s \in Sessions : ClaimCommit(r, s)
  BY <1>0, <1>2 DEF ClaimCommit, Claimable, TypeOK
<1>3. CASE \E r \in Requests : EmailCommit(r)
  BY <1>0, <1>3 DEF EmailCommit, TypeOK, CodeRow
<1>4. CASE Sweep
  BY <1>0, <1>4 DEF Sweep, SweepStale
<1>5. CASE \E b \in Codes : RevokeCode(b) \/ \E ps \in Grants : CreateCode(b, ps)
  BY <1>0, <1>5 DEF RevokeCode, CreateCode, TypeOK
<1>6. CASE code' = code
  BY <1>6
<1> QED
  BY <1>1, <1>2, <1>3, <1>4, <1>5, <1>6
     DEF Writes, CreateSession, ReconnectCommit, RetireDevice, RestoreDevice, ReEnrol,
         DeleteCommit

LEMMA LinkInductive == TypeOK /\ LinkInv /\ Next => LinkInv'
<1> SUFFICES ASSUME TypeOK, LinkInv, Next PROVE LinkInv'
  OBVIOUS
<1>0. Writes
  BY WritesOnly
<1>1. ASSUME NEW c \in Codes PROVE CodeOK(c)'
  <2>0. CodeOK(c) /\ code[c] \in CodeRow /\ c \in Device /\ c \notin Managed
    BY SessionAssumption DEF LinkInv, TypeOK, Device
  <2>1. CASE code'[c] = code[c] /\ device'[c] = device[c]
    BY <1>0, <2>0, <2>1, CodeOKStable
  <2>2. CASE \E s \in Sessions, st \in Closed : Exists(s) /\ CloseSession(s, st)
    BY <1>0, <2>2, CloseLinks
  <2>3. CASE \E r \in Requests, s \in Sessions : ClaimCommit(r, s)
    BY <1>0, <2>3, ClaimTies
  <2>4. CASE \E b \in Codes : RevokeCode(b) \/ \E ps \in Grants : CreateCode(b, ps)
    <3> PICK b \in Codes : RevokeCode(b) \/ \E ps \in Grants : CreateCode(b, ps)
      BY <2>4
    <3>1. CASE b = c
      <4>1. /\ code[c].state \in {"none", "open"} /\ code'[c].state \in {"open", "expired"}
            /\ code'[c].session = code[c].session /\ code'[c].claims = code[c].claims
            /\ device' = device
        BY <2>0, <3>1 DEF RevokeCode, CreateCode, TypeOK, CodeRow
      <4> QED
        BY <2>0, <4>1, CodeOKUnclaimed
    <3>2. CASE b # c
      BY <2>1, <3>2 DEF RevokeCode, CreateCode, TypeOK
    <3> QED
      BY <3>1, <3>2
  <2>5. CASE Sweep
    <3>1. CASE SweepStale(c)
      <4>1. /\ code[c].state = "open" /\ code'[c].state = "expired"
            /\ code'[c].session = code[c].session /\ code'[c].claims = code[c].claims
            /\ device' = device
        BY <2>0, <2>5, <3>1 DEF Sweep, SweepStale, CodeRow
      <4> QED
        BY <2>0, <4>1, CodeOKUnclaimed
    <3>2. CASE ~SweepStale(c)
      BY <2>1, <2>5, <3>2 DEF Sweep
    <3> QED
      BY <3>1, <3>2
  <2>6. CASE \E r \in Requests : EmailCommit(r)
    <3> PICK r \in Requests : EmailCommit(r)
      BY <2>6
    <3>1. /\ code'[c].state = code[c].state /\ code'[c].session = code[c].session
          /\ code'[c].claims = code[c].claims /\ device' = device /\ session' = session
      BY <2>0 DEF EmailCommit, TypeOK, CodeRow
    <3> QED
      BY <2>0, <3>1 DEF CodeOK
  <2>7. CASE \E d \in Managed : RetireDevice(d) \/ RestoreDevice(d) \/ ReEnrol(d)
    BY <2>0, <2>1, <2>7 DEF RetireDevice, RestoreDevice, ReEnrol, TypeOK
  <2>8. CASE \E r \in Requests : DeleteCommit(r)
    BY <2>0, <2>1, <2>8, RequestFields DEF DeleteCommit, Holding, TypeOK
  <2>9. CASE UNCHANGED <<code, device>>
    BY <2>1, <2>9
  <2> QED
    BY <1>0, <2>2, <2>3, <2>4, <2>5, <2>6, <2>7, <2>8, <2>9
       DEF Writes, CreateSession, ReconnectCommit
<1>2. UsedCodesClaimed'
  <2> SUFFICES ASSUME NEW s \in Sessions, session'[s].state # "none",
                      session'[s].device \in Codes
               PROVE  code'[session'[s].device].session # NoSession
    BY DEF UsedCodesClaimed
  <2> PICK c \in Codes : c = session'[s].device
    OBVIOUS
  <2>0. CodeOK(c) /\ CodeOK(c)'
    BY <1>1 DEF LinkInv
  <2>1. CASE session[s].state = "none"
    <3>1. device'[c].row \in {"present", "retired"}
      BY <1>0, <2>1, SessionsStay DEF Inserts
    <3> QED
      BY <2>0, <3>1 DEF CodeOK
  <2>2. CASE session[s].state # "none"
    <3>1. code[c].session # NoSession
      BY <1>0, <2>2, SessionsStay DEF Stays, LinkInv, UsedCodesClaimed
    <3> QED
      BY <1>0, <2>0, <3>1, RedeemedStays
  <2> QED
    BY <2>1, <2>2
<1> QED
  BY <1>1, <1>2 DEF LinkInv

LEMMA LinksHold == Spec => []LinkInv
<1>1. Init => LinkInv
  BY SessionAssumption DEF Init, LinkInv, CodeOK, UsedCodesClaimed, Device
<1>2. TypeOK /\ LinkInv /\ [Next]_vars => LinkInv'
  <2>1. LinkInv /\ UNCHANGED vars => LinkInv'
    BY DEF LinkInv, CodeOK, UsedCodesClaimed, vars
  <2> QED
    BY <2>1, LinkInductive
<1> QED
  BY <1>1, <1>2, TypeCorrect, PTL DEF Spec

\* However many claims of a code are in flight, it enrols one device at most.
THEOREM CodeUsedOnce == Spec => []SingleUse
<1>1. TypeOK /\ LinkInv => SingleUse
  BY DEF LinkInv, CodeOK, SingleUse
<1> QED
  BY <1>1, TypeCorrect, LinksHold, PTL

\* A claimed code names a session on its own device, which has its row; a code
\* that is not claimed names none and gave out no credential.
THEOREM CodeTied == Spec => []ClaimLinks
<1>1. LinkInv => ClaimLinks
  BY DEF LinkInv, CodeOK, ClaimLinks
<1> QED
  BY <1>1, LinksHold, PTL

\* Whichever handler closes the session of a code, the credential the claim
\* gave out is dead from that step on.
THEOREM CredentialDies == Spec => []ClosedCodeRevoked
<1>1. LinkInv => ClosedCodeRevoked
  BY DEF LinkInv, CodeOK, ClosedCodeRevoked
<1> QED
  BY <1>1, LinksHold, PTL

----------------------------------------------------------------------------
(* The refinement of SupportCode *)

\* The code a session closes is the one on the session's own device.
LEMMA CloseEnds ==
  ASSUME TypeOK, LinkInv, NEW s \in Sessions, NEW st \in Closed, CloseSession(s, st)
  PROVE  SC!Next \/ UNCHANGED SC!cvars
<1>0. code \in [Codes -> CodeRow]
  BY DEF TypeOK
<1>1. CASE \E c \in Codes : code[c].session = s /\ code[c].state = "claimed"
  <2> PICK c \in Codes : code[c].session = s /\ code[c].state = "claimed"
    BY <1>1
  <2>1. ASSUME NEW b \in Codes, b # c PROVE code[b].session # s
    BY <2>1, SessionAssumption DEF LinkInv, CodeOK
  <2>2. code' = [b \in Codes |-> IF b = c THEN [code[b] EXCEPT !.state = "ended"]
                                 ELSE code[b]]
    BY <2>1 DEF CloseSession, CloseCodes
  <2>3. \A b \in Codes : /\ code'[b].session = code[b].session
                         /\ code'[b].state = IF b = c THEN "ended" ELSE code[b].state
    BY <1>0, <2>2 DEF CodeRow
  <2>4. SC!End(c)
    BY <2>3 DEF SC!End
  <2> QED
    BY <2>4 DEF SC!Next
<1>2. CASE ~\E c \in Codes : code[c].session = s /\ code[c].state = "claimed"
  BY <1>0, <1>2 DEF CloseSession, CloseCodes, SC!cvars
<1> QED
  BY <1>1, <1>2

\* A session redeems one code only: the id of a new row names no code yet.
LEMMA ClaimRedeems ==
  ASSUME TypeOK, LinkInv, NEW r \in Requests, NEW s \in Sessions, ClaimCommit(r, s)
  PROVE  SC!Next
<1> DEFINE c == req[r].code
<1>1. c \in Codes /\ code \in [Codes -> CodeRow]
  BY RequestFields DEF TypeOK, ClaimCommit, Holding
<1>2. /\ code[c].state = "open" /\ session[s].state = "none"
      /\ code' = [code EXCEPT ![c].state = "claimed", ![c].by = req[r].link,
                              ![c].session = s, ![c].claims = @ + 1]
  BY DEF ClaimCommit, Claimable
<1>3. ASSUME NEW b \in Codes PROVE code[b].session # s
  BY <1>2, SessionAssumption DEF LinkInv, CodeOK
<1>4. \A b \in Codes : /\ code'[b].session = IF b = c THEN s ELSE code[b].session
                       /\ code'[b].state = IF b = c THEN "claimed" ELSE code[b].state
  BY <1>1, <1>2 DEF CodeRow
<1>5. SC!Redeem(c, s)
  <2> HIDE DEF c
  <2> QED
    BY <1>1, <1>2, <1>3, <1>4 DEF SC!Redeem
<1> QED
  BY <1>1, <1>5 DEF SC!Next

LEMMA CodeSteps ==
  ASSUME TypeOK, LinkInv, Next
  PROVE  SC!Next \/ UNCHANGED SC!cvars
<1>0. Writes /\ code \in [Codes -> CodeRow]
  BY WritesOnly DEF TypeOK
<1>1. CASE \E s \in Sessions, st \in Closed : Exists(s) /\ CloseSession(s, st)
  BY <1>1, CloseEnds
<1>2. CASE \E r \in Requests, s \in Sessions : ClaimCommit(r, s)
  BY <1>2, ClaimRedeems
<1>3. CASE \E c \in Codes : RevokeCode(c)
  <2> PICK c \in Codes : RevokeCode(c)
    BY <1>3
  <2>1. \A b \in Codes : /\ code'[b].session = code[b].session
                         /\ code'[b].state = IF b = c THEN "expired" ELSE code[b].state
    BY <1>0 DEF RevokeCode, CodeRow
  <2>2. SC!Close({c})
    BY <2>1 DEF RevokeCode, SC!Close
  <2> QED
    BY <2>2 DEF SC!Next
<1>4. CASE \E c \in Codes, ps \in Grants : CreateCode(c, ps)
  <2> PICK c \in Codes, ps \in Grants : CreateCode(c, ps)
    BY <1>4
  <2>1. \A b \in Codes : /\ code'[b].session = code[b].session
                         /\ code'[b].state = IF b = c THEN "open" ELSE code[b].state
    BY <1>0 DEF CreateCode, CodeRow
  <2>2. SC!Open(c)
    BY <2>1 DEF CreateCode, SC!Open
  <2> QED
    BY <2>2 DEF SC!Next
<1>5. CASE Sweep
  <2> PICK S \in SUBSET Codes : S = {c \in Codes : SweepStale(c)}
    OBVIOUS
  <2>1. \A c \in Codes : /\ code'[c].session = code[c].session
                         /\ code'[c].state = IF c \in S THEN "expired" ELSE code[c].state
    BY <1>0, <1>5 DEF Sweep, CodeRow
  <2>2. S # {} /\ \A c \in S : c \in Codes /\ code[c].state = "open"
    BY <1>5 DEF Sweep, SweepStale
  <2>3. SC!Close(S)
    BY <2>1, <2>2 DEF SC!Close
  <2> QED
    BY <2>3 DEF SC!Next
<1>6. CASE \E r \in Requests : EmailCommit(r)
  <2>1. \A c \in Codes : /\ code'[c].session = code[c].session
                         /\ code'[c].state = code[c].state
    BY <1>0, <1>6 DEF EmailCommit, CodeRow
  <2> QED
    BY <2>1 DEF SC!cvars
<1>7. CASE code' = code
  BY <1>7 DEF SC!cvars
<1> QED
  BY <1>0, <1>1, <1>2, <1>3, <1>4, <1>5, <1>6, <1>7
     DEF Writes, CreateSession, ReconnectCommit, RetireDevice, RestoreDevice, ReEnrol,
         DeleteCommit

\* The control plane implements the life of a support code: its codes are
\* redeemed once, by one session each, from open only, and never reopened.
THEOREM ImplementsCodes == Spec => ImplementsSupportCode
<1>1. Init => SC!Init
  BY DEF Init, SC!Init
<1>2. TypeOK /\ LinkInv /\ [Next]_vars => [SC!Next]_(SC!cvars)
  <2>1. UNCHANGED vars => UNCHANGED SC!cvars
    BY DEF vars, SC!cvars
  <2> QED
    BY <2>1, CodeSteps
<1> QED
  BY <1>1, <1>2, TypeCorrect, LinksHold, PTL DEF Spec, ImplementsSupportCode, SC!Spec

----------------------------------------------------------------------------
(* Mailed links *)

LEMMA LinkBound == TypeOK /\ BoundToLatestLink /\ Next => BoundToLatestLink'
<1> SUFFICES ASSUME TypeOK, BoundToLatestLink, Next, NEW c \in Codes,
                    code'[c].state \in {"claimed", "ended"}, code'[c].mode = "email_link"
             PROVE  code'[c].by # 0 /\ code'[c].by = code'[c].link
  BY DEF BoundToLatestLink
<1>0. Writes /\ code \in [Codes -> CodeRow]
  BY WritesOnly DEF TypeOK
<1>1. CASE \E s \in Sessions, st \in Closed : Exists(s) /\ CloseSession(s, st)
  BY <1>0, <1>1 DEF CloseSession, CloseCodes, CodeRow, BoundToLatestLink
<1>2. CASE \E r \in Requests, s \in Sessions : ClaimCommit(r, s)
  <2> PICK r \in Requests, s \in Sessions : ClaimCommit(r, s)
    BY <1>2
  <2>1. /\ Claimable(req[r].code, req[r].link)
        /\ code' = [code EXCEPT ![req[r].code].state = "claimed",
             ![req[r].code].by = req[r].link, ![req[r].code].session = s,
             ![req[r].code].claims = @ + 1]
    BY DEF ClaimCommit
  <2>2. CASE c = req[r].code
    <3>1. /\ code'[c].mode = code[c].mode /\ code'[c].link = code[c].link
          /\ code'[c].by = req[r].link
      BY <1>0, <2>1, <2>2 DEF CodeRow
    <3> QED
      BY <2>1, <2>2, <3>1 DEF Claimable
  <2>3. CASE c # req[r].code
    BY <1>0, <2>1, <2>3 DEF BoundToLatestLink
  <2> QED
    BY <2>2, <2>3
<1>3. CASE \E b \in Codes : RevokeCode(b) \/ \E ps \in Grants : CreateCode(b, ps)
  BY <1>0, <1>3 DEF RevokeCode, CreateCode, CodeRow, BoundToLatestLink
<1>4. CASE Sweep
  BY <1>0, <1>4 DEF Sweep, CodeRow, BoundToLatestLink
<1>5. CASE \E r \in Requests : EmailCommit(r)
  BY <1>0, <1>5 DEF EmailCommit, CodeRow, BoundToLatestLink
<1>6. CASE code' = code
  BY <1>6 DEF BoundToLatestLink
<1> QED
  BY <1>0, <1>1, <1>2, <1>3, <1>4, <1>5, <1>6
     DEF Writes, CreateSession, ReconnectCommit, RetireDevice, RestoreDevice, ReEnrol,
         DeleteCommit

\* A code that was mailed is claimed with the last link mailed for it, though
\* the link may be replaced between the check and the update of a claim.
THEOREM ClaimedWithLatestLink == Spec => []BoundToLatestLink
<1>1. Init => BoundToLatestLink
  BY DEF Init, BoundToLatestLink
<1>2. TypeOK /\ BoundToLatestLink /\ [Next]_vars => BoundToLatestLink'
  <2>1. BoundToLatestLink /\ UNCHANGED vars => BoundToLatestLink'
    BY DEF BoundToLatestLink, vars
  <2> QED
    BY <2>1, LinkBound
<1> QED
  BY <1>1, <1>2, TypeCorrect, PTL DEF Spec

----------------------------------------------------------------------------
(* Permissions. A grant is written long after it was read, so the invariant *)
(* bounds the grants in flight as well as the ones that were written.       *)

\* A grant in flight holds nothing its code does not, if its session has one.
GrantsWithin ==
  \A r \in Requests : req[r].op = "consent" =>
    /\ session[req[r].session].state # "none"
    /\ \A c \in Codes : code[c].session = req[r].session =>
         req[r].grant \subseteq code[c].permissions \cup {ViewScreen}

PermissionInv == NoPermissionBeyondCode /\ GrantsWithin

\* A code gets its session from a claim only, which inserts that session.
LEMMA SessionOfClaim ==
  ASSUME TypeOK, LinkInv, Writes, NEW c \in Codes,
         code[c].session = NoSession, code'[c].session # NoSession
  PROVE  \E s \in Sessions :
           /\ code'[c].session = s /\ code'[c].permissions = code[c].permissions
           /\ session[s].state = "none" /\ session'[s].permissions = code[c].permissions
<1>0. code \in [Codes -> CodeRow]
  BY DEF TypeOK
<1>1. CASE \E r \in Requests, s \in Sessions : ClaimCommit(r, s)
  <2> PICK r \in Requests, s \in Sessions : ClaimCommit(r, s)
    BY <1>1
  <2>1. /\ session[s].state = "none"
        /\ session' = [session EXCEPT ![s] =
             Row("attended", "consent_pending", req[r].code, code[req[r].code].permissions)]
        /\ code' = [code EXCEPT ![req[r].code].state = "claimed",
             ![req[r].code].by = req[r].link, ![req[r].code].session = s,
             ![req[r].code].claims = @ + 1]
    BY DEF ClaimCommit
  <2>2. c = req[r].code
    BY <1>0, <2>1
  <2>3. code'[c].session = s /\ code'[c].permissions = code[c].permissions
    BY <1>0, <2>1, <2>2 DEF CodeRow
  <2>4. session'[s].permissions = code[c].permissions
    BY <2>1, <2>2 DEF TypeOK, Row
  <2> QED
    BY <2>1, <2>3, <2>4
<1>2. CASE code' = code
  BY <1>2
<1>3. CASE \E s \in Sessions, st \in Closed : Exists(s) /\ CloseSession(s, st)
  BY <1>0, <1>3 DEF CloseSession, CloseCodes, CodeRow
<1>4. CASE \E b \in Codes : RevokeCode(b) \/ \E ps \in Grants : CreateCode(b, ps)
  BY <1>0, <1>4 DEF RevokeCode, CreateCode, CodeRow
<1>5. CASE Sweep
  BY <1>0, <1>5 DEF Sweep, CodeRow
<1>6. CASE \E r \in Requests : EmailCommit(r)
  BY <1>0, <1>6 DEF EmailCommit, CodeRow
<1> QED
  BY <1>1, <1>2, <1>3, <1>4, <1>5, <1>6
     DEF Writes, CreateSession, ReconnectCommit, RetireDevice, RestoreDevice, ReEnrol,
         DeleteCommit

\* The permissions of a session that was inserted change by a grant only.
LEMMA PermissionMoves ==
  ASSUME TypeOK, Writes, NEW s \in Sessions, session[s].state # "none"
  PROVE  \/ session'[s].permissions = session[s].permissions
         \/ \E r \in Requests : /\ req[r].op = "consent" /\ req[r].session = s
                                /\ session'[s].permissions = req[r].grant
<1> USE DEF TypeOK, SessionRow
<1>1. CASE \E z \in Sessions, d \in Device, ty \in Types, ps \in Grants : CreateSession(z, d, ty, ps)
  BY <1>1 DEF CreateSession
<1>2. CASE \E z \in Sessions, st \in Closed : Exists(z) /\ CloseSession(z, st)
  BY <1>2 DEF CloseSession
<1>3. CASE \E r \in Requests : ConsentCommit(r) /\ UNCHANGED <<code, device>>
  BY <1>3, RequestFields DEF ConsentCommit, Holding, CloseSession
<1>4. CASE \E r \in Requests : ReconnectCommit(r)
  BY <1>4 DEF ReconnectCommit
<1>5. CASE \E r \in Requests : ReportCommit(r) /\ UNCHANGED <<code, device>>
  <2> PICK r \in Requests : ReportCommit(r)
    BY <1>5
  <2>1. PICK z, st : session' = [session EXCEPT ![z].state = st]
    BY DEF ReportCommit, CloseSession
  <2> QED
    BY <2>1
<1>6. CASE \E r \in Requests, z \in Sessions : ClaimCommit(r, z)
  BY <1>6 DEF ClaimCommit
<1>7. CASE \E d \in Managed : RetireDevice(d)
  BY <1>7 DEF RetireDevice
<1>8. CASE \E r \in Requests : DeleteCommit(r)
  BY <1>8 DEF DeleteCommit
<1>9. CASE UNCHANGED session
  BY <1>9
<1> HIDE DEF TypeOK, SessionRow
<1> QED
  BY <1>1, <1>2, <1>3, <1>4, <1>5, <1>6, <1>7, <1>8, <1>9
     DEF Writes, RevokeCode, CreateCode, Sweep, EmailCommit, RestoreDevice, ReEnrol

\* A grant that appears in a slot was cut down to what its session held.
LEMMA GrantRead ==
  ASSUME TypeOK, Next, NEW r \in Requests, req'[r].op = "consent", req'[r] # req[r]
  PROVE  LET s == req'[r].session IN
         /\ s \in Sessions /\ UNCHANGED <<session, code>>
         /\ session[s].state # "none"
         /\ req'[r].grant \subseteq session[s].permissions \cup {ViewScreen}
<1>1. ASSUME NEW s \in Sessions, NEW ps \in Answers(s)
      PROVE  ps \subseteq session[s].permissions \cup {ViewScreen}
  BY <1>1 DEF Answers, Effective
<1>2. CASE \E s \in Sessions : AgentConsentRead(r, s)
  BY <1>1, <1>2 DEF AgentConsentRead, AgentRead, Selects, Exists, TypeOK
<1>3. CASE \E c \in Codes : BrowserConsentRead(r, c)
  <2> PICK c \in Codes : BrowserConsentRead(r, c)
    BY <1>3
  <2>1. code[c].session \in Sessions /\ session[code[c].session].state # "none"
    BY DEF BrowserConsentRead, TypeOK, CodeRow, Awaiting
  <2> QED
    BY <1>1, <2>1 DEF BrowserConsentRead, AgentRead, TypeOK
<1>4. ASSUME NEW z \in Requests, Finish(z) PROVE FALSE
  BY <1>4 DEF TypeOK, Finish, Idle
<1>5. ASSUME NEW z \in Requests, NEW next, AgentRead(z, next), next.op # "consent" PROVE FALSE
  BY <1>5 DEF TypeOK, AgentRead
<1>6. CASE UserStep
  <2>1. CASE \E z \in Requests, s \in Sessions : JoinRead(z, s) \/ EndRead(z, s)
    BY <2>1 DEF TypeOK, JoinRead, EndRead
  <2> QED
    BY <1>4, <1>6, <2>1 DEF UserStep, CreateSession, IssueTicket, EndCommit, Abandon
<1>7. CASE \E z \in Requests : AgentStep(z)
  <2> PICK z \in Requests : AgentStep(z)
    BY <1>7
  <2>1. ASSUME NEW next, AgentRead(z, next) PROVE z = r
    BY <2>1 DEF TypeOK, AgentRead
  <2>2. CASE \E s \in Sessions : AgentConsentRead(z, s)
    <3>1. z = r
      BY <2>1, <2>2 DEF AgentConsentRead
    <3> QED
      BY <1>2, <2>2, <3>1
  <2>3. CASE \E d \in Device : Authenticate(z, d)
    BY <2>3 DEF TypeOK, Authenticate
  <2>4. CASE \E s \in Sessions : InspectionJoinRead(z, s) \/ ReconnectRead(z, s)
    BY <1>5, <2>4 DEF InspectionJoinRead, ReconnectRead
  <2>5. CASE \E s \in Sessions : AgentEndRead(z, s) \/ \E st \in Reports : ReportRead(z, s, st)
    BY <1>5, <2>5 DEF AgentEndRead, ReportRead
  <2>6. CASE Finish(z)
    BY <1>4, <2>6
  <2>7. CASE \E c \in Codes : BrowserConsentRead(z, c)
    <3>1. z = r
      BY <2>1, <2>7 DEF BrowserConsentRead
    <3> QED
      BY <1>3, <2>7, <3>1
  <2> QED
    BY <2>2, <2>3, <2>4, <2>5, <2>6, <2>7
       DEF AgentStep, ConsentCommit, ReconnectCommit, ReportCommit
<1>8. CASE \E c \in Codes : CodeStep(c)
  <2> PICK c \in Codes : CodeStep(c)
    BY <1>8
  <2>1. CASE \E z \in Requests : \/ \E mode \in {"code", "email_link"} : EmailRead(z, c, mode)
                                 \/ \E link \in 0..code[c].minted : ClaimRead(z, c, link)
    BY <2>1 DEF TypeOK, EmailRead, ClaimRead
  <2>2. CASE \E z \in Requests : \/ ConnectJoinRead(z, c) \/ CompanionJoinRead(z, c)
                                 \/ AgentJoinRead(z, c)
    BY <1>5, <2>2 DEF ConnectJoinRead, CompanionJoinRead, AgentJoinRead, CodeTicket
  <2> QED
    BY <2>1, <2>2 DEF CodeStep, CreateCode, PassExpiry, RevokeCode
<1>9. CASE ClaimStep \/ Sweep
  BY <1>4, <1>9 DEF ClaimStep, EmailCommit, ClaimCommit, Sweep
<1>10. CASE InventoryStep
  <2>1. CASE \E z \in Requests, d \in Managed : DeleteRead(z, d)
    BY <1>5, <2>1 DEF DeleteRead
  <2> QED
    BY <1>4, <1>10, <2>1
       DEF InventoryStep, RetireDevice, RestoreDevice, ReEnrol, DeleteCommit
<1> QED
  BY <1>6, <1>7, <1>8, <1>9, <1>10 DEF Next

LEMMA PermissionInvInductive ==
  TypeOK /\ LinkInv /\ PermissionInv /\ Next => PermissionInv'
<1> SUFFICES ASSUME TypeOK, LinkInv, PermissionInv, Next PROVE PermissionInv'
  OBVIOUS
<1>0. Writes
  BY WritesOnly
<1>1. NoPermissionBeyondCode'
  <2> SUFFICES ASSUME NEW c \in Codes, code'[c].session # NoSession
               PROVE  session'[code'[c].session].permissions
                        \subseteq code'[c].permissions \cup {ViewScreen}
    BY DEF NoPermissionBeyondCode
  <2>1. CASE code[c].session = NoSession
    BY <1>0, <2>1, SessionOfClaim
  <2>2. CASE code[c].session # NoSession
    <3> PICK s \in Sessions : s = code[c].session
      BY <2>2 DEF TypeOK, CodeRow
    <3>1. code'[c].session = s /\ code'[c].permissions = code[c].permissions
      BY <1>0, <2>2, RedeemedStays
    <3>2. session[s].state # "none"
      BY <2>2 DEF LinkInv, CodeOK
    <3>3. session[s].permissions \subseteq code[c].permissions \cup {ViewScreen}
      BY <2>2 DEF PermissionInv, NoPermissionBeyondCode
    <3>4. ASSUME NEW r \in Requests, req[r].op = "consent", req[r].session = s
          PROVE  req[r].grant \subseteq code[c].permissions \cup {ViewScreen}
      BY <3>4 DEF PermissionInv, GrantsWithin
    <3> QED
      BY <1>0, <3>1, <3>2, <3>3, <3>4, PermissionMoves
  <2> QED
    BY <2>1, <2>2
<1>2. GrantsWithin'
  <2> SUFFICES ASSUME NEW r \in Requests, req'[r].op = "consent"
               PROVE  /\ session'[req'[r].session].state # "none"
                      /\ \A c \in Codes : code'[c].session = req'[r].session =>
                           req'[r].grant \subseteq code'[c].permissions \cup {ViewScreen}
    BY DEF GrantsWithin
  <2>1. CASE req'[r] = req[r]
    <3> PICK s \in Sessions : s = req[r].session
      BY <2>1, RequestFields DEF TypeOK
    <3>1. session[s].state # "none" /\ session'[s].state # "none"
      BY <1>0, <2>1, SessionsStay DEF PermissionInv, GrantsWithin, Stays
    <3>2. ASSUME NEW c \in Codes, code'[c].session = s
          PROVE  req[r].grant \subseteq code'[c].permissions \cup {ViewScreen}
      <4>1. code[c].session # NoSession
        BY <1>0, <3>1, <3>2, SessionOfClaim, SessionAssumption
      <4>2. code[c].session = s /\ code'[c].permissions = code[c].permissions
        BY <1>0, <3>2, <4>1, RedeemedStays
      <4> QED
        BY <2>1, <4>2 DEF PermissionInv, GrantsWithin
    <3> QED
      BY <2>1, <3>1, <3>2
  <2>2. CASE req'[r] # req[r]
    <3> PICK s \in Sessions : s = req'[r].session
      BY <2>2, GrantRead
    <3>1. /\ UNCHANGED <<session, code>> /\ session[s].state # "none"
          /\ req'[r].grant \subseteq session[s].permissions \cup {ViewScreen}
      BY <2>2, GrantRead
    <3> QED
      BY <3>1, SessionAssumption DEF PermissionInv, NoPermissionBeyondCode
  <2> QED
    BY <2>1, <2>2
<1> QED
  BY <1>1, <1>2 DEF PermissionInv

\* However many grants of a code's session race, what is written holds nothing
\* the technician did not ask for when the code was made.
THEOREM GrantsStayWithinCode == Spec => []NoPermissionBeyondCode
<1>1. Init => PermissionInv
  BY DEF Init, PermissionInv, NoPermissionBeyondCode, GrantsWithin, Idle
<1>2. TypeOK /\ LinkInv /\ PermissionInv /\ [Next]_vars => PermissionInv'
  <2>1. PermissionInv /\ UNCHANGED vars => PermissionInv'
    BY DEF PermissionInv, NoPermissionBeyondCode, GrantsWithin, vars
  <2> QED
    BY <2>1, PermissionInvInductive
<1>3. PermissionInv => NoPermissionBeyondCode
  BY DEF PermissionInv
<1> QED
  BY <1>1, <1>2, <1>3, TypeCorrect, LinksHold, PTL DEF Spec
=============================================================================
