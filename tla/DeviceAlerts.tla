---------------------------- MODULE DeviceAlerts ----------------------------
(***************************************************************************)
(* The alerts of one device that the alert sweep raises and closes: offline *)
(* and low disk. The device's agent reports by heartbeats and by metrics;   *)
(* the sweep of the tenant runs in one transaction once a minute, reads the *)
(* device, the alerts and the samples one statement after the other, and    *)
(* the reports fall between them. What the sweep inserts is seen by others  *)
(* when it commits; a row that it updated makes a heartbeat wait. Time is   *)
(* kept as ages, in ticks.                                                  *)
(***************************************************************************)
EXTENDS Integers

CONSTANTS
  OfflineAfter, \* the policy's threshold with its grace and delay
  TicketModes,  \* the policy's ticket_mode and delay: NoTicket or a number of ticks
  Window,       \* the seven days within which a sample counts
  NoTicket      \* ticket_mode "alert": the alert opens no ticket

ASSUME AgesAssumption == OfflineAfter \in Nat \ {0} /\ Window \in Nat \ {0}
ASSUME ModesAssumption == TicketModes \subseteq Nat \cup {NoTicket} /\ NoTicket \notin Int

VARIABLES
  mode,      \* the ticket mode of the device's availability policy
  silent,    \* ticks since devices.last_seen_at, up to OfflineAfter
  sample,    \* the last row of device_metrics: its disk reading and its age
  highAge,   \* age of the last row over the threshold, up to Window
  offline,   \* the unresolved alert of kind offline
  disk,      \* the unresolved alert of kind low_disk
  sweep,     \* the statement the sweep has reached, and what it has read
  raisedOn   \* the last reading of the disk when its alert was last raised

alertVars == <<mode, silent, sample, highAge, offline, disk, sweep, raisedOn>>

\* seen: last_seen_at > created_at; due: ticks to ticket_due_at
NoAlert == [state |-> "none", tickets |-> 0, linked |-> FALSE, due |-> NoTicket, seen |-> FALSE]
IdleSweep == [at |-> "idle", stale |-> FALSE, due |-> FALSE, seen |-> FALSE]

AlertInit ==
  /\ mode \in TicketModes
  /\ silent = 0
  /\ sample = [disk |-> "none", age |-> Window]
  /\ highAge = Window
  /\ offline = NoAlert
  /\ disk = "none"
  /\ sweep = IdleSweep
  /\ raisedOn = "none"

-----------------------------------------------------------------------------
(* Time and the agent *)

Older(age, limit) == IF age < limit THEN age + 1 ELSE age

Tick ==
  /\ silent' = Older(silent, OfflineAfter)
  /\ sample' = [sample EXCEPT !.age = Older(@, Window)]
  /\ highAge' = Older(highAge, Window)
  /\ offline' = IF offline.due \in Nat \ {0} THEN [offline EXCEPT !.due = @ - 1] ELSE offline
  /\ UNCHANGED <<mode, disk, sweep, raisedOn>>

\* PATCH /monitoring/availability-policies/:id
SetPolicy(m) ==
  /\ m # mode
  /\ mode' = m
  /\ UNCHANGED <<silent, sample, highAge, offline, disk, sweep, raisedOn>>

\* last_seen_at = now(): the device has been seen since the alert was made, and
\* since the sweep under way began
Heard == sweep' = IF sweep.at = "idle" THEN sweep ELSE [sweep EXCEPT !.seen = TRUE]

\* The sweep's transaction holds the row of the alert.
RowHeld == offline.state = "open" /\ sweep.at \in {"recover", "disk", "commit"} /\ sweep.due

\* POST /agent/heartbeat: it closes the offline alert that it can see
Heartbeat ==
  /\ ~RowHeld
  /\ silent' = 0
  /\ offline' = CASE offline.state = "open" -> NoAlert
                  [] offline.state = "new" -> [offline EXCEPT !.seen = TRUE]
                  [] OTHER -> offline
  /\ Heard
  /\ UNCHANGED <<mode, sample, highAge, disk, raisedOn>>

\* POST /agent/metrics: it records the sample and closes nothing
Metrics(reading) ==
  /\ silent' = 0
  /\ sample' = [disk |-> reading, age |-> 0]
  /\ highAge' = IF reading = "high" THEN 0 ELSE highAge
  /\ offline' = IF offline.state = "none" THEN offline ELSE [offline EXCEPT !.seen = TRUE]
  /\ Heard
  /\ UNCHANGED <<mode, disk, raisedOn>>

-----------------------------------------------------------------------------
(* The sweep, statement by statement *)

\* The transaction begins and reads the devices: one with a live remote session
\* is left out, one whose policy suppresses the alert is not stale for it.
SweepLooks ==
  /\ sweep.at = "idle"
  /\ \E passedOver \in BOOLEAN :
       sweep' = [at |-> "open", stale |-> silent = OfflineAfter /\ ~passedOver, due |-> FALSE, seen |-> FALSE]
  /\ UNCHANGED <<mode, silent, sample, highAge, offline, disk, raisedOn>>

\* createAvailabilityAlert, for a stale device with no open alert. A delay of 0
\* opens the ticket at once.
SweepOpens ==
  /\ sweep.at = "open"
  /\ offline' = IF sweep.stale /\ offline.state = "none"
                THEN [state |-> "new", tickets |-> IF mode = 0 THEN 1 ELSE 0,
                      linked |-> mode = 0, due |-> mode, seen |-> sweep.seen]
                ELSE offline
  /\ sweep' = [sweep EXCEPT !.at = "due"]
  /\ UNCHANGED <<mode, silent, sample, highAge, disk, raisedOn>>

\* an alert whose ticket was opened at once is due again
DueAgain == offline.state # "none" /\ offline.due = 0

\* The alerts whose ticket delay has elapsed and that have no ticket.
Due == offline.state # "none" /\ ~offline.linked /\ offline.due = 0

SweepReadsDue ==
  /\ sweep.at = "due"
  /\ sweep' = [sweep EXCEPT !.at = "ticket", !.due = Due]
  /\ UNCHANGED <<mode, silent, sample, highAge, offline, disk, raisedOn>>

\* createDueTicket opens the ticket whatever has become of the alert, and links
\* it where no ticket is linked.
SweepOpensTicket ==
  /\ sweep.at = "ticket"
  /\ offline' = IF sweep.due /\ offline.state # "none"
                THEN [offline EXCEPT !.tickets = @ + 1, !.linked = TRUE]
                ELSE offline
  /\ sweep' = [sweep EXCEPT !.at = "recover"]
  /\ UNCHANGED <<mode, silent, sample, highAge, disk, raisedOn>>

\* left to the heartbeat alone
RecoveredNever == FALSE

\* The device has reported since the alert was made.
Recovered == offline.state # "none" /\ offline.seen

SweepRecovers ==
  /\ sweep.at = "recover"
  /\ offline' = IF Recovered THEN NoAlert ELSE offline
  /\ sweep' = [sweep EXCEPT !.at = "disk"]
  /\ UNCHANGED <<mode, silent, sample, highAge, disk, raisedOn>>

\* The query meant for the latest sample of each device takes the latest that
\* is over the threshold.
LowDisk == highAge < Window

\* a recovery that nobody looks for
DiskRecoveredNever == FALSE

\* The latest sample is under the threshold, and within the window.
DiskRecovered == sample.disk = "low" /\ sample.age < Window

\* The low-disk alert is raised where none is open, then closed where the disk
\* has recovered.
SweepDisk ==
  /\ sweep.at = "disk"
  /\ raisedOn' = IF LowDisk /\ disk = "none" THEN sample.disk ELSE raisedOn
  /\ disk' = IF DiskRecovered THEN "none" ELSE IF LowDisk THEN "open" ELSE disk
  /\ sweep' = [sweep EXCEPT !.at = "commit"]
  /\ UNCHANGED <<mode, silent, sample, highAge, offline>>

SweepCommits ==
  /\ sweep.at = "commit"
  /\ offline' = IF offline.state = "new" THEN [offline EXCEPT !.state = "open"] ELSE offline
  /\ sweep' = IdleSweep
  /\ UNCHANGED <<mode, silent, sample, highAge, disk, raisedOn>>

Sweep ==
  \/ SweepLooks \/ SweepOpens \/ SweepReadsDue \/ SweepOpensTicket
  \/ SweepRecovers \/ SweepDisk \/ SweepCommits

-----------------------------------------------------------------------------

AlertNext ==
  \/ Tick
  \/ \E m \in TicketModes : SetPolicy(m)
  \/ Heartbeat
  \/ \E reading \in {"low", "high"} : Metrics(reading)
  \/ Sweep

\* The timer of the API starts the sweep again and again and each goes through.
\* Nothing makes the agent report or time pass.
AlertSpec == AlertInit /\ [][AlertNext]_alertVars
AlertFairSpec == AlertSpec /\ WF_alertVars(Sweep)

-----------------------------------------------------------------------------
(* Properties *)

\* However the sweep's statements and the reports of the device fall, and
\* whatever the policy's delay, an offline alert gets one ticket at the most
\* (checkDeviceAvailabilityForTenant, availability.ts:204-229; the test at
\* devices.test.ts:278 says "a device-linked auto-ticket (once)").
OneTicketPerAlert == offline.tickets <= 1

\* An offline alert is closed after the device reports, also when only its
\* metrics get through and no heartbeat closes it (availability.ts:231).
HeardIsClosed == (offline.state = "open" /\ offline.seen) ~> (offline.state = "none")

\* A low-disk alert is closed once the latest sample is under the threshold,
\* unless a later one is over it again or samples stop coming (alerts.ts:303-322).
FreedIsClosed ==
  LET freed == sample.disk = "low" /\ sample.age < Window
  IN (disk = "open" /\ freed) ~> (disk = "none" \/ ~freed)

\* A low-disk alert is raised only when the latest sample is over the threshold
\* (alerts.ts:275, "latest metric per device").
LowDiskFromLatest == raisedOn # "low"
=============================================================================
