------------------------- MODULE NotificationLedger -------------------------
(***************************************************************************)
(* What the service promises to whoever publishes a notification, without  *)
(* channels, tasks, attempts or frames: a notification stays pending until *)
(* its fate is known, and once it is discharged it never comes back.       *)
(*                                                                         *)
(* The fates: the remote service processed it (accepted), it is parked in  *)
(* an error queue (parked), the code ignores its kind (Ignored), or it was *)
(* given up by one of the swallowed errors (excused).  The last one is the *)
(* gap in the promise; the ledger shows its exact extent.                  *)
(***************************************************************************)
CONSTANTS
  Msgs,     \* the notifications
  Ignored   \* those the service acknowledges unread

VARIABLES published, pending, accepted, parked, excused

ledgerVars == <<published, pending, accepted, parked, excused>>

LedgerInit ==
  /\ published = {} /\ pending = {}
  /\ accepted = {} /\ parked = {} /\ excused = {}

\* A notification arrives; it arrives once.
Arrive(m) ==
  /\ m \in Msgs \ published
  /\ published' = published \cup {m}
  /\ pending' = pending \cup {m}
  /\ UNCHANGED <<accepted, parked, excused>>

\* The remote service processes a notification.  It need not be pending any
\* more: an abandoned request arrives late.
Accept(m) ==
  /\ m \in published
  /\ accepted' = accepted \cup {m}
  /\ UNCHANGED <<published, pending, parked, excused>>

\* The notification is stored in an error queue.
Park(m) ==
  /\ m \in published
  /\ parked' = parked \cup {m}
  /\ UNCHANGED <<published, pending, accepted, excused>>

\* A pending notification is given up.
Excuse(m) ==
  /\ m \in pending
  /\ excused' = excused \cup {m}
  /\ UNCHANGED <<published, pending, accepted, parked>>

\* The error queues are emptied by a broker restart.
LoseParked ==
  /\ parked' = {}
  /\ excused' = excused \cup parked
  /\ UNCHANGED <<published, pending, accepted>>

\* A notification whose fate is known leaves its work queue, for good: no
\* action but Arrive adds to `pending`.
Discharge(m) ==
  /\ m \in pending
  /\ m \in accepted \cup parked \cup excused \cup Ignored
  /\ pending' = pending \ {m}
  /\ UNCHANGED <<published, accepted, parked, excused>>

LedgerNext ==
  \/ LoseParked
  \/ \E m \in Msgs : Arrive(m) \/ Accept(m) \/ Park(m) \/ Excuse(m) \/ Discharge(m)

LedgerSpec == LedgerInit /\ [][LedgerNext]_ledgerVars
=============================================================================
