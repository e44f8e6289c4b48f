-------------------------- MODULE SessionLifecycle --------------------------
(***************************************************************************)
(* What the question service promises of its sessions, with no table, no   *)
(* clock and no messages.  A session is started once.  An attempt to       *)
(* complete it begins only while it is active; attempts that overlap may   *)
(* each leave a verdict, and from the first verdict on no new attempt      *)
(* begins.  Only a recorded verdict is announced.                          *)
(***************************************************************************)
CONSTANTS Sessions, Attempts

VARIABLES
  status,      \* session -> "none", "active" or "completed"
  attempts,    \* <<session, attempt>>: attempts in progress
  verdicts,    \* <<session, attempt, passed>>: verdicts recorded
  announced    \* the verdicts that were announced

vars == <<status, attempts, verdicts, announced>>

Init ==
  /\ status = [s \in Sessions |-> "none"]
  /\ attempts = {}
  /\ verdicts = {}
  /\ announced = {}

Start(s) ==
  /\ status[s] = "none"
  /\ status' = [status EXCEPT ![s] = "active"]
  /\ UNCHANGED <<attempts, verdicts, announced>>

BeginAttempt(s, a) ==
  /\ status[s] = "active"
  /\ \A t \in Sessions : <<t, a>> \notin attempts
  /\ attempts' = attempts \cup {<<s, a>>}
  /\ UNCHANGED <<status, verdicts, announced>>

GiveUp(some) ==
  /\ attempts' = attempts \ some
  /\ UNCHANGED <<status, verdicts, announced>>

Complete(s, a, passed) ==
  /\ <<s, a>> \in attempts
  /\ attempts' = attempts \ {<<s, a>>}
  /\ status' = [status EXCEPT ![s] = "completed"]
  /\ verdicts' = verdicts \cup {<<s, a, passed>>}
  /\ UNCHANGED announced

Announce(v) ==
  /\ v \in verdicts
  /\ announced' = announced \cup {v}
  /\ UNCHANGED <<status, attempts, verdicts>>

Next ==
  \/ \E s \in Sessions : Start(s)
  \/ \E s \in Sessions, a \in Attempts : BeginAttempt(s, a)
  \/ \E some \in SUBSET attempts : GiveUp(some)
  \/ \E s \in Sessions, a \in Attempts, passed \in BOOLEAN : Complete(s, a, passed)
  \/ \E v \in verdicts : Announce(v)

Spec == Init /\ [][Next]_vars
=============================================================================
