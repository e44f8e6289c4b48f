---------------------------- MODULE EventDelivery ----------------------------
(***************************************************************************)
(* What the notification hub promises of the events of finished sessions,  *)
(* with no durable consumer, queue, handler and wait group.  Somebody is   *)
(* told of an event only if it was published and can be told, and only     *)
(* between a start of the hub and the return of its Stop.  An event is     *)
(* settled once it was told, or needs no telling, or was passed over by a  *)
(* hub that was told to stop; it is brought up again only if the hub forgets*)
(* what it settled, which it does only while it stops.                     *)
(***************************************************************************)
CONSTANTS
  Events,
  Telling,    \* the events that can be told, and have somebody to tell
  Silent      \* those that can be read and have nobody to tell

VARIABLES
  published,
  told,
  passed,     \* passed over by a hub that was stopping
  settled,    \* not brought up again
  phase       \* "off", "on", "stopping", "stopped"

vars == <<published, told, passed, settled, phase>>

Init ==
  /\ published = {} /\ told = {} /\ passed = {} /\ settled = {}
  /\ phase = "off"

Publish(e) ==
  /\ published' = published \cup {e}
  /\ UNCHANGED <<told, passed, settled, phase>>

Tell(e) ==
  /\ phase \in {"on", "stopping"}
  /\ e \in published \cap Telling
  /\ told' = told \cup {e}
  /\ UNCHANGED <<published, passed, settled, phase>>

PassOver(e) ==
  /\ phase \in {"stopping", "stopped"}
  /\ e \in published
  /\ passed' = passed \cup {e}
  /\ UNCHANGED <<published, told, settled, phase>>

Settle(e) ==
  /\ phase # "off"
  /\ e \in told \cup passed \cup (published \cap Silent)
  /\ settled' = settled \cup {e}
  /\ UNCHANGED <<published, told, passed, phase>>

Forget ==
  /\ phase = "stopping"
  /\ settled' = {}
  /\ UNCHANGED <<published, told, passed, phase>>

Move(from, to) ==
  /\ phase \in from
  /\ phase' = to
  /\ UNCHANGED <<published, told, passed, settled>>

SwitchOn == Move({"off"}, "on")
BeginStop == Move({"on"}, "stopping")
EndStop == Move({"stopping"}, "stopped")
SwitchOff == Move({"on", "stopping", "stopped"}, "off")

Next ==
  \/ \E e \in Events : Publish(e) \/ Tell(e) \/ PassOver(e) \/ Settle(e)
  \/ Forget
  \/ SwitchOn \/ BeginStop \/ EndStop \/ SwitchOff

Spec == Init /\ [][Next]_vars
=============================================================================
