--------------------------- MODULE NotificationHub ---------------------------
(***************************************************************************)
(* The notification hub: a NATS consumer that hands every event of a       *)
(* finished session to one handler at a time, looks the recipient up and   *)
(* mails the result through a chain of notifiers, while it may be stopped, *)
(* die and be started again.  Sources: notificationhub/internal.           *)
(*                                                                         *)
(* External, and modelled from how consumer.go uses it: JetStream, which   *)
(* delivers a message again until it is acknowledged, and the client       *)
(* library, which runs the callback of a subscription for one message      *)
(* after the other, acknowledges a message itself when a callback that was *)
(* subscribed without nats.ManualAck returns without having answered, and  *)
(* on Unsubscribe deletes a durable consumer that Subscribe had created.   *)
(***************************************************************************)
EXTENDS Integers, Sequences, EventWire

CONSTANTS
  Messages,    \* the messages ever published
  WireOf,      \* message -> the JSON object it carries
  Addressed,   \* the messages whose recipient has a mail contact
  Notifiers,   \* the length of the chain of mail notifiers
  MaxFaults,   \* bound: failed calls, lost answers, late handlers and crashes
  MaxMails     \* bound: mails of one message that are told apart

ASSUME HubAssumption ==
  /\ Addressed \subseteq Messages
  /\ Notifiers \in Nat \ {0}
  /\ MaxFaults \in Nat
  /\ MaxMails \in Nat \ {0}
  /\ DOMAIN WireOf = Messages

VARIABLES
  stream,     \* the messages the stream holds
  consumer,   \* the durable: "none", "kept" or "owned" by the running hub
  acked,      \* messages the durable will not deliver again
  pending,    \* messages it delivered and waits for
  inbox,      \* the subscription's queue
  handler,    \* the running handleMessage
  wg,         \* the wait group
  hub,        \* the process and its Stop
  attached,   \* whether the subscription is open
  mails,      \* message -> mails sent
  skipped,    \* messages a handler returned from because of the shutdown
  faults,     \* faults so far
  replayed    \* whether a durable was deleted

server == <<stream, consumer, acked, pending>>
history == <<mails, skipped, faults, replayed>>
vars == <<stream, consumer, acked, pending, inbox, handler, wg, hub, attached,
          mails, skipped, faults, replayed>>

IdleHandler == [pc |-> "idle", msg |-> "none", notifier |-> 0, answered |-> FALSE]

Goto(pc) == handler' = [handler EXCEPT !.pc = pc]

Fault == faults < MaxFaults /\ faults' = faults + 1

-----------------------------------------------------------------------------
(* JetStream.                                                              *)

PublishMessage(m) ==
  /\ m \notin stream
  /\ stream' = stream \cup {m}
  /\ UNCHANGED <<consumer, acked, pending, inbox, handler, wg, hub, attached, history>>

Deliver(m) ==
  /\ attached /\ consumer # "none"
  /\ m \in stream \ (acked \cup pending)
  /\ pending' = pending \cup {m}
  /\ inbox' = Append(inbox, m)
  /\ UNCHANGED <<stream, consumer, acked, handler, wg, hub, attached, history>>

\* The message is still on its way through the hub.
InHub(m) ==
  \/ \E i \in DOMAIN inbox : inbox[i] = m
  \/ handler.pc # "idle" /\ handler.msg = m /\ ~handler.answered

(* The wait for an acknowledgement ends; a fault if the hub is only slow.   *)
AckWaitExpires(m) ==
  /\ m \in pending
  /\ pending' = pending \ {m}
  /\ IF InHub(m) THEN Fault ELSE UNCHANGED faults
  /\ UNCHANGED <<stream, consumer, acked, inbox, handler, wg, hub, attached,
                 mails, skipped, replayed>>

\* The answers of the hub, as they take effect on a durable that is there.
Acknowledge(m) ==
  /\ acked' = IF consumer = "none" THEN acked ELSE acked \cup {m}
  /\ pending' = pending \ {m}

Reject(m) == pending' = pending \ {m} /\ UNCHANGED acked

-----------------------------------------------------------------------------
(* handleMessage.                                                          *)

\* The library takes the next message and is about to call back.
TakeMessage ==
  /\ attached /\ handler.pc = "idle" /\ inbox # <<>>
  /\ handler' = [IdleHandler EXCEPT !.pc = "taken", !.msg = Head(inbox)]
  /\ inbox' = Tail(inbox)
  /\ UNCHANGED <<server, wg, hub, attached, history>>

EnterHandler ==
  /\ handler.pc = "taken"
  /\ Goto("entered")
  /\ wg' = wg + 1
  /\ UNCHANGED <<server, inbox, hub, attached, history>>

(* The select on c.ctx, which Stop cancels.                                 *)
CheckShutdown ==
  /\ handler.pc = "entered"
  /\ IF hub = "running"
       THEN Goto("work") /\ UNCHANGED skipped
       ELSE Goto("leave") /\ skipped' = skipped \cup {handler.msg}
  /\ UNCHANGED <<server, inbox, wg, hub, attached, mails, faults, replayed>>

\* The deferred Nak is one step with the failure that causes it; it may be lost.
NakAndLeave ==
  /\ handler' = [handler EXCEPT !.pc = "leave", !.answered = TRUE]
  /\ \/ Reject(handler.msg)
     \/ UNCHANGED <<acked, pending>>

\* A slip: an event that cannot be read is logged, and not answered.
IgnoreEvent ==
  /\ handler.pc = "work"
  /\ ~IsAcceptable(WireOf[handler.msg])
  /\ Goto("leave")
  /\ UNCHANGED <<server, inbox, wg, hub, attached, history>>

(* json.Unmarshal or NewSessionResult refuses the event.                    *)
RejectEvent ==
  /\ handler.pc = "work"
  /\ ~IsAcceptable(WireOf[handler.msg])
  /\ NakAndLeave
  /\ UNCHANGED <<stream, consumer, inbox, wg, hub, attached, history>>

(* SendMessage: GetRecipientByID, and the chain up to the first notifier    *)
(* with an address; without one the chain ends with a warning and no error. *)
LookUpRecipient ==
  /\ handler.pc = "work"
  /\ IsAcceptable(WireOf[handler.msg])
  /\ IF handler.msg \in Addressed
       THEN handler' = [handler EXCEPT !.pc = "send", !.notifier = 1]
       ELSE Goto("ack")
  /\ UNCHANGED <<server, inbox, wg, hub, attached, history>>

\* A slip: the failed look-up is logged, and the event not given back.
LookUpForgotten ==
  /\ handler.pc = "work"
  /\ IsAcceptable(WireOf[handler.msg])
  /\ Goto("leave")
  /\ Fault
  /\ UNCHANGED <<server, inbox, wg, hub, attached, mails, skipped, replayed>>

LookUpFails ==
  /\ handler.pc = "work"
  /\ IsAcceptable(WireOf[handler.msg])
  /\ NakAndLeave
  /\ Fault
  /\ UNCHANGED <<stream, consumer, inbox, wg, hub, attached, mails, skipped, replayed>>

CountMail(m) ==
  mails' = [mails EXCEPT ![m] = IF @ < MaxMails THEN @ + 1 ELSE @]

\* A slip: every notifier of the chain sends.
SendMailThroughAll ==
  /\ handler.pc = "send"
  /\ CountMail(handler.msg)
  /\ IF handler.notifier < Notifiers
       THEN handler' = [handler EXCEPT !.notifier = @ + 1]
       ELSE Goto("ack")
  /\ UNCHANGED <<server, inbox, wg, hub, attached, skipped, faults, replayed>>

SendMail ==
  /\ handler.pc = "send"
  /\ CountMail(handler.msg)
  /\ Goto("ack")
  /\ UNCHANGED <<server, inbox, wg, hub, attached, skipped, faults, replayed>>

(* smtp.SendMail reports an error, whether or not the mail went out; the    *)
(* next notifier tries, and the last one's error is the handler's.          *)
SendMailFails ==
  /\ handler.pc = "send"
  /\ CountMail(handler.msg) \/ UNCHANGED mails
  /\ IF handler.notifier < Notifiers
       THEN /\ handler' = [handler EXCEPT !.notifier = @ + 1]
            /\ UNCHANGED <<acked, pending>>
       ELSE NakAndLeave
  /\ Fault
  /\ UNCHANGED <<stream, consumer, inbox, wg, hub, attached, skipped, replayed>>

AckMessage ==
  /\ handler.pc = "ack"
  /\ handler' = [handler EXCEPT !.pc = "leave", !.answered = TRUE]
  /\ \/ Acknowledge(handler.msg) /\ UNCHANGED faults
     \/ UNCHANGED <<acked, pending>> /\ Fault
  /\ UNCHANGED <<stream, consumer, inbox, wg, hub, attached, mails, skipped, replayed>>

\* A slip: wg.Done only where the handler gets past the check.
LeaveUnlessSkipped ==
  /\ handler.pc = "leave"
  /\ Goto("returned")
  /\ wg' = IF handler.answered THEN wg - 1 ELSE wg
  /\ UNCHANGED <<server, inbox, hub, attached, history>>

LeaveHandler ==
  /\ handler.pc = "leave"
  /\ Goto("returned")
  /\ wg' = wg - 1
  /\ UNCHANGED <<server, inbox, hub, attached, history>>

\* The callback has returned: the library acknowledges what was not answered.
AfterCallback ==
  /\ handler.pc = "returned"
  /\ handler' = IdleHandler
  /\ IF handler.answered THEN UNCHANGED <<acked, pending>> ELSE Acknowledge(handler.msg)
  /\ UNCHANGED <<stream, consumer, inbox, wg, hub, attached, history>>

-----------------------------------------------------------------------------
(* Start, Stop, and the process around them.                               *)

(* NewNatsConsumer and Start: a durable that is not there is created, and   *)
(* delivers the stream from its beginning.                                  *)
Start ==
  /\ hub = "down"
  /\ hub' = "running"
  /\ attached' = TRUE
  /\ consumer' = IF consumer = "none" THEN "owned" ELSE consumer
  /\ UNCHANGED <<stream, acked, pending, inbox, handler, wg, history>>

CancelContext ==
  /\ hub = "running"
  /\ hub' = "cancelled"
  /\ UNCHANGED <<server, inbox, handler, wg, attached, history>>

\* A slip: Stop does not wait.
UnsubscribeOnly ==
  /\ hub = "cancelled"
  /\ hub' = "stopped"
  /\ attached' = FALSE
  /\ inbox' = <<>>
  /\ UNCHANGED <<server, handler, wg, history>>

\* A slip: Stop waits with the subscription still open.
WaitSubscribed ==
  /\ hub = "cancelled"
  /\ hub' = "waiting"
  /\ UNCHANGED <<server, inbox, handler, wg, attached, history>>

Unsubscribe ==
  /\ hub = "cancelled"
  /\ hub' = "waiting"
  /\ attached' = FALSE
  /\ inbox' = <<>>
  /\ IF consumer = "owned"
       THEN consumer' = "none" /\ acked' = {} /\ pending' = {} /\ replayed' = TRUE
       ELSE UNCHANGED <<consumer, acked, pending, replayed>>
  /\ UNCHANGED <<stream, handler, wg, mails, skipped, faults>>

\* Stop returns the error without waiting; the subscription may still be open.
UnsubscribeFails ==
  /\ hub = "cancelled"
  /\ hub' = "failed"
  /\ \/ UNCHANGED <<attached, inbox>>
     \/ attached' = FALSE /\ inbox' = <<>>
  /\ Fault
  /\ UNCHANGED <<server, handler, wg, mails, skipped, replayed>>

WaitForHandlers ==
  /\ hub = "waiting"
  /\ wg = 0
  /\ hub' = "stopped"
  /\ UNCHANGED <<server, inbox, handler, wg, attached, history>>

\* The process is gone, with the handler and the queue it had; a durable stays.
ProcessEnds ==
  /\ hub' = "down"
  /\ attached' = FALSE
  /\ inbox' = <<>>
  /\ handler' = IdleHandler
  /\ wg' = 0
  /\ consumer' = IF consumer = "owned" THEN "kept" ELSE consumer
  /\ UNCHANGED <<stream, acked, pending, mails, skipped, replayed>>

Exit == hub \in {"stopped", "failed"} /\ ProcessEnds /\ UNCHANGED faults

Crash == hub # "down" /\ ProcessEnds /\ Fault

-----------------------------------------------------------------------------

Handle ==
  \/ TakeMessage \/ EnterHandler \/ CheckShutdown \/ RejectEvent
  \/ LookUpRecipient \/ LookUpFails \/ SendMail \/ SendMailFails
  \/ AckMessage \/ LeaveHandler \/ AfterCallback

Stop == CancelContext \/ Unsubscribe \/ UnsubscribeFails \/ WaitForHandlers

Init ==
  /\ stream = {} /\ acked = {} /\ pending = {} /\ skipped = {}
  /\ consumer = "none"
  /\ inbox = <<>>
  /\ handler = IdleHandler
  /\ wg = 0
  /\ hub = "down"
  /\ attached = FALSE
  /\ mails = [m \in Messages |-> 0]
  /\ faults = 0
  /\ replayed = FALSE

Next ==
  \/ \E m \in Messages : PublishMessage(m) \/ Deliver(m) \/ AckWaitExpires(m)
  \/ Handle
  \/ Start \/ Stop \/ Exit \/ Crash

Spec == Init /\ [][Next]_vars

(* The server delivers, waits no longer than AckWait, and every call of a   *)
(* handler to auth and to the mail server ends; Stop runs to its end.       *)
Fairness ==
  /\ \A m \in Messages : WF_vars(Deliver(m)) /\ WF_vars(AckWaitExpires(m))
  /\ WF_vars(Handle)
  /\ WF_vars(Unsubscribe \/ UnsubscribeFails) /\ WF_vars(WaitForHandlers)

FairSpec == Spec /\ Fairness

-----------------------------------------------------------------------------
(* Types.                                                                  *)

HandlerSteps == {"idle", "taken", "entered", "work", "send", "ack", "leave", "returned"}

HandlerType ==
  [pc : HandlerSteps, msg : Messages \cup {"none"}, notifier : 0 .. Notifiers,
   answered : BOOLEAN]

TypeOK ==
  /\ stream \subseteq Messages /\ acked \subseteq Messages
  /\ pending \subseteq Messages /\ skipped \subseteq Messages
  /\ consumer \in {"none", "kept", "owned"}
  /\ inbox \in Seq(Messages)
  /\ handler \in HandlerType
  /\ wg \in {0, 1}
  /\ hub \in {"down", "running", "cancelled", "waiting", "stopped", "failed"}
  /\ attached \in BOOLEAN
  /\ mails \in [Messages -> 0 .. MaxMails]
  /\ faults \in 0 .. MaxFaults
  /\ replayed \in BOOLEAN

-----------------------------------------------------------------------------
(* Properties.                                                             *)

\* A message is never delivered again only once its mail went out, or its
\* recipient has no mail contact, or a stopping hub skipped it: failed calls,
\* unreadable events, crashes and restarts leave it with the durable.
AckedIsSettled ==
  \A m \in acked :
    \/ mails[m] > 0
    \/ m \in skipped
    \/ IsAcceptable(WireOf[m]) /\ m \notin Addressed

\* Nothing is mailed for an event the hub cannot read, and nothing twice unless
\* a fault happened or the durable was created anew: neither the redelivery of
\* rejected messages nor the chain of notifiers repeats a mail by itself.
MailedOnce ==
  \A m \in Messages :
    /\ mails[m] > 0 => IsAcceptable(WireOf[m]) /\ m \in Addressed
    /\ mails[m] > 1 => faults > 0 \/ replayed

\* Once Stop has returned without an error no mail is sent and no handler is
\* past its check, although handlers add themselves to the wait group.
StoppedIsQuiet ==
  hub = "stopped" => handler.pc \notin {"work", "send", "ack"}

\* A readable event of a recipient with a contact is mailed in the end, as long
\* as the hub is not stopped and does not die, although unreadable events come
\* back for ever.  Except one that a stopping hub had skipped: the library has
\* acknowledged it, and a durable that outlives the stop does not deliver it.
EventsAreMailed ==
  \A m \in Addressed :
    m \in stream /\ IsAcceptable(WireOf[m])
      ~> mails[m] > 0 \/ m \in skipped \/ hub # "running"

\* Stop returns: what it waits for does not start anything new.
StopReturns == hub \in {"cancelled", "waiting"} ~> hub \in {"stopped", "failed", "down"}

\* Every event the question service publishes is one the hub can tell the mentor
\* about (notificationhub/docs/case.md, Q ->> N and N ->> M: sessionResult): no
\* handler gives it back as unreadable.
PublishedIsReadable ==
  handler.pc = "leave" /\ handler.answered => IsAcceptable(WireOf[handler.msg])

-----------------------------------------------------------------------------
(* The inductive invariant.                                                *)

\* What the steps of handleMessage know of their message: it can be read and has
\* an address before it is mailed, it was dealt with before it is acknowledged,
\* and a handler that leaves without an answer had skipped it.
HandlerFits ==
  /\ handler.pc # "idle" => handler.msg \in Messages
  /\ handler.answered => handler.pc \in {"leave", "returned"}
  /\ handler.pc = "send" =>
       IsAcceptable(WireOf[handler.msg]) /\ handler.msg \in Addressed
  /\ handler.pc = "ack" =>
       \/ mails[handler.msg] > 0
       \/ IsAcceptable(WireOf[handler.msg]) /\ handler.msg \notin Addressed
  /\ handler.pc \in {"leave", "returned"} /\ ~handler.answered =>
       handler.msg \in skipped

\* The wait group counts the handler from its first statement to its last.
WaitGroupCounts ==
  wg = IF handler.pc \in {"entered", "work", "send", "ack", "leave"} THEN 1 ELSE 0

\* Without a fault and with the durable of the beginning, the hub has a message
\* once, as long as the server waits for it, and one that was mailed is
\* acknowledged or about to be.
HeldOnce ==
  faults = 0 /\ ~replayed =>
    /\ \A i \in DOMAIN inbox : inbox[i] \in pending
    /\ \A i, j \in DOMAIN inbox : inbox[i] = inbox[j] => i = j
    /\ handler.pc # "idle" /\ ~handler.answered =>
         /\ handler.msg \in pending
         /\ \A i \in DOMAIN inbox : inbox[i] # handler.msg
    /\ pending \cap acked = {}
    /\ \A m \in Messages : mails[m] > 0 =>
         m \in acked \/ (handler.pc = "ack" /\ handler.msg = m)
    /\ consumer = "none" => handler.pc = "idle" /\ inbox = <<>>
    /\ hub # "failed"

\* What the hub has was published; a process that is down has nothing, and one
\* that waits for its handlers takes nothing more.
HeldIsPublished ==
  /\ \A i \in DOMAIN inbox : inbox[i] \in stream
  /\ handler.pc # "idle" => handler.msg \in stream
  /\ handler.pc = "idle" => handler = IdleHandler
  /\ attached \/ handler.pc # "idle" => hub # "down"
  /\ hub \in {"waiting", "stopped"} => ~attached

\* The strengthening the safety properties above follow from.
IInv ==
  /\ TypeOK
  /\ HandlerFits
  /\ HeldIsPublished
  /\ WaitGroupCounts
  /\ AckedIsSettled
  /\ StoppedIsQuiet
  /\ MailedOnce
  /\ HeldOnce

-----------------------------------------------------------------------------
(* How far a handler is from its end: what Stop waits for.                 *)

HandlerRank ==
  CASE handler.pc = "idle" -> 0
    [] handler.pc = "returned" -> 1
    [] handler.pc = "leave" -> 2
    [] handler.pc = "ack" -> 3
    [] handler.pc = "send" -> 4 + (Notifiers - handler.notifier)
    [] handler.pc = "work" -> 5 + Notifiers
    [] handler.pc = "entered" -> 6 + Notifiers
    [] handler.pc = "taken" -> 7 + Notifiers

\* While Stop waits nothing starts, and every step of the handler that is still
\* there brings it nearer to its end: Stop waits for a number of steps that is
\* fixed when Unsubscribe returns, whatever the mail server and auth answer.
StopWaitShrinks ==
  [][hub = "waiting" =>
       /\ HandlerRank' <= HandlerRank
       /\ handler' # handler => HandlerRank' < HandlerRank]_vars

-----------------------------------------------------------------------------
(* The hub as an implementation of EventDelivery.                          *)

DeliveryTelling == {m \in Addressed : IsAcceptable(WireOf[m])}
DeliverySilent == {m \in Messages \ Addressed : IsAcceptable(WireOf[m])}
DeliveryTold == {m \in Messages : mails[m] > 0}

\* A Stop that failed has not returned what it promises.
DeliveryPhase ==
  CASE hub = "down" -> "off"
    [] hub = "running" -> "on"
    [] hub \in {"cancelled", "waiting", "failed"} -> "stopping"
    [] hub = "stopped" -> "stopped"

Delivery ==
  INSTANCE EventDelivery WITH
    Events <- Messages, Telling <- DeliveryTelling, Silent <- DeliverySilent,
    published <- stream, told <- DeliveryTold, passed <- skipped,
    settled <- acked, phase <- DeliveryPhase

\* The hub implements EventDelivery: with redelivery, lost answers, a Stop during
\* a handler, crashes and restarts it tells only of what was published, between a
\* start and the return of Stop, and settles nothing but what was told, passed
\* over while stopping, or needs no telling.
ImplementsDelivery == Delivery!Spec
=============================================================================
