------------------------ MODULE NotificationHubProofs ------------------------
(***************************************************************************)
(* Proofs about NotificationHub, for every set of messages, every content  *)
(* of them, every length of the chain of notifiers and every number of     *)
(* faults.                                                                 *)
(***************************************************************************)
EXTENDS NotificationHub, TLAPS

-----------------------------------------------------------------------------
(* Counting.                                                               *)

\* A mail more is counted up to the bound; the count stays positive.
LEMMA MailCounted ==
  ASSUME TypeOK, NEW m \in Messages, CountMail(m)
  PROVE  /\ mails' \in [Messages -> 0 .. MaxMails]
         /\ mails'[m] > 0
         /\ mails'[m] > 1 => mails[m] > 0
         /\ \A n \in Messages : n # m => mails'[n] = mails[n]
BY HubAssumption DEF TypeOK, CountMail

\* A fault is counted, within its bound.
LEMMA FaultCounted ==
  ASSUME TypeOK, Fault
  PROVE  faults' \in 0 .. MaxFaults /\ faults' > 0
BY HubAssumption DEF TypeOK, Fault

-----------------------------------------------------------------------------
(* Types.                                                                  *)

LEMMA IdleHandlerType == IdleHandler \in HandlerType
BY HubAssumption DEF IdleHandler, HandlerType, HandlerSteps

LEMMA InitTypes == Init => TypeOK
<1> SUFFICES ASSUME Init PROVE TypeOK
  OBVIOUS
<1>1. mails \in [Messages -> 0 .. MaxMails] /\ faults \in 0 .. MaxFaults
  BY HubAssumption DEF Init
<1>2. inbox \in Seq(Messages) /\ handler \in HandlerType
  BY IdleHandlerType DEF Init
<1> QED
  BY <1>1, <1>2 DEF Init, TypeOK

\* The steps of JetStream keep the types.
LEMMA ServerTypes ==
  ASSUME TypeOK, NEW m \in Messages,
         PublishMessage(m) \/ Deliver(m) \/ AckWaitExpires(m)
  PROVE  TypeOK'
<1>1. CASE PublishMessage(m)
  BY <1>1 DEF TypeOK, PublishMessage, history
<1>2. CASE Deliver(m)
  BY <1>2 DEF TypeOK, Deliver, history
<1>3. CASE AckWaitExpires(m)
  <2>1. faults' \in 0 .. MaxFaults
    BY <1>3, FaultCounted DEF AckWaitExpires, TypeOK
  <2> QED
    BY <1>3, <2>1 DEF TypeOK, AckWaitExpires
<1> QED
  BY <1>1, <1>2, <1>3

\* So do those of the handler, which has a message of the stream.
LEMMA HandlerMoves ==
  ASSUME TypeOK
  PROVE  /\ \A pc \in HandlerSteps : [handler EXCEPT !.pc = pc] \in HandlerType
         /\ \A pc \in HandlerSteps :
              [handler EXCEPT !.pc = pc, !.answered = TRUE] \in HandlerType
         /\ \A pc \in HandlerSteps :
              [handler EXCEPT !.pc = pc, !.notifier = 1] \in HandlerType
         /\ handler.notifier < Notifiers =>
              [handler EXCEPT !.notifier = @ + 1] \in HandlerType
<1>1. handler \in HandlerType
  BY DEF TypeOK
<1>2. 1 \in 0 .. Notifiers
  BY HubAssumption
<1>3. handler.notifier \in 0 .. Notifiers
  BY <1>1 DEF HandlerType
<1>4. handler.notifier < Notifiers => handler.notifier + 1 \in 0 .. Notifiers
  BY <1>3, HubAssumption
<1> QED
  BY <1>1, <1>2, <1>4 DEF HandlerType

LEMMA HandlerTypes ==
  ASSUME TypeOK, HandlerFits, WaitGroupCounts, Handle
  PROVE  TypeOK'
<1> USE HandlerMoves, IdleHandlerType DEF HandlerSteps
<1>1. CASE TakeMessage
  <2>1. inbox \in Seq(Messages) /\ inbox # <<>>
    BY <1>1 DEF TakeMessage, TypeOK
  <2>2. Head(inbox) \in Messages /\ inbox' \in Seq(Messages)
    BY <1>1, <2>1 DEF TakeMessage
  <2>3. handler' \in HandlerType
    <3>1. handler' = [pc |-> "taken", msg |-> Head(inbox), notifier |-> 0, answered |-> FALSE]
      BY <1>1 DEF TakeMessage, IdleHandler
    <3>2. 0 \in 0 .. Notifiers
      BY HubAssumption
    <3> QED
      BY <2>2, <3>1, <3>2 DEF HandlerType
  <2> QED
    BY <1>1, <2>2, <2>3 DEF TakeMessage, TypeOK, server, history
<1>2. CASE EnterHandler
  <2>1. handler' \in HandlerType
    BY <1>2 DEF EnterHandler, Goto
  <2>2. wg' \in {0, 1}
    BY <1>2 DEF EnterHandler, WaitGroupCounts
  <2> QED
    BY <1>2, <2>1, <2>2 DEF TypeOK, EnterHandler, server, history
<1>3. CASE CheckShutdown
  <2>1. handler' \in HandlerType
    BY <1>3 DEF CheckShutdown, Goto
  <2>2. skipped' \subseteq Messages
    BY <1>3 DEF TypeOK, CheckShutdown, HandlerFits
  <2> QED
    BY <1>3, <2>1, <2>2 DEF TypeOK, CheckShutdown, server
<1>4. CASE RejectEvent
  <2>1. handler' \in HandlerType /\ pending' \subseteq Messages /\ UNCHANGED acked
    BY <1>4 DEF TypeOK, RejectEvent, NakAndLeave, Reject
  <2> QED
    BY <1>4, <2>1 DEF TypeOK, RejectEvent, history
<1>5. CASE LookUpRecipient
  <2>1. handler' \in HandlerType
    BY <1>5 DEF LookUpRecipient, Goto
  <2> QED
    BY <1>5, <2>1 DEF TypeOK, LookUpRecipient, server, history
<1>6. CASE LookUpFails
  <2>1. handler' \in HandlerType /\ pending' \subseteq Messages /\ UNCHANGED acked
    BY <1>6 DEF TypeOK, LookUpFails, NakAndLeave, Reject
  <2>2. faults' \in 0 .. MaxFaults
    BY <1>6, FaultCounted DEF LookUpFails
  <2> QED
    BY <1>6, <2>1, <2>2 DEF TypeOK, LookUpFails
<1>7. CASE SendMail
  <2>1. handler' \in HandlerType
    BY <1>7 DEF SendMail, Goto
  <2>2. mails' \in [Messages -> 0 .. MaxMails]
    BY <1>7, MailCounted DEF SendMail, HandlerFits
  <2> QED
    BY <1>7, <2>1, <2>2 DEF TypeOK, SendMail, server
<1>8. CASE SendMailFails
  <2>1. handler' \in HandlerType /\ pending' \subseteq Messages /\ UNCHANGED acked
    BY <1>8 DEF TypeOK, SendMailFails, NakAndLeave, Reject
  <2>2. mails' \in [Messages -> 0 .. MaxMails] /\ faults' \in 0 .. MaxFaults
    BY <1>8, MailCounted, FaultCounted DEF SendMailFails, HandlerFits, TypeOK
  <2> QED
    BY <1>8, <2>1, <2>2 DEF TypeOK, SendMailFails
<1>9. CASE AckMessage
  <2>1. handler' \in HandlerType
    BY <1>9 DEF AckMessage
  <2>2. faults' \in 0 .. MaxFaults /\ acked' \subseteq Messages /\ pending' \subseteq Messages
    BY <1>9, FaultCounted DEF AckMessage, TypeOK, HandlerFits, Acknowledge
  <2> QED
    BY <1>9, <2>1, <2>2 DEF TypeOK, AckMessage
<1>10. CASE LeaveHandler
  <2>1. handler' \in HandlerType
    BY <1>10 DEF LeaveHandler, Goto
  <2>2. wg' \in {0, 1}
    BY <1>10 DEF LeaveHandler, WaitGroupCounts
  <2> QED
    BY <1>10, <2>1, <2>2 DEF TypeOK, LeaveHandler, server, history
<1>11. CASE AfterCallback
  <2>1. acked' \subseteq Messages /\ pending' \subseteq Messages
    BY <1>11 DEF AfterCallback, TypeOK, HandlerFits, Acknowledge
  <2> QED
    BY <1>11, <2>1 DEF TypeOK, AfterCallback, history
<1> QED
  BY <1>1, <1>2, <1>3, <1>4, <1>5, <1>6, <1>7, <1>8, <1>9, <1>10, <1>11 DEF Handle

\* So do the start and the end of the process.
LEMMA ProcessTypes ==
  ASSUME TypeOK, Start \/ Stop \/ Exit \/ Crash
  PROVE  TypeOK'
<1>1. CASE Start \/ CancelContext \/ WaitForHandlers
  BY <1>1 DEF TypeOK, Start, CancelContext, WaitForHandlers, server, history
<1>2. CASE Unsubscribe
  <2>1. inbox' \in Seq(Messages)
    BY <1>2 DEF Unsubscribe
  <2> QED
    BY <1>2, <2>1 DEF TypeOK, Unsubscribe
<1>3. CASE UnsubscribeFails
  <2>1. faults' \in 0 .. MaxFaults
    BY <1>3, FaultCounted DEF UnsubscribeFails
  <2>2. CASE UNCHANGED <<attached, inbox>>
    BY <1>3, <2>1, <2>2 DEF TypeOK, UnsubscribeFails, server
  <2>3. CASE attached' = FALSE /\ inbox' = <<>>
    <3>1. inbox' \in Seq(Messages)
      BY <2>3
    <3> QED
      BY <1>3, <2>1, <2>3, <3>1 DEF TypeOK, UnsubscribeFails, server
  <2> QED
    BY <1>3, <2>2, <2>3 DEF UnsubscribeFails
<1>4. CASE Exit \/ Crash
  <2>1. ProcessEnds /\ faults' \in 0 .. MaxFaults
    BY <1>4, FaultCounted DEF Exit, Crash, TypeOK
  <2>2. inbox' \in Seq(Messages) /\ handler' \in HandlerType
    BY <2>1, IdleHandlerType DEF ProcessEnds
  <2> QED
    BY <2>1, <2>2 DEF TypeOK, ProcessEnds
<1> QED
  BY <1>1, <1>2, <1>3, <1>4 DEF Stop

-----------------------------------------------------------------------------
(* The handler and its message.                                            *)

\* Steps that leave the handler alone do not concern it; a mail that was counted
\* stays counted, and what was skipped stays so.
LEMMA HandlerAlone ==
  ASSUME HandlerFits, WaitGroupCounts, UNCHANGED <<handler, wg, mails, skipped>>
  PROVE  HandlerFits' /\ WaitGroupCounts'
BY DEF HandlerFits, WaitGroupCounts

LEMMA HandlerFitsStep ==
  ASSUME TypeOK, HandlerFits, WaitGroupCounts, Handle
  PROVE  HandlerFits' /\ WaitGroupCounts'
<1>1. handler \in HandlerType /\ inbox \in Seq(Messages)
  BY DEF TypeOK
<1> USE DEF HandlerFits, WaitGroupCounts, HandlerType
<1>2. CASE TakeMessage
  <2>1. Head(inbox) \in Messages
    BY <1>1, <1>2 DEF TakeMessage
  <2> QED
    BY <1>1, <1>2, <2>1 DEF TakeMessage, IdleHandler, history
<1>3. CASE EnterHandler
  BY <1>1, <1>3 DEF EnterHandler, Goto, history
<1>4. CASE CheckShutdown
  BY <1>1, <1>4 DEF CheckShutdown, Goto
<1>5. CASE RejectEvent
  BY <1>1, <1>5 DEF RejectEvent, NakAndLeave, history
<1>6. CASE LookUpRecipient
  BY <1>1, <1>6 DEF LookUpRecipient, Goto, history
<1>7. CASE LookUpFails
  BY <1>1, <1>7 DEF LookUpFails, NakAndLeave
<1>8. CASE SendMail
  <2>1. mails'[handler.msg] > 0
    BY <1>8, MailCounted DEF SendMail
  <2> QED
    BY <1>1, <1>8, <2>1 DEF SendMail, Goto
<1>9. CASE SendMailFails
  BY <1>1, <1>9 DEF SendMailFails, NakAndLeave
<1>10. CASE AckMessage
  BY <1>1, <1>10 DEF AckMessage
<1>11. CASE LeaveHandler
  BY <1>1, <1>11 DEF LeaveHandler, Goto, history
<1>12. CASE AfterCallback
  BY <1>1, <1>12 DEF AfterCallback, IdleHandler, history
<1> QED
  BY <1>2, <1>3, <1>4, <1>5, <1>6, <1>7, <1>8, <1>9, <1>10, <1>11, <1>12 DEF Handle

\* The end of the process leaves no handler, and nobody in the wait group.
LEMMA HandlerEnds ==
  ASSUME ProcessEnds
  PROVE  HandlerFits' /\ WaitGroupCounts'
BY DEF ProcessEnds, HandlerFits, WaitGroupCounts, IdleHandler

-----------------------------------------------------------------------------
(* What the hub has.                                                       *)

\* The queue and the handler get their messages from the stream, through a
\* subscription that a running process opened and Unsubscribe closes.
LEMMA HeldServer ==
  ASSUME TypeOK, HeldIsPublished, NEW m \in Messages,
         PublishMessage(m) \/ Deliver(m) \/ AckWaitExpires(m)
  PROVE  HeldIsPublished'
<1>1. CASE PublishMessage(m) \/ AckWaitExpires(m)
  BY <1>1 DEF PublishMessage, AckWaitExpires, HeldIsPublished, history
<1>2. CASE Deliver(m)
  <2>1. \A i \in DOMAIN inbox' : inbox'[i] = m \/ (i \in DOMAIN inbox /\ inbox'[i] = inbox[i])
    BY <1>2 DEF Deliver, TypeOK
  <2> QED
    BY <1>2, <2>1 DEF Deliver, HeldIsPublished
<1> QED
  BY <1>1, <1>2

LEMMA HeldHandle ==
  ASSUME TypeOK, HeldIsPublished, Handle
  PROVE  HeldIsPublished'
<1>1. /\ handler \in HandlerType /\ inbox \in Seq(Messages)
      /\ UNCHANGED <<stream, attached, hub>>
  BY DEF TypeOK, Handle, TakeMessage, EnterHandler, CheckShutdown, RejectEvent, LookUpRecipient,
         LookUpFails, SendMail, SendMailFails, AckMessage, LeaveHandler, AfterCallback,
         server, history
<1>2. CASE TakeMessage
  <2>1. handler'.pc # "idle" /\ handler'.msg = inbox[1] /\ 1 \in DOMAIN inbox /\ attached
    BY <1>1, <1>2 DEF TakeMessage, IdleHandler
  <2>2. \A i \in DOMAIN inbox' : i + 1 \in DOMAIN inbox /\ inbox'[i] = inbox[i + 1]
    BY <1>1, <1>2 DEF TakeMessage
  <2> QED
    BY <1>1, <2>1, <2>2 DEF HeldIsPublished
<1>3. CASE ~TakeMessage
  <2>1. UNCHANGED inbox
    BY <1>3 DEF Handle, EnterHandler, CheckShutdown, RejectEvent, LookUpRecipient, LookUpFails,
                SendMail, SendMailFails, AckMessage, LeaveHandler, AfterCallback
  <2>2. handler' = IdleHandler \/ (handler'.msg = handler.msg /\ handler.pc # "idle" /\ handler'.pc # "idle")
    <3>1. CASE AfterCallback
      BY <3>1 DEF AfterCallback
    <3>2. CASE ~AfterCallback
      BY <1>1, <1>3, <3>2 DEF Handle, EnterHandler, CheckShutdown, RejectEvent, LookUpRecipient,
           LookUpFails, SendMail, SendMailFails, AckMessage, LeaveHandler, Goto, NakAndLeave,
           HandlerType
    <3> QED
      BY <3>1, <3>2
  <2> QED
    BY <1>1, <2>1, <2>2 DEF HeldIsPublished, IdleHandler
<1> QED
  BY <1>2, <1>3

LEMMA HeldProcess ==
  ASSUME HeldIsPublished, Start \/ Stop \/ Exit \/ Crash
  PROVE  HeldIsPublished'
BY DEF HeldIsPublished, Start, Stop, CancelContext, Unsubscribe, UnsubscribeFails,
       WaitForHandlers, Exit, Crash, ProcessEnds, IdleHandler, server, history

-----------------------------------------------------------------------------
(* Acknowledged messages.                                                  *)

\* A message that was settled stays settled.
LEMMA SettledStays ==
  ASSUME TypeOK, AckedIsSettled, acked' \subseteq acked, skipped \subseteq skipped',
         \A m \in Messages : mails[m] > 0 => mails'[m] > 0
  PROVE  AckedIsSettled'
BY DEF AckedIsSettled, TypeOK

\* A message whose handler has nothing left to do but to acknowledge it, or that
\* the library acknowledges, is settled.
LEMMA SettledStep ==
  ASSUME TypeOK, HandlerFits, AckedIsSettled, Handle
  PROVE  AckedIsSettled'
<1>1. CASE TakeMessage \/ EnterHandler \/ LookUpRecipient \/ LeaveHandler
  BY <1>1, SettledStays DEF TakeMessage, EnterHandler, LookUpRecipient, LeaveHandler,
                            server, history
<1>2. CASE CheckShutdown
  <2>1. skipped \subseteq skipped' /\ UNCHANGED <<acked, mails>>
    BY <1>2 DEF CheckShutdown, server
  <2> QED
    BY <2>1, SettledStays
<1>3. CASE RejectEvent \/ LookUpFails
  BY <1>3, SettledStays DEF RejectEvent, LookUpFails, NakAndLeave, Reject, history
<1>4. CASE SendMail \/ SendMailFails
  <2>1. UNCHANGED <<acked, skipped>>
    BY <1>4 DEF SendMail, SendMailFails, NakAndLeave, Reject, server
  <2>2. CountMail(handler.msg) \/ UNCHANGED mails
    BY <1>4 DEF SendMail, SendMailFails
  <2>3. handler.msg \in Messages
    BY <1>4 DEF SendMail, SendMailFails, HandlerFits
  <2>4. \A m \in Messages : mails[m] > 0 => mails'[m] > 0
    BY <2>2, <2>3, MailCounted
  <2> QED
    BY <2>1, <2>4, SettledStays
<1>5. CASE AckMessage
  <2>1. acked' \subseteq acked \cup {handler.msg} /\ UNCHANGED <<mails, skipped>>
    BY <1>5 DEF AckMessage, Acknowledge
  <2> QED
    BY <1>5, <2>1 DEF AckMessage, AckedIsSettled, HandlerFits
<1>6. CASE AfterCallback
  <2>1. /\ acked' \subseteq acked \cup {m \in {handler.msg} : m \in skipped}
        /\ UNCHANGED <<mails, skipped>>
    BY <1>6 DEF AfterCallback, Acknowledge, HandlerFits, history
  <2> QED
    BY <2>1 DEF AckedIsSettled
<1> QED
  BY <1>1, <1>2, <1>3, <1>4, <1>5, <1>6 DEF Handle

-----------------------------------------------------------------------------
(* The stopped hub.                                                        *)

\* Stop has waited for the wait group to be empty, and a handler that comes after
\* finds the context cancelled.
LEMMA QuietHandle ==
  ASSUME TypeOK, StoppedIsQuiet, Handle
  PROVE  StoppedIsQuiet'
<1>1. handler \in HandlerType
  BY DEF TypeOK
<1> USE DEF StoppedIsQuiet, HandlerType
<1>2. CASE TakeMessage \/ EnterHandler \/ LeaveHandler \/ AfterCallback
  <2>1. handler'.pc \in {"taken", "entered", "returned", "idle"}
    <3>1. CASE TakeMessage
      BY <3>1 DEF TakeMessage, IdleHandler
    <3>2. CASE AfterCallback
      BY <3>2 DEF AfterCallback, IdleHandler
    <3>3. CASE EnterHandler \/ LeaveHandler
      BY <1>1, <3>3 DEF EnterHandler, LeaveHandler, Goto
    <3> QED
      BY <1>2, <3>1, <3>2, <3>3
  <2> QED
    BY <2>1
<1>3. CASE CheckShutdown
  BY <1>1, <1>3 DEF CheckShutdown, Goto
<1>4. CASE RejectEvent \/ LookUpRecipient \/ LookUpFails \/ SendMail \/ SendMailFails \/ AckMessage
  BY <1>4 DEF RejectEvent, LookUpRecipient, LookUpFails, SendMail, SendMailFails, AckMessage
<1> QED
  BY <1>2, <1>3, <1>4 DEF Handle

LEMMA QuietProcess ==
  ASSUME WaitGroupCounts, StoppedIsQuiet, Start \/ Stop \/ Exit \/ Crash
  PROVE  StoppedIsQuiet'
BY DEF WaitGroupCounts, StoppedIsQuiet, Start, Stop, CancelContext, Unsubscribe,
       UnsubscribeFails, WaitForHandlers, Exit, Crash, ProcessEnds

-----------------------------------------------------------------------------
(* How often a message is mailed.                                          *)

\* Nothing is promised of a behaviour with a fault or with a durable made anew.
LEMMA HeldOnceAfterFault ==
  ASSUME TypeOK', faults' > 0 \/ replayed'
  PROVE  HeldOnce'
BY DEF HeldOnce, TypeOK

\* A step without a mail, that does not undo a fault.
LEMMA MailedOnceStays ==
  ASSUME MailedOnce, UNCHANGED mails, faults > 0 => faults' > 0, replayed => replayed'
  PROVE  MailedOnce'
BY DEF MailedOnce

LEMMA OnceServer ==
  ASSUME IInv, NEW m \in Messages, PublishMessage(m) \/ Deliver(m) \/ AckWaitExpires(m), TypeOK'
  PROVE  MailedOnce' /\ HeldOnce'
<1>1. MailedOnce'
  <2>1. UNCHANGED <<mails, replayed>> /\ (UNCHANGED faults \/ Fault)
    BY DEF PublishMessage, Deliver, AckWaitExpires, history
  <2> QED
    BY <2>1, MailedOnceStays, FaultCounted DEF IInv
<1>2. CASE PublishMessage(m)
  BY <1>1, <1>2 DEF PublishMessage, IInv, HeldOnce, history
<1>3. CASE Deliver(m)
  <2> SUFFICES ASSUME faults' = 0, ~replayed' PROVE HeldOnce'
    BY <1>1 DEF HeldOnce
  <2>1. /\ inbox \in Seq(Messages) /\ inbox' = Append(inbox, m)
        /\ pending' = pending \cup {m} /\ m \notin acked \cup pending /\ consumer # "none"
        /\ UNCHANGED <<acked, consumer, handler, mails, hub, faults, replayed>>
    BY <1>3 DEF Deliver, IInv, TypeOK, history
  <2>2. HeldOnce /\ faults = 0 /\ ~replayed
    BY <2>1 DEF IInv
  <2>3. \A i \in DOMAIN inbox' : inbox'[i] = m \/ (i \in DOMAIN inbox /\ inbox'[i] = inbox[i])
    BY <2>1
  <2>4. \A i, j \in DOMAIN inbox' : inbox'[i] = inbox'[j] => i = j
    BY <2>1, <2>2 DEF HeldOnce
  <2>5. /\ \A i \in DOMAIN inbox' : inbox'[i] \in pending'
        /\ handler.pc # "idle" /\ ~handler.answered =>
             \A i \in DOMAIN inbox' : inbox'[i] # handler.msg
    BY <2>1, <2>2, <2>3 DEF HeldOnce
  <2> QED
    BY <2>1, <2>2, <2>4, <2>5 DEF HeldOnce
<1>4. CASE AckWaitExpires(m)
  <2>1. CASE Fault
    BY <1>1, <2>1, FaultCounted, HeldOnceAfterFault DEF IInv
  <2>2. CASE ~InHub(m) /\ UNCHANGED faults
    BY <1>1, <1>4, <2>2 DEF AckWaitExpires, InHub, IInv, HeldOnce
  <2> QED
    BY <1>4, <2>1, <2>2 DEF AckWaitExpires
<1> QED
  BY <1>1, <1>2, <1>3, <1>4

\* The message goes from the queue to the handler, which keeps it until it has
\* answered.
LEMMA OnceHandle ==
  ASSUME IInv, Handle, TypeOK'
  PROVE  MailedOnce' /\ HeldOnce'
<1>1. /\ handler \in HandlerType /\ inbox \in Seq(Messages) /\ TypeOK
      /\ HandlerFits /\ MailedOnce /\ HeldOnce
  BY DEF IInv, TypeOK
<1>2. CASE TakeMessage
  <2>1. /\ UNCHANGED <<consumer, pending, acked, mails, hub, faults, replayed>>
        /\ inbox # <<>> /\ inbox' = Tail(inbox)
        /\ handler.pc = "idle"
        /\ consumer # "none" \/ faults > 0 \/ replayed
    BY <1>1, <1>2 DEF TakeMessage, server, history, HeldOnce, TypeOK
  <2>2. handler' = [pc |-> "taken", msg |-> Head(inbox), notifier |-> 0, answered |-> FALSE]
    BY <1>2 DEF TakeMessage, IdleHandler
  <2>3. 1 \in DOMAIN inbox /\ Head(inbox) = inbox[1]
    BY <1>1, <2>1
  <2>4. \A i \in DOMAIN inbox' : i + 1 \in DOMAIN inbox /\ inbox'[i] = inbox[i + 1] /\ i \in Nat \ {0}
    BY <1>1, <2>1
  <2>5. MailedOnce'
    BY <1>1, <2>1, MailedOnceStays
  <2>6. HeldOnce'
    <3> SUFFICES ASSUME faults' = 0, ~replayed' PROVE HeldOnce'
      BY DEF HeldOnce
    <3>1. faults = 0 /\ ~replayed /\ handler.pc = "idle" /\ consumer # "none"
      BY <1>2, <2>1 DEF TakeMessage
    <3>2. \A i \in DOMAIN inbox' : inbox'[i] \in pending /\ inbox'[i] # Head(inbox)
      BY <1>1, <2>3, <2>4, <3>1 DEF HeldOnce
    <3>3. \A i, j \in DOMAIN inbox' : inbox'[i] = inbox'[j] => i = j
      BY <1>1, <2>4, <3>1 DEF HeldOnce
    <3> QED
      BY <1>1, <2>1, <2>2, <2>3, <3>1, <3>2, <3>3 DEF HeldOnce
  <2> QED
    BY <2>5, <2>6
<1>3. CASE EnterHandler \/ CheckShutdown \/ LookUpRecipient \/ LeaveHandler
  <2>1. /\ UNCHANGED <<consumer, pending, acked, inbox, mails, hub, faults, replayed>>
        /\ handler.pc \in {"entered", "work", "taken", "leave"}
    BY <1>3 DEF EnterHandler, CheckShutdown, LookUpRecipient, LeaveHandler, server, history
  <2>2. handler'.msg = handler.msg /\ handler'.answered = handler.answered
    BY <1>1, <1>3 DEF EnterHandler, CheckShutdown, LookUpRecipient, LeaveHandler, Goto, HandlerType
  <2>3. MailedOnce'
    BY <1>1, <2>1, MailedOnceStays
  <2>4. HeldOnce'
    BY <1>1, <2>1, <2>2 DEF HeldOnce
  <2> QED
    BY <2>3, <2>4
<1>4. CASE RejectEvent
  <2>1. /\ UNCHANGED <<consumer, acked, inbox, mails, hub, faults, replayed>>
        /\ handler.pc = "work" /\ ~handler.answered
        /\ pending \ {handler.msg} \subseteq pending' /\ pending' \subseteq pending
    BY <1>1, <1>4 DEF RejectEvent, NakAndLeave, Reject, HandlerFits, history
  <2>2. handler'.pc = "leave" /\ handler'.answered
    BY <1>1, <1>4 DEF RejectEvent, NakAndLeave, HandlerType
  <2>3. MailedOnce'
    BY <1>1, <2>1, MailedOnceStays
  <2>4. HeldOnce'
    BY <1>1, <2>1, <2>2 DEF HeldOnce
  <2> QED
    BY <2>3, <2>4
<1>5. CASE LookUpFails
  <2>1. faults' > 0 /\ UNCHANGED <<mails, replayed>>
    BY <1>1, <1>5, FaultCounted DEF LookUpFails
  <2> QED
    BY <1>1, <2>1, MailedOnceStays, HeldOnceAfterFault
<1>6. CASE SendMail
  <2>1. /\ UNCHANGED <<consumer, pending, acked, inbox, hub, faults, replayed>>
        /\ handler.pc = "send" /\ ~handler.answered /\ handler.msg \in Messages
        /\ IsAcceptable(WireOf[handler.msg]) /\ handler.msg \in Addressed
    BY <1>1, <1>6 DEF SendMail, HandlerFits, server
  <2>2. handler'.pc = "ack" /\ handler'.msg = handler.msg /\ handler'.answered = handler.answered
    BY <1>1, <1>6 DEF SendMail, Goto, HandlerType
  <2>3. /\ mails'[handler.msg] > 1 => mails[handler.msg] > 0
        /\ \A n \in Messages : n # handler.msg => mails'[n] = mails[n]
    BY <1>1, <1>6, <2>1, MailCounted DEF SendMail
  <2>4. faults = 0 /\ ~replayed => ~(mails[handler.msg] > 0)
    BY <1>1, <2>1 DEF HeldOnce
  <2>5. faults > 0 \/ faults = 0
    BY <1>1, HubAssumption DEF TypeOK
  <2>6. MailedOnce'
    BY <1>1, <2>1, <2>3, <2>4, <2>5 DEF MailedOnce
  <2>7. HeldOnce'
    BY <1>1, <2>1, <2>2, <2>3 DEF HeldOnce
  <2> QED
    BY <2>6, <2>7
<1>7. CASE SendMailFails
  <2>1. /\ faults' > 0 /\ UNCHANGED replayed /\ handler.msg \in Messages
        /\ IsAcceptable(WireOf[handler.msg]) /\ handler.msg \in Addressed
    BY <1>1, <1>7, FaultCounted DEF SendMailFails, HandlerFits
  <2>2. \A n \in Messages : n # handler.msg => mails'[n] = mails[n]
    BY <1>1, <1>7, <2>1, MailCounted DEF SendMailFails
  <2>3. MailedOnce'
    BY <1>1, <2>1, <2>2 DEF MailedOnce
  <2> QED
    BY <2>1, <2>3, HeldOnceAfterFault
<1>8. CASE AckMessage
  <2>1. UNCHANGED <<consumer, inbox, mails, hub, replayed>> /\ handler.pc = "ack" /\ ~handler.answered
    BY <1>1, <1>8 DEF AckMessage, HandlerFits
  <2>2. handler'.pc = "leave" /\ handler'.answered
    BY <1>1, <1>8 DEF AckMessage, HandlerType
  <2>3. CASE Fault
    BY <1>1, <2>1, <2>3, FaultCounted, MailedOnceStays, HeldOnceAfterFault
  <2>4. CASE Acknowledge(handler.msg) /\ UNCHANGED faults
    <3>1. MailedOnce'
      BY <1>1, <2>1, <2>4, MailedOnceStays
    <3>2. HeldOnce'
      BY <1>1, <2>1, <2>2, <2>4 DEF HeldOnce, Acknowledge
    <3> QED
      BY <3>1, <3>2
  <2> QED
    BY <1>8, <2>3, <2>4 DEF AckMessage
<1>9. CASE AfterCallback
  <2>1. /\ UNCHANGED <<consumer, inbox, mails, hub, faults, replayed>> /\ handler.pc = "returned"
        /\ handler'.pc = "idle"
    BY <1>9 DEF AfterCallback, IdleHandler, history
  <2>2. MailedOnce'
    BY <1>1, <2>1, MailedOnceStays
  <2>3. CASE handler.answered /\ UNCHANGED <<acked, pending>>
    BY <1>1, <2>1, <2>2, <2>3 DEF HeldOnce
  <2>4. CASE ~handler.answered /\ Acknowledge(handler.msg)
    BY <1>1, <2>1, <2>2, <2>4 DEF HeldOnce, Acknowledge
  <2> QED
    BY <1>9, <2>3, <2>4 DEF AfterCallback
<1> QED
  BY <1>2, <1>3, <1>4, <1>5, <1>6, <1>7, <1>8, <1>9 DEF Handle

\* A hub that stops without a fault has no mail to acknowledge, and one that had
\* made its durable deletes it.
LEMMA OnceProcess ==
  ASSUME IInv, Start \/ Stop \/ Exit \/ Crash, TypeOK'
  PROVE  MailedOnce' /\ HeldOnce'
<1>1. TypeOK /\ MailedOnce /\ HeldOnce /\ StoppedIsQuiet
  BY DEF IInv
<1>2. UNCHANGED mails /\ (replayed => replayed') /\ (UNCHANGED faults \/ Fault)
  BY DEF Start, Stop, CancelContext, Unsubscribe, UnsubscribeFails, WaitForHandlers,
         Exit, Crash, ProcessEnds, history
<1>3. MailedOnce'
  BY <1>1, <1>2, MailedOnceStays, FaultCounted
<1>4. CASE Fault
  BY <1>1, <1>3, <1>4, FaultCounted, HeldOnceAfterFault
<1>5. CASE Start \/ CancelContext \/ WaitForHandlers
  BY <1>1, <1>3, <1>5 DEF Start, CancelContext, WaitForHandlers, HeldOnce, server, history
<1>6. CASE Unsubscribe
  BY <1>1, <1>3, <1>6 DEF Unsubscribe, HeldOnce
<1>7. CASE Exit
  <2>1. faults = 0 /\ ~replayed => handler.pc # "ack"
    BY <1>1, <1>7 DEF Exit, HeldOnce, StoppedIsQuiet
  <2>2. handler'.pc = "idle"
    BY <1>7 DEF Exit, ProcessEnds, IdleHandler
  <2>3. HeldOnce'
    BY <1>1, <1>7, <2>1, <2>2 DEF Exit, ProcessEnds, HeldOnce
  <2> QED
    BY <1>3, <2>3
<1> QED
  BY <1>4, <1>5, <1>6, <1>7 DEF Stop, UnsubscribeFails, Crash

-----------------------------------------------------------------------------
(* Every step.                                                             *)

LEMMA InitInvariant == Init => IInv
BY InitTypes DEF Init, IInv, IdleHandler, HandlerFits, HeldIsPublished, WaitGroupCounts, AckedIsSettled,
                 StoppedIsQuiet, MailedOnce, HeldOnce

LEMMA ServerStep ==
  ASSUME IInv, NEW m \in Messages, PublishMessage(m) \/ Deliver(m) \/ AckWaitExpires(m)
  PROVE  IInv'
<1>1. UNCHANGED <<handler, wg, mails, skipped, acked, hub>>
  BY DEF PublishMessage, Deliver, AckWaitExpires, history
<1>2. TypeOK'
  BY ServerTypes DEF IInv
<1>3. HandlerFits' /\ WaitGroupCounts'
  BY <1>1, HandlerAlone DEF IInv
<1>4. AckedIsSettled' /\ StoppedIsQuiet'
  BY <1>1 DEF IInv, AckedIsSettled, StoppedIsQuiet
<1> QED
  BY <1>2, <1>3, <1>4, HeldServer, OnceServer DEF IInv

LEMMA HandleStep ==
  ASSUME IInv, Handle
  PROVE  IInv'
<1>1. TypeOK'
  BY HandlerTypes DEF IInv
<1> QED
  BY <1>1, HandlerFitsStep, HeldHandle, SettledStep, QuietHandle, OnceHandle DEF IInv

LEMMA ProcessStep ==
  ASSUME IInv, Start \/ Stop \/ Exit \/ Crash
  PROVE  IInv'
<1>1. TypeOK'
  BY ProcessTypes DEF IInv
<1>2. HandlerFits' /\ WaitGroupCounts'
  <2>1. CASE Start \/ Stop
    <3>1. UNCHANGED <<handler, wg, mails, skipped>>
      BY <2>1 DEF Start, Stop, CancelContext, Unsubscribe, UnsubscribeFails,
                  WaitForHandlers, history
    <3> QED
      BY <3>1, HandlerAlone DEF IInv
  <2>2. CASE Exit \/ Crash
    BY <2>2, HandlerEnds DEF Exit, Crash
  <2> QED
    BY <2>1, <2>2
<1>3. AckedIsSettled'
  <2>1. acked' \subseteq acked /\ UNCHANGED <<mails, skipped>>
    BY DEF Start, Stop, CancelContext, Unsubscribe, UnsubscribeFails, WaitForHandlers,
           Exit, Crash, ProcessEnds, server, history
  <2> QED
    BY <2>1, SettledStays DEF IInv
<1> QED
  BY <1>1, <1>2, <1>3, HeldProcess, QuietProcess, OnceProcess DEF IInv

LEMMA StutterStep ==
  ASSUME IInv, UNCHANGED vars
  PROVE  IInv'
BY DEF vars, IInv, TypeOK, HandlerFits, HeldIsPublished, WaitGroupCounts, AckedIsSettled, StoppedIsQuiet,
       MailedOnce, HeldOnce

LEMMA NextInvariant == IInv /\ [Next]_vars => IInv'
BY ServerStep, HandleStep, ProcessStep, StutterStep DEF Next

\* The inductive invariant holds throughout.
THEOREM InductiveInvariant == Spec => []IInv
BY InitInvariant, NextInvariant, PTL DEF Spec

-----------------------------------------------------------------------------
(* The properties.                                                         *)

\* The variables have their types; the wait group never counts a second handler,
\* and never falls below zero.
THEOREM TypeCorrect == Spec => []TypeOK
<1>1. IInv => TypeOK
  BY DEF IInv
<1> QED
  BY <1>1, InductiveInvariant, PTL

\* A message that will not be delivered again was mailed, or has nobody to be
\* mailed to, or was skipped by a hub that was stopping.
THEOREM AckedSettled == Spec => []AckedIsSettled
<1>1. IInv => AckedIsSettled
  BY DEF IInv
<1> QED
  BY <1>1, InductiveInvariant, PTL

\* Without a fault and with the durable of the beginning nothing is mailed twice.
THEOREM MailedAtMostOnce == Spec => []MailedOnce
<1>1. IInv => MailedOnce
  BY DEF IInv
<1> QED
  BY <1>1, InductiveInvariant, PTL

\* After Stop has returned nothing is mailed.
THEOREM StoppedQuiet == Spec => []StoppedIsQuiet
<1>1. IInv => StoppedIsQuiet
  BY DEF IInv
<1> QED
  BY <1>1, InductiveInvariant, PTL

-----------------------------------------------------------------------------
(* What Stop waits for.                                                    *)

\* A handler that goes on while nothing can be taken comes nearer to its end.
LEMMA HandlerAdvances ==
  ASSUME TypeOK, Handle, ~TakeMessage
  PROVE  HandlerRank' < HandlerRank
<1>1. handler \in HandlerType /\ handler.notifier \in 0 .. Notifiers
  BY DEF TypeOK, HandlerType
<1>2. Notifiers \in Nat
  BY HubAssumption
<1> USE <1>1, <1>2 DEF HandlerRank, HandlerType
<1>3. CASE EnterHandler \/ LeaveHandler
  BY <1>3 DEF EnterHandler, LeaveHandler, Goto
<1>4. CASE CheckShutdown
  BY <1>4 DEF CheckShutdown, Goto
<1>5. CASE RejectEvent \/ LookUpFails
  <2>1. handler'.pc = "leave" /\ handler.pc = "work"
    BY <1>5 DEF RejectEvent, LookUpFails, NakAndLeave
  <2> QED
    BY <2>1
<1>6. CASE LookUpRecipient
  <2>1. /\ handler.pc = "work"
        /\ handler'.pc = "ack" \/ (handler'.pc = "send" /\ handler'.notifier = 1)
    BY <1>6 DEF LookUpRecipient, Goto
  <2> QED
    BY <2>1
<1>7. CASE SendMail
  BY <1>7 DEF SendMail, Goto
<1>8. CASE SendMailFails
  <2>1. /\ handler.pc = "send"
        /\ \/ handler'.pc = "leave"
           \/ handler'.pc = "send" /\ handler'.notifier = handler.notifier + 1
    BY <1>8 DEF SendMailFails, NakAndLeave
  <2> QED
    BY <2>1
<1>9. CASE AckMessage
  BY <1>9 DEF AckMessage
<1>10. CASE AfterCallback
  BY <1>10 DEF AfterCallback, IdleHandler
<1> QED
  BY <1>3, <1>4, <1>5, <1>6, <1>7, <1>8, <1>9, <1>10 DEF Handle

LEMMA StopWaitStep ==
  ASSUME IInv, [Next]_vars, hub = "waiting"
  PROVE  /\ HandlerRank' <= HandlerRank
         /\ handler' # handler => HandlerRank' < HandlerRank
<1>1. TypeOK /\ ~attached /\ handler \in HandlerType
  BY DEF IInv, HeldIsPublished, TypeOK
<1>2. Notifiers \in Nat /\ HandlerRank \in Int
  BY <1>1, HubAssumption DEF HandlerRank, HandlerType, HandlerSteps
<1>3. CASE Handle
  <2>1. ~TakeMessage
    BY <1>1 DEF TakeMessage
  <2>2. HandlerRank' < HandlerRank
    BY <1>1, <1>3, <2>1, HandlerAdvances
  <2>3. HandlerRank' \in Int
    <3>1. TypeOK'
      BY NextInvariant DEF IInv
    <3> QED
      BY <1>2, <3>1 DEF TypeOK, HandlerRank, HandlerType, HandlerSteps
  <2> QED
    BY <1>2, <2>2, <2>3
<1>4. CASE Exit \/ Crash
  <2>1. handler' = IdleHandler /\ HandlerRank' = 0
    BY <1>4 DEF Exit, Crash, ProcessEnds, IdleHandler, HandlerRank
  <2>2. handler.pc # "idle" => HandlerRank > 0
    BY <1>1, <1>2 DEF HandlerRank, HandlerType, HandlerSteps
  <2>3. handler.pc = "idle" => HandlerRank = 0 /\ handler' = handler
    BY <2>1 DEF HandlerRank, IInv, HeldIsPublished
  <2> QED
    BY <1>2, <2>1, <2>2, <2>3
<1>5. CASE UNCHANGED handler
  <2>1. HandlerRank' = HandlerRank
    BY <1>5 DEF HandlerRank
  <2> QED
    BY <1>2, <1>5, <2>1
<1> QED
  BY <1>3, <1>4, <1>5 DEF Next, PublishMessage, Deliver, AckWaitExpires, Start, Stop,
     CancelContext, Unsubscribe, UnsubscribeFails, WaitForHandlers, vars

\* While Stop waits, the handler that is still there only comes nearer to its
\* end, whether its calls succeed or fail; so Stop waits for a bounded number of
\* steps of handleMessage.
THEOREM StopWaitsBounded == Spec => StopWaitShrinks
<1>1. IInv /\ [Next]_vars =>
        [hub = "waiting" =>
           /\ HandlerRank' <= HandlerRank
           /\ handler' # handler => HandlerRank' < HandlerRank]_vars
  BY StopWaitStep
<1> QED
  BY <1>1, InductiveInvariant, PTL DEF Spec, StopWaitShrinks

-----------------------------------------------------------------------------
(* What the question service publishes.                                    *)

\* The publisher wraps the result: the hub's dto finds none of its fields, and
\* NewSessionResult refuses it, whatever the result.
LEMMA PublishedIsRefused ==
  ASSUME NEW r
  PROVE  ~IsAcceptable(PublishedEvent(r))
<1> DEFINE object == PublishedEvent(r)
<1>1. DOMAIN object = {"event_type", "payload"}
  BY DEF PublishedEvent
<1>2. Field(object, "user_id", "") = ""
  BY <1>1 DEF Field
<1>3. Unmarshal(object).user_id = ""
  BY <1>2 DEF Unmarshal
<1> QED
  BY <1>3 DEF IsAcceptable, NewSessionResultAccepts

\* A complete result in the hub's own form is accepted.
LEMMA FlatIsAccepted ==
  ASSUME NEW r, r.user # "", r.topics # {}, r.questions # {}, r.answers # {}, r.grade # ""
  PROVE  IsAcceptable(FlatEvent(r))
BY DEF FlatEvent, Field, Unmarshal, IsAcceptable, NewSessionResultAccepts

\* Fed with nothing but what the question service publishes, the hub never sends
\* a mail, and acknowledges only what it skips while it stops: every other event
\* is given back and delivered again, for ever.
THEOREM PublishedNeverMailed ==
  ASSUME \A m \in Messages : \E r : WireOf[m] = PublishedEvent(r)
  PROVE  Spec => [](\A m \in Messages : mails[m] = 0 /\ (m \in acked => m \in skipped))
<1>1. \A m \in Messages : ~IsAcceptable(WireOf[m])
  BY PublishedIsRefused
<1>2. IInv => \A m \in Messages : mails[m] = 0 /\ (m \in acked => m \in skipped)
  BY <1>1 DEF IInv, TypeOK, MailedOnce, AckedIsSettled
<1> QED
  BY <1>2, InductiveInvariant, PTL

-----------------------------------------------------------------------------
(* The refinement of EventDelivery.                                        *)

\* The phase that EventDelivery sees.
LEMMA PhasesOfHub ==
  /\ hub = "down" => DeliveryPhase = "off"
  /\ hub = "running" => DeliveryPhase = "on"
  /\ hub \in {"cancelled", "waiting", "failed"} => DeliveryPhase = "stopping"
  /\ hub = "stopped" => DeliveryPhase = "stopped"
BY DEF DeliveryPhase

\* Steps that EventDelivery does not see.
LEMMA DeliveryStutters ==
  ASSUME UNCHANGED <<stream, mails, skipped, acked, hub>>
  PROVE  UNCHANGED Delivery!vars
BY DEF DeliveryTold, DeliveryPhase, Delivery!vars

LEMMA DeliveryInit == Init => Delivery!Init
<1> SUFFICES ASSUME Init PROVE Delivery!Init
  OBVIOUS
<1>1. DeliveryTold = {}
  BY DEF Init, DeliveryTold
<1> QED
  BY <1>1, PhasesOfHub DEF Init, Delivery!Init

\* A counted mail is an event told.
LEMMA MailTells ==
  ASSUME TypeOK, NEW m \in Messages, CountMail(m)
  PROVE  DeliveryTold' = DeliveryTold \cup {m}
BY MailCounted DEF DeliveryTold

LEMMA ServerRefines ==
  ASSUME NEW m \in Messages, PublishMessage(m) \/ Deliver(m) \/ AckWaitExpires(m)
  PROVE  [Delivery!Next]_(Delivery!vars)
<1>1. CASE PublishMessage(m)
  <2>1. UNCHANGED <<DeliveryTold, skipped, acked, DeliveryPhase>>
    BY <1>1 DEF PublishMessage, history, DeliveryTold, DeliveryPhase
  <2>2. Delivery!Publish(m)
    BY <1>1, <2>1 DEF PublishMessage, Delivery!Publish
  <2> QED
    BY <2>2 DEF Delivery!Next
<1>2. CASE Deliver(m) \/ AckWaitExpires(m)
  BY <1>2, DeliveryStutters DEF Deliver, AckWaitExpires, history
<1> QED
  BY <1>1, <1>2

\* The hub tells while it runs or is being stopped.
LEMMA SendRefines ==
  ASSUME IInv, SendMail \/ SendMailFails
  PROVE  [Delivery!Next]_(Delivery!vars)
<1> DEFINE m == handler.msg
<1>1. /\ m \in Messages /\ m \in stream /\ m \in DeliveryTelling
      /\ hub \notin {"down", "stopped"}
  BY DEF SendMail, SendMailFails, IInv, HandlerFits, HeldIsPublished, StoppedIsQuiet,
         DeliveryTelling
<1>2. UNCHANGED <<stream, skipped, acked, hub>>
  BY DEF SendMail, SendMailFails, NakAndLeave, Reject, server
<1>3. CASE UNCHANGED mails
  BY <1>2, <1>3, DeliveryStutters
<1>4. CASE CountMail(m)
  <2>1. DeliveryTold' = DeliveryTold \cup {m}
    <3>1. PICK n : n = m
      OBVIOUS
    <3>2. DeliveryTold' = DeliveryTold \cup {n}
      BY <1>1, <1>4, <3>1, MailTells DEF IInv
    <3> QED
      BY <3>1, <3>2
  <2>2. DeliveryPhase \in {"on", "stopping"} /\ UNCHANGED DeliveryPhase
    BY <1>1, <1>2, PhasesOfHub DEF IInv, TypeOK, DeliveryPhase
  <2>3. Delivery!Tell(m)
    BY <1>1, <1>2, <2>1, <2>2 DEF Delivery!Tell
  <2> QED
    BY <1>1, <2>3 DEF Delivery!Next
<1> QED
  BY <1>3, <1>4 DEF SendMail, SendMailFails

\* What is acknowledged was told, needs no telling, or was passed over.
LEMMA SettleRefines ==
  ASSUME IInv, AckMessage \/ AfterCallback
  PROVE  [Delivery!Next]_(Delivery!vars)
<1> DEFINE m == handler.msg
<1>1. m \in Messages /\ m \in stream /\ hub # "down"
  BY DEF AckMessage, AfterCallback, IInv, HandlerFits, HeldIsPublished
<1>2. UNCHANGED <<stream, skipped, mails, hub>>
  BY DEF AckMessage, AfterCallback, history
<1>3. CASE UNCHANGED acked
  BY <1>2, <1>3, DeliveryStutters
<1>4. CASE acked' # acked
  <2>1. acked' = acked \cup {m}
    BY <1>4 DEF AckMessage, AfterCallback, Acknowledge
  <2>2. m \in DeliveryTold \cup skipped \cup (stream \cap DeliverySilent)
    BY <1>1, <1>4 DEF AckMessage, AfterCallback, IInv, HandlerFits, DeliveryTold, DeliverySilent
  <2>3. DeliveryPhase # "off" /\ UNCHANGED <<DeliveryPhase, DeliveryTold>>
    BY <1>1, <1>2, PhasesOfHub DEF IInv, TypeOK, DeliveryPhase, DeliveryTold
  <2>4. Delivery!Settle(m)
    BY <1>2, <2>1, <2>2, <2>3 DEF Delivery!Settle
  <2> QED
    BY <1>1, <2>4 DEF Delivery!Next
<1> QED
  BY <1>3, <1>4

LEMMA HandleRefines ==
  ASSUME IInv, Handle
  PROVE  [Delivery!Next]_(Delivery!vars)
<1>1. CASE TakeMessage \/ EnterHandler \/ RejectEvent \/ LookUpRecipient \/ LookUpFails
           \/ LeaveHandler
  <2>1. UNCHANGED <<stream, mails, skipped, acked, hub>>
    BY <1>1 DEF TakeMessage, EnterHandler, RejectEvent, LookUpRecipient, LookUpFails,
                LeaveHandler, NakAndLeave, Reject, server, history
  <2> QED
    BY <2>1, DeliveryStutters
<1>2. CASE CheckShutdown
  <2>1. UNCHANGED <<stream, mails, acked, hub>>
    BY <1>2 DEF CheckShutdown, server
  <2>2. CASE hub = "running"
    BY <1>2, <2>1, <2>2, DeliveryStutters DEF CheckShutdown
  <2>3. CASE hub # "running"
    <3>1. /\ handler.msg \in Messages /\ handler.msg \in stream /\ hub # "down"
          /\ skipped' = skipped \cup {handler.msg}
      BY <1>2, <2>3 DEF CheckShutdown, IInv, HandlerFits, HeldIsPublished
    <3>2. DeliveryPhase \in {"stopping", "stopped"} /\ UNCHANGED <<DeliveryPhase, DeliveryTold>>
      BY <2>1, <2>3, <3>1, PhasesOfHub DEF IInv, TypeOK, DeliveryPhase, DeliveryTold
    <3>3. Delivery!PassOver(handler.msg)
      BY <2>1, <3>1, <3>2 DEF Delivery!PassOver
    <3> QED
      BY <3>1, <3>3 DEF Delivery!Next
  <2> QED
    BY <2>2, <2>3
<1> QED
  BY <1>1, <1>2, SendRefines, SettleRefines DEF Handle

LEMMA ProcessRefines ==
  ASSUME IInv, Start \/ Stop \/ Exit \/ Crash
  PROVE  [Delivery!Next]_(Delivery!vars)
<1>1. UNCHANGED <<stream, mails, skipped, DeliveryTold>>
  BY DEF Start, Stop, CancelContext, Unsubscribe, UnsubscribeFails, WaitForHandlers, Exit, Crash,
         ProcessEnds, server, history, DeliveryTold
<1> USE PhasesOfHub
<1>2. CASE Start \/ CancelContext \/ WaitForHandlers \/ Exit \/ Crash
  <2>1. UNCHANGED acked
    BY <1>2 DEF Start, CancelContext, WaitForHandlers, Exit, Crash, ProcessEnds, server
  <2>2. CASE Start
    <3>1. DeliveryPhase = "off" /\ DeliveryPhase' = "on"
      BY <2>2 DEF Start, DeliveryPhase
    <3> QED
      BY <1>1, <2>1, <3>1 DEF Delivery!Next, Delivery!SwitchOn, Delivery!Move
  <2>3. CASE CancelContext
    <3>1. DeliveryPhase = "on" /\ DeliveryPhase' = "stopping"
      BY <2>3 DEF CancelContext, DeliveryPhase
    <3> QED
      BY <1>1, <2>1, <3>1 DEF Delivery!Next, Delivery!BeginStop, Delivery!Move
  <2>4. CASE WaitForHandlers
    <3>1. DeliveryPhase = "stopping" /\ DeliveryPhase' = "stopped"
      BY <2>4 DEF WaitForHandlers, DeliveryPhase
    <3> QED
      BY <1>1, <2>1, <3>1 DEF Delivery!Next, Delivery!EndStop, Delivery!Move
  <2>5. CASE Exit \/ Crash
    <3>1. DeliveryPhase \in {"on", "stopping", "stopped"} /\ DeliveryPhase' = "off"
      BY <2>5 DEF Exit, Crash, ProcessEnds, DeliveryPhase, IInv, TypeOK
    <3> QED
      BY <1>1, <2>1, <3>1 DEF Delivery!Next, Delivery!SwitchOff, Delivery!Move
  <2> QED
    BY <1>2, <2>2, <2>3, <2>4, <2>5
<1>3. CASE Unsubscribe \/ UnsubscribeFails
  <2>1. DeliveryPhase = "stopping" /\ DeliveryPhase' = "stopping"
    BY <1>3 DEF Unsubscribe, UnsubscribeFails, DeliveryPhase
  <2>2. acked' = {} \/ UNCHANGED acked
    BY <1>3 DEF Unsubscribe, UnsubscribeFails, server
  <2> QED
    BY <1>1, <2>1, <2>2 DEF Delivery!Next, Delivery!Forget, Delivery!vars
<1> QED
  BY <1>2, <1>3 DEF Stop

LEMMA DeliveryNext == IInv /\ [Next]_vars => [Delivery!Next]_(Delivery!vars)
<1> SUFFICES ASSUME IInv, [Next]_vars PROVE [Delivery!Next]_(Delivery!vars)
  OBVIOUS
<1>1. CASE UNCHANGED vars
  BY <1>1, DeliveryStutters DEF vars
<1> QED
  BY <1>1, ServerRefines, HandleRefines, ProcessRefines DEF Next

\* The hub is an implementation of EventDelivery: nobody is told of an event that
\* was not published, or after Stop has returned, and an event is settled only
\* once it was told, was passed over, or needs no telling.
THEOREM HubImplementsDelivery == Spec => ImplementsDelivery
<1>1. Spec => [][Delivery!Next]_(Delivery!vars)
  BY InductiveInvariant, DeliveryNext, PTL DEF Spec
<1> QED
  BY <1>1, DeliveryInit, PTL DEF Spec, ImplementsDelivery, Delivery!Spec
=============================================================================
