------------------------------ MODULE EventWire ------------------------------
(***************************************************************************)
(* A finished session on the wire: what the question service marshals into *)
(* its event, and what the notification hub unmarshals and accepts.        *)
(* Sources: question/internal/adapter/message_broker/nats, the hub's       *)
(* pkg/dto and internal/entities.                                          *)
(*                                                                         *)
(* A JSON object is a function from its keys to values; the lists and maps *)
(* of the code are sets.                                                   *)
(***************************************************************************)

(* SessionFinishedEvent of the question service's publisher.                *)
PublishedEvent(r) ==
  [event_type |-> "SessionResultEvent",
   payload |-> [user_id |-> r.user, topics |-> r.topics, questions |-> r.questions,
                user_answers |-> r.answers, is_expire |-> r.expired,
                is_success |-> r.passed, grade |-> r.grade]]

(* The hub's own dto.SessionFinishedEvent as a JSON object.                 *)
FlatEvent(r) ==
  [user_id |-> r.user, topics |-> r.topics, questions |-> r.questions,
   user_answer |-> r.answers, is_expire |-> r.expired, is_success |-> r.passed,
   resume |-> r.grade]

(* encoding/json: a field takes the value of its key, or keeps its zero     *)
(* value; keys without a field are dropped.                                 *)
Field(object, key, zero) == IF key \in DOMAIN object THEN object[key] ELSE zero

(* The fields NewSessionResult looks at.                                    *)
Unmarshal(object) ==
  [user_id |-> Field(object, "user_id", ""), topics |-> Field(object, "topics", {}),
   questions |-> Field(object, "questions", {}),
   user_answer |-> Field(object, "user_answer", {}),
   resume |-> Field(object, "resume", "")]

NewSessionResultAccepts(event) ==
  /\ event.user_id # ""
  /\ event.topics # {}
  /\ event.questions # {}
  /\ event.user_answer # {}
  /\ event.resume # ""

IsAcceptable(object) == NewSessionResultAccepts(Unmarshal(object))
=============================================================================
