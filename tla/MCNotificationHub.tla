-------------------------- MODULE MCNotificationHub --------------------------
EXTENDS NotificationHub

MCResult ==
  [user |-> "u1", topics |-> {"t1"}, questions |-> {"q1"}, answers |-> {"q1"},
   expired |-> FALSE, passed |-> TRUE, grade |-> "100.00 percents"]

\* Two events as the hub's dto defines them, and one as the question service
\* publishes it.
MCMixedWire ==
  [m \in Messages |-> IF m = "published" THEN PublishedEvent(MCResult)
                      ELSE FlatEvent(MCResult)]

MCPublishedWire == [m \in Messages |-> PublishedEvent(MCResult)]
=============================================================================
