------------------------------ MODULE Accounts ------------------------------
(***************************************************************************)
(* What auth promises of its users, with no rows, tokens, passwords and    *)
(* clock.  A user becomes a member once and leaves once, for ever.  Whoever*)
(* signs in or is let in is a member at one moment of the request, between *)
(* its arrival and its effect, and only those who were ever granted access *)
(* ask to be let in.  Names are left out: the service does not keep them   *)
(* apart (DuplicateNamesOnlyInWindow of AuthUsers).                        *)
(***************************************************************************)
CONSTANTS
  Requests,   \* a request that adds a user is also the user it adds
  Users,
  Seeded,     \* the members of the beginning
  Nobody      \* the subject of a request that speaks for no user

VARIABLES
  members,
  former,     \* the users who have left
  granted,    \* the users who were ever granted access
  stage,      \* request -> how far it is
  subject,    \* request -> the user it speaks for
  served      \* the requests that were served

vars == <<members, former, granted, stage, subject, served>>

Init ==
  /\ members = Seeded
  /\ former = {}
  /\ granted = {}
  /\ stage = [r \in Requests |-> "new"]
  /\ subject = [r \in Requests |-> Nobody]
  /\ served = {}

Move(r, from, to, user) ==
  /\ stage[r] = from
  /\ stage' = [stage EXCEPT ![r] = to]
  /\ subject' = [subject EXCEPT ![r] = user]

Identify(r, user) ==
  /\ user \in members
  /\ Move(r, "new", "identified", user)
  /\ UNCHANGED <<members, former, granted, served>>

Grant(r) ==
  /\ Move(r, "identified", "over", Nobody)
  /\ granted' = granted \cup {subject[r]}
  /\ UNCHANGED <<members, former, served>>

Present(r, user) ==
  /\ user \in granted
  /\ Move(r, "new", "presented", user)
  /\ UNCHANGED <<members, former, granted, served>>

Admit(r) ==
  /\ subject[r] \in members
  /\ Move(r, "presented", "admitted", subject[r])
  /\ UNCHANGED <<members, former, granted, served>>

Serve(r) ==
  /\ subject[r] \in members
  /\ Move(r, "presented", "over", Nobody)
  /\ served' = served \cup {r}
  /\ UNCHANGED <<members, former, granted>>

Add(r) ==
  /\ r \notin members \cup former
  /\ Move(r, "admitted", "over", Nobody)
  /\ members' = members \cup {r}
  /\ UNCHANGED <<former, granted, served>>

Remove(r, user) ==
  /\ user \in members
  /\ Move(r, "admitted", "over", Nobody)
  /\ members' = members \ {user}
  /\ former' = former \cup {user}
  /\ UNCHANGED <<granted, served>>

End(r) ==
  /\ stage[r] # "over"
  /\ Move(r, stage[r], "over", Nobody)
  /\ UNCHANGED <<members, former, granted, served>>

Next ==
  \E r \in Requests :
    \/ \E user \in Users : Identify(r, user) \/ Present(r, user) \/ Remove(r, user)
    \/ Grant(r) \/ Admit(r) \/ Serve(r) \/ Add(r)
    \/ End(r)

Spec == Init /\ [][Next]_vars
=============================================================================
