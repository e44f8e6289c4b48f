----------------------------- MODULE MCAuthUsers -----------------------------
EXTENDS AuthUsers, TLC

CONSTANTS admin, student, root, ann, secret, other

MCRights == {"admin", "start_session"}

\* The seeded administrator, and a student.
MCSeedRows ==
  <<[uid |-> admin, name |-> root, password |-> secret, rights |-> MCRights],
    [uid |-> student, name |-> ann, password |-> other, rights |-> {"start_session"}]>>

\* The administrator's own credentials, ann's with the wrong and with the right
\* password, and a body without a login.
MCForms ==
  {[name |-> root, password |-> secret, rights |-> MCRights],
   [name |-> ann, password |-> secret, rights |-> {"start_session"}],
   [name |-> ann, password |-> other, rights |-> {}],
   [name |-> Blank, password |-> secret, rights |-> {}]}

RequestSymmetry == Permutations(Requests)
=============================================================================
