------------------------------ MODULE AuthUsers ------------------------------
(***************************************************************************)
(* The auth service and the gate it keeps for the question service.        *)
(* Concurrent requests sign in, add and delete users over the table        *)
(* auth.users, and ask the question service to serve them, which asks auth *)
(* over gRPC who holds the token.  Sources: auth/internal/cases/common,    *)
(* the Postgres and JWT adapters, auth/internal/port, and the introspection*)
(* of question/internal/port/http/public.                                  *)
(*                                                                         *)
(* A request is a process with one step per call of the storage.  A request*)
(* that adds a user is also the name of the uid it generates.              *)
(***************************************************************************)
EXTENDS Integers, Sequences, FiniteSets

CONSTANTS
  Requests,       \* the requests of one behaviour
  SeedUsers,      \* the uids of the seeded rows
  SeedRows,       \* the rows the migrations insert
  Forms,          \* the login, password and rights a client may send
  Blank,          \* an empty login, and the password of no request
  Nobody,         \* the subject of no token
  Rights,
  AdminRight,     \* the right to add and delete users
  UseRight,       \* the right one handler of the question service asks for
  TokenLifetime,  \* tokenValidityPeriod
  Instants        \* the readings of the clock

UserIds == Requests \cup SeedUsers

Row == [uid : UserIds, name : {f.name : f \in Forms},
        password : {f.password : f \in Forms}, rights : SUBSET Rights]

NoForm == [name |-> Blank, password |-> Blank, rights |-> {}]

ASSUME AuthAssumption ==
  /\ Requests \cap SeedUsers = {}
  /\ Nobody \notin UserIds
  /\ TokenLifetime \in Nat \ {0}
  /\ Instants \subseteq Nat
  /\ AdminRight \in Rights /\ UseRight \in Rights
  /\ \A f \in Forms : DOMAIN f = {"name", "password", "rights"} /\ f.rights \subseteq Rights
  /\ SeedRows \in Seq(Row)
  /\ \A i \in DOMAIN SeedRows : SeedRows[i].uid \in SeedUsers
  /\ \A i, j \in DOMAIN SeedRows :
       SeedRows[i].uid = SeedRows[j].uid \/ SeedRows[i].name = SeedRows[j].name => i = j

VARIABLES
  clock,
  inserted,   \* every row auth.users ever held, in the order of its commit
  deleted,    \* <<uid, request>>: who removed which user
  tokens,     \* the JWTs clients hold
  requests    \* request -> its program counter, input, locals and reply

vars == <<clock, inserted, deleted, tokens, requests>>

-----------------------------------------------------------------------------
(* The table and the tokens.                                               *)

Removed(uid) == \E r \in Requests : <<uid, r>> \in deleted

Live(i) == ~Removed(inserted[i].uid)

(* GetUserByID and GetUserByUsername: LIMIT 1 over no unique column.        *)
RowsOfUser(uid) == {i \in DOMAIN inserted : inserted[i].uid = uid /\ Live(i)}
RowsNamed(name) == {i \in DOMAIN inserted : inserted[i].name = name /\ Live(i)}

\* A slip: AND for OR in the query of StoreUser.
IsTakenByBoth(uid, name) == RowsOfUser(uid) \cap RowsNamed(name) # {}

\* A slip: the lookup sees users that are gone.
IsTakenForEver(uid, name) ==
  \E i \in DOMAIN inserted : inserted[i].uid = uid \/ inserted[i].name = name

(* The check of StoreUser.                                                  *)
IsTaken(uid, name) == RowsOfUser(uid) \cup RowsNamed(name) # {}

NoToken == [sub |-> Nobody, rights |-> {}, exp |-> 0]

\* A slip: the subject is the name.
TokenForName(row, now) ==
  [sub |-> row.name, rights |-> row.rights, exp |-> now + TokenLifetime]

(* Generate.                                                                *)
TokenFor(row, now) ==
  [sub |-> row.uid, rights |-> row.rights, exp |-> now + TokenLifetime]

(* Provider.Introspect: only the expiry of a token can be wrong, since the  *)
(* tokens of this module are the ones that were issued.                     *)
IsValid(token, now) == now < token.exp

\* A slip: the claims are trusted, the user is not looked up.
IntrospectAcceptsClaims(token) == TRUE

(* IntrospectCommand.Exec after the token was parsed: the user is there and *)
(* still has every right of the token.                                      *)
IntrospectAccepts(token) ==
  \E i \in RowsOfUser(token.sub) : token.rights \subseteq inserted[i].rights

-----------------------------------------------------------------------------
(* Requests.                                                               *)

NewRequest ==
  [kind |-> "none", pc |-> "idle", token |-> NoToken, form |-> NoForm,
   target |-> Nobody, row |-> 0, checked |-> 0, gone |-> {}, sent |-> 0,
   reply |-> "none"]

Kinds == {"none", "signin", "add", "delete", "use"}

Replies == {"none", "token", "created", "deleted", "served", "conflict", "forbidden",
            "not found", "invalid parameter", "internal", "aborted"}

\* Steps that call the storage, and the two that do not.
Calling == {"caller", "lookup", "check", "insert", "remove", "account"}
Waiting == Calling \cup {"token", "sign"}

Goto(r, pc) == requests' = [requests EXCEPT ![r].pc = pc]

Answer(r, reply) ==
  requests' = [requests EXCEPT ![r].pc = "done", ![r].reply = reply]

(* A request arrives.  gone and sent (history variables) are the users that *)
(* had been deleted and the time at that moment.                            *)
Arrive(r, kind, pc, token, form, target) ==
  /\ requests[r].pc = "idle"
  /\ requests' = [requests EXCEPT ![r] =
       [kind |-> kind, pc |-> pc, token |-> token, form |-> form, target |-> target,
        row |-> 0, checked |-> 0, gone |-> {uid \in UserIds : Removed(uid)},
        sent |-> clock, reply |-> "none"]]
  /\ UNCHANGED <<clock, inserted, deleted, tokens>>

(* The user ids a client can name: those of rows that were committed.       *)
KnownUsers == {inserted[i].uid : i \in DOMAIN inserted}

\* No header or an unreadable one, a body without a login or none at all.
RefuseRequest(r) ==
  /\ requests[r].pc = "idle"
  /\ \E reply \in {"forbidden", "invalid parameter"} : Answer(r, reply)
  /\ UNCHANGED <<clock, inserted, deleted, tokens>>

-----------------------------------------------------------------------------
(* Signing in.                                                             *)

FindAccount(r) ==
  LET rows == RowsNamed(requests[r].form.name)
  IN /\ requests[r].pc = "account"
     /\ \/ rows = {} /\ Answer(r, "not found")
        \/ \E i \in rows :
             requests' = [requests EXCEPT ![r].pc = "sign", ![r].row = i]
     /\ UNCHANGED <<clock, inserted, deleted, tokens>>

(* The password is compared and the token made, without looking at the table.*)
SignToken(r) ==
  LET row == inserted[requests[r].row]
  IN /\ requests[r].pc = "sign"
     /\ IF row.password = requests[r].form.password
          THEN /\ tokens' = tokens \cup {TokenFor(row, clock)}
               /\ Answer(r, "token")
          ELSE /\ UNCHANGED tokens
               /\ Answer(r, "internal")
     /\ UNCHANGED <<clock, inserted, deleted>>

-----------------------------------------------------------------------------
(* The gate: getValidatedAuthContext of auth, introspectMiddleware and      *)
(* checkUserRights of the question service.                                 *)

(* What a refused introspection is answered with: the question service      *)
(* tells every reason as forbidden.                                         *)
Refusal(r, reply) == IF requests[r].kind = "use" THEN "forbidden" ELSE reply

VerifyToken(r) ==
  /\ requests[r].pc = "token"
  /\ IF IsValid(requests[r].token, clock)
       THEN Goto(r, "caller")
       ELSE Answer(r, Refusal(r, "internal"))
  /\ UNCHANGED <<clock, inserted, deleted, tokens>>

RequiredRight(kind) == IF kind = "use" THEN UseRight ELSE AdminRight

(* What the handler does next, or replies, once the request has passed.     *)
Admit(r) ==
  \/ requests[r].kind = "use" /\ Answer(r, "served")
  \/ requests[r].kind = "delete" /\ Goto(r, "remove")
  \/ /\ requests[r].kind = "add"
     /\ IF requests[r].form.name = Blank
          THEN Answer(r, "invalid parameter")
          ELSE Goto(r, "lookup")

LoadCaller(r) ==
  LET token == requests[r].token
  IN /\ requests[r].pc = "caller"
     /\ IF ~IntrospectAccepts(token)
          THEN Answer(r, Refusal(r, IF RowsOfUser(token.sub) = {}
                                      THEN "not found" ELSE "forbidden"))
        ELSE IF RequiredRight(requests[r].kind) \notin token.rights
          THEN Answer(r, "forbidden")
        ELSE Admit(r)
     /\ UNCHANGED <<clock, inserted, deleted, tokens>>

-----------------------------------------------------------------------------
(* Adding and deleting users.                                              *)

(* AddUserCommand.Exec: GetUserByUsername.                                  *)
LookUpName(r) ==
  /\ requests[r].pc = "lookup"
  /\ IF RowsNamed(requests[r].form.name) # {}
       THEN Answer(r, "conflict")
       ELSE Goto(r, "check")
  /\ UNCHANGED <<clock, inserted, deleted, tokens>>

(* StoreUser: the transaction begins and looks for the uid and the name.    *)
(* checked (a history variable) is the number of rows it could have seen.   *)
CheckTaken(r) ==
  /\ requests[r].pc = "check"
  /\ IF IsTaken(r, requests[r].form.name)
       THEN Answer(r, "conflict")
       ELSE requests' = [requests EXCEPT ![r].pc = "insert",
                                         ![r].checked = Len(inserted)]
  /\ UNCHANGED <<clock, inserted, deleted, tokens>>

\* Begin fails: the deferred rollback is called on no transaction, and the
\* handler panics.
BeginFails(r) ==
  /\ requests[r].pc = "check"
  /\ Answer(r, "aborted")
  /\ UNCHANGED <<clock, inserted, deleted, tokens>>

(* The insert becomes visible with the commit, whose answer may be lost.    *)
CommitUser(r) ==
  LET form == requests[r].form
  IN /\ requests[r].pc = "insert"
     /\ inserted' = Append(inserted, [uid |-> r, name |-> form.name,
                             password |-> form.password, rights |-> form.rights])
     /\ \E reply \in {"created", "internal"} : Answer(r, reply)
     /\ UNCHANGED <<clock, deleted, tokens>>

\* A slip: the number of removed rows is not looked at.
RemoveUserBlindly(r) ==
  /\ requests[r].pc = "remove"
  /\ deleted' = IF RowsOfUser(requests[r].target) # {}
                  THEN deleted \cup {<<requests[r].target, r>>} ELSE deleted
  /\ \E reply \in {"deleted", "internal"} : Answer(r, reply)
  /\ UNCHANGED <<clock, inserted, tokens>>

(* The DELETE; its answer may be lost.                                      *)
RemoveUser(r) ==
  LET uid == requests[r].target
  IN /\ requests[r].pc = "remove"
     /\ IF RowsOfUser(uid) # {}
          THEN /\ deleted' = deleted \cup {<<uid, r>>}
               /\ \E reply \in {"deleted", "internal"} : Answer(r, reply)
          ELSE /\ UNCHANGED deleted
               /\ Answer(r, "not found")
     /\ UNCHANGED <<clock, inserted, tokens>>

-----------------------------------------------------------------------------

(* A call of the storage fails, or its context has expired, without effect. *)
CallFails(r) ==
  /\ requests[r].pc \in Calling
  /\ Answer(r, Refusal(r, "internal"))
  /\ UNCHANGED <<clock, inserted, deleted, tokens>>

Tick ==
  /\ \E t \in Instants : t > clock /\ clock' = t
  /\ UNCHANGED <<inserted, deleted, tokens, requests>>

Begin(r) ==
  \/ RefuseRequest(r)
  \/ \E form \in Forms :
       form.name # Blank /\ Arrive(r, "signin", "account", NoToken, form, Nobody)
  \/ \E token \in tokens :
       \/ \E form \in Forms : Arrive(r, "add", "token", token, form, Nobody)
       \/ \E uid \in KnownUsers : Arrive(r, "delete", "token", token, NoForm, uid)
       \/ Arrive(r, "use", "token", token, NoForm, Nobody)

Serve(r) ==
  \/ FindAccount(r) \/ SignToken(r)
  \/ VerifyToken(r) \/ LoadCaller(r)
  \/ LookUpName(r) \/ CheckTaken(r) \/ BeginFails(r) \/ CommitUser(r)
  \/ RemoveUser(r)
  \/ CallFails(r)

Init ==
  /\ clock \in {t \in Instants : \A u \in Instants : t <= u}
  /\ inserted = SeedRows
  /\ deleted = {}
  /\ tokens = {}
  /\ requests = [r \in Requests |-> NewRequest]

Next == Tick \/ \E r \in Requests : Begin(r) \/ Serve(r)

Spec == Init /\ [][Next]_vars

-----------------------------------------------------------------------------
(* Types.                                                                  *)

TokenType == [sub : UserIds, rights : SUBSET Rights, exp : Nat]

RequestType ==
  [kind : Kinds, pc : {"idle", "done"} \cup Waiting, token : TokenType \cup {NoToken},
   form : Forms \cup {NoForm}, target : UserIds \cup {Nobody}, row : Nat,
   checked : Nat, gone : SUBSET UserIds, sent : Nat, reply : Replies]

TypeOK ==
  /\ clock \in Nat
  /\ inserted \in Seq(Row)
  /\ deleted \subseteq UserIds \X Requests
  /\ tokens \subseteq TokenType
  /\ requests \in [Requests -> RequestType]

-----------------------------------------------------------------------------
(* Properties.                                                             *)

\* Two users of one name stand in the table together only when the second was
\* checked before the first was committed: the window between the SELECT and
\* the commit of StoreUser is the only way past its ErrAlreadyExists, over a
\* table whose name column is not unique.
DuplicateNamesOnlyInWindow ==
  \A i, j \in DOMAIN inserted :
    i < j /\ inserted[i].name = inserted[j].name /\ Live(i) =>
      requests[inserted[j].uid].checked < i

\* The effects of a request that must pass the gate.
HasEffect(r) ==
  \/ requests[r].reply = "served"
  \/ \E i \in DOMAIN inserted : inserted[i].uid = r
  \/ \E uid \in UserIds : <<uid, r>> \in deleted

\* No user is added or deleted and no question is served for a token whose
\* holder had been deleted, or which had expired, when the request arrived, even
\* if the name was given to a new user since: deletion and expiry bite at once
\* for every request that was not already in flight.
NoEffectAfterDeletion ==
  \A r \in Requests : HasEffect(r) =>
    /\ requests[r].token.sub \notin requests[r].gone
    /\ requests[r].sent < requests[r].token.exp

\* A client that is told its name is taken is told so because of a user of that
\* name who was there at some moment while the request ran: neither a deleted
\* user nor the request's own uid blocks a name.
ConflictIsJustified ==
  \A r \in Requests : requests[r].reply = "conflict" =>
    \E i \in DOMAIN inserted :
      /\ inserted[i].name = requests[r].form.name
      /\ inserted[i].uid \notin requests[r].gone

\* However many requests to delete one user overlap, fail or are repeated, at
\* most one is told that it deleted the user, and it did.
DeletedOnce ==
  \A r, q \in Requests :
    /\ requests[r].reply = "deleted" => <<requests[r].target, r>> \in deleted
    /\ /\ requests[r].reply = "deleted" /\ requests[q].reply = "deleted"
       /\ requests[r].target = requests[q].target
       => r = q

-----------------------------------------------------------------------------
(* The inductive invariant: what holds of a request r whose record is q.   *)

\* The steps past the gate that lead to an effect on the table.
Admitted == {"lookup", "check", "insert", "remove"}

\* A request that has not been answered has replied nothing; only requests that
\* add come to the steps of adding, with a form, and only those that delete to
\* the removal, with a user; the row found for signing in is there.
ProgressFits(q) ==
  /\ q.pc # "done" => q.reply = "none"
  /\ q.pc \in {"lookup", "check", "insert"} => q.kind = "add"
  /\ q.pc = "remove" => q.kind = "delete"
  /\ q.kind = "add" => q.form \in Forms
  /\ q.kind = "delete" => q.target \in UserIds
  /\ q.pc = "sign" => q.row \in DOMAIN inserted

\* What the request saw when it arrived has not become undone since.
HistoryIsPast(q) ==
  /\ q.sent <= clock
  /\ q.checked <= Len(inserted)
  /\ \A uid \in q.gone : Removed(uid)

AddedBy(r) == {i \in DOMAIN inserted : inserted[i].uid = r}
RemovedBy(r) == {uid \in UserIds : <<uid, r>> \in deleted}

\* The effects of a request are its last step, and what it replies is true.
EffectsFit(r, q) ==
  /\ AddedBy(r) # {} => q.pc = "done"
  /\ \A uid \in RemovedBy(r) : q.pc = "done" /\ q.target = uid
  /\ q.reply = "deleted" => q.target \in RemovedBy(r)
  /\ q.reply = "conflict" =>
       \E i \in DOMAIN inserted :
         inserted[i].name = q.form.name /\ inserted[i].uid \notin q.gone

\* A request past VerifyToken had a token that was not expired, and one past
\* LoadCaller a holder who was not deleted, when it arrived.
GateWasPassed(r, q) ==
  LET past == q.pc \in Admitted \/ q.reply = "served"
              \/ AddedBy(r) # {} \/ RemovedBy(r) # {}
  IN /\ q.pc = "caller" \/ past => q.sent < q.token.exp
     /\ past => q.token.sub \notin q.gone

\* The rows that a request about to insert could see when it checked the name do
\* not have it, unless they are gone; those of the same name are newer.
NameWasFree(r, q) ==
  /\ q.pc = "insert" =>
       \A i \in DOMAIN inserted :
         inserted[i].name = q.form.name /\ Live(i) => q.checked < i
  /\ \A j \in AddedBy(r) : \A i \in 1 .. j - 1 :
       inserted[i].name = inserted[j].name /\ Live(i) => q.checked < i

RequestFits(r, q) ==
  /\ ProgressFits(q)
  /\ HistoryIsPast(q)
  /\ EffectsFit(r, q)
  /\ GateWasPassed(r, q)
  /\ NameWasFree(r, q)

\* The seeded rows come first, nobody is removed twice, nor without a row.
TableFits ==
  /\ \A i \in DOMAIN SeedRows : i \in DOMAIN inserted /\ inserted[i] = SeedRows[i]
  /\ \A i \in DOMAIN inserted :
       inserted[i].uid \in SeedUsers => i \in DOMAIN SeedRows
  /\ \A uid \in UserIds : \A r, q \in Requests :
       <<uid, r>> \in deleted /\ <<uid, q>> \in deleted => r = q
  /\ \A uid \in UserIds, r \in Requests :
       <<uid, r>> \in deleted => \E i \in DOMAIN inserted : inserted[i].uid = uid

\* What a request in flight knows is still what it was let through with, and
\* every effect and reply has its request: the strengthening the properties
\* above follow from.
IInv ==
  /\ TypeOK
  /\ TableFits
  /\ \A r \in Requests : RequestFits(r, requests[r])

-----------------------------------------------------------------------------
(* auth as an implementation of Accounts: a member is a user with a row that*)
(* is there, and a request speaks for the user whose row or token it holds. *)

StageOf(q) ==
  CASE q.pc \in {"idle", "account"} -> "new"
    [] q.pc = "sign" -> "identified"
    [] q.pc \in {"token", "caller"} -> "presented"
    [] q.pc \in Admitted -> "admitted"
    [] q.pc = "done" -> "over"

SubjectOf(q) ==
  IF q.pc = "sign" THEN inserted[q.row].uid
  ELSE IF StageOf(q) \in {"presented", "admitted"} THEN q.token.sub ELSE Nobody

AccountMembers == {uid \in UserIds : RowsOfUser(uid) # {}}
AccountFormer == {uid \in UserIds : Removed(uid)}
AccountGranted == {token.sub : token \in tokens}
AccountStage == [r \in Requests |-> StageOf(requests[r])]
AccountSubject == [r \in Requests |-> SubjectOf(requests[r])]
AccountServed == {r \in Requests : requests[r].reply = "served"}
AccountSeeded == {SeedRows[i].uid : i \in DOMAIN SeedRows}

Account ==
  INSTANCE Accounts WITH
    Users <- UserIds, Seeded <- AccountSeeded,
    members <- AccountMembers, former <- AccountFormer, granted <- AccountGranted,
    stage <- AccountStage, subject <- AccountSubject, served <- AccountServed

\* auth implements Accounts: however requests overlap and fail, whoever is signed
\* in, let in to add or delete, or served is a user with a row at one moment of
\* that request, users are added once and leave for ever.
ImplementsAccounts == Account!Spec
=============================================================================
