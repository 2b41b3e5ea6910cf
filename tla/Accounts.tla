------------------------------ MODULE Accounts ------------------------------
(***************************************************************************)
(* Registration and login in the auth service: POST /auth/users            *)
(* (UsersController.createUser, UsersService.createUser) and POST          *)
(* /auth/login (LocalAuthGuard, LocalStrategy, UsersService.validateUser,  *)
(* AuthController.login), on the users collection they share.  One action  *)
(* per awaited call: between two of them other requests run.  The          *)
(* collection has no unique index on the e-mail address.                   *)
(*                                                                         *)
(* Where a request stands (pc):                                            *)
(*   "idle"     not posted yet                                             *)
(*   "lookup"   registration: awaits findOne({ email })                    *)
(*   "hash"     registration: awaits bcrypt.hash                           *)
(*   "insert"   registration: awaits create                                *)
(*   "find"     login: awaits findOne({ email })                           *)
(*   "compare"  login: awaits bcrypt.compare                               *)
(*   "done"     answered                                                   *)
(*   "dead"     the process died with the request in it                    *)
(***************************************************************************)
EXTENDS Repository

CONSTANTS
  Registrations,   \* POST /auth/users requests; each also names the user it creates
  Logins,          \* POST /auth/login requests
  Emails,
  Passwords,
  NoUser,          \* "no document"
  DbMayFail,       \* whether a database command may fail
  AuthMayCrash     \* whether the auth process may be killed

ASSUME RequestsAssumption == Registrations \cap Logins = {} /\ NoUser \notin Registrations
ASSUME FaultsAssumption == DbMayFail \in BOOLEAN /\ AuthMayCrash \in BOOLEAN

Requests    == Registrations \cup Logins
Credentials == [email : Emails, password : Passwords]

VARIABLES
  authUp,         \* the auth process runs
  pc,             \* request -> where it stands
  creds,          \* request -> the e-mail and password in its body
  answer,         \* request -> the HTTP status sent, or "none"
  users,          \* the registrations whose document is in the collection
  pending,        \* the registrations whose insert command is on its way to MongoDB
  fetched,        \* login -> the document findOne returned to it
  rivals,         \* history: registration -> those in flight for the same address
                  \* when its lookup let it pass
  lookupFailed    \* history: registrations whose lookup ended in a database error

store == <<users, pending, rivals, lookupFailed>>
vars  == <<authUp, pc, creds, answer, fetched, store>>

InHandler == {"lookup", "hash", "insert", "find", "compare"}

TypeOK ==
  /\ authUp \in BOOLEAN
  /\ pc \in [Requests -> InHandler \cup {"idle", "done", "dead"}]
  /\ creds \in [Requests -> Credentials]
  /\ answer \in [Requests -> {"none", "201", "400", "401", "404", "422", "500"}]
  /\ users \subseteq Registrations
  /\ pending \subseteq Registrations
  /\ fetched \in [Logins -> Registrations \cup {NoUser}]
  /\ rivals \in [Registrations -> SUBSET Registrations]
  /\ lookupFailed \subseteq Registrations

\* Every request's body is settled at first; it is read once it is posted.
Init ==
  /\ authUp = TRUE
  /\ pc = [r \in Requests |-> "idle"]
  /\ creds \in [Requests -> Credentials]
  /\ answer = [r \in Requests |-> "none"]
  /\ users = {}
  /\ pending = {}
  /\ fetched = [l \in Logins |-> NoUser]
  /\ rivals = [r \in Registrations |-> {}]
  /\ lookupFailed = {}

At(r, point) == authUp /\ pc[r] = point

Goto(r, point) ==
  /\ pc' = [pc EXCEPT ![r] = point]
  /\ UNCHANGED answer

Reply(r, status) ==
  /\ pc' = [pc EXCEPT ![r] = "done"]
  /\ answer' = [answer EXCEPT ![r] = status]

SameAddress(r, u) == u # r /\ creds[u].email = creds[r].email

\* The users whose documents findOne({ email }) matches for request r, r's own not
\* counted.
Owners(r) == Matching([u \in users |-> creds[u]], [email |-> creds[r].email]) \ {r}

-----------------------------------------------------------------------------
(* Registration.                                                           *)

\* The ValidationPipe checks the body against CreateUserReq first.
PostUser(r) ==
  /\ At(r, "idle")
  /\ Goto(r, "lookup") \/ Reply(r, "400")
  /\ UNCHANGED <<authUp, creds, fetched, store>>

\* Registrations of r's address that are past their own lookup and not stored:
\* still hashing, or with an insert on its way, answered and alive or not.
Rivals(r) == {u \in Registrations : SameAddress(r, u) /\ (pc[u] = "hash" \/ u \in pending)}

Pass(r) ==
  /\ Goto(r, "hash")
  /\ rivals' = [rivals EXCEPT ![r] = Rivals(r)]

\* Mutant: createUser does not await the validation.
LookupNotAwaited(r) ==
  /\ At(r, "lookup")
  /\ Pass(r)
  /\ UNCHANGED <<authUp, creds, users, pending, fetched, lookupFailed>>

\* Mutant: a lookup error counts as a user found.
LookupErrorRejects(r) ==
  /\ At(r, "lookup")
  /\ \/ Owners(r) # {} /\ Reply(r, "422") /\ UNCHANGED <<rivals, lookupFailed>>
     \/ Owners(r) = {} /\ Pass(r) /\ UNCHANGED lookupFailed
     \/ DbMayFail /\ Reply(r, "422") /\ UNCHANGED <<rivals, lookupFailed>>
  /\ UNCHANGED <<authUp, creds, users, pending, fetched>>

\* Mutant: a duplicate is answered with 409 Conflict.
LookupConflicts(r) ==
  /\ At(r, "lookup")
  /\ \/ Owners(r) # {} /\ Reply(r, "409") /\ UNCHANGED rivals
     \/ Owners(r) = {} /\ Pass(r)
  /\ UNCHANGED <<authUp, creds, users, pending, fetched, lookupFailed>>

\* validateCreateUserRequest.  "Not found" arrives as an exception; the catch
\* block ignores it together with every database error.
LookupEmail(r) ==
  /\ At(r, "lookup")
  /\ \/ Owners(r) # {} /\ Reply(r, "422") /\ UNCHANGED <<rivals, lookupFailed>>
     \/ Owners(r) = {} /\ Pass(r) /\ UNCHANGED lookupFailed
     \/ DbMayFail /\ Pass(r) /\ lookupFailed' = lookupFailed \cup {r}
  /\ UNCHANGED <<authUp, creds, users, pending, fetched>>

\* The hash is there, and create() sends the insert of a document with a new _id.
HashPassword(r) ==
  /\ At(r, "hash")
  /\ Goto(r, "insert")
  /\ pending' = pending \cup {r}
  /\ UNCHANGED <<authUp, creds, users, fetched, rivals, lookupFailed>>

\* The insert is on its own: it lands whether its request still waits or not.
ServerInserts(r) ==
  /\ r \in pending
  /\ users' = users \cup {r}
  /\ pending' = pending \ {r}
  /\ UNCHANGED <<authUp, pc, creds, answer, fetched, rivals, lookupFailed>>

\* It never reaches the server, or fails there.
InsertIsLost(r) ==
  /\ r \in pending
  /\ DbMayFail \/ pc[r] = "dead"
  /\ pending' = pending \ {r}
  /\ UNCHANGED <<authUp, pc, creds, answer, users, fetched, rivals, lookupFailed>>

\* create() resolves and the user is returned; or it rejects, without anybody
\* knowing what became of the command.
InsertUser(r) ==
  /\ At(r, "insert")
  /\ \/ r \in users /\ Reply(r, "201")
     \/ DbMayFail /\ Reply(r, "500")
  /\ UNCHANGED <<authUp, creds, fetched, store>>

-----------------------------------------------------------------------------
(* Login.                                                                  *)

\* passport-local answers 401 when the body lacks an e-mail or a password.
PostLogin(l) ==
  /\ At(l, "idle")
  /\ Goto(l, "find") \/ Reply(l, "401")
  /\ UNCHANGED <<authUp, creds, fetched, store>>

\* Mutant: the filter of findOne is lost.
FindAnyUser(l) ==
  /\ At(l, "find")
  /\ \E u \in users : fetched' = [fetched EXCEPT ![l] = u]
  /\ Goto(l, "compare")
  /\ UNCHANGED <<authUp, creds, store>>

\* findOne returns one of the matching documents, and throws NotFoundException
\* where there is none: validateUser's own "not found" branch is never taken.
FindUser(l) ==
  /\ At(l, "find")
  /\ \/ /\ \E u \in Owners(l) : fetched' = [fetched EXCEPT ![l] = u]
        /\ Goto(l, "compare")
     \/ Owners(l) = {} /\ Reply(l, "404") /\ UNCHANGED fetched
     \/ DbMayFail /\ Reply(l, "500") /\ UNCHANGED fetched
  /\ UNCHANGED <<authUp, creds, store>>

\* The user passport-local puts on the request is the one LocalStrategy returned.
CurrentUser(l) == fetched[l]

\* AuthController.login: AuthService.login signs a token for the current user.
AnswerLogin(l) == Reply(l, "201")

\* Mutant: bcrypt.compare is not awaited; its promise is always truthy.
CompareNotAwaited(l) ==
  /\ At(l, "compare")
  /\ AnswerLogin(l)
  /\ UNCHANGED <<authUp, creds, fetched, store>>

ComparePassword(l) ==
  /\ At(l, "compare")
  /\ IF creds[fetched[l]].password = creds[l].password
       THEN AnswerLogin(l)
       ELSE Reply(l, "401")
  /\ UNCHANGED <<authUp, creds, fetched, store>>

-----------------------------------------------------------------------------
(* The end of the process.                                                 *)

AuthCrash ==
  /\ AuthMayCrash
  /\ authUp
  /\ authUp' = FALSE
  /\ pc' = [r \in Requests |-> IF pc[r] \in InHandler THEN "dead" ELSE pc[r]]
  /\ UNCHANGED <<creds, answer, fetched, store>>

\* Started again by hand: compose declares no restart policy.
AuthStart ==
  /\ ~authUp
  /\ authUp' = TRUE
  /\ UNCHANGED <<pc, creds, answer, fetched, store>>

-----------------------------------------------------------------------------

Next ==
  \/ \E r \in Registrations :
       \/ PostUser(r) \/ LookupEmail(r) \/ HashPassword(r) \/ InsertUser(r)
       \/ ServerInserts(r) \/ InsertIsLost(r)
  \/ \E l \in Logins : PostLogin(l) \/ FindUser(l) \/ ComparePassword(l)
  \/ AuthCrash
  \/ AuthStart

Spec == Init /\ [][Next]_vars

-----------------------------------------------------------------------------
(* Properties                                                              *)

Twins(e) == \E u, v \in users : u # v /\ creds[u].email = e /\ creds[v].email = e

\* Two users share an address only if the lookup of one of them failed, or let
\* it pass while the insert of the other was under way: hashing, sent, or sent
\* by a request that was answered with an error or died since.
TwinsWereInFlight ==
  \A u, v \in users :
    SameAddress(u, v) =>
      u \in rivals[v] \/ v \in rivals[u] \/ u \in lookupFailed \/ v \in lookupFailed

\* "Email already exists" is never said of an address nobody has.
RejectedAddressesAreTaken ==
  \A r \in Registrations : answer[r] = "422" => Owners(r) # {}

\* A login with the address and the password of a stored user is answered 401
\* after the comparison only if another user has the same address.
RightPasswordRefusedOnlyToTwins ==
  \A l \in Logins :
    (/\ fetched[l] # NoUser
     /\ answer[l] = "401"
     /\ \E u \in users : creds[u] = creds[l])
    => Twins(creds[l].email)

\* The token of a successful login names a stored user with the address and the
\* password that were sent, whatever was registered meanwhile.
TokensNameTheirOwner ==
  \A l \in Logins :
    answer[l] = "201" => CurrentUser(l) \in users /\ creds[CurrentUser(l)] = creds[l]

\* "Validates the user creation request to prevent duplicate email registration."
EmailsAreUnique == \A e \in Emails : ~Twins(e)

\* No lookup is under way while another registration of its address is between its
\* own lookup and the end of its insert, whatever has become of that request.
OneAtATime == \A r \in Registrations : pc[r] = "lookup" => Rivals(r) = {}

\* The same promise for registrations of one address that come one after the
\* other, and whose lookups do not fail: so much of it the code keeps.
SerialRegistrationsAreUnique ==
  [](OneAtATime /\ lookupFailed = {}) => []EmailsAreUnique
=============================================================================
