--------------------------- MODULE AccountsProofs ---------------------------
(***************************************************************************)
(* Registration and login are right about what is in the users collection, *)
(* for any number of concurrent requests.  (That e-mail addresses are not  *)
(* unique is a counterexample of TLC's; these theorems hold all the same.) *)
(***************************************************************************)
EXTENDS Accounts, TLAPS

\* What a login has read, and what it was answered because of it.
LoginInv(l) ==
  /\ answer[l] # "none" => pc[l] = "done"
  /\ pc[l] \in {"idle", "find"} => fetched[l] = NoUser
  /\ pc[l] = "compare" => fetched[l] # NoUser
  /\ fetched[l] # NoUser =>
       /\ fetched[l] \in users
       /\ creds[fetched[l]].email = creds[l].email
       /\ answer[l] = "401" => creds[fetched[l]].password # creds[l].password
  /\ answer[l] = "201" =>
       /\ fetched[l] # NoUser
       /\ creds[fetched[l]].password = creds[l].password

\* Registrations past their lookup whose document is, or may come to be, stored.
Passed == users \cup pending \cup {r \in Registrations : pc[r] = "hash"}

\* TwinsWereInFlight, for those too whose insert has not landed yet.
OverlapInv ==
  \A u, v \in Passed :
    SameAddress(u, v) =>
      u \in rivals[v] \/ v \in rivals[u] \/ u \in lookupFailed \/ v \in lookupFailed

\* A registration is not stored before its lookup.
EarlyInv ==
  \A r \in Registrations : pc[r] \in {"idle", "lookup"} => r \notin users \cup pending

IInv ==
  /\ TypeOK
  /\ RejectedAddressesAreTaken
  /\ \A l \in Logins : LoginInv(l)
  /\ OverlapInv
  /\ EarlyInv

USE DEF InHandler

\* Nobody has registered or logged in at first.
LEMMA InitIInv == Init => IInv
BY RequestsAssumption
DEF Init, IInv, TypeOK, Requests, RejectedAddressesAreTaken, LoginInv, OverlapInv, EarlyInv, Passed

\* findOne({ email }) matches the documents with this address and no others.
LEMMA MatchingAddress ==
  ASSUME NEW U, NEW C, NEW e, \A u \in U : C[u] \in Credentials
  PROVE  Matching([u \in U |-> C[u]], [email |-> e]) = {u \in U : C[u].email = e}
<1> DEFINE filter == [email |-> e]
           coll   == [u \in U |-> C[u]]
<1>1. DOMAIN coll = U /\ DOMAIN filter = {"email"} /\ filter["email"] = e
  OBVIOUS
<1>2. \A u \in U : Matches(coll[u], filter) <=> C[u].email = e
  <2>1. ASSUME NEW u \in U PROVE coll[u] = C[u] /\ "email" \in DOMAIN C[u]
    BY DEF Credentials
  <2> HIDE DEF filter, coll
  <2> QED
    BY <1>1, <2>1 DEF Matches
<1> HIDE DEF filter, coll
<1>3. Matching(coll, filter) = {u \in U : C[u].email = e}
  BY <1>1, <1>2 DEF Matching
<1> QED
  BY <1>3 DEF filter, coll

\* So the owners of an address are the stored users that have it, before a step and after.
LEMMA OwnersShareTheAddress ==
  ASSUME NEW r \in Requests
  PROVE  /\ TypeOK => Owners(r) = {u \in users : SameAddress(r, u)}
         /\ TypeOK' => Owners(r)' = {u \in users' : SameAddress(r, u)'}
<1>1. ASSUME TypeOK PROVE Owners(r) = {u \in users : SameAddress(r, u)}
  <2>1. \A u \in users : creds[u] \in Credentials
    BY <1>1 DEF TypeOK, Requests
  <2>2. Matching([u \in users |-> creds[u]], [email |-> creds[r].email])
          = {u \in users : creds[u].email = creds[r].email}
    BY <2>1, MatchingAddress
  <2> QED
    BY <2>2 DEF Owners, SameAddress
<1>2. ASSUME TypeOK' PROVE Owners(r)' = {u \in users' : SameAddress(r, u)'}
  <2>1. \A u \in users' : creds'[u] \in Credentials
    BY <1>2 DEF TypeOK, Requests
  <2>2. Matching([u \in users' |-> creds'[u]], [email |-> creds'[r].email])
          = {u \in users' : creds'[u].email = creds'[r].email}
    BY <2>1, MatchingAddress
  <2> QED
    BY <2>2 DEF Owners, SameAddress
<1> QED
  BY <1>1, <1>2

RegistrationAction(r) ==
  \/ PostUser(r) \/ LookupEmail(r) \/ HashPassword(r) \/ InsertUser(r)
  \/ ServerInserts(r) \/ InsertIsLost(r)

\* A step of a registration keeps what logins have read and what rejections rest
\* on: it adds at most its own document.
LEMMA RegistrationStep ==
  ASSUME IInv, NEW r \in Registrations, RegistrationAction(r)
  PROVE  TypeOK' /\ RejectedAddressesAreTaken' /\ \A l \in Logins : LoginInv(l)'
<1> USE DEF RegistrationAction, PostUser, LookupEmail, Pass, HashPassword, InsertUser,
            ServerInserts, InsertIsLost, Goto, Reply, At, store
<1>1. TypeOK'
  BY DEF IInv, TypeOK, Requests, Rivals
<1>2. /\ creds' = creds /\ fetched' = fetched
      /\ users \subseteq users'
      /\ \A q \in Requests : q # r => pc'[q] = pc[q] /\ answer'[q] = answer[q]
      /\ answer'[r] = "422" => answer[r] = "422" \/ Owners(r) # {}
  BY DEF IInv, TypeOK, Requests
<1>3. ASSUME NEW q \in Registrations, answer'[q] = "422" PROVE Owners(q)' # {}
  <2>1. Owners(q) # {}
    BY <1>2, <1>3 DEF IInv, RejectedAddressesAreTaken, Requests
  <2> QED
    BY <1>1, <1>2, <2>1, OwnersShareTheAddress DEF IInv, SameAddress, Requests
<1>4. ASSUME NEW l \in Logins PROVE LoginInv(l)'
  <2>1. pc'[l] = pc[l] /\ answer'[l] = answer[l] /\ LoginInv(l)
    BY <1>2, RequestsAssumption DEF IInv, Requests
  <2> QED
    BY <1>2, <2>1 DEF LoginInv
<1> QED
  BY <1>1, <1>3, <1>4 DEF RejectedAddressesAreTaken

\* A registration enters Passed by its lookup only, which notes those that are
\* there already.
LEMMA OverlapStep ==
  ASSUME IInv, NEW r \in Registrations, RegistrationAction(r)
  PROVE  OverlapInv' /\ EarlyInv'
<1>1. CASE LookupEmail(r)
  <2>1. /\ UNCHANGED <<creds, users, pending>>
        /\ At(r, "lookup") /\ r \in Requests
        /\ \A q \in Registrations : q # r => pc'[q] = pc[q] /\ rivals'[q] = rivals[q]
        /\ lookupFailed \subseteq lookupFailed'
    BY <1>1 DEF LookupEmail, Pass, Goto, Reply, At, IInv, TypeOK, Requests
  <2>2. r \notin Passed
    BY <2>1 DEF Passed, At, IInv, EarlyInv
  <2>3. r \in Passed' => rivals'[r] = Rivals(r) /\ (Owners(r) = {} \/ r \in lookupFailed')
    BY <1>1, <2>1, <2>2 DEF LookupEmail, Pass, Goto, Reply, Passed, IInv, TypeOK, Requests
  <2>4. Passed' \subseteq Passed \cup {r} /\ Passed \subseteq Registrations
    BY <2>1 DEF Passed, IInv, TypeOK
  <2>5. ASSUME r \in Passed', NEW u \in Passed, SameAddress(u, r) \/ SameAddress(r, u)
        PROVE  u \in rivals'[r] \/ r \in lookupFailed'
    <3>1. SameAddress(r, u) /\ u \in Registrations
      BY <2>4, <2>5 DEF SameAddress
    <3>2. u \notin users \/ r \in lookupFailed'
      BY <2>1, <2>3, <2>5, <3>1, OwnersShareTheAddress DEF IInv
    <3> QED
      BY <2>3, <2>5, <3>1, <3>2 DEF Rivals, Passed
  <2>6. OverlapInv'
    <3> SUFFICES ASSUME NEW u \in Passed', NEW v \in Passed', SameAddress(u, v)'
                 PROVE  \/ u \in rivals'[v] \/ v \in rivals'[u]
                        \/ u \in lookupFailed' \/ v \in lookupFailed'
      BY DEF OverlapInv
    <3>1. u # v /\ SameAddress(u, v)
      BY <2>1 DEF SameAddress
    <3>2. CASE u = r \/ v = r
      BY <2>4, <2>5, <3>1, <3>2
    <3>3. CASE u # r /\ v # r
      BY <2>1, <2>4, <3>1, <3>3 DEF IInv, OverlapInv
    <3> QED
      BY <3>2, <3>3
  <2>7. EarlyInv'
    BY <2>1 DEF IInv, EarlyInv, At
  <2> QED
    BY <2>6, <2>7
<1>2. CASE ~LookupEmail(r)
  <2> USE DEF RegistrationAction, PostUser, HashPassword, InsertUser, ServerInserts,
              InsertIsLost, Goto, Reply, At, store
  <2>1. UNCHANGED <<creds, rivals, lookupFailed>>
    BY <1>2
  <2>2. Passed' \subseteq Passed
    BY <1>2 DEF Passed, IInv, TypeOK, Requests
  <2>3. OverlapInv'
    BY <2>1, <2>2 DEF IInv, OverlapInv, SameAddress
  <2>4. EarlyInv'
    BY <1>2 DEF IInv, EarlyInv, TypeOK, Requests
  <2> QED
    BY <2>3, <2>4
<1> QED
  BY <1>1, <1>2

\* A step of a login: it changes nothing but its own request.
LEMMA LoginStep ==
  ASSUME IInv, NEW l \in Logins, PostLogin(l) \/ FindUser(l) \/ ComparePassword(l)
  PROVE  IInv'
<1> USE DEF PostLogin, FindUser, ComparePassword, AnswerLogin, Goto, Reply, At, store
<1>1. TypeOK'
  <2>1. l \in Requests /\ Owners(l) \subseteq users
    BY OwnersShareTheAddress DEF IInv, Requests
  <2> QED
    BY <2>1 DEF IInv, TypeOK, Requests
<1>2. /\ creds' = creds /\ UNCHANGED store
      /\ \A q \in Requests : q # l => pc'[q] = pc[q] /\ answer'[q] = answer[q]
      /\ \A k \in Logins : k # l => fetched'[k] = fetched[k]
  BY DEF IInv, TypeOK, Requests
<1>3. ASSUME NEW q \in Registrations, answer'[q] = "422" PROVE Owners(q)' # {}
  BY <1>2, <1>3, RequestsAssumption
  DEF IInv, RejectedAddressesAreTaken, Requests, Owners
<1>4. LoginInv(l)'
  <2>1. LoginInv(l) /\ l \in Requests
    BY DEF IInv, Requests
  <2>2. CASE PostLogin(l)
    BY <2>1, <2>2 DEF LoginInv, IInv, TypeOK
  <2>3. CASE FindUser(l)
    BY <2>1, <2>3, OwnersShareTheAddress, RequestsAssumption
    DEF LoginInv, IInv, TypeOK, SameAddress
  <2>4. CASE ComparePassword(l)
    BY <2>1, <2>4 DEF LoginInv, IInv, TypeOK
  <2> QED
    BY <2>2, <2>3, <2>4
<1>5. ASSUME NEW k \in Logins, k # l PROVE LoginInv(k)'
  BY <1>2, <1>5 DEF LoginInv, IInv, Requests
<1>6. \A q \in Registrations : pc'[q] = pc[q]
  BY <1>2, RequestsAssumption DEF Requests
<1>7. OverlapInv' /\ EarlyInv'
  BY <1>2, <1>6 DEF IInv, OverlapInv, EarlyInv, Passed, SameAddress
<1> QED
  BY <1>1, <1>3, <1>4, <1>5, <1>7 DEF IInv, RejectedAddressesAreTaken

\* A crash or a start of the process: handlers end, what is stored or on its way
\* stays.
LEMMA ProcessStep ==
  ASSUME IInv, AuthCrash \/ AuthStart
  PROVE  IInv'
<1> USE DEF AuthCrash, AuthStart, store
<1>1. TypeOK'
  BY DEF IInv, TypeOK
<1>2. /\ UNCHANGED <<creds, answer, fetched, store>>
      /\ \A q \in Requests : pc'[q] \in {pc[q], "dead"}
      /\ \A q \in Requests : answer[q] # "none" /\ pc[q] = "done" => pc'[q] = "done"
  BY DEF IInv, TypeOK
<1>3. RejectedAddressesAreTaken'
  BY <1>2 DEF IInv, RejectedAddressesAreTaken, Owners
<1>4. ASSUME NEW l \in Logins PROVE LoginInv(l)'
  <2>1. LoginInv(l) /\ l \in Requests
    BY DEF IInv, Requests
  <2> QED
    BY <1>2, <2>1 DEF LoginInv
<1>5. OverlapInv' /\ EarlyInv'
  <2>1. Passed' \subseteq Passed
    BY <1>2 DEF Passed, Requests
  <2> QED
    BY <1>2, <2>1 DEF IInv, OverlapInv, EarlyInv, SameAddress, Requests
<1> QED
  BY <1>1, <1>3, <1>4, <1>5 DEF IInv

\* The invariant holds in every reachable state of the auth service's requests.
THEOREM AccountsInvariance == Spec => []IInv
<1>1. IInv /\ [Next]_vars => IInv'
  <2>1. ASSUME IInv, UNCHANGED vars PROVE IInv'
    <3>1. RejectedAddressesAreTaken'
      BY <2>1 DEF IInv, RejectedAddressesAreTaken, Owners, vars, store
    <3>2. TypeOK' /\ (\A l \in Logins : LoginInv(l)') /\ OverlapInv' /\ EarlyInv'
      BY <2>1
      DEF IInv, TypeOK, LoginInv, OverlapInv, EarlyInv, Passed, SameAddress, vars, store
    <3> QED
      BY <3>1, <3>2 DEF IInv
  <2>2. ASSUME IInv, NEW r \in Registrations, RegistrationAction(r) PROVE IInv'
    BY <2>2, RegistrationStep, OverlapStep DEF IInv
  <2> QED
    BY <2>1, <2>2, LoginStep, ProcessStep DEF Next, RegistrationAction
<1> QED
  BY InitIInv, <1>1, PTL DEF Spec

\* "Email already exists" is never said of an address nobody has, although lookup
\* errors are swallowed: validateCreateUserRequest rejects only what it has read.
THEOREM RejectionsAreJustified == Spec => []RejectedAddressesAreTaken
<1>1. IInv => RejectedAddressesAreTaken
  BY DEF IInv
<1> QED
  BY <1>1, AccountsInvariance, PTL

\* Two users of one address overlapped in flight, or a lookup failed: the check in
\* createUser holds against everything but a race or a swallowed error.
THEOREM DuplicatesOverlapped == Spec => []TwinsWereInFlight
<1>1. IInv => TwinsWereInFlight
  BY DEF IInv, OverlapInv, Passed, TwinsWereInFlight
<1> QED
  BY <1>1, AccountsInvariance, PTL

\* The state of the auth service's requests keeps its type.
THEOREM AccountsTypeCorrect == Spec => []TypeOK
<1>1. IInv => TypeOK
  BY DEF IInv
<1> QED
  BY <1>1, AccountsInvariance, PTL

\* A login that validateUser lets pass gets the token of a user with exactly its
\* address and password.
THEOREM LoginsAreJustified == Spec => []TokensNameTheirOwner
<1>1. IInv => TokensNameTheirOwner
  <2> SUFFICES ASSUME IInv, NEW l \in Logins, answer[l] = "201"
               PROVE  fetched[l] \in users /\ creds[fetched[l]] = creds[l]
    BY DEF TokensNameTheirOwner, CurrentUser
  <2>1. /\ fetched[l] \in users
        /\ creds[fetched[l]].email = creds[l].email
        /\ creds[fetched[l]].password = creds[l].password
    BY DEF IInv, LoginInv
  <2>2. creds[fetched[l]] \in Credentials /\ creds[l] \in Credentials
    BY <2>1 DEF IInv, TypeOK, Requests
  <2> QED
    BY <2>1, <2>2 DEF Credentials
<1> QED
  BY <1>1, AccountsInvariance, PTL

\* A login refused with the right password met a second user of the same address.
THEOREM RefusalsMetATwin == Spec => []RightPasswordRefusedOnlyToTwins
<1>1. IInv => RightPasswordRefusedOnlyToTwins
  BY DEF IInv, LoginInv, RightPasswordRefusedOnlyToTwins, Twins
<1> QED
  BY <1>1, AccountsInvariance, PTL

-----------------------------------------------------------------------------
(* Registrations that do not overlap.                                      *)

NoRivals == \A r \in Registrations : rivals[r] = {}

\* rivals is written by a lookup that lets its registration pass, and nowhere else.
LEMMA RivalsFromLookup ==
  ASSUME TypeOK, [Next]_vars, NEW r \in Registrations
  PROVE  rivals'[r] = rivals[r] \/ (pc[r] = "lookup" /\ rivals'[r] = Rivals(r))
<1>1. ASSUME NEW q \in Registrations, LookupEmail(q)
      PROVE  rivals'[r] = rivals[r] \/ (pc[r] = "lookup" /\ rivals'[r] = Rivals(r))
  BY <1>1 DEF TypeOK, LookupEmail, Pass, At
<1>2. (\E q \in Registrations : LookupEmail(q)) \/ UNCHANGED rivals
  BY DEF Next, vars, store, PostUser, HashPassword, InsertUser, ServerInserts, InsertIsLost,
         PostLogin, FindUser, ComparePassword, AuthCrash, AuthStart
<1> QED
  BY <1>1, <1>2

\* The check in createUser keeps addresses unique when registrations of one address come
\* one after the other and no lookup fails: the duplicates of accounts_duplicate
\* come from the two awaits between check and insert, and from nothing else.
THEOREM SerialUniqueness == Spec => SerialRegistrationsAreUnique
<1>1. Init => NoRivals
  BY DEF Init, NoRivals
<1>2. IInv /\ NoRivals /\ OneAtATime /\ [Next]_vars => NoRivals'
  BY RivalsFromLookup DEF IInv, NoRivals, OneAtATime
<1>3. IInv /\ NoRivals /\ lookupFailed = {} => EmailsAreUnique
  <2> SUFFICES ASSUME IInv, NoRivals, lookupFailed = {}, NEW u \in users, NEW v \in users,
                      u # v, creds[u].email = creds[v].email
               PROVE  FALSE
    BY DEF EmailsAreUnique, Twins
  <2>1. u \in Passed /\ v \in Passed /\ u \in Registrations /\ v \in Registrations
    BY DEF Passed, IInv, TypeOK
  <2>2. u \in rivals[v] \/ v \in rivals[u]
    BY <2>1 DEF IInv, OverlapInv, SameAddress
  <2> QED
    BY <2>1, <2>2 DEF NoRivals
<1> QED
  BY <1>1, <1>2, <1>3, AccountsInvariance, PTL DEF Spec, SerialRegistrationsAreUnique
=============================================================================
