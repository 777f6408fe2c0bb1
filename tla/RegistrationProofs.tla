------------------------- MODULE RegistrationProofs -------------------------
(* Theorems about Registration for any people, rows and requests.          *)
EXTENDS Registration, TLAPS

data == <<users, members, orgs, invites, signups, openings, changing, raced>>

\* A step that only changes what one request knows.
LEMMA RequestStep ==
    ASSUME IInv, UNCHANGED data, overlapped' \in BOOLEAN,
           NEW r \in Requests, NEW new \in Request,
           requests' = [requests EXCEPT ![r] = new],
           StillSo(new),
           new.pc \in ApproveSteps =>
              \A t \in Requests \ {r} :
                 requests[t].pc \in ApproveSteps => requests[t].signup # new.signup,
           BeforeFirstLogin => Bootstrapping(new)
    PROVE  IInv'
<1>1. \A t \in Requests : requests'[t] = IF t = r THEN new ELSE requests[t]
  BY DEF IInv, TypeOK
<1>2. TypeOK'
  BY DEF IInv, TypeOK, data
<1>3. RowsKnown'
  BY DEF IInv, RowsKnown, OneOrganizationPerUser, Pending, data
<1>4. RequestsKnown'
  BY <1>1 DEF IInv, RequestsKnown, StillSo, data
<1>5. ReviewedByOne'
  BY <1>1 DEF IInv, ReviewedByOne
<1>6. BeforeFirstLogin => BeforeFirstLogin'
  BY <1>1 DEF BeforeFirstLogin, Bootstrapping, Pending, data
<1>7. AfterFirstLogin => AfterFirstLogin'
  BY DEF AfterFirstLogin, Owners, data
<1>8. ChangesKnown'
  BY DEF IInv, ChangesKnown, ChangeKnown, AsSeen, Owners, data
<1> QED
  BY <1>2, <1>3, <1>4, <1>5, <1>6, <1>7, <1>8 DEF IInv

\* What each request knows.
LEMMA Known ==
    ASSUME IInv, NEW r \in Requests
    PROVE  StillSo(requests[r]) /\ requests[r] \in Request
BY DEF IInv, RequestsKnown, TypeOK

\* A request that is answered knows nothing.
LEMMA IdleFits == Idle \in Request /\ StillSo(Idle) /\ Bootstrapping(Idle)
BY DEF Idle, Request, StillSo, Bootstrapping, InviteSteps, ApproveSteps

\* A request that is answered, for whatever reason, while nothing is written.
LEMMA AnswerStep ==
    ASSUME IInv, UNCHANGED <<data, overlapped>>, NEW r \in Requests, Answer(r)
    PROVE  IInv'
<1>1. overlapped' \in BOOLEAN /\ UNCHANGED data
  BY DEF IInv, TypeOK
<1>2. Idle.pc \notin ApproveSteps
  BY DEF Idle, ApproveSteps
<1> QED
  BY <1>1, <1>2, IdleFits, RequestStep DEF Answer

\* A request whose check passes goes on with what it knows.
LEMMA CheckStep ==
    ASSUME IInv, NEW r \in Requests, NEW ok, NEW pc, Check(r, ok, pc),
           \/ requests[r].pc \in InviteSteps /\ pc \in InviteSteps
           \/ requests[r].pc \in ApproveSteps /\ pc \in ApproveSteps
    PROVE  IInv'
<1>0. UNCHANGED data /\ overlapped' = overlapped /\ overlapped' \in BOOLEAN
  BY DEF Check, data, IInv, TypeOK
<1>1. CASE Answer(r)
  BY <1>0, <1>1, AnswerStep
<1>2. CASE Move(r, pc)
  <2> DEFINE new == [requests[r] EXCEPT !.pc = pc]
  <2>1. requests[r] \in Request /\ StillSo(requests[r])
    BY DEF IInv, TypeOK, RequestsKnown
  <2>2. /\ new \in Request /\ new.pc = pc /\ new.person = requests[r].person
        /\ new.existing = requests[r].existing /\ new.org = requests[r].org
        /\ new.role = requests[r].role /\ new.offers = requests[r].offers
        /\ new.chances = requests[r].chances /\ new.signup = requests[r].signup
    BY <2>1 DEF Request, InviteSteps, ApproveSteps
  <2>3. StillSo(new)
    BY <2>1, <2>2 DEF StillSo, InviteSteps, ApproveSteps
  <2>4. requests' = [requests EXCEPT ![r] = new]
    BY <1>2 DEF Move, IInv, TypeOK
  <2>5. pc \in ApproveSteps =>
          \A t \in Requests \ {r} :
             requests[t].pc \in ApproveSteps => requests[t].signup # requests[r].signup
    BY DEF IInv, ReviewedByOne, InviteSteps, ApproveSteps
  <2>6. ~BeforeFirstLogin
    BY DEF BeforeFirstLogin, Bootstrapping
  <2> HIDE DEF new
  <2> QED
    BY <1>0, <2>2, <2>3, <2>4, <2>5, <2>6, RequestStep
<1> QED
  BY <1>1, <1>2 DEF Check

\* A request that begins.
LEMMA OpenStep ==
    ASSUME IInv, NEW r \in Requests, NEW new \in Request, Open(r, new), UNCHANGED data,
           StillSo(new),
           new.pc \in ApproveSteps => ~Reviewed(new.signup),
           BeforeFirstLogin => Bootstrapping(new)
    PROVE  IInv'
<1>1. overlapped' \in BOOLEAN /\ requests' = [requests EXCEPT ![r] = new]
  BY DEF Open, IInv, TypeOK
<1>2. new.pc \in ApproveSteps =>
        \A t \in Requests \ {r} :
           requests[t].pc \in ApproveSteps => requests[t].signup # new.signup
  BY DEF Reviewed
<1> QED
  BY <1>1, <1>2, RequestStep

-----------------------------------------------------------------------------
(* The reads.                                                              *)

\* A login finds the user row or none; the row stays if it was found.
LEMMA ReadUserKeeps ==
    ASSUME IInv, NEW r \in Requests, ReadUser(r)
    PROVE  IInv'
<1>1. PICK p \in People :
         Open(r, [Idle EXCEPT !.pc = "login", !.person = p,
                              !.existing = IF p \in users THEN p ELSE None])
  BY DEF ReadUser
<1> DEFINE new == [Idle EXCEPT !.pc = "login", !.person = p,
                               !.existing = IF p \in users THEN p ELSE None]
<1>2. /\ new \in Request /\ new.pc = "login" /\ new.person = p /\ new.chances = {}
      /\ new.offers = {} /\ (new.existing # None => p \in users)
  BY DEF Idle, Request, LoginSteps
<1> HIDE DEF new
<1>3. StillSo(new) /\ Bootstrapping(new) /\ new.pc \notin ApproveSteps
  BY <1>2 DEF StillSo, Bootstrapping, InviteSteps, ApproveSteps
<1>4. UNCHANGED data
  BY DEF ReadUser, data
<1> QED
  BY <1>1, <1>2, <1>3, <1>4, OpenStep DEF new

\* The org-creation invitations read belong to approved requests, which is final.
LEMMA ReadOpeningsKeeps ==
    ASSUME IInv, NEW r \in Requests, ReadOpenings(r)
    PROVE  IInv'
<1> DEFINE found == {s \in openings : signups[s].email = requests[r].person}
           new == [requests[r] EXCEPT !.pc = "offered", !.chances = found]
<1>1. UNCHANGED data /\ overlapped' = overlapped /\ overlapped' \in BOOLEAN
  BY DEF ReadOpenings, data, IInv, TypeOK
<1>2. CASE Answer(r)
  BY <1>1, <1>2, AnswerStep
<1>3. CASE /\ requests' = [requests EXCEPT ![r].pc = "offered", ![r].chances = found]
           /\ requests[r].existing = None \/ found # {}
  <2>1. requests[r] \in Request /\ StillSo(requests[r]) /\ requests[r].pc = "login"
    BY DEF IInv, TypeOK, RequestsKnown, ReadOpenings
  <2>2. found \subseteq Signups
    BY DEF IInv, TypeOK
  <2>3. /\ new \in Request /\ new.pc = "offered" /\ new.person = requests[r].person
        /\ new.existing = requests[r].existing /\ new.chances = found
        /\ new.offers = requests[r].offers
    BY <2>1, <2>2 DEF Request, LoginSteps
  <2>4. \A s \in found : signups[s] = [status |-> "approved", email |-> requests[r].person]
    BY DEF IInv, TypeOK, SignupRequest, RowsKnown
  <2>5. StillSo(new) /\ new.pc \notin ApproveSteps
    BY <1>3, <2>1, <2>3, <2>4 DEF StillSo, InviteSteps, ApproveSteps
  <2>6. BeforeFirstLogin => Bootstrapping(new)
    BY <2>3 DEF BeforeFirstLogin, Bootstrapping, InviteSteps, ApproveSteps
  <2>7. requests' = [requests EXCEPT ![r] = new]
    BY <1>3 DEF IInv, TypeOK
  <2> HIDE DEF new, found
  <2> QED
    BY <1>1, <2>3, <2>5, <2>6, <2>7, RequestStep
<1> QED
  BY <1>2, <1>3 DEF ReadOpenings

\* The invitations read may go, the organizations they name do not.
LEMMA ReadInvitationsKeeps ==
    ASSUME IInv, NEW r \in Requests, ReadInvitations(r)
    PROVE  IInv'
<1> DEFINE found == {i \in Invites : Pending(i) /\ invites[i].email = requests[r].person}
           read == {[id |-> i, org |-> invites[i].org, role |-> invites[i].role] : i \in found}
           new == [requests[r] EXCEPT !.pc = "registering", !.offers = read]
<1>1. UNCHANGED data /\ overlapped' = overlapped /\ overlapped' \in BOOLEAN
  BY DEF ReadInvitations, data, IInv, TypeOK
<1>2. CASE Answer(r)
  BY <1>1, <1>2, AnswerStep
<1>3. CASE requests' = [requests EXCEPT ![r].pc = "registering", ![r].offers = read]
  <2>1. requests[r] \in Request /\ StillSo(requests[r]) /\ requests[r].pc = "offered"
    BY DEF IInv, TypeOK, RequestsKnown, ReadInvitations
  <2>2. \A i \in found : /\ invites[i].org \in orgs /\ invites[i].org \in Orgs
                         /\ invites[i].role \in Roles
    BY DEF IInv, RowsKnown, TypeOK
  <2>3. read \subseteq Offer /\ \A f \in read : f.org \in orgs
    BY <2>2 DEF Offer
  <2>4. /\ new \in Request /\ new.pc = "registering" /\ new.person = requests[r].person
        /\ new.existing = requests[r].existing /\ new.chances = requests[r].chances
        /\ new.offers = read
    BY <2>1, <2>3 DEF Request, LoginSteps
  <2>5. StillSo(new) /\ new.pc \notin ApproveSteps
    BY <2>1, <2>3, <2>4 DEF StillSo, InviteSteps, ApproveSteps
  <2>6. BeforeFirstLogin => Bootstrapping(new)
    BY <2>4 DEF BeforeFirstLogin, Bootstrapping, InviteSteps, ApproveSteps
  <2>7. requests' = [requests EXCEPT ![r] = new]
    BY <1>3 DEF IInv, TypeOK
  <2> HIDE DEF new, found, read
  <2> QED
    BY <1>1, <2>4, <2>5, <2>6, <2>7, RequestStep
<1> QED
  BY <1>2, <1>3 DEF ReadInvitations

\* Only members of an organization invite, so not before the first login.
LEMMA StartInviteKeeps ==
    ASSUME IInv, NEW r \in Requests, StartInvite(r)
    PROVE  IInv'
<1>1. PICK o \in Orgs, p \in People, role \in Roles :
         /\ \E m \in Managers(o) : Rank[role] <= Rank[m.role]
         /\ Open(r, [Idle EXCEPT !.pc = "inviting", !.person = p, !.org = o, !.role = role])
  BY DEF StartInvite
<1> DEFINE new == [Idle EXCEPT !.pc = "inviting", !.person = p, !.org = o, !.role = role]
<1>2. /\ new \in Request /\ new.pc = "inviting" /\ new.person = p /\ new.chances = {}
      /\ new.offers = {} /\ new.existing = None /\ new.org = o /\ new.role = role
  BY DEF Idle, Request, InviteSteps
<1>3. o \in orgs /\ ~BeforeFirstLogin
  BY <1>1 DEF Managers, IInv, RowsKnown, BeforeFirstLogin
<1>4. StillSo(new) /\ new.pc \notin ApproveSteps
  BY <1>2, <1>3 DEF StillSo, ApproveSteps
<1>5. UNCHANGED data
  BY DEF StartInvite, data
<1> HIDE DEF new
<1> QED
  BY <1>1, <1>2, <1>3, <1>4, <1>5, OpenStep DEF new

\* Anybody may ask to sign up, at any time.
LEMMA StartSignupKeeps ==
    ASSUME IInv, NEW r \in Requests, StartSignup(r)
    PROVE  IInv'
<1>1. PICK p \in People : Open(r, [Idle EXCEPT !.pc = "signing_up", !.person = p])
  BY DEF StartSignup
<1> DEFINE new == [Idle EXCEPT !.pc = "signing_up", !.person = p]
<1>2. /\ new \in Request /\ new.pc = "signing_up" /\ new.person = p /\ new.chances = {}
      /\ new.offers = {} /\ new.existing = None
  BY DEF Idle, Request
<1>3. StillSo(new) /\ Bootstrapping(new) /\ new.pc \notin ApproveSteps
  BY <1>2 DEF StillSo, Bootstrapping, InviteSteps, ApproveSteps
<1>4. UNCHANGED data
  BY DEF StartSignup, data
<1> HIDE DEF new
<1> QED
  BY <1>1, <1>2, <1>3, <1>4, OpenStep DEF new

\* The lock is taken by one reviewer, and the request is pending under it.
LEMMA LockSignupKeeps ==
    ASSUME IInv, NEW r \in Requests, LockSignup(r)
    PROVE  IInv'
<1>1. PICK s \in Signups :
         /\ signups[s].status = "pending"
         /\ ~Reviewed(s)
         /\ Open(r, [Idle EXCEPT !.pc = "approving", !.person = signups[s].email, !.signup = s])
  BY DEF LockSignup
<1> DEFINE new == [Idle EXCEPT !.pc = "approving", !.person = signups[s].email, !.signup = s]
<1>2. signups[s] = [status |-> "pending", email |-> signups[s].email] /\ signups[s].email \in People
  BY <1>1 DEF IInv, TypeOK, SignupRequest, RowsKnown
<1>3. /\ new \in Request /\ new.pc = "approving" /\ new.person = signups[s].email
      /\ new.chances = {} /\ new.offers = {} /\ new.existing = None /\ new.signup = s
  BY <1>2 DEF Idle, Request, ApproveSteps
<1>4. ~BeforeFirstLogin
  BY DEF LockSignup, BeforeFirstLogin
<1>5. StillSo(new)
  BY <1>2, <1>3 DEF StillSo, InviteSteps
<1>6. UNCHANGED data
  BY DEF LockSignup, data
<1> HIDE DEF new
<1> QED
  BY <1>1, <1>3, <1>4, <1>5, <1>6, OpenStep DEF new
-----------------------------------------------------------------------------
(* The writes.                                                             *)

\* Requests that keep what they know, or forget it, still know it when rows are
\* added and no signup request changes that they have read or locked.
LEMMA RequestsKeep ==
    ASSUME IInv, users \subseteq users', orgs \subseteq orgs',
           NEW done \in SUBSET Requests,
           requests' = [t \in Requests |-> IF t \in done THEN Idle ELSE requests[t]],
           \A s \in Signups :
              \/ signups'[s] = signups[s]
              \/ /\ signups[s].status # "approved"
                 /\ \A t \in Requests \ done :
                       requests[t].pc \in ApproveSteps => requests[t].signup # s
    PROVE  requests' \in [Requests -> Request] /\ RequestsKnown' /\ ReviewedByOne'
<1>1. requests' \in [Requests -> Request]
  BY IdleFits DEF IInv, TypeOK
<1>2. ASSUME NEW t \in Requests PROVE StillSo(requests[t])'
  <2>1. CASE t \in done
    <3>1. requests'[t] = Idle
      BY <2>1
    <3> QED
      BY <3>1 DEF StillSo, Idle, InviteSteps, ApproveSteps
  <2>2. CASE t \notin done
    <3>1. requests'[t] = requests[t] /\ StillSo(requests[t]) /\ requests[t] \in Request
      BY <2>2 DEF IInv, RequestsKnown, TypeOK
    <3>2. \A s \in requests[t].chances : s \in Signups
      BY <3>1 DEF Request
    <3>3. \A s \in requests[t].chances : signups'[s] = signups[s]
      BY <3>1, <3>2 DEF StillSo
    <3>4. requests[t].pc \in ApproveSteps =>
            signups'[requests[t].signup] = signups[requests[t].signup]
      BY <2>2, <3>1 DEF StillSo
    <3> QED
      BY <3>1, <3>3, <3>4 DEF StillSo
  <2> QED
    BY <2>1, <2>2
<1>3. ReviewedByOne'
  BY DEF IInv, ReviewedByOne, Idle, ApproveSteps
<1> QED
  BY <1>1, <1>2, <1>3 DEF RequestsKnown

\* The two forms in which actions say what becomes of the requests: one is answered,
LEMMA AnswerForm ==
    ASSUME IInv, NEW r \in Requests, Answer(r)
    PROVE  /\ {r} \in SUBSET Requests
           /\ requests' = [t \in Requests |-> IF t \in {r} THEN Idle ELSE requests[t]]
BY DEF IInv, TypeOK, Answer

\* or none changes.
LEMMA UnchangedForm ==
    ASSUME IInv, UNCHANGED requests
    PROVE  /\ {} \in SUBSET Requests
           /\ requests' = [t \in Requests |-> IF t \in {} THEN Idle ELSE requests[t]]
BY DEF IInv, TypeOK

\* Answered and untouched requests stay within the bootstrap.
LEMMA BootstrappingKept ==
    ASSUME NEW done \in SUBSET Requests,
           requests' = [t \in Requests |-> IF t \in done THEN Idle ELSE requests[t]],
           \A t \in Requests : Bootstrapping(requests[t])
    PROVE  \A t \in Requests : Bootstrapping(requests[t])'
BY DEF Bootstrapping, Idle, InviteSteps, ApproveSteps

\* New memberships threaten no change of a member.
LEMMA ChangesStay ==
    ASSUME IInv, UNCHANGED <<changing, raced>>, members \subseteq members'
    PROVE  ChangesKnown'
<1>1. \A o : Owners(o) \subseteq Owners(o)'
  BY DEF Owners
<1> QED
  BY <1>1 DEF IInv, ChangesKnown, ChangeKnown, AsSeen, Owners

\* The first organization comes with the invitation of its owner.
LEMMA BootstrapKeeps ==
    ASSUME IInv, Bootstrap
    PROVE  IInv'
<1>1. PICK o \in Orgs, i \in Invites :
         /\ invites[i].state = "free"
         /\ orgs' = {o}
         /\ invites' = [invites EXCEPT ![i] =
               [state |-> "pending", org |-> o, email |-> Admin, role |-> "owner"]]
  BY DEF Bootstrap
<1>2. orgs = {} /\ UNCHANGED <<users, members, signups, openings, requests, overlapped,
                               changing, raced>>
  BY DEF Bootstrap
<1>3. \A j \in Invites : invites'[j] =
         IF j = i THEN [state |-> "pending", org |-> o, email |-> Admin, role |-> "owner"]
         ELSE invites[j]
  BY <1>1 DEF IInv, TypeOK
<1>4. requests' \in [Requests -> Request] /\ RequestsKnown' /\ ReviewedByOne'
  BY <1>1, <1>2, UnchangedForm, RequestsKeep
<1>5. TypeOK'
  BY <1>1, <1>2, <1>3, <1>4, AdminAssumption DEF IInv, TypeOK, Invitation, Roles
<1>6. RowsKnown'
  BY <1>1, <1>2, <1>3, AdminAssumption
     DEF IInv, RowsKnown, OneOrganizationPerUser, Pending, Roles
<1>7. BeforeFirstLogin'
  BY <1>1, <1>2, <1>3 DEF IInv, BeforeFirstLogin, AfterFirstLogin, Owners, Bootstrapping, Pending
<1>8. ChangesKnown'
  BY <1>2, ChangesStay
<1> QED
  BY <1>4, <1>5, <1>6, <1>7, <1>8 DEF IInv

\* A change that begins has found the row, and another owner if it matters; of
\* two in one organization the second one notes the race.
LEMMA StartChangeKeeps ==
    ASSUME IInv, NEW c \in Changes, StartChange(c)
    PROVE  IInv'
<1>1. PICK m \in members, new \in Roles \cup {"removed"} :
         (m.role = "owner" => Owners(m.org) # {m}) /\ Begin(c, m, new)
  BY DEF StartChange
<1> DEFINE row == [user |-> m.user, org |-> m.org, seen |-> m.role, new |-> new]
<1>2. /\ changing[c] = NoChange /\ changing' = [changing EXCEPT ![c] = row]
      /\ raced' = IF \E d \in Changes : changing[d].org = m.org THEN raced \cup {m.org}
                  ELSE raced
      /\ UNCHANGED <<users, members, orgs, invites, signups, openings, requests,
                     overlapped>>
  BY <1>1 DEF Begin
<1>3. m \in Membership /\ m.user \in People /\ m.org \in Orgs /\ m.role \in Roles
      /\ m = [user |-> m.user, org |-> m.org, role |-> m.role]
  BY DEF IInv, TypeOK, Membership
<1>4. row \in Change /\ row.user = m.user /\ row.org = m.org /\ row.seen = m.role
  BY <1>3 DEF Change
<1>5. \A d \in Changes : changing'[d] = IF d = c THEN row ELSE changing[d]
  BY <1>2 DEF IInv, TypeOK
<1>6. requests' \in [Requests -> Request] /\ RequestsKnown' /\ ReviewedByOne'
  BY <1>2, UnchangedForm, RequestsKeep
<1>7. TypeOK'
  BY <1>2, <1>3, <1>4, <1>6 DEF IInv, TypeOK
<1>8. RowsKnown'
  BY <1>2 DEF IInv, RowsKnown, OneOrganizationPerUser, Pending
<1>9. AfterFirstLogin'
  BY <1>2 DEF IInv, BeforeFirstLogin, AfterFirstLogin, Owners
<1>10. AsSeen(row)'
  BY <1>1, <1>2, <1>3, <1>4 DEF AsSeen, Owners
<1>11. row.new \in Roles \cup {"removed"}
  OBVIOUS
<1> HIDE DEF row
<1>12. ChangesKnown'
  <2> SUFFICES ASSUME NEW d \in Changes PROVE ChangeKnown(d)'
    BY DEF ChangesKnown
  <2>1. CASE d = c
    <3>1. changing'[d] = row
      BY <1>5, <2>1
    <3>2. row.org \notin raced' => \A e \in Changes \ {d} : changing'[e].org # row.org
      BY <1>2, <1>4, <1>5, <2>1
    <3> QED
      BY <1>2, <1>4, <1>10, <1>11, <3>1, <3>2 DEF ChangeKnown
  <2>2. CASE d # c
    <3>1. changing'[d] = changing[d] /\ ChangeKnown(d)
      BY <1>5, <2>2 DEF IInv, ChangesKnown
    <3>2. changing[d].org \notin raced' =>
             changing[d].org \notin raced /\ changing[d].org # m.org
      BY <1>2
    <3>3. AsSeen(changing[d]) => AsSeen(changing[d])'
      BY <1>2, <3>1 DEF AsSeen, Owners
    <3> QED
      BY <1>2, <1>4, <1>5, <3>1, <3>2, <3>3 DEF ChangeKnown
  <2> QED
    BY <2>1, <2>2
<1> QED
  BY <1>6, <1>7, <1>8, <1>9, <1>12 DEF IInv

\* The row written is the one that was read, unless changes have overlapped, so
\* the other owner that was counted is still there.
LEMMA SaveChangeKeeps ==
    ASSUME IInv, NEW c \in Changes, SaveChange(c)
    PROVE  IInv'
<1> DEFINE ch == changing[c]
<1>1. PICK m \in members :
         /\ m.user = ch.user /\ m.org = ch.org
         /\ members' = (members \ {m}) \cup
               IF ch.new = "removed" THEN {}
               ELSE {[user |-> m.user, org |-> m.org, role |-> ch.new]}
         /\ changing' = [d \in Changes |->
               IF d = c \/ (ch.new = "removed" /\ changing[d].user = ch.user) THEN NoChange
               ELSE changing[d]]
         /\ UNCHANGED <<users, orgs, invites, signups, openings, requests, overlapped,
                        raced>>
  BY DEF SaveChange
<1>2. m \in Membership /\ ch \in Change /\ NoChange \in Change /\ ch # NoChange
  BY <1>1, NoneAssumption DEF IInv, TypeOK, Membership, Change, NoChange
<1>3. changing[c] # NoChange
  BY <1>1, NoneAssumption DEF IInv, TypeOK, Membership, NoChange
<1>4. ch.new \in Roles \cup {"removed"} /\ (ch.org \notin raced => AsSeen(ch))
  BY <1>3 DEF IInv, ChangesKnown, ChangeKnown
<1>5. PICK new : /\ new = [user |-> m.user, org |-> m.org, role |-> ch.new]
                 /\ members' = (members \ {m}) \cup IF ch.new = "removed" THEN {} ELSE {new}
  BY <1>1
<1>6. /\ new.user = m.user /\ new.org = m.org /\ (ch.new # "removed" => new \in Membership)
  BY <1>2, <1>4, <1>5 DEF Membership
<1>7. requests' \in [Requests -> Request] /\ RequestsKnown' /\ ReviewedByOne'
  BY <1>1, UnchangedForm, RequestsKeep
<1>8. changing' \in [Changes -> Change]
  BY <1>1, <1>2 DEF IInv, TypeOK
<1>9. TypeOK'
  BY <1>1, <1>5, <1>6, <1>7, <1>8 DEF IInv, TypeOK
<1>10. RowsKnown'
  BY <1>1, <1>5, <1>6 DEF IInv, RowsKnown, OneOrganizationPerUser, Pending
<1>11. ASSUME NEW o \in orgs \ raced, Owners(o) # {} PROVE Owners(o)' # {}
  <2>1. CASE m.org # o \/ m.role # "owner"
    BY <1>5, <1>11, <2>1 DEF Owners
  <2>2. CASE m.org = o /\ m.role = "owner"
    <3>1. m = [user |-> ch.user, org |-> ch.org, role |-> ch.seen] /\ ch.seen = "owner"
      BY <1>1, <1>4, <1>11, <2>2 DEF AsSeen, IInv, RowsKnown, OneOrganizationPerUser
    <3>2. PICK n \in Owners(o) : n # m
      BY <1>1, <1>4, <1>11, <2>2, <3>1 DEF AsSeen
    <3> QED
      BY <1>5, <3>2 DEF Owners
  <2> QED
    BY <2>1, <2>2
<1>12. AfterFirstLogin'
  BY <1>1, <1>11 DEF IInv, BeforeFirstLogin, AfterFirstLogin
<1>13. ChangesKnown'
  <2> SUFFICES ASSUME NEW d \in Changes, changing'[d] # NoChange PROVE ChangeKnown(d)'
    BY DEF ChangesKnown, ChangeKnown
  <2>1. /\ d # c /\ changing'[d] = changing[d]
        /\ ch.new = "removed" => changing[d].user # m.user
    BY <1>1
  <2>2. ChangeKnown(d) /\ changing[d] # NoChange
    BY <2>1 DEF IInv, ChangesKnown
  <2>3. \E n \in members' : n.user = changing[d].user /\ n.org = changing[d].org
    <3>1. PICK n \in members : n.user = changing[d].user /\ n.org = changing[d].org
      BY <2>2 DEF ChangeKnown
    <3>2. CASE n = m
      BY <1>5, <1>6, <2>1, <3>1, <3>2
    <3>3. CASE n # m
      BY <1>5, <3>1, <3>3
    <3> QED
      BY <3>2, <3>3
  <2>4. ASSUME changing[d].org \notin raced PROVE AsSeen(changing[d])'
    <3>1. AsSeen(changing[d]) /\ changing[d].org # m.org
      BY <1>1, <2>1, <2>2, <2>4 DEF ChangeKnown
    <3>2. Owners(changing[d].org)' = Owners(changing[d].org)
      BY <1>5, <1>6, <2>1, <3>1 DEF Owners
    <3> QED
      BY <1>5, <2>1, <3>1, <3>2 DEF AsSeen
  <2>5. \A e \in Changes : changing'[e].org \in {changing[e].org, None}
    BY <1>1 DEF NoChange
  <2>6. changing[d].org # None
    BY <2>3, <1>9, NoneAssumption DEF TypeOK, Membership
  <2> QED
    BY <1>1, <2>1, <2>2, <2>3, <2>4, <2>5, <2>6 DEF ChangeKnown
<1> QED
  BY <1>7, <1>9, <1>10, <1>12, <1>13 DEF IInv

\* A change that fails leaves everything as it was.
LEMMA AbortChangeKeeps ==
    ASSUME IInv, NEW c \in Changes, AbortChange(c)
    PROVE  IInv'
<1>1. /\ changing' = [changing EXCEPT ![c] = NoChange]
      /\ UNCHANGED <<users, members, orgs, invites, signups, openings, requests, overlapped,
                     raced>>
  BY DEF AbortChange
<1>2. requests' \in [Requests -> Request] /\ RequestsKnown' /\ ReviewedByOne'
  BY <1>1, UnchangedForm, RequestsKeep
<1>3. NoChange \in Change
  BY DEF Change, NoChange
<1>4. TypeOK'
  BY <1>1, <1>2, <1>3 DEF IInv, TypeOK
<1>5. RowsKnown'
  BY <1>1 DEF IInv, RowsKnown, OneOrganizationPerUser, Pending
<1>6. BeforeFirstLogin => BeforeFirstLogin'
  BY <1>1 DEF BeforeFirstLogin, Bootstrapping, Pending
<1>7. AfterFirstLogin => AfterFirstLogin'
  BY <1>1 DEF AfterFirstLogin, Owners
<1>8. ASSUME NEW d \in Changes, changing'[d] # NoChange PROVE ChangeKnown(d)'
  <2>1. changing'[d] = changing[d] /\ ChangeKnown(d)
    BY <1>1, <1>8 DEF IInv, TypeOK, ChangesKnown
  <2>2. \E n \in members : n.user = changing[d].user /\ n.org = changing[d].org
    BY <1>8, <2>1 DEF ChangeKnown
  <2>3. changing[d].org # None
    BY <2>2, NoneAssumption DEF IInv, TypeOK, Membership
  <2>4. \A e \in Changes : changing'[e].org \in {changing[e].org, None}
    BY <1>1 DEF NoChange, IInv, TypeOK
  <2>5. AsSeen(changing[d]) => AsSeen(changing[d])'
    BY <1>1, <2>1 DEF AsSeen, Owners
  <2> QED
    BY <1>1, <1>8, <2>1, <2>2, <2>3, <2>4, <2>5 DEF ChangeKnown
<1>9. ChangesKnown'
  BY <1>8 DEF ChangesKnown, ChangeKnown
<1> QED
  BY <1>2, <1>4, <1>5, <1>6, <1>7, <1>9 DEF IInv

\* The invitation of the bootstrap cannot be revoked: nobody is a manager yet.
LEMMA RevokeInvitationKeeps ==
    ASSUME IInv, NEW i \in Invites, RevokeInvitation(i)
    PROVE  IInv'
<1>1. /\ \E m \in members : TRUE
      /\ UNCHANGED <<users, members, orgs, signups, openings, requests, overlapped,
                     changing, raced>>
  BY DEF RevokeInvitation, Managers
<1>2. \A j \in Invites : invites'[j] = IF j = i THEN NoInvitation("gone") ELSE invites[j]
  BY DEF RevokeInvitation, IInv, TypeOK
<1>3. requests' \in [Requests -> Request] /\ RequestsKnown' /\ ReviewedByOne'
  BY <1>1, UnchangedForm, RequestsKeep
<1>4. TypeOK'
  BY <1>1 DEF IInv, TypeOK, RevokeInvitation, NoInvitation, Invitation
<1>5. RowsKnown'
  BY <1>1, <1>2 DEF IInv, RowsKnown, OneOrganizationPerUser, Pending, NoInvitation
<1>6. AfterFirstLogin'
  BY <1>1 DEF IInv, BeforeFirstLogin, AfterFirstLogin, Owners
<1>7. ChangesKnown'
  BY <1>1, ChangesStay
<1> QED
  BY <1>3, <1>4, <1>5, <1>6, <1>7 DEF IInv

\* A rejection waits for the lock, so it contradicts no approval under way.
LEMMA RejectKeeps ==
    ASSUME IInv, NEW s \in Signups, Reject(s)
    PROVE  IInv'
<1>1. /\ Admin \in users /\ signups[s].status = "pending" /\ ~Reviewed(s)
      /\ UNCHANGED <<users, members, orgs, invites, openings, requests, overlapped,
                     changing, raced>>
  BY DEF Reject
<1>2. \A t \in Signups : signups'[t] = IF t = s THEN [signups[s] EXCEPT !.status = "rejected"]
                                        ELSE signups[t]
  BY DEF Reject, IInv, TypeOK
<1>3. requests' \in [Requests -> Request] /\ RequestsKnown' /\ ReviewedByOne'
  BY <1>1, <1>2, UnchangedForm, RequestsKeep DEF Reviewed
<1>4. TypeOK'
  BY <1>1 DEF IInv, TypeOK, Reject, SignupRequest
<1>5. RowsKnown'
  BY <1>1, <1>2 DEF IInv, RowsKnown, OneOrganizationPerUser, Pending, TypeOK, SignupRequest
<1>6. AfterFirstLogin'
  BY <1>1 DEF IInv, BeforeFirstLogin, AfterFirstLogin, Owners
<1>7. ChangesKnown'
  BY <1>1, ChangesStay
<1> QED
  BY <1>3, <1>4, <1>5, <1>6, <1>7 DEF IInv

\* An invitation names an organization that exists, and one per address.
LEMMA SaveInvitationKeeps ==
    ASSUME IInv, NEW r \in Requests, SaveInvitation(r)
    PROVE  IInv'
<1> DEFINE row == [state |-> "pending", org |-> requests[r].org,
                   email |-> requests[r].person, role |-> requests[r].role]
<1>1. PICK i \in Invites : invites' = [invites EXCEPT ![i] = row]
  BY DEF SaveInvitation, Same
<1>2. /\ UNCHANGED <<users, members, orgs, signups, openings, overlapped, changing, raced>>
      /\ Answer(r) /\ requests[r].pc = "cleared"
  BY DEF SaveInvitation
<1>3. /\ row.state = "pending" /\ row.org \in orgs /\ row.email \in People
      /\ row.role \in Roles /\ row \in Invitation
  BY <1>2 DEF IInv, TypeOK, RequestsKnown, StillSo, InviteSteps, Invitation
<1>4. \A j \in Invites : invites'[j] = IF j = i THEN row ELSE invites[j]
  BY <1>1 DEF IInv, TypeOK
<1> HIDE DEF row
<1>5. requests' \in [Requests -> Request] /\ RequestsKnown' /\ ReviewedByOne'
  BY <1>2, AnswerForm, RequestsKeep
<1>6. TypeOK'
  BY <1>1, <1>2, <1>3, <1>5 DEF IInv, TypeOK
<1>7. RowsKnown'
  BY <1>2, <1>3, <1>4 DEF IInv, RowsKnown, OneOrganizationPerUser, Pending
<1>8. AfterFirstLogin'
  BY <1>2 DEF IInv, BeforeFirstLogin, AfterFirstLogin, Owners, Bootstrapping, InviteSteps
<1>9. ChangesKnown'
  BY <1>2, ChangesStay
<1> QED
  BY <1>5, <1>6, <1>7, <1>8, <1>9 DEF IInv

\* A new signup request is one that nobody has read or locked.
LEMMA SaveSignupKeeps ==
    ASSUME IInv, NEW r \in Requests, SaveSignup(r)
    PROVE  IInv'
<1>1. /\ UNCHANGED <<users, members, orgs, invites, openings, overlapped, changing, raced>>
      /\ Answer(r) /\ requests[r].pc = "signing_up"
  BY DEF SaveSignup
<1>2. CASE UNCHANGED signups
  BY <1>1, <1>2, AnswerStep DEF data
<1>3. ASSUME NEW s \in Signups, signups[s].status = "none",
             signups' = [signups EXCEPT ![s] = [status |-> "pending", email |-> requests[r].person]]
      PROVE  IInv'
  <2>1. requests[r].person \in People
    BY <1>1 DEF IInv, RequestsKnown, StillSo
  <2>2. \A t \in Signups : signups'[t] =
           IF t = s THEN [status |-> "pending", email |-> requests[r].person] ELSE signups[t]
    BY <1>3 DEF IInv, TypeOK
  <2>3. \A t \in Requests : requests[t].pc \in ApproveSteps => requests[t].signup # s
    <3> SUFFICES ASSUME NEW t \in Requests, requests[t].pc \in ApproveSteps
                 PROVE  requests[t].signup # s
      OBVIOUS
    <3>1. StillSo(requests[t])
      BY Known
    <3> QED
      BY <3>1, <1>3 DEF StillSo
  <2>4. requests' \in [Requests -> Request] /\ RequestsKnown' /\ ReviewedByOne'
    <3>1. \A t \in Signups : signups'[t] = signups[t] \/ t = s
      BY <2>2
    <3> QED
      BY <1>1, <1>3, <2>3, <3>1, AnswerForm, RequestsKeep
  <2>5. TypeOK'
    BY <1>1, <1>3, <2>1, <2>4 DEF IInv, TypeOK, SignupRequest
  <2>6. RowsKnown'
    BY <1>1, <1>3, <2>1, <2>2 DEF IInv, RowsKnown, OneOrganizationPerUser, Pending
  <2>7. BeforeFirstLogin => BeforeFirstLogin'
    BY <1>1, AnswerForm, BootstrappingKept DEF BeforeFirstLogin, Pending
  <2>8. AfterFirstLogin => AfterFirstLogin'
    BY <1>1 DEF AfterFirstLogin, Owners
  <2>9. ChangesKnown'
    BY <1>1, ChangesStay
  <2> QED
    BY <2>4, <2>5, <2>6, <2>7, <2>8, <2>9 DEF IInv
<1> QED
  BY <1>2, <1>3 DEF SaveSignup

\* An approval decides the request that its own lock kept pending.
LEMMA SaveApprovalKeeps ==
    ASSUME IInv, NEW r \in Requests, SaveApproval(r)
    PROVE  IInv'
<1> DEFINE s == requests[r].signup
<1>1. /\ UNCHANGED <<users, members, orgs, invites, overlapped, changing, raced>>
      /\ Answer(r) /\ requests[r].pc = "approved"
      /\ openings' = openings \cup {s}
      /\ signups' = [signups EXCEPT ![s].status = "approved"]
  BY DEF SaveApproval
<1>2. s \in Signups /\ signups[s].status = "pending"
  <2>1. requests[r].pc \in ApproveSteps
    BY <1>1 DEF ApproveSteps
  <2> QED
    <3>1. StillSo(requests[r])
      BY Known
    <3> QED
      BY <2>1, <3>1 DEF StillSo
<1>3. \A t \in Signups : signups'[t] = IF t = s THEN [signups[s] EXCEPT !.status = "approved"]
                                        ELSE signups[t]
  BY <1>1 DEF IInv, TypeOK
<1>4. \A t \in Requests \ {r} : requests[t].pc \in ApproveSteps => requests[t].signup # s
  BY <1>1 DEF IInv, ReviewedByOne, ApproveSteps
<1> HIDE DEF s
<1>5. requests' \in [Requests -> Request] /\ RequestsKnown' /\ ReviewedByOne'
  <2>1. \A t \in Signups : signups'[t] = signups[t] \/ t = s
    BY <1>3
  <2>2. /\ {r} \in SUBSET Requests
        /\ requests' = [t \in Requests |-> IF t \in {r} THEN Idle ELSE requests[t]]
    BY <1>1, AnswerForm
  <2>3. users \subseteq users' /\ orgs \subseteq orgs'
    BY <1>1
  <2>4. signups[s].status # "approved"
    BY <1>2
  <2>5. ASSUME NEW x \in Signups
        PROVE  \/ signups'[x] = signups[x]
               \/ /\ signups[x].status # "approved"
                  /\ \A t \in Requests \ {r} :
                        requests[t].pc \in ApproveSteps => requests[t].signup # x
    BY <1>4, <2>1, <2>4
  <2> QED
    BY <2>2, <2>3, <2>5, RequestsKeep
<1>6. TypeOK'
  BY <1>1, <1>2, <1>5 DEF IInv, TypeOK, SignupRequest
<1>7. RowsKnown'
  BY <1>1, <1>2, <1>3 DEF IInv, RowsKnown, OneOrganizationPerUser, Pending, TypeOK, SignupRequest
<1>8. AfterFirstLogin'
  BY <1>1 DEF IInv, BeforeFirstLogin, AfterFirstLogin, Owners, Bootstrapping, ApproveSteps
<1>9. ChangesKnown'
  BY <1>1, ChangesStay
<1> QED
  BY <1>5, <1>6, <1>7, <1>8, <1>9 DEF IInv

-----------------------------------------------------------------------------
\* What a login that registers writes: one membership, by a person who had none,
\* in an organization that exists from now on.
LEMMA Registers ==
    ASSUME IInv, NEW r \in Requests, Register(r)
    PROVE  /\ requests[r].person \in People /\ ~HasMembership(requests[r].person)
           /\ users' = users \cup {requests[r].person}
           /\ \E m \in Membership :
                 /\ m.user = requests[r].person
                 /\ members' = members \cup {m}
                 /\ \/ /\ m.org \notin orgs /\ orgs' = orgs \cup {m.org} /\ m.role = "owner"
                       /\ requests[r].chances # {}
                    \/ /\ m.org \in orgs /\ orgs' = orgs
                       /\ requests[r].existing = None
                       /\ \E f \in requests[r].offers : f.role = m.role
<1>1. /\ requests[r].pc = "registering" /\ Insertable(r) /\ (Found(r) \/ Accept(r))
      /\ users' = users \cup {requests[r].person}
  BY DEF Register
<1>2. requests[r].person \in People /\ ~HasMembership(requests[r].person)
  <2>1. StillSo(requests[r])
    BY Known
  <2>2. requests[r].person \in People
    BY <1>1, <2>1 DEF StillSo
  <2> QED
    BY <1>1, <2>2 DEF Insertable
<1>3. CASE Found(r)
  <2>1. PICK o \in Orgs \ orgs :
           /\ orgs' = orgs \cup {o}
           /\ members' = members \cup {[user |-> requests[r].person, org |-> o, role |-> "owner"]}
    BY <1>3 DEF Found
  <2>2. [user |-> requests[r].person, org |-> o, role |-> "owner"] \in Membership
    BY <1>2 DEF Membership, Roles
  <2> QED
    BY <1>1, <1>2, <1>3, <2>1, <2>2 DEF Found
<1>4. CASE Accept(r)
  <2>1. PICK f \in requests[r].offers :
           members' = members \cup {[user |-> requests[r].person, org |-> f.org, role |-> f.role]}
    BY <1>4 DEF Accept
  <2>2. f \in Offer /\ f.org \in orgs
    BY Known DEF Request, StillSo
  <2>3. [user |-> requests[r].person, org |-> f.org, role |-> f.role] \in Membership
    BY <1>2, <2>2 DEF Membership, Offer
  <2>4. orgs' = orgs /\ requests[r].existing = None
    <3>1. StillSo(requests[r])
      BY Known
    <3> QED
      BY <1>1, <1>4, <3>1 DEF Accept, StillSo
  <2> QED
    BY <1>1, <1>2, <2>1, <2>2, <2>3, <2>4
<1> QED
  BY <1>1, <1>3, <1>4
\* The membership written is the person's only one; the first is an owner's.
LEMMA RegisterKeeps ==
    ASSUME IInv, NEW r \in Requests, Register(r)
    PROVE  IInv'
<1>1. PICK m \in Membership :
         /\ m.user = requests[r].person
         /\ members' = members \cup {m}
         /\ \/ /\ m.org \notin orgs /\ orgs' = orgs \cup {m.org} /\ m.role = "owner"
               /\ requests[r].chances # {}
            \/ /\ m.org \in orgs /\ orgs' = orgs
               /\ \E f \in requests[r].offers : f.role = m.role
  BY Registers
<1>2. /\ requests[r].person \in People /\ ~HasMembership(requests[r].person)
      /\ users' = users \cup {requests[r].person}
  BY Registers
<1>3. /\ Answer(r) /\ UNCHANGED <<signups, overlapped, changing, raced>>
      /\ openings' = openings \ requests[r].chances
      /\ \A i \in Invites : invites'[i] \in {invites[i], NoInvitation("gone")}
      /\ invites' = [i \in Invites |-> invites'[i]]
  BY DEF Register
<1>4. requests' \in [Requests -> Request] /\ RequestsKnown' /\ ReviewedByOne'
  BY <1>1, <1>2, <1>3, AnswerForm, RequestsKeep
<1>5. m.org \in Orgs /\ m.user \in People
  BY DEF Membership
<1>6. TypeOK'
  <2>1. \A i \in Invites : invites'[i] \in Invitation
    BY <1>3 DEF IInv, TypeOK, NoInvitation, Invitation
  <2> QED
    BY <1>1, <1>2, <1>3, <1>4, <1>5, <2>1 DEF IInv, TypeOK
<1>7. \A i \in Invites : Pending(i)' => Pending(i) /\ invites'[i] = invites[i]
  BY <1>3 DEF Pending, NoInvitation
<1>8. RowsKnown'
  BY <1>1, <1>2, <1>3, <1>7 DEF IInv, RowsKnown, OneOrganizationPerUser, HasMembership
<1>9. AfterFirstLogin'
  <2>1. users' # {} /\ orgs' # {}
    BY <1>1, <1>2
  <2>2. CASE BeforeFirstLogin
    BY <2>1, <2>2, <1>1 DEF BeforeFirstLogin, Bootstrapping, AfterFirstLogin, Owners
  <2>3. CASE AfterFirstLogin
    BY <2>1, <2>3, <1>1, <1>3 DEF AfterFirstLogin, Owners
  <2> QED
    BY <2>2, <2>3 DEF IInv
<1>10. ChangesKnown'
  BY <1>1, <1>3, ChangesStay
<1> QED
  BY <1>4, <1>6, <1>8, <1>9, <1>10 DEF IInv

-----------------------------------------------------------------------------
\* Every step keeps the invariant: one case per operation.
LEMMA NextKeeps ==
    ASSUME IInv, [Next]_vars
    PROVE  IInv'
<1>1. CASE UNCHANGED vars
  <2>1. UNCHANGED data /\ UNCHANGED requests /\ UNCHANGED overlapped
    BY <1>1 DEF vars, data
  <2>2. TypeOK' /\ RowsKnown'
    BY <2>1 DEF IInv, TypeOK, RowsKnown, OneOrganizationPerUser, Pending, data
  <2>3. RequestsKnown' /\ ReviewedByOne'
    BY <2>1 DEF IInv, RequestsKnown, StillSo, ReviewedByOne, data
  <2>4. (BeforeFirstLogin => BeforeFirstLogin') /\ (AfterFirstLogin => AfterFirstLogin')
    BY <2>1 DEF BeforeFirstLogin, AfterFirstLogin, Owners, Bootstrapping, Pending, data
  <2>5. ChangesKnown'
    BY <2>1, ChangesStay DEF data
  <2> QED
    BY <2>2, <2>3, <2>4, <2>5 DEF IInv
<1>2. CASE Bootstrap
  BY <1>2, BootstrapKeeps
<1>3. ASSUME NEW c \in Changes, StartChange(c) \/ SaveChange(c) \/ AbortChange(c)
      PROVE  IInv'
  BY <1>3, StartChangeKeeps, SaveChangeKeeps, AbortChangeKeeps
<1>4. ASSUME NEW i \in Invites, RevokeInvitation(i) PROVE IInv'
  BY <1>4, RevokeInvitationKeeps
<1>5. ASSUME NEW s \in Signups, Reject(s) PROVE IInv'
  BY <1>5, RejectKeeps
<1>6. ASSUME NEW r \in Requests, Login(r) PROVE IInv'
  BY <1>6, ReadUserKeeps, ReadOpeningsKeeps, ReadInvitationsKeeps, RegisterKeeps DEF Login
<1>7. ASSUME NEW r \in Requests, Invite(r) PROVE IInv'
  <2>1. CASE CheckMembership(r)
    BY <2>1, CheckStep DEF CheckMembership, InviteSteps
  <2>2. CASE CheckElsewhere(r)
    BY <2>2, CheckStep DEF CheckElsewhere, InviteSteps
  <2>3. CASE CheckOpening(r)
    BY <2>3, CheckStep DEF CheckOpening, InviteSteps
  <2> QED
    BY <1>7, <2>1, <2>2, <2>3, StartInviteKeeps, SaveInvitationKeeps DEF Invite
<1>8. ASSUME NEW r \in Requests, Signup(r) PROVE IInv'
  BY <1>8, StartSignupKeeps, SaveSignupKeeps DEF Signup
<1>9. ASSUME NEW r \in Requests, Approve(r) PROVE IInv'
  <2>1. CASE CheckApplicant(r)
    BY <2>1, CheckStep DEF CheckApplicant, ApproveSteps
  <2> QED
    BY <1>9, <2>1, LockSignupKeeps, SaveApprovalKeeps DEF Approve
<1>10. ASSUME NEW r \in Requests, Abort(r) PROVE IInv'
  BY <1>10, AnswerStep DEF Abort, data
<1> QED
  BY <1>1, <1>2, <1>3, <1>4, <1>5, <1>6, <1>7, <1>8, <1>9, <1>10 DEF Next

\* It holds of the empty database.
LEMMA InitHolds ==
    ASSUME Init
    PROVE  IInv
<1>1. TypeOK
  BY IdleFits DEF Init, TypeOK, NoInvitation, Invitation, SignupRequest, Change, NoChange
<1>2. \A r \in Requests : requests[r] = Idle
  BY DEF Init
<1>3. \A i \in Invites : ~Pending(i)
  BY DEF Init, Pending, NoInvitation
<1>4. RowsKnown
  BY <1>3 DEF Init, RowsKnown, OneOrganizationPerUser
<1>5. RequestsKnown /\ ReviewedByOne
  BY <1>2, IdleFits DEF RequestsKnown, ReviewedByOne, Idle, ApproveSteps
<1>6. BeforeFirstLogin
  BY <1>2, <1>3, IdleFits DEF Init, BeforeFirstLogin
<1>7. ChangesKnown
  BY DEF Init, ChangesKnown, ChangeKnown
<1> QED
  BY <1>1, <1>4, <1>5, <1>6, <1>7 DEF IInv

\* Whatever requests overlap, what they have read and still rely on is so, and
\* the rows refer to one another as they should.
THEOREM Inductive == Spec => []IInv
<1>1. Init => IInv
  BY InitHolds
<1>2. IInv /\ [Next]_vars => IInv'
  BY NextKeeps
<1> QED
  BY <1>1, <1>2, PTL DEF Spec

\* Type correctness.
THEOREM TypeCorrect == Spec => []TypeOK
<1>1. IInv => TypeOK
  BY DEF IInv
<1> QED
  BY <1>1, Inductive, PTL

\* The unique constraint on memberships.user_id is enough: whatever a person
\* accepts at one time, one membership comes of it.
THEOREM OneOrganization == Spec => []OneOrganizationPerUser
<1>1. IInv => OneOrganizationPerUser
  BY DEF IInv, RowsKnown
<1> QED
  BY <1>1, Inductive, PTL

\* From the bootstrap on, no interleaving of logins, revocations, approvals and
\* changes of other organizations' members leaves an organization without an
\* owner or somebody to become it: two changes of its own that overlap have to.
THEOREM OwnersExist == Spec => []OrganizationsHaveOwners
<1>1. IInv => OrganizationsHaveOwners
  BY DEF IInv, BeforeFirstLogin, AfterFirstLogin, Owners, OrganizationsHaveOwners
<1> QED
  BY <1>1, Inductive, PTL

-----------------------------------------------------------------------------
\* A change of a member makes nobody a member.
LEMMA ChangeWritten ==
    ASSUME NEW c \in Changes, StartChange(c) \/ SaveChange(c) \/ AbortChange(c)
    PROVE  /\ \A m \in members' : HasMembership(m.user)
           /\ UNCHANGED <<users, orgs, invites, signups, openings, requests, overlapped>>
<1>1. CASE StartChange(c)
  BY <1>1 DEF StartChange, Begin, HasMembership
<1>2. CASE SaveChange(c)
  BY <1>2 DEF SaveChange, HasMembership
<1>3. CASE AbortChange(c)
  BY <1>3 DEF AbortChange, HasMembership
<1> QED
  BY <1>1, <1>2, <1>3

\* Which actions write the memberships and organizations.
LEMMA MembersWritten ==
    ASSUME [Next]_vars
    PROVE  \/ orgs' = orgs /\ \A m \in members' : HasMembership(m.user)
           \/ members' = members /\ orgs = {}
           \/ \E r \in Requests : Register(r)
BY ChangeWritten DEF Next, vars, HasMembership, Bootstrap,
       RevokeInvitation, Reject, Login, Invite, Signup,
       Approve, Abort, ReadUser, ReadOpenings, ReadInvitations, StartInvite, CheckMembership,
       CheckElsewhere, CheckOpening, SaveInvitation, StartSignup, SaveSignup, LockSignup,
       CheckApplicant, SaveApproval, Check

\* Which actions write the signup requests.
LEMMA SignupsWritten ==
    ASSUME [Next]_vars
    PROVE  \/ UNCHANGED signups
           \/ \E s \in Signups : Reject(s)
           \/ \E r \in Requests : SaveSignup(r) \/ SaveApproval(r)
BY ChangeWritten DEF Next, vars, Bootstrap,
       RevokeInvitation, Login, Invite, Signup,
       Approve, Abort, ReadUser, ReadOpenings, ReadInvitations, Register, StartInvite,
       CheckMembership, CheckElsewhere, CheckOpening, SaveInvitation, StartSignup, LockSignup,
       CheckApplicant, Check

\* Of an approval and a rejection that race, one decides: SELECT FOR UPDATE
\* holds the other back until the status is no longer pending.
THEOREM DecisionsStay == Spec => DecisionsAreFinal
<1>1. IInv /\ [Next]_vars =>
        [\A s \in Signups :
           signups[s].status \in {"approved", "rejected"} => signups'[s] = signups[s]]_vars
  <2> SUFFICES ASSUME IInv, [Next]_vars, NEW s \in Signups,
                      signups[s].status \in {"approved", "rejected"}
               PROVE  signups'[s] = signups[s]
    OBVIOUS
  <2>1. ASSUME NEW t \in Signups, Reject(t) PROVE signups'[s] = signups[s]
    BY <2>1 DEF Reject, IInv, TypeOK
  <2>2. ASSUME NEW r \in Requests, SaveSignup(r) PROVE signups'[s] = signups[s]
    BY <2>2 DEF SaveSignup, IInv, TypeOK
  <2>3. ASSUME NEW r \in Requests, SaveApproval(r) PROVE signups'[s] = signups[s]
    <3>1. requests[r].pc \in ApproveSteps
      BY <2>3 DEF SaveApproval, ApproveSteps
    <3>2. requests[r].signup # s
      <4>1. StillSo(requests[r])
        BY Known
      <4> QED
        BY <3>1, <4>1 DEF StillSo
    <3> QED
      BY <2>3, <3>2 DEF SaveApproval, IInv, TypeOK
  <2> QED
    BY <2>1, <2>2, <2>3, SignupsWritten
<1> QED
  BY <1>1, Inductive, PTL DEF Spec, DecisionsAreFinal

\* A stale login founds nothing for a request that was rejected.
THEOREM FoundersApproved == Spec => FoundedOnApproval
<1>1. IInv /\ [Next]_vars =>
        [\A o \in orgs' \ orgs :
           \/ orgs = {}
           \/ \E s \in Signups, m \in members' :
                 /\ signups[s] = [status |-> "approved", email |-> m.user]
                 /\ m.org = o /\ m.role = "owner"]_vars
  <2> SUFFICES ASSUME IInv, [Next]_vars, NEW o \in orgs' \ orgs, orgs # {}
               PROVE  \E s \in Signups, m \in members' :
                         /\ signups[s] = [status |-> "approved", email |-> m.user]
                         /\ m.org = o /\ m.role = "owner"
    OBVIOUS
  <2>1. PICK r \in Requests : Register(r)
    BY MembersWritten
  <2>2. PICK m \in Membership :
           /\ m.user = requests[r].person
           /\ members' = members \cup {m}
           /\ orgs' = orgs \cup {m.org} /\ m.role = "owner" /\ requests[r].chances # {}
    BY <2>1, Registers
  <2>3. PICK s \in requests[r].chances :
           s \in Signups /\ signups[s] = [status |-> "approved", email |-> requests[r].person]
    BY <2>2, Known DEF StillSo, Request
  <2> QED
    BY <2>2, <2>3
<1> QED
  BY <1>1, Inductive, PTL DEF Spec, FoundedOnApproval

\* Only a login that found no account accepts an invitation.
THEOREM JoinersAreNew == Spec => UsersJoinByFounding
<1>1. IInv /\ [Next]_vars =>
        [\A m \in members' \ members :
           m.user \in users /\ ~HasMembership(m.user) /\ m.org \in orgs =>
           \E r \in Requests :
              /\ requests[r].pc = "registering" /\ requests'[r].pc = "idle"
              /\ requests[r].person = m.user /\ requests[r].existing = None]_vars
  <2> SUFFICES ASSUME IInv, [Next]_vars, NEW m \in members' \ members,
                      ~HasMembership(m.user), m.org \in orgs
               PROVE  \E r \in Requests :
                         /\ requests[r].pc = "registering" /\ requests'[r].pc = "idle"
                         /\ requests[r].person = m.user /\ requests[r].existing = None
    OBVIOUS
  <2>1. PICK r \in Requests : Register(r)
    BY MembersWritten
  <2>2. requests[r].pc = "registering" /\ requests'[r] = Idle
    BY <2>1 DEF Register, Answer, IInv, TypeOK
  <2>3. requests[r].person = m.user /\ requests[r].existing = None
    BY <2>1, Registers
  <2> QED
    BY <2>2, <2>3 DEF Idle
<1> QED
  BY <1>1, Inductive, PTL DEF Spec, UsersJoinByFounding

-----------------------------------------------------------------------------
(* The single-organization model, of requests one after another.           *)

\* Rows disappear, or change in columns no check reads.
RowsOnlyGo ==
    /\ \A m \in members' : HasMembership(m.user)
    /\ \A i \in Invites : Pending(i)' => Pending(i) /\ invites'[i] = invites[i]
    /\ openings' \subseteq openings
    /\ \A s \in openings : signups'[s].email = signups[s].email

\* What disappears invalidates neither the model nor what a request missed.
LEMMA ModelSurvivesRemovals ==
    ASSUME RowsOnlyGo
    PROVE  /\ NothingPendingForMembers => NothingPendingForMembers'
           /\ OneInvitationPerEmail => OneInvitationPerEmail'
           /\ \A q : NothingMissed(q) => NothingMissed(q)'
<1>1. NothingPendingForMembers => NothingPendingForMembers'
  BY DEF RowsOnlyGo, NothingPendingForMembers, HasMembership
<1>2. OneInvitationPerEmail => OneInvitationPerEmail'
  BY DEF RowsOnlyGo, OneInvitationPerEmail
<1>3. ASSUME NEW p
      PROVE  /\ ~HasMembership(p) => ~HasMembership(p)'
             /\ \A i \in PendingFor(p)' : i \in PendingFor(p) /\ invites'[i] = invites[i]
             /\ OpeningsFor(p)' \subseteq OpeningsFor(p)
  BY DEF RowsOnlyGo, HasMembership, PendingFor, OpeningsFor
<1>4. ASSUME NEW q, NothingMissed(q) PROVE NothingMissed(q)'
  BY <1>3, <1>4 DEF NothingMissed
<1>5. QED BY <1>1, <1>2, <1>4

\* A change of a member, a revocation or a rejection beside an open request.
LEMMA RemovalStep ==
    ASSUME SerialInv, RowsOnlyGo, UNCHANGED <<requests, overlapped>>
    PROVE  SerialInv'
<1>1. CASE overlapped
  BY <1>1 DEF SerialInv
<1>2. CASE ~overlapped
  <2>1. OneAtATime'
    BY <1>2 DEF SerialInv, OneAtATime
  <2>2. \A r \in Requests : NothingMissed(requests[r])'
    BY <1>2, ModelSurvivesRemovals DEF SerialInv
  <2>3. NothingPendingForMembers' /\ OneInvitationPerEmail'
    BY <1>2, ModelSurvivesRemovals DEF SerialInv
  <2>4. QED BY <2>1, <2>2, <2>3 DEF SerialInv
<1>3. QED BY <1>1, <1>2

\* A request that begins, goes on or is answered while nothing is written.
LEMMA ReadStep ==
    ASSUME IInv, SerialInv, UNCHANGED data, overlapped => overlapped',
           NEW r \in Requests, NEW new, requests' = [requests EXCEPT ![r] = new],
           ~overlapped' => /\ NothingMissed(new)
                           /\ new.pc # "idle" =>
                                \A t \in Requests \ {r} : requests[t].pc = "idle"
    PROVE  SerialInv'
<1>1. \A t \in Requests : requests'[t] = IF t = r THEN new ELSE requests[t]
  BY DEF IInv, TypeOK
<1>2. CASE overlapped'
  BY <1>2 DEF SerialInv
<1>3. CASE ~overlapped'
  <2>1. /\ OneAtATime /\ \A t \in Requests : NothingMissed(requests[t])
        /\ NothingPendingForMembers /\ OneInvitationPerEmail
    BY <1>3 DEF SerialInv
  <2>2. RowsOnlyGo
    BY DEF RowsOnlyGo, HasMembership, Pending, data
  <2>3. OneAtATime'
    BY <1>1, <1>3, <2>1 DEF OneAtATime
  <2>4. ASSUME NEW t \in Requests PROVE NothingMissed(requests[t])'
    <3>1. NothingMissed(requests'[t])
      BY <1>1, <1>3, <2>1
    <3>2. \A q : NothingMissed(q) => NothingMissed(q)'
      BY <2>2, ModelSurvivesRemovals
    <3>3. PICK q : q = requests'[t]
      OBVIOUS
    <3>4. NothingMissed(q)'
      BY <3>1, <3>2, <3>3
    <3>5. QED BY <3>3, <3>4
  <2>5. NothingPendingForMembers' /\ OneInvitationPerEmail'
    BY <2>1, <2>2, ModelSurvivesRemovals
  <2>6. QED BY <2>3, <2>4, <2>5 DEF SerialInv
<1>4. QED BY <1>2, <1>3

\* A request that writes is answered, so no request is open any more.
LEMMA WriteStep ==
    ASSUME IInv, SerialInv, NEW r \in Requests, requests[r].pc # "idle", Answer(r),
           overlapped' = overlapped,
           ~overlapped /\ NothingMissed(requests[r])
              /\ NothingPendingForMembers /\ OneInvitationPerEmail
              => NothingPendingForMembers' /\ OneInvitationPerEmail'
    PROVE  SerialInv'
<1>1. CASE overlapped
  BY <1>1 DEF SerialInv
<1>2. CASE ~overlapped
  <2>1. /\ OneAtATime /\ NothingMissed(requests[r])
        /\ NothingPendingForMembers /\ OneInvitationPerEmail
    BY <1>2 DEF SerialInv
  <2>2. \A t \in Requests : requests'[t] = IF t = r THEN Idle ELSE requests[t]
    BY DEF Answer, IInv, TypeOK
  <2>3. \A t \in Requests : requests'[t].pc = "idle"
    BY <2>1, <2>2 DEF OneAtATime, Idle
  <2>4. OneAtATime' /\ \A t \in Requests : NothingMissed(requests[t])'
    BY <2>3 DEF OneAtATime, NothingMissed
  <2>5. QED BY <1>2, <2>1, <2>4 DEF SerialInv
<1>3. QED BY <1>1, <1>2

\* An answered request has missed nothing.
LEMMA IdleMissesNothing == Idle.pc = "idle" /\ NothingMissed(Idle)
BY DEF Idle, NothingMissed

LEMMA AnswerSerial ==
    ASSUME IInv, SerialInv, NEW r \in Requests, Answer(r), UNCHANGED <<data, overlapped>>
    PROVE  SerialInv'
<1>1. requests' = [requests EXCEPT ![r] = Idle]
  BY DEF Answer
<1>2. UNCHANGED data /\ (overlapped => overlapped')
  OBVIOUS
<1>3. QED BY <1>1, <1>2, IdleMissesNothing, ReadStep

\* A request that begins has neither checked nor read anything yet.
LEMMA OpenSerial ==
    ASSUME IInv, SerialInv, NEW r \in Requests, NEW new, Open(r, new), UNCHANGED data,
           new.pc \in {"login", "inviting", "signing_up", "approving"}
    PROVE  SerialInv'
<1>1. requests' = [requests EXCEPT ![r] = new] /\ (overlapped => overlapped')
  BY DEF Open
<1>2. ~overlapped' => \A t \in Requests \ {r} : requests[t].pc = "idle"
  BY DEF Open
<1>3. NothingMissed(new)
  BY DEF NothingMissed
<1>4. QED BY <1>1, <1>2, <1>3, ReadStep

\* A request that is open is the only one.
LEMMA TheOnlyOne ==
    ASSUME SerialInv, ~overlapped, NEW r \in Requests, requests[r].pc # "idle"
    PROVE  /\ \A t \in Requests \ {r} : requests[t].pc = "idle"
           /\ NothingMissed(requests[r])
BY DEF SerialInv, OneAtATime

\* A check that passes leaves one thing less to miss.
LEMMA CheckSerial ==
    ASSUME IInv, SerialInv, NEW r \in Requests, NEW ok, NEW pc, Check(r, ok, pc),
           requests[r].pc # "idle",
           NothingMissed(requests[r]) /\ ok => NothingMissed([requests[r] EXCEPT !.pc = pc])
    PROVE  SerialInv'
<1>1. UNCHANGED <<data, overlapped>>
  BY DEF Check, data
<1>2. CASE Answer(r)
  BY <1>1, <1>2, AnswerSerial
<1>3. CASE ok /\ Move(r, pc)
  <2> DEFINE new == [requests[r] EXCEPT !.pc = pc]
  <2>1. requests' = [requests EXCEPT ![r] = new]
    BY <1>3 DEF Move, IInv, TypeOK
  <2>2. ~overlapped' => /\ NothingMissed(new)
                        /\ \A t \in Requests \ {r} : requests[t].pc = "idle"
    BY <1>1, <1>3, TheOnlyOne
  <2> HIDE DEF new
  <2>3. QED BY <1>1, <2>1, <2>2, ReadStep
<1>4. QED BY <1>2, <1>3 DEF Check

\* A membership, an invitation of another organization and an org-creation
\* invitation are looked for in this order.
LEMMA InviteChecksSerial ==
    ASSUME IInv, SerialInv, NEW r \in Requests,
           CheckMembership(r) \/ CheckElsewhere(r) \/ CheckOpening(r)
    PROVE  SerialInv'
<1> DEFINE req == requests[r]
<1>1. req \in Request
  BY DEF IInv, TypeOK
<1>2. ASSUME NEW pc
      PROVE  /\ [req EXCEPT !.pc = pc].pc = pc /\ [req EXCEPT !.pc = pc].person = req.person
             /\ [req EXCEPT !.pc = pc].org = req.org
  BY <1>1 DEF Request
<1>3. CASE CheckMembership(r)
  <2>1. /\ req.pc = "inviting"
        /\ Check(r, ~HasMembership(req.person), "eligible")
    BY <1>3 DEF CheckMembership
  <2>2. ~HasMembership(req.person) => NothingMissed([req EXCEPT !.pc = "eligible"])
    BY <1>2 DEF NothingMissed
  <2>3. QED BY <2>1, <2>2, CheckSerial
<1>4. CASE CheckElsewhere(r)
  <2> DEFINE ok == \A i \in Invites : Pending(i) /\ invites[i].email = req.person
                                        => invites[i].org = req.org
  <2>1. req.pc = "eligible" /\ Check(r, ok, "unrivalled")
    BY <1>4 DEF CheckElsewhere
  <2>2. NothingMissed(req) /\ ok => NothingMissed([req EXCEPT !.pc = "unrivalled"])
    BY <1>2, <2>1 DEF NothingMissed, PendingFor
  <2> HIDE DEF ok
  <2>3. QED BY <2>1, <2>2, CheckSerial
<1>5. CASE CheckOpening(r)
  <2> DEFINE ok == \A s \in openings : signups[s].email # req.person
  <2>1. req.pc = "unrivalled" /\ Check(r, ok, "cleared")
    BY <1>5 DEF CheckOpening
  <2>2. NothingMissed(req) /\ ok => NothingMissed([req EXCEPT !.pc = "cleared"])
    BY <1>2, <2>1 DEF NothingMissed, OpeningsFor
  <2> HIDE DEF ok
  <2>3. QED BY <2>1, <2>2, CheckSerial
<1>6. QED BY <1>3, <1>4, <1>5

\* The applicant's membership is looked for under the lock.
LEMMA CheckApplicantSerial ==
    ASSUME IInv, SerialInv, NEW r \in Requests, CheckApplicant(r)
    PROVE  SerialInv'
<1> DEFINE req == requests[r]
<1>1. req.pc = "approving" /\ Check(r, ~HasMembership(req.person), "approved")
  BY DEF CheckApplicant
<1>2. [req EXCEPT !.pc = "approved"].pc = "approved"
      /\ [req EXCEPT !.pc = "approved"].person = req.person
  BY DEF IInv, TypeOK, Request
<1>3. ~HasMembership(req.person) => NothingMissed([req EXCEPT !.pc = "approved"])
  BY <1>2 DEF NothingMissed
<1>4. QED BY <1>1, <1>3, CheckSerial

\* A login reads every org-creation invitation of the person,
LEMMA ReadOpeningsSerial ==
    ASSUME IInv, SerialInv, NEW r \in Requests, ReadOpenings(r)
    PROVE  SerialInv'
<1> DEFINE found == {s \in openings : signups[s].email = requests[r].person}
           new == [requests[r] EXCEPT !.pc = "offered", !.chances = found]
<1>1. requests[r].pc = "login" /\ UNCHANGED <<data, overlapped>>
  BY DEF ReadOpenings, data
<1>2. CASE Answer(r)
  BY <1>1, <1>2, AnswerSerial
<1>3. CASE requests' = [requests EXCEPT ![r].pc = "offered", ![r].chances = found]
  <2>1. requests' = [requests EXCEPT ![r] = new]
    BY <1>3 DEF IInv, TypeOK
  <2>2. new.pc = "offered" /\ new.person = requests[r].person /\ new.chances = found
    BY DEF IInv, TypeOK, Request
  <2>3. NothingMissed(new)
    BY <2>2 DEF NothingMissed, OpeningsFor
  <2>4. ~overlapped' => \A t \in Requests \ {r} : requests[t].pc = "idle"
    BY <1>1, TheOnlyOne
  <2> HIDE DEF new
  <2>5. QED BY <1>1, <2>1, <2>3, <2>4, ReadStep
<1>4. QED BY <1>2, <1>3 DEF ReadOpenings

\* and every invitation; it goes on only with something to accept.
LEMMA ReadInvitationsSerial ==
    ASSUME IInv, SerialInv, NEW r \in Requests, ReadInvitations(r)
    PROVE  SerialInv'
<1> DEFINE found == {i \in Invites : Pending(i) /\ invites[i].email = requests[r].person}
           read == {[id |-> i, org |-> invites[i].org, role |-> invites[i].role] : i \in found}
           new == [requests[r] EXCEPT !.pc = "registering", !.offers = read]
<1>1. requests[r].pc = "offered" /\ UNCHANGED <<data, overlapped>>
  BY DEF ReadInvitations, data
<1>2. CASE Answer(r)
  BY <1>1, <1>2, AnswerSerial
<1>3. CASE /\ requests' = [requests EXCEPT ![r].pc = "registering", ![r].offers = read]
           /\ ~(requests[r].existing = None /\ found = {} /\ requests[r].chances = {})
  <2>1. requests' = [requests EXCEPT ![r] = new]
    BY <1>3 DEF IInv, TypeOK
  <2>2. /\ new.pc = "registering" /\ new.person = requests[r].person
        /\ new.chances = requests[r].chances /\ new.offers = read
    <3>1. requests[r] \in Request
      BY DEF IInv, TypeOK
    <3> HIDE DEF read
    <3> QED BY <3>1 DEF Request
  <2>3. StillSo(requests[r])
    BY Known
  <2>4. read # {} \/ requests[r].chances # {}
    <3>1. requests[r].existing # None => requests[r].chances # {}
      BY <1>1, <2>3 DEF StillSo
    <3>2. found # {} => read # {}
      OBVIOUS
    <3> HIDE DEF found, read
    <3> QED BY <1>3, <3>1, <3>2
  <2>5. PendingFor(requests[r].person) \subseteq {f.id : f \in read}
    <3>1. SUFFICES ASSUME NEW i \in found PROVE \E f \in read : f.id = i
      BY DEF PendingFor
    <3>2. [id |-> i, org |-> invites[i].org, role |-> invites[i].role] \in read
      OBVIOUS
    <3>3. QED BY <3>2
  <2>6. NothingMissed(requests[r]) => NothingMissed(new)
    BY <1>1, <2>2, <2>4, <2>5 DEF NothingMissed
  <2>7. ~overlapped' => /\ NothingMissed(new)
                        /\ \A t \in Requests \ {r} : requests[t].pc = "idle"
    BY <1>1, <2>6, TheOnlyOne
  <2> HIDE DEF new
  <2>8. QED BY <1>1, <2>1, <2>7, ReadStep
<1>4. QED BY <1>2, <1>3 DEF ReadInvitations

\* The login spends all it has read, which is all there is for the person.
LEMMA RegisterSerial ==
    ASSUME IInv, SerialInv, NEW r \in Requests, Register(r)
    PROVE  SerialInv'
<1> DEFINE req == requests[r]
           spent == {f.id : f \in requests[r].offers}
<1>1. PICK m \in Membership : m.user = req.person /\ members' = members \cup {m}
  BY Registers
<1>2. /\ req.pc = "registering" /\ Answer(r) /\ UNCHANGED <<signups, overlapped,
                                                            changing, raced>>
      /\ openings' = openings \ req.chances
      /\ invites' = [i \in Invites |-> IF i \in spent THEN NoInvitation("gone") ELSE invites[i]]
  BY DEF Register
<1>3. \A i \in Invites : Pending(i)' => Pending(i) /\ invites'[i] = invites[i] /\ i \notin spent
  BY <1>2 DEF Pending, NoInvitation
<1> HIDE DEF spent
<1>4. ASSUME NothingMissed(req), NothingPendingForMembers, OneInvitationPerEmail
      PROVE  NothingPendingForMembers' /\ OneInvitationPerEmail'
  <2>1. PendingFor(req.person) \subseteq spent /\ OpeningsFor(req.person) \subseteq req.chances
    BY <1>2, <1>4 DEF NothingMissed, spent
  <2>2. ASSUME NEW n \in members', NEW i \in Invites, Pending(i)'
        PROVE  invites'[i].email # n.user
    BY <1>1, <1>3, <1>4, <2>1, <2>2 DEF NothingPendingForMembers, PendingFor
  <2>3. ASSUME NEW n \in members', NEW s \in openings'
        PROVE  signups'[s].email # n.user
    BY <1>1, <1>2, <1>4, <2>1 DEF NothingPendingForMembers, OpeningsFor
  <2>4. NothingPendingForMembers'
    BY <2>2, <2>3 DEF NothingPendingForMembers
  <2>5. OneInvitationPerEmail'
    BY <1>3, <1>4 DEF OneInvitationPerEmail
  <2>6. QED BY <2>4, <2>5
<1>5. QED BY <1>2, <1>4, WriteStep

\* The only invitation of the address is updated, or there was none.
LEMMA SaveInvitationSerial ==
    ASSUME IInv, SerialInv, NEW r \in Requests, SaveInvitation(r)
    PROVE  SerialInv'
<1> DEFINE req == requests[r]
           row == [state |-> "pending", org |-> req.org, email |-> req.person, role |-> req.role]
<1>1. PICK i \in Invites :
         /\ invites' = [invites EXCEPT ![i] = row]
         /\ i \in Same(r) \/ Same(r) = {}
  BY DEF SaveInvitation, Same
<1>2. /\ UNCHANGED <<users, members, orgs, signups, openings, overlapped, changing, raced>>
      /\ Answer(r) /\ req.pc = "cleared"
  BY DEF SaveInvitation
<1>3. \A j \in Invites : invites'[j] = IF j = i THEN row ELSE invites[j]
  BY <1>1 DEF IInv, TypeOK
<1>4. row.email = req.person
  OBVIOUS
<1> HIDE DEF row
<1>5. ASSUME NothingMissed(req), NothingPendingForMembers, OneInvitationPerEmail
      PROVE  NothingPendingForMembers' /\ OneInvitationPerEmail'
  <2>1. ~HasMembership(req.person) /\ PendingFor(req.person) = Same(r)
    BY <1>2, <1>5 DEF NothingMissed, PendingFor, Same
  <2>2. ASSUME NEW j \in Invites, Pending(j), invites[j].email = req.person PROVE j = i
    <3>1. j \in Same(r) /\ i \in Same(r)
      BY <1>1, <2>1, <2>2 DEF PendingFor
    <3>2. QED BY <1>5, <2>2, <3>1 DEF OneInvitationPerEmail, Same
  <2>3. \A j \in Invites : Pending(j)' /\ j # i => Pending(j) /\ invites'[j] = invites[j]
    BY <1>3 DEF Pending
  <2>4. invites'[i].email = req.person
    BY <1>3, <1>4
  <2>5. NothingPendingForMembers'
    BY <1>2, <1>5, <2>1, <2>3, <2>4 DEF NothingPendingForMembers, HasMembership
  <2>6. OneInvitationPerEmail'
    BY <1>5, <2>2, <2>3, <2>4 DEF OneInvitationPerEmail
  <2>7. QED BY <2>5, <2>6
<1>6. QED BY <1>2, <1>5, WriteStep

\* A signup request is not an opening before it is approved.
LEMMA SaveSignupSerial ==
    ASSUME IInv, SerialInv, NEW r \in Requests, SaveSignup(r)
    PROVE  SerialInv'
<1>1. /\ UNCHANGED <<members, invites, openings, overlapped, changing, raced>>
      /\ Answer(r) /\ requests[r].pc = "signing_up"
  BY DEF SaveSignup
<1>2. \A s \in openings : signups'[s] = signups[s]
  <2>1. \A s \in openings : s \in Signups /\ signups[s].status = "approved"
    BY DEF IInv, TypeOK, RowsKnown
  <2>2. \A s \in Signups : signups'[s] = signups[s] \/ signups[s].status = "none"
    BY DEF SaveSignup, IInv, TypeOK
  <2>3. QED BY <2>1, <2>2
<1>3. RowsOnlyGo
  BY <1>1, <1>2 DEF RowsOnlyGo, HasMembership, Pending
<1>4. QED BY <1>1, <1>3, ModelSurvivesRemovals, WriteStep

\* The applicant had no membership when the lock was taken, and has none yet.
LEMMA SaveApprovalSerial ==
    ASSUME IInv, SerialInv, NEW r \in Requests, SaveApproval(r)
    PROVE  SerialInv'
<1> DEFINE req == requests[r]
<1>1. /\ UNCHANGED <<members, invites, overlapped, changing, raced>>
      /\ Answer(r) /\ req.pc = "approved"
      /\ openings' = openings \cup {req.signup}
      /\ signups' = [signups EXCEPT ![req.signup].status = "approved"]
  BY DEF SaveApproval
<1>2. req.signup \in Signups /\ signups[req.signup].email = req.person
  <2>1. StillSo(req) /\ req.pc \in ApproveSteps
    BY <1>1, Known DEF ApproveSteps
  <2>2. QED BY <2>1 DEF StillSo
<1>3. \A s \in Signups : signups'[s].email = signups[s].email
  BY <1>1 DEF IInv, TypeOK, SignupRequest
<1>4. ASSUME NothingMissed(req), NothingPendingForMembers, OneInvitationPerEmail
      PROVE  NothingPendingForMembers' /\ OneInvitationPerEmail'
  <2>1. ~HasMembership(req.person)
    BY <1>1, <1>4 DEF NothingMissed
  <2>2. openings \subseteq Signups
    BY DEF IInv, TypeOK
  <2>3. NothingPendingForMembers'
    BY <1>1, <1>2, <1>3, <1>4, <2>1, <2>2 DEF NothingPendingForMembers, HasMembership, Pending
  <2>4. OneInvitationPerEmail'
    BY <1>1, <1>4 DEF OneInvitationPerEmail, Pending
  <2>5. QED BY <2>3, <2>4
<1>5. QED BY <1>1, <1>4, WriteStep

\* Before the first organization there is nothing to accept and nobody to be a
\* member, and the requests that are open have read as much.
LEMMA BootstrapSerial ==
    ASSUME IInv, SerialInv, Bootstrap
    PROVE  SerialInv'
<1>1. PICK o \in Orgs, i \in Invites :
         invites' = [invites EXCEPT ![i] =
            [state |-> "pending", org |-> o, email |-> Admin, role |-> "owner"]]
  BY DEF Bootstrap
<1>2. orgs = {} /\ UNCHANGED <<users, members, signups, openings, requests, overlapped,
                               changing, raced>>
  BY DEF Bootstrap
<1>3. members = {} /\ openings = {} /\ \A j \in Invites : ~Pending(j)
  BY <1>2 DEF IInv, BeforeFirstLogin, AfterFirstLogin, Owners, RowsKnown
<1>4. \A j \in Invites : Pending(j)' => j = i
  BY <1>1, <1>3 DEF Pending, IInv, TypeOK
<1>5. NothingPendingForMembers' /\ OneInvitationPerEmail'
  BY <1>2, <1>3, <1>4 DEF NothingPendingForMembers, OneInvitationPerEmail
<1>6. ASSUME NEW r \in Requests, NothingMissed(requests[r]) PROVE NothingMissed(requests[r])'
  <2>1. requests[r].pc \notin InviteSteps \cup ApproveSteps /\ requests[r].chances = {}
    BY <1>2 DEF IInv, BeforeFirstLogin, AfterFirstLogin, Owners, Bootstrapping
  <2>2. \A f \in requests[r].offers : FALSE
    <3>1. StillSo(requests[r])
      BY Known
    <3>2. QED BY <1>2, <3>1 DEF StillSo
  <2>3. requests[r].pc # "registering"
    BY <1>6, <2>1, <2>2 DEF NothingMissed
  <2>4. requests'[r] = requests[r] /\ openings' = {}
    BY <1>2, <1>3
  <2>5. QED BY <2>1, <2>3, <2>4 DEF NothingMissed, OpeningsFor, InviteSteps, ApproveSteps
<1>7. OneAtATime => OneAtATime'
  BY <1>2 DEF OneAtATime
<1>8. QED BY <1>2, <1>5, <1>6, <1>7 DEF SerialInv

\* Every step.
LEMMA NextSerial ==
    ASSUME IInv, SerialInv, [Next]_vars
    PROVE  SerialInv'
<1>1. CASE UNCHANGED vars
  <2>1. RowsOnlyGo /\ UNCHANGED <<requests, overlapped>>
    BY <1>1 DEF vars, RowsOnlyGo, HasMembership, Pending
  <2>2. QED BY <2>1, RemovalStep
<1>2. ASSUME NEW c \in Changes, StartChange(c) \/ SaveChange(c) \/ AbortChange(c)
      PROVE  SerialInv'
  <2>1. RowsOnlyGo /\ UNCHANGED <<requests, overlapped>>
    BY <1>2, ChangeWritten DEF RowsOnlyGo, Pending
  <2>2. QED BY <2>1, RemovalStep
<1>3. ASSUME NEW i \in Invites, RevokeInvitation(i) PROVE SerialInv'
  <2>1. \A j \in Invites : invites'[j] = IF j = i THEN NoInvitation("gone") ELSE invites[j]
    BY <1>3 DEF RevokeInvitation, IInv, TypeOK
  <2>2. RowsOnlyGo /\ UNCHANGED <<requests, overlapped>>
    BY <1>3, <2>1 DEF RevokeInvitation, RowsOnlyGo, HasMembership, Pending, NoInvitation
  <2>3. QED BY <2>2, RemovalStep
<1>4. ASSUME NEW s \in Signups, Reject(s) PROVE SerialInv'
  <2>1. \A t \in openings : t \in Signups /\ signups'[t].email = signups[t].email
    BY <1>4 DEF Reject, IInv, TypeOK, SignupRequest
  <2>2. RowsOnlyGo /\ UNCHANGED <<requests, overlapped>>
    BY <1>4, <2>1 DEF Reject, RowsOnlyGo, HasMembership, Pending
  <2>3. QED BY <2>2, RemovalStep
<1>5. ASSUME NEW r \in Requests, Login(r) PROVE SerialInv'
  <2>1. CASE ReadUser(r)
    BY <2>1, OpenSerial DEF ReadUser, data, Idle
  <2>2. QED BY <1>5, <2>1, ReadOpeningsSerial, ReadInvitationsSerial, RegisterSerial DEF Login
<1>6. ASSUME NEW r \in Requests, Invite(r) PROVE SerialInv'
  <2>1. CASE StartInvite(r)
    BY <2>1, OpenSerial DEF StartInvite, data, Idle
  <2>2. QED BY <1>6, <2>1, InviteChecksSerial, SaveInvitationSerial DEF Invite
<1>7. ASSUME NEW r \in Requests, Signup(r) PROVE SerialInv'
  <2>1. CASE StartSignup(r)
    BY <2>1, OpenSerial DEF StartSignup, data, Idle
  <2>2. QED BY <1>7, <2>1, SaveSignupSerial DEF Signup
<1>8. ASSUME NEW r \in Requests, Approve(r) PROVE SerialInv'
  <2>1. CASE LockSignup(r)
    BY <2>1, OpenSerial DEF LockSignup, data, Idle
  <2>2. QED BY <1>8, <2>1, CheckApplicantSerial, SaveApprovalSerial DEF Approve
<1>9. ASSUME NEW r \in Requests, Abort(r) PROVE SerialInv'
  BY <1>9, AnswerSerial DEF Abort, data
<1>10. QED
  BY <1>1, <1>2, <1>3, <1>4, <1>5, <1>6, <1>7, <1>8, <1>9, BootstrapSerial DEF Next

\* Requests that do not overlap keep the single-organization model, beside
\* changes of members, revocations, rejections and the bootstrap at any moment: the checks
\* of invite_user, approve_request and the login miss nothing.
THEOREM SingleOrg == Spec => []SingleOrgModel
<1>1. Init => SerialInv
  <2> SUFFICES ASSUME Init PROVE SerialInv
    OBVIOUS
  <2>1. \A r \in Requests : requests[r] = Idle
    BY DEF Init
  <2>2. OneAtATime /\ \A r \in Requests : NothingMissed(requests[r])
    BY <2>1, IdleMissesNothing DEF OneAtATime
  <2>3. NothingPendingForMembers /\ OneInvitationPerEmail
    BY DEF Init, NothingPendingForMembers, OneInvitationPerEmail, Pending, NoInvitation
  <2>4. QED BY <2>2, <2>3 DEF SerialInv
<1>2. IInv /\ SerialInv /\ [Next]_vars => SerialInv'
  BY NextSerial
<1>3. SerialInv => SingleOrgModel
  BY DEF SerialInv, SingleOrgModel
<1>4. QED BY <1>1, <1>2, <1>3, Inductive, PTL DEF Spec
=============================================================================
