---------------------------- MODULE Registration ----------------------------
(***************************************************************************)
(* How people get into organizations: the bootstrap invitation of the      *)
(* first deployment, invitations by members, signup requests that a        *)
(* platform admin approves, and the login that spends an invitation.  A    *)
(* request is one READ COMMITTED transaction whose reads take no lock, but *)
(* for the FOR UPDATE of a signup decision, so it may act on what is no    *)
(* longer so; unique constraints are all that stops it.                    *)
(*                                                                         *)
(* The writes of a request are one step, taken when it commits: from the   *)
(* flush on, locks on the rows and index entries written keep what the     *)
(* flush found true.  A violated constraint answers 500: Abort.            *)
(***************************************************************************)
EXTENDS FiniteSets, Integers

CONSTANTS
    People,         \* Google accounts, each with one email address for good
    Admin,          \* the one whose address is ADMIN_EMAIL
    Orgs,           \* identities of organizations
    Invites,        \* identities of invitation rows
    Signups,        \* identities of signup requests
    Requests,       \* requests the web processes can handle at one time
    Changes,        \* beside them, requests that update or remove a member
    Slots,          \* bound: requests of either kind that are open at one time
    None            \* no person, organization, role or signup request

Roles == {"member", "admin", "owner"}

\* role_rank: the index in _ROLE_ORDER.
Rank == [member |-> 0, admin |-> 1, owner |-> 2]

ASSUME AdminAssumption == Admin \in People
ASSUME NoneAssumption == None \notin People \cup Orgs \cup Roles \cup Signups

VARIABLES
    users,          \* people with a row in users
    members,        \* the memberships
    orgs,           \* organizations that exist
    invites,        \* invitations, by identity
    signups,        \* signup requests, by identity
    openings,       \* signup requests whose org-creation invitation is pending
    requests,       \* what each request has read and wants to write
    overlapped,     \* auxiliary: two of these requests were open at one time
    changing,       \* what each change of a member has read and wants to write
    raced           \* auxiliary: organizations with two of them open at one time

vars == <<users, members, orgs, invites, signups, openings, requests, overlapped,
          changing, raced>>

Membership == [user : People, org : Orgs, role : Roles]

Invitation == [state : {"free", "pending", "gone"}, org : Orgs \cup {None},
               email : People \cup {None}, role : Roles \cup {None}]
NoInvitation(state) == [state |-> state, org |-> None, email |-> None, role |-> None]

SignupRequest == [status : {"none", "pending", "approved", "rejected"},
                  email : People \cup {None}]

\* What a login read of an invitation; the row may be revoked or updated since.
Offer == [id : Invites, org : Orgs, role : Roles]

LoginSteps == {"login", "offered", "registering"}
InviteSteps == {"inviting", "eligible", "unrivalled", "cleared"}
ApproveSteps == {"approving", "approved"}

\* existing, chances (org-creation invitations) and offers are what a login read.
Request == [pc : {"idle", "signing_up"} \cup LoginSteps \cup InviteSteps \cup ApproveSteps,
            person : People \cup {None}, existing : People \cup {None},
            chances : SUBSET Signups, offers : SUBSET Offer,
            org : Orgs \cup {None}, role : Roles \cup {None},
            signup : Signups \cup {None}]

Idle == [pc |-> "idle", person |-> None, existing |-> None, chances |-> {},
         offers |-> {}, org |-> None, role |-> None, signup |-> None]

\* new is the role to assign, or "removed" for the remove endpoint.
Change == [user : People \cup {None}, org : Orgs \cup {None}, seen : Roles \cup {None},
           new : Roles \cup {"removed", None}]

NoChange == [user |-> None, org |-> None, seen |-> None, new |-> None]

Init ==
    /\ users = {} /\ members = {} /\ orgs = {} /\ openings = {}
    /\ invites = [i \in Invites |-> NoInvitation("free")]
    /\ signups = [s \in Signups |-> [status |-> "none", email |-> None]]
    /\ requests = [r \in Requests |-> Idle]
    /\ overlapped = FALSE
    /\ changing = [c \in Changes |-> NoChange] /\ raced = {}

-----------------------------------------------------------------------------

\* has_membership_by_email
HasMembership(p) == \E m \in members : m.user = p

Pending(i) == invites[i].state = "pending"

\* The locks of SELECT ... FOR UPDATE on a signup request.
Reviewed(s) == \E r \in Requests : requests[r].pc \in ApproveSteps /\ requests[r].signup = s

Managers(o) == {m \in members : m.org = o /\ m.role \in {"admin", "owner"}}

\* What the web processes handle at one time.
FreeSlot ==
    Cardinality({r \in Requests : requests[r].pc # "idle"})
      + Cardinality({c \in Changes : changing[c] # NoChange}) < Slots

Open(r, new) ==
    /\ requests[r].pc = "idle"
    /\ FreeSlot
    /\ requests' = [requests EXCEPT ![r] = new]
    /\ overlapped' = (overlapped \/ \E q \in Requests \ {r} : requests[q].pc # "idle")

Move(r, pc) == requests' = [requests EXCEPT ![r].pc = pc]
Answer(r) == requests' = [requests EXCEPT ![r] = Idle]

\* Goes on if the check passes, otherwise answers 409.
Check(r, ok, pc) ==
    /\ IF ok THEN Move(r, pc) ELSE Answer(r)
    /\ UNCHANGED <<users, members, orgs, invites, signups, openings, overlapped,
                   changing, raced>>

\* bootstrap_if_needed at the start of a web process.  Of two that start on an
\* empty database, the unique slug lets one commit and the other fails.
Bootstrap ==
    /\ orgs = {}
    /\ \E o \in Orgs, i \in Invites :
       /\ invites[i].state = "free"
       /\ orgs' = {o}
       /\ invites' = [invites EXCEPT ![i] =
             [state |-> "pending", org |-> o, email |-> Admin, role |-> "owner"]]
    /\ UNCHANGED <<users, members, signups, openings, requests, overlapped,
                   changing, raced>>

-----------------------------------------------------------------------------
(* Changes of members.                                                     *)

\* Owners may do anything, others must outrank the member and the new role.
Permitted(actor, seen, new) ==
    \/ actor = "owner"
    \/ Rank[actor] > Rank[seen] /\ (new \in Roles => Rank[actor] > Rank[new])

Owners(o) == {m \in members : m.org = o /\ m.role = "owner"}

Begin(c, m, new) ==
    /\ changing[c] = NoChange
    /\ FreeSlot
    /\ changing' = [changing EXCEPT ![c] =
                       [user |-> m.user, org |-> m.org, seen |-> m.role, new |-> new]]
    /\ raced' = IF \E d \in Changes : changing[d].org = m.org THEN raced \cup {m.org}
                ELSE raced
    /\ UNCHANGED <<users, members, orgs, invites, signups, openings, requests,
                   overlapped>>

\* Mutation: the owners are counted for removals only.
StartUncounted(c) ==
    \E m \in members, new \in Roles \cup {"removed"} :
        /\ new # m.role
        /\ \E a \in Managers(m.org) : Permitted(a.role, m.role, new)
        /\ m.role = "owner" /\ new = "removed" => Owners(m.org) # {m}
        /\ Begin(c, m, new)

\* update_member_role and remove_member up to the write: a manager may do it, and
\* if it takes an owner away there is another.  The two reads and the count are
\* one step here; what runs between them is the subject of Membership.  To
\* assign the role a member has writes nothing.
StartChange(c) ==
    \E m \in members, new \in Roles \cup {"removed"} :
        /\ new # m.role
        /\ \E a \in Managers(m.org) : Permitted(a.role, m.role, new)
        /\ m.role = "owner" => Owners(m.org) # {m}
        /\ Begin(c, m, new)

\* The row is written as it was decided.  Once it is deleted other changes of it
\* write nothing: an UPDATE that matches no row fails, a DELETE only warns.
SaveChange(c) ==
    LET ch == changing[c] IN
    \E m \in members :
        /\ m.user = ch.user /\ m.org = ch.org
        /\ members' = (members \ {m}) \cup
              IF ch.new = "removed" THEN {}
              ELSE {[user |-> m.user, org |-> m.org, role |-> ch.new]}
        /\ changing' = [d \in Changes |->
              IF d = c \/ (ch.new = "removed" /\ changing[d].user = ch.user) THEN NoChange
              ELSE changing[d]]
        /\ UNCHANGED <<users, orgs, invites, signups, openings, requests,
                       overlapped, raced>>

\* A statement or the commit fails.
AbortChange(c) ==
    /\ changing[c] # NoChange
    /\ changing' = [changing EXCEPT ![c] = NoChange]
    /\ UNCHANGED <<users, members, orgs, invites, signups, openings, requests,
                   overlapped, raced>>

-----------------------------------------------------------------------------
(* Login: resolve_or_register_user.                                        *)

\* auth_callback: the user row is looked up by the Google account.
ReadUser(r) ==
    /\ \E p \in People :
          Open(r, [Idle EXCEPT !.pc = "login", !.person = p,
                               !.existing = IF p \in users THEN p ELSE None])
    /\ UNCHANGED <<users, members, orgs, invites, signups, openings, changing, raced>>

\* Mutation: the early return for users without an org-creation invitation is lost.
ReadOpeningsOfAll(r) ==
    LET found == {s \in openings : signups[s].email = requests[r].person} IN
    /\ requests[r].pc = "login"
    /\ requests' = [requests EXCEPT ![r].pc = "offered", ![r].chances = found]
    /\ UNCHANGED <<users, members, orgs, invites, signups, openings, overlapped,
                   changing, raced>>

\* get_pending_org_creation_invitations.  A user without any is done: only the
\* profile is updated, whether or not there is a membership.
ReadOpenings(r) ==
    LET found == {s \in openings : signups[s].email = requests[r].person} IN
    /\ requests[r].pc = "login"
    /\ IF requests[r].existing # None /\ found = {} THEN Answer(r)
       ELSE requests' = [requests EXCEPT ![r].pc = "offered", ![r].chances = found]
    /\ UNCHANGED <<users, members, orgs, invites, signups, openings, overlapped,
                   changing, raced>>

\* get_pending_invitations.  NoInvitationError if there is nothing to accept.
ReadInvitations(r) ==
    LET found == {i \in Invites : Pending(i) /\ invites[i].email = requests[r].person} IN
    /\ requests[r].pc = "offered"
    /\ IF requests[r].existing = None /\ found = {} /\ requests[r].chances = {} THEN Answer(r)
       ELSE requests' = [requests EXCEPT
              ![r].pc = "registering",
              ![r].offers = {[id |-> i, org |-> invites[i].org, role |-> invites[i].role] :
                               i \in found}]
    /\ UNCHANGED <<users, members, orgs, invites, signups, openings, overlapped,
                   changing, raced>>

\* accept_org_creation_invitation: a new organization and its owner.
Found(r) ==
    /\ requests[r].chances # {}
    /\ \E o \in Orgs \ orgs :
       /\ orgs' = orgs \cup {o}
       /\ members' = members \cup {[user |-> requests[r].person, org |-> o, role |-> "owner"]}

\* accept_invitation, with the role the invitation had when it was read.
Accept(r) ==
    /\ requests[r].chances = {}
    /\ \E f \in requests[r].offers :
          members' = members \cup {[user |-> requests[r].person, org |-> f.org, role |-> f.role]}
    /\ UNCHANGED orgs

\* Mutation: the schema before migration 011, without uq_membership_user.
InsertableTwice(r) ==
    \A m \in members : m.user = requests[r].person => \A f \in requests[r].offers : f.org # m.org

\* uq_membership_user.  A user that another login created since this one looked
\* is found by the second look of upsert_user, or answers 500 (Abort).
Insertable(r) == ~HasMembership(requests[r].person)

\* One invitation is accepted, all that were read are deleted; to delete a row
\* that is gone is only a warning.
Register(r) ==
    LET spent == {f.id : f \in requests[r].offers} IN
    /\ requests[r].pc = "registering"
    /\ Insertable(r)
    /\ Found(r) \/ Accept(r)
    /\ users' = users \cup {requests[r].person}
    /\ openings' = openings \ requests[r].chances
    /\ invites' = [i \in Invites |-> IF i \in spent THEN NoInvitation("gone") ELSE invites[i]]
    /\ Answer(r)
    /\ UNCHANGED <<signups, overlapped, changing, raced>>

-----------------------------------------------------------------------------
(* Invitations by members.                                                 *)

\* invite_member_action: RequireRole(admin), then no role above one's own.
StartInvite(r) ==
    /\ \E o \in Orgs, p \in People, role \in Roles :
       /\ \E m \in Managers(o) : Rank[role] <= Rank[m.role]
       /\ Open(r, [Idle EXCEPT !.pc = "inviting", !.person = p, !.org = o, !.role = role])
    /\ UNCHANGED <<users, members, orgs, invites, signups, openings, changing, raced>>

\* AlreadyHasOrganizationError
CheckMembership(r) ==
    /\ requests[r].pc = "inviting"
    /\ Check(r, ~HasMembership(requests[r].person), "eligible")

\* DuplicateInvitationError: an invitation of another organization.
CheckElsewhere(r) ==
    /\ requests[r].pc = "eligible"
    /\ Check(r, \A i \in Invites : Pending(i) /\ invites[i].email = requests[r].person
                                     => invites[i].org = requests[r].org, "unrivalled")

\* DuplicateInvitationError: an org-creation invitation.
CheckOpening(r) ==
    /\ requests[r].pc = "unrivalled"
    /\ Check(r, \A s \in openings : signups[s].email # requests[r].person, "cleared")

\* The rows of one organization and address: at most one, uq_invitation_org_email.
Same(r) == {i \in Invites : /\ Pending(i) /\ invites[i].org = requests[r].org
                            /\ invites[i].email = requests[r].person}

\* The invitation of this organization is updated, or a row inserted.
SaveInvitation(r) ==
    /\ requests[r].pc = "cleared"
    /\ \E i \in IF Same(r) # {} THEN Same(r) ELSE {j \in Invites : invites[j].state = "free"} :
          invites' = [invites EXCEPT ![i] =
             [state |-> "pending", org |-> requests[r].org,
              email |-> requests[r].person, role |-> requests[r].role]]
    /\ Answer(r)
    /\ UNCHANGED <<users, members, orgs, signups, openings, overlapped, changing,
                   raced>>

\* revoke_invitation_action, for managers of the organization.
RevokeInvitation(i) ==
    /\ Pending(i)
    /\ Managers(invites[i].org) # {}
    /\ invites' = [invites EXCEPT ![i] = NoInvitation("gone")]
    /\ UNCHANGED <<users, members, orgs, signups, openings, requests, overlapped,
                   changing, raced>>

-----------------------------------------------------------------------------
(* Signup requests.                                                        *)

\* submit_signup_request, from anybody and for any address without membership.
StartSignup(r) ==
    /\ \E p \in People :
       /\ ~HasMembership(p)
       /\ Open(r, [Idle EXCEPT !.pc = "signing_up", !.person = p])
    /\ UNCHANGED <<users, members, orgs, invites, signups, openings, changing, raced>>

\* One pending request per address, by the check or by the partial unique index.
SaveSignup(r) ==
    /\ requests[r].pc = "signing_up"
    /\ IF \E s \in Signups : signups[s] = [status |-> "pending", email |-> requests[r].person]
       THEN UNCHANGED signups
       ELSE \E s \in Signups :
            /\ signups[s].status = "none"
            /\ signups' = [signups EXCEPT ![s] =
                              [status |-> "pending", email |-> requests[r].person]]
    /\ Answer(r)
    /\ UNCHANGED <<users, members, orgs, invites, openings, overlapped, changing,
                   raced>>

\* approve_request: a platform admin locks a request that is pending.
LockSignup(r) ==
    /\ Admin \in users
    /\ \E s \in Signups :
       /\ signups[s].status = "pending"
       /\ ~Reviewed(s)
       /\ Open(r, [Idle EXCEPT !.pc = "approving", !.person = signups[s].email, !.signup = s])
    /\ UNCHANGED <<users, members, orgs, invites, signups, openings, changing, raced>>

\* Mutation: the applicant may have joined an organization since the request.
CheckNobody(r) ==
    /\ requests[r].pc = "approving"
    /\ Check(r, TRUE, "approved")

\* AlreadyHasOrganizationError
CheckApplicant(r) ==
    /\ requests[r].pc = "approving"
    /\ Check(r, ~HasMembership(requests[r].person), "approved")

\* The decision and the org-creation invitation.
SaveApproval(r) ==
    /\ requests[r].pc = "approved"
    /\ signups' = [signups EXCEPT ![requests[r].signup].status = "approved"]
    /\ openings' = openings \cup {requests[r].signup}
    /\ Answer(r)
    /\ UNCHANGED <<users, members, orgs, invites, overlapped, changing, raced>>

\* Mutation: no FOR UPDATE.
RejectUnlocked(s) ==
    /\ Admin \in users
    /\ signups[s].status = "pending"
    /\ signups' = [signups EXCEPT ![s].status = "rejected"]
    /\ UNCHANGED <<users, members, orgs, invites, openings, requests, overlapped,
                   changing, raced>>

\* Mutation: the status is not checked.
RejectApproved(s) ==
    /\ Admin \in users
    /\ signups[s].status \in {"pending", "approved"}
    /\ ~Reviewed(s)
    /\ signups' = [signups EXCEPT ![s].status = "rejected"]
    /\ UNCHANGED <<users, members, orgs, invites, openings, requests, overlapped,
                   changing, raced>>

\* reject_signup_request, under the same lock.
Reject(s) ==
    /\ Admin \in users
    /\ signups[s].status = "pending"
    /\ ~Reviewed(s)
    /\ signups' = [signups EXCEPT ![s].status = "rejected"]
    /\ UNCHANGED <<users, members, orgs, invites, openings, requests, overlapped,
                   changing, raced>>

\* A constraint is violated, a statement or the commit fails: nothing is written.
Abort(r) ==
    /\ requests[r].pc # "idle"
    /\ Answer(r)
    /\ UNCHANGED <<users, members, orgs, invites, signups, openings, overlapped,
                   changing, raced>>

Login(r) == ReadUser(r) \/ ReadOpenings(r) \/ ReadInvitations(r) \/ Register(r)
Invite(r) == \/ StartInvite(r) \/ CheckMembership(r) \/ CheckElsewhere(r)
             \/ CheckOpening(r) \/ SaveInvitation(r)
Signup(r) == StartSignup(r) \/ SaveSignup(r)
Approve(r) == LockSignup(r) \/ CheckApplicant(r) \/ SaveApproval(r)

Next ==
    \/ Bootstrap
    \/ \E c \in Changes : StartChange(c) \/ SaveChange(c) \/ AbortChange(c)
    \/ \E i \in Invites : RevokeInvitation(i)
    \/ \E s \in Signups : Reject(s)
    \/ \E r \in Requests : Login(r) \/ Invite(r) \/ Signup(r) \/ Approve(r) \/ Abort(r)

Spec == Init /\ [][Next]_vars

-----------------------------------------------------------------------------
(* Properties.                                                             *)

\* Every variable has its type.
TypeOK ==
    /\ users \subseteq People /\ members \subseteq Membership /\ orgs \subseteq Orgs
    /\ invites \in [Invites -> Invitation]
    /\ signups \in [Signups -> SignupRequest] /\ openings \subseteq Signups
    /\ requests \in [Requests -> Request] /\ overlapped \in BOOLEAN
    /\ changing \in [Changes -> Change] /\ raced \subseteq Orgs

\* However logins, invitations and approvals of one person overlap, the person
\* ends in one organization and with one role.
OneOrganizationPerUser == \A m, n \in members : m.user = n.user => m = n

\* An organization whose members are changed by one request at a time is never
\* left without an owner, whatever joins, invitations, roles and removals lead to
\* it: it has one, or the bootstrap's invitation of the owner is still pending.
\* Only changes that overlap can take the last owner away, see Membership.
OrganizationsHaveOwners ==
    \A o \in orgs \ raced :
        \/ Owners(o) # {}
        \/ \E i \in Invites : Pending(i) /\ invites[i].org = o /\ invites[i].role = "owner"
                              /\ invites[i].email = Admin

\* A review is final: of an approval and a rejection that race, one has effect.
DecisionsAreFinal ==
    [][\A s \in Signups :
         signups[s].status \in {"approved", "rejected"} => signups'[s] = signups[s]]_vars

\* After the first one, an organization is only ever created by a person whose
\* signup request was approved and has not been rejected since.
FoundedOnApproval ==
    [][\A o \in orgs' \ orgs :
         \/ orgs = {}
         \/ \E s \in Signups, m \in members' :
               /\ signups[s] = [status |-> "approved", email |-> m.user]
               /\ m.org = o /\ m.role = "owner"]_vars

\* An account that exists, such as a removed member's, joins no organization by
\* an invitation, unless by a login that looked before the account existed and
\* outlived a login of the same person and the removal.
UsersJoinByFounding ==
    [][\A m \in members' \ members :
         m.user \in users /\ ~HasMembership(m.user) /\ m.org \in orgs =>
         \E r \in Requests :
            /\ requests[r].pc = "registering" /\ requests'[r].pc = "idle"
            /\ requests[r].person = m.user /\ requests[r].existing = None]_vars

\* Someone with an organization has nothing left to accept.
NothingPendingForMembers ==
    \A m \in members :
        /\ \A i \in Invites : Pending(i) => invites[i].email # m.user
        /\ \A s \in openings : signups[s].email # m.user

\* One organization at a time invites an address.
OneInvitationPerEmail ==
    \A i, j \in Invites :
        Pending(i) /\ Pending(j) /\ invites[i].email = invites[j].email => i = j

\* The checks keep the single-organization model as long as requests do not
\* overlap.
SingleOrgModel == overlapped \/ (NothingPendingForMembers /\ OneInvitationPerEmail)

\* auth.py, resolve_or_register_user: "Any remaining invitations are deleted
\* since the user now has an org."  A member with an org-creation invitation
\* left violates uq_membership_user at every login.
MembersHaveNoOpening ==
    \A m \in members : \A s \in openings : signups[s].email # m.user

-----------------------------------------------------------------------------
(* The inductive invariant behind them.                                    *)

\* Rows refer to rows, and a person has one membership.
RowsKnown ==
    /\ OneOrganizationPerUser
    /\ \A m \in members : m.user \in users /\ m.org \in orgs
    /\ \A i \in Invites : Pending(i) =>
          invites[i].org \in orgs /\ invites[i].email \in People /\ invites[i].role \in Roles
    /\ \A s \in Signups : signups[s].status # "none" => signups[s].email \in People
    /\ \A s \in openings : signups[s].status = "approved"

\* What a request has read and is still so.
StillSo(q) ==
    /\ q.pc # "idle" => q.person \in People
    /\ q.existing # None => q.person \in users
    /\ q.existing # None /\ q.pc \in {"offered", "registering"} => q.chances # {}
    /\ q.pc \in InviteSteps => q.org \in orgs /\ q.role \in Roles
    /\ \A f \in q.offers : f.org \in orgs
    /\ \A s \in q.chances : signups[s] = [status |-> "approved", email |-> q.person]
    /\ q.pc \in ApproveSteps =>
          q.signup \in Signups /\ signups[q.signup] = [status |-> "pending", email |-> q.person]

RequestsKnown == \A r \in Requests : StillSo(requests[r])

\* SELECT ... FOR UPDATE: one reviewer at a time.
ReviewedByOne ==
    \A r, t \in Requests :
        /\ requests[r].pc \in ApproveSteps /\ requests[t].pc \in ApproveSteps
        /\ requests[r].signup = requests[t].signup
        => r = t

\* A request that cannot do more than accept an invitation as owner.
Bootstrapping(q) ==
    /\ q.pc \notin InviteSteps \cup ApproveSteps
    /\ q.chances = {}
    /\ \A f \in q.offers : f.role = "owner"

\* Until the first login nobody can do anything but accept the invitation of
\* the bootstrap; from then on an organization without races has an owner.
BeforeFirstLogin ==
    /\ users = {} /\ members = {} /\ openings = {}
    /\ \A o, n \in orgs : o = n
    /\ \A o \in orgs : \E i \in Invites : Pending(i) /\ invites[i].org = o
    /\ \A i \in Invites : Pending(i) => invites[i].email = Admin /\ invites[i].role = "owner"
    /\ \A r \in Requests : Bootstrapping(requests[r])

AfterFirstLogin ==
    /\ users # {} /\ orgs # {}
    /\ \A o \in orgs \ raced : Owners(o) # {}

\* The row is as the change has read it, and not the last owner's.
AsSeen(ch) ==
    LET row == [user |-> ch.user, org |-> ch.org, role |-> ch.seen] IN
    row \in members /\ (ch.seen = "owner" => Owners(ch.org) # {row})

\* The row of a change is there, and unless changes of the organization have
\* overlapped it is as it was read and no other change threatens the owners.
ChangeKnown(c) ==
    LET ch == changing[c] IN
    ch # NoChange =>
        /\ ch.new \in Roles \cup {"removed"}
        /\ \E m \in members : m.user = ch.user /\ m.org = ch.org
        /\ ch.org \notin raced =>
              AsSeen(ch) /\ \A d \in Changes \ {c} : changing[d].org # ch.org

ChangesKnown == \A c \in Changes : ChangeKnown(c)

\* What is stale in a request is only what it found absent, or present in a row
\* that it deletes; a unique constraint or a lock stands behind the rest.
IInv == TypeOK /\ RowsKnown /\ RequestsKnown /\ ReviewedByOne /\ ChangesKnown
          /\ (BeforeFirstLogin \/ AfterFirstLogin)

-----------------------------------------------------------------------------
(* Why the single-organization model holds of requests one after another.  *)

PendingFor(p) == {i \in Invites : Pending(i) /\ invites[i].email = p}
OpeningsFor(p) == {s \in openings : signups[s].email = p}

\* What a request that runs alone has found absent is still absent, and it has
\* read all that is there to accept: beside it, rows are only removed.
NothingMissed(q) ==
    /\ q.pc \in {"eligible", "unrivalled", "cleared", "approved"} => ~HasMembership(q.person)
    /\ q.pc \in {"unrivalled", "cleared"} =>
          \A i \in PendingFor(q.person) : invites[i].org = q.org
    /\ q.pc = "cleared" => OpeningsFor(q.person) = {}
    /\ q.pc \in {"offered", "registering"} => OpeningsFor(q.person) \subseteq q.chances
    /\ q.pc = "registering" =>
          /\ q.offers # {} \/ q.chances # {}
          /\ PendingFor(q.person) \subseteq {f.id : f \in q.offers}

OneAtATime ==
    \A r, t \in Requests : requests[r].pc # "idle" /\ requests[t].pc # "idle" => r = t

\* SingleOrgModel made inductive.
SerialInv ==
    \/ overlapped
    \/ /\ OneAtATime
       /\ \A r \in Requests : NothingMissed(requests[r])
       /\ NothingPendingForMembers
       /\ OneInvitationPerEmail
=============================================================================
