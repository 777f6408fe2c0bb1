----------------------------- MODULE Membership -----------------------------
(***************************************************************************)
(* Concurrent changes to the members of one organization: role updates and *)
(* removals by members who are at least admins.  A request is one READ     *)
(* COMMITTED transaction: RequireRole reads the actor's role, the service  *)
(* reads the target, counts the owners if one may be lost, writes, and     *)
(* commits when the handler returns.  None of the reads takes a lock.      *)
(***************************************************************************)
EXTENDS Integers, FiniteSets

CONSTANTS
    Members,        \* identities of membership rows
    Requests,       \* requests the web processes can handle at one time
    None            \* no member, no role

Roles == {"member", "admin", "owner"}

\* role_rank: the index in _ROLE_ORDER.
Rank == [member |-> 0, admin |-> 1, owner |-> 2]

ASSUME ConstantsAssumption == IsFiniteSet(Members) /\ None \notin Members \cup Roles

VARIABLES
    roles,      \* role of each row; "new" is not inserted yet, "removed" is deleted
    requests,   \* what each request has read and wants to write
    overlapped  \* auxiliary: two requests have been open at one time

vars == <<roles, requests, overlapped>>

\* new is the role to assign, or "removed" for the remove endpoint; actor and
\* target are membership rows, actorRole and seen the roles that were read.
Request == [pc : {"idle", "authorized", "counting", "checked", "flushed"},
            actor : Members \cup {None}, actorRole : Roles \cup {None},
            target : Members \cup {None}, seen : Roles \cup {None},
            new : Roles \cup {"removed", None}]

\* Between two calls: the last one was answered (303, 403, 404, 409 or 500).
Idle == [pc |-> "idle", actor |-> None, actorRole |-> None, target |-> None,
         seen |-> None, new |-> None]

Owners == {m \in Members : roles[m] = "owner"}

\* The organization starts with the owner its creation inserts.
Init ==
    /\ roles \in [Members -> {"new", "owner"}]
    /\ Cardinality(Owners) = 1
    /\ requests = [r \in Requests |-> Idle]
    /\ overlapped = FALSE

Move(r, pc) == requests' = [requests EXCEPT ![r].pc = pc]
Answer(r) == requests' = [requests EXCEPT ![r] = Idle]

\* No other request is open.
Alone(r) == \A s \in Requests \ {r} : requests[s].pc = "idle"

\* accept_invitation at a login: a new row with the role of the invitation.
Join(m) ==
    /\ roles[m] = "new"
    /\ \E role \in Roles : roles' = [roles EXCEPT ![m] = role]
    /\ UNCHANGED <<requests, overlapped>>

\* RequireRole(MemberRole.admin) of the two endpoints.
Authorize(r) ==
    /\ requests[r].pc = "idle"
    /\ \E a, m \in Members, new \in Roles \cup {"removed"} :
       /\ roles[a] \in {"admin", "owner"}
       /\ requests' = [requests EXCEPT ![r] =
                         [pc |-> "authorized", actor |-> a, actorRole |-> roles[a],
                          target |-> m, seen |-> None, new |-> new]]
    /\ overlapped' = (overlapped \/ ~Alone(r))
    /\ UNCHANGED roles

\* The role the service sees: the session's identity map keeps the actor's own
\* row as RequireRole loaded it, any other row is loaded now.
SeenRole(r) ==
    IF requests[r].target = requests[r].actor THEN requests[r].actorRole
    ELSE roles[requests[r].target]

\* Mutation: `actor_rank < role_rank(new_role)` instead of `<=`.
MayAssignOwnRole(r, seen) ==
    LET actor == Rank[requests[r].actorRole] IN
    \/ requests[r].actorRole = "owner"
    \/ /\ actor > Rank[seen]
       /\ requests[r].new \in Roles => actor >= Rank[requests[r].new]

\* Owners may do anything, others must outrank the target and the new role.
Permitted(r, seen) ==
    LET actor == Rank[requests[r].actorRole] IN
    \/ requests[r].actorRole = "owner"
    \/ /\ actor > Rank[seen]
       /\ requests[r].new \in Roles => actor > Rank[requests[r].new]

\* Mutation: the rank of the new role is not checked.
LoadAnyNew(r) ==
    LET seen == SeenRole(r)
        outranks == \/ requests[r].actorRole = "owner"
                    \/ Rank[requests[r].actorRole] > Rank[seen] IN
    /\ requests[r].pc = "authorized"
    /\ \/ /\ roles[requests[r].target] \in Roles
          /\ outranks
          /\ requests' = [requests EXCEPT
                ![r].seen = seen,
                ![r].pc = IF seen = "owner" /\ requests[r].new # "owner"
                          THEN "counting" ELSE "checked"]
       \/ /\ roles[requests[r].target] \in Roles => ~outranks
          /\ Answer(r)
    /\ UNCHANGED <<roles, overlapped>>

\* The target is read and the permission checked: 404 if there is no such row
\* in the organization, 403 if the actor lacks the rank.
LoadTarget(r) ==
    LET seen == SeenRole(r) IN
    /\ requests[r].pc = "authorized"
    /\ \/ /\ roles[requests[r].target] \in Roles
          /\ Permitted(r, seen)
          /\ requests' = [requests EXCEPT
                ![r].seen = seen,
                ![r].pc = IF seen = "owner" /\ requests[r].new # "owner"
                          THEN "counting" ELSE "checked"]
       \/ /\ roles[requests[r].target] \in Roles => ~Permitted(r, seen)
          /\ Answer(r)
    /\ UNCHANGED <<roles, overlapped>>

\* Mutation: `owner_count < 1` instead of `<= 1`.
CountNoOwners(r) ==
    /\ requests[r].pc = "counting"
    /\ IF Cardinality(Owners) < 1 THEN Answer(r) ELSE Move(r, "checked")
    /\ UNCHANGED <<roles, overlapped>>

\* _count_owners: 409 if the target is the last owner.
CountOwners(r) ==
    /\ requests[r].pc = "counting"
    /\ IF Cardinality(Owners) <= 1 THEN Answer(r) ELSE Move(r, "checked")
    /\ UNCHANGED <<roles, overlapped>>

Locked(m) == \E r \in Requests : requests[r].pc = "flushed" /\ requests[r].target = m

\* Mutation: the row is written whether or not it still exists.
FlushBlindly(r) ==
    LET m == requests[r].target IN
    /\ requests[r].pc = "checked"
    /\ ~Locked(m)
    /\ IF requests[r].new = requests[r].seen THEN Answer(r) ELSE Move(r, "flushed")
    /\ UNCHANGED <<roles, overlapped>>

\* The flush waits for the lock of the row.  An unchanged role emits no UPDATE;
\* an UPDATE that matches no row raises StaleDataError, a DELETE only warns.
Flush(r) ==
    LET m == requests[r].target IN
    /\ requests[r].pc = "checked"
    /\ \/ /\ requests[r].new = requests[r].seen \/ roles[m] = "removed"
          /\ Answer(r)
       \/ /\ requests[r].new # requests[r].seen
          /\ roles[m] # "removed"
          /\ ~Locked(m)
          /\ Move(r, "flushed")
    /\ UNCHANGED <<roles, overlapped>>

\* worker_session commits what was flushed.
Commit(r) ==
    /\ requests[r].pc = "flushed"
    /\ roles' = [roles EXCEPT ![requests[r].target] = requests[r].new]
    /\ Answer(r)
    /\ UNCHANGED overlapped

\* A statement or the commit fails and everything is rolled back.
Abort(r) ==
    /\ requests[r].pc # "idle"
    /\ Answer(r)
    /\ UNCHANGED <<roles, overlapped>>

Step(r) == LoadTarget(r) \/ CountOwners(r) \/ Flush(r) \/ Commit(r) \/ Abort(r)

Next ==
    \/ \E m \in Members : Join(m)
    \/ \E r \in Requests : Authorize(r) \/ Step(r)

Spec == Init /\ [][Next]_vars

-----------------------------------------------------------------------------
(* Properties.                                                             *)

\* Every variable has its type.
TypeOK ==
    /\ roles \in [Members -> Roles \cup {"new", "removed"}]
    /\ requests \in [Requests -> Request]
    /\ overlapped \in BOOLEAN

\* The organization keeps an owner, as update_member_role and remove_member promise.
\* Of two requests that overlap, each can count the owner the other removes.
HasOwner == Owners # {}

\* It does as long as no two requests have overlapped, over any sequence of
\* joins, promotions, demotions and removals.
OwnerUntilOverlap == overlapped \/ HasOwner

\* A role is only ever raised by a request that was authorized as an owner,
\* however stale what the request has read is when it writes.
RaisedByOwner ==
    [][\A m \in Members :
         /\ roles[m] \in Roles /\ roles'[m] \in Roles
         /\ Rank[roles'[m]] > Rank[roles[m]]
         => \E r \in Requests : /\ requests[r].target = m
                                /\ requests[r].pc = "flushed"
                                /\ requests[r].actorRole = "owner"]_vars

\* A removed member does not come back because a role update raced the removal.
RemovedForGood == [][\A m \in Members : roles[m] = "removed" => roles'[m] = "removed"]_vars

-----------------------------------------------------------------------------
(* The inductive invariants behind them.                                   *)

Loaded == {"counting", "checked", "flushed"}

\* What a request has read and been permitted.
RequestsKnown ==
    \A r \in Requests :
        LET q == requests[r] IN
        /\ q.pc # "idle" =>
              /\ q.actor \in Members /\ q.target \in Members
              /\ q.actorRole \in {"admin", "owner"}
              /\ q.new \in Roles \cup {"removed"}
        /\ q.pc \in Loaded =>
              /\ q.seen \in Roles
              /\ roles[q.target] # "new"
              /\ Permitted(r, q.seen)
        /\ q.pc = "flushed" =>
              /\ q.new # q.seen
              /\ roles[q.target] # "removed"

\* A row is locked by one request.
LockedByOne ==
    \A r, s \in Requests :
        /\ requests[r].pc = "flushed" /\ requests[s].pc = "flushed"
        /\ requests[r].target = requests[s].target
        => r = s

\* No write is based on a permission the request did not have, and a row that
\* is about to be written exists: what is stale is only what was permitted on.
IInv == TypeOK /\ RequestsKnown /\ LockedByOne

\* One request at a time: what it has read is not stale, and if it takes the
\* role of an owner away it has seen another owner.
Fresh(r) ==
    LET q == requests[r] IN
    /\ q.pc # "idle" => roles[q.actor] = q.actorRole
    /\ q.pc \in Loaded => roles[q.target] = q.seen
    /\ q.pc \in {"checked", "flushed"} /\ q.seen = "owner" /\ q.new # "owner" =>
          \E m \in Owners : m # q.target

Serial ==
    /\ \A r, s \in Requests : requests[r].pc # "idle" /\ requests[s].pc # "idle" => r = s
    /\ \A r \in Requests : Fresh(r)
    /\ HasOwner

\* OwnerUntilOverlap is not inductive alone: the owner count of a request must
\* still hold when the request commits, which nothing but serial order ensures.
SerialInv == IInv /\ (overlapped \/ Serial)
=============================================================================
