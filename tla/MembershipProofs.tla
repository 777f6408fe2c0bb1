-------------------------- MODULE MembershipProofs --------------------------
(* Theorems about Membership for any members and requests.                 *)
EXTENDS Membership, FiniteSetTheorems, TLAPS

\* A request that moves on or is answered, and nothing else, has its type.
LEMMA MoveType ==
    ASSUME NEW r \in Requests, requests \in [Requests -> Request],
           NEW pc \in {"idle", "authorized", "counting", "checked", "flushed"},
           Move(r, pc) \/ Answer(r)
    PROVE  requests' \in [Requests -> Request]
BY DEF Move, Answer, Idle, Request

\* An action that answers one request and changes no role keeps what is known.
LEMMA AnswerKeeps ==
    ASSUME IInv, NEW r \in Requests, Answer(r), UNCHANGED <<roles, overlapped>>
    PROVE  IInv'
<1>1. TypeOK'
  BY MoveType DEF IInv, TypeOK
<1>2. \A s \in Requests : requests'[s] = IF s = r THEN Idle ELSE requests[s]
  BY DEF IInv, TypeOK, Answer
<1>3. RequestsKnown'
  BY <1>2 DEF IInv, RequestsKnown, Idle, Loaded, Permitted
<1>4. LockedByOne'
  BY <1>2 DEF IInv, LockedByOne, Idle
<1> QED
  BY <1>1, <1>3, <1>4 DEF IInv

\* So does one that advances a request, if the request is fit for the new step.
LEMMA MoveKeeps ==
    ASSUME IInv, NEW r \in Requests, NEW pc \in {"checked", "flushed"},
           Move(r, pc), UNCHANGED <<roles, overlapped>>,
           requests[r].pc \in {"counting", "checked"},
           pc = "flushed" => /\ requests[r].new # requests[r].seen
                             /\ roles[requests[r].target] # "removed"
                             /\ ~Locked(requests[r].target)
    PROVE  IInv'
<1>1. TypeOK'
  BY MoveType DEF IInv, TypeOK
<1>2. \A s \in Requests : requests'[s] = IF s = r THEN [requests[r] EXCEPT !.pc = pc]
                                         ELSE requests[s]
  BY DEF IInv, TypeOK, Move
<1>3. /\ requests'[r].pc = pc
      /\ requests'[r].actor = requests[r].actor
      /\ requests'[r].actorRole = requests[r].actorRole
      /\ requests'[r].target = requests[r].target
      /\ requests'[r].seen = requests[r].seen
      /\ requests'[r].new = requests[r].new
  BY <1>2 DEF IInv, TypeOK, Request
<1>4. \A s \in Requests : s # r => requests'[s] = requests[s]
  BY <1>2
<1>5. RequestsKnown'
  BY <1>3, <1>4 DEF IInv, RequestsKnown, Loaded, Permitted
<1>6. LockedByOne'
  BY <1>3, <1>4 DEF IInv, LockedByOne, Locked
<1> QED
  BY <1>1, <1>5, <1>6 DEF IInv

\* Join writes a row no request has seen.
LEMMA JoinKeeps ==
    ASSUME IInv, NEW m \in Members, Join(m)
    PROVE  IInv'
<1>1. PICK role \in Roles : roles' = [roles EXCEPT ![m] = role]
  BY DEF Join
<1>2. TypeOK'
  BY <1>1 DEF IInv, TypeOK, Join, Roles
<1>3. /\ requests' = requests
      /\ roles[m] = "new"
      /\ \A n \in Members : roles'[n] = IF n = m THEN role ELSE roles[n]
  BY <1>1 DEF Join, IInv, TypeOK
<1>4. RequestsKnown'
  BY <1>3 DEF IInv, RequestsKnown, Loaded, Permitted, Roles
<1>5. LockedByOne'
  BY <1>3 DEF IInv, LockedByOne
<1> QED
  BY <1>2, <1>4, <1>5 DEF IInv

\* Authorize begins with an actor who is at least an admin.
LEMMA AuthorizeKeeps ==
    ASSUME IInv, NEW r \in Requests, Authorize(r)
    PROVE  IInv'
<1>1. PICK a \in Members, m \in Members, new \in Roles \cup {"removed"} :
         /\ roles[a] \in {"admin", "owner"}
         /\ requests' = [requests EXCEPT ![r] =
                           [pc |-> "authorized", actor |-> a, actorRole |-> roles[a],
                            target |-> m, seen |-> None, new |-> new]]
  BY DEF Authorize
<1>2. roles' = roles /\ overlapped' \in BOOLEAN
  BY DEF Authorize, IInv, TypeOK
<1>3. TypeOK'
  BY <1>1, <1>2 DEF IInv, TypeOK, Request, Roles
<1>4. \A s \in Requests :
         requests'[s] = IF s = r
                        THEN [pc |-> "authorized", actor |-> a, actorRole |-> roles[a],
                              target |-> m, seen |-> None, new |-> new]
                        ELSE requests[s]
  BY <1>1 DEF IInv, TypeOK
<1>5. RequestsKnown'
  BY <1>1, <1>2, <1>4 DEF IInv, RequestsKnown, Loaded, Permitted
<1>6. LockedByOne'
  BY <1>4 DEF IInv, LockedByOne
<1> QED
  BY <1>3, <1>5, <1>6 DEF IInv

\* LoadTarget goes on only with a permitted write of an existing row.
LEMMA LoadTargetKeeps ==
    ASSUME IInv, NEW r \in Requests, LoadTarget(r)
    PROVE  IInv'
<1>1. CASE Answer(r)
  BY <1>1, AnswerKeeps DEF LoadTarget
<1>2. CASE ~Answer(r)
  <2>1. requests[r].actorRole \in {"admin", "owner"} /\ requests[r] \in Request
    BY <1>2 DEF IInv, RequestsKnown, TypeOK, LoadTarget
  <2>2. PICK seen \in Roles, pc \in {"counting", "checked"} :
           /\ requests[r].pc = "authorized"
           /\ roles[requests[r].target] \in Roles
           /\ Permitted(r, seen)
           /\ requests' = [requests EXCEPT ![r].seen = seen, ![r].pc = pc]
           /\ roles' = roles /\ overlapped' = overlapped
    <3>1. SeenRole(r) \in Roles
      BY <1>2, <2>1 DEF LoadTarget, SeenRole, Roles
    <3> QED
      BY <1>2, <3>1, Zenon DEF LoadTarget
  <2>3. TypeOK'
    BY <2>2 DEF IInv, TypeOK, Request
  <2>4. /\ requests'[r].pc = pc
        /\ requests'[r].seen = seen
        /\ requests'[r].actor = requests[r].actor
        /\ requests'[r].actorRole = requests[r].actorRole
        /\ requests'[r].target = requests[r].target
        /\ requests'[r].new = requests[r].new
    BY <2>1, <2>2 DEF IInv, TypeOK, Request
  <2>5. \A s \in Requests : s # r => requests'[s] = requests[s]
    BY <2>2 DEF IInv, TypeOK
  <2>6. RequestsKnown'
    <3> SUFFICES ASSUME NEW s \in Requests
                 PROVE  /\ requests'[s].pc # "idle" =>
                              /\ requests'[s].actor \in Members
                              /\ requests'[s].target \in Members
                              /\ requests'[s].actorRole \in {"admin", "owner"}
                              /\ requests'[s].new \in Roles \cup {"removed"}
                        /\ requests'[s].pc \in Loaded =>
                              /\ requests'[s].seen \in Roles
                              /\ roles'[requests'[s].target] # "new"
                              /\ Permitted(s, requests[s].seen)'
                        /\ requests'[s].pc = "flushed" =>
                              /\ requests'[s].new # requests'[s].seen
                              /\ roles'[requests'[s].target] # "removed"
      BY DEF RequestsKnown
    <3>1. CASE s = r
      BY <3>1, <2>2, <2>4 DEF IInv, RequestsKnown, Permitted, Roles
    <3>2. CASE s # r
      BY <3>2, <2>2, <2>5 DEF IInv, RequestsKnown, Permitted, Loaded
    <3> QED
      BY <3>1, <3>2
  <2>7. LockedByOne'
    BY <2>4, <2>5 DEF IInv, LockedByOne
  <2> QED
    BY <2>3, <2>6, <2>7 DEF IInv
<1> QED
  BY <1>1, <1>2

\* The owner count decides whether the request goes on and writes nothing.
LEMMA CountOwnersKeeps ==
    ASSUME IInv, NEW r \in Requests, CountOwners(r)
    PROVE  IInv'
<1>1. CASE Answer(r)
  BY <1>1, AnswerKeeps DEF CountOwners
<1>2. CASE Move(r, "checked")
  BY <1>2, MoveKeeps DEF CountOwners
<1> QED
  BY <1>1, <1>2 DEF CountOwners

\* A request that flushes is the only one that holds the lock of its row.
LEMMA FlushKeeps ==
    ASSUME IInv, NEW r \in Requests, Flush(r)
    PROVE  IInv'
<1>1. CASE Answer(r)
  BY <1>1, AnswerKeeps DEF Flush
<1>2. CASE ~Answer(r)
  BY <1>2, MoveKeeps DEF Flush
<1> QED
  BY <1>1, <1>2

\* Commit writes a row that exists and that no other request has locked.
LEMMA CommitKeeps ==
    ASSUME IInv, NEW r \in Requests, Commit(r)
    PROVE  IInv'
<1> DEFINE m == requests[r].target
           new == requests[r].new
<1>1. /\ requests[r].pc = "flushed"
      /\ m \in Members
      /\ new \in Roles \cup {"removed"}
  BY DEF Commit, IInv, RequestsKnown
<1>2. /\ Answer(r) /\ overlapped' = overlapped
      /\ roles' = [roles EXCEPT ![m] = new]
  BY DEF Commit
<1>3. TypeOK'
  BY <1>1, <1>2, MoveType DEF IInv, TypeOK
<1>4. \A s \in Requests : requests'[s] = IF s = r THEN Idle ELSE requests[s]
  BY <1>2 DEF IInv, TypeOK, Answer
<1>5. \A n \in Members : roles'[n] = IF n = m THEN new ELSE roles[n]
  BY <1>2 DEF IInv, TypeOK
<1>6. \A s \in Requests : s # r /\ requests[s].pc = "flushed" => requests[s].target # m
  BY <1>1 DEF IInv, LockedByOne
<1>7. RequestsKnown'
  BY <1>1, <1>4, <1>5, <1>6 DEF IInv, RequestsKnown, Idle, Loaded, Permitted, Roles
<1>8. LockedByOne'
  BY <1>4 DEF IInv, LockedByOne, Idle
<1> QED
  BY <1>3, <1>7, <1>8 DEF IInv

\* No request runs yet.
LEMMA InitHolds == Init => IInv
<1> SUFFICES ASSUME Init PROVE IInv
  OBVIOUS
<1>1. \A r \in Requests : requests[r] = Idle
  BY DEF Init
<1>2. TypeOK
  BY DEF Init, TypeOK, Idle, Request, Roles
<1>3. RequestsKnown
  BY <1>1 DEF RequestsKnown, Idle, Loaded
<1>4. LockedByOne
  BY <1>1 DEF LockedByOne, Idle
<1> QED
  BY <1>2, <1>3, <1>4 DEF IInv

\* Every step keeps the invariant.
LEMMA NextKeeps == IInv /\ [Next]_vars => IInv'
<1> SUFFICES ASSUME IInv, [Next]_vars PROVE IInv'
  OBVIOUS
<1>1. CASE UNCHANGED vars
  BY <1>1 DEF vars, IInv, TypeOK, RequestsKnown, LockedByOne, Permitted
<1>2. ASSUME NEW m \in Members, Join(m) PROVE IInv'
  BY <1>2, JoinKeeps
<1>3. ASSUME NEW r \in Requests, Authorize(r) PROVE IInv'
  BY <1>3, AuthorizeKeeps
<1>4. ASSUME NEW r \in Requests, Step(r) PROVE IInv'
  <2>1. CASE LoadTarget(r)
    BY <2>1, LoadTargetKeeps
  <2>2. CASE CountOwners(r)
    BY <2>2, CountOwnersKeeps
  <2>3. CASE Flush(r)
    BY <2>3, FlushKeeps
  <2>4. CASE Commit(r)
    BY <2>4, CommitKeeps
  <2>5. CASE Abort(r)
    BY <2>5, AnswerKeeps DEF Abort
  <2> QED
    BY <1>4, <2>1, <2>2, <2>3, <2>4, <2>5 DEF Step
<1> QED
  BY <1>1, <1>2, <1>3, <1>4 DEF Next

\* Whatever requests overlap, every write was permitted on what its request
\* read, and rows about to be written exist and are locked by one request.
THEOREM Inductive == Spec => []IInv
BY InitHolds, NextKeeps, PTL DEF Spec

\* Every variable has its type.
THEOREM TypeCorrect == Spec => []TypeOK
<1>1. IInv => TypeOK
  BY DEF IInv
<1> QED
  BY <1>1, Inductive, PTL

-----------------------------------------------------------------------------
\* Only Join and Commit write roles.
LEMMA RolesWritten ==
    ASSUME [Next]_vars, NEW m \in Members, IInv, roles'[m] # roles[m]
    PROVE  \/ roles[m] = "new"
           \/ \E r \in Requests : /\ requests[r].pc = "flushed"
                                  /\ requests[r].target = m
                                  /\ roles'[m] = requests[r].new
<1>1. CASE UNCHANGED vars
  BY <1>1 DEF vars
<1>2. ASSUME NEW n \in Members, Join(n) PROVE roles[m] = "new"
  BY <1>2 DEF Join, IInv, TypeOK
<1>3. ASSUME NEW r \in Requests, Authorize(r) \/ Step(r)
      PROVE  /\ requests[r].pc = "flushed"
             /\ requests[r].target = m
             /\ roles'[m] = requests[r].new
  <2>1. Commit(r)
    BY <1>3 DEF Step, Authorize, LoadTarget, CountOwners, Flush, Abort
  <2> QED
    BY <2>1 DEF Commit, IInv, TypeOK
<1> QED
  BY <1>1, <1>2, <1>3 DEF Next

\* A role is only ever raised by a request authorized as an owner: what an
\* admin was permitted to write is a removal.
THEOREM RaisedByOwnerHolds == Spec => RaisedByOwner
<1>1. IInv /\ [Next]_vars =>
        [\A m \in Members :
           /\ roles[m] \in Roles /\ roles'[m] \in Roles
           /\ Rank[roles'[m]] > Rank[roles[m]]
           => \E r \in Requests : /\ requests[r].target = m
                                  /\ requests[r].pc = "flushed"
                                  /\ requests[r].actorRole = "owner"]_vars
  <2> SUFFICES ASSUME IInv, [Next]_vars, NEW m \in Members,
                      roles[m] \in Roles, roles'[m] \in Roles,
                      Rank[roles'[m]] > Rank[roles[m]]
               PROVE  \E r \in Requests : /\ requests[r].target = m
                                          /\ requests[r].pc = "flushed"
                                          /\ requests[r].actorRole = "owner"
    OBVIOUS
  <2>1. roles'[m] # roles[m] /\ roles[m] # "new"
    BY DEF Rank, Roles
  <2>2. PICK r \in Requests : /\ requests[r].pc = "flushed"
                              /\ requests[r].target = m
                              /\ roles'[m] = requests[r].new
    BY <2>1, RolesWritten
  <2>3. /\ Permitted(r, requests[r].seen)
        /\ requests[r].seen \in Roles
        /\ requests[r].new # requests[r].seen
        /\ requests[r].actorRole \in {"admin", "owner"}
    BY <2>2 DEF IInv, RequestsKnown, Loaded
  <2>4. requests[r].actorRole = "owner"
    BY <2>2, <2>3 DEF Permitted, Rank, Roles
  <2> QED
    BY <2>2, <2>4
<1> QED
  BY <1>1, Inductive, PTL DEF Spec, RaisedByOwner

\* A removed member never comes back: no update writes a row that is gone.
THEOREM RemovedForGoodHolds == Spec => RemovedForGood
<1>1. IInv /\ [Next]_vars => [\A m \in Members : roles[m] = "removed" => roles'[m] = "removed"]_vars
  <2> SUFFICES ASSUME IInv, [Next]_vars, NEW m \in Members, roles[m] = "removed"
               PROVE  roles'[m] = "removed"
    OBVIOUS
  <2> QED
    BY RolesWritten DEF IInv, RequestsKnown
<1> QED
  BY <1>1, Inductive, PTL DEF Spec, RemovedForGood

-----------------------------------------------------------------------------
(* While requests run one at a time nothing a request has read changes     *)
(* under it.  `one` is the request that takes the step, alone.             *)

\* A request that is answered has read nothing any more.
LEMMA SerialAnswer ==
    ASSUME IInv, Serial, NEW one \in Requests, Answer(one), UNCHANGED roles
    PROVE  Fresh(one)' /\ HasOwner'
<1>1. requests'[one] = Idle
  BY DEF Answer, IInv, TypeOK
<1> QED
  BY <1>1 DEF Serial, Fresh, HasOwner, Owners, Idle, Loaded

\* A request reads the target as it is: no identity map is stale.
LEMMA SerialLoadTarget ==
    ASSUME IInv, Serial, NEW one \in Requests, LoadTarget(one), ~Answer(one)
    PROVE  Fresh(one)' /\ HasOwner'
<1>1. SeenRole(one) = roles[requests[one].target]
  BY DEF SeenRole, LoadTarget, Serial, Fresh
<1>2. PICK pc \in {"counting", "checked"} :
         /\ requests[one].pc = "authorized"
         /\ requests' = [requests EXCEPT ![one].seen = SeenRole(one), ![one].pc = pc]
         /\ pc = "checked" => SeenRole(one) # "owner" \/ requests[one].new = "owner"
         /\ roles' = roles
  BY Zenon DEF LoadTarget
<1>3. /\ requests'[one].pc = pc
      /\ requests'[one].seen = SeenRole(one)
      /\ requests'[one].actor = requests[one].actor
      /\ requests'[one].actorRole = requests[one].actorRole
      /\ requests'[one].target = requests[one].target
      /\ requests'[one].new = requests[one].new
  BY <1>2 DEF IInv, TypeOK, Request
<1> QED
  BY <1>1, <1>2, <1>3 DEF Serial, Fresh, HasOwner, Owners, Loaded

\* The owner count is of owners one of whom is not the target.
LEMMA SerialMove ==
    ASSUME IInv, Serial, NEW one \in Requests, NEW pc \in {"checked", "flushed"},
           Move(one, pc), UNCHANGED roles, requests[one].pc \in Loaded,
           requests[one].pc = "checked" \/ Cardinality(Owners) > 1
    PROVE  Fresh(one)' /\ HasOwner'
<1>1. /\ requests'[one].pc = pc
      /\ requests'[one].seen = requests[one].seen
      /\ requests'[one].actor = requests[one].actor
      /\ requests'[one].actorRole = requests[one].actorRole
      /\ requests'[one].target = requests[one].target
      /\ requests'[one].new = requests[one].new
  BY DEF Move, IInv, TypeOK, Request
<1>2. ASSUME Cardinality(Owners) > 1
      PROVE  \E m \in Owners : m # requests[one].target
  <2>1. IsFiniteSet(Owners)
    BY ConstantsAssumption, FS_Subset DEF Owners
  <2>2. IsFiniteSet({requests[one].target}) /\ Cardinality({requests[one].target}) = 1
    BY FS_Singleton
  <2>3. CASE Owners \subseteq {requests[one].target}
    <3>1. Cardinality(Owners) <= 1
      BY <2>2, <2>3, FS_Subset
    <3> QED
      BY <3>1, <1>2, <2>1, FS_CardinalityType
  <2> QED
    BY <2>3
<1>3. requests[one].pc = "checked" \/ \E m \in Owners : m # requests[one].target
  BY <1>2
<1>4. Owners' = Owners /\ HasOwner'
  BY DEF Owners, HasOwner, Serial
<1> QED
  BY <1>1, <1>3, <1>4 DEF Serial, Fresh, Loaded

\* The owner that was counted is still there when the other one goes.
LEMMA SerialCommit ==
    ASSUME IInv, Serial, NEW one \in Requests, Commit(one)
    PROVE  Fresh(one)' /\ HasOwner'
<1>1. /\ requests[one].pc = "flushed"
      /\ requests[one].target \in Members
      /\ roles[requests[one].target] = requests[one].seen
      /\ requests[one].seen = "owner" /\ requests[one].new # "owner" =>
            \E m \in Owners : m # requests[one].target
  BY DEF Commit, Serial, Fresh, IInv, RequestsKnown, Loaded
<1>2. \A m \in Members :
         roles'[m] = IF m = requests[one].target THEN requests[one].new ELSE roles[m]
  BY DEF Commit, IInv, TypeOK
<1>3. PICK m \in Members : roles[m] = "owner"
  BY DEF Serial, HasOwner, Owners
<1>4. HasOwner'
  BY <1>1, <1>2, <1>3 DEF HasOwner, Owners
<1>5. requests'[one] = Idle
  BY DEF Commit, Answer, IInv, TypeOK
<1> QED
  BY <1>4, <1>5 DEF Fresh, Idle, Loaded

\* Every step of a request that is alone leaves what it has read true.
LEMMA SerialStep ==
    ASSUME IInv, Serial, NEW one \in Requests, Step(one)
    PROVE  Fresh(one)' /\ HasOwner'
<1>1. CASE LoadTarget(one)
  BY <1>1, SerialAnswer, SerialLoadTarget DEF LoadTarget
<1>2. CASE CountOwners(one)
  <2>1. Owners \subseteq Members /\ IsFiniteSet(Owners)
    BY ConstantsAssumption, FS_Subset DEF Owners
  <2>2. Cardinality(Owners) \in Nat
    BY <2>1, FS_CardinalityType
  <2>3. requests[one].pc = "counting" /\ UNCHANGED roles
    BY <1>2 DEF CountOwners
  <2>4. CASE Answer(one)
    BY <2>3, <2>4, SerialAnswer
  <2>5. CASE ~Answer(one)
    <3>1. Cardinality(Owners) > 1 /\ Move(one, "checked")
      BY <1>2, <2>2, <2>5 DEF CountOwners
    <3> QED
      BY <2>3, <3>1, SerialMove DEF Loaded
  <2> QED
    BY <2>4, <2>5
<1>3. CASE Flush(one)
  <2>1. requests[one].pc = "checked" /\ UNCHANGED roles
    BY <1>3 DEF Flush
  <2>2. Answer(one) \/ Move(one, "flushed")
    BY <1>3 DEF Flush
  <2> QED
    BY <2>1, <2>2, SerialAnswer, SerialMove DEF Loaded
<1>4. CASE Commit(one)
  BY <1>4, SerialCommit
<1>5. CASE Abort(one)
  BY <1>5, SerialAnswer DEF Abort
<1> QED
  BY <1>1, <1>2, <1>3, <1>4, <1>5 DEF Step

\* A step of one request leaves the others where they are.
LEMMA OthersStay ==
    ASSUME IInv, NEW one \in Requests, Authorize(one) \/ Step(one),
           NEW s \in Requests, s # one
    PROVE  requests'[s] = requests[s]
<1>1. Authorize(one) => requests'[s] = requests[s]
  BY DEF Authorize, IInv, TypeOK
<1>2. Step(one) => requests'[s] = requests[s]
  BY DEF Step, LoadTarget, CountOwners, Flush, Commit, Abort, Answer, Move, IInv, TypeOK
<1> QED
  BY <1>1, <1>2

\* As long as no request is authorized while another one is open, the requests
\* run one at a time and an owner remains.
LEMMA SerialKeeps ==
    ASSUME SerialInv, [Next]_vars, ~overlapped'
    PROVE  Serial'
<1>1. CASE UNCHANGED vars
  BY <1>1 DEF vars, SerialInv, Serial, Fresh, HasOwner, Owners
<1>2. ASSUME NEW m \in Members, Join(m) PROVE Serial'
  <2>1. PICK role \in Roles : roles' = [roles EXCEPT ![m] = role]
    BY <1>2 DEF Join
  <2>2. roles[m] = "new" /\ UNCHANGED <<requests, overlapped>>
    BY <1>2 DEF Join
  <2>3. \A n \in Members : roles[n] # "new" => roles'[n] = roles[n]
    BY <2>1, <2>2 DEF SerialInv, IInv, TypeOK
  <2>4. Serial
    BY <2>2 DEF SerialInv
  <2>5. \A o \in Owners : o \in Owners'
    BY <2>3 DEF Owners
  <2>6. ASSUME NEW r \in Requests PROVE Fresh(r)'
    <3>1. Fresh(r) /\ (requests[r].pc # "idle" => requests[r].actor \in Members
                                               /\ requests[r].target \in Members
                                               /\ requests[r].actorRole # "new")
      BY <2>4 DEF Serial, SerialInv, IInv, RequestsKnown
    <3>2. requests[r].pc \in Loaded => requests[r].pc # "idle" /\ roles[requests[r].target] # "new"
      BY DEF SerialInv, IInv, RequestsKnown, Loaded
    <3> QED
      BY <2>2, <2>3, <2>5, <3>1, <3>2 DEF Fresh
  <2> QED
    BY <2>2, <2>4, <2>5, <2>6 DEF Serial, HasOwner
<1>3. ASSUME NEW r \in Requests, Authorize(r) \/ Step(r) PROVE Serial'
  <2>1. ~overlapped
    BY <1>3 DEF Authorize, Step, LoadTarget, CountOwners, Flush, Commit, Abort
  <2>2. Serial /\ IInv
    BY <2>1 DEF SerialInv
  <2>3. Alone(r)
    <3>1. CASE Authorize(r)
      BY <3>1 DEF Authorize
    <3>2. CASE Step(r)
      <4>1. requests[r].pc # "idle"
        BY <3>2 DEF Step, LoadTarget, CountOwners, Flush, Commit, Abort
      <4> QED
        BY <2>2, <4>1 DEF Alone, Serial
    <3> QED
      BY <1>3, <3>1, <3>2
  <2>4. \A s \in Requests \ {r} : requests'[s].pc = "idle"
    BY <1>3, <2>2, <2>3, OthersStay DEF Alone
  <2>5. Fresh(r)' /\ HasOwner'
    <3>1. CASE Authorize(r)
      <4>1. /\ requests'[r].pc = "authorized"
            /\ roles[requests'[r].actor] = requests'[r].actorRole
            /\ roles' = roles
        BY <3>1, <2>2 DEF Authorize, IInv, TypeOK
      <4> QED
        BY <2>2, <4>1 DEF Serial, Fresh, HasOwner, Owners, Loaded
    <3> QED
      BY <1>3, <2>2, <3>1, SerialStep
  <2>6. ASSUME NEW s \in Requests PROVE Fresh(s)'
    <3>1. CASE s # r
      BY <2>4, <3>1 DEF Fresh, Loaded
    <3> QED
      BY <2>5, <3>1
  <2> QED
    BY <2>4, <2>5, <2>6 DEF Serial
<1> QED
  BY <1>1, <1>2, <1>3 DEF Next

\* Until requests overlap, what an open request has read is still true.
THEOREM SerialInductive == Spec => []SerialInv
<1>1. Init => SerialInv
  <2> SUFFICES ASSUME Init PROVE SerialInv
    OBVIOUS
  <2>1. HasOwner
    <3>1. IsFiniteSet({}) /\ Cardinality({}) = 0
      BY FS_EmptySet
    <3> QED
      BY <3>1 DEF Init, HasOwner
  <2>2. Serial
    BY <2>1 DEF Init, Idle, Serial, Fresh, Loaded
  <2> QED
    BY <2>2, InitHolds DEF SerialInv
<1>2. SerialInv /\ [Next]_vars => SerialInv'
  BY SerialKeeps, NextKeeps DEF SerialInv
<1> QED
  BY <1>1, <1>2, PTL DEF Spec

\* However many members and requests there are, and whatever has happened
\* before, the organization keeps an owner until two requests overlap: the
\* check of _count_owners is right, only its lock is missing.
THEOREM LastOwnerStays == Spec => []OwnerUntilOverlap
<1>1. SerialInv => OwnerUntilOverlap
  BY DEF SerialInv, Serial, OwnerUntilOverlap
<1> QED
  BY <1>1, SerialInductive, PTL
=============================================================================
