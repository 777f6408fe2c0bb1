------------------------- MODULE ErrorIngestProofs -------------------------
(* Theorems about ErrorIngest for any projects, reports and requests.      *)
EXTENDS ErrorIngest, FiniteSetTheorems, TLAPS

\* A request that moves keeps everything but its step.
LEMMA MoveRequest ==
    ASSUME IInv, NEW r \in Requests, NEW pc \in Steps, Move(r, pc)
    PROVE  /\ requests' \in [Requests -> [pc : Steps, row : Rows \cup {None}, seen : Nat]]
           /\ requests'[r].pc = pc
           /\ requests'[r].row = requests[r].row
           /\ requests'[r].seen = requests[r].seen
           /\ \A s \in Requests : s # r => requests'[s] = requests[s]
BY DEF Move, IInv, TypeOK

\* A request that sees no row, fails or writes to a row it may write, and
\* changes nothing else, keeps the invariant.
LEMMA MoveKeeps ==
    ASSUME IInv, NEW r \in Requests, NEW pc \in {"missing", "flushed", "failed"}, Move(r, pc),
           UNCHANGED <<live, errors, occurrences, queued>>,
           failures' \in 0..MaxFailures, overlapping' \subseteq Requests,
           pc = "flushed" =>
              /\ requests[r].pc = "found" /\ Stored(requests[r].row)
              /\ \A q \in Requests : requests[q].pc = "flushed" => requests[q].row # requests[r].row
    PROVE  IInv'
<1>1. /\ requests' \in [Requests -> [pc : Steps, row : Rows \cup {None}, seen : Nat]]
      /\ requests'[r].pc = pc
      /\ requests'[r].row = requests[r].row
      /\ requests'[r].seen = requests[r].seen
      /\ \A s \in Requests : s # r => requests'[s] = requests[s]
  BY MoveRequest DEF Steps
<1>2. TypeOK'
  BY <1>1 DEF IInv, TypeOK
<1>3. RequestsKnown'
  BY <1>1 DEF IInv, RequestsKnown, TypeOK, Stored, KeyOf
<1>4. WritesApart'
  <2>1. CASE pc # "flushed"
    BY <1>1, <2>1 DEF IInv, WritesApart
  <2>2. CASE pc = "flushed"
    <3>1. \A q \in Requests : requests[q].pc = "flushed" => Key(q) # Key(r)
      BY <2>2 DEF IInv, RequestsKnown, OneRowPerFingerprint
    <3> QED
      BY <1>1, <2>2, <3>1 DEF IInv, WritesApart
  <2> QED
    BY <2>1, <2>2
<1>5. FreeRows' /\ OneRowPerFingerprint' /\ CountNeverExceeds'
  BY DEF IInv, FreeRows, OneRowPerFingerprint, CountNeverExceeds, Stored, KeyOf
<1> QED
  BY <1>2, <1>3, <1>4, <1>5 DEF IInv

\* What a report reads is committed at that time.
LEMMA ReceiveKeeps ==
    ASSUME IInv, NEW r \in Requests, Receive(r)
    PROVE  IInv'
<1> overlapping' \subseteq Requests
  BY DEF Receive, IInv, TypeOK
<1>1. CASE Move(r, "missing")
  <2>1. failures' \in 0..MaxFailures
    BY DEF Receive, IInv, TypeOK
  <2> QED
    BY <1>1, <2>1, MoveKeeps DEF Receive
<1>2. ASSUME NEW x \in Rows, Stored(x), KeyOf(x) = Key(r),
             requests' = [requests EXCEPT ![r] = [pc |-> "found", row |-> x,
                                                  seen |-> errors[x].count]]
      PROVE  IInv'
  <2>1. UNCHANGED <<live, errors, occurrences, queued, failures>>
    BY DEF Receive
  <2>2. errors[x].count \in Nat /\ errors[x].count >= 1 /\ errors[x].count <= occurrences[x]
    BY <1>2 DEF IInv, TypeOK, CountNeverExceeds
  <2>3. /\ requests'[r].pc = "found"
        /\ requests'[r].row = x
        /\ requests'[r].seen = errors[x].count
        /\ \A s \in Requests : s # r => requests'[s] = requests[s]
    BY <1>2 DEF IInv, TypeOK
  <2>4. TypeOK'
    BY <1>2, <2>1, <2>2 DEF IInv, TypeOK, Steps
  <2>5. RequestsKnown'
    BY <1>2, <2>1, <2>2, <2>3 DEF IInv, RequestsKnown, Stored, KeyOf
  <2>6. WritesApart'
    BY <2>3 DEF IInv, WritesApart
  <2>7. FreeRows' /\ OneRowPerFingerprint' /\ CountNeverExceeds'
    BY <2>1 DEF IInv, FreeRows, OneRowPerFingerprint, CountNeverExceeds, Stored, KeyOf
  <2> QED
    BY <2>4, <2>5, <2>6, <2>7 DEF IInv
<1> QED
  BY <1>1, <1>2 DEF Receive

\* The lock of a found row is free when it is taken.
LEMMA UpdateKeeps ==
    ASSUME IInv, NEW r \in Requests, Update(r)
    PROVE  IInv'
BY MoveKeeps DEF Update, IInv, TypeOK

\* A report that fails has changed nothing that is visible.
LEMMA FailKeeps ==
    ASSUME IInv, NEW r \in Requests, Conflict(r) \/ Abort(r)
    PROVE  IInv'
<1>1. failures' \in 0..MaxFailures /\ overlapping' \subseteq Requests
  BY ConstantsAssumption DEF Conflict, Abort, IInv, TypeOK
<1> QED
  BY <1>1, MoveKeeps DEF Conflict, Abort

\* Insert takes an identity nobody uses, for a key nobody else writes.
LEMMA InsertKeeps ==
    ASSUME IInv, NEW r \in Requests, Insert(r)
    PROVE  IInv'
<1>1. PICK x \in Rows :
         /\ errors[x].status = "free"
         /\ \A q \in Requests : requests[q].pc = "flushed" => requests[q].row # x
         /\ requests' = [requests EXCEPT ![r] = [pc |-> "flushed", row |-> x, seen |-> 0]]
  BY DEF Insert
<1>2. /\ UNCHANGED <<live, errors, occurrences, queued, failures, overlapping>>
      /\ \A q \in Requests : requests[q].pc = "flushed" => Key(q) # Key(r)
      /\ \A y \in Rows : Stored(y) => KeyOf(y) # Key(r)
  BY DEF Insert
<1>3. /\ requests'[r].pc = "flushed"
      /\ requests'[r].row = x
      /\ requests'[r].seen = 0
      /\ \A s \in Requests : s # r => requests'[s] = requests[s]
  BY <1>1 DEF IInv, TypeOK
<1>4. TypeOK'
  BY <1>1, <1>2 DEF IInv, TypeOK, Steps
<1>5. RequestsKnown'
  BY <1>1, <1>2, <1>3 DEF IInv, RequestsKnown, Stored, KeyOf
<1>6. WritesApart'
  BY <1>1, <1>2, <1>3 DEF IInv, WritesApart
<1>7. FreeRows' /\ OneRowPerFingerprint' /\ CountNeverExceeds'
  BY <1>2 DEF IInv, FreeRows, OneRowPerFingerprint, CountNeverExceeds, Stored, KeyOf
<1> QED
  BY <1>4, <1>5, <1>6, <1>7 DEF IInv

\* What Commit writes, whether the row existed or is new.
LEMMA WrittenRow ==
    ASSUME IInv, NEW r \in Requests, requests[r].pc = "flushed"
    PROVE  LET x == requests[r].row w == Written(r) IN
           /\ x \in Rows
           /\ w \in [project : Projects \cup {None}, print : (Kinds \X Traces) \cup {None},
                     count : Nat, status : {"free", "open", "fix_attempted", "gone"}]
           /\ w.status \notin {"free", "gone"}
           /\ w.project = ReportOf[r].project /\ w.print = Fingerprint(ReportOf[r])
           /\ w.count = requests[r].seen + 1
           /\ requests[r].seen \in 0..occurrences[x]
           /\ occurrences[x] \in Nat
<1> DEFINE x == requests[r].row
<1>1. x \in Rows /\ requests[r].seen \in Nat /\ occurrences[x] \in Nat
  BY DEF IInv, TypeOK, RequestsKnown
<1>2. CASE Stored(x)
  <2>1. KeyOf(x) = Key(r) /\ requests[r].seen \in 1..occurrences[x]
    BY <1>2 DEF IInv, RequestsKnown, Stored
  <2>2. errors[x] \in [project : Projects \cup {None}, print : (Kinds \X Traces) \cup {None},
                       count : Nat, status : {"free", "open", "fix_attempted", "gone"}]
    BY <1>1 DEF IInv, TypeOK
  <2>3. Written(r) = [errors[x] EXCEPT !.count = requests[r].seen + 1]
    BY <1>2 DEF Written
  <2>4. errors[x].project = ReportOf[r].project /\ errors[x].print = Fingerprint(ReportOf[r])
    BY <2>1 DEF KeyOf, Key
  <2> QED
    BY <1>1, <1>2, <2>1, <2>2, <2>3, <2>4 DEF Stored
<1>3. CASE ~Stored(x)
  <2>1. requests[r].seen = 0
    BY <1>3 DEF IInv, RequestsKnown
  <2>2. Written(r) = [project |-> ReportOf[r].project, print |-> Fingerprint(ReportOf[r]),
                      count |-> 1, status |-> "open"]
    BY <1>3 DEF Written, ErrorRow
  <2>3. ReportOf[r].project \in Projects /\ Fingerprint(ReportOf[r]) \in Kinds \X Traces
    BY ConstantsAssumption DEF Fingerprint
  <2> QED
    BY <1>1, <2>1, <2>2, <2>3
<1> QED
  BY <1>2, <1>3

\* Commit makes one row of the request's key and counts one more occurrence.
LEMMA CommitKeeps ==
    ASSUME IInv, NEW r \in Requests, Commit(r)
    PROVE  IInv'
<1>1. PICK x \in Rows, w \in [project : Projects \cup {None},
                              print : (Kinds \X Traces) \cup {None},
                              count : Nat, status : {"free", "open", "fix_attempted", "gone"}] :
         /\ requests[r].row = x
         /\ errors' = [errors EXCEPT ![x] = w]
         /\ w.status \notin {"free", "gone"}
         /\ <<w.project, w.print>> = Key(r)
         /\ w.count = requests[r].seen + 1
         /\ requests[r].seen \in 0..occurrences[x]
         /\ occurrences[x] \in Nat
  BY WrittenRow DEF Commit, Key
<1>2. /\ requests[r].pc = "flushed"
      /\ occurrences' = [occurrences EXCEPT ![x] = @ + 1]
      /\ Move(r, "accepted")
      /\ UNCHANGED <<live, queued, failures, overlapping>>
  BY <1>1 DEF Commit
<1>3. /\ errors'[x] = w /\ occurrences'[x] = occurrences[x] + 1
      /\ \A y \in Rows : y # x => errors'[y] = errors[y] /\ occurrences'[y] = occurrences[y]
  BY <1>1, <1>2 DEF IInv, TypeOK
<1>4. /\ requests' \in [Requests -> [pc : Steps, row : Rows \cup {None}, seen : Nat]]
      /\ requests'[r].pc = "accepted"
      /\ requests'[r].row = x
      /\ \A s \in Requests : s # r => requests'[s] = requests[s]
  BY <1>1, <1>2, MoveRequest DEF Steps
<1>5. TypeOK'
  <2>1. occurrences' \in [Rows -> Nat]
    BY <1>1, <1>2 DEF IInv, TypeOK
  <2> QED
    BY <1>1, <1>2, <1>4, <2>1 DEF IInv, TypeOK
<1>6. KeyOf(x)' = Key(r) /\ Stored(x)'
  BY <1>1, <1>3 DEF KeyOf, Stored
<1>7. \A y \in Rows : y # x => (Stored(y)' <=> Stored(y)) /\ KeyOf(y)' = KeyOf(y)
  BY <1>3 DEF Stored, KeyOf
<1>8. \A y \in Rows : Stored(y) /\ KeyOf(y) = Key(r) => y = x
  BY <1>1, <1>2 DEF IInv, RequestsKnown, OneRowPerFingerprint
<1>9. errors[x].status # "free" => KeyOf(x) = Key(r)
  BY <1>1, <1>2 DEF IInv, RequestsKnown
<1>10. \A s \in Requests : s # r /\ requests[s].pc = "flushed" =>
          requests[s].row # x /\ Key(s) # Key(r)
  BY <1>1, <1>2 DEF IInv, WritesApart
<1>11. Stored(x) \/ errors[x].status = "free"
  BY <1>1, <1>2 DEF IInv, RequestsKnown
<1>12. RequestsKnown'
  <2> SUFFICES ASSUME NEW s \in Requests
               PROVE  (LET q == requests[s] y == requests[s].row IN
                       /\ q.pc \in {"found", "flushed", "accepted"} => y \in Rows
                       /\ q.pc \in {"found", "accepted"} =>
                             errors[y].status # "free" /\ KeyOf(y) = Key(s)
                       /\ q.pc = "found" =>
                             q.seen >= 1 /\ (Stored(y) => q.seen <= occurrences[y])
                       /\ q.pc = "flushed" =>
                             \/ /\ Stored(y) /\ KeyOf(y) = Key(s)
                                /\ q.seen \in 1..occurrences[y]
                             \/ /\ errors[y].status = "free" /\ q.seen = 0
                                /\ \A z \in Rows : Stored(z) => KeyOf(z) # Key(s))'
    BY DEF RequestsKnown
  <2>1. CASE s = r
    BY <2>1, <1>4, <1>6 DEF Stored
  <2>2. CASE s # r /\ requests[s].row # x
    <3>1. requests'[s] = requests[s]
      BY <2>2, <1>4
    <3>2. requests[s].row \in Rows =>
             /\ errors'[requests[s].row] = errors[requests[s].row]
             /\ occurrences'[requests[s].row] = occurrences[requests[s].row]
      BY <2>2, <1>3
    <3>3. requests[s].pc = "flushed" /\ (\A z \in Rows : Stored(z) => KeyOf(z) # Key(s)) =>
             (\A z \in Rows : Stored(z) => KeyOf(z) # Key(s))'
      BY <2>2, <1>6, <1>7, <1>10 DEF Key
    <3> QED
      BY <3>1, <3>2, <3>3 DEF IInv, RequestsKnown, Stored, KeyOf, Key
  <2>3. CASE s # r /\ requests[s].row = x
    <3>1. requests'[s] = requests[s] /\ requests[s].pc # "flushed"
      BY <2>3, <1>4, <1>10
    <3>2. requests[s].pc \in {"found", "accepted"} => Key(s) = Key(r) /\ Stored(x)
      BY <2>3, <1>9, <1>11 DEF IInv, RequestsKnown
    <3>3. requests[s].pc = "found" => requests[s].seen >= 1 /\ requests[s].seen <= occurrences[x]
      BY <2>3, <3>2 DEF IInv, RequestsKnown
    <3>4. requests[s].seen \in Nat
      BY DEF IInv, TypeOK
    <3> QED
      BY <2>3, <3>1, <3>2, <3>3, <3>4, <1>1, <1>3, <1>6 DEF Stored, Key
  <2> QED
    BY <2>1, <2>2, <2>3
<1>13. WritesApart'
  BY <1>4 DEF IInv, WritesApart, Key
<1>14. FreeRows'
  BY <1>1, <1>3 DEF IInv, FreeRows, NoRow, ErrorRow
<1>15. OneRowPerFingerprint'
  BY <1>6, <1>7, <1>8 DEF IInv, OneRowPerFingerprint
<1>16. CountNeverExceeds'
  BY <1>1, <1>3, <1>7 DEF IInv, CountNeverExceeds
<1> QED
  BY <1>5, <1>12, <1>13, <1>14, <1>15, <1>16 DEF IInv

\* The cascade removes rows; the requests that found them keep what they know.
LEMMA DeleteKeeps ==
    ASSUME IInv, NEW p \in Projects, DeleteProject(p)
    PROVE  IInv'
<1>1. /\ \A r \in Requests : requests[r].pc = "flushed" => ReportOf[r].project # p
      /\ live' = live \ {p} /\ queued' \subseteq queued
      /\ UNCHANGED <<requests, failures, overlapping>>
      /\ errors' = [x \in Rows |-> IF errors[x].project = p
                                   THEN [errors[x] EXCEPT !.status = "gone"] ELSE errors[x]]
      /\ occurrences' = [x \in Rows |-> IF errors[x].project = p THEN 0 ELSE occurrences[x]]
  BY DEF DeleteProject
<1>2. TypeOK'
  BY <1>1 DEF IInv, TypeOK
<1>3. \A x \in Rows :
         /\ errors'[x].project = errors[x].project
         /\ errors'[x].print = errors[x].print
         /\ errors'[x].count = errors[x].count
         /\ errors'[x].status = IF errors[x].project = p THEN "gone" ELSE errors[x].status
         /\ errors[x].project # p => errors'[x] = errors[x] /\ occurrences'[x] = occurrences[x]
  BY <1>1 DEF IInv, TypeOK
<1>4. \A x \in Rows : errors[x].status = "free" => errors[x].project # p
  BY ConstantsAssumption DEF IInv, FreeRows, NoRow, ErrorRow
<1>5. \A x \in Rows : /\ Stored(x)' <=> Stored(x) /\ errors[x].project # p
                      /\ KeyOf(x)' = KeyOf(x)
                      /\ errors'[x].status = "free" <=> errors[x].status = "free"
  BY <1>3, <1>4 DEF Stored, KeyOf
<1>6. RequestsKnown'
  <2> SUFFICES ASSUME NEW s \in Requests
               PROVE  (LET q == requests[s] y == requests[s].row IN
                       /\ q.pc \in {"found", "flushed", "accepted"} => y \in Rows
                       /\ q.pc \in {"found", "accepted"} =>
                             errors[y].status # "free" /\ KeyOf(y) = Key(s)
                       /\ q.pc = "found" =>
                             q.seen >= 1 /\ (Stored(y) => q.seen <= occurrences[y])
                       /\ q.pc = "flushed" =>
                             \/ /\ Stored(y) /\ KeyOf(y) = Key(s)
                                /\ q.seen \in 1..occurrences[y]
                             \/ /\ errors[y].status = "free" /\ q.seen = 0
                                /\ \A z \in Rows : Stored(z) => KeyOf(z) # Key(s))'
    BY DEF RequestsKnown
  <2>1. requests'[s] = requests[s]
    BY <1>1
  <2>2. CASE requests[s].pc # "flushed"
    BY <2>1, <2>2, <1>3, <1>5 DEF IInv, RequestsKnown, Key
  <2>3. CASE requests[s].pc = "flushed" /\ Stored(requests[s].row)
    <3>1. /\ KeyOf(requests[s].row) = Key(s) /\ requests[s].row \in Rows
          /\ requests[s].seen \in 1..occurrences[requests[s].row]
      BY <2>3 DEF IInv, RequestsKnown, Stored
    <3>2. errors[requests[s].row].project # p
      BY <3>1, <2>3, <1>1 DEF KeyOf, Key
    <3> QED
      BY <2>1, <2>3, <3>1, <3>2, <1>3, <1>5 DEF Key
  <2>4. CASE requests[s].pc = "flushed" /\ ~Stored(requests[s].row)
    BY <2>1, <2>4, <1>5 DEF IInv, RequestsKnown, Key
  <2> QED
    BY <2>2, <2>3, <2>4
<1>7. WritesApart'
  BY <1>1 DEF IInv, WritesApart, Key
<1>8. FreeRows'
  BY <1>3, <1>4, <1>5 DEF IInv, FreeRows, NoRow, ErrorRow
<1>9. OneRowPerFingerprint'
  BY <1>5 DEF IInv, OneRowPerFingerprint
<1>10. CountNeverExceeds'
  BY <1>3, <1>5 DEF IInv, CountNeverExceeds
<1> QED
  BY <1>2, <1>6, <1>7, <1>8, <1>9, <1>10 DEF IInv

\* Fix jobs touch the status column of stored rows only.
LEMMA FixKeeps ==
    ASSUME IInv, NEW x \in Rows, TriggerFix(x) \/ CloseError(x)
    PROVE  IInv'
<1>1. CASE TriggerFix(x)
  BY <1>1 DEF TriggerFix, IInv, TypeOK, RequestsKnown, WritesApart, FreeRows,
              OneRowPerFingerprint, CountNeverExceeds, Stored, KeyOf, Key
<1>2. CASE CloseError(x)
  <2>1. /\ errors' = [errors EXCEPT ![x].status = "fix_attempted"]
        /\ Stored(x) /\ queued' \subseteq queued
        /\ UNCHANGED <<live, occurrences, requests, failures, overlapping>>
    BY <1>2 DEF CloseError
  <2>2. TypeOK'
    BY <2>1 DEF IInv, TypeOK
  <2>3. \A y \in Rows :
           /\ errors'[y].project = errors[y].project
           /\ errors'[y].print = errors[y].print
           /\ errors'[y].count = errors[y].count
           /\ y # x => errors'[y] = errors[y]
    BY <2>1 DEF IInv, TypeOK
  <2>4. errors'[x].status = "fix_attempted"
    BY <2>1 DEF IInv, TypeOK
  <2>5. \A y \in Rows : /\ Stored(y)' <=> Stored(y)
                        /\ KeyOf(y)' = KeyOf(y)
                        /\ errors'[y].status = "free" <=> errors[y].status = "free"
    BY <2>1, <2>3, <2>4 DEF Stored, KeyOf
  <2>6. RequestsKnown'
    BY <2>1, <2>5 DEF IInv, RequestsKnown, Key
  <2>7. WritesApart' /\ OneRowPerFingerprint' /\ CountNeverExceeds'
    BY <2>1, <2>3, <2>5 DEF IInv, WritesApart, OneRowPerFingerprint, CountNeverExceeds, Key
  <2>8. FreeRows'
    BY <2>1, <2>3, <2>4, <2>5 DEF IInv, FreeRows, NoRow, ErrorRow
  <2> QED
    BY <2>2, <2>6, <2>7, <2>8 DEF IInv
<1> QED
  BY <1>1, <1>2

\* Nothing is stored and no report runs.
LEMMA InitHolds == Init => IInv
BY ConstantsAssumption
   DEF Init, IInv, TypeOK, RequestsKnown, WritesApart, FreeRows, OneRowPerFingerprint,
       CountNeverExceeds, Stored, NoRow, ErrorRow, Steps

\* Every step keeps the invariant.
LEMMA NextKeeps == IInv /\ [Next]_vars => IInv'
<1> SUFFICES ASSUME IInv, [Next]_vars PROVE IInv'
  OBVIOUS
<1>1. CASE UNCHANGED vars
  BY <1>1 DEF vars, IInv, TypeOK, RequestsKnown, WritesApart, FreeRows,
              OneRowPerFingerprint, CountNeverExceeds, Stored, KeyOf, Key
<1>2. ASSUME NEW r \in Requests, Receive(r) \/ Handle(r) PROVE IInv'
  BY <1>2, ReceiveKeeps, UpdateKeeps, InsertKeeps, FailKeeps, CommitKeeps DEF Handle
<1>3. ASSUME NEW p \in Projects, DeleteProject(p) PROVE IInv'
  BY <1>3, DeleteKeeps
<1>4. ASSUME NEW x \in Rows, TriggerFix(x) \/ CloseError(x) PROVE IInv'
  BY <1>4, FixKeeps
<1> QED
  BY <1>1, <1>2, <1>3, <1>4 DEF Next

\* Requests that overlap in any order keep what each of them knows.
THEOREM Inductive == Spec => []IInv
BY InitHolds, NextKeeps, PTL DEF Spec

\* Every variable has its type.
THEOREM TypeCorrect == Spec => []TypeOK
<1>1. IInv => TypeOK
  BY DEF IInv
<1> QED
  BY <1>1, Inductive, PTL

\* There is never a second row for a project and fingerprint.
THEOREM OneRow == Spec => []OneRowPerFingerprint
<1>1. IInv => OneRowPerFingerprint
  BY DEF IInv
<1> QED
  BY <1>1, Inductive, PTL

\* Lost updates only lower a count: it stays between 1 and the occurrences.
THEOREM CountBounded == Spec => []CountNeverExceeds
<1>1. IInv => CountNeverExceeds
  BY DEF IInv
<1> QED
  BY <1>1, Inductive, PTL

\* An accepted report belongs to an error of its own project and fingerprint.
THEOREM OwnError == Spec => []AcceptedInOwnError
<1>1. IInv => AcceptedInOwnError
  BY DEF IInv, RequestsKnown, AcceptedInOwnError
<1> QED
  BY <1>1, Inductive, PTL

-----------------------------------------------------------------------------
(* Occurrences and accepted reports.                                       *)

AcceptedIn(x) == {r \in Requests : requests[r].pc = "accepted" /\ requests[r].row = x}

\* A request that does not commit is accepted neither before nor after.
LEMMA NotAccepted ==
    ASSUME IInv, NEW r \in Requests,
           Receive(r) \/ Update(r) \/ Insert(r) \/ Conflict(r) \/ Abort(r)
    PROVE  \A x \in Rows : AcceptedIn(x)' = AcceptedIn(x)
<1>1. requests \in [Requests -> [pc : Steps, row : Rows \cup {None}, seen : Nat]]
  BY DEF IInv, TypeOK
<1>2. requests[r].pc # "accepted" /\ requests'[r].pc # "accepted"
  BY <1>1 DEF Receive, Update, Insert, Conflict, Abort, Move, UnderWay
<1>3. \A q \in Requests : q # r => requests'[q] = requests[q]
  BY <1>1 DEF Receive, Update, Insert, Conflict, Abort, Move
<1> QED
  BY <1>2, <1>3 DEF AcceptedIn

\* A commit adds one occurrence and one accepted report to the same error; the
\* rows it could confuse them with are blank and accepted nothing.
LEMMA CommitCounts ==
    ASSUME IInv, OccurrencesAreAccepted, IsFiniteSet(Requests),
           NEW r \in Requests, Commit(r)
    PROVE  OccurrencesAreAccepted'
<1>1. PICK x \in Rows :
        /\ x = requests[r].row
        /\ Stored(x) \/ errors[x].status = "free"
        /\ requests[r].pc = "flushed"
  BY DEF Commit, IInv, RequestsKnown
<1>2. /\ requests'[r].pc = "accepted" /\ requests'[r].row = x
      /\ \A q \in Requests : q # r => requests'[q] = requests[q]
  BY <1>1 DEF Commit, Move, IInv, TypeOK
<1>3. /\ occurrences'[x] = occurrences[x] + 1
      /\ \A y \in Rows : y # x => occurrences'[y] = occurrences[y] /\ errors'[y] = errors[y]
  BY <1>1 DEF Commit, IInv, TypeOK
<1>4. /\ AcceptedIn(x)' = AcceptedIn(x) \cup {r}
      /\ r \notin AcceptedIn(x)
      /\ \A y \in Rows : y # x => AcceptedIn(y)' = AcceptedIn(y)
  BY <1>1, <1>2 DEF AcceptedIn
<1>5. occurrences[x] = Cardinality(AcceptedIn(x))
  <2>1. CASE Stored(x)
    BY <1>1, <2>1 DEF OccurrencesAreAccepted, AcceptedIn
  <2>2. CASE errors[x].status = "free"
    <3>1. AcceptedIn(x) = {}
      BY <1>1, <2>2 DEF AcceptedIn, IInv, RequestsKnown
    <3>2. occurrences[x] = 0
      BY <1>1, <2>2 DEF IInv, FreeRows
    <3> QED
      BY <3>1, <3>2, FS_EmptySet
  <2> QED
    BY <1>1, <2>1, <2>2
<1>6. Cardinality(AcceptedIn(x)') = Cardinality(AcceptedIn(x)) + 1
  <2>1. IsFiniteSet(AcceptedIn(x))
    BY FS_Subset DEF AcceptedIn
  <2> QED
    BY <1>4, <2>1, FS_AddElement
<1>7. \A y \in Rows : Stored(y)' =>
        occurrences'[y] = Cardinality(AcceptedIn(y)')
  <2> SUFFICES ASSUME NEW y \in Rows, Stored(y)'
               PROVE  occurrences'[y] = Cardinality(AcceptedIn(y)')
    OBVIOUS
  <2>1. CASE y = x
    BY <1>3, <1>5, <1>6, <2>1
  <2>2. CASE y # x
    <3>1. Stored(y)
      BY <1>3, <2>2 DEF Stored
    <3>2. occurrences[y] = Cardinality(AcceptedIn(y))
      BY <3>1 DEF OccurrencesAreAccepted, AcceptedIn
    <3> QED
      BY <1>3, <1>4, <2>2, <3>2
  <2> QED
    BY <2>1, <2>2
<1> QED
  BY <1>7 DEF OccurrencesAreAccepted, AcceptedIn

\* Every other step leaves both sides alone or deletes the error.
LEMMA NextCounts ==
    ASSUME IsFiniteSet(Requests)
    PROVE  IInv /\ OccurrencesAreAccepted /\ [Next]_vars => OccurrencesAreAccepted'
<1> SUFFICES ASSUME IInv, OccurrencesAreAccepted, [Next]_vars
             PROVE  OccurrencesAreAccepted'
  OBVIOUS
<1>1. ASSUME \A x \in Rows : /\ AcceptedIn(x)' = AcceptedIn(x)
                             /\ Stored(x)' => Stored(x) /\ occurrences'[x] = occurrences[x]
      PROVE  OccurrencesAreAccepted'
  BY <1>1 DEF OccurrencesAreAccepted, AcceptedIn
<1>2. CASE UNCHANGED vars
  BY <1>1, <1>2 DEF vars, AcceptedIn, Stored
<1>3. ASSUME NEW r \in Requests, Receive(r) \/ Handle(r)
      PROVE  OccurrencesAreAccepted'
  <2>1. CASE Commit(r)
    BY <2>1, CommitCounts
  <2>2. CASE Receive(r) \/ Update(r) \/ Insert(r) \/ Conflict(r) \/ Abort(r)
    <3>1. UNCHANGED <<errors, occurrences>>
      BY <2>2 DEF Receive, Update, Insert, Conflict, Abort
    <3> QED
      BY <1>1, <2>2, <3>1, NotAccepted DEF Stored
  <2> QED
    BY <1>3, <2>1, <2>2 DEF Handle
<1>4. ASSUME NEW p \in Projects, DeleteProject(p)
      PROVE  OccurrencesAreAccepted'
  <2>1. \A x \in Rows : AcceptedIn(x)' = AcceptedIn(x)
    BY <1>4 DEF DeleteProject, AcceptedIn
  <2>2. ASSUME NEW x \in Rows, Stored(x)'
        PROVE  Stored(x) /\ occurrences'[x] = occurrences[x]
    BY <1>4, <2>2 DEF DeleteProject, Stored, IInv, TypeOK
  <2> QED
    BY <1>1, <2>1, <2>2
<1>5. ASSUME NEW x \in Rows, TriggerFix(x) \/ CloseError(x)
      PROVE  OccurrencesAreAccepted'
  <2>1. UNCHANGED <<occurrences, requests>>
    BY <1>5 DEF TriggerFix, CloseError
  <2>2. \A y \in Rows : Stored(y)' => Stored(y)
    BY <1>5 DEF TriggerFix, CloseError, Stored, IInv, TypeOK
  <2>3. \A y \in Rows : AcceptedIn(y)' = AcceptedIn(y)
    BY <2>1 DEF AcceptedIn
  <2> QED
    BY <1>1, <2>1, <2>2, <2>3
<1> QED
  BY <1>2, <1>3, <1>4, <1>5 DEF Next

\* With finitely many reports, an error has exactly one occurrence for each
\* report that was accepted for it, whatever failed, overlapped or was deleted.
LEMMA OccurrencesCounted ==
    ASSUME IsFiniteSet(Requests)
    PROVE  Spec => []OccurrencesAreAccepted
<1>1. Init => OccurrencesAreAccepted
  BY DEF Init, OccurrencesAreAccepted, Stored, NoRow, ErrorRow
<1>2. IInv /\ OccurrencesAreAccepted /\ [Next]_vars => OccurrencesAreAccepted'
  BY NextCounts
<1> QED
  BY <1>1, <1>2, Inductive, PTL DEF Spec

-----------------------------------------------------------------------------
(* Lost updates and overlapping reports.                                   *)

\* There are finitely many reports, so those accepted alone can be counted.
LEMMA AloneFinite ==
    ASSUME IsFiniteSet(Requests), NEW x \in Rows
    PROVE  IsFiniteSet(AcceptedAlone(x)) /\ Cardinality(AcceptedAlone(x)) \in Nat
<1>1. AcceptedAlone(x) \subseteq Requests
  BY DEF AcceptedAlone
<1> QED
  BY <1>1, FS_Subset, FS_CardinalityType

\* A step by which no report arrives, gets a row or is accepted, and no count
\* changes except by deletion.
LEMMA QuietKeeps ==
    ASSUME LossInv,
           \A x \in Rows : AcceptedAlone(x)' = AcceptedAlone(x),
           \A x \in Rows : Stored(x)' =>
              /\ Stored(x) /\ errors'[x].count = errors[x].count
              /\ occurrences'[x] = occurrences[x],
           overlapping' = overlapping,
           \A r \in Requests : /\ UnderWay(r)' => UnderWay(r)
                               /\ requests'[r].seen = requests[r].seen
                               /\ \A x \in Rows : HasRow(r, x)' => HasRow(r, x)
    PROVE  LossInv'
<1>1. CountMissesOnlyOverlaps'
  BY DEF LossInv, CountMissesOnlyOverlaps
<1>2. OneFirst'
  BY DEF LossInv, OneFirst, Key
<1>3. SeenKnown'
  BY DEF LossInv, SeenKnown
<1> QED
  BY <1>1, <1>2, <1>3 DEF LossInv

\* The first report of a group reads a count that nobody is about to raise; the
\* others are overlapping and read it beside the first.
LEMMA ReceiveLosesNothing ==
    ASSUME IInv, LossInv, IsFiniteSet(Requests), NEW r \in Requests, Receive(r)
    PROVE  LossInv'
<1> DEFINE met == \E q \in Requests : UnderWay(q) /\ Key(q) = Key(r)
<1>1. /\ requests[r].pc = "idle" /\ UNCHANGED <<errors, occurrences>>
      /\ met => r \in overlapping'
      /\ ~met => overlapping' = overlapping
      /\ overlapping \subseteq overlapping' /\ overlapping' \subseteq overlapping \cup {r}
  BY DEF Receive
<1>2. \A s \in Requests : s # r => requests'[s] = requests[s]
  BY DEF Receive, Move, IInv, TypeOK
<1>3. \/ requests'[r].pc = "missing"
      \/ \E x \in Rows : /\ requests'[r].pc = "found" /\ requests'[r].row = x
                         /\ requests'[r].seen = errors[x].count
                         /\ Stored(x) /\ KeyOf(x) = Key(r)
  BY DEF Receive, Move, IInv, TypeOK
<1>4. \A x \in Rows : AcceptedAlone(x)' = AcceptedAlone(x)
  <2>1. requests[r].pc # "accepted" /\ requests'[r].pc # "accepted"
    BY <1>1, <1>3
  <2> QED
    BY <1>1, <1>2, <2>1 DEF AcceptedAlone
<1>5. \A x \in Rows : Stored(x)' <=> Stored(x)
  BY <1>1 DEF Stored
<1>6. CountMissesOnlyOverlaps'
  BY <1>1, <1>4, <1>5 DEF LossInv, CountMissesOnlyOverlaps
<1>7. OneFirst'
  <2> SUFFICES ASSUME NEW q \in Requests \ overlapping', NEW s \in Requests \ overlapping',
                      UnderWay(q)', UnderWay(s)', Key(q) = Key(s)
               PROVE  q = s
    BY DEF OneFirst, Key
  <2>1. CASE q # r /\ s # r
    BY <1>1, <1>2, <2>1 DEF LossInv, OneFirst, UnderWay
  <2>2. CASE q = r \/ s = r
    <3>1. ~met
      BY <1>1, <2>2
    <3> QED
      BY <1>2, <2>2, <3>1 DEF UnderWay
  <2> QED
    BY <2>1, <2>2
<1>8. SeenKnown'
  <2> SUFFICES ASSUME NEW s \in Requests, NEW x \in Rows, HasRow(s, x)', Stored(x)
               PROVE  /\ requests'[s].seen + 1 >= Cardinality(AcceptedAlone(x))
                      /\ (\E q \in Requests \ overlapping' : HasRow(q, x)') =>
                            requests'[s].seen >= Cardinality(AcceptedAlone(x))
    BY <1>4, <1>5 DEF SeenKnown
  <2>1. Cardinality(AcceptedAlone(x)) \in Nat /\ errors[x].count \in Nat
    BY AloneFinite DEF IInv, TypeOK
  <2>2. CASE s = r
    <3>1. requests'[s].seen = errors[x].count
      BY <1>3, <2>2 DEF HasRow
    <3>2. errors[x].count >= Cardinality(AcceptedAlone(x))
      BY <2>1 DEF LossInv, CountMissesOnlyOverlaps, IInv, TypeOK
    <3> QED
      BY <2>1, <3>1, <3>2
  <2>3. CASE s # r
    <3>1. HasRow(s, x) /\ requests'[s] = requests[s]
      BY <1>2, <2>3 DEF HasRow
    <3>2. UnderWay(s) /\ KeyOf(x) = Key(s)
      BY <3>1 DEF HasRow, UnderWay, IInv, RequestsKnown, Stored
    <3>3. ASSUME NEW q \in Requests \ overlapping', HasRow(q, x)'
          PROVE  q \in Requests \ overlapping /\ HasRow(q, x)
      <4>1. q # r
        BY <1>1, <1>3, <3>2, <3>3 DEF HasRow
      <4> QED
        BY <1>1, <1>2, <3>3, <4>1 DEF HasRow
    <3> QED
      BY <3>1, <3>3 DEF LossInv, SeenKnown
  <2> QED
    BY <2>2, <2>3
<1> QED
  BY <1>6, <1>7, <1>8 DEF LossInv

\* Insert takes a row that is stored nowhere yet.
LEMMA InsertLosesNothing ==
    ASSUME IInv, LossInv, NEW r \in Requests, Insert(r)
    PROVE  LossInv'
<1>1. PICK x \in Rows :
         /\ errors[x].status = "free"
         /\ requests' = [requests EXCEPT ![r] = [pc |-> "flushed", row |-> x, seen |-> 0]]
  BY DEF Insert
<1>2. requests[r].pc = "missing" /\ UNCHANGED <<errors, occurrences, overlapping>>
  BY DEF Insert
<1>3. /\ requests'[r].pc = "flushed" /\ requests'[r].row = x
      /\ \A s \in Requests : s # r => requests'[s] = requests[s]
  BY <1>1 DEF IInv, TypeOK
<1>4. \A y \in Rows : /\ AcceptedAlone(y)' = AcceptedAlone(y)
                      /\ Stored(y)' <=> Stored(y)
  BY <1>2, <1>3 DEF AcceptedAlone, Stored
<1>5. CountMissesOnlyOverlaps'
  BY <1>2, <1>4 DEF LossInv, CountMissesOnlyOverlaps
<1>6. \A s \in Requests : UnderWay(s)' => UnderWay(s)
  BY <1>2, <1>3 DEF UnderWay
<1>7. OneFirst'
  BY <1>2, <1>6 DEF LossInv, OneFirst, Key
<1>8. SeenKnown'
  <2>1. ASSUME NEW s \in Requests, NEW y \in Rows, HasRow(s, y)', Stored(y)
        PROVE  HasRow(s, y) /\ requests'[s] = requests[s]
    <3>1. s # r
      BY <1>1, <1>3, <2>1 DEF HasRow, Stored
    <3> QED
      BY <1>3, <2>1, <3>1 DEF HasRow
  <2> QED
    BY <1>2, <1>4, <2>1 DEF LossInv, SeenKnown
<1> QED
  BY <1>5, <1>7, <1>8 DEF LossInv

\* A commit raises the count read by one.  If the report was accepted alone, it
\* was the first of its group, so the others that have the row had read no less.
LEMMA CommitLosesLittle ==
    ASSUME IInv, LossInv, CountNeverExceeds', IsFiniteSet(Requests),
           NEW r \in Requests, Commit(r)
    PROVE  LossInv'
<1>1. PICK x \in Rows :
        /\ x = requests[r].row /\ requests[r].pc = "flushed"
        /\ Stored(x) \/ errors[x].status = "free"
  BY DEF Commit, IInv, RequestsKnown
<1>2. /\ requests'[r].pc = "accepted" /\ requests'[r].row = x
      /\ \A q \in Requests : q # r => requests'[q] = requests[q]
  BY <1>1 DEF Commit, Move, IInv, TypeOK
<1>3. /\ errors'[x].count = requests[r].seen + 1
      /\ \A y \in Rows : y # x => occurrences'[y] = occurrences[y] /\ errors'[y] = errors[y]
      /\ overlapping' = overlapping
  <2>1. Written(r).count = requests[r].seen + 1
    BY <1>1, WrittenRow
  <2> QED
    BY <1>1, <2>1 DEF Commit, IInv, TypeOK
<1> DEFINE n(y) == Cardinality(AcceptedAlone(y))
<1>4. /\ r \in overlapping => AcceptedAlone(x)' = AcceptedAlone(x)
      /\ r \notin overlapping => AcceptedAlone(x)' = AcceptedAlone(x) \cup {r}
      /\ \A y \in Rows : y # x => AcceptedAlone(y)' = AcceptedAlone(y)
  BY <1>1, <1>2, <1>3 DEF AcceptedAlone
<1>5. n(x) \in Nat /\ n(x)' = IF r \in overlapping THEN n(x) ELSE n(x) + 1
  <2>1. IsFiniteSet(AcceptedAlone(x)) /\ n(x) \in Nat /\ r \notin AcceptedAlone(x)
    BY <1>1, AloneFinite DEF AcceptedAlone
  <2> QED
    BY <1>4, <2>1, FS_AddElement
<1>6. /\ requests[r].seen \in Nat /\ errors'[x].count >= n(x)'
  <2>1. requests[r].seen \in Nat
    BY DEF IInv, TypeOK
  <2>2. CASE Stored(x)
    <3>1. requests[r].seen + 1 >= n(x) /\ (r \notin overlapping => requests[r].seen >= n(x))
      BY <1>1, <2>2 DEF LossInv, SeenKnown, HasRow
    <3> QED
      BY <1>3, <1>5, <2>1, <3>1
  <2>3. CASE errors[x].status = "free"
    <3>1. AcceptedAlone(x) = {}
      BY <1>1, <2>3 DEF AcceptedAlone, IInv, RequestsKnown
    <3>2. n(x) = 0
      BY <3>1, FS_EmptySet
    <3> QED
      BY <1>3, <1>5, <2>1, <3>2
  <2> QED
    BY <1>1, <2>2, <2>3
<1>7. CountMissesOnlyOverlaps'
  <2> SUFFICES ASSUME NEW y \in Rows, Stored(y)'
               PROVE  errors'[y].count \in n(y)'..occurrences'[y]
    BY DEF CountMissesOnlyOverlaps
  <2>1. CASE y = x
    <3>1. errors'[x].count \in 1..occurrences'[x]
      BY <2>1 DEF CountNeverExceeds
    <3>2. n(x)' \in Nat
      BY <1>5
    <3> QED
      BY <1>6, <2>1, <3>1, <3>2
  <2>2. CASE y # x
    <3>1. Stored(y)
      BY <1>3, <2>2 DEF Stored
    <3> QED
      BY <1>3, <1>4, <2>2, <3>1 DEF LossInv, CountMissesOnlyOverlaps
  <2> QED
    BY <2>1, <2>2
<1>8. \A s \in Requests : /\ UnderWay(s)' => UnderWay(s) /\ s # r
                          /\ \A y \in Rows : HasRow(s, y)' => HasRow(s, y) /\ s # r
                          /\ s # r => requests'[s] = requests[s]
  BY <1>2 DEF UnderWay, HasRow
<1>9. OneFirst'
  BY <1>3, <1>8 DEF LossInv, OneFirst, Key
<1>10. SeenKnown'
  <2> SUFFICES ASSUME NEW s \in Requests, NEW y \in Rows, HasRow(s, y)', Stored(y)'
               PROVE  /\ requests'[s].seen + 1 >= n(y)'
                      /\ (\E q \in Requests \ overlapping : HasRow(q, y)') =>
                            requests'[s].seen >= n(y)'
    BY <1>3 DEF SeenKnown
  <2>1. HasRow(s, y) /\ s # r /\ requests'[s] = requests[s] /\ requests[s].seen \in Nat
    BY <1>8 DEF IInv, TypeOK
  <2>2. CASE y # x
    <3>1. Stored(y) /\ n(y)' = n(y)
      BY <1>3, <1>4, <2>2 DEF Stored
    <3> QED
      BY <1>8, <2>1, <3>1 DEF LossInv, SeenKnown
  <2>3. CASE y = x
    <3>1. Stored(x) /\ requests[s].pc = "found"
      BY <1>1, <2>1, <2>3 DEF HasRow, IInv, RequestsKnown, WritesApart, Stored
    <3>2. CASE r \in overlapping
      BY <1>5, <1>8, <2>1, <2>3, <3>1, <3>2 DEF LossInv, SeenKnown
    <3>3. CASE r \notin overlapping
      <4>1. requests[s].seen >= n(x)
        BY <1>1, <2>1, <2>3, <3>1, <3>3 DEF LossInv, SeenKnown, HasRow
      <4>2. ASSUME NEW q \in Requests \ overlapping, HasRow(q, x)'
            PROVE  FALSE
        <5>1. HasRow(q, x) /\ q # r
          BY <1>8, <4>2
        <5>2. Key(q) = KeyOf(x) /\ Key(r) = KeyOf(x)
          BY <1>1, <3>1, <5>1 DEF HasRow, IInv, RequestsKnown, Stored
        <5>3. UnderWay(q) /\ UnderWay(r)
          BY <1>1, <5>1 DEF HasRow, UnderWay
        <5> QED
          BY <3>3, <4>2, <5>1, <5>2, <5>3 DEF LossInv, OneFirst
      <4> QED
        BY <1>5, <2>1, <2>3, <3>3, <4>1, <4>2
    <3> QED
      BY <3>2, <3>3
  <2> QED
    BY <2>2, <2>3
<1> QED
  BY <1>7, <1>9, <1>10 DEF LossInv

\* Every step loses at most what overlaps.
LEMMA NextLosesLittle ==
    ASSUME IsFiniteSet(Requests)
    PROVE  IInv /\ IInv' /\ LossInv /\ [Next]_vars => LossInv'
<1> SUFFICES ASSUME IInv, IInv', LossInv, [Next]_vars PROVE LossInv'
  OBVIOUS
<1>1. CASE UNCHANGED vars
  BY <1>1 DEF vars, LossInv, CountMissesOnlyOverlaps, OneFirst, SeenKnown, AcceptedAlone,
              Stored, UnderWay, HasRow, Key
<1>2. ASSUME NEW r \in Requests, Receive(r) \/ Handle(r) PROVE LossInv'
  <2>1. CASE Receive(r)
    BY <2>1, ReceiveLosesNothing
  <2>2. CASE Insert(r)
    BY <2>2, InsertLosesNothing
  <2>3. CASE Commit(r)
    BY <2>3, CommitLosesLittle DEF IInv
  <2>4. CASE Update(r) \/ Conflict(r) \/ Abort(r)
    <3>1. UNCHANGED <<errors, occurrences, overlapping>>
      BY <2>4 DEF Update, Conflict, Abort
    <3>2. /\ requests[r].pc \in {"missing", "found", "flushed"}
          /\ requests'[r].pc = "failed" \/ (requests[r].pc = "found" /\ requests'[r].pc = "flushed")
          /\ requests'[r].row = requests[r].row /\ requests'[r].seen = requests[r].seen
          /\ \A s \in Requests : s # r => requests'[s] = requests[s]
      <4>1. CASE Update(r)
        BY <4>1, MoveRequest DEF Update, Steps
      <4>2. CASE Conflict(r) \/ Abort(r)
        BY <4>2, MoveRequest DEF Conflict, Abort, UnderWay, Steps
      <4> QED
        BY <2>4, <4>1, <4>2
    <3>3. \A x \in Rows : AcceptedAlone(x)' = AcceptedAlone(x)
      BY <3>1, <3>2 DEF AcceptedAlone
    <3>4. \A s \in Requests : /\ UnderWay(s)' => UnderWay(s)
                              /\ requests'[s].seen = requests[s].seen
                              /\ \A x \in Rows : HasRow(s, x)' => HasRow(s, x)
      BY <3>2 DEF UnderWay, HasRow
    <3> QED
      BY <3>1, <3>3, <3>4, QuietKeeps DEF Stored
  <2> QED
    BY <1>2, <2>1, <2>2, <2>3, <2>4 DEF Handle
<1>3. ASSUME NEW p \in Projects, DeleteProject(p) PROVE LossInv'
  <2>1. UNCHANGED <<requests, overlapping>>
    BY <1>3 DEF DeleteProject
  <2>2. ASSUME NEW x \in Rows, Stored(x)'
        PROVE  /\ Stored(x) /\ errors'[x].count = errors[x].count
               /\ occurrences'[x] = occurrences[x]
    BY <1>3, <2>2 DEF DeleteProject, Stored, IInv, TypeOK
  <2>3. \A x \in Rows : AcceptedAlone(x)' = AcceptedAlone(x)
    BY <2>1 DEF AcceptedAlone
  <2> QED
    BY <2>1, <2>2, <2>3, QuietKeeps DEF UnderWay, HasRow
<1>4. ASSUME NEW x \in Rows, TriggerFix(x) \/ CloseError(x) PROVE LossInv'
  <2>1. UNCHANGED <<requests, overlapping, occurrences>>
    BY <1>4 DEF TriggerFix, CloseError
  <2>2. ASSUME NEW y \in Rows, Stored(y)'
        PROVE  Stored(y) /\ errors'[y].count = errors[y].count
    BY <1>4, <2>2 DEF TriggerFix, CloseError, Stored, IInv, TypeOK
  <2>3. \A y \in Rows : AcceptedAlone(y)' = AcceptedAlone(y)
    BY <2>1 DEF AcceptedAlone
  <2> QED
    BY <2>1, <2>2, <2>3, QuietKeeps DEF UnderWay, HasRow
<1> QED
  BY <1>1, <1>2, <1>3, <1>4 DEF Next

\* With finitely many reports, a count is short by no more than the reports that
\* arrived while another one of the same error was under way.
THEOREM LossesAreOverlaps ==
    ASSUME IsFiniteSet(Requests)
    PROVE  Spec => []CountMissesOnlyOverlaps
<1>1. Init => LossInv
  BY DEF Init, LossInv, CountMissesOnlyOverlaps, OneFirst, SeenKnown, Stored, HasRow,
         UnderWay, NoRow, ErrorRow
<1>2. IInv /\ IInv' /\ LossInv /\ [Next]_vars => LossInv'
  BY NextLosesLittle
<1>3. LossInv => CountMissesOnlyOverlaps
  BY DEF LossInv
<1> QED
  BY <1>1, <1>2, <1>3, Inductive, PTL DEF Spec

\* In particular the count is exact as long as no two reports of one error
\* overlapped, whatever else happened.
THEOREM ExactUntilOverlap ==
    ASSUME IsFiniteSet(Requests)
    PROVE  Spec => [](overlapping = {} => CountIsExact)
<1>1. IInv /\ OccurrencesAreAccepted /\ CountMissesOnlyOverlaps =>
        (overlapping = {} => CountIsExact)
  <2> SUFFICES ASSUME IInv, OccurrencesAreAccepted, CountMissesOnlyOverlaps,
                      overlapping = {}, NEW x \in Rows, Stored(x)
               PROVE  errors[x].count = occurrences[x]
    BY DEF CountIsExact
  <2>1. AcceptedAlone(x) = AcceptedIn(x)
    BY DEF AcceptedAlone, AcceptedIn
  <2>2. occurrences[x] = Cardinality(AcceptedAlone(x))
    BY <2>1 DEF OccurrencesAreAccepted, AcceptedIn
  <2>3. errors[x].count \in occurrences[x]..occurrences[x]
    BY <2>2 DEF CountMissesOnlyOverlaps
  <2> QED
    BY <2>3 DEF IInv, TypeOK
<1> QED
  BY <1>1, Inductive, OccurrencesCounted, LossesAreOverlaps, PTL
=============================================================================
