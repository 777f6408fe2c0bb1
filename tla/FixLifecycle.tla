---------------------------- MODULE FixLifecycle ----------------------------
(***************************************************************************)
(* What the fix pipeline promises to whoever reads the fix_attempts and    *)
(* errors tables: the life of an attempt and the one moment at which its   *)
(* error leaves OPEN.  Jobs, workers, git and GitHub are not visible here. *)
(***************************************************************************)
CONSTANTS Errors, Attempts, None

VARIABLES
    error,      \* the status of each error
    status,     \* the status of each attempt
    subject     \* the error each attempt is about

Init ==
    /\ error = [e \in Errors |-> "open"]
    /\ status = [a \in Attempts |-> "free"]
    /\ subject = [a \in Attempts |-> None]

Begin(a, e) ==
    /\ status[a] = "free"
    /\ error[e] # "gone"
    /\ status' = [status EXCEPT ![a] = "pending"]
    /\ subject' = [subject EXCEPT ![a] = e]
    /\ UNCHANGED error

Advance(a, from, to) ==
    /\ status[a] \in from
    /\ status' = [status EXCEPT ![a] = to]
    /\ UNCHANGED subject

Run(a) == Advance(a, {"pending"}, "running") /\ UNCHANGED error

Fail(a) == Advance(a, {"pending", "running"}, "failed") /\ UNCHANGED error

\* The attempt and its error change together.
Succeed(a) ==
    /\ Advance(a, {"running"}, "success")
    /\ error' = [error EXCEPT ![subject[a]] = "fix_attempted"]

Merge(a) == Advance(a, {"success"}, "merged") /\ UNCHANGED error

\* Deleting errors deletes their attempts, never an attempt of another error.
Delete(es) ==
    /\ error' = [e \in Errors |-> IF e \in es THEN "gone" ELSE error[e]]
    /\ status' = [a \in Attempts |-> IF subject[a] \in es THEN "gone" ELSE status[a]]
    /\ UNCHANGED subject

Next ==
    \/ \E a \in Attempts, e \in Errors : Begin(a, e)
    \/ \E a \in Attempts : Run(a) \/ Fail(a) \/ Succeed(a) \/ Merge(a)
    \/ \E es \in SUBSET Errors : Delete(es)

Spec == Init /\ [][Next]_<<error, status, subject>>
=============================================================================
