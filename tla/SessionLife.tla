----------------------------- MODULE SessionLife -----------------------------
(***************************************************************************)
(* What the login sessions promise, whoever logs in, logs out, is removed  *)
(* or stays away: a session token is issued to one user, once, and a       *)
(* session that has ended, by logout or by expiry, never comes back.       *)
(***************************************************************************)
CONSTANTS Tokens, People, None

VARIABLES
    life,       \* "unused", "live" or "ended", per token
    owner       \* whom the token was issued to

Init ==
    /\ life \in [Tokens -> {"unused", "live"}]
    /\ owner \in [Tokens -> People \cup {None}]
    /\ \A t \in Tokens : owner[t] = None <=> life[t] = "unused"

\* create_session.
Begin(t, p) ==
    /\ life[t] = "unused"
    /\ life' = [life EXCEPT ![t] = "live"]
    /\ owner' = [owner EXCEPT ![t] = p]

\* delete_session, or the time to live: several sessions may expire at one time.
End(over) ==
    /\ \A t \in over : life[t] = "live"
    /\ life' = [t \in Tokens |-> IF t \in over THEN "ended" ELSE life[t]]
    /\ UNCHANGED owner

Next ==
    \/ \E t \in Tokens, p \in People : Begin(t, p)
    \/ \E over \in SUBSET Tokens : End(over)

Spec == Init /\ [][Next]_<<life, owner>>
=============================================================================
