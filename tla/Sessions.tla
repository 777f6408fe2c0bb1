------------------------------- MODULE Sessions -------------------------------
(***************************************************************************)
(* Login sessions: Redis keys session:{token} with a time to live, written *)
(* by the login callback before its transaction commits, read and extended *)
(* by every page, deleted by logout.  Users and memberships live in the    *)
(* database, so a session can outlive, or precede, what it stands for.     *)
(* A client may send any token it was ever given, from any tab or device.  *)
(***************************************************************************)
EXTENDS Naturals

CONSTANTS
    People,
    Orgs,
    Tokens,     \* values of secrets.token_urlsafe; never drawn twice
    Requests,   \* requests in progress at one time
    Ttl,        \* SESSION_TTL_SECONDS, in ticks
    None

ASSUME SessionAssumption ==
    /\ Ttl \in Nat \ {0}
    /\ None \notin People \cup Orgs \cup Tokens

VARIABLES
    users,      \* people with a committed row in users
    org,        \* the organization of each person's membership, or None
    keys,       \* the Redis key of each token
    issued,     \* tokens that reached a client in a Set-Cookie header
    requests

vars == <<users, org, keys, issued, requests>>

\* "unused" and "gone" keys do not exist in Redis; user is kept for the record
\* when the key is gone.
Key == [kind : {"unused", "hash", "string", "gone"}, user : People \cup {None},
        slug : Orgs \cup {None}, ttl : 0..Ttl]

Live(t) == keys[t].kind \in {"hash", "string"}

\* goal is what a client's request is for; todo what is left of a login; target
\* the organization in the path; slug what templates and the landing page use.
\* Auxiliary: since, the organizations the session's user has been a member of
\* since the session was read.
Request == [pc : {"idle", "resolved", "created", "sent", "known", "member", "served"},
            goal : {"page", "landing", "logout", None},
            todo : SUBSET {"commit", "respond"},
            person : People \cup {None}, joins : Orgs \cup {None},
            token : Tokens \cup {None}, target : Orgs \cup {None},
            slug : Orgs \cup {None}, since : SUBSET Orgs]

Idle == [pc |-> "idle", goal |-> None, todo |-> {}, person |-> None, joins |-> None,
         token |-> None, target |-> None, slug |-> None, since |-> {}]

Unused == [kind |-> "unused", user |-> None, slug |-> None, ttl |-> 0]

\* The people who have used the service before, with sessions from before
\* sessions were hashes.
Init ==
    /\ users \in SUBSET People
    /\ org \in [People -> Orgs \cup {None}]
    /\ \A p \in People \ users : org[p] = None
    /\ keys \in [Tokens -> {Unused} \cup [kind : {"string"}, user : users,
                                         slug : {None}, ttl : {Ttl}]]
    /\ issued = {t \in Tokens : Live(t)}
    /\ requests = [r \in Requests |-> Idle]

-----------------------------------------------------------------------------

\* The key after DEL or when its time is over.
Gone(key) == [kind |-> "gone", user |-> key.user, slug |-> None, ttl |-> 0]

Fields(r, new) == requests' = [requests EXCEPT ![r] = new]
Answer(r) == Fields(r, Idle)

\* A request ends without a change of the database or of Redis.
Refuse(r) ==
    /\ Answer(r)
    /\ UNCHANGED <<users, org, keys, issued>>

-----------------------------------------------------------------------------
(* Login: auth_callback.                                                   *)

\* A login inserted a membership of p and has not committed yet.
Inserting(p) == \E q \in Requests : requests[q].person = p /\ requests[q].joins # None
                                      /\ (requests[q].pc = "resolved" \/ "commit" \in requests[q].todo)

\* resolve_or_register_user, the subject of Registration: either a user as
\* stored, or one who joins an organization.  The insertion waits for another
\* one of the same user (uq_membership_user, users.google_sub).
Resolve(r) ==
    /\ requests[r].pc = "idle"
    /\ \E p \in People, o \in Orgs \cup {None} :
       /\ o = None => p \in users
       /\ o # None => org[p] = None /\ ~Inserting(p)
       /\ Fields(r, [Idle EXCEPT !.pc = "resolved", !.person = p, !.joins = o,
                                 !.slug = IF o = None THEN org[p] ELSE o])
    /\ UNCHANGED <<users, org, keys, issued>>

\* Mutation: HSET and EXPIRE are two calls, and the second one fails.
CreateImmortal(r) ==
    /\ requests[r].pc = "resolved"
    /\ \E t \in Tokens :
       /\ keys[t].kind = "unused"
       /\ \E kind \in {"hash", "immortal"} :
             keys' = [keys EXCEPT ![t] = [kind |-> "hash", user |-> requests[r].person,
                                          slug |-> requests[r].slug,
                                          ttl |-> IF kind = "hash" THEN Ttl ELSE 0]]
       /\ Fields(r, [requests[r] EXCEPT !.pc = "created", !.token = t,
                                        !.todo = {"commit", "respond"}])
    /\ UNCHANGED <<users, org, issued>>

\* create_session: HSET and EXPIRE in one transaction.
CreateSession(r) ==
    /\ requests[r].pc = "resolved"
    /\ \E t \in Tokens :
       /\ keys[t].kind = "unused"
       /\ keys' = [keys EXCEPT ![t] = [kind |-> "hash", user |-> requests[r].person,
                                       slug |-> requests[r].slug, ttl |-> Ttl]]
       /\ Fields(r, [requests[r] EXCEPT !.pc = "created", !.token = t,
                                        !.todo = {"commit", "respond"}])
    /\ UNCHANGED <<users, org, issued>>

\* The login with one thing less to do.
Did(r, thing) ==
    IF requests[r].todo = {thing} THEN Idle
    ELSE [requests[r] EXCEPT !.todo = @ \ {thing}]

\* get_session commits after the response, or before it: FastAPI changed that
\* twice and the project pins no version.
Commit(r) ==
    LET p == requests[r].person  o == requests[r].joins IN
    /\ "commit" \in requests[r].todo
    /\ users' = users \cup {p}
    /\ org' = IF o = None THEN org ELSE [org EXCEPT ![p] = o]
    /\ requests' = [q \in Requests |->
          IF q = r THEN Did(r, "commit")
          ELSE IF o # None /\ requests[q].person = p /\ requests[q].pc \in {"known", "member", "served"}
          THEN [requests[q] EXCEPT !.since = @ \cup {o}]
          ELSE requests[q]]
    /\ UNCHANGED <<keys, issued>>

\* set_cookie reaches the client.
Respond(r) ==
    /\ "respond" \in requests[r].todo
    /\ issued' = issued \cup {requests[r].token}
    /\ Fields(r, Did(r, "respond"))
    /\ UNCHANGED <<users, org, keys>>

\* Redis or the database fails, or the process stops: the transaction is lost,
\* and the cookie if it was not sent; a key that was created stays.
LoginFails(r) ==
    /\ requests[r].pc \in {"resolved", "created"}
    /\ Refuse(r)

-----------------------------------------------------------------------------
(* Requests with a session cookie.                                         *)

\* The outcomes of HGET on a key: its value, nothing when Redis fails, and a
\* key of the old type deleted (_handle_wrongtype_error), unless that fails.
ReadKey(t) ==
    {[found |-> FALSE, keys |-> keys]}
    \cup (IF keys[t].kind = "hash" THEN {[found |-> TRUE, keys |-> keys]} ELSE {})
    \cup (IF keys[t].kind = "string"
          THEN {[found |-> FALSE, keys |-> [keys EXCEPT ![t] = Gone(keys[t])]]} ELSE {})

\* A request arrives, and OrgSlugMiddleware reads the organization of the session.
Send(r) ==
    /\ requests[r].pc = "idle"
    /\ \E t \in issued, goal \in {"page", "landing", "logout"}, o \in Orgs \cup {None} :
       /\ goal = "page" <=> o # None
       /\ \E read \in ReadKey(t) :
          /\ keys' = read.keys
          /\ Fields(r, [Idle EXCEPT !.pc = "sent", !.goal = goal, !.token = t, !.target = o,
                                    !.slug = IF read.found THEN keys[t].slug ELSE None])
    /\ UNCHANGED <<users, org, issued>>

\* get_session_user_id: 401 if there is no session, or Redis fails.
ReadSession(r) ==
    LET t == requests[r].token  p == keys[t].user IN
    /\ requests[r].pc = "sent"
    /\ requests[r].goal # "logout"
    /\ \E read \in ReadKey(t) :
       /\ keys' = read.keys
       /\ IF read.found
          THEN Fields(r, [requests[r] EXCEPT !.pc = "known", !.person = p,
                                             !.since = {org[p]} \ {None}])
          ELSE Answer(r)
    /\ UNCHANGED <<users, org, issued>>

\* Mutation: the landing page redirects to the organization of the session.
TrustSession(r) ==
    /\ requests[r].pc = "known"
    /\ requests[r].goal = "landing"
    /\ requests[r].person \in users
    /\ Fields(r, [requests[r] EXCEPT !.pc = "member"])
    /\ UNCHANGED <<users, org, keys, issued>>

\* get_current_user takes the organization from the database.  The landing page
\* is public: without a user (get_optional_user) it is served as to anybody.
ReadUser(r) ==
    /\ requests[r].pc = "known"
    /\ requests[r].goal = "landing"
    /\ requests[r].person \in users
    /\ Fields(r, [requests[r] EXCEPT !.pc = "member", !.slug = org[requests[r].person]])
    /\ UNCHANGED <<users, org, keys, issued>>

\* get_authenticated_membership: of the session's user, in the path's organization.
ReadMembership(r) ==
    /\ requests[r].pc = "known"
    /\ requests[r].goal = "page"
    /\ org[requests[r].person] = requests[r].target
    /\ Fields(r, [requests[r] EXCEPT !.pc = "member"])
    /\ UNCHANGED <<users, org, keys, issued>>

\* 401 without such a user, 403 without that membership.
Unauthorized(r) ==
    /\ requests[r].pc = "known"
    /\ \/ requests[r].person \notin users
       \/ requests[r].goal = "page" /\ org[requests[r].person] # requests[r].target
    /\ Refuse(r)

Served(r) == [requests[r] EXCEPT !.pc = "served"]

\* Mutation: the session is written again instead of its time to live.
Renew(r) ==
    /\ requests[r].pc = "member"
    /\ keys' = [keys EXCEPT ![requests[r].token] =
                   [kind |-> "hash", user |-> requests[r].person,
                    slug |-> requests[r].slug, ttl |-> Ttl]]
    /\ Fields(r, Served(r))
    /\ UNCHANGED <<users, org, issued>>

\* Mutation: each visit adds to the time to live.
ExtendByTtl(r) ==
    LET t == requests[r].token IN
    /\ requests[r].pc = "member"
    /\ keys' = IF Live(t) THEN [keys EXCEPT ![t].ttl = @ + Ttl] ELSE keys
    /\ Fields(r, Served(r))
    /\ UNCHANGED <<users, org, issued>>

\* extend_session: EXPIRE does nothing if a logout or its time ended the key.
Extend(r) ==
    LET t == requests[r].token IN
    /\ requests[r].pc = "member"
    /\ keys' = IF Live(t) THEN [keys EXCEPT ![t].ttl = Ttl] ELSE keys
    /\ Fields(r, Served(r))
    /\ UNCHANGED <<users, org, issued>>

\* The page is done; templates use slug.
Finish(r) ==
    /\ requests[r].pc = "served"
    /\ Refuse(r)

\* logout: DEL.  The user is read before, for the log, which may evict the key.
Logout(r) ==
    LET t == requests[r].token IN
    /\ requests[r].pc = "sent"
    /\ requests[r].goal = "logout"
    /\ keys' = IF Live(t) THEN [keys EXCEPT ![t] = Gone(keys[t])] ELSE keys
    /\ Answer(r)
    /\ UNCHANGED <<users, org, issued>>

\* EXPIRE or DEL fails (500, the cookie is not cleared), or the database does.
RequestFails(r) ==
    /\ requests[r].pc \in {"sent", "known", "member"}
    /\ Refuse(r)

-----------------------------------------------------------------------------

\* remove_member, the subject of Membership, leaves the sessions alone.
RemoveMember(p) ==
    /\ org[p] # None
    /\ org' = [org EXCEPT ![p] = None]
    /\ UNCHANGED <<users, keys, issued, requests>>

\* Time passes in Redis, which deletes what has expired.
Tick ==
    /\ \E t \in Tokens : keys[t].ttl > 0
    /\ keys' = [t \in Tokens |->
          IF keys[t].ttl = 0 THEN keys[t]
          ELSE IF keys[t].ttl = 1 THEN Gone(keys[t])
          ELSE [keys[t] EXCEPT !.ttl = @ - 1]]
    /\ UNCHANGED <<users, org, issued, requests>>

LoginStep(r) == Resolve(r) \/ CreateSession(r) \/ Commit(r) \/ Respond(r) \/ LoginFails(r)

PageStep(r) ==
    \/ Send(r) \/ ReadSession(r) \/ ReadUser(r) \/ ReadMembership(r) \/ Unauthorized(r)
    \/ Extend(r) \/ Finish(r) \/ Logout(r) \/ RequestFails(r)

Next ==
    \/ \E r \in Requests : LoginStep(r) \/ PageStep(r)
    \/ \E p \in People : RemoveMember(p)
    \/ Tick

\* Only time is certain to pass.
Spec == Init /\ [][Next]_vars /\ WF_vars(Tick)

-----------------------------------------------------------------------------

TypeOK ==
    /\ users \subseteq People
    /\ org \in [People -> Orgs \cup {None}]
    /\ keys \in [Tokens -> Key]
    /\ issued \subseteq Tokens
    /\ requests \in [Requests -> Request]

\* The organization a request shows or leads to.
Used(q) == IF q.goal = "page" THEN q.target ELSE q.slug

\* Whom a request acts for: the page of an organization, or the one the landing
\* page redirects to, is one that the session's user has been a member of since
\* the session was read.  What the session remembers from the login is older:
\* the user may have been removed, or have joined another organization.
ActsAsMember ==
    \A r \in Requests :
       requests[r].pc \in {"member", "served"} /\ Used(requests[r]) # None =>
          Used(requests[r]) \in requests[r].since

\* Of every session the user is known, and only live ones have time to live.
KeysOwned ==
    \A t \in Tokens : /\ keys[t].user = None <=> keys[t].kind = "unused"
                      /\ keys[t].ttl > 0 => Live(t)

\* What a request knows at each step, the memberships being at.
Fit(q, at) ==
    /\ q.pc \notin {"idle", "sent"} => q.person \in People
    /\ q.pc \notin {"idle", "resolved"} => q.token \in Tokens
    /\ q.todo # {} => q.pc = "created"
    /\ q.pc \in {"known", "member", "served"} /\ at[q.person] # None => at[q.person] \in q.since
    /\ q.pc \in {"member", "served"} /\ Used(q) # None => Used(q) \in q.since

\* The inductive invariant behind ActsAsMember and ImplementsSessionLife.
IInv ==
    /\ TypeOK
    /\ KeysOwned
    /\ \A r \in Requests : Fit(requests[r], org)

life == [t \in Tokens |-> CASE keys[t].kind = "unused" -> "unused"
                               [] keys[t].kind = "gone" -> "ended"
                               [] OTHER -> "live"]

owner == [t \in Tokens |-> keys[t].user]

Life == INSTANCE SessionLife WITH life <- life, owner <- owner

\* Sessions implement SessionLife: a session that a logout, an eviction or its
\* time ended is not brought back by a request that read it before (extend_session
\* after delete_session), and no session changes its user.
ImplementsSessionLife == Life!Spec

\* A session that is not extended again and again ends, whether or not its login
\* was committed or its cookie ever sent: no key is left without a time to live.
AbandonedSessionsEnd ==
    \A t \in Tokens :
       \/ []<><<\E r \in Requests : Extend(r) /\ requests[r].token = t>>_vars
       \/ <>[]~Live(t)
=============================================================================
