------------------------------ MODULE Session ------------------------------
(***************************************************************************)
(* The sessions of one user in one organization and their refresh tokens   *)
(* (identity.use-cases.ts, prisma-identity.repository.ts).                 *)
(*                                                                         *)
(* Each request is one READ COMMITTED transaction: its writes stay in the  *)
(* request until COMMIT and hold row locks until then; a statement reads   *)
(* what is committed when it starts and, where it had to wait for a row,   *)
(* looks at that row again.  A request may fail at any point: the process  *)
(* dies, the transaction times out, or PostgreSQL ends it to break a       *)
(* deadlock.  Time is abstract: a session may be found expired at any      *)
(* moment.  A refresh token outlives its session's expiry, so only the     *)
(* latter matters.                                                         *)
(***************************************************************************)
EXTENDS FiniteSets

CONSTANTS
    Sessions,
    Tokens,     \* values a refresh token may have; bounds how many are issued
    Requests,
    None

ASSUME SessionAssumption == None \notin Sessions \cup Tokens

VARIABLES
    session,    \* committed rows: "none", "active" or "revoked"
    token,      \* committed rows, with of = None before they are inserted
    member,     \* are the membership and the user ACTIVE?
    req         \* the requests and their transactions

vars == <<session, token, member, req>>

Live(t) == token[t].of # None /\ ~token[t].used /\ ~token[t].revoked

LiveOf(s) == {t \in Tokens : token[t].of = s /\ Live(t)}

Steps == {"idle", "find", "judge", "consume", "touch", "commit",
          "list", "revoke", "sweep", "kill", "seal", "done"}

Answers == {"none", "rotated", "invalid", "reused", "mismatch",
            "loggedOut", "loggedOutAll", "failed"}

TypeOK ==
    /\ session \in [Sessions -> {"none", "active", "revoked"}]
    /\ token \in [Tokens -> [of : Sessions \cup {None}, used : BOOLEAN, revoked : BOOLEAN]]
    /\ member \in BOOLEAN
    /\ req \in [Requests ->
          [pc : Steps, tok : Tokens \cup {None}, child : Tokens \cup {None},
           victims : SUBSET Sessions, targets : SUBSET Tokens,
           owed : SUBSET Sessions, answer : Answers]]

Idle == [pc |-> "idle", tok |-> None, child |-> None, victims |-> {},
         targets |-> {}, owed |-> {}, answer |-> "none"]

Init ==
    /\ session = [s \in Sessions |-> "none"]
    /\ token = [t \in Tokens |-> [of |-> None, used |-> FALSE, revoked |-> FALSE]]
    /\ member = TRUE
    /\ req = [r \in Requests |-> Idle]

----------------------------------------------------------------------------
\* Row locks, derived from what each open transaction has written.

HoldsToken(r, t) ==
    \/ req[r].pc \in {"touch", "commit"} /\ req[r].tok = t
    \/ req[r].pc = "seal" /\ t \in req[r].targets

HoldsSession(r, s) ==
    /\ session[s] = "active"
    /\ \/ req[r].pc = "commit" /\ token[req[r].tok].of = s
       \/ req[r].pc \in {"sweep", "kill", "seal"} /\ s \in req[r].victims

TokenFree(r, t) == \A q \in Requests \ {r} : ~HoldsToken(q, t)

SessionFree(r, s) == \A q \in Requests \ {r} : ~HoldsSession(q, s)

\* Values generateOpaqueToken has not returned yet.
Fresh == {t \in Tokens : token[t].of = None /\ \A r \in Requests : req[r].child # t}

Step(r, pc) == req' = [req EXCEPT ![r].pc = pc]

Answer(r, answer) ==
    req' = [req EXCEPT ![r].pc = "done", ![r].answer = answer, ![r].child = None, ![r].targets = {}]

\* revokeSessionGraph is entered for these sessions, to end with this answer.
Revoking(r, victims, answer) ==
    req' = [req EXCEPT ![r].pc = "revoke", ![r].victims = victims, ![r].answer = answer]

----------------------------------------------------------------------------
\* createSession: session, token and audit record, or nothing; login reads
\* the membership, and so does principalFor inside the transaction.
Login(s) ==
    /\ session[s] = "none"
    /\ member
    /\ Fresh # {}
    /\ session' = [session EXCEPT ![s] = "active"]
    /\ token' = [token EXCEPT ![CHOOSE t \in Fresh : TRUE] = [of |-> s, used |-> FALSE, revoked |-> FALSE]]
    /\ UNCHANGED <<member, req>>

\* An operator deactivates the membership or the user.
Suspend ==
    /\ member
    /\ member' = FALSE
    /\ UNCHANGED <<session, token, req>>

----------------------------------------------------------------------------
\* POST /auth/refresh with any token value, old, current or unknown.
BeginRefresh(r, t) ==
    /\ req[r].pc = "idle"
    /\ req' = [req EXCEPT ![r].pc = "find", ![r].tok = t]
    /\ UNCHANGED <<session, token, member>>

\* The token row is read.  A dead token ends in the revocation of its
\* session, as a reuse or, from another user agent, as a mismatch.
Find(r) ==
    LET t == req[r].tok IN
    /\ req[r].pc = "find"
    /\ \/ token[t].of = None /\ Answer(r, "invalid")
       \/ Live(t) /\ Step(r, "judge")
       \/ /\ token[t].of # None /\ ~Live(t)
          /\ \E answer \in {"reused", "mismatch"} : Revoking(r, {token[t].of}, answer)
    /\ UNCHANGED <<session, token, member>>

\* The session row, read by the second query of the include.
Judge(r) ==
    LET s == token[req[r].tok].of IN
    /\ req[r].pc = "judge"
    /\ \/ Revoking(r, {s}, "mismatch")
       \/ Answer(r, "invalid")                       \* expired, or revoked
       \/ session[s] = "active" /\ Step(r, "consume")
    /\ UNCHANGED <<session, token, member>>

\* A plausible defect: the loser of a race is told of the reuse, and nothing is revoked.
ConsumeWithoutRevoking(r) ==
    LET t == req[r].tok IN
    /\ req[r].pc = "consume"
    /\ TokenFree(r, t)
    /\ \/ Live(t) /\ Step(r, "touch")
       \/ ~Live(t) /\ req' = [req EXCEPT ![r].pc = "done", ![r].victims = {token[t].of}, ![r].answer = "reused"]
    /\ UNCHANGED <<session, token, member>>

\* The conditional update of the token: whoever comes second finds it dead.
Consume(r) ==
    LET t == req[r].tok IN
    /\ req[r].pc = "consume"
    /\ TokenFree(r, t)
    /\ \/ Live(t) /\ Step(r, "touch")
       \/ ~Live(t) /\ Revoking(r, {token[t].of}, "reused")
    /\ UNCHANGED <<session, token, member>>

\* A plausible defect: the rotation does not write the session row, and so does not wait for it.
TouchUnlocked(r) ==
    /\ req[r].pc = "touch"
    /\ Fresh # {}
    /\ req' = [req EXCEPT ![r].pc = "commit", ![r].child = CHOOSE t \in Fresh : TRUE]
    /\ UNCHANGED <<session, token, member>>

\* The successor is inserted and last_seen_at is written, which takes the
\* lock of the session row.
Touch(r) ==
    /\ req[r].pc = "touch"
    /\ SessionFree(r, token[req[r].tok].of)
    /\ Fresh # {}
    /\ req' = [req EXCEPT ![r].pc = "commit", ![r].child = CHOOSE t \in Fresh : TRUE]
    /\ UNCHANGED <<session, token, member>>

\* A plausible defect: the consumed token is not marked.
CommitKeepingParent(r) ==
    LET t == req[r].tok IN
    /\ req[r].pc = "commit"
    /\ token' = [token EXCEPT ![req[r].child] = [of |-> token[t].of, used |-> FALSE, revoked |-> FALSE]]
    /\ Answer(r, IF member THEN "rotated" ELSE "invalid")
    /\ UNCHANGED <<session, member>>

\* Without a principal the answer is "invalid", but the rotation is kept.
Commit(r) ==
    LET t == req[r].tok IN
    /\ req[r].pc = "commit"
    /\ token' = [token EXCEPT ![t].used = TRUE,
                              ![req[r].child] = [of |-> token[t].of, used |-> FALSE, revoked |-> FALSE]]
    /\ Answer(r, IF member THEN "rotated" ELSE "invalid")
    /\ UNCHANGED <<session, member>>

----------------------------------------------------------------------------
\* AccessTokenGuard admits a request by its session, in a transaction of its
\* own (getActiveSessionPrincipal).
Admitted(a) == session[a] = "active" /\ member

BeginLogout(r, a, s) ==
    /\ req[r].pc = "idle"
    /\ Admitted(a)
    /\ session[s] # "none"
    /\ Revoking(r, {s}, "loggedOut")
    /\ UNCHANGED <<session, token, member>>

\* owed: the sessions that exist when the user asks for all to be revoked.
BeginLogoutAll(r, a) ==
    /\ req[r].pc = "idle"
    /\ Admitted(a)
    /\ req' = [req EXCEPT ![r].pc = "list", ![r].owed = {s \in Sessions : session[s] = "active"}]
    /\ UNCHANGED <<session, token, member>>

List(r) ==
    /\ req[r].pc = "list"
    /\ Revoking(r, {s \in Sessions : session[s] = "active"}, "loggedOutAll")
    /\ UNCHANGED <<session, token, member>>

\* revokeSessionGraph and revokeAllSessions: first the session rows ...
RevokeSessions(r) ==
    /\ req[r].pc = "revoke"
    /\ \A s \in req[r].victims : SessionFree(r, s)
    /\ Step(r, "sweep")
    /\ UNCHANGED <<session, token, member>>

\* ... then the tokens its second statement sees when it starts ...
Sweep(r) ==
    /\ req[r].pc = "sweep"
    /\ req' = [req EXCEPT ![r].pc = "kill",
                          ![r].targets = {t \in Tokens : token[t].of \in req[r].victims /\ ~token[t].revoked}]
    /\ UNCHANGED <<session, token, member>>

\* ... which it gets when no other transaction holds them.
Kill(r) ==
    /\ req[r].pc = "kill"
    /\ \A t \in req[r].targets : TokenFree(r, t)
    /\ Step(r, "seal")
    /\ UNCHANGED <<session, token, member>>

Seal(r) ==
    /\ req[r].pc = "seal"
    /\ session' = [s \in Sessions |-> IF s \in req[r].victims THEN "revoked" ELSE session[s]]
    /\ token' = [t \in Tokens |-> [token[t] EXCEPT !.revoked = @ \/ t \in req[r].targets]]
    /\ Answer(r, req[r].answer)
    /\ UNCHANGED member

Abort(r) ==
    /\ req[r].pc \notin {"idle", "done"}
    /\ Answer(r, "failed")
    /\ UNCHANGED <<session, token, member>>

----------------------------------------------------------------------------
Refresh(r) == Find(r) \/ Judge(r) \/ Consume(r) \/ Touch(r) \/ Commit(r)

Revocation(r) == List(r) \/ RevokeSessions(r) \/ Sweep(r) \/ Kill(r) \/ Seal(r)

Next ==
    \/ Suspend
    \/ \E s \in Sessions : Login(s)
    \/ \E r \in Requests :
          \/ \E t \in Tokens : BeginRefresh(r, t)
          \/ \E a, s \in Sessions : BeginLogout(r, a, s)
          \/ \E a \in Sessions : BeginLogoutAll(r, a)
          \/ Refresh(r) \/ Revocation(r) \/ Abort(r)

Spec == Init /\ [][Next]_vars

----------------------------------------------------------------------------
\* However many requests present a token at once, a session never has two
\* tokens that could be exchanged: rotation replaces, it does not add.
OneLiveToken ==
    \A t, u \in Tokens : Live(t) /\ Live(u) /\ token[t].of = token[u].of => t = u

\* A rotation that races a revocation cannot leave a successor alive: a
\* revoked session has no token that could be exchanged.
RevokedIsDead ==
    \A s \in Sessions : session[s] = "revoked" => LiveOf(s) = {}

\* What a client was told is so: a reuse or a mismatch reported, or a log-out
\* confirmed, means that the sessions concerned, all that existed when
\* logout-all was asked for among them, are revoked.
AnswersAreTrue ==
    \A r \in Requests :
        req[r].pc = "done" /\ req[r].answer \in {"reused", "mismatch", "loggedOut", "loggedOutAll"}
            => \A s \in req[r].victims \cup req[r].owed : session[s] = "revoked"

=============================================================================
