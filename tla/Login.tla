------------------------------- MODULE Login -------------------------------
(***************************************************************************)
(* How one user logs in: password, lockout, MFA challenge and enrolment    *)
(* (identity.use-cases.ts, prisma-identity.repository.ts and               *)
(* redis-login-protection.adapter.ts).                                     *)
(*                                                                         *)
(* A handler serves one request after another; a request is a series of    *)
(* READ COMMITTED transactions and may die between any two steps.  The     *)
(* clock counts TOTP periods; lapse of a lock, a challenge or a Redis      *)
(* window is nondeterministic.  A code is named by the secret and the      *)
(* period that produce it.                                                 *)
(***************************************************************************)
EXTENDS Naturals

CONSTANTS
    Handlers,
    Challenges,
    Secrets,      \* TOTP secrets generateTotpSecret may return
    Codes,        \* the recovery codes of an activation
    Limit,        \* failures that lock a credential, attempts that end a challenge (both 5)
    RedisLimit,   \* failures that block the identity in Redis (10)
    MaxClock,     \* bound on the periods that pass
    None

Periods == 0..(MaxClock + 1)

Factors == (Secrets \X Periods) \cup Codes

Wrong == <<None, None>>     \* a code that belongs to nothing

VARIABLES
    failed,       \* credentials.failed_attempts
    lock,         \* credentials.locked_until: "none", "held", or "lapsed"
    throttle,     \* auth:identity:<digest> in Redis
    method,       \* the mfa_methods row
    codes,        \* unused recovery_codes
    challenge,    \* mfa_challenges
    clock,
    hand,         \* the requests
    uses,         \* ghost: how often a code was accepted
    opened,       \* ghost: how many sessions a challenge led to
    forgotten     \* ghost: codes accepted before an enrolment reset their counter

vars == <<failed, lock, throttle, method, codes, challenge, clock, hand, uses, opened, forgotten>>

password == <<failed, lock, throttle>>
factor   == <<method, codes, uses>>

Idle == [pc |-> "idle", ch |-> None, secret |-> None, fac |-> Wrong, seen |-> 0]

NoMethod == [secret |-> None, verified |-> FALSE, last |-> None]

\* The count of failures and the lock are columns of one row and meet at the
\* limit: whoever is below it is not locked, whoever has reached it is, or
\* was until the lock lapsed.
TypeOK ==
    /\ failed \in 0..(Limit + 1)
    /\ lock \in IF failed < Limit THEN {"none"} ELSE {"held", "lapsed"}
    /\ throttle \in 0..RedisLimit
    /\ method \in [secret : Secrets \cup {None}, verified : BOOLEAN, last : Periods \cup {None}]
    /\ codes \subseteq Codes
    /\ challenge \in [Challenges -> [state : {"none", "open", "consumed", "expired"}, attempts : 0..Limit]]
    /\ clock \in 0..MaxClock
    /\ hand \in [Handlers -> [pc : {"idle", "password", "accepted", "read", "use", "miss", "close",
                                    "commit", "open", "save", "activate"},
                              ch : Challenges \cup {None}, secret : Secrets \cup {None},
                              fac : Factors \cup {Wrong}, seen : 0..Limit]]

\* The user has registered, and has activated MFA or not.
Init ==
    /\ failed = 0 /\ lock = "none" /\ throttle = 0
    /\ \/ method = NoMethod /\ codes = {}
       \/ /\ \E s \in Secrets : method = [secret |-> s, verified |-> TRUE, last |-> None]
          /\ codes = Codes
    /\ challenge = [c \in Challenges |-> [state |-> "none", attempts |-> 0]]
    /\ clock = 0
    /\ hand = [h \in Handlers |-> Idle]
    /\ uses = [f \in Factors |-> 0]
    /\ opened = [c \in Challenges |-> 0]
    /\ forgotten = {}

----------------------------------------------------------------------------
Goto(h, pc) == hand' = [hand EXCEPT ![h].pc = pc]

Finish(h) == hand' = [hand EXCEPT ![h] = Idle]

\* Locks of uncommitted updates: the method or the code, then the challenge.
MethodFree == \A h \in Handlers : hand[h].pc \in {"close", "commit"} => hand[h].fac \notin Secrets \X Periods

CodeFree(k) == \A h \in Handlers : hand[h].pc \in {"close", "commit"} => hand[h].fac # k

ChallengeFree(c) == \A h \in Handlers : hand[h].pc = "commit" => hand[h].ch # c

----------------------------------------------------------------------------
\* login(): assertAllowed, then findLoginIdentity.  seen = 1 when the
\* credential was read as locked.
BeginLogin(h) ==
    /\ hand[h].pc = "idle"
    /\ throttle < RedisLimit
    /\ hand' = [hand EXCEPT ![h].pc = "password", ![h].seen = IF lock = "held" THEN 1 ELSE 0,
                            ![h].secret = IF method.verified THEN method.secret ELSE None]
    /\ UNCHANGED <<password, factor, challenge, clock, opened, forgotten>>

\* recordFailedLogin, one statement on the current row; the count is bounded
\* by Limit + 1, and that in Redis by RedisLimit.
Failed == IF failed = Limit + 1 THEN failed ELSE failed + 1

\* A plausible defect: the new count must exceed the limit.
RecordFailureLate ==
    /\ failed' = Failed
    /\ lock' = IF failed + 1 > Limit THEN "held" ELSE lock

RecordFailure ==
    /\ failed' = Failed
    /\ lock' = IF failed + 1 >= Limit THEN "held" ELSE lock

\* Wrong password, or locked when it was read: Redis and the credential are
\* written in parallel, and either may fail.
Refuse(h) ==
    /\ hand[h].pc = "password"
    /\ throttle' \in {throttle, throttle + 1} \cap 0..RedisLimit
    /\ RecordFailure \/ UNCHANGED <<failed, lock>>
    /\ Finish(h)
    /\ UNCHANGED <<factor, challenge, clock, opened, forgotten>>

\* Right password on a credential read as unlocked: both counters are reset,
\* whatever happened to them since; if either fails, the request ends here.
Accept(h) ==
    /\ hand[h].pc = "password"
    /\ hand[h].seen = 0
    /\ (failed' = 0 /\ lock' = "none") \/ UNCHANGED <<failed, lock>>
    /\ throttle' \in {0, throttle}
    /\ \/ failed' = 0 /\ throttle' = 0 /\ Goto(h, "accepted")
       \/ Finish(h)
    /\ UNCHANGED <<factor, challenge, clock, opened, forgotten>>

\* createMfaChallenge if the identity had a verified method when it was
\* read, otherwise a session.
Proceed(h) ==
    /\ hand[h].pc = "accepted"
    /\ \/ /\ hand[h].secret # None
          /\ \E c \in Challenges :
                /\ challenge[c].state = "none"
                /\ challenge' = [challenge EXCEPT ![c].state = "open"]
       \/ hand[h].secret = None /\ UNCHANGED challenge
    /\ Finish(h)
    /\ UNCHANGED <<password, factor, clock, opened, forgotten>>

----------------------------------------------------------------------------
\* verifyTotp accepts a code of the secret from the neighbouring periods.
Verifies(secret, f) == f \in {secret} \X {n \in Periods : n <= clock + 1 /\ clock <= n + 1}

\* completeMfaLogin(): getMfaChallenge and the local check of the code.
BeginMfa(h, c, f) ==
    /\ hand[h].pc = "idle"
    /\ challenge[c].state = "open" /\ challenge[c].attempts < Limit
    /\ method.verified
    /\ hand' = [hand EXCEPT ![h].pc = "read", ![h].ch = c,
                            ![h].fac = IF f \in Codes \/ Verifies(method.secret, f) THEN f ELSE Wrong]
    /\ UNCHANGED <<password, factor, challenge, clock, opened, forgotten>>

\* consumeMfaChallenge: the challenge is read again ...
Read(h) ==
    LET c == hand[h].ch IN
    /\ hand[h].pc = "read"
    /\ \/ /\ challenge[c].state = "open" /\ challenge[c].attempts < Limit
          /\ hand' = [hand EXCEPT ![h].pc = "use", ![h].seen = challenge[c].attempts]
       \/ ~(challenge[c].state = "open" /\ challenge[c].attempts < Limit) /\ Finish(h)
    /\ UNCHANGED <<password, factor, challenge, clock, opened, forgotten>>

\* A plausible defect: the counter of an accepted code may come again.
UsableAgain(f) ==
    \/ f \in Codes /\ f \in codes
    \/ f \in Secrets \X Periods /\ method.verified /\ (method.last = None \/ method.last <= f[2])

\* What the conditional updates of the method and of the code ask for.
Usable(f) ==
    \/ f \in Codes /\ f \in codes
    \/ f \in Secrets \X Periods /\ method.verified /\ (method.last = None \/ method.last < f[2])

\* ... the factor is consumed, or the attempt counted ...
Use(h) ==
    LET f == hand[h].fac IN
    /\ hand[h].pc = "use"
    /\ f \in Secrets \X Periods => MethodFree
    /\ f \in Codes => CodeFree(f)
    /\ Goto(h, IF Usable(f) THEN "close" ELSE "miss")
    /\ UNCHANGED <<password, factor, challenge, clock, opened, forgotten>>

\* Does the challenge row still match what was read?
AsSeen(h) == challenge[hand[h].ch].state \in {"open", "expired"} /\ challenge[hand[h].ch].attempts = hand[h].seen

Miss(h) ==
    LET c == hand[h].ch IN
    /\ hand[h].pc = "miss"
    /\ ChallengeFree(c)
    /\ challenge' = IF AsSeen(h) THEN [challenge EXCEPT ![c].attempts = @ + 1] ELSE challenge
    /\ Finish(h)
    /\ UNCHANGED <<password, factor, clock, opened, forgotten>>

\* The factor is spent at COMMIT.
Spend(f) ==
    /\ IF f \in Codes
       THEN codes' = codes \ {f} /\ UNCHANGED method
       ELSE method' = [method EXCEPT !.last = f[2]] /\ UNCHANGED codes
    /\ uses' = [uses EXCEPT ![f] = @ + 1]

\* ... and the challenge is closed.  If another request was first, the
\* transaction still commits: the factor is spent for nothing.
Close(h) ==
    /\ hand[h].pc = "close"
    /\ ChallengeFree(hand[h].ch)
    /\ \/ AsSeen(h) /\ Goto(h, "commit") /\ UNCHANGED factor
       \/ ~AsSeen(h) /\ Spend(hand[h].fac) /\ Finish(h)
    /\ UNCHANGED <<password, challenge, clock, opened, forgotten>>

Commit(h) ==
    /\ hand[h].pc = "commit"
    /\ Spend(hand[h].fac)
    /\ challenge' = [challenge EXCEPT ![hand[h].ch].state = "consumed"]
    /\ Goto(h, "open")
    /\ UNCHANGED <<password, clock, opened, forgotten>>

\* createSession, in a transaction of its own.
Open(h) ==
    /\ hand[h].pc = "open"
    /\ opened' = [opened EXCEPT ![hand[h].ch] = @ + 1]
    /\ Finish(h)
    /\ UNCHANGED <<password, factor, challenge, clock, forgotten>>

----------------------------------------------------------------------------
\* beginMfaEnrollment: saveMfaEnrollment looks whether MFA is active ...  The
\* secret is random, so that it is none of those in use.
BeginEnrolment(h, s) ==
    /\ hand[h].pc = "idle"
    /\ ~method.verified
    /\ method.secret # s /\ \A k \in Handlers : hand[k].secret # s
    /\ hand' = [hand EXCEPT ![h].pc = "save", ![h].secret = s]
    /\ UNCHANGED <<password, factor, challenge, clock, opened, forgotten>>

\* ... and writes the secret, whether or not it has become active since.
Save(h) ==
    /\ hand[h].pc = "save"
    /\ MethodFree
    /\ method' = [method EXCEPT !.secret = hand[h].secret, !.last = None]
    /\ forgotten' = forgotten \cup {f \in Secrets \X Periods : method.verified /\ uses[f] > 0}
    /\ Finish(h)
    /\ UNCHANGED <<password, codes, uses, challenge, clock, opened>>

\* confirmMfaEnrollment: getPendingMfa and a code of the secret it returned.
BeginConfirm(h, f) ==
    /\ hand[h].pc = "idle"
    /\ method.secret # None /\ ~method.verified
    /\ Verifies(method.secret, f)
    /\ hand' = [hand EXCEPT ![h].pc = "activate", ![h].fac = f]
    /\ UNCHANGED <<password, factor, challenge, clock, opened, forgotten>>

\* activateMfa: only a pending method, with its recovery codes.
Activate(h) ==
    /\ hand[h].pc = "activate"
    /\ MethodFree
    /\ \/ /\ ~method.verified
          /\ method' = [method EXCEPT !.verified = TRUE, !.last = hand[h].fac[2]]
          /\ codes' = Codes
          /\ uses' = [uses EXCEPT ![hand[h].fac] = @ + 1]
       \/ method.verified /\ UNCHANGED factor
    /\ Finish(h)
    /\ UNCHANGED <<password, challenge, clock, opened, forgotten>>

----------------------------------------------------------------------------
Die(h) ==
    /\ hand[h].pc # "idle"
    /\ Finish(h)
    /\ UNCHANGED <<password, factor, challenge, clock, opened, forgotten>>

Tick ==
    /\ clock < MaxClock
    /\ clock' = clock + 1
    /\ UNCHANGED <<password, factor, challenge, hand, opened, forgotten>>

LockLapses ==
    /\ lock = "held"
    /\ lock' = "lapsed"
    /\ UNCHANGED <<failed, throttle, factor, challenge, clock, hand, opened, forgotten>>

WindowEnds ==
    /\ throttle > 0
    /\ throttle' = 0
    /\ UNCHANGED <<failed, lock, factor, challenge, clock, hand, opened, forgotten>>

ChallengeExpires(c) ==
    /\ challenge[c].state = "open"
    /\ challenge' = [challenge EXCEPT ![c].state = "expired"]
    /\ UNCHANGED <<password, factor, clock, hand, opened, forgotten>>

Handle(h) ==
    \/ BeginLogin(h) \/ Refuse(h) \/ Accept(h) \/ Proceed(h)
    \/ \E c \in Challenges, f \in Factors \cup {Wrong} : BeginMfa(h, c, f)
    \/ Read(h) \/ Use(h) \/ Miss(h) \/ Close(h) \/ Commit(h) \/ Open(h)
    \/ \E s \in Secrets : BeginEnrolment(h, s)
    \/ Save(h)
    \/ \E f \in Factors : BeginConfirm(h, f)
    \/ Activate(h) \/ Die(h)

Next ==
    \/ Tick \/ LockLapses \/ WindowEnds
    \/ \E c \in Challenges : ChallengeExpires(c)
    \/ \E h \in Handlers : Handle(h)

Spec == Init /\ [][Next]_vars

----------------------------------------------------------------------------
\* A TOTP or recovery code is accepted once, by whichever of the logins and
\* confirmations that hold it at the same time.  The counter keeps TOTP codes
\* from coming again as long as it stands: a code accepted before an enrolment
\* reset the counter may be accepted once more.
FactorUsedOnce == \A f \in Factors : uses[f] <= 1 \/ f \in forgotten

\* What the threat model says: a persisted, monotonic counter keeps a TOTP code
\* from being used again.  The code breaks it: an enrolment that was under way
\* while another was confirmed overwrites the verified method and resets its
\* counter, and a login that holds a code already used gets in with it.
TotpUsedOnce == \A f \in Secrets \X Periods : uses[f] <= 1

\* Two factors sent for one challenge at the same time open one session.
OneSessionPerChallenge == \A c \in Challenges : opened[c] <= 1
=============================================================================
