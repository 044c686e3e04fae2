--------------------------- MODULE IdentityProofs ---------------------------
(***************************************************************************)
(* Proofs about Login and Membership, through the instances that           *)
(* MCIdentity makes of them: for any requests, challenges, secrets, codes, *)
(* users, roles and invitations.  Session has its proofs in SessionProofs. *)
(***************************************************************************)
EXTENDS MCIdentity, SessionProofs

(* Login: the codes of the authenticator.                                  *)
Totp == Secrets \X L!Periods

(* Transactions that have updated the method's or the code's row.          *)
Spending == {"close", "commit"}

(* What is accepted while such a transaction runs is still valid when it   *)
(* commits ...                                                             *)
FactorHeld ==
    \A h \in LoginHandlers : loginHand[h].pc \in Spending =>
        /\ loginHand[h].fac \in L!Factors
        /\ method.verified
        /\ loginHand[h].fac \in Codes => loginHand[h].fac \in codes
        /\ loginHand[h].fac \in Totp => method.last = None \/ method.last < loginHand[h].fac[2]

(* ... because nobody else has the row.                                    *)
FactorApart ==
    \A g, h \in LoginHandlers :
        g # h /\ loginHand[g].pc \in Spending /\ loginHand[h].pc \in Spending =>
            /\ ~(loginHand[g].fac \in Totp /\ loginHand[h].fac \in Totp)
            /\ loginHand[g].fac \in Codes => loginHand[g].fac # loginHand[h].fac

(* A code that was accepted is off the list, behind the counter, or its    *)
(* counter was reset.                                                      *)
Counted ==
    /\ \A k \in Codes : uses[k] <= 1 /\ (k \in codes => uses[k] = 0)
    /\ \A f \in Totp \ forgotten : uses[f] <= 1 /\ (uses[f] # 0 => method.last # None /\ f[2] <= method.last)
    /\ ~method.verified => codes = {} /\ \A f \in L!Factors : uses[f] = 0

(* A challenge that led to a session is consumed; the request that has     *)
(* consumed it is alone with it.                                           *)
Consumed ==
    \A c \in Challenges : opened[c] \in {0, 1} /\ (opened[c] = 1 => challenge[c].state = "consumed")

Carried ==
    \A h \in LoginHandlers :
        /\ loginHand[h].pc = "commit" => challenge[loginHand[h].ch].state \in {"open", "expired"}
        /\ loginHand[h].pc = "open" => challenge[loginHand[h].ch].state = "consumed" /\ opened[loginHand[h].ch] = 0

ChallengeApart ==
    \A g, h \in LoginHandlers :
        g # h /\ loginHand[g].pc \in {"commit", "open"} /\ loginHand[h].pc \in {"commit", "open"}
            => loginHand[g].ch # loginHand[h].ch

(* What a request carries at each of its steps.                            *)
Ready(r) ==
    /\ r.pc \in {"read", "use", "miss", "close", "commit", "open"} => r.ch \in Challenges
    /\ r.pc \in {"use", "miss", "close", "commit"} => r.seen < Limit
    /\ r.pc = "save" => r.secret \in Secrets
    /\ r.pc = "activate" => r.fac \in Totp

LoginRequests == \A h \in LoginHandlers : Ready(loginHand[h])

GhostsOK ==
    /\ uses \in [L!Factors -> Nat]
    /\ opened \in [Challenges -> Nat]
    /\ forgotten \subseteq Totp

LoginTypes == L!TypeOK /\ GhostsOK /\ LoginRequests

LoginInv == LoginTypes /\ FactorHeld /\ FactorApart /\ Counted /\ Consumed /\ Carried /\ ChallengeApart

LEMMA FactorsApart ==
    /\ L!Factors = Totp \cup Codes
    /\ \A f \in Totp : f \notin Codes /\ f[2] \in L!Periods
    /\ L!Wrong \notin L!Factors
  BY LoginAssumption DEF Totp, L!Factors, L!Wrong

LEMMA LoginInit == L!Init => LoginInv
  <1> SUFFICES ASSUME L!Init PROVE LoginInv
    OBVIOUS
  <1> USE LoginAssumption, FactorsApart DEF L!Init, L!Idle
  <1>1. L!TypeOK
    <2>1. failed \in 0..(Limit + 1) /\ lock \in (IF failed < Limit THEN {"none"} ELSE {"held", "lapsed"})
      OBVIOUS
    <2>2. throttle \in 0..RedisLimit /\ clock \in 0..MaxClock
      OBVIOUS
    <2>3. method \in [secret : Secrets \cup {None}, verified : BOOLEAN, last : L!Periods \cup {None}]
      <3>1. \A s \in Secrets \cup {None}, b \in BOOLEAN :
               [secret |-> s, verified |-> b, last |-> None]
                  \in [secret : Secrets \cup {None}, verified : BOOLEAN, last : L!Periods \cup {None}]
        OBVIOUS
      <3> QED
        BY <3>1 DEF L!NoMethod
    <2>4. challenge \in [Challenges -> [state : {"none", "open", "consumed", "expired"}, attempts : 0..Limit]]
      OBVIOUS
    <2>5. codes \subseteq Codes
      OBVIOUS
    <2> QED
      BY <2>1, <2>2, <2>3, <2>4, <2>5 DEF L!TypeOK
  <1>2. GhostsOK /\ LoginRequests
    BY DEF GhostsOK, LoginRequests, Ready
  <1>3. FactorHeld /\ FactorApart /\ Consumed /\ Carried /\ ChallengeApart
    BY DEF FactorHeld, FactorApart, Consumed, Carried, ChallengeApart, Spending
  <1>4. Counted
    BY DEF Counted, L!NoMethod
  <1> QED
    BY <1>1, <1>2, <1>3, <1>4 DEF LoginInv, LoginTypes

(* A request is a record of these.                                         *)
LoginPhases ==
    {"idle", "password", "accepted", "read", "use", "miss", "close", "commit", "open", "save", "activate"}

LoginRequest ==
    [pc : LoginPhases, ch : Challenges \cup {None}, secret : Secrets \cup {None},
     fac : L!Factors \cup {L!Wrong}, seen : 0..Limit]

MethodRow == [secret : Secrets \cup {None}, verified : BOOLEAN, last : L!Periods \cup {None}]

ChallengeRow == [state : {"none", "open", "consumed", "expired"}, attempts : 0..Limit]

PasswordOK ==
    /\ failed \in 0..(Limit + 1)
    /\ lock \in IF failed < Limit THEN {"none"} ELSE {"held", "lapsed"}
    /\ throttle \in 0..RedisLimit

LEMMA LoginTyped ==
    L!TypeOK <=> /\ PasswordOK
                 /\ method \in MethodRow
                 /\ codes \subseteq Codes
                 /\ challenge \in [Challenges -> ChallengeRow]
                 /\ clock \in 0..MaxClock
                 /\ loginHand \in [LoginHandlers -> LoginRequest]
  BY DEF L!TypeOK, PasswordOK, MethodRow, ChallengeRow, LoginRequest, LoginPhases

LEMMA IdleTyped == L!Idle \in LoginRequest
  BY LoginAssumption DEF L!Idle, LoginRequest, LoginPhases

(* One request moves, the others wait.                                     *)
Turn(h) ==
    /\ loginHand' \in [LoginHandlers -> LoginRequest]
    /\ \A g \in LoginHandlers \ {h} : loginHand'[g] = loginHand[g]

LEMMA FinishTurn ==
    ASSUME LoginTypes, NEW h \in LoginHandlers, L!Finish(h)
    PROVE  Turn(h) /\ loginHand'[h] = L!Idle /\ loginHand'[h].pc = "idle" /\ Ready(loginHand'[h])
  <1>1. loginHand \in [LoginHandlers -> LoginRequest] /\ L!Idle.pc = "idle"
    BY LoginTyped DEF LoginTypes, L!Idle
  <1> QED
    BY <1>1, IdleTyped DEF L!Finish, Turn, Ready

LEMMA GotoTurn ==
    ASSUME LoginTypes, NEW h \in LoginHandlers, NEW next \in LoginPhases, L!Goto(h, next)
    PROVE  /\ Turn(h)
           /\ loginHand'[h].pc = next
           /\ loginHand'[h].ch = loginHand[h].ch
           /\ loginHand'[h].secret = loginHand[h].secret
           /\ loginHand'[h].fac = loginHand[h].fac
           /\ loginHand'[h].seen = loginHand[h].seen
  BY LoginTyped DEF LoginTypes, L!Goto, Turn, LoginRequest

LEMMA BeginTurns ==
    ASSUME LoginTypes, NEW h \in LoginHandlers
    PROVE  /\ L!BeginLogin(h) => Turn(h) /\ loginHand'[h].pc = "password"
           /\ \A c \in Challenges, f \in L!Factors \cup {L!Wrong} :
                 L!BeginMfa(h, c, f) => Turn(h) /\ loginHand'[h].pc = "read" /\ loginHand'[h].ch = c
           /\ \A s \in Secrets :
                 L!BeginEnrolment(h, s) => Turn(h) /\ loginHand'[h].pc = "save" /\ loginHand'[h].secret = s
           /\ \A f \in L!Factors :
                 L!BeginConfirm(h, f) => Turn(h) /\ loginHand'[h].pc = "activate" /\ loginHand'[h].fac = f
  <1> DEFINE mine == loginHand[h]
  <1>1. /\ loginHand \in [LoginHandlers -> LoginRequest] /\ mine \in LoginRequest
        /\ {"password", "read", "save", "activate"} \subseteq LoginPhases
    BY LoginTyped DEF LoginTypes, LoginPhases
  <1>2. ASSUME NEW new \in LoginRequest, loginHand' = [loginHand EXCEPT ![h] = new]
        PROVE  Turn(h) /\ loginHand'[h] = new
    BY <1>1, <1>2 DEF Turn
  <1>3. ASSUME L!BeginLogin(h)
        PROVE  Turn(h) /\ loginHand'[h].pc = "password"
    <2> DEFINE s == IF method.verified THEN method.secret ELSE None
               n == IF lock = "held" THEN 1 ELSE 0
               new == [mine EXCEPT !.pc = "password", !.seen = n, !.secret = s]
    <2>1. s \in Secrets \cup {None} /\ n \in 0..Limit
      BY LoginTyped, LoginAssumption DEF LoginTypes, MethodRow
    <2>2. loginHand' = [loginHand EXCEPT ![h] = new]
      BY <1>1, <1>3 DEF L!BeginLogin, LoginRequest
    <2> HIDE DEF s, n
    <2>3. new \in LoginRequest /\ new.pc = "password"
      BY <1>1, <2>1 DEF LoginRequest
    <2> HIDE DEF new
    <2> QED
      BY <1>2, <2>2, <2>3
  <1>4. ASSUME NEW c \in Challenges, NEW f \in L!Factors \cup {L!Wrong}, L!BeginMfa(h, c, f)
        PROVE  Turn(h) /\ loginHand'[h].pc = "read" /\ loginHand'[h].ch = c
    <2> DEFINE g == IF f \in Codes \/ L!Verifies(method.secret, f) THEN f ELSE L!Wrong
               new == [mine EXCEPT !.pc = "read", !.ch = c, !.fac = g]
    <2>1. g \in L!Factors \cup {L!Wrong}
      OBVIOUS
    <2>2. loginHand' = [loginHand EXCEPT ![h] = new]
      BY <1>1, <1>4 DEF L!BeginMfa, LoginRequest
    <2> HIDE DEF g
    <2>3. new \in LoginRequest /\ new.pc = "read" /\ new.ch = c
      BY <1>1, <2>1 DEF LoginRequest
    <2> HIDE DEF new
    <2> QED
      BY <1>2, <2>2, <2>3
  <1>5. ASSUME NEW s \in Secrets, L!BeginEnrolment(h, s)
        PROVE  Turn(h) /\ loginHand'[h].pc = "save" /\ loginHand'[h].secret = s
    <2> DEFINE new == [mine EXCEPT !.pc = "save", !.secret = s]
    <2>1. loginHand' = [loginHand EXCEPT ![h] = new]
      BY <1>1, <1>5 DEF L!BeginEnrolment, LoginRequest
    <2>2. new \in LoginRequest /\ new.pc = "save" /\ new.secret = s
      BY <1>1 DEF LoginRequest
    <2> HIDE DEF new
    <2> QED
      BY <1>2, <2>1, <2>2
  <1>6. ASSUME NEW f \in L!Factors, L!BeginConfirm(h, f)
        PROVE  Turn(h) /\ loginHand'[h].pc = "activate" /\ loginHand'[h].fac = f
    <2> DEFINE new == [mine EXCEPT !.pc = "activate", !.fac = f]
    <2>1. loginHand' = [loginHand EXCEPT ![h] = new]
      BY <1>1, <1>6 DEF L!BeginConfirm, LoginRequest
    <2>2. new \in LoginRequest /\ new.pc = "activate" /\ new.fac = f
      BY <1>1 DEF LoginRequest
    <2> HIDE DEF new
    <2> QED
      BY <1>2, <2>1, <2>2
  <1> QED
    BY <1>3, <1>4, <1>5, <1>6

(* No challenge that somebody is about to consume, or has consumed, is     *)
(* opened or closed.                                                       *)
Steady ==
    /\ challenge' \in [Challenges -> ChallengeRow]
    /\ \A c \in Challenges :
          /\ challenge[c].state \in {"open", "expired"} => challenge'[c].state \in {"open", "expired"}
          /\ challenge[c].state = "consumed" => challenge'[c].state = "consumed"

(* A step that takes no lock and accepts nothing.                          *)
LEMMA QuietStep ==
    ASSUME LoginInv, NEW h \in LoginHandlers, Turn(h), Ready(loginHand'[h]),
           loginHand'[h].pc \notin Spending \cup {"open"},
           UNCHANGED <<method, codes, uses, opened, forgotten>>,
           PasswordOK', clock' \in 0..MaxClock, Steady
    PROVE  LoginInv'
  <1> USE DEF LoginInv, LoginTypes, Turn
  <1>1. LoginTypes'
    BY LoginTyped DEF GhostsOK, LoginRequests, Steady, L!TypeOK, PasswordOK, MethodRow, ChallengeRow, LoginRequest,
                      LoginPhases
  <1>2. FactorHeld' /\ FactorApart'
    BY DEF FactorHeld, FactorApart
  <1>3. Counted'
    BY DEF Counted
  <1>4. Consumed'
    BY DEF Consumed, Steady
  <1>5. ChallengeApart'
    BY DEF ChallengeApart, Spending
  <1>6. Carried'
    BY DEF Carried, Steady, LoginRequests, Ready, Spending
  <1> QED
    BY <1>1, <1>2, <1>3, <1>4, <1>5, <1>6

LEMMA UnchangedSteady == ASSUME LoginInv, UNCHANGED challenge PROVE Steady
  BY LoginTyped DEF LoginInv, LoginTypes, Steady, ChallengeRow

LEMMA PasswordKept == ASSUME LoginInv, UNCHANGED L!password PROVE PasswordOK'
  BY LoginTyped DEF LoginInv, LoginTypes, PasswordOK, L!password

(* A request begins.                                                       *)
LEMMA BeginRequestStep ==
    ASSUME LoginInv, NEW h \in LoginHandlers,
           \/ L!BeginLogin(h)
           \/ \E c \in Challenges, f \in L!Factors \cup {L!Wrong} : L!BeginMfa(h, c, f)
           \/ \E s \in Secrets : L!BeginEnrolment(h, s)
           \/ \E f \in L!Factors : L!BeginConfirm(h, f)
    PROVE  LoginInv'
  <1>1. LoginTypes /\ clock \in 0..MaxClock /\ method \in MethodRow
    BY LoginTyped DEF LoginInv, LoginTypes
  <1>2. /\ UNCHANGED <<method, codes, uses, opened, forgotten, clock, challenge>>
        /\ UNCHANGED L!password
    BY DEF L!BeginLogin, L!BeginMfa, L!BeginEnrolment, L!BeginConfirm, L!factor
  <1>3. Turn(h) /\ loginHand'[h].pc \in {"password", "read", "save", "activate"} /\ Ready(loginHand'[h])
    <2>1. CASE L!BeginLogin(h)
      BY <1>1, <2>1, BeginTurns DEF Ready
    <2>2. ASSUME NEW c \in Challenges, NEW f \in L!Factors \cup {L!Wrong}, L!BeginMfa(h, c, f)
          PROVE  Turn(h) /\ loginHand'[h].pc = "read" /\ loginHand'[h].ch = c
      BY <1>1, <2>2, BeginTurns
    <2>3. ASSUME NEW s \in Secrets, L!BeginEnrolment(h, s)
          PROVE  Turn(h) /\ loginHand'[h].pc = "save" /\ loginHand'[h].secret = s
      BY <1>1, <2>3, BeginTurns
    <2>4. ASSUME NEW f \in L!Factors, L!BeginConfirm(h, f)
          PROVE  Turn(h) /\ loginHand'[h].pc = "activate" /\ loginHand'[h].fac = f /\ f \in Totp
      <3>1. method.secret \in Secrets
        BY <1>1, <2>4 DEF MethodRow, L!BeginConfirm
      <3> QED
        BY <1>1, <2>4, <3>1, BeginTurns DEF L!BeginConfirm, L!Verifies, Totp
    <2> QED
      BY <2>1, <2>2, <2>3, <2>4 DEF Ready
  <1> QED
    BY <1>1, <1>2, <1>3, UnchangedSteady, PasswordKept, QuietStep DEF Spending

(* The password is checked and the counters are written.                   *)
LEMMA PasswordStep ==
    ASSUME LoginInv, NEW h \in LoginHandlers, L!Refuse(h) \/ L!Accept(h)
    PROVE  LoginInv'
  <1>1. LoginTypes /\ clock \in 0..MaxClock /\ PasswordOK
    BY LoginTyped DEF LoginInv, LoginTypes
  <1>2. UNCHANGED <<method, codes, uses, opened, forgotten, clock, challenge>>
    BY DEF L!Refuse, L!Accept, L!factor
  <1>3. L!Finish(h) \/ L!Goto(h, "accepted")
    BY DEF L!Refuse, L!Accept
  <1>4. Turn(h) /\ loginHand'[h].pc \in {"idle", "accepted"} /\ Ready(loginHand'[h])
    <2>1. CASE L!Finish(h)
      BY <1>1, <2>1, FinishTurn
    <2>2. CASE L!Goto(h, "accepted")
      BY <1>1, <2>2, GotoTurn DEF LoginPhases, Ready
    <2> QED
      BY <1>3, <2>1, <2>2
  <1>5. failed' \in 0..(Limit + 1) /\ lock' \in (IF failed' < Limit THEN {"none"} ELSE {"held", "lapsed"})
    <2>1. \/ L!RecordFailure
          \/ UNCHANGED <<failed, lock>>
          \/ failed' = 0 /\ lock' = "none"
      BY DEF L!Refuse, L!Accept
    <2> QED
      BY <1>1, <2>1, LoginAssumption DEF L!RecordFailure, L!Failed, PasswordOK
  <1>6. throttle' \in 0..RedisLimit
    BY <1>1, LoginAssumption DEF L!Refuse, L!Accept, PasswordOK
  <1> QED
    BY <1>1, <1>2, <1>4, <1>5, <1>6, UnchangedSteady, QuietStep DEF Spending, PasswordOK

(* A challenge is opened, or the request ends without one.                 *)
LEMMA ProceedStep == ASSUME LoginInv, NEW h \in LoginHandlers, L!Proceed(h) PROVE LoginInv'
  <1>1. LoginTypes /\ clock \in 0..MaxClock /\ challenge \in [Challenges -> ChallengeRow]
    BY LoginTyped DEF LoginInv, LoginTypes
  <1>2. UNCHANGED <<method, codes, uses, opened, forgotten, clock>> /\ UNCHANGED L!password /\ L!Finish(h)
    BY DEF L!Proceed, L!factor
  <1>3. Steady
    <2>1. CASE UNCHANGED challenge
      BY <2>1, UnchangedSteady
    <2>2. CASE \E c \in Challenges : /\ challenge[c].state = "none"
                                     /\ challenge' = [challenge EXCEPT ![c].state = "open"]
      BY <1>1, <2>2 DEF Steady, ChallengeRow
    <2> QED
      BY <2>1, <2>2 DEF L!Proceed
  <1> QED
    BY <1>1, <1>2, <1>3, FinishTurn, PasswordKept, QuietStep DEF Spending

LEMMA DieStep == ASSUME LoginInv, NEW h \in LoginHandlers, L!Die(h) PROVE LoginInv'
  <1>1. LoginTypes /\ clock \in 0..MaxClock
    BY LoginTyped DEF LoginInv, LoginTypes
  <1>2. /\ UNCHANGED <<method, codes, uses, opened, forgotten, clock, challenge>>
        /\ UNCHANGED L!password /\ L!Finish(h)
    BY DEF L!Die, L!factor
  <1> QED
    BY <1>1, <1>2, FinishTurn, UnchangedSteady, PasswordKept, QuietStep DEF Spending

(* The challenge is read again; the request has an attempt left.           *)
LEMMA ReadStep == ASSUME LoginInv, NEW h \in LoginHandlers, L!Read(h) PROVE LoginInv'
  <1> DEFINE mine == loginHand[h]
             n == challenge[mine.ch].attempts
             new == [mine EXCEPT !.pc = "use", !.seen = n]
  <1>1. /\ LoginTypes /\ clock \in 0..MaxClock /\ challenge \in [Challenges -> ChallengeRow]
        /\ loginHand \in [LoginHandlers -> LoginRequest] /\ mine \in LoginRequest /\ "use" \in LoginPhases
    BY LoginTyped DEF LoginInv, LoginTypes, LoginPhases
  <1>2. /\ UNCHANGED <<method, codes, uses, opened, forgotten, clock, challenge>>
        /\ UNCHANGED L!password
    BY DEF L!Read, L!factor
  <1>3. mine.pc = "read" /\ mine.ch \in Challenges
    BY <1>1 DEF L!Read, LoginTypes, LoginRequests, Ready
  <1>4. Turn(h) /\ loginHand'[h].pc \in {"idle", "use"} /\ Ready(loginHand'[h])
    <2>1. CASE L!Finish(h)
      BY <1>1, <2>1, FinishTurn
    <2>2. CASE ~L!Finish(h)
      <3>1. n \in 0..Limit /\ n < Limit
        BY <1>1, <1>3, <2>2 DEF L!Read, ChallengeRow
      <3>2. loginHand' = [loginHand EXCEPT ![h] = new]
        BY <1>1, <2>2 DEF L!Read, LoginRequest
      <3> HIDE DEF n
      <3>3. new \in LoginRequest /\ new.pc = "use" /\ new.ch = mine.ch /\ new.seen = n
        BY <1>1, <3>1 DEF LoginRequest
      <3> HIDE DEF new
      <3> QED
        BY <1>1, <1>3, <3>1, <3>2, <3>3 DEF Turn, Ready
    <2> QED
      BY <2>1, <2>2
  <1> QED
    BY <1>1, <1>2, <1>4, UnchangedSteady, PasswordKept, QuietStep DEF Spending

(* The attempt is counted, unless somebody else's was counted since.       *)
LEMMA MissStep == ASSUME LoginInv, NEW h \in LoginHandlers, L!Miss(h) PROVE LoginInv'
  <1> DEFINE c == loginHand[h].ch
  <1>1. LoginTypes /\ clock \in 0..MaxClock /\ challenge \in [Challenges -> ChallengeRow]
    BY LoginTyped DEF LoginInv, LoginTypes
  <1>2. UNCHANGED <<method, codes, uses, opened, forgotten, clock>> /\ UNCHANGED L!password /\ L!Finish(h)
    BY DEF L!Miss, L!factor
  <1>3. c \in Challenges /\ loginHand[h].seen < Limit
    BY <1>1 DEF L!Miss, LoginTypes, LoginRequests, Ready
  <1>4. Steady
    <2>1. CASE ~L!AsSeen(h)
      BY <2>1, UnchangedSteady DEF L!Miss
    <2>2. CASE L!AsSeen(h)
      <3>1. challenge' = [challenge EXCEPT ![c].attempts = @ + 1] /\ challenge[c].attempts < Limit
        BY <1>3, <2>2 DEF L!Miss, L!AsSeen
      <3> HIDE DEF c
      <3> QED
        BY <1>1, <1>3, <3>1, LoginAssumption DEF Steady, ChallengeRow
    <2> QED
      BY <2>1, <2>2
  <1> QED
    BY <1>1, <1>2, <1>4, FinishTurn, PasswordKept, QuietStep DEF Spending

----------------------------------------------------------------------------
(* Login: the steps that take a lock or accept something.                  *)

LEMMA TurnTyped ==
    ASSUME LoginInv, NEW h \in LoginHandlers, Turn(h), Ready(loginHand'[h]),
           method' \in MethodRow, codes' \subseteq Codes, challenge' \in [Challenges -> ChallengeRow],
           UNCHANGED clock, UNCHANGED L!password, GhostsOK'
    PROVE  LoginTypes'
  <1>1. PasswordOK' /\ clock' \in 0..MaxClock
    BY PasswordKept, LoginTyped DEF LoginInv, LoginTypes
  <1>2. L!TypeOK'
    BY <1>1 DEF L!TypeOK, PasswordOK, MethodRow, ChallengeRow, LoginRequest, LoginPhases, Turn
  <1>3. LoginRequests'
    BY DEF LoginInv, LoginTypes, LoginRequests, Turn
  <1> QED
    BY <1>2, <1>3 DEF LoginTypes

(* What is known of the data before a step.                                *)
LEMMA LoginData ==
    ASSUME LoginInv
    PROVE  /\ LoginTypes /\ GhostsOK
           /\ method \in MethodRow /\ codes \subseteq Codes /\ challenge \in [Challenges -> ChallengeRow]
           /\ loginHand \in [LoginHandlers -> LoginRequest]
           /\ \A h \in LoginHandlers : Ready(loginHand[h])
  BY LoginTyped DEF LoginInv, LoginTypes, LoginRequests

LEMMA UseStep == ASSUME LoginInv, NEW h \in LoginHandlers, L!Use(h) PROVE LoginInv'
  <1> DEFINE mine == loginHand[h]
             f == mine.fac
  <1>1. /\ UNCHANGED <<method, codes, uses, opened, forgotten, clock, challenge>>
        /\ UNCHANGED L!password
        /\ mine.pc = "use" /\ mine.ch \in Challenges /\ mine.seen < Limit
    BY LoginData DEF L!Use, L!factor, Ready
  <1>2. CASE ~L!Usable(f)
    <2>1. L!Goto(h, "miss") /\ clock \in 0..MaxClock
      BY <1>2, LoginTyped DEF L!Use, LoginInv, LoginTypes
    <2>2. Turn(h) /\ loginHand'[h].pc = "miss" /\ Ready(loginHand'[h])
      BY <1>1, <2>1, GotoTurn, LoginData DEF Ready, LoginPhases
    <2> QED
      BY <1>1, <2>1, <2>2, UnchangedSteady, PasswordKept, QuietStep DEF Spending
  <1>3. CASE L!Usable(f)
    <2>1. L!Goto(h, "close")
      BY <1>3 DEF L!Use
    <2>2. /\ Turn(h) /\ Ready(loginHand'[h])
          /\ loginHand'[h].pc = "close" /\ loginHand'[h].fac = f /\ loginHand'[h].ch = mine.ch
      BY <1>1, <2>1, GotoTurn, LoginData DEF Ready, LoginPhases
    <2>3. LoginTypes'
      BY <1>1, <2>2, TurnTyped, LoginData DEF GhostsOK
    <2>4. /\ f \in L!Factors /\ method.verified
          /\ f \in Codes => f \in codes
          /\ f \in Totp => method.last = None \/ method.last < f[2]
      BY <1>3, FactorsApart DEF L!Usable, LoginInv, Counted, Totp
    <2>5. \A g \in LoginHandlers : loginHand[g].pc \in Spending =>
              /\ f \in Totp => loginHand[g].fac \notin Totp
              /\ f \in Codes => loginHand[g].fac # f
      BY DEF L!Use, L!MethodFree, L!CodeFree, Spending, Totp
    <2>6. FactorHeld'
      BY <1>1, <2>2, <2>4 DEF FactorHeld, LoginInv, Turn
    <2>7. FactorApart'
      BY <1>1, <2>2, <2>4, <2>5 DEF FactorApart, LoginInv, Turn
    <2>8. Counted' /\ Consumed' /\ Carried' /\ ChallengeApart'
      BY <1>1, <2>2 DEF Counted, Consumed, Carried, ChallengeApart, LoginInv, Turn
    <2> QED
      BY <2>3, <2>6, <2>7, <2>8 DEF LoginInv
  <1> QED
    BY <1>2, <1>3

LEMMA PeriodsOrdered ==
    /\ None \notin L!Periods
    /\ \A i \in L!Periods : i <= i /\ ~(i < i)
    /\ \A i, j, k \in L!Periods : i <= j /\ j < k => i <= k
    /\ \A i, j \in L!Periods : i <= j => ~(j < i)
  BY LoginAssumption DEF L!Periods

(* What is spent was valid, and will not be again.                         *)
LEMMA SpendFactor ==
    ASSUME LoginInv, NEW h \in LoginHandlers, loginHand[h].pc \in Spending, L!Spend(loginHand[h].fac),
           Turn(h), loginHand'[h].pc \notin Spending, UNCHANGED forgotten
    PROVE  /\ method' \in MethodRow /\ codes' \subseteq Codes /\ uses' \in [L!Factors -> Nat]
           /\ FactorHeld' /\ FactorApart' /\ Counted'
  <1> DEFINE f == loginHand[h].fac
  <1>1. /\ f \in L!Factors /\ method.verified
        /\ f \in Codes => f \in codes
        /\ f \in Totp => method.last = None \/ method.last < f[2]
    BY DEF LoginInv, FactorHeld
  <1>2. \A g \in LoginHandlers \ {h} : loginHand[g].pc \in Spending =>
            /\ ~(f \in Totp /\ loginHand[g].fac \in Totp)
            /\ f \in Codes => loginHand[g].fac # f
    BY DEF LoginInv, FactorApart
  <1>3. /\ uses \in [L!Factors -> Nat] /\ uses' = [uses EXCEPT ![f] = @ + 1]
        /\ method \in MethodRow /\ codes \subseteq Codes
    BY LoginData DEF L!Spend, GhostsOK
  <1>4. uses' \in [L!Factors -> Nat] /\ uses'[f] = uses[f] + 1 /\ \A e \in L!Factors \ {f} : uses'[e] = uses[e]
    BY <1>1, <1>3
  <1>5. FactorApart'
    BY DEF LoginInv, FactorApart, Turn
  <1>6. CASE f \in Codes
    <2>1. codes' = codes \ {f} /\ UNCHANGED method
      BY <1>6 DEF L!Spend
    <2>2. FactorHeld'
      BY <1>2, <1>6, <2>1 DEF LoginInv, FactorHeld, Turn
    <2>3. Counted'
      BY <1>1, <1>3, <1>4, <1>6, <2>1, FactorsApart DEF LoginInv, Counted
    <2> QED
      BY <1>3, <1>4, <1>5, <2>1, <2>2, <2>3
  <1>7. CASE f \notin Codes
    <2>1. f \in Totp /\ f[2] \in L!Periods
      BY <1>1, <1>7, FactorsApart
    <2>2. method' = [method EXCEPT !.last = f[2]] /\ UNCHANGED codes
      BY <1>7 DEF L!Spend
    <2>3. method' \in MethodRow /\ method'.last = f[2] /\ method'.verified
      BY <1>1, <1>3, <2>1, <2>2 DEF MethodRow
    <2>4. FactorHeld'
      BY <1>2, <2>1, <2>2, <2>3 DEF LoginInv, FactorHeld, Turn
    <2>5. method.last \in L!Periods \cup {None}
      BY <1>3 DEF MethodRow
    <2>6. f \notin forgotten => uses[f] = 0
      <3>1. f \notin forgotten => (uses[f] # 0 => method.last # None /\ f[2] <= method.last)
        BY <2>1 DEF LoginInv, Counted
      <3>2. method.last = None \/ method.last < f[2]
        BY <1>1, <2>1
      <3> HIDE DEF f
      <3> QED
        BY <2>1, <2>5, <3>1, <3>2, PeriodsOrdered
    <2>7. ASSUME NEW e \in Totp \ forgotten
          PROVE  uses'[e] <= 1 /\ (uses'[e] # 0 => method'.last # None /\ e[2] <= method'.last)
      <3>1. CASE e = f
        <4>1. uses'[e] = 1 /\ method'.last = e[2] /\ e[2] \in L!Periods
          BY <1>4, <2>1, <2>3, <2>6, <2>7, <3>1
        <4> QED
          BY <4>1, PeriodsOrdered
      <3>2. CASE e # f
        <4>1. uses'[e] = uses[e] /\ uses[e] <= 1 /\ (uses[e] # 0 => method.last # None /\ e[2] <= method.last)
          BY <1>4, <2>7, <3>2, FactorsApart DEF LoginInv, Counted
        <4>2. e[2] \in L!Periods
          BY FactorsApart
        <4>3. method.last # None => method.last < f[2]
          BY <1>1, <2>1, <2>7
        <4> HIDE DEF f
        <4> QED
          BY <2>1, <2>3, <2>5, <4>1, <4>2, <4>3, PeriodsOrdered
      <3> QED
        BY <3>1, <3>2
    <2>8. \A k \in Codes : uses'[k] <= 1 /\ (k \in codes' => uses'[k] = 0)
      BY <1>4, <1>7, <2>2, FactorsApart DEF LoginInv, Counted
    <2>9. Counted'
      BY <2>3, <2>7, <2>8 DEF Counted
    <2> QED
      BY <1>3, <1>4, <1>5, <2>2, <2>3, <2>4, <2>9
  <1> QED
    BY <1>6, <1>7

(* The challenge is taken, or the factor was spent for nothing.            *)
LEMMA CloseStep == ASSUME LoginInv, NEW h \in LoginHandlers, L!Close(h) PROVE LoginInv'
  <1> DEFINE mine == loginHand[h]
  <1>1. /\ UNCHANGED <<opened, forgotten, clock, challenge>> /\ UNCHANGED L!password
        /\ mine.pc = "close" /\ mine.pc \in Spending /\ mine.ch \in Challenges /\ mine.seen < Limit
    BY LoginData DEF L!Close, Ready, Spending
  <1>2. Consumed'
    BY <1>1 DEF LoginInv, Consumed
  <1>3. CASE L!AsSeen(h) /\ L!Goto(h, "commit") /\ UNCHANGED L!factor
    <2>1. /\ Turn(h) /\ Ready(loginHand'[h]) /\ UNCHANGED <<method, codes, uses>>
          /\ loginHand'[h].pc = "commit" /\ loginHand'[h].fac = mine.fac /\ loginHand'[h].ch = mine.ch
      BY <1>1, <1>3, GotoTurn, LoginData DEF Ready, LoginPhases, L!factor
    <2>2. LoginTypes'
      BY <1>1, <2>1, TurnTyped, LoginData DEF GhostsOK
    <2>3. FactorHeld' /\ FactorApart' /\ Counted'
      BY <1>1, <2>1 DEF LoginInv, FactorHeld, FactorApart, Counted, Turn, Spending
    <2>4. challenge[mine.ch].state \in {"open", "expired"}
      BY <1>3 DEF L!AsSeen
    <2>5. Carried'
      BY <1>1, <2>1, <2>4 DEF LoginInv, Carried, Turn
    <2>6. \A g \in LoginHandlers \ {h} : loginHand[g].pc \in {"commit", "open"} => loginHand[g].ch # mine.ch
      BY <2>4 DEF L!Close, L!ChallengeFree, LoginInv, Carried
    <2>7. ChallengeApart'
      BY <2>1, <2>6 DEF LoginInv, ChallengeApart, Turn
    <2> QED
      BY <1>2, <2>2, <2>3, <2>5, <2>7 DEF LoginInv
  <1>4. CASE L!Spend(mine.fac) /\ L!Finish(h)
    <2>1. Turn(h) /\ Ready(loginHand'[h]) /\ loginHand'[h].pc = "idle"
      BY <1>4, FinishTurn, LoginData
    <2>2. /\ method' \in MethodRow /\ codes' \subseteq Codes /\ uses' \in [L!Factors -> Nat]
          /\ FactorHeld' /\ FactorApart' /\ Counted'
      BY <1>1, <1>4, <2>1, SpendFactor DEF Spending
    <2>3. LoginTypes'
      BY <1>1, <2>1, <2>2, TurnTyped, LoginData DEF GhostsOK
    <2>4. Carried' /\ ChallengeApart'
      BY <1>1, <2>1 DEF LoginInv, Carried, ChallengeApart, Turn
    <2> QED
      BY <1>2, <2>2, <2>3, <2>4 DEF LoginInv
  <1> QED
    BY <1>3, <1>4 DEF L!Close

(* The factor is spent and the challenge consumed, both locked until here. *)
LEMMA CommitFactorStep == ASSUME LoginInv, NEW h \in LoginHandlers, L!Commit(h) PROVE LoginInv'
  <1> DEFINE mine == loginHand[h]
             c == mine.ch
  <1>1. /\ UNCHANGED <<opened, forgotten, clock>> /\ UNCHANGED L!password
        /\ mine.pc = "commit" /\ mine.pc \in Spending /\ c \in Challenges
        /\ challenge' = [challenge EXCEPT ![c].state = "consumed"]
        /\ L!Spend(mine.fac) /\ L!Goto(h, "open")
    BY LoginData DEF L!Commit, Ready, Spending
  <1>2. /\ Turn(h) /\ Ready(loginHand'[h])
        /\ loginHand'[h].pc = "open" /\ loginHand'[h].ch = c
    BY <1>1, GotoTurn, LoginData DEF Ready, LoginPhases
  <1>3. /\ method' \in MethodRow /\ codes' \subseteq Codes /\ uses' \in [L!Factors -> Nat]
        /\ FactorHeld' /\ FactorApart' /\ Counted'
    BY <1>1, <1>2, SpendFactor DEF Spending
  <1>4. /\ challenge' \in [Challenges -> ChallengeRow] /\ challenge'[c].state = "consumed"
        /\ \A d \in Challenges \ {c} : challenge'[d] = challenge[d]
    BY <1>1, LoginData DEF ChallengeRow
  <1>5. LoginTypes'
    BY <1>1, <1>2, <1>3, <1>4, TurnTyped, LoginData DEF GhostsOK
  <1>6. Consumed'
    BY <1>1, <1>4 DEF LoginInv, Consumed
  <1>7. opened[c] = 0
    BY <1>1 DEF LoginInv, Consumed, Carried
  <1>8. \A g \in LoginHandlers \ {h} : loginHand[g].pc \in {"commit", "open"} => loginHand[g].ch \in Challenges \ {c}
    BY <1>1, LoginData DEF LoginInv, ChallengeApart, Ready
  <1>9. Carried'
    BY <1>1, <1>2, <1>4, <1>7, <1>8 DEF LoginInv, Carried, Turn
  <1>10. ChallengeApart'
    BY <1>2, <1>8 DEF LoginInv, ChallengeApart, Turn
  <1> QED
    BY <1>3, <1>5, <1>6, <1>9, <1>10 DEF LoginInv

(* The session is created by the only request that has this challenge.     *)
LEMMA OpenStep == ASSUME LoginInv, NEW h \in LoginHandlers, L!Open(h) PROVE LoginInv'
  <1> DEFINE mine == loginHand[h]
             c == mine.ch
  <1>1. /\ UNCHANGED <<method, codes, uses, challenge, forgotten, clock>> /\ UNCHANGED L!password
        /\ mine.pc = "open" /\ c \in Challenges
        /\ opened' = [opened EXCEPT ![c] = @ + 1] /\ L!Finish(h)
    BY LoginData DEF L!Open, L!factor, Ready
  <1>2. Turn(h) /\ Ready(loginHand'[h]) /\ loginHand'[h].pc = "idle"
    BY <1>1, FinishTurn, LoginData
  <1>3. opened[c] = 0 /\ challenge[c].state = "consumed"
    BY <1>1 DEF LoginInv, Carried
  <1>4. opened' \in [Challenges -> Nat] /\ opened'[c] = 1 /\ \A d \in Challenges \ {c} : opened'[d] = opened[d]
    BY <1>1, <1>3, LoginData DEF GhostsOK
  <1>5. LoginTypes'
    BY <1>1, <1>2, <1>4, TurnTyped, LoginData DEF GhostsOK
  <1>6. FactorHeld' /\ FactorApart' /\ Counted'
    BY <1>1, <1>2 DEF LoginInv, FactorHeld, FactorApart, Counted, Turn, Spending
  <1>7. Consumed'
    BY <1>1, <1>3, <1>4 DEF LoginInv, Consumed
  <1>8. \A g \in LoginHandlers \ {h} : loginHand[g].pc \in {"commit", "open"} => loginHand[g].ch \in Challenges \ {c}
    BY <1>1, LoginData DEF LoginInv, ChallengeApart, Ready
  <1>9. Carried' /\ ChallengeApart'
    BY <1>1, <1>2, <1>4, <1>8 DEF LoginInv, Carried, ChallengeApart, Turn
  <1> QED
    BY <1>5, <1>6, <1>7, <1>9 DEF LoginInv

(* A new secret: nothing was accepted yet, or an active method is lost.    *)
LEMMA SaveStep == ASSUME LoginInv, NEW h \in LoginHandlers, L!Save(h) PROVE LoginInv'
  <1> DEFINE mine == loginHand[h]
  <1>1. /\ UNCHANGED <<codes, uses, challenge, opened, clock>> /\ UNCHANGED L!password
        /\ mine.secret \in Secrets /\ L!Finish(h)
        /\ method' = [method EXCEPT !.secret = mine.secret, !.last = None]
        /\ forgotten' = forgotten \cup {f \in Totp : method.verified /\ uses[f] > 0}
    BY LoginData DEF L!Save, Ready, Totp
  <1>2. Turn(h) /\ Ready(loginHand'[h]) /\ loginHand'[h].pc = "idle"
    BY <1>1, FinishTurn, LoginData
  <1>3. /\ method' \in MethodRow /\ method'.last = None
        /\ (method'.verified <=> method.verified)
    BY <1>1, LoginData DEF MethodRow
  <1>4. forgotten' \subseteq Totp /\ \A f \in Totp \ forgotten' : method.verified => uses[f] = 0
    <2>1. forgotten \subseteq Totp /\ \A f \in Totp : uses[f] \in Nat
      BY LoginData, FactorsApart DEF GhostsOK
    <2>2. \A f \in Totp : uses[f] \in Nat /\ ~(uses[f] > 0) => uses[f] = 0
      BY SMT
    <2> QED
      BY <1>1, <2>1, <2>2
  <1>5. LoginTypes'
    BY <1>1, <1>2, <1>3, <1>4, TurnTyped, LoginData DEF GhostsOK
  <1>6. \A g \in LoginHandlers : loginHand[g].pc \in Spending => loginHand[g].fac \notin Totp
    BY DEF L!Save, L!MethodFree, Spending, Totp
  <1>7. FactorHeld' /\ FactorApart'
    BY <1>1, <1>2, <1>3, <1>6 DEF LoginInv, FactorHeld, FactorApart, Turn, Spending
  <1>8. Counted'
    BY <1>1, <1>3, <1>4, FactorsApart DEF LoginInv, Counted
  <1>9. Consumed' /\ Carried' /\ ChallengeApart'
    BY <1>1, <1>2 DEF LoginInv, Consumed, Carried, ChallengeApart, Turn
  <1> QED
    BY <1>5, <1>7, <1>8, <1>9 DEF LoginInv

(* The first confirmation activates the method; nothing was accepted yet.  *)
LEMMA ActivateStep == ASSUME LoginInv, NEW h \in LoginHandlers, L!Activate(h) PROVE LoginInv'
  <1> DEFINE f == loginHand[h].fac
  <1>1. /\ UNCHANGED <<challenge, opened, forgotten, clock>> /\ UNCHANGED L!password
        /\ f \in Totp /\ L!Finish(h)
    BY LoginData DEF L!Activate, Ready
  <1>2. Turn(h) /\ Ready(loginHand'[h]) /\ loginHand'[h].pc = "idle"
    BY <1>1, FinishTurn, LoginData
  <1>3. Consumed' /\ Carried' /\ ChallengeApart'
    BY <1>1, <1>2 DEF LoginInv, Consumed, Carried, ChallengeApart, Turn
  <1>4. CASE UNCHANGED L!factor
    <2>1. UNCHANGED <<method, codes, uses>>
      BY <1>4 DEF L!factor
    <2>2. LoginTypes'
      BY <1>1, <1>2, <2>1, TurnTyped, LoginData DEF GhostsOK
    <2>3. FactorHeld' /\ FactorApart' /\ Counted'
      BY <1>1, <1>2, <2>1 DEF LoginInv, FactorHeld, FactorApart, Counted, Turn, Spending
    <2> QED
      BY <1>3, <2>2, <2>3 DEF LoginInv
  <1>5. CASE ~method.verified /\ ~UNCHANGED L!factor
    <2>1. /\ method' = [method EXCEPT !.verified = TRUE, !.last = f[2]]
          /\ codes' = Codes /\ uses' = [uses EXCEPT ![f] = @ + 1]
      BY <1>5 DEF L!Activate
    <2>2. f[2] \in L!Periods /\ f \in L!Factors /\ f \notin Codes
      BY <1>1, FactorsApart
    <2>3. method' \in MethodRow /\ method'.last = f[2] /\ method'.verified
      BY <2>1, <2>2, LoginData DEF MethodRow
    <2>4. \A e \in L!Factors : uses[e] = 0
      BY <1>5 DEF LoginInv, Counted
    <2>5. uses' \in [L!Factors -> Nat] /\ uses'[f] = 1 /\ \A e \in L!Factors \ {f} : uses'[e] = 0
      BY <2>1, <2>2, <2>4, LoginData DEF GhostsOK
    <2>6. LoginTypes'
      BY <1>1, <1>2, <2>1, <2>3, <2>5, TurnTyped, LoginData DEF GhostsOK
    <2>7. \A g \in LoginHandlers : loginHand[g].pc \notin Spending
      BY <1>5 DEF LoginInv, FactorHeld
    <2>8. FactorHeld' /\ FactorApart'
      BY <1>2, <2>7 DEF FactorHeld, FactorApart, Turn, Spending
    <2>9. Counted'
      BY <2>2, <2>3, <2>5, FactorsApart, PeriodsOrdered DEF Counted
    <2> QED
      BY <1>3, <2>6, <2>8, <2>9 DEF LoginInv
  <1> QED
    BY <1>4, <1>5 DEF L!Activate

(* Time passes: a period, a lock, a window, a challenge.                   *)
LEMMA TimeStep ==
    ASSUME LoginInv,
           \/ L!Tick \/ L!LockLapses \/ L!WindowEnds
           \/ \E c \in Challenges : L!ChallengeExpires(c)
    PROVE  LoginInv'
  <1>1. UNCHANGED <<method, codes, uses, loginHand, opened, forgotten>>
    BY DEF L!Tick, L!LockLapses, L!WindowEnds, L!ChallengeExpires, L!factor
  <1>2. PasswordOK /\ clock \in 0..MaxClock /\ LoginTypes
    BY LoginTyped DEF LoginInv, LoginTypes
  <1>3. PasswordOK'
    BY <1>2, LoginAssumption
    DEF L!Tick, L!LockLapses, L!WindowEnds, L!ChallengeExpires, L!password, PasswordOK
  <1>4. clock' \in 0..MaxClock
    BY <1>2, LoginAssumption DEF L!Tick, L!LockLapses, L!WindowEnds, L!ChallengeExpires
  <1>5. Steady
    <2>1. CASE \E c \in Challenges : L!ChallengeExpires(c)
      BY <2>1, LoginData DEF L!ChallengeExpires, Steady, ChallengeRow
    <2>2. CASE UNCHANGED challenge
      BY <2>2, UnchangedSteady
    <2> QED
      BY <2>1, <2>2 DEF L!Tick, L!LockLapses, L!WindowEnds
  <1>6. LoginTypes'
    BY <1>1, <1>2, <1>3, <1>4, <1>5
    DEF LoginTypes, Steady, L!TypeOK, PasswordOK, ChallengeRow, GhostsOK, LoginRequests
  <1>7. FactorHeld' /\ FactorApart' /\ Counted' /\ ChallengeApart'
    BY <1>1 DEF LoginInv, FactorHeld, FactorApart, Counted, ChallengeApart
  <1>8. Consumed'
    BY <1>1, <1>5 DEF LoginInv, Consumed, Steady
  <1>9. Carried'
    BY <1>1, <1>5, LoginData DEF LoginInv, Carried, Steady, Ready
  <1> QED
    BY <1>6, <1>7, <1>8, <1>9 DEF LoginInv

LEMMA LoginNext == LoginInv /\ [L!Next]_(L!vars) => LoginInv'
  <1> SUFFICES ASSUME LoginInv, [L!Next]_(L!vars) PROVE LoginInv'
    OBVIOUS
  <1>1. ASSUME NEW h \in LoginHandlers, L!Handle(h) PROVE LoginInv'
    <2>1. CASE \/ L!BeginLogin(h)
               \/ \E c \in Challenges, f \in L!Factors \cup {L!Wrong} : L!BeginMfa(h, c, f)
               \/ \E s \in Secrets : L!BeginEnrolment(h, s)
               \/ \E f \in L!Factors : L!BeginConfirm(h, f)
      BY <2>1, BeginRequestStep
    <2>2. CASE L!Refuse(h) \/ L!Accept(h)
      BY <2>2, PasswordStep
    <2>3. CASE L!Proceed(h) \/ L!Die(h) \/ L!Read(h) \/ L!Miss(h)
      BY <2>3, ProceedStep, DieStep, ReadStep, MissStep
    <2>4. CASE L!Use(h) \/ L!Close(h) \/ L!Commit(h) \/ L!Open(h)
      BY <2>4, UseStep, CloseStep, CommitFactorStep, OpenStep
    <2>5. CASE L!Save(h) \/ L!Activate(h)
      BY <2>5, SaveStep, ActivateStep
    <2> QED
      BY <1>1, <2>1, <2>2, <2>3, <2>4, <2>5 DEF L!Handle
  <1>2. CASE UNCHANGED L!vars
    BY <1>2
    DEF L!vars, LoginInv, LoginTypes, L!TypeOK, GhostsOK, LoginRequests, FactorHeld, FactorApart, Counted, Consumed,
        Carried, ChallengeApart
  <1> QED
    BY <1>1, <1>2, TimeStep DEF L!Next

LEMMA LoginInvariant == L!Spec => []LoginInv
  BY LoginInit, LoginNext, PTL DEF L!Spec

(* However many logins and confirmations hold it at the same time, no code *)
(* is accepted twice, except a TOTP code whose counter an enrolment has    *)
(* reset since, and no challenge opens two sessions (UsedOnce): a code is  *)
(* valid from the moment a transaction has the row to its commit.          *)
THEOREM CodesUsedOnce == L!Spec => []UsedOnce
  <1>1. ASSUME LoginInv PROVE UsedOnce
    <2>1. \A f \in L!Factors : uses[f] <= 1 \/ f \in forgotten
      BY <1>1, FactorsApart DEF LoginInv, Counted
    <2>2. \A c \in Challenges : opened[c] <= 1
      BY <1>1 DEF LoginInv, Consumed
    <2> QED
      BY <2>1, <2>2 DEF UsedOnce, L!FactorUsedOnce, L!OneSessionPerChallenge
  <1> QED
    BY <1>1, LoginInvariant, PTL

----------------------------------------------------------------------------
(* Membership.                                                             *)

Accepting == {"find", "claim", "join", "accept"}

Replacing == {"read", "delete", "wait", "insert", "replace"}

MembershipPhases == {"idle"} \cup Accepting \cup Replacing

MembershipRequest ==
    [pc : MembershipPhases, user : Users \cup {None}, actor : Users \cup {None}, inv : Invitations \cup {None},
     ids : SUBSET M!AllRoles, doomed : SUBSET M!AllRoles, disturbed : BOOLEAN]

InvitationRow ==
    [state : {"none", "PENDING", "ACCEPTED", "expired"}, for : Users \cup {None}, role : M!AllRoles \cup {None}]

LEMMA MembershipTyped ==
    M!TypeOK <=> /\ registered \subseteq Users
                 /\ founded \in BOOLEAN
                 /\ present \subseteq M!AllRoles
                 /\ roles \in [Users -> (SUBSET M!AllRoles) \cup {None}]
                 /\ invitation \in [Invitations -> InvitationRow]
                 /\ membershipHand \in [MembershipHandlers -> MembershipRequest]
  BY DEF M!TypeOK, InvitationRow, MembershipRequest, MembershipPhases, Accepting, Replacing

(* Nobody is a member, and nobody is invited, before the organization is   *)
(* founded.                                                                *)
Founding == ~founded => \A u \in Users : roles[u] = None

Invited ==
    \A i \in Invitations :
        IF invitation[i].state = "none"
        THEN invitation[i].for = None
        ELSE invitation[i].for \in Users /\ invitation[i].role \in M!AllRoles /\ founded

(* Who accepts is the invited, and is not a member while its membership is *)
(* being inserted: one transaction at a time inserts one of the same user. *)
AcceptingOK(r) ==
    r.pc \in Accepting =>
        /\ r.user \in Users /\ r.inv \in Invitations
        /\ invitation[r.inv].for = r.user
        /\ r.pc = "accept" => r.user \notin M!Members

JoinApart ==
    \A g, h \in MembershipHandlers :
        g # h /\ membershipHand[g].pc = "accept" /\ membershipHand[h].pc = "accept"
            => membershipHand[g].user # membershipHand[h].user

(* As long as no other replacement has committed, what a replacement has   *)
(* read of the member's roles is what they are.                            *)
ReplacingOK(r) ==
    r.pc \in Replacing =>
        /\ r.user \in M!Members
        /\ r.pc \in {"wait", "insert", "replace"} /\ ~r.disturbed => r.doomed = roles[r.user]
        /\ r.pc # "read" /\ ~r.disturbed /\ r.user = r.actor /\ "owner" \in roles[r.user] => "owner" \in r.ids

MembershipRequests == \A h \in MembershipHandlers : AcceptingOK(membershipHand[h]) /\ ReplacingOK(membershipHand[h])

MembershipInv == M!TypeOK /\ Founding /\ Invited /\ MembershipRequests /\ JoinApart /\ AcceptedIsMember

LEMMA IdleMembership ==
    /\ M!Idle \in MembershipRequest /\ M!Idle.pc = "idle"
    /\ AcceptingOK(M!Idle) /\ ReplacingOK(M!Idle)
  BY DEF M!Idle, M!Begun, MembershipRequest, MembershipPhases, AcceptingOK, ReplacingOK, Accepting, Replacing

LEMMA MembershipInit == M!Init => MembershipInv
  <1> SUFFICES ASSUME M!Init PROVE MembershipInv
    OBVIOUS
  <1>1. M!TypeOK
    <2>1. invitation \in [Invitations -> InvitationRow]
      BY DEF M!Init, InvitationRow
    <2>2. membershipHand \in [MembershipHandlers -> MembershipRequest]
      BY IdleMembership DEF M!Init
    <2> QED
      BY <2>1, <2>2, MembershipTyped DEF M!Init
  <1>2. Founding /\ Invited /\ JoinApart /\ AcceptedIsMember
    BY IdleMembership DEF M!Init, Founding, Invited, JoinApart, AcceptedIsMember, M!AcceptedIsMember
  <1>3. MembershipRequests
    BY IdleMembership DEF M!Init, MembershipRequests
  <1> QED
    BY <1>1, <1>2, <1>3 DEF MembershipInv

LEMMA MembershipData ==
    ASSUME MembershipInv
    PROVE  /\ registered \subseteq Users /\ founded \in BOOLEAN /\ present \subseteq M!AllRoles
           /\ roles \in [Users -> (SUBSET M!AllRoles) \cup {None}]
           /\ invitation \in [Invitations -> InvitationRow]
           /\ membershipHand \in [MembershipHandlers -> MembershipRequest]
           /\ \A h \in MembershipHandlers :
                 /\ membershipHand[h] \in MembershipRequest
                 /\ AcceptingOK(membershipHand[h])
                 /\ ReplacingOK(membershipHand[h])
  BY MembershipTyped DEF MembershipInv, MembershipRequests

(* One request moves and writes no row.                                    *)
LEMMA MoveMembership ==
    ASSUME MembershipInv, NEW h \in MembershipHandlers, NEW new \in MembershipRequest,
           membershipHand' = [membershipHand EXCEPT ![h] = new],
           AcceptingOK(new), ReplacingOK(new),
           new.pc = "accept" => \A g \in MembershipHandlers \ {h} :
               membershipHand[g].pc = "accept" => membershipHand[g].user # new.user,
           UNCHANGED <<registered, founded, present, roles, invitation>>
    PROVE  MembershipInv'
  <1>1. /\ membershipHand' \in [MembershipHandlers -> MembershipRequest]
        /\ membershipHand'[h] = new
        /\ \A g \in MembershipHandlers \ {h} : membershipHand'[g] = membershipHand[g]
    BY MembershipData
  <1>2. M!TypeOK'
    BY <1>1, MembershipData
    DEF M!TypeOK, InvitationRow, MembershipRequest, MembershipPhases, Accepting, Replacing
  <1>3. Founding' /\ Invited' /\ AcceptedIsMember'
    BY DEF MembershipInv, Founding, Invited, AcceptedIsMember, M!AcceptedIsMember, M!Members
  <1>4. MembershipRequests'
    BY <1>1, MembershipData DEF MembershipRequests, AcceptingOK, ReplacingOK, M!Members
  <1>5. JoinApart'
    BY <1>1 DEF MembershipInv, JoinApart
  <1> QED
    BY <1>2, <1>3, <1>4, <1>5 DEF MembershipInv

LEMMA AbandonMembership ==
    ASSUME MembershipInv, NEW h \in MembershipHandlers, M!Finish(h),
           UNCHANGED <<registered, founded, present, roles, invitation>>
    PROVE  MembershipInv'
  BY IdleMembership, MoveMembership DEF M!Finish

(* A request goes on as it is.                                             *)
LEMMA GotoMembership ==
    ASSUME MembershipInv, NEW h \in MembershipHandlers, NEW next \in MembershipPhases, M!Goto(h, next)
    PROVE  \E new \in MembershipRequest :
              /\ membershipHand' = [membershipHand EXCEPT ![h] = new]
              /\ new.pc = next /\ new.user = membershipHand[h].user /\ new.actor = membershipHand[h].actor
              /\ new.inv = membershipHand[h].inv /\ new.ids = membershipHand[h].ids
              /\ new.doomed = membershipHand[h].doomed /\ (new.disturbed <=> membershipHand[h].disturbed)
  <1> DEFINE mine == membershipHand[h]
             new == [mine EXCEPT !.pc = next]
  <1>1. mine \in MembershipRequest /\ membershipHand \in [MembershipHandlers -> MembershipRequest]
    BY MembershipData
  <1>2. new \in MembershipRequest
    BY <1>1 DEF MembershipRequest
  <1>3. membershipHand' = [membershipHand EXCEPT ![h] = new]
    BY <1>1 DEF M!Goto
  <1>4. /\ new.pc = next /\ new.user = mine.user /\ new.actor = mine.actor
        /\ new.inv = mine.inv /\ new.ids = mine.ids
        /\ new.doomed = mine.doomed /\ (new.disturbed <=> mine.disturbed)
    BY <1>1 DEF MembershipRequest
  <1> HIDE DEF new
  <1> QED
    BY <1>2, <1>3, <1>4

(* An invitation is accepted: up to the insertion of the membership.       *)
LEMMA BeginAcceptStep ==
    ASSUME MembershipInv, NEW h \in MembershipHandlers, NEW u \in Users, NEW i \in Invitations, M!BeginAccept(h, u, i)
    PROVE  MembershipInv'
  <1> DEFINE new == M!Begun("find", u, None, i, {})
  <1>1. /\ membershipHand' = [membershipHand EXCEPT ![h] = new] /\ invitation[i].for = u
        /\ UNCHANGED <<registered, founded, present, roles, invitation>>
    BY DEF M!BeginAccept
  <1>2. new \in MembershipRequest
    BY DEF M!Begun, MembershipRequest, MembershipPhases, Accepting
  <1>3. AcceptingOK(new) /\ ReplacingOK(new) /\ new.pc # "accept"
    BY <1>1 DEF M!Begun, AcceptingOK, ReplacingOK, Replacing
  <1> HIDE DEF new
  <1> QED
    BY <1>1, <1>2, <1>3, MoveMembership

LEMMA AcceptingStep ==
    ASSUME MembershipInv, NEW h \in MembershipHandlers, M!Find(h) \/ M!Claim(h) \/ M!Join(h)
    PROVE  MembershipInv'
  <1> DEFINE mine == membershipHand[h]
  <1>1. UNCHANGED <<registered, founded, present, roles, invitation>> /\ mine.pc \in {"find", "claim", "join"}
    BY DEF M!Find, M!Claim, M!Join
  <1>2. CASE M!Finish(h)
    BY <1>1, <1>2, AbandonMembership
  <1>3. CASE ~M!Finish(h)
    <2>1. PICK next \in {"claim", "join", "accept"} :
             /\ M!Goto(h, next)
             /\ next = "accept" =>
                    /\ mine.user \notin M!Members
                    /\ \A g \in MembershipHandlers : membershipHand[g].pc = "accept" => membershipHand[g].user # mine.user
      BY <1>3 DEF M!Find, M!Claim, M!Join
    <2>2. PICK new \in MembershipRequest :
              /\ membershipHand' = [membershipHand EXCEPT ![h] = new]
              /\ new.pc = next /\ new.user = mine.user /\ new.inv = mine.inv
      BY <2>1, GotoMembership DEF MembershipPhases, Accepting
    <2>3. AcceptingOK(new) /\ ReplacingOK(new)
      BY <1>1, <2>1, <2>2, MembershipData DEF AcceptingOK, ReplacingOK, Accepting, Replacing
    <2> QED
      BY <1>1, <2>1, <2>2, <2>3, MoveMembership
  <1> QED
    BY <1>2, <1>3

(* A replacement begins.                                                   *)
LEMMA BeginReplaceStep ==
    ASSUME MembershipInv, NEW h \in MembershipHandlers, NEW a \in Users, NEW u \in Users, NEW ids \in Asked,
           M!BeginReplace(h, a, u, ids)
    PROVE  MembershipInv'
  <1> DEFINE new == M!Begun("read", u, a, None, ids)
  <1>1. /\ membershipHand' = [membershipHand EXCEPT ![h] = new] /\ u \in M!Members
        /\ UNCHANGED <<registered, founded, present, roles, invitation>>
    BY DEF M!BeginReplace
  <1>2. new \in MembershipRequest
    BY MembershipAssumption DEF M!Begun, MembershipRequest, MembershipPhases, Replacing
  <1>3. AcceptingOK(new) /\ ReplacingOK(new) /\ new.pc # "accept"
    BY <1>1 DEF M!Begun, AcceptingOK, ReplacingOK, Accepting
  <1> HIDE DEF new
  <1> QED
    BY <1>1, <1>2, <1>3, MoveMembership

(* The owner who replaces its own roles keeps the ownership.               *)
LEMMA ReadRolesStep ==
    ASSUME MembershipInv, NEW h \in MembershipHandlers, M!Read(h) \/ M!Insert(h)
    PROVE  MembershipInv'
  <1> DEFINE mine == membershipHand[h]
  <1>1. UNCHANGED <<registered, founded, present, roles, invitation>> /\ mine.pc \in {"read", "insert"}
    BY DEF M!Read, M!Insert
  <1>2. CASE M!Finish(h)
    BY <1>1, <1>2, AbandonMembership
  <1>3. CASE ~M!Finish(h)
    <2>1. PICK next \in {"delete", "replace"} :
             /\ M!Goto(h, next)
             /\ next = "replace" => mine.pc = "insert"
             /\ next = "delete" => (mine.user = mine.actor /\ "owner" \in roles[mine.user] => "owner" \in mine.ids)
      BY <1>3 DEF M!Read, M!Insert
    <2>2. PICK new \in MembershipRequest :
              /\ membershipHand' = [membershipHand EXCEPT ![h] = new]
              /\ new.pc = next /\ new.user = mine.user /\ new.actor = mine.actor
              /\ new.ids = mine.ids /\ new.doomed = mine.doomed /\ (new.disturbed <=> mine.disturbed)
      BY <2>1, GotoMembership DEF MembershipPhases, Replacing
    <2>3. AcceptingOK(new)
      BY <2>1, <2>2 DEF AcceptingOK, Accepting
    <2>4. ReplacingOK(new)
      BY <1>1, <2>1, <2>2, MembershipData DEF ReplacingOK, Replacing
    <2> QED
      BY <1>1, <2>1, <2>2, <2>3, <2>4, MoveMembership
  <1> QED
    BY <1>2, <1>3

(* The rows to delete are those of the snapshot that are still there.      *)
LEMMA DoomStep ==
    ASSUME MembershipInv, NEW h \in MembershipHandlers, M!Delete(h) \/ M!Wait(h)
    PROVE  MembershipInv'
  <1> DEFINE mine == membershipHand[h]
  <1>1. /\ UNCHANGED <<registered, founded, present, roles, invitation>> /\ mine.pc \in {"delete", "wait"}
        /\ mine \in MembershipRequest /\ membershipHand \in [MembershipHandlers -> MembershipRequest]
        /\ ReplacingOK(mine)
    BY MembershipData DEF M!Delete, M!Wait
  <1>2. roles[mine.user] \in SUBSET M!AllRoles
    BY <1>1, MembershipData DEF ReplacingOK, Replacing, M!Members
  <1>3. PICK next \in {"wait", "insert"}, rows \in SUBSET M!AllRoles :
           /\ membershipHand' = [membershipHand EXCEPT ![h].pc = next, ![h].doomed = rows]
           /\ rows = roles[mine.user] \/ (mine.pc = "wait" /\ rows = mine.doomed \cap roles[mine.user])
    <2>1. CASE M!Delete(h)
      BY <1>2, <2>1 DEF M!Delete
    <2>2. CASE M!Wait(h)
      <3>1. mine.doomed \cap roles[mine.user] \in SUBSET M!AllRoles
        BY <1>2
      <3>2. membershipHand' = [membershipHand EXCEPT ![h].pc = "insert", ![h].doomed = mine.doomed \cap roles[mine.user]]
        BY <1>1, <2>2 DEF M!Wait, MembershipRequest
      <3> QED
        BY <2>2, <3>1, <3>2 DEF M!Wait
    <2> QED
      BY <2>1, <2>2
  <1> DEFINE new == [mine EXCEPT !.pc = next, !.doomed = rows]
  <1>4. membershipHand' = [membershipHand EXCEPT ![h] = new]
    BY <1>1, <1>3 DEF MembershipRequest
  <1>5. new \in MembershipRequest
    BY <1>1, <1>3 DEF MembershipRequest, MembershipPhases, Replacing
  <1>6. /\ new.pc = next /\ new.user = mine.user /\ new.actor = mine.actor /\ new.ids = mine.ids
        /\ new.doomed = rows /\ (new.disturbed <=> mine.disturbed)
    BY <1>1 DEF MembershipRequest
  <1> HIDE DEF new
  <1>7. AcceptingOK(new)
    BY <1>6 DEF AcceptingOK, Accepting
  <1>8. ReplacingOK(new)
    BY <1>1, <1>3, <1>6 DEF ReplacingOK, Replacing
  <1> QED
    BY <1>1, <1>4, <1>5, <1>6, <1>7, <1>8, MoveMembership

(* While the organization does not exist, nothing is under way.            *)
LEMMA NothingBeforeFounding ==
    ASSUME MembershipInv, ~founded
    PROVE  /\ \A h \in MembershipHandlers : membershipHand[h].pc \notin Accepting \cup Replacing
           /\ \A i \in Invitations : invitation[i].state = "none"
           /\ M!Members = {}
  <1>1. \A i \in Invitations : invitation[i].state = "none" /\ invitation[i].for = None
    BY DEF MembershipInv, Invited
  <1>2. M!Members = {}
    BY DEF MembershipInv, Founding, M!Members
  <1>3. ASSUME NEW h \in MembershipHandlers PROVE membershipHand[h].pc \notin Accepting \cup Replacing
    BY <1>1, <1>2, MembershipData, MembershipAssumption DEF AcceptingOK, ReplacingOK
  <1> QED
    BY <1>1, <1>2, <1>3

LEMMA FoundStep ==
    ASSUME MembershipInv, NEW u \in Users, M!Found(u), registered' \subseteq Users, UNCHANGED <<invitation, membershipHand>>
    PROVE  MembershipInv'
  <1>1. /\ ~founded /\ founded' = TRUE /\ present' = M!SystemRoles /\ roles' = [roles EXCEPT ![u] = {"owner"}]
        /\ M!SystemRoles \subseteq M!AllRoles /\ {"owner"} \in SUBSET M!AllRoles
    BY DEF M!Found, M!SystemRoles, M!AllRoles
  <1>2. M!TypeOK'
    <2>1. roles' \in [Users -> (SUBSET M!AllRoles) \cup {None}]
      BY <1>1, MembershipData
    <2> QED
      BY <1>1, <2>1, MembershipData
      DEF M!TypeOK, InvitationRow, MembershipRequest, MembershipPhases, Accepting, Replacing
  <1>3. Founding' /\ Invited'
    BY <1>1, NothingBeforeFounding DEF MembershipInv, Founding, Invited
  <1>4. MembershipRequests'
    BY <1>1, NothingBeforeFounding DEF MembershipRequests, AcceptingOK, ReplacingOK
  <1>5. JoinApart' /\ AcceptedIsMember'
    BY <1>1, NothingBeforeFounding DEF MembershipInv, JoinApart, AcceptedIsMember, M!AcceptedIsMember
  <1> QED
    BY <1>2, <1>3, <1>4, <1>5 DEF MembershipInv

LEMMA RegisterStep ==
    ASSUME MembershipInv, NEW u \in Users, M!Register(u) \/ M!CreateOrganization(u)
    PROVE  MembershipInv'
  <1>1. UNCHANGED <<invitation, membershipHand>> /\ registered' \subseteq Users
    BY MembershipData DEF M!Register, M!CreateOrganization
  <1>2. CASE M!Found(u)
    BY <1>1, <1>2, FoundStep
  <1>3. CASE UNCHANGED <<founded, present, roles>>
    <2>1. M!TypeOK'
      BY <1>1, <1>3 DEF M!TypeOK, MembershipInv
    <2>2. Founding' /\ Invited' /\ MembershipRequests' /\ JoinApart' /\ AcceptedIsMember'
      BY <1>1, <1>3
      DEF MembershipInv, Founding, Invited, MembershipRequests, AcceptingOK, ReplacingOK, JoinApart,
          AcceptedIsMember, M!AcceptedIsMember, M!Members
    <2> QED
      BY <2>1, <2>2 DEF MembershipInv
  <1> QED
    BY <1>2, <1>3 DEF M!Register, M!CreateOrganization

LEMMA CreateRoleStep ==
    ASSUME MembershipInv, NEW a \in Users, NEW key \in Custom, M!CreateRole(a, key)
    PROVE  MembershipInv'
  <1>1. present' \subseteq M!AllRoles /\ UNCHANGED <<registered, founded, roles, invitation, membershipHand>>
    BY MembershipData DEF M!CreateRole, M!AllRoles
  <1>2. M!TypeOK'
    BY <1>1 DEF M!TypeOK, MembershipInv
  <1>3. Founding' /\ Invited' /\ MembershipRequests' /\ JoinApart' /\ AcceptedIsMember'
    BY <1>1
    DEF MembershipInv, Founding, Invited, MembershipRequests, AcceptingOK, ReplacingOK, JoinApart,
        AcceptedIsMember, M!AcceptedIsMember, M!Members
  <1> QED
    BY <1>2, <1>3 DEF MembershipInv

(* An invitation is written or expires: only one nobody accepts is written.*)
LEMMA InvitationStep ==
    ASSUME MembershipInv,
           \/ \E a, u \in Users, i \in Invitations, role \in UNION Asked : M!Invite(a, i, u, role)
           \/ \E i \in Invitations : M!Expire(i)
    PROVE  MembershipInv'
  <1>1. PICK i \in Invitations, new \in InvitationRow :
           /\ invitation' = [invitation EXCEPT ![i] = new]
           /\ new.state \in {"PENDING", "expired"} /\ new.for \in Users /\ new.role \in M!AllRoles /\ founded
           /\ invitation[i].state \in {"none", "PENDING"}
           /\ invitation[i].state = "PENDING" => new.for = invitation[i].for
           /\ UNCHANGED <<registered, founded, present, roles, membershipHand>>
    <2>1. CASE \E a, u \in Users, i \in Invitations, role \in UNION Asked : M!Invite(a, i, u, role)
      <3>1. PICK a \in Users, u \in Users, i \in Invitations, role \in UNION Asked : M!Invite(a, i, u, role)
        BY <2>1
      <3> DEFINE new == [state |-> "PENDING", for |-> u, role |-> role]
      <3>2. founded
        BY <3>1 DEF M!Invite, M!Authorized, M!Members, MembershipInv, Founding
      <3>3. role \in M!AllRoles
        BY MembershipAssumption
      <3>4. new \in InvitationRow /\ new.state = "PENDING" /\ new.for = u /\ new.role = role
        BY <3>3 DEF InvitationRow
      <3>5. /\ invitation' = [invitation EXCEPT ![i] = new] /\ invitation[i].state = "none"
            /\ UNCHANGED <<registered, founded, present, roles, membershipHand>>
        BY <3>1 DEF M!Invite
      <3> HIDE DEF new
      <3> QED
        BY <3>2, <3>3, <3>4, <3>5
    <2>2. CASE \E i \in Invitations : M!Expire(i)
      <3>1. PICK i \in Invitations : M!Expire(i)
        BY <2>2
      <3> DEFINE new == [invitation[i] EXCEPT !.state = "expired"]
      <3>2. invitation[i] \in InvitationRow /\ invitation \in [Invitations -> InvitationRow]
        BY MembershipData
      <3>3. /\ invitation' = [invitation EXCEPT ![i] = new] /\ invitation[i].state = "PENDING"
            /\ UNCHANGED <<registered, founded, present, roles, membershipHand>>
        BY <3>1, <3>2 DEF M!Expire
      <3>4. new \in InvitationRow /\ new.state = "expired" /\ new.for = invitation[i].for /\ new.role = invitation[i].role
        BY <3>2 DEF InvitationRow
      <3>5. invitation[i].for \in Users /\ invitation[i].role \in M!AllRoles /\ founded
        BY <3>3 DEF MembershipInv, Invited
      <3> HIDE DEF new
      <3> QED
        BY <3>3, <3>4, <3>5
    <2> QED
      BY <2>1, <2>2
  <1>2. /\ invitation' \in [Invitations -> InvitationRow] /\ invitation'[i] = new
        /\ \A j \in Invitations \ {i} : invitation'[j] = invitation[j]
    BY <1>1, MembershipData
  <1>3. M!TypeOK'
    BY <1>1, <1>2, MembershipData
    DEF M!TypeOK, InvitationRow, MembershipRequest, MembershipPhases, Accepting, Replacing
  <1>4. Founding' /\ JoinApart'
    BY <1>1 DEF MembershipInv, Founding, JoinApart
  <1>5. Invited'
    BY <1>1, <1>2 DEF MembershipInv, Invited
  <1>6. AcceptedIsMember'
    BY <1>1, <1>2 DEF MembershipInv, AcceptedIsMember, M!AcceptedIsMember, M!Members
  <1>7. invitation[i].state = "none" => invitation[i].for = None
    BY DEF MembershipInv, Invited
  <1>8. ASSUME NEW h \in MembershipHandlers PROVE AcceptingOK(membershipHand[h])' /\ ReplacingOK(membershipHand[h])'
    BY <1>1, <1>2, <1>7, MembershipData, MembershipAssumption DEF AcceptingOK, ReplacingOK, M!Members
  <1> QED
    BY <1>3, <1>4, <1>5, <1>6, <1>8 DEF MembershipInv, MembershipRequests

(* The invitation is used up with the membership it leads to.              *)
LEMMA AcceptStep == ASSUME MembershipInv, NEW h \in MembershipHandlers, M!Accept(h) PROVE MembershipInv'
  <1> DEFINE u == membershipHand[h].user
             i == membershipHand[h].inv
             first == {invitation[i].role}
  <1>1. /\ u \in Users /\ i \in Invitations /\ invitation[i].for = u /\ u \notin M!Members
        /\ membershipHand[h].pc = "accept"
        /\ UNCHANGED <<registered, founded, present>>
    BY MembershipData DEF M!Accept, AcceptingOK, Accepting
  <1>2. invitation[i].role \in M!AllRoles /\ founded
    BY <1>1, MembershipAssumption DEF MembershipInv, Invited
  <1>3. first \in SUBSET M!AllRoles /\ first # None
    BY <1>2, MembershipAssumption
  <1>4. /\ roles' = [roles EXCEPT ![u] = first] /\ invitation' = [invitation EXCEPT ![i].state = "ACCEPTED"]
        /\ membershipHand' = [membershipHand EXCEPT ![h] = M!Idle]
    BY DEF M!Accept, M!Finish
  <1> HIDE DEF first
  <1>5. /\ roles' \in [Users -> (SUBSET M!AllRoles) \cup {None}] /\ roles'[u] = first
        /\ \A v \in Users \ {u} : roles'[v] = roles[v]
    BY <1>1, <1>3, <1>4, MembershipData
  <1>6. /\ invitation' \in [Invitations -> InvitationRow]
        /\ invitation'[i].state = "ACCEPTED" /\ invitation'[i].for = u /\ invitation'[i].role = invitation[i].role
        /\ \A j \in Invitations \ {i} : invitation'[j] = invitation[j]
    BY <1>1, <1>4, MembershipData DEF InvitationRow
  <1>7. /\ membershipHand' \in [MembershipHandlers -> MembershipRequest] /\ membershipHand'[h] = M!Idle
        /\ \A g \in MembershipHandlers \ {h} : membershipHand'[g] = membershipHand[g]
    BY <1>4, MembershipData, IdleMembership
  <1> HIDE DEF u, i
  <1>8. M!Members' = M!Members \cup {u}
    BY <1>1, <1>3, <1>5 DEF M!Members
  <1>9. M!TypeOK'
    BY <1>1, <1>5, <1>6, <1>7, MembershipData
    DEF M!TypeOK, InvitationRow, MembershipRequest, MembershipPhases, Accepting, Replacing
  <1>10. Founding'
    BY <1>1, <1>2 DEF Founding
  <1>11. Invited'
    BY <1>1, <1>2, <1>6 DEF MembershipInv, Invited
  <1>12. JoinApart'
    BY <1>7, IdleMembership DEF MembershipInv, JoinApart
  <1>13. AcceptedIsMember'
    BY <1>1, <1>6, <1>8 DEF MembershipInv, AcceptedIsMember, M!AcceptedIsMember
  <1>14. \A g \in MembershipHandlers \ {h} : membershipHand[g].pc = "accept" => membershipHand[g].user # u
    BY <1>1 DEF MembershipInv, JoinApart, u
  <1>15. ASSUME NEW g \in MembershipHandlers PROVE AcceptingOK(membershipHand[g])' /\ ReplacingOK(membershipHand[g])'
    <2>1. CASE g = h
      BY <1>7, <2>1, IdleMembership DEF AcceptingOK, ReplacingOK, Accepting, Replacing
    <2>2. CASE g # h
      <3>1. AcceptingOK(membershipHand[g])'
        BY <1>1, <1>6, <1>7, <1>8, <1>14, <2>2, MembershipData DEF AcceptingOK
      <3>2. ReplacingOK(membershipHand[g])'
        BY <1>1, <1>5, <1>7, <1>8, <2>2, MembershipData DEF ReplacingOK, M!Members
      <3> QED
        BY <3>1, <3>2
    <2> QED
      BY <2>1, <2>2
  <1> QED
    BY <1>9, <1>10, <1>11, <1>12, <1>13, <1>15 DEF MembershipInv, MembershipRequests

(* Whoever replaces the roles of the same member has been disturbed.       *)
LEMMA ReplaceTurn ==
    ASSUME MembershipInv, NEW h \in MembershipHandlers, M!Replace(h)
    PROVE  /\ membershipHand' \in [MembershipHandlers -> MembershipRequest] /\ membershipHand'[h] = M!Idle
           /\ \A g \in MembershipHandlers \ {h} :
                 /\ membershipHand'[g].pc = membershipHand[g].pc
                 /\ membershipHand'[g].user = membershipHand[g].user
                 /\ membershipHand'[g].actor = membershipHand[g].actor
                 /\ membershipHand'[g].inv = membershipHand[g].inv
                 /\ membershipHand'[g].ids = membershipHand[g].ids
                 /\ membershipHand'[g].doomed = membershipHand[g].doomed
                 /\ ~membershipHand'[g].disturbed =>
                       ~membershipHand[g].disturbed /\ membershipHand[g].user # membershipHand[h].user
  <1>1. ASSUME NEW g \in MembershipHandlers \ {h}
        PROVE  /\ membershipHand'[g] \in MembershipRequest
               /\ membershipHand'[g].pc = membershipHand[g].pc
               /\ membershipHand'[g].user = membershipHand[g].user
               /\ membershipHand'[g].actor = membershipHand[g].actor
               /\ membershipHand'[g].inv = membershipHand[g].inv
               /\ membershipHand'[g].ids = membershipHand[g].ids
               /\ membershipHand'[g].doomed = membershipHand[g].doomed
               /\ ~membershipHand'[g].disturbed =>
                     ~membershipHand[g].disturbed /\ membershipHand[g].user # membershipHand[h].user
    <2> DEFINE mine == membershipHand[g]
               now == mine.disturbed \/ g \in M!Others(h)
    <2>1. mine \in MembershipRequest
      BY MembershipData
    <2>2. membershipHand'[g] = [mine EXCEPT !.disturbed = now]
      BY DEF M!Replace
    <2>3. now \in BOOLEAN /\ (~now => ~mine.disturbed /\ mine.user # membershipHand[h].user)
      BY DEF M!Others
    <2> HIDE DEF now, mine
    <2>4. [mine EXCEPT !.disturbed = now] \in MembershipRequest
      BY <2>1, <2>3 DEF MembershipRequest
    <2>5. /\ membershipHand'[g].pc = mine.pc /\ membershipHand'[g].user = mine.user
          /\ membershipHand'[g].actor = mine.actor /\ membershipHand'[g].inv = mine.inv
          /\ membershipHand'[g].ids = mine.ids /\ membershipHand'[g].doomed = mine.doomed
          /\ membershipHand'[g].disturbed = now
      BY <2>1, <2>2 DEF MembershipRequest
    <2> QED
      BY <2>2, <2>3, <2>4, <2>5 DEF mine
  <1>2. membershipHand'[h] = M!Idle
    BY DEF M!Replace
  <1>3. membershipHand' \in [MembershipHandlers -> MembershipRequest]
    BY <1>1, <1>2, IdleMembership DEF M!Replace
  <1> QED
    BY <1>1, <1>2, <1>3

LEMMA ReplaceStep == ASSUME MembershipInv, NEW h \in MembershipHandlers, M!Replace(h) PROVE MembershipInv'
  <1> DEFINE u == membershipHand[h].user
             left == (roles[u] \ membershipHand[h].doomed) \cup membershipHand[h].ids
  <1>1. /\ membershipHand[h].pc = "replace" /\ u \in M!Members /\ u \in Users
        /\ UNCHANGED <<registered, founded, present, invitation>>
        /\ membershipHand[h].ids \in SUBSET M!AllRoles
    BY MembershipData DEF M!Replace, ReplacingOK, Replacing, M!Members, MembershipRequest
  <1>2. roles[u] \in SUBSET M!AllRoles
    BY <1>1, MembershipData DEF M!Members
  <1>3. left \in SUBSET M!AllRoles /\ left # None
    BY <1>1, <1>2, MembershipAssumption
  <1>4. roles' = [roles EXCEPT ![u] = left]
    BY DEF M!Replace
  <1> HIDE DEF left
  <1>5. /\ roles' \in [Users -> (SUBSET M!AllRoles) \cup {None}]
        /\ \A v \in Users \ {u} : roles'[v] = roles[v]
        /\ M!Members' = M!Members
    BY <1>1, <1>3, <1>4, MembershipData DEF M!Members
  <1>6. M!TypeOK'
    BY <1>1, <1>5, ReplaceTurn, MembershipData
    DEF M!TypeOK, InvitationRow, MembershipRequest, MembershipPhases, Accepting, Replacing
  <1>7. Founding' /\ Invited' /\ AcceptedIsMember'
    BY <1>1, <1>5 DEF MembershipInv, Founding, Invited, AcceptedIsMember, M!AcceptedIsMember, M!Members
  <1>8. JoinApart'
    BY ReplaceTurn, IdleMembership DEF MembershipInv, JoinApart
  <1>9. ASSUME NEW g \in MembershipHandlers PROVE AcceptingOK(membershipHand[g])' /\ ReplacingOK(membershipHand[g])'
    <2>1. CASE g = h
      BY <2>1, ReplaceTurn, IdleMembership DEF AcceptingOK, ReplacingOK, Accepting, Replacing
    <2>2. CASE g # h
      <3>1. AcceptingOK(membershipHand[g])'
        BY <1>1, <1>5, <2>2, ReplaceTurn, MembershipData DEF AcceptingOK
      <3>2. ReplacingOK(membershipHand[g])'
        BY <1>1, <1>5, <2>2, ReplaceTurn, MembershipData DEF ReplacingOK, M!Members
      <3> QED
        BY <3>1, <3>2
    <2> QED
      BY <2>1, <2>2
  <1> QED
    BY <1>6, <1>7, <1>8, <1>9 DEF MembershipInv, MembershipRequests

LEMMA MembershipNext == MembershipInv /\ [M!Next]_(M!vars) => MembershipInv'
  <1> SUFFICES ASSUME MembershipInv, [M!Next]_(M!vars) PROVE MembershipInv'
    OBVIOUS
  <1>1. ASSUME NEW h \in MembershipHandlers, M!Handle(h) PROVE MembershipInv'
    <2>1. ASSUME M!Abort(h) PROVE MembershipInv'
      BY <2>1, AbandonMembership DEF M!Abort
    <2> QED
      BY <1>1, <2>1, BeginAcceptStep, AcceptingStep, AcceptStep, BeginReplaceStep, ReadRolesStep, DoomStep, ReplaceStep
      DEF M!Handle
  <1>2. CASE UNCHANGED M!vars
    BY <1>2
    DEF M!vars, MembershipInv, M!TypeOK, Founding, Invited, MembershipRequests, AcceptingOK, ReplacingOK, JoinApart,
        AcceptedIsMember, M!AcceptedIsMember, M!Members
  <1> QED
    BY <1>1, <1>2, RegisterStep, CreateRoleStep, InvitationStep DEF M!Next

LEMMA MembershipInvariant == M!Spec => []MembershipInv
  BY MembershipInit, MembershipNext, PTL DEF M!Spec

(* Whoever accepted an invitation is a member, and nobody has used two,    *)
(* though all of a user's invitations are accepted at the same time        *)
(* (AcceptedIsMember): the membership is inserted by one of them at a time.*)
THEOREM AcceptedMember == M!Spec => []AcceptedIsMember
  <1>1. MembershipInv => AcceptedIsMember
    BY DEF MembershipInv
  <1> QED
    BY <1>1, MembershipInvariant, PTL

(* The replacement that ends is the one that wrote: what it deleted was    *)
(* all there was, and it was asked to leave an owner its ownership.        *)
LEMMA AskedStep ==
    ASSUME MembershipInv, [M!Next]_(M!vars), NEW h \in MembershipHandlers,
           membershipHand[h].pc = "replace", membershipHand'[h].pc = "idle", roles' # roles, ~membershipHand[h].disturbed
    PROVE  LET u == membershipHand[h].user IN
           /\ roles'[u] = membershipHand[h].ids
           /\ u = membershipHand[h].actor /\ "owner" \in roles[u] => "owner" \in roles'[u]
  <1>1. CASE M!Replace(h)
    <2> DEFINE u == membershipHand[h].user
    <2>1. u \in Users /\ roles \in [Users -> (SUBSET M!AllRoles) \cup {None}]
      BY MembershipData DEF ReplacingOK, Replacing, M!Members
    <2>2. /\ membershipHand[h].doomed = roles[u]
          /\ u = membershipHand[h].actor /\ "owner" \in roles[u] => "owner" \in membershipHand[h].ids
      BY MembershipData DEF ReplacingOK, Replacing
    <2>3. roles'[u] = (roles[u] \ membershipHand[h].doomed) \cup membershipHand[h].ids
      BY <1>1, <2>1 DEF M!Replace
    <2>4. roles'[u] = membershipHand[h].ids
      BY <2>2, <2>3
    <2> QED
      BY <2>2, <2>4
  <1>2. CASE ~M!Replace(h)
    <2>1. ASSUME NEW g \in MembershipHandlers, g # h, M!Accept(g) \/ M!Replace(g) PROVE FALSE
      <3>1. CASE M!Accept(g)
        BY <2>1, <3>1, MembershipData DEF M!Accept, M!Finish
      <3>2. CASE M!Replace(g)
        BY <2>1, <3>2, ReplaceTurn
      <3> QED
        BY <2>1, <3>1, <3>2
    <2>2. ~M!Accept(h)
      BY DEF M!Accept
    <2>3. ASSUME NEW g \in MembershipHandlers, M!Handle(g) PROVE FALSE
      BY <1>2, <2>1, <2>2, <2>3
      DEF M!Handle, M!BeginAccept, M!Find, M!Claim, M!Join, M!BeginReplace, M!Read, M!Delete, M!Wait, M!Insert, M!Abort
    <2>4. membershipHand' # membershipHand
      OBVIOUS
    <2> QED
      BY <2>3, <2>4 DEF M!Next, M!vars, M!Register, M!CreateOrganization, M!CreateRole, M!Invite, M!Expire
  <1> QED
    BY <1>1, <1>2

(* An undisturbed replacement leaves exactly the roles it names, and the   *)
(* actor's own ownership (ReplacedAsAsked).                                *)
THEOREM ReplacedAsked == M!Spec => ReplacedAsAsked
  <1>1. ASSUME MembershipInv, [M!Next]_(M!vars)
        PROVE  [\A h \in MembershipHandlers :
                   membershipHand[h].pc = "replace" /\ roles' # roles /\ membershipHand'[h].pc = "idle"
                       /\ ~membershipHand[h].disturbed
                   => LET u == membershipHand[h].user IN
                      /\ roles'[u] = membershipHand[h].ids
                      /\ u = membershipHand[h].actor /\ "owner" \in roles[u] => "owner" \in roles'[u]]_(M!vars)
    BY <1>1, AskedStep
  <1> QED
    BY <1>1, MembershipInvariant, PTL DEF M!Spec, ReplacedAsAsked, M!ReplacedAsAsked

(* Every behaviour of the scenes is one of each component, which the       *)
(* others leave alone: what is proved of a component holds in the scenes.  *)
LEMMA Scenes == IdentitySpec => Spec /\ L!Spec /\ M!Spec
  <1>1. IdentityInit => Init /\ L!Init /\ M!Init
    BY DEF IdentityInit
  <1>2. [IdentityNext]_identityVars
           => [Next]_vars /\ [L!Next]_(L!vars) /\ [M!Next]_(M!vars)
    BY DEF IdentityNext, identityVars, sessionVars, loginVars, membershipVars, vars, L!vars, M!vars
  <1> QED
    BY <1>1, <1>2, PTL DEF IdentitySpec, Spec, L!Spec, M!Spec

(* The rows and the requests of the three components keep their types; a   *)
(* credential is locked exactly at the limit of failures.                  *)
THEOREM IdentityTyped == IdentitySpec => []IdentityTypesOK
  <1>1. LoginInv => L!TypeOK
    BY DEF LoginInv, LoginTypes
  <1>2. MembershipInv => M!TypeOK
    BY DEF MembershipInv
  <1>3. TypeOK /\ L!TypeOK /\ M!TypeOK => IdentityTypesOK
    BY DEF IdentityTypesOK
  <1> QED
    BY <1>1, <1>2, <1>3, Scenes, TypeCorrect, LoginInvariant, MembershipInvariant, PTL
=============================================================================
