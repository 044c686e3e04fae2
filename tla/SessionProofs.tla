---------------------------- MODULE SessionProofs ----------------------------
(***************************************************************************)
(* Proofs about Session, for any sessions, tokens and requests.  The       *)
(* argument: a rotation that has consumed a token holds its row, and the   *)
(* row of the session once it has chosen a successor; a revocation that    *)
(* has reached its session rows keeps rotations from committing into them, *)
(* so that the tokens it sees afterwards are all there will ever be, and   *)
(* it waits for those a rotation holds.                                    *)
(***************************************************************************)
EXTENDS Session, TLAPS

Refreshing == {"judge", "consume", "touch", "commit"}
Revokes    == {"revoke", "sweep", "kill", "seal"}

(* A token belongs to a session that was opened.                           *)
Exists == \A t \in Tokens : token[t].of # None => session[token[t].of] # "none"

(* A refresh knows its token, and from the first read on that of a row.    *)
Presented ==
    \A r \in Requests :
      /\ req[r].pc = "find" => req[r].tok \in Tokens
      /\ req[r].pc \in Refreshing => req[r].tok \in Tokens /\ token[req[r].tok].of # None

(* A consumed token stays what it was until its rotation commits.          *)
ParentLive == \A r \in Requests : req[r].pc \in {"touch", "commit"} => Live(req[r].tok)

(* A successor is nobody else's.                                           *)
ChildFresh ==
    \A r \in Requests : req[r].pc = "commit" =>
      /\ req[r].child \in Tokens /\ token[req[r].child].of = None
      /\ \A q \in Requests \ {r} : req[q].child # req[r].child

(* The row of a token is locked by one transaction at a time.              *)
OneHolder ==
    \A q, r \in Requests, t \in Tokens : HoldsToken(q, t) /\ HoldsToken(r, t) => q = r

VictimsExist == \A r \in Requests : \A s \in req[r].victims : session[s] # "none"

(* No rotation commits into a session whose row a revocation has locked.   *)
Apart ==
    \A q, r \in Requests :
      req[q].pc \in {"sweep", "kill", "seal"} /\ req[r].pc = "commit"
        => token[req[r].tok].of \notin req[q].victims

(* A revocation that has read the tokens has all the living ones.          *)
Covered ==
    \A r \in Requests : req[r].pc \in {"kill", "seal"} =>
      \A t \in Tokens : Live(t) /\ token[t].of \in req[r].victims => t \in req[r].targets

(* What a log-out of all sessions owes is among its victims or done.       *)
OwedOK ==
    \A r \in Requests :
      /\ req[r].pc \in {"idle", "find", "judge", "consume"} => req[r].owed = {}
      /\ \A s \in req[r].owed : session[s] # "none"
      /\ req[r].pc \in Revokes => \A s \in req[r].owed : s \in req[r].victims \/ session[s] = "revoked"

IInv ==
    /\ TypeOK /\ Exists /\ Presented /\ ParentLive /\ ChildFresh /\ OneHolder
    /\ VictimsExist /\ Apart /\ Covered /\ OwedOK
    /\ OneLiveToken /\ RevokedIsDead /\ AnswersAreTrue

LEMMA InitInv == Init => IInv
  BY SessionAssumption
  DEF Init, Idle, IInv, TypeOK, Steps, Answers, Exists, Presented, Refreshing, Revokes, ParentLive,
      ChildFresh, OneHolder, HoldsToken, VictimsExist, Apart, Covered, OwedOK, OneLiveToken,
      RevokedIsDead, LiveOf, Live, AnswersAreTrue

----------------------------------------------------------------------------
(* The three ways a request goes on.                                       *)

Request ==
    [pc : Steps, tok : Tokens \cup {None}, child : Tokens \cup {None},
     victims : SUBSET Sessions, targets : SUBSET Tokens, owed : SUBSET Sessions, answer : Answers]

LEMMA Typed ==
    ASSUME TypeOK, NEW r \in Requests, NEW new \in Request, req' = [req EXCEPT ![r] = new],
           UNCHANGED <<session, token, member>>
    PROVE  TypeOK'
  BY DEF TypeOK, Request

LEMMA StepTyped ==
    ASSUME TypeOK, NEW r \in Requests, NEW pc \in Steps, Step(r, pc)
    PROVE  /\ req' \in [Requests -> Request]
           /\ req'[r] = [req[r] EXCEPT !.pc = pc]
           /\ \A q \in Requests \ {r} : req'[q] = req[q]
  <1>1. req[r] \in Request /\ req \in [Requests -> Request]
    BY DEF TypeOK, Request
  <1>2. [req[r] EXCEPT !.pc = pc] \in Request
    BY <1>1 DEF Request
  <1>3. req' = [req EXCEPT ![r] = [req[r] EXCEPT !.pc = pc]]
    BY <1>1 DEF Step
  <1> QED
    BY <1>1, <1>2, <1>3

LEMMA AnswerTyped ==
    ASSUME TypeOK, NEW r \in Requests, NEW answer \in Answers, Answer(r, answer)
    PROVE  /\ req' \in [Requests -> Request]
           /\ req'[r] = [req[r] EXCEPT !.pc = "done", !.answer = answer, !.child = None, !.targets = {}]
           /\ \A q \in Requests \ {r} : req'[q] = req[q]
  <1>1. req[r] \in Request /\ req \in [Requests -> Request] /\ "done" \in Steps
    BY DEF TypeOK, Request, Steps
  <1>2. [req[r] EXCEPT !.pc = "done", !.answer = answer, !.child = None, !.targets = {}] \in Request
    BY <1>1 DEF Request
  <1>3. req' = [req EXCEPT ![r] = [req[r] EXCEPT !.pc = "done", !.answer = answer, !.child = None,
                                                 !.targets = {}]]
    BY <1>1 DEF Answer
  <1> QED
    BY <1>1, <1>2, <1>3

LEMMA RevokingTyped ==
    ASSUME TypeOK, NEW r \in Requests, NEW victims \in SUBSET Sessions, NEW answer \in Answers,
           Revoking(r, victims, answer)
    PROVE  /\ req' \in [Requests -> Request]
           /\ req'[r] = [req[r] EXCEPT !.pc = "revoke", !.victims = victims, !.answer = answer]
           /\ \A q \in Requests \ {r} : req'[q] = req[q]
  <1>1. req[r] \in Request /\ req \in [Requests -> Request] /\ "revoke" \in Steps
    BY DEF TypeOK, Request, Steps
  <1>2. [req[r] EXCEPT !.pc = "revoke", !.victims = victims, !.answer = answer] \in Request
    BY <1>1 DEF Request
  <1>3. req' = [req EXCEPT ![r] = [req[r] EXCEPT !.pc = "revoke", !.victims = victims, !.answer = answer]]
    BY <1>1 DEF Revoking
  <1> QED
    BY <1>1, <1>2, <1>3

----------------------------------------------------------------------------
(* Steps that write no row.                                                *)

LEMMA Unwritten ==
    ASSUME UNCHANGED <<session, token>>
    PROVE  /\ \A t : Live(t)' <=> Live(t)
           /\ Exists => Exists'
           /\ OneLiveToken => OneLiveToken'
           /\ RevokedIsDead => RevokedIsDead'
  BY DEF Live, Exists, OneLiveToken, RevokedIsDead, LiveOf

LEMMA ConsumeStep ==
    ASSUME IInv, NEW r \in Requests, Consume(r)
    PROVE  IInv'
  <1>1. UNCHANGED <<session, token>>
    BY DEF Consume
  <1>2. TypeOK'
    BY DEF IInv, TypeOK, Consume, Step, Revoking, Steps, Answers, Presented, Refreshing
  <1>3. \A q \in Requests \ {r} : req'[q] = req[q]
    BY DEF IInv, TypeOK, Consume, Step, Revoking
  <1>4. /\ req[r].pc = "consume" /\ req[r].tok \in Tokens /\ token[req[r].tok].of # None
        /\ req[r].owed = {} /\ TokenFree(r, req[r].tok)
    BY DEF IInv, Presented, Refreshing, OwedOK, Consume
  <1>5. /\ req'[r].tok = req[r].tok /\ req'[r].owed = req[r].owed /\ req'[r].child = req[r].child
        /\ \/ Live(req[r].tok) /\ req'[r].pc = "touch" /\ req'[r].victims = req[r].victims
           \/ req'[r].pc = "revoke" /\ req'[r].victims = {token[req[r].tok].of}
    BY DEF IInv, TypeOK, Consume, Step, Revoking
  <1>6. Presented' /\ ParentLive' /\ ChildFresh'
    BY <1>1, <1>3, <1>4, <1>5, Unwritten DEF IInv, Presented, Refreshing, ParentLive, ChildFresh
  <1>7. OneHolder'
    BY <1>1, <1>3, <1>4, <1>5 DEF IInv, OneHolder, HoldsToken, TokenFree
  <1>8. VictimsExist' /\ OwedOK'
    BY <1>1, <1>3, <1>4, <1>5 DEF IInv, VictimsExist, OwedOK, Revokes, Exists
  <1>9. Apart' /\ Covered' /\ AnswersAreTrue'
    BY <1>1, <1>3, <1>4, <1>5, Unwritten DEF IInv, Apart, Covered, AnswersAreTrue
  <1> QED
    BY <1>1, <1>2, <1>6, <1>7, <1>8, <1>9, Unwritten DEF IInv

(* A request that goes on, or ends, without a lock disturbs nobody: what   *)
(* remains to be shown is about the request itself.                        *)
LEMMA Unlocked ==
    ASSUME IInv, NEW r \in Requests, UNCHANGED <<session, token>>, TypeOK',
           \A q \in Requests \ {r} : req'[q] = req[q],
           req'[r].pc \in {"find", "judge", "consume", "list", "revoke", "done"},
           req'[r].child \in {req[r].child, None},
           req'[r].pc = "find" => req'[r].tok \in Tokens,
           req'[r].pc \in {"judge", "consume"} => req'[r].tok \in Tokens /\ token[req'[r].tok].of # None,
           \A s \in req'[r].victims \cup req'[r].owed : session[s] # "none",
           req'[r].pc \in {"find", "judge", "consume"} => req'[r].owed = {},
           req'[r].pc = "revoke" => \A s \in req'[r].owed : s \in req'[r].victims \/ session[s] = "revoked",
           req'[r].pc = "done" => req'[r].answer \in {"invalid", "failed"}
    PROVE  IInv'
  <1>1. Presented' /\ ParentLive'
    BY Unwritten DEF IInv, Presented, Refreshing, ParentLive
  <1>2. ChildFresh'
    BY SessionAssumption DEF IInv, ChildFresh
  <1>3. OneHolder'
    BY DEF IInv, OneHolder, HoldsToken
  <1>4. VictimsExist' /\ OwedOK'
    BY DEF IInv, VictimsExist, OwedOK, Revokes
  <1>5. Apart' /\ Covered'
    BY Unwritten DEF IInv, Apart, Covered
  <1>6. AnswersAreTrue'
    BY DEF IInv, AnswersAreTrue
  <1> QED
    BY <1>1, <1>2, <1>3, <1>4, <1>5, <1>6, Unwritten DEF IInv

LEMMA BeginStep ==
    ASSUME IInv, NEW r \in Requests,
           \/ \E t \in Tokens : BeginRefresh(r, t)
           \/ \E a, s \in Sessions : BeginLogout(r, a, s)
           \/ \E a \in Sessions : BeginLogoutAll(r, a)
    PROVE  IInv'
  <1>1. req[r].pc = "idle" /\ req[r].owed = {} /\ \A s \in req[r].victims : session[s] # "none"
    BY DEF IInv, OwedOK, VictimsExist, BeginRefresh, BeginLogout, BeginLogoutAll
  <1>2. ASSUME NEW t \in Tokens, BeginRefresh(r, t) PROVE IInv'
    <2> DEFINE new == [req[r] EXCEPT !.pc = "find", !.tok = t]
    <2>a. req[r] \in Request /\ req \in [Requests -> Request] /\ TypeOK /\ "find" \in Steps
      BY DEF IInv, TypeOK, Request, Steps
    <2>b. new \in Request /\ req' = [req EXCEPT ![r] = new] /\ UNCHANGED <<session, token, member>>
      BY <1>2, <2>a DEF BeginRefresh, Request
    <2>1. TypeOK' /\ \A q \in Requests \ {r} : req'[q] = req[q]
      BY <2>a, <2>b, Typed
    <2>2. /\ req'[r].pc = "find" /\ req'[r].tok = t /\ UNCHANGED <<session, token>>
          /\ req'[r].child = req[r].child /\ req'[r].owed = {} /\ req'[r].victims = req[r].victims
      BY <1>1, <1>2 DEF IInv, TypeOK, BeginRefresh
    <2> QED
      BY <1>1, <2>1, <2>2, Unlocked
  <1>3. ASSUME NEW a \in Sessions, NEW s \in Sessions, BeginLogout(r, a, s) PROVE IInv'
    <2>a. "loggedOut" \in Answers /\ Revoking(r, {s}, "loggedOut") /\ TypeOK
      BY <1>3 DEF IInv, BeginLogout, Answers
    <2>1. TypeOK' /\ \A q \in Requests \ {r} : req'[q] = req[q]
      BY <1>3, <2>a, RevokingTyped DEF TypeOK, BeginLogout, Request
    <2>2. /\ req'[r].pc = "revoke" /\ UNCHANGED <<session, token>> /\ session[s] # "none"
          /\ req'[r].child = req[r].child /\ req'[r].owed = {} /\ req'[r].victims = {s}
      BY <1>1, <1>3 DEF IInv, TypeOK, BeginLogout, Revoking
    <2> QED
      BY <2>1, <2>2, Unlocked
  <1>4. ASSUME NEW a \in Sessions, BeginLogoutAll(r, a) PROVE IInv'
    <2> DEFINE active == {s \in Sessions : session[s] = "active"}
               new == [req[r] EXCEPT !.pc = "list", !.owed = active]
    <2>a. req[r] \in Request /\ req \in [Requests -> Request] /\ TypeOK /\ "list" \in Steps
      BY DEF IInv, TypeOK, Request, Steps
    <2>b. new \in Request /\ req' = [req EXCEPT ![r] = new] /\ UNCHANGED <<session, token, member>>
      BY <1>4, <2>a DEF BeginLogoutAll, Request
    <2>1. TypeOK' /\ \A q \in Requests \ {r} : req'[q] = req[q]
      BY <2>a, <2>b, Typed
    <2>2. /\ req'[r].pc = "list" /\ UNCHANGED <<session, token>> /\ req'[r].victims = req[r].victims
          /\ req'[r].child = req[r].child /\ \A s \in req'[r].owed : session[s] = "active"
      BY <1>4 DEF IInv, TypeOK, BeginLogoutAll
    <2> QED
      BY <1>1, <2>1, <2>2, Unlocked
  <1> QED
    BY <1>2, <1>3, <1>4

LEMMA FindStep ==
    ASSUME IInv, NEW r \in Requests, Find(r)
    PROVE  IInv'
  <1>1. UNCHANGED <<session, token>> /\ \A q \in Requests \ {r} : req'[q] = req[q]
    BY DEF IInv, TypeOK, Find, Answer, Step, Revoking
  <1>2. /\ req[r].pc = "find" /\ req[r].tok \in Tokens /\ req[r].owed = {}
        /\ \A s \in req[r].victims : session[s] # "none"
        /\ token[req[r].tok].of # None => token[req[r].tok].of \in Sessions /\ session[token[req[r].tok].of] # "none"
    BY DEF IInv, TypeOK, Find, Presented, OwedOK, VictimsExist, Exists
  <1>3. TypeOK'
    BY <1>2 DEF IInv, TypeOK, Find, Answer, Step, Revoking, Steps, Answers
  <1>4. /\ req'[r].tok = req[r].tok /\ req'[r].owed = {}
        /\ \/ req'[r].pc = "done" /\ req'[r].answer = "invalid" /\ req'[r].child = None
              /\ req'[r].victims = req[r].victims
           \/ req'[r].pc = "judge" /\ token[req[r].tok].of # None /\ req'[r].child = req[r].child
              /\ req'[r].victims = req[r].victims
           \/ req'[r].pc = "revoke" /\ req'[r].child = req[r].child
              /\ token[req[r].tok].of # None /\ req'[r].victims = {token[req[r].tok].of}
    BY <1>2 DEF IInv, TypeOK, Find, Answer, Step, Revoking, Live
  <1> QED
    BY <1>1, <1>2, <1>3, <1>4, Unlocked

LEMMA JudgeStep ==
    ASSUME IInv, NEW r \in Requests, Judge(r)
    PROVE  IInv'
  <1>1. UNCHANGED <<session, token>> /\ \A q \in Requests \ {r} : req'[q] = req[q]
    BY DEF IInv, TypeOK, Judge, Answer, Step, Revoking
  <1>2. /\ req[r].pc = "judge" /\ req[r].tok \in Tokens /\ req[r].owed = {}
        /\ \A s \in req[r].victims : session[s] # "none"
        /\ token[req[r].tok].of # None
        /\ token[req[r].tok].of \in Sessions /\ session[token[req[r].tok].of] # "none"
    BY DEF IInv, TypeOK, Judge, Presented, Refreshing, OwedOK, VictimsExist, Exists
  <1>3. TypeOK'
    BY <1>2 DEF IInv, TypeOK, Judge, Answer, Step, Revoking, Steps, Answers
  <1>4. /\ req'[r].tok = req[r].tok /\ req'[r].owed = {}
        /\ \/ req'[r].pc = "done" /\ req'[r].answer = "invalid" /\ req'[r].child = None
              /\ req'[r].victims = req[r].victims
           \/ req'[r].pc = "consume" /\ req'[r].child = req[r].child /\ req'[r].victims = req[r].victims
           \/ req'[r].pc = "revoke" /\ req'[r].child = req[r].child
              /\ req'[r].victims = {token[req[r].tok].of}
    BY <1>2 DEF IInv, TypeOK, Judge, Answer, Step, Revoking
  <1> QED
    BY <1>1, <1>2, <1>3, <1>4, Unlocked

LEMMA ListStep ==
    ASSUME IInv, NEW r \in Requests, List(r)
    PROVE  IInv'
  <1>1. /\ UNCHANGED <<session, token>> /\ \A q \in Requests \ {r} : req'[q] = req[q]
        /\ req'[r].pc = "revoke" /\ req'[r].child = req[r].child /\ req'[r].owed = req[r].owed
        /\ req'[r].victims = {s \in Sessions : session[s] = "active"}
    BY DEF IInv, TypeOK, List, Revoking
  <1>2. \A s \in req[r].owed : s \in Sessions /\ session[s] \in {"active", "revoked"}
    BY DEF IInv, TypeOK, OwedOK
  <1>3. TypeOK'
    <2> DEFINE active == {s \in Sessions : session[s] = "active"}
    <2>1. "loggedOutAll" \in Answers /\ Revoking(r, active, "loggedOutAll") /\ TypeOK
      BY DEF IInv, List, Answers
    <2>2. req' \in [Requests -> Request]
      BY <2>1, RevokingTyped
    <2> QED
      BY <1>1, <2>1, <2>2 DEF TypeOK, List, Request
  <1> QED
    BY <1>1, <1>2, <1>3, Unlocked

LEMMA AbortStep ==
    ASSUME IInv, NEW r \in Requests, Abort(r)
    PROVE  IInv'
  <1>1. /\ UNCHANGED <<session, token>> /\ \A q \in Requests \ {r} : req'[q] = req[q]
        /\ req'[r].pc = "done" /\ req'[r].child = None /\ req'[r].answer = "failed"
        /\ req'[r].owed = req[r].owed /\ req'[r].victims = req[r].victims
    BY DEF IInv, TypeOK, Abort, Answer
  <1>2. \A s \in req[r].victims \cup req[r].owed : session[s] # "none"
    BY DEF IInv, VictimsExist, OwedOK
  <1>3. TypeOK'
    <2>1. "failed" \in Answers /\ Answer(r, "failed") /\ TypeOK
      BY DEF IInv, Abort, Answers
    <2>2. req' \in [Requests -> Request]
      BY <2>1, AnswerTyped
    <2> QED
      BY <1>1, <2>1, <2>2 DEF TypeOK, Abort, Request
  <1> QED
    BY <1>1, <1>2, <1>3, Unlocked

----------------------------------------------------------------------------
(* Steps that take locks.                                                  *)

(* The session of a token that could be exchanged is active.               *)
LEMMA LiveIsActive ==
    ASSUME IInv, NEW t \in Tokens, Live(t)
    PROVE  token[t].of \in Sessions /\ session[token[t].of] = "active"
  BY DEF IInv, TypeOK, Exists, RevokedIsDead, LiveOf, Live

LEMMA TouchStep ==
    ASSUME IInv, NEW r \in Requests, Touch(r)
    PROVE  IInv'
  <1> DEFINE child == CHOOSE t \in Fresh : TRUE
             new == [req[r] EXCEPT !.pc = "commit", !.child = child]
  <1>1. child \in Tokens /\ token[child].of = None /\ \A q \in Requests : req[q].child # child
    BY DEF Touch, Fresh
  <1>2. req[r] \in Request /\ req \in [Requests -> Request] /\ TypeOK /\ "commit" \in Steps
    BY DEF IInv, TypeOK, Request, Steps
  <1>3. new \in Request /\ req' = [req EXCEPT ![r] = new] /\ UNCHANGED <<session, token, member>>
    BY <1>1, <1>2 DEF Touch, Request
  <1>4. TypeOK' /\ \A q \in Requests \ {r} : req'[q] = req[q]
    BY <1>2, <1>3, Typed
  <1>5. /\ req'[r].pc = "commit" /\ req'[r].child = child /\ req'[r].tok = req[r].tok
        /\ req'[r].victims = req[r].victims /\ req'[r].owed = req[r].owed
    BY <1>2, <1>3 DEF Request
  <1>6. req[r].pc = "touch" /\ req[r].tok \in Tokens /\ Live(req[r].tok) /\ SessionFree(r, token[req[r].tok].of)
    BY DEF Touch, IInv, Presented, Refreshing, ParentLive
  <1>7. session[token[req[r].tok].of] = "active"
    BY <1>6, LiveIsActive
  <1>8. Presented' /\ ParentLive'
    BY <1>3, <1>4, <1>5, <1>6, Unwritten DEF IInv, Presented, Refreshing, ParentLive, Live
  <1>9. ChildFresh'
    BY <1>1, <1>3, <1>4, <1>5 DEF IInv, ChildFresh
  <1>10. OneHolder'
    BY <1>3, <1>4, <1>5, <1>6 DEF IInv, OneHolder, HoldsToken
  <1>11. VictimsExist' /\ OwedOK'
    BY <1>3, <1>4, <1>5, <1>6 DEF IInv, VictimsExist, OwedOK, Revokes
  <1>12. Apart'
    <2> SUFFICES ASSUME NEW q \in Requests, NEW p \in Requests, req'[q].pc \in {"sweep", "kill", "seal"},
                        req'[p].pc = "commit", token[req'[p].tok].of \in req'[q].victims
                 PROVE  FALSE
      BY <1>3 DEF Apart
    <2>1. q # r /\ req'[q] = req[q]
      BY <1>4, <1>5
    <2>2. CASE p = r
      BY <1>5, <1>6, <1>7, <2>1, <2>2 DEF SessionFree, HoldsSession
    <2>3. CASE p # r
      BY <1>4, <2>1, <2>3 DEF IInv, Apart
    <2> QED
      BY <2>2, <2>3
  <1>13. Covered' /\ AnswersAreTrue'
    BY <1>3, <1>4, <1>5, Unwritten DEF IInv, Covered, AnswersAreTrue
  <1> QED
    BY <1>3, <1>4, <1>8, <1>9, <1>10, <1>11, <1>12, <1>13, Unwritten DEF IInv

LEMMA RevokeSessionsStep ==
    ASSUME IInv, NEW r \in Requests, RevokeSessions(r)
    PROVE  IInv'
  <1>1. TypeOK /\ "sweep" \in Steps /\ Step(r, "sweep") /\ UNCHANGED <<session, token, member>>
    BY DEF IInv, Steps, RevokeSessions
  <1>2. req' \in [Requests -> Request] /\ \A q \in Requests \ {r} : req'[q] = req[q]
    BY <1>1, StepTyped
  <1>3. TypeOK'
    BY <1>1, <1>2 DEF TypeOK, Request
  <1>4. req'[r] = [req[r] EXCEPT !.pc = "sweep"] /\ req[r] \in Request
    BY <1>1, StepTyped DEF TypeOK, Request
  <1>5. /\ req'[r].pc = "sweep" /\ req'[r].tok = req[r].tok /\ req'[r].child = req[r].child
        /\ req'[r].victims = req[r].victims /\ req'[r].owed = req[r].owed
        /\ req[r].pc = "revoke" /\ \A s \in req[r].victims : SessionFree(r, s)
    BY <1>4 DEF Request, RevokeSessions
  <1>6. Presented' /\ ParentLive'
    BY <1>1, <1>2, <1>5, Unwritten DEF IInv, Presented, Refreshing, ParentLive
  <1>7. ChildFresh' /\ OneHolder'
    BY <1>1, <1>2, <1>5 DEF IInv, ChildFresh, OneHolder, HoldsToken
  <1>8. VictimsExist' /\ OwedOK'
    BY <1>1, <1>2, <1>5 DEF IInv, VictimsExist, OwedOK, Revokes
  <1>9. Apart'
    <2> SUFFICES ASSUME NEW q \in Requests, NEW p \in Requests, req'[q].pc \in {"sweep", "kill", "seal"},
                        req'[p].pc = "commit", token[req'[p].tok].of \in req'[q].victims
                 PROVE  FALSE
      BY <1>1 DEF Apart
    <2>1. p # r /\ req'[p] = req[p]
      BY <1>2, <1>5
    <2>2. req[p].tok \in Tokens /\ Live(req[p].tok)
      BY <2>1 DEF IInv, Presented, Refreshing, ParentLive
    <2>3. session[token[req[p].tok].of] = "active"
      BY <2>2, LiveIsActive
    <2>4. CASE q = r
      BY <1>5, <2>1, <2>3, <2>4 DEF SessionFree, HoldsSession
    <2>5. CASE q # r
      BY <1>2, <2>1, <2>5 DEF IInv, Apart
    <2> QED
      BY <2>4, <2>5
  <1>10. Covered' /\ AnswersAreTrue'
    BY <1>1, <1>2, <1>5, Unwritten DEF IInv, Covered, AnswersAreTrue
  <1> QED
    BY <1>1, <1>3, <1>6, <1>7, <1>8, <1>9, <1>10, Unwritten DEF IInv

LEMMA SweepStep ==
    ASSUME IInv, NEW r \in Requests, Sweep(r)
    PROVE  IInv'
  <1> DEFINE found == {t \in Tokens : token[t].of \in req[r].victims /\ ~token[t].revoked}
             new == [req[r] EXCEPT !.pc = "kill", !.targets = found]
  <1>0. req[r].pc = "sweep"
    BY DEF Sweep
  <1>1. req[r] \in Request /\ req \in [Requests -> Request] /\ TypeOK /\ "kill" \in Steps
    BY DEF IInv, TypeOK, Request, Steps
  <1>2. new \in Request
    BY <1>1 DEF Request
  <1>3. req' = [req EXCEPT ![r] = new] /\ UNCHANGED <<session, token, member>>
    BY <1>1 DEF Sweep
  <1>4. TypeOK' /\ \A q \in Requests \ {r} : req'[q] = req[q]
    BY <1>1, <1>2, <1>3, Typed
  <1>5. /\ req'[r].pc = "kill" /\ req'[r].tok = req[r].tok /\ req'[r].child = req[r].child
        /\ req'[r].victims = req[r].victims /\ req'[r].owed = req[r].owed
        /\ req'[r].targets = found
    <2>1. found \in SUBSET Tokens
      OBVIOUS
    <2> HIDE DEF found
    <2> QED
      BY <1>1, <1>3, <2>1 DEF Request
  <1>6. Presented' /\ ParentLive'
    BY <1>3, <1>4, <1>5, Unwritten DEF IInv, Presented, Refreshing, ParentLive
  <1>7. ChildFresh' /\ OneHolder'
    BY <1>3, <1>4, <1>5 DEF IInv, ChildFresh, OneHolder, HoldsToken
  <1>8. VictimsExist' /\ OwedOK'
    BY <1>0, <1>3, <1>4, <1>5 DEF IInv, VictimsExist, OwedOK, Revokes
  <1>9. Apart' /\ AnswersAreTrue'
    BY <1>0, <1>3, <1>4, <1>5 DEF IInv, Apart, AnswersAreTrue
  <1>10. Covered'
    <2>1. \A q \in Requests \ {r} : req'[q].pc \in {"kill", "seal"} =>
            \A t \in Tokens : Live(t) /\ token[t].of \in req'[q].victims => t \in req'[q].targets
      BY <1>4 DEF IInv, Covered
    <2>2. \A t \in Tokens : Live(t) /\ token[t].of \in req'[r].victims => t \in req'[r].targets
      BY <1>5 DEF Live
    <2>3. \A t : Live(t)' <=> Live(t)
      BY <1>3, Unwritten
    <2> QED
      BY <1>3, <2>1, <2>2, <2>3 DEF Covered
  <1> QED
    BY <1>3, <1>4, <1>6, <1>7, <1>8, <1>9, <1>10, Unwritten DEF IInv

LEMMA KillStep ==
    ASSUME IInv, NEW r \in Requests, Kill(r)
    PROVE  IInv'
  <1>1. TypeOK /\ "seal" \in Steps /\ Step(r, "seal") /\ UNCHANGED <<session, token, member>>
    BY DEF IInv, Steps, Kill
  <1>2. req' \in [Requests -> Request] /\ \A q \in Requests \ {r} : req'[q] = req[q]
    BY <1>1, StepTyped
  <1>3. TypeOK'
    BY <1>1, <1>2 DEF TypeOK, Request
  <1>4. req'[r] = [req[r] EXCEPT !.pc = "seal"] /\ req[r] \in Request
    BY <1>1, StepTyped DEF TypeOK, Request
  <1>5. /\ req'[r].pc = "seal" /\ req'[r].tok = req[r].tok /\ req'[r].child = req[r].child
        /\ req'[r].victims = req[r].victims /\ req'[r].owed = req[r].owed
        /\ req'[r].targets = req[r].targets /\ req[r].pc = "kill"
        /\ \A t \in req[r].targets : TokenFree(r, t)
    BY <1>4 DEF Request, Kill
  <1>6. Presented' /\ ParentLive'
    BY <1>1, <1>2, <1>5, Unwritten DEF IInv, Presented, Refreshing, ParentLive
  <1>7. ChildFresh'
    BY <1>1, <1>2, <1>5 DEF IInv, ChildFresh
  <1>8. OneHolder'
    BY <1>1, <1>2, <1>5 DEF IInv, OneHolder, HoldsToken, TokenFree
  <1>9. VictimsExist' /\ OwedOK'
    BY <1>1, <1>2, <1>5 DEF IInv, VictimsExist, OwedOK, Revokes
  <1>10. Apart' /\ AnswersAreTrue'
    BY <1>1, <1>2, <1>5 DEF IInv, Apart, AnswersAreTrue
  <1>11. Covered'
    BY <1>1, <1>2, <1>5, Unwritten DEF IInv, Covered
  <1> QED
    BY <1>1, <1>3, <1>6, <1>7, <1>8, <1>9, <1>10, <1>11, Unwritten DEF IInv

----------------------------------------------------------------------------
(* Steps that write rows.                                                  *)

LEMMA LoginStep ==
    ASSUME IInv, NEW s \in Sessions, Login(s)
    PROVE  IInv'
  <1> DEFINE first == CHOOSE t \in Fresh : TRUE
             row == [of |-> s, used |-> FALSE, revoked |-> FALSE]
  <1>1. first \in Tokens /\ token[first].of = None /\ \A q \in Requests : req[q].child # first
    BY DEF Login, Fresh
  <1>2. /\ session[s] = "none" /\ session' = [session EXCEPT ![s] = "active"]
        /\ token' = [token EXCEPT ![first] = row] /\ UNCHANGED <<member, req>>
    BY DEF Login
  <1> HIDE DEF first
  <1>3. TypeOK'
    BY <1>1, <1>2 DEF IInv, TypeOK
  <1>4. /\ \A x \in Sessions \ {s} : session'[x] = session[x]
        /\ session'[s] = "active"
        /\ \A t \in Tokens \ {first} : token'[t] = token[t]
        /\ token'[first].of = s /\ s # None
    BY <1>1, <1>2, SessionAssumption DEF IInv, TypeOK
  <1>5. \A t \in Tokens : token[t].of # None => t # first /\ token[t].of \in Sessions \ {s}
    BY <1>1, <1>2 DEF IInv, TypeOK, Exists
  <1>6. \A t \in Tokens : Live(t)' => t = first \/ Live(t)
    BY <1>4 DEF Live
  <1>7. Exists'
    BY <1>2, <1>4, <1>5 DEF IInv, Exists
  <1>8. Presented' /\ ParentLive'
    BY <1>2, <1>4, <1>5 DEF IInv, Presented, Refreshing, ParentLive, Live
  <1>9. ChildFresh' /\ OneHolder'
    BY <1>1, <1>2, <1>4 DEF IInv, ChildFresh, OneHolder, HoldsToken
  <1>10. VictimsExist' /\ OwedOK'
    <2>1. \A r \in Requests : req[r].victims \subseteq Sessions /\ req[r].owed \subseteq Sessions
      BY DEF IInv, TypeOK
    <2> QED
      BY <1>2, <1>4, <2>1 DEF IInv, VictimsExist, OwedOK
  <1>11. Apart'
    BY <1>2, <1>4, <1>5 DEF IInv, Apart, Presented, Refreshing
  <1>12. Covered'
    <2>1. \A r \in Requests : s \notin req[r].victims
      BY <1>2 DEF IInv, VictimsExist
    <2> QED
      BY <1>2, <1>4, <1>6, <2>1 DEF IInv, Covered
  <1>13. OneLiveToken'
    BY <1>4, <1>5, <1>6 DEF IInv, OneLiveToken, Live
  <1>14. RevokedIsDead'
    BY <1>4, <1>5, <1>6 DEF IInv, RevokedIsDead, LiveOf
  <1>15. AnswersAreTrue'
    <2>1. \A r \in Requests : s \notin req[r].victims /\ s \notin req[r].owed
      BY <1>2 DEF IInv, VictimsExist, OwedOK
    <2>2. \A r \in Requests : req[r].victims \subseteq Sessions /\ req[r].owed \subseteq Sessions
      BY DEF IInv, TypeOK
    <2> QED
      BY <1>2, <1>4, <2>1, <2>2 DEF IInv, AnswersAreTrue
  <1> QED
    BY <1>3, <1>7, <1>8, <1>9, <1>10, <1>11, <1>12, <1>13, <1>14, <1>15 DEF IInv

LEMMA CommitStep ==
    ASSUME IInv, NEW r \in Requests, Commit(r)
    PROVE  IInv'
  <1> DEFINE t == req[r].tok
             c == req[r].child
             s == token[t].of
             answer == IF member THEN "rotated" ELSE "invalid"
  <1>1. /\ req[r].pc = "commit" /\ t \in Tokens /\ s # None /\ Live(t)
        /\ c \in Tokens /\ token[c].of = None /\ c # t
    BY DEF Commit, IInv, Presented, Refreshing, ParentLive, ChildFresh
  <1>2. s \in Sessions /\ session[s] = "active"
    BY <1>1, LiveIsActive
  <1>3. TypeOK /\ answer \in Answers /\ Answer(r, answer)
    BY DEF IInv, Commit, Answers
  <1>4. req' \in [Requests -> Request] /\ \A q \in Requests \ {r} : req'[q] = req[q]
    BY <1>3, AnswerTyped
  <1>5. req'[r] = [req[r] EXCEPT !.pc = "done", !.answer = answer, !.child = None, !.targets = {}]
    BY <1>3, AnswerTyped
  <1>6. /\ req'[r].pc = "done" /\ req'[r].answer \in {"rotated", "invalid"} /\ req'[r].child = None
        /\ req'[r].victims = req[r].victims /\ req'[r].owed = req[r].owed
    BY <1>3, <1>5 DEF TypeOK
  <1>7. UNCHANGED <<session, member>> /\ token' \in [Tokens -> [of : Sessions \cup {None}, used : BOOLEAN, revoked : BOOLEAN]]
    <2> DEFINE Row == [of : Sessions \cup {None}, used : BOOLEAN, revoked : BOOLEAN]
               old == [token[t] EXCEPT !.used = TRUE]
               new == [of |-> s, used |-> FALSE, revoked |-> FALSE]
    <2>0. token \in [Tokens -> Row] /\ token[t] \in Row
      BY <1>1, <1>3 DEF TypeOK
    <2>1. old \in Row /\ new \in Row
      <3> HIDE DEF t, s
      <3> QED
        BY <1>2, <2>0
    <2>2. token' = [token EXCEPT ![t] = old, ![c] = new] /\ UNCHANGED <<session, member>>
      BY <1>1, <2>0 DEF Commit
    <2> HIDE DEF Row, old, new, t, c
    <2>3. token' \in [Tokens -> Row]
      BY <1>1, <2>0, <2>1, <2>2
    <2> QED
      BY <2>2, <2>3 DEF Row
  <1>8. TypeOK'
    BY <1>3, <1>4, <1>7 DEF TypeOK, Request
  <1>9. /\ \A u \in Tokens \ {t, c} : token'[u] = token[u]
        /\ token'[t].of = s /\ token'[t].used
        /\ token'[c].of = s
        /\ \A u \in Tokens \ {c} : token'[u].of = token[u].of
        /\ \A u \in Tokens : token[u].of = None => u # t
    BY <1>1 DEF Commit, IInv, TypeOK
  <1>10. \A u \in Tokens : Live(u)' => u = c \/ (Live(u) /\ u # t)
    BY <1>9 DEF Live
  <1> HIDE DEF t, c, s, answer
  <1>11. \A q \in Requests \ {r} : req[q].pc \in {"touch", "commit"} => req[q].tok # t
    BY <1>1 DEF IInv, OneHolder, HoldsToken, t
  <1>12. Exists'
    BY <1>2, <1>7, <1>9 DEF IInv, Exists
  <1>13. Presented'
    BY <1>1, <1>4, <1>6, <1>9 DEF IInv, Presented, Refreshing
  <1>14. ParentLive'
    <2> SUFFICES ASSUME NEW q \in Requests, req'[q].pc \in {"touch", "commit"}
                 PROVE  Live(req[q].tok)'
      BY DEF ParentLive
    <2>1. q # r /\ req'[q] = req[q]
      BY <1>4, <1>6
    <2>2. req[q].tok \in Tokens /\ Live(req[q].tok)
      BY <2>1 DEF IInv, Presented, Refreshing, ParentLive
    <2>3. req[q].tok # t /\ req[q].tok # c
      BY <1>1, <1>11, <2>1, <2>2 DEF Live
    <2> QED
      BY <1>9, <2>1, <2>2, <2>3 DEF Live
  <1>15. ChildFresh'
    <2>1. \A q \in Requests \ {r} : req[q].child # c
      BY <1>1 DEF IInv, ChildFresh, c
    <2>2. \A q \in Requests \ {r} : req[q].pc = "commit" => token'[req[q].child].of = None
      BY <1>1, <1>9, <2>1 DEF IInv, ChildFresh
    <2> QED
      BY <1>4, <1>6, <2>2, SessionAssumption DEF IInv, ChildFresh
  <1>16. OneHolder'
    BY <1>4, <1>6 DEF IInv, OneHolder, HoldsToken
  <1>17. VictimsExist' /\ OwedOK'
    BY <1>4, <1>6, <1>7 DEF IInv, VictimsExist, OwedOK, Revokes
  <1>18. Apart'
    BY <1>1, <1>4, <1>6, <1>9 DEF IInv, Apart, Presented, Refreshing
  <1>19. Covered'
    <2>1. \A q \in Requests : req[q].pc \in {"kill", "seal"} => s \notin req[q].victims
      BY <1>1 DEF IInv, Apart, s, t
    <2> QED
      BY <1>4, <1>6, <1>9, <1>10, <2>1 DEF IInv, Covered
  <1>20. OneLiveToken'
    <2>1. \A u \in Tokens : Live(u) /\ token[u].of = s => u = t
      BY <1>1 DEF IInv, OneLiveToken, s
    <2> QED
      BY <1>9, <1>10, <2>1 DEF IInv, OneLiveToken
  <1>21. RevokedIsDead'
    BY <1>2, <1>7, <1>9, <1>10 DEF IInv, RevokedIsDead, LiveOf
  <1>22. AnswersAreTrue'
    BY <1>4, <1>6, <1>7 DEF IInv, AnswersAreTrue
  <1> QED
    BY <1>8, <1>12, <1>13, <1>14, <1>15, <1>16, <1>17, <1>18, <1>19, <1>20, <1>21, <1>22 DEF IInv

LEMMA SealStep ==
    ASSUME IInv, NEW r \in Requests, Seal(r)
    PROVE  IInv'
  <1> DEFINE answer == req[r].answer
  <1>1. /\ TypeOK /\ answer \in Answers /\ Answer(r, answer) /\ req[r].pc = "seal"
    BY DEF IInv, TypeOK, Seal
  <1> HIDE DEF answer
  <1>2. req' \in [Requests -> Request] /\ \A q \in Requests \ {r} : req'[q] = req[q]
    BY <1>1, AnswerTyped
  <1>3. req'[r] = [req[r] EXCEPT !.pc = "done", !.answer = answer, !.child = None, !.targets = {}]
    BY <1>1, AnswerTyped
  <1>4. /\ req'[r].pc = "done" /\ req'[r].child = None
        /\ req'[r].victims = req[r].victims /\ req'[r].owed = req[r].owed
    BY <1>1, <1>3 DEF TypeOK
  <1>5. /\ session' \in [Sessions -> {"none", "active", "revoked"}]
        /\ \A x \in Sessions : session'[x] = IF x \in req[r].victims THEN "revoked" ELSE session[x]
    BY <1>1 DEF TypeOK, Seal
  <1>6. /\ token' \in [Tokens -> [of : Sessions \cup {None}, used : BOOLEAN, revoked : BOOLEAN]]
        /\ \A t \in Tokens : /\ token'[t].of = token[t].of /\ token'[t].used = token[t].used
                             /\ token'[t].revoked = (token[t].revoked \/ t \in req[r].targets)
    BY <1>1 DEF TypeOK, Seal
  <1>7. TypeOK'
    BY <1>1, <1>2, <1>5, <1>6 DEF TypeOK, Request, Seal
  <1>8. \A t \in Tokens : Live(t)' <=> Live(t) /\ t \notin req[r].targets
    BY <1>6 DEF Live
  <1>9. \A x \in Sessions : (session[x] # "none" => session'[x] # "none")
                            /\ (session[x] = "revoked" => session'[x] = "revoked")
    BY <1>5
  <1>10. /\ \A t \in Tokens : token[t].of \in Sessions \cup {None}
         /\ \A q \in Requests : req[q].victims \subseteq Sessions /\ req[q].owed \subseteq Sessions
    BY <1>1 DEF TypeOK
  <1>11. Exists'
    BY <1>6, <1>9, <1>10 DEF IInv, Exists
  <1>12. Presented'
    BY <1>2, <1>4, <1>6 DEF IInv, Presented, Refreshing
  <1>13. ParentLive'
    <2> SUFFICES ASSUME NEW q \in Requests, req'[q].pc \in {"touch", "commit"}
                 PROVE  Live(req[q].tok)'
      BY DEF ParentLive
    <2>1. q # r /\ req'[q] = req[q]
      BY <1>2, <1>4
    <2>2. req[q].tok \in Tokens /\ Live(req[q].tok)
      BY <2>1 DEF IInv, Presented, Refreshing, ParentLive
    <2>3. req[q].tok \notin req[r].targets
      BY <1>1, <2>1, <2>2 DEF IInv, OneHolder, HoldsToken
    <2> QED
      BY <1>8, <2>1, <2>2, <2>3
  <1>14. ChildFresh'
    BY <1>2, <1>4, <1>6, SessionAssumption DEF IInv, ChildFresh
  <1>15. OneHolder'
    BY <1>2, <1>4 DEF IInv, OneHolder, HoldsToken
  <1>16. VictimsExist'
    BY <1>2, <1>4, <1>9, <1>10 DEF IInv, VictimsExist
  <1>17. OwedOK'
    BY <1>2, <1>4, <1>9, <1>10 DEF IInv, OwedOK, Revokes
  <1>18. Apart'
    BY <1>2, <1>4, <1>6 DEF IInv, Apart, Presented, Refreshing
  <1>19. Covered'
    BY <1>2, <1>4, <1>6, <1>8 DEF IInv, Covered
  <1>20. OneLiveToken'
    BY <1>6, <1>8 DEF IInv, OneLiveToken
  <1>21. RevokedIsDead'
    <2> SUFFICES ASSUME NEW x \in Sessions, session'[x] = "revoked", NEW t \in Tokens,
                        token[t].of = x, Live(t), t \notin req[r].targets
                 PROVE  FALSE
      BY <1>6, <1>8 DEF RevokedIsDead, LiveOf
    <2>1. CASE x \in req[r].victims
      BY <1>1, <2>1 DEF IInv, Covered
    <2>2. CASE x \notin req[r].victims
      BY <1>5, <2>2 DEF IInv, RevokedIsDead, LiveOf
    <2> QED
      BY <2>1, <2>2
  <1>22. AnswersAreTrue'
    <2>1. \A x \in req[r].victims \cup req[r].owed : session'[x] = "revoked"
      BY <1>1, <1>5, <1>9, <1>10 DEF IInv, OwedOK, Revokes
    <2> QED
      BY <1>2, <1>4, <1>9, <1>10, <2>1 DEF IInv, AnswersAreTrue
  <1> QED
    BY <1>7, <1>11, <1>12, <1>13, <1>14, <1>15, <1>16, <1>17, <1>18, <1>19, <1>20, <1>21, <1>22 DEF IInv

LEMMA SuspendStep ==
    ASSUME IInv, Suspend
    PROVE  IInv'
  <1>1. UNCHANGED <<session, token, req>> /\ member' \in BOOLEAN
    BY DEF Suspend
  <1>2. TypeOK'
    BY <1>1 DEF IInv, TypeOK
  <1>3. Presented' /\ ParentLive' /\ ChildFresh' /\ OneHolder'
    BY <1>1, Unwritten DEF IInv, Presented, ParentLive, ChildFresh, OneHolder, HoldsToken
  <1>4. VictimsExist' /\ OwedOK' /\ AnswersAreTrue'
    BY <1>1 DEF IInv, VictimsExist, OwedOK, AnswersAreTrue
  <1>5. Apart' /\ Covered'
    BY <1>1, Unwritten DEF IInv, Apart, Covered
  <1> QED
    BY <1>1, <1>2, <1>3, <1>4, <1>5, Unwritten DEF IInv

LEMMA StutterStep ==
    ASSUME IInv, UNCHANGED vars
    PROVE  IInv'
  BY DEF IInv, vars, TypeOK, Exists, Presented, Refreshing, ParentLive, ChildFresh, OneHolder,
         HoldsToken, VictimsExist, Apart, Covered, OwedOK, Revokes, OneLiveToken, RevokedIsDead,
         LiveOf, Live, AnswersAreTrue

----------------------------------------------------------------------------
THEOREM Invariance == Spec => []IInv
  <1>1. Init => IInv
    BY InitInv
  <1>2. ASSUME IInv, [Next]_vars PROVE IInv'
    <2>1. CASE Suspend
      BY <1>2, <2>1, SuspendStep
    <2>2. ASSUME NEW s \in Sessions, Login(s) PROVE IInv'
      BY <1>2, <2>2, LoginStep
    <2>3. ASSUME NEW r \in Requests,
                 \/ \E t \in Tokens : BeginRefresh(r, t)
                 \/ \E a, s \in Sessions : BeginLogout(r, a, s)
                 \/ \E a \in Sessions : BeginLogoutAll(r, a)
          PROVE  IInv'
      BY <1>2, <2>3, BeginStep
    <2>4. ASSUME NEW r \in Requests, Refresh(r) PROVE IInv'
      BY <1>2, <2>4, FindStep, JudgeStep, ConsumeStep, TouchStep, CommitStep DEF Refresh
    <2>5. ASSUME NEW r \in Requests, Revocation(r) PROVE IInv'
      BY <1>2, <2>5, ListStep, RevokeSessionsStep, SweepStep, KillStep, SealStep DEF Revocation
    <2>6. ASSUME NEW r \in Requests, Abort(r) PROVE IInv'
      BY <1>2, <2>6, AbortStep
    <2>7. CASE UNCHANGED vars
      BY <1>2, <2>7, StutterStep
    <2> QED
      BY <1>2, <2>1, <2>2, <2>3, <2>4, <2>5, <2>6, <2>7 DEF Next
  <1> QED
    BY <1>1, <1>2, PTL DEF Spec

(* The rows and the requests have the values the columns admit.            *)
THEOREM TypeCorrect == Spec => []TypeOK
  BY Invariance, PTL DEF IInv

(* A session never has two refresh tokens that could be exchanged, however *)
(* many requests rotateRefreshToken serves at once.                        *)
THEOREM OneLive == Spec => []OneLiveToken
  BY Invariance, PTL DEF IInv

(* No rotation leaves a successor alive in a session that was revoked.     *)
THEOREM RevokedDead == Spec => []RevokedIsDead
  BY Invariance, PTL DEF IInv

(* A reuse that is reported, and a log-out that is confirmed, have revoked *)
(* every session they are about.                                           *)
THEOREM AnswersTrue == Spec => []AnswersAreTrue
  BY Invariance, PTL DEF IInv

=============================================================================
