----------------------------- MODULE MCIdentity -----------------------------
(***************************************************************************)
(* Small instances of Session, Login and Membership, checked one after the *)
(* other: an initial state chooses the scene, and the two components that  *)
(* are not in it wait in an initial state of theirs.  Session is extended, *)
(* the others have copies of their variables here.  The model values a and *)
(* b stand for one thing in one scene and for another in the next, which   *)
(* keeps the symmetry group small.  MCApi adds the other scenes of the API *)
(* to these.                                                               *)
(***************************************************************************)
EXTENDS Session, Naturals, TLC

CONSTANTS
    LoginHandlers, Challenges, Secrets, Codes, Limit, RedisLimit, MaxClock,
    Users, Custom, Asked, Invitations, FirstInvitation, MembershipHandlers,
    SymmetricA, SymmetricB

VARIABLES
    scene,
    failed, lock, throttle, method, codes, challenge, clock, loginHand, uses, opened, forgotten,
    registered, founded, present, roles, invitation, membershipHand

sessionVars    == vars
loginVars      == <<failed, lock, throttle, method, codes, challenge, clock, loginHand, uses, opened, forgotten>>
membershipVars == <<registered, founded, present, roles, invitation, membershipHand>>

L == INSTANCE Login WITH Handlers <- LoginHandlers, hand <- loginHand

M == INSTANCE Membership WITH Handlers <- MembershipHandlers, hand <- membershipHand

\* At least one failure is allowed.  Codes of the authenticator are told from
\* recovery codes by their form.
ASSUME LoginAssumption ==
    /\ Limit \in Nat \ {0}
    /\ RedisLimit \in Nat
    /\ MaxClock \in Nat
    /\ None \notin Secrets
    /\ None \notin L!Periods
    /\ Codes \cap ((Secrets \X L!Periods) \cup {L!Wrong}) = {}

ASSUME MembershipAssumption ==
    /\ None \notin Users
    /\ \A set \in SUBSET M!AllRoles : set # None
    /\ Asked \subseteq SUBSET M!AllRoles

Symmetry == Permutations(SymmetricA) \cup Permutations(SymmetricB)

IdentityInit ==
    /\ Init
    /\ L!Init /\ (scene # "login" => method = L!NoMethod)
    /\ M!Init

\* Two invitations and no replacement of roles, or one invitation and both.
MembershipScenes == {"invitations", "membership"}

IdentityNext ==
    \/ /\ scene = "session"
       /\ Next
       /\ UNCHANGED <<scene, loginVars, membershipVars>>
    \/ /\ scene = "login"
       /\ L!Next
       /\ UNCHANGED <<scene, sessionVars, membershipVars>>
    \/ /\ scene \in MembershipScenes
       /\ M!Next
       /\ IF scene = "invitations"
          THEN \A h \in MembershipHandlers : membershipHand'[h].pc # "read"
          ELSE \A i \in Invitations \ {FirstInvitation} : invitation'[i].state = "none"
       /\ UNCHANGED <<scene, sessionVars, loginVars>>

identityVars == <<scene, sessionVars, loginVars, membershipVars>>

IdentityScenes == {"session", "login"} \cup MembershipScenes

IdentitySpec == scene \in IdentityScenes /\ IdentityInit /\ [][IdentityNext]_identityVars

----------------------------------------------------------------------------
\* The rows and the requests have their types in every scene; a credential is
\* locked exactly at the limit of failures.
IdentityTypesOK == TypeOK /\ L!TypeOK /\ M!TypeOK

\* Login: a TOTP or recovery code is accepted once, whoever holds it, a TOTP
\* code once more if an enrolment has reset the counter since; and one
\* challenge opens one session, though both factors arrive at once.
UsedOnce == L!FactorUsedOnce /\ L!OneSessionPerChallenge

\* Login: what the threat model says of the TOTP counter; an enrolment that
\* overwrites a verified method breaks it.
TotpUsedOnce == L!TotpUsedOnce

\* Membership: an accepted invitation and the membership it led to go together.
AcceptedIsMember == M!AcceptedIsMember

\* Membership: an undisturbed replacement leaves the roles it names, and the
\* actor's own ownership.
ReplacedAsAsked == M!ReplacedAsAsked
=============================================================================
