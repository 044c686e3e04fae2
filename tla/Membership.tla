---------------------------- MODULE Membership ----------------------------
(***************************************************************************)
(* One organization: how it is founded, whom it invites, and which roles   *)
(* its members have (identity.use-cases.ts, prisma-identity.repository.ts, *)
(* authorization-policy.ts).                                               *)
(*                                                                         *)
(* Accepting an invitation and replacing roles are READ COMMITTED          *)
(* transactions of several statements, kept apart as in Session.  Founding *)
(* the organization, inviting and creating a role insert everything in one *)
(* transaction whose conflicts the unique indexes decide: one action each. *)
(***************************************************************************)
EXTENDS FiniteSets

CONSTANTS
    Users,
    Custom,        \* keys of the roles an organization may add
    Asked,         \* the sets of roles that replacements and invitations name
    Invitations,
    Handlers,
    None

SystemRoles == {"owner", "admin", "analyst", "viewer"}

AllRoles == SystemRoles \cup Custom

VARIABLES
    registered,    \* users, by their unique e-mail
    founded,       \* is the organization's slug taken?
    present,       \* the roles of the organization
    roles,         \* membership_roles, None for a user without membership
    invitation,
    hand

vars == <<registered, founded, present, roles, invitation, hand>>

Members == {u \in Users : roles[u] # None}

Begun(pc, user, actor, inv, ids) ==
    [pc |-> pc, user |-> user, actor |-> actor, inv |-> inv, ids |-> ids, doomed |-> {}, disturbed |-> FALSE]

Idle == Begun("idle", None, None, None, {})

TypeOK ==
    /\ registered \subseteq Users
    /\ founded \in BOOLEAN
    /\ present \subseteq AllRoles
    /\ roles \in [Users -> (SUBSET AllRoles) \cup {None}]
    /\ invitation \in [Invitations -> [state : {"none", "PENDING", "ACCEPTED", "expired"},
                                       for : Users \cup {None}, role : AllRoles \cup {None}]]
    /\ hand \in [Handlers ->
          [pc : {"idle", "find", "claim", "join", "accept", "read", "delete", "wait", "insert", "replace"},
           user : Users \cup {None}, actor : Users \cup {None}, inv : Invitations \cup {None},
           ids : SUBSET AllRoles, doomed : SUBSET AllRoles, disturbed : BOOLEAN]]

Init ==
    /\ registered = {} /\ founded = FALSE /\ present = {}
    /\ roles = [u \in Users |-> None]
    /\ invitation = [i \in Invitations |-> [state |-> "none", for |-> None, role |-> None]]
    /\ hand = [h \in Handlers |-> Idle]

----------------------------------------------------------------------------
\* SYSTEM_ROLE_PERMISSIONS, as far as this module asks: owners and admins
\* have every permission, the other system roles none to manage anything; a
\* custom role may be given them.
Manages(role) == role \in {"owner", "admin"} \cup Custom

\* TenantGuard and PermissionsGuard, on the roles read by AccessTokenGuard.
Authorized(u) == u \in Members /\ \E role \in roles[u] : Manages(role)

Goto(h, pc) == hand' = [hand EXCEPT ![h].pc = pc]

Finish(h) == hand' = [hand EXCEPT ![h] = Idle]

----------------------------------------------------------------------------
\* Roles, SLA policies, membership and ownership of the founder at once.
Found(u) ==
    /\ ~founded
    /\ founded' = TRUE
    /\ present' = SystemRoles
    /\ roles' = [roles EXCEPT ![u] = {"owner"}]

\* register(): with this organization, or with one of the user's own.
Register(u) ==
    /\ u \notin registered
    /\ registered' = registered \cup {u}
    /\ \/ Found(u)
       \/ UNCHANGED <<founded, present, roles>>
    /\ UNCHANGED <<invitation, hand>>

CreateOrganization(u) ==
    /\ u \in registered
    /\ Found(u)
    /\ UNCHANGED <<registered, invitation, hand>>

\* createRole: the key is unique in the organization.
CreateRole(actor, key) ==
    /\ Authorized(actor)
    /\ key \notin present
    /\ present' = present \cup {key}
    /\ UNCHANGED <<registered, founded, roles, invitation, hand>>

\* createInvitation: of somebody who is not a member yet, registered or not,
\* and who may have other invitations.
Invite(actor, i, u, role) ==
    /\ Authorized(actor)
    /\ invitation[i].state = "none"
    /\ role \in present
    /\ u \notin Members
    /\ invitation' = [invitation EXCEPT ![i] = [state |-> "PENDING", for |-> u, role |-> role]]
    /\ UNCHANGED <<registered, founded, present, roles, hand>>

Expire(i) ==
    /\ invitation[i].state = "PENDING"
    /\ invitation' = [invitation EXCEPT ![i].state = "expired"]
    /\ UNCHANGED <<registered, founded, present, roles, hand>>

----------------------------------------------------------------------------
\* acceptInvitation by the user it is addressed to.
BeginAccept(h, u, i) ==
    /\ hand[h].pc = "idle"
    /\ u \in registered /\ invitation[i].for = u
    /\ hand' = [hand EXCEPT ![h] = Begun("find", u, None, i, {})]
    /\ UNCHANGED <<registered, founded, present, roles, invitation>>

Find(h) ==
    LET refused == invitation[hand[h].inv].state # "PENDING" \/ hand[h].user \in Members IN
    /\ hand[h].pc = "find"
    /\ \/ refused /\ Finish(h)
       \/ ~refused /\ Goto(h, "claim")
    /\ UNCHANGED <<registered, founded, present, roles, invitation>>

\* The conditional update of the invitation, whose row it locks; expiry is
\* not asked for again.
Claim(h) ==
    LET i == hand[h].inv IN
    /\ hand[h].pc = "claim"
    /\ \A g \in Handlers : hand[g].pc \in {"join", "accept"} => hand[g].inv # i
    /\ \/ invitation[i].state = "ACCEPTED" /\ Finish(h)
       \/ invitation[i].state # "ACCEPTED" /\ Goto(h, "join")
    /\ UNCHANGED <<registered, founded, present, roles, invitation>>

\* A plausible defect: an existing membership is left as it is.
JoinAnyway(h) ==
    /\ hand[h].pc = "join"
    /\ Goto(h, "accept")
    /\ UNCHANGED <<registered, founded, present, roles, invitation>>

\* The insertion of the membership waits for one of the same user, and fails
\* with it if that one commits: the claim is rolled back.
Join(h) ==
    /\ hand[h].pc = "join"
    /\ \A g \in Handlers : hand[g].pc = "accept" => hand[g].user # hand[h].user
    /\ \/ hand[h].user \in Members /\ Finish(h)
       \/ hand[h].user \notin Members /\ Goto(h, "accept")
    /\ UNCHANGED <<registered, founded, present, roles, invitation>>

Accept(h) ==
    LET i == hand[h].inv IN
    /\ hand[h].pc = "accept"
    /\ invitation' = [invitation EXCEPT ![i].state = "ACCEPTED"]
    /\ roles' = [roles EXCEPT ![hand[h].user] = {invitation[i].role}]
    /\ Finish(h)
    /\ UNCHANGED <<registered, founded, present>>

----------------------------------------------------------------------------
\* replaceMembershipRoles, admitted by the roles the actor has now.
BeginReplace(h, actor, u, ids) ==
    /\ hand[h].pc = "idle"
    /\ Authorized(actor)
    /\ u \in Members
    /\ hand' = [hand EXCEPT ![h] = Begun("read", u, actor, None, ids)]
    /\ UNCHANGED <<registered, founded, present, roles, invitation>>

\* A plausible defect: the owner is not asked about.
ReadUnguarded(h) ==
    /\ hand[h].pc = "read"
    /\ Goto(h, "delete")
    /\ UNCHANGED <<registered, founded, present, roles, invitation>>

\* The roles must exist, and nobody takes the ownership from itself.
Read(h) ==
    LET removingOwnOwnership == /\ hand[h].user = hand[h].actor
                                /\ "owner" \in roles[hand[h].user] \ hand[h].ids
        refused == ~(hand[h].ids \subseteq present) \/ removingOwnOwnership
    IN /\ hand[h].pc = "read"
       /\ \/ refused /\ Finish(h)
          \/ ~refused /\ Goto(h, "delete")
       /\ UNCHANGED <<registered, founded, present, roles, invitation>>

\* deleteMany: the rows its snapshot shows ...
Delete(h) ==
    /\ hand[h].pc = "delete"
    /\ hand' = [hand EXCEPT ![h].pc = "wait", ![h].doomed = roles[hand[h].user]]
    /\ UNCHANGED <<registered, founded, present, roles, invitation>>

Others(h) == {g \in Handlers \ {h} : hand[g].user = hand[h].user}

\* ... less those another transaction has deleted by the time it gets them.
Wait(h) ==
    /\ hand[h].pc = "wait"
    /\ \A g \in Others(h) : hand[g].pc \in {"insert", "replace"} => hand[g].doomed \cap hand[h].doomed = {}
    /\ hand' = [hand EXCEPT ![h].pc = "insert", ![h].doomed = @ \cap roles[hand[h].user]]
    /\ UNCHANGED <<registered, founded, present, roles, invitation>>

\* createMany: a role the member has by now is a duplicate key.
Insert(h) ==
    LET duplicate == hand[h].ids \cap (roles[hand[h].user] \ hand[h].doomed) # {} IN
    /\ hand[h].pc = "insert"
    /\ \A g \in Others(h) : hand[g].pc = "replace" => (hand[g].ids \cup hand[g].doomed) \cap hand[h].ids = {}
    /\ \/ duplicate /\ Finish(h)
       \/ ~duplicate /\ Goto(h, "replace")
    /\ UNCHANGED <<registered, founded, present, roles, invitation>>

Replace(h) ==
    /\ hand[h].pc = "replace"
    /\ roles' = [roles EXCEPT ![hand[h].user] = (@ \ hand[h].doomed) \cup hand[h].ids]
    /\ hand' = [g \in Handlers |->
          IF g = h THEN Idle
          ELSE [hand[g] EXCEPT !.disturbed = @ \/ g \in Others(h)]]
    /\ UNCHANGED <<registered, founded, present, invitation>>

Abort(h) ==
    /\ hand[h].pc # "idle"
    /\ Finish(h)
    /\ UNCHANGED <<registered, founded, present, roles, invitation>>

----------------------------------------------------------------------------
Handle(h) ==
    \/ \E u \in Users, i \in Invitations : BeginAccept(h, u, i)
    \/ Find(h) \/ Claim(h) \/ Join(h) \/ Accept(h)
    \/ \E actor, u \in Users, ids \in Asked : BeginReplace(h, actor, u, ids)
    \/ Read(h) \/ Delete(h) \/ Wait(h) \/ Insert(h) \/ Replace(h) \/ Abort(h)

Next ==
    \/ \E u \in Users : Register(u) \/ CreateOrganization(u)
    \/ \E actor \in Users, key \in Custom : CreateRole(actor, key)
    \/ \E actor, u \in Users, i \in Invitations, role \in UNION Asked : Invite(actor, i, u, role)
    \/ \E i \in Invitations : Expire(i)
    \/ \E h \in Handlers : Handle(h)

Spec == Init /\ [][Next]_vars

----------------------------------------------------------------------------
\* An invitation is used up exactly by the membership it led to: whoever
\* accepted one is a member, and nobody has used two, though all of a user's
\* invitations may be accepted at the same time.
AcceptedIsMember ==
    /\ \A i \in Invitations : invitation[i].state = "ACCEPTED" => invitation[i].for \in Members
    /\ \A i, j \in Invitations :
          invitation[i].state = "ACCEPTED" /\ invitation[j].state = "ACCEPTED" /\ invitation[i].for = invitation[j].for
              => i = j

\* A replacement that no other replacement of the same membership overtook
\* leaves exactly the roles it names, and never takes the ownership from the
\* actor itself, whatever the actor's rights have become since its admission.
ReplacedAsAsked ==
    [][\A h \in Handlers :
          hand[h].pc = "replace" /\ roles' # roles /\ hand'[h].pc = "idle" /\ ~hand[h].disturbed
              => LET u == hand[h].user IN
                 /\ roles'[u] = hand[h].ids
                 /\ u = hand[h].actor /\ "owner" \in roles[u] => "owner" \in roles'[u]]_vars
=============================================================================
