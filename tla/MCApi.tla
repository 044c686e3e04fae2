------------------------------- MODULE MCApi -------------------------------
(***************************************************************************)
(* Small instances of Ingestion, Connectors, Evidence and Catalog, checked *)
(* one after the other and after those of MCIdentity: an initial state     *)
(* chooses the scene, and the components that are not in it wait in an     *)
(* initial state of theirs.  The model values a and b stand for one thing  *)
(* in one scene and for another in the next.                               *)
(*                                                                         *)
(* Ingestion: a request and its retry under one key, the same event with a *)
(* corrected payload under another key, and another request that reuses    *)
(* the first key.                                                          *)
(***************************************************************************)
EXTENDS MCIdentity, FiniteSets

CONSTANTS
    a1, a2, b1, b2, r3, r4,
    Deliveries, KeyOf, BodyOf, SourceOf, Malformed, Workers,
    ApiKeys, WebhookSecrets, IssueKeys, RotationKeys, Administrators, Events, MaxVersion,
    Files, Harmful, UploadKeys, Inspectors,
    Assets, Rules, Policies, CatalogKeys, Authors, MaxItemVersion

VARIABLES
    active, pc, found, answer, record, raw, normalized, announced, attempt,
    status, version, cred, issued, admin, event,
    evidence, upload, url, object, inspector, entries,
    item, history, created, patch

ingestionVars == <<active, pc, found, answer, record, raw, normalized, announced, attempt>>
connectorVars == <<status, version, cred, issued, admin, event>>
evidenceVars  == <<evidence, upload, url, object, inspector, entries>>
catalogVars   == <<item, history, created, patch>>

G == INSTANCE Ingestion WITH Requests <- Deliveries

C == INSTANCE Connectors WITH Secrets <- WebhookSecrets, Requests <- Administrators,
       req <- admin, record <- issued

E == INSTANCE Evidence WITH Keys <- UploadKeys, row <- evidence, record <- upload

I == INSTANCE Catalog WITH Keys <- CatalogKeys, record <- created, MaxVersion <- MaxItemVersion

ASSUME IngestionAssumption ==
    /\ BodyOf \in [Deliveries -> G!Bodies]
    /\ KeyOf \in [Deliveries -> G!Keys]
    /\ Malformed \subseteq G!Bodies
    /\ None \notin Deliveries
    /\ None \notin G!Receipts \cup G!Records \cup G!Failures \cup G!Undecided \cup G!Decided

ASSUME ConnectorAssumption ==
    /\ MaxVersion \in Nat \ {0}
    /\ ApiKeys \cap WebhookSecrets = {}
    /\ None \notin Administrators \cup IssueKeys \cup RotationKeys

ASSUME CatalogAssumption ==
    /\ MaxItemVersion \in Nat \ {0}
    /\ Assets \cap Rules = {} /\ Assets \cap Policies = {} /\ Rules \cap Policies = {}

MCKeyOf    == a1 :> "k1" @@ a2 :> "k1" @@ r3 :> "k2" @@ r4 :> "k1"
MCBodyOf   == a1 :> "b1" @@ a2 :> "b1" @@ r3 :> "b2" @@ r4 :> "b3"
MCSourceOf == "b1" :> "s1" @@ "b2" :> "s1" @@ "b3" :> None

\* All webhook secrets, or two of them and API keys.
ConnectorScenes == {"rotations", "connectors"}

ApiScenes == {"ingestion", "evidence", "catalog"} \cup ConnectorScenes

SceneInit ==
    /\ scene \in IdentityScenes \cup ApiScenes
    /\ IdentityInit
    /\ G!Init
    /\ C!Init
    /\ E!Init
    /\ I!Init

SceneNext ==
    \/ IdentityNext /\ UNCHANGED <<ingestionVars, connectorVars, evidenceVars, catalogVars>>
    \/ /\ scene = "ingestion"
       /\ G!Next
       /\ UNCHANGED <<identityVars, connectorVars, evidenceVars, catalogVars>>
    \/ /\ scene \in ConnectorScenes
       /\ C!Next
       /\ IF scene = "rotations"
          THEN \A c \in ApiKeys : cred'[c] = "none"
          ELSE Cardinality({c \in WebhookSecrets : cred'[c] # "none"}) <= 2
       /\ UNCHANGED <<identityVars, ingestionVars, evidenceVars, catalogVars>>
    \/ /\ scene = "evidence"
       /\ E!Next
       /\ UNCHANGED <<identityVars, ingestionVars, connectorVars, catalogVars>>
    \/ /\ scene = "catalog"
       /\ I!Next
       /\ UNCHANGED <<identityVars, ingestionVars, connectorVars, evidenceVars>>

SceneSpec ==
    SceneInit /\ [][SceneNext]_<<identityVars, ingestionVars, connectorVars, evidenceVars, catalogVars>>

\* The variables that move in the scene.
View ==
    <<scene,
      CASE scene = "session"            -> sessionVars
        [] scene = "login"              -> loginVars
        [] scene \in MembershipScenes   -> membershipVars
        [] scene = "ingestion"          -> ingestionVars
        [] scene \in ConnectorScenes    -> connectorVars
        [] scene = "evidence"           -> evidenceVars
        [] scene = "catalog"            -> catalogVars>>

----------------------------------------------------------------------------
\* The rows, the requests and the objects have their types in every scene.
ApiTypesOK == G!TypeOK /\ C!TypeOK /\ E!TypeOK /\ I!TypeOK

\* Ingestion: the receipt a client gets, under a key or without, is that of
\* an event like its own.
ReceiptIsTheirs == G!ReceiptIsTheirs

\* Ingestion: one event has one receipt, whatever keys it comes under.
OneReceiptPerEvent == G!OneReceiptPerEvent

\* Ingestion: an event is announced once, with its normalized events.
AnnouncedOnce == G!AnnouncedOnce

\* Connectors: an Idempotency-Key issues one credential, and rotations never
\* leave only secrets that run out.
CredentialsAreSound == C!OneCredentialPerKey /\ C!RotationLeavesASecret

\* Connectors: DELETE revokes what authenticated when it was asked for, and no
\* event is stored for a connector that is disabled.
DisabledIsCutOff == C!DisableRevokesAll /\ C!StoredWhileActive

\* Connectors: what the threat model says of a disabled connector; PATCH, and
\* credentials issued during or after DELETE, break it.
DisabledHasNoCredential == C!DisabledHasNoCredential

\* Evidence: a file is announced exactly when it is available, however its
\* inspections overlap, and a harmful one never is.
EvidenceIsDecidedOnce == E!AttachedOnce /\ E!HarmfulIsRefused

\* Evidence: what the API says of a download; an upload after the inspection
\* breaks it.
AvailableIsSound == E!AvailableIsSound

\* Catalog: an edit changes what its author had read.
EditedAsSeen == I!EditedAsSeen

\* Catalog: the versions of a rule are its complete history.
HistoryIsComplete == I!HistoryIsComplete
=============================================================================
