------------------------------- MODULE Catalog -------------------------------
(***************************************************************************)
(* What an organization maintains by hand under optimistic versions: its   *)
(* assets, its detection rules and its SLA policies (the resource, the     *)
(* detection and the incident repository).                                 *)
(*                                                                         *)
(* Creation runs under an idempotency record whose key an advisory lock    *)
(* serializes, and under a unique key of the item: one action.  The        *)
(* policies come with the organization.  An edit names the version its     *)
(* author has read, at any time before, and writes by one conditional      *)
(* UPDATE; nobody needs a version to archive an asset.                     *)
(***************************************************************************)
EXTENDS Naturals

CONSTANTS
    Assets, Rules, Policies,
    Keys,          \* Idempotency-Keys
    Authors,       \* PATCH requests, and the contents they write
    MaxVersion,    \* bound on the version column
    None

Items == Assets \cup Rules \cup Policies

VARIABLES
    item,          \* the rows, with version 0 before the insertion
    history,       \* detection_rule_versions
    record,        \* idempotency_records: what was created under a key
    patch          \* the PATCH requests

vars == <<item, history, record, patch>>

Rows == [version : 0..MaxVersion, content : Authors \cup {None}, active : BOOLEAN]

\* A row of detection_rule_versions; it does not say whether the rule is on.
VersionOf(row) == [version |-> row.version, content |-> row.content]

Missing == [version |-> 0, content |-> None, active |-> FALSE]

Idle == [on |-> None, seen |-> Missing]

TypeOK ==
    /\ item \in [Items -> Rows]
    /\ history \in [Rules -> SUBSET {VersionOf(row) : row \in Rows}]
    /\ record \in [Keys -> Items \cup {None}]
    /\ patch \in [Authors -> [on : Items \cup {None}, seen : Rows]]

Init ==
    /\ item = [i \in Items |->
          IF i \in Policies THEN [version |-> 1, content |-> None, active |-> TRUE] ELSE Missing]
    /\ history = [r \in Rules |-> {}]
    /\ record = [k \in Keys |-> None]
    /\ patch = [p \in Authors |-> Idle]

----------------------------------------------------------------------------
\* The row is written, and with that of a rule its new version.
Write(i, row) ==
    /\ item' = [item EXCEPT ![i] = row]
    /\ history' = IF i \in Rules THEN [history EXCEPT ![i] = @ \cup {VersionOf(row)}] ELSE history

\* createAsset or createRule, which makes a rule that is switched off.  A
\* key that is known is answered from its record, or refused; an item that
\* exists is a conflict.  Neither changes anything.
Create(k, i) ==
    /\ record[k] = None
    /\ item[i].version = 0
    /\ Write(i, [version |-> 1, content |-> None, active |-> i \in Assets])
    /\ record' = [record EXCEPT ![k] = i]
    /\ UNCHANGED patch

\* After 24 hours a record counts as none.
Forget(k) ==
    /\ record[k] # None
    /\ record' = [record EXCEPT ![k] = None]
    /\ UNCHANGED <<item, history, patch>>

----------------------------------------------------------------------------
\* A user opens the item in order to change it.
Open(p, i) ==
    /\ patch[p] = Idle
    /\ item[i].version > 0
    /\ patch' = [patch EXCEPT ![p] = [on |-> i, seen |-> item[i]]]
    /\ UNCHANGED <<item, history, record>>

\* The condition of the UPDATE.
UpToDate(p) == item[patch[p].on].version = patch[p].seen.version

\* The columns a PATCH names: contents, or whether the rule is switched on.
\* (Whether a policy is enabled is part of its contents.)
Changed(p, row) ==
    {[row EXCEPT !.version = @ + 1, !.content = p]}
        \cup {[row EXCEPT !.version = @ + 1, !.active = ~@] : r \in {patch[p].on} \cap Rules}

\* A plausible defect: the version of a rule is recorded as it was before the update.
SaveOldVersion(p) ==
    LET i == patch[p].on IN
    /\ i # None
    /\ \/ ~UpToDate(p) /\ UNCHANGED <<item, history>>
       \/ /\ UpToDate(p) /\ item[i].version < MaxVersion
          /\ \E row \in Changed(p, item[i]) : item' = [item EXCEPT ![i] = row]
          /\ history' = IF i \in Rules
                        THEN [history EXCEPT ![i] = @ \cup {VersionOf([item[i] EXCEPT !.version = @ + 1])}]
                        ELSE history
    /\ patch' = [patch EXCEPT ![p] = Idle]
    /\ UNCHANGED record

\* updateAsset, updateSlaPolicy, and mutateRule of updateRule and
\* setRuleEnabled.
Save(p) ==
    LET i == patch[p].on IN
    /\ i # None
    /\ \/ ~UpToDate(p) /\ UNCHANGED <<item, history>>
       \/ /\ UpToDate(p) /\ item[i].version < MaxVersion
          /\ \E row \in Changed(p, item[i]) : Write(i, row)
    /\ patch' = [patch EXCEPT ![p] = Idle]
    /\ UNCHANGED record

\* A plausible defect: the version stays.
ArchiveKeepingVersion(a) ==
    /\ item[a].version > 0
    /\ item' = [item EXCEPT ![a].active = FALSE]
    /\ UNCHANGED <<history, record, patch>>

\* archiveAsset: whatever its version, and however often.
Archive(a) ==
    /\ item[a].version \in 1..(MaxVersion - 1)
    /\ item' = [item EXCEPT ![a].active = FALSE, ![a].version = @ + 1]
    /\ UNCHANGED <<history, record, patch>>

Next ==
    \/ \E k \in Keys, i \in Assets \cup Rules : Create(k, i)
    \/ \E k \in Keys : Forget(k)
    \/ \E p \in Authors : Save(p) \/ \E i \in Items : Open(p, i)
    \/ \E a \in Assets : Archive(a)

Spec == Init /\ [][Next]_vars

----------------------------------------------------------------------------
\* No edit is lost: what a PATCH changes is what its author had read,
\* although others edit, switch and archive the item in between.
EditedAsSeen ==
    [][\A p \in Authors :
          patch[p] # Idle /\ patch'[p] = Idle /\ item' # item => item[patch[p].on] = patch[p].seen]_vars

\* The versions of a rule are its history without gaps or doubles, and the
\* last of them is the rule itself: alerts that name a version can be
\* explained by it, whoever edits the rule at the same time.
HistoryIsComplete ==
    \A r \in Rules :
        /\ {old.version : old \in history[r]} = 1..item[r].version
        /\ \A old, other \in history[r] : old.version = other.version => old = other
        /\ item[r].version > 0 => VersionOf(item[r]) \in history[r]
=============================================================================
