------------------------------- MODULE Progress -------------------------------
(***************************************************************************)
(* hooks/useProgress.ts: the completed ids in localStorage, which all tabs *)
(* share, and each tab's cachedSnapshot, which only its own writes refresh.*)
(***************************************************************************)
EXTENDS KataList

CONSTANTS Absent,  \* no entry in localStorage
          Garbage  \* an entry that is not what the code writes

ASSUME ProgressAssumption == \A ids \in SUBSET Ids : ids \notin {Absent, Garbage}

VARIABLES raw,      \* the stored value: a set of ids, no entry, or what is not an array
          snapshot, \* cachedSnapshot of each tab
          earned    \* completions since the last reset (for the properties)

progress == <<raw, snapshot, earned>>

\* getSnapshot: whatever cannot be read counts as no progress.
GetSnapshot(value) == IF value \in {Absent, Garbage} THEN {} ELSE value

ProgressInit == /\ raw \in {Absent, Garbage} \cup SUBSET Former
                /\ snapshot = [t \in Tabs |-> GetSnapshot(raw)]
                /\ earned = GetSnapshot(raw)

\* (mutant) The tab is not told of its own write.
Persist_Quietly(t, ids) == raw' = ids /\ UNCHANGED snapshot

\* persist and emitChange
Persist(t, ids) == raw' = ids /\ snapshot' = [snapshot EXCEPT ![t] = ids]

\* (mutant) The kata is added to what the tab shows.
MarkCompleted_FromSnapshot(t, k) == /\ Persist(t, snapshot[t] \cup {k})
                                    /\ earned' = earned \cup {k}

\* A tab reads the store again before it writes.
MarkCompleted(t, k) == /\ Persist(t, GetSnapshot(raw) \cup {k})
                       /\ earned' = earned \cup {k}

ResetProgress(t) == Persist(t, {}) /\ earned' = {}

\* A page load evaluates the module again.
LoadProgress(t) == /\ snapshot' = [snapshot EXCEPT ![t] = GetSnapshot(raw)]
                   /\ UNCHANGED <<raw, earned>>

\* The user clears the site's data.
ClearProgress == raw' = Absent /\ earned' = {} /\ UNCHANGED snapshot
=============================================================================
