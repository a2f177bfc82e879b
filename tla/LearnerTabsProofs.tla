-------------------------- MODULE LearnerTabsProofs --------------------------
(***************************************************************************)
(* Invariants of LearnerTabs for any tabs, catalogue and numbers of hints. *)
(***************************************************************************)
EXTENDS LearnerTabs, FiniteSetTheorems, WellFoundedInduction, TLAPS

\* A panel that is up to date shows what a reload would show.
ShownIsStored == \A t \in Tabs : UpToDate(t) => visibleCount[t] = Count(panelKata[t])

IInv == TypeOK /\ StoredIsEarned /\ ShownIsStored /\ NextHintAppearsUnfolded
-----------------------------------------------------------------------------
LEMMA CountsProperties ==
  /\ 0 \in Counts /\ Counts \subseteq Nat
  /\ \A n \in 0 .. MaxStored : n \in Counts
  /\ \A k \in Katas, n \in Counts : n < NumHints[k] => n + 1 \in Counts
BY HintAssumption DEF Counts

\* What is read from storage is a count for each kata.
LEMMA LoadType ==
  ASSUME NEW state \in [Katas -> Counts] \cup {Garbage}
  PROVE  LoadHintState(state) \in [Katas -> Counts]
BY CountsProperties DEF LoadHintState

LEMMA GarbageIsNoCount == Garbage \notin [Katas -> Counts]
BY CountsProperties, HintAssumption

LEMMA CountType == ASSUME TypeOK, NEW k \in Katas PROVE Count(k) \in Counts
BY LoadType DEF TypeOK, Count

LEMMA GetSnapshotOfIds ==
  ASSUME NEW ids \in SUBSET Ids
  PROVE  GetSnapshot(ids) = ids
BY ProgressAssumption DEF GetSnapshot

LEMMA GetSnapshotType == TypeOK => GetSnapshot(raw) \in SUBSET Ids
BY DEF TypeOK, GetSnapshot
-----------------------------------------------------------------------------
(***************************************************************************)
(* Progress and hints meet only in the site's data being cleared: each     *)
(* half of the state has an invariant of its own.                          *)
(***************************************************************************)
ProgressOK == /\ raw \in (SUBSET Ids) \cup {Absent, Garbage}
              /\ snapshot \in [Tabs -> SUBSET Ids]
              /\ earned \subseteq Ids
              /\ StoredIsEarned

HintsOK == /\ hintState \in [Katas -> Counts] \cup {Garbage}
           /\ panel \in [Tabs -> {"none", "mounted", "stale", "ready", "crashed"}]
           /\ panelKata \in [Tabs -> Katas \cup {None}]
           /\ \A t \in Tabs : Mounted(t) <=> panelKata[t] # None
           /\ visibleCount \in [Tabs -> Counts]
           /\ collapsed \in [Tabs -> SUBSET (Nat \ {0})]
           /\ foreign \in [Tabs -> BOOLEAN]
           /\ ShownIsStored
           /\ NextHintAppearsUnfolded

LEMMA Halves == IInv <=> ProgressOK /\ HintsOK
BY DEF IInv, TypeOK, ProgressOK, HintsOK

\* Every write stores the ids that count as earned, and shows them.
LEMMA PersistOK ==
  ASSUME ProgressOK, NEW t \in Tabs, NEW ids \in SUBSET Ids, Persist(t, ids), earned' = ids
  PROVE  ProgressOK'
BY GetSnapshotOfIds DEF ProgressOK, Persist, StoredIsEarned

LEMMA CompleteOK ==
  ASSUME ProgressOK, NEW t \in Tabs, NEW k \in Katas, MarkCompleted(t, k)
  PROVE  ProgressOK'
<1>1. GetSnapshot(raw) \cup {k} \in SUBSET Ids /\ GetSnapshot(raw) = earned
  BY DEF ProgressOK, StoredIsEarned, Ids
<1> QED BY <1>1, PersistOK DEF MarkCompleted

LEMMA ProgressNext == ProgressOK /\ [Next]_vars => ProgressOK'
<1> SUFFICES ASSUME ProgressOK, [Next]_vars PROVE ProgressOK'
  OBVIOUS
<1>1. CASE \E t \in Tabs, k \in Katas : Complete(t, k)
  BY <1>1, CompleteOK DEF Complete
<1>2. CASE \E t \in Tabs : Reset(t)
  BY <1>2, PersistOK DEF Reset, ResetProgress
<1>3. CASE \E t \in Tabs : Reload(t)
  <2>1. GetSnapshot(raw) \in SUBSET Ids
    BY DEF ProgressOK, GetSnapshot
  <2> QED BY <1>3, <2>1 DEF Reload, LoadProgress, ProgressOK, StoredIsEarned
<1>4. CASE ClearSiteData
  BY <1>4 DEF ClearSiteData, ClearProgress, ProgressOK, StoredIsEarned, GetSnapshot
<1>5. CASE UNCHANGED progress
  BY <1>5 DEF progress, ProgressOK, StoredIsEarned
<1> QED
  BY <1>1, <1>2, <1>3, <1>4, <1>5 DEF Next, OpenPage, NextPage, LeavePage, Hinting, vars
-----------------------------------------------------------------------------
\* A step of one tab that leaves storage alone keeps every other panel.
LEMMA OnePanel ==
  ASSUME HintsOK, NEW t \in Tabs, NEW p, NEW k, NEW n, NEW folded, NEW other,
         hintState' = hintState,
         panel' = [panel EXCEPT ![t] = p], panelKata' = [panelKata EXCEPT ![t] = k],
         visibleCount' = [visibleCount EXCEPT ![t] = n],
         collapsed' = [collapsed EXCEPT ![t] = folded],
         foreign' = [foreign EXCEPT ![t] = other],
         p \in {"none", "mounted", "stale", "ready", "crashed"}, k \in Katas \cup {None},
         p \in {"mounted", "stale", "ready"} <=> k # None,
         n \in Counts, folded \subseteq 1 .. n, other \in BOOLEAN,
         (p \in {"mounted", "ready"} /\ ~other) => n = Count(k)
  PROVE  HintsOK'
<1>1. /\ panel' \in [Tabs -> {"none", "mounted", "stale", "ready", "crashed"}]
      /\ panelKata' \in [Tabs -> Katas \cup {None}]
      /\ visibleCount' \in [Tabs -> Counts]
      /\ foreign' \in [Tabs -> BOOLEAN]
      /\ hintState' \in [Katas -> Counts] \cup {Garbage}
  BY DEF HintsOK
<1>2. collapsed' \in [Tabs -> SUBSET (Nat \ {0})]
  <2>1. folded \in SUBSET (Nat \ {0})
    BY CountsProperties
  <2> QED BY <2>1 DEF HintsOK
<1>3. \A u \in Tabs : /\ Mounted(u)' <=> panelKata'[u] # None
                      /\ collapsed'[u] \subseteq 1 .. visibleCount'[u]
  BY DEF HintsOK, Mounted, NextHintAppearsUnfolded
<1>4. \A u \in Tabs : (panel'[u] \in {"mounted", "ready"} /\ ~foreign'[u])
                        => visibleCount'[u] = Count(panelKata'[u])
  BY DEF HintsOK, ShownIsStored, UpToDate
<1>5. \A j : Count(j)' = Count(j')
  BY DEF Count, LoadHintState
<1> QED
  BY <1>1, <1>2, <1>3, <1>4 DEF HintsOK, ShownIsStored, UpToDate, NextHintAppearsUnfolded, Count

LEMMA HintsInitOK == HintsInit => HintsOK
<1> SUFFICES ASSUME HintsInit PROVE HintsOK
  OBVIOUS
<1>1. hintState \in [Katas -> Counts] \cup {Garbage}
  BY CountsProperties DEF HintsInit
<1>2. /\ panel \in [Tabs -> {"none", "mounted", "stale", "ready", "crashed"}]
      /\ panelKata \in [Tabs -> Katas \cup {None}]
      /\ collapsed \in [Tabs -> SUBSET (Nat \ {0})]
      /\ foreign \in [Tabs -> BOOLEAN]
  BY DEF HintsInit
<1>3. visibleCount \in [Tabs -> Counts]
  BY CountsProperties DEF HintsInit
<1>4. /\ \A t \in Tabs : Mounted(t) <=> panelKata[t] # None
      /\ ShownIsStored /\ NextHintAppearsUnfolded
  BY DEF HintsInit, Mounted, ShownIsStored, UpToDate, NextHintAppearsUnfolded
<1> QED BY <1>1, <1>2, <1>3, <1>4 DEF HintsOK

\* The panel appears, goes, gets another kata or runs its effect.
LEMMA PanelSteps ==
  ASSUME HintsOK, NEW t \in Tabs,
         \/ \E k \in Katas : MountPanel(t, k) \/ SwitchKata(t, k)
         \/ UnmountPanel(t, "none") \/ ShowNextHintFails(t)
         \/ Reinitialise(t)
  PROVE  HintsOK'
<1>1. \A k \in Katas : Count(k) \in Counts
  BY LoadType DEF HintsOK, Count
<1>2. None \notin Katas /\ 0 \in Counts
  BY HintAssumption, CountsProperties
<1>3. ASSUME NEW k \in Katas, MountPanel(t, k) PROVE HintsOK'
  <2>1. Count(k) \in Counts /\ {} \subseteq 1 .. Count(k)
    BY <1>1
  <2> QED BY <1>2, <1>3, <2>1, OnePanel DEF MountPanel, Put
<1>4. ASSUME NEW k \in Katas, SwitchKata(t, k) PROVE HintsOK'
  <2>1. /\ visibleCount[t] \in Counts /\ collapsed[t] \subseteq 1 .. visibleCount[t]
        /\ foreign[t] \in BOOLEAN
        /\ visibleCount' = [visibleCount EXCEPT ![t] = visibleCount[t]]
        /\ collapsed' = [collapsed EXCEPT ![t] = collapsed[t]]
        /\ foreign' = [foreign EXCEPT ![t] = foreign[t]]
    BY <1>4 DEF HintsOK, NextHintAppearsUnfolded, SwitchKata
  <2> QED BY <1>2, <1>4, <2>1, OnePanel DEF SwitchKata
<1>5. ASSUME NEW state \in {"none", "crashed"}, UnmountPanel(t, state) PROVE HintsOK'
  <2>1. {} \subseteq 1 .. 0
    OBVIOUS
  <2> QED BY <1>2, <1>5, <2>1, OnePanel DEF UnmountPanel, Put
<1>6. CASE Reinitialise(t)
  <2>1. panelKata[t] \in Katas /\ panelKata' = [panelKata EXCEPT ![t] = panelKata[t]]
    BY <1>6 DEF Reinitialise, HintsOK, Mounted
  <2>2. Count(panelKata[t]) \in Counts /\ {} \subseteq 1 .. Count(panelKata[t])
    BY <1>1, <2>1
  <2> QED BY <1>2, <1>6, <2>1, <2>2, OnePanel DEF Reinitialise, Put
<1> QED BY <1>3, <1>4, <1>5, <1>6 DEF ShowNextHintFails

LEMMA ToggleOK ==
  ASSUME HintsOK, NEW t \in Tabs, ToggleHint(t)
  PROVE  HintsOK'
<1>1. PICK i \in Shown(t) :
         collapsed' = [collapsed EXCEPT ![t] = IF i \in @ THEN @ \ {i} ELSE @ \cup {i}]
  BY DEF ToggleHint
<1> DEFINE folded == IF i \in collapsed[t] THEN collapsed[t] \ {i} ELSE collapsed[t] \cup {i}
<1>2. panelKata[t] \in Katas /\ Mounted(t)
  BY DEF ToggleHint, HintsOK
<1>3. visibleCount[t] \in Counts /\ collapsed[t] \subseteq 1 .. visibleCount[t]
  BY DEF HintsOK, NextHintAppearsUnfolded
<1>4. i \in 1 .. visibleCount[t]
  BY <1>2, <1>3, CountsProperties, HintAssumption DEF Shown
<1>5. folded \subseteq 1 .. visibleCount[t]
  BY <1>3, <1>4
<1>6. collapsed' = [collapsed EXCEPT ![t] = folded]
  BY <1>1 DEF HintsOK
<1> HIDE DEF folded
<1>7. /\ hintState' = hintState
      /\ panel' = [panel EXCEPT ![t] = panel[t]]
      /\ panelKata' = [panelKata EXCEPT ![t] = panelKata[t]]
      /\ visibleCount' = [visibleCount EXCEPT ![t] = visibleCount[t]]
      /\ foreign' = [foreign EXCEPT ![t] = foreign[t]]
  BY DEF ToggleHint, HintsOK
<1>8. /\ panel[t] \in {"none", "mounted", "stale", "ready", "crashed"}
      /\ panel[t] \in {"mounted", "stale", "ready"} <=> panelKata[t] # None
      /\ foreign[t] \in BOOLEAN
      /\ (panel[t] \in {"mounted", "ready"} /\ ~foreign[t]) => visibleCount[t] = Count(panelKata[t])
  BY DEF HintsOK, Mounted, ShownIsStored, UpToDate
<1> QED BY <1>2, <1>3, <1>5, <1>6, <1>7, <1>8, OnePanel

\* One tab shows and stores its next hint; the others of the same kata hear
\* nothing of it, those of other katas find their count as it was.
LEMMA ShowNextOK ==
  ASSUME HintsOK, NEW t \in Tabs, ShowNextHint(t)
  PROVE  HintsOK'
<1> DEFINE next == visibleCount[t] + 1
           kata == panelKata[t]
<1>1. /\ Mounted(t) /\ kata \in Katas /\ visibleCount[t] < NumHints[kata]
      /\ hintState' = [LoadHintState(hintState) EXCEPT ![kata] = next]
      /\ visibleCount' = [visibleCount EXCEPT ![t] = next]
      /\ foreign' = [u \in Tabs |-> u # t /\ (foreign[u] \/ panelKata[u] = kata)]
      /\ UNCHANGED <<panel, panelKata, collapsed>>
  BY DEF ShowNextHint, CanShowNext, SaveHintState, HintsOK
<1>2. visibleCount[t] \in Counts /\ next \in Counts /\ next \in Nat
  BY <1>1, CountsProperties DEF HintsOK
<1>3. collapsed[t] \subseteq 1 .. next
  <2>1. collapsed[t] \subseteq 1 .. visibleCount[t]
    BY DEF HintsOK, NextHintAppearsUnfolded
  <2>2. 1 .. visibleCount[t] \subseteq 1 .. (visibleCount[t] + 1)
    <3>1. \A n \in Nat : 1 .. n \subseteq 1 .. (n + 1)
      OBVIOUS
    <3>2. visibleCount[t] \in Nat
      BY <1>2, CountsProperties
    <3> QED BY <3>1, <3>2
  <2> QED BY <2>1, <2>2
<1> HIDE DEF next, kata
<1>4. hintState' \in [Katas -> Counts] /\ hintState' # Garbage
  BY <1>1, <1>2, LoadType, GarbageIsNoCount DEF HintsOK
<1>5. hintState'[kata] = next /\ \A k \in Katas \ {kata} : hintState'[k] = Count(k)
  <2>1. LoadHintState(hintState) \in [Katas -> Counts]
    BY LoadType DEF HintsOK
  <2> QED BY <1>1, <2>1 DEF Count
<1>6. /\ visibleCount' \in [Tabs -> Counts] /\ foreign' \in [Tabs -> BOOLEAN]
      /\ visibleCount'[t] = next /\ \A u \in Tabs \ {t} : visibleCount'[u] = visibleCount[u]
  BY <1>1, <1>2 DEF HintsOK
<1>7. NextHintAppearsUnfolded'
  BY <1>1, <1>3, <1>6 DEF HintsOK, NextHintAppearsUnfolded
<1>8. ShownIsStored'
  <2> SUFFICES ASSUME NEW u \in Tabs, panel[u] \in {"mounted", "ready"}, ~foreign'[u]
               PROVE  visibleCount'[u] = hintState'[panelKata[u]]
    BY <1>1, <1>4 DEF ShownIsStored, UpToDate, Count, LoadHintState
  <2>1. CASE u = t
    BY <1>5, <1>6, <2>1 DEF kata
  <2>2. CASE u # t
    <3>1. ~foreign[u] /\ panelKata[u] # kata
      BY <1>1, <2>2
    <3>2. panelKata[u] \in Katas /\ visibleCount[u] = Count(panelKata[u])
      BY <3>1 DEF HintsOK, Mounted, ShownIsStored, UpToDate
    <3> QED BY <1>5, <1>6, <2>2, <3>1, <3>2
  <2> QED BY <2>1, <2>2
<1> QED BY <1>1, <1>4, <1>6, <1>7, <1>8 DEF HintsOK, Mounted

LEMMA ClearOK == HintsOK /\ ClearHints => HintsOK'
<1> SUFFICES ASSUME HintsOK, ClearHints PROVE HintsOK'
  OBVIOUS
<1>1. hintState' \in [Katas -> Counts] /\ foreign' \in [Tabs -> BOOLEAN]
  BY CountsProperties DEF ClearHints, HintsOK, Mounted
<1>2. ShownIsStored'
  BY DEF ClearHints, HintsOK, ShownIsStored, UpToDate, Mounted
<1> QED
  BY <1>1, <1>2 DEF ClearHints, HintsOK, Mounted, NextHintAppearsUnfolded

LEMMA HintsNext == HintsOK /\ [Next]_vars => HintsOK'
<1> SUFFICES ASSUME HintsOK, [Next]_vars PROVE HintsOK'
  OBVIOUS
<1>1. CASE UNCHANGED hints
  BY <1>1
  DEF hints, HintsOK, Mounted, ShownIsStored, UpToDate, NextHintAppearsUnfolded, Count, LoadHintState
<1>2. CASE \E t \in Tabs : \/ \E k \in Katas : OpenPage(t, k) \/ NextPage(t, k)
                           \/ LeavePage(t) \/ Reload(t)
  BY <1>2, PanelSteps DEF OpenPage, NextPage, LeavePage, Reload
<1>3. CASE \E t \in Tabs : Hinting(t)
  BY <1>3, PanelSteps, ToggleOK, ShowNextOK DEF Hinting
<1>4. CASE ClearSiteData
  BY <1>4, ClearOK DEF ClearSiteData
<1> QED BY <1>1, <1>2, <1>3, <1>4 DEF Next, vars, Complete, Reset
-----------------------------------------------------------------------------
THEOREM Invariance == Spec => []IInv
<1>1. Init => IInv
  <2>1. ProgressInit => ProgressOK
    BY DEF ProgressInit, ProgressOK, StoredIsEarned, GetSnapshot, Ids
  <2> QED BY <2>1, HintsInitOK, Halves DEF Init
<1>2. IInv /\ [Next]_vars => IInv'
  <2>1. (IInv <=> ProgressOK /\ HintsOK)'
    BY DEF IInv, TypeOK, ProgressOK, HintsOK
  <2> QED BY <2>1, Halves, ProgressNext, HintsNext
<1> QED BY <1>1, <1>2, PTL DEF Spec

\* The tabs' state and the two stored entries keep their shape.
THEOREM TypeCorrect == Spec => []TypeOK
<1>1. IInv => TypeOK
  BY DEF IInv
<1> QED BY <1>1, Invariance, PTL

\* No tab's write loses a completion made in another one, or revives one that
\* was reset there.
THEOREM StoredProgress == Spec => []StoredIsEarned
<1>1. IInv => StoredIsEarned
  BY DEF IInv
<1> QED BY <1>1, Invariance, PTL

\* Shown and stored hints agree in every panel that is up to date.
THEOREM HintsAreStored == Spec => []ShownIsStored
<1>1. IInv => ShownIsStored
  BY DEF IInv
<1> QED BY <1>1, Invariance, PTL

\* A click for the next hint changes the count of its kata, and adds one to it if
\* the panel is up to date.
LEMMA ShowNextCounts ==
  ASSUME IInv, NEW t \in Tabs, ShowNextHint(t), NEW k \in Katas
  PROVE  \/ Count(k)' = Count(k)
         \/ panelKata[t] = k /\ (UpToDate(t) => Count(k)' = Count(k) + 1)
<1>1. hintState' = [LoadHintState(hintState) EXCEPT ![panelKata[t]] = visibleCount[t] + 1]
  BY DEF ShowNextHint, SaveHintState
<1>2. LoadHintState(hintState) \in [Katas -> Counts] /\ visibleCount[t] \in Nat
  BY LoadType, CountsProperties DEF IInv, TypeOK
<1>3. hintState' # Garbage
  <2>1. LoadHintState(hintState) \in [Katas -> Nat]
    BY <1>2, CountsProperties
  <2>2. \A n \in Nat : [LoadHintState(hintState) EXCEPT ![panelKata[t]] = n] \in [Katas -> Nat]
    BY <2>1
  <2>3. visibleCount[t] + 1 \in Nat
    BY <1>2
  <2> QED BY <1>1, <2>2, <2>3, HintAssumption
<1>4. Count(k)' = hintState'[k] /\ Count(k) = LoadHintState(hintState)[k]
  BY <1>3 DEF Count, LoadHintState
<1>5. UpToDate(t) => visibleCount[t] = Count(panelKata[t])
  BY DEF IInv, ShownIsStored
<1> QED BY <1>1, <1>2, <1>4, <1>5

\* Only a click for the next hint, or clearing the site's data, changes what is
\* stored of the hints.
LEMMA OnlyClicksCount ==
  ASSUME [Next]_vars, ~ClearSiteData, ~(\E t \in Tabs : ShowNextHint(t))
  PROVE  hintState' = hintState
BY DEF Next, vars, hints, OpenPage, MountPanel, NextPage, SwitchKata, Complete, LeavePage,
       UnmountPanel, Reload, Reset, Hinting, Reinitialise, ToggleHint, ShowNextHintFails

\* A stored count grows with the hints that are asked for, and never shrinks but
\* by a click in a panel that is not up to date.
THEOREM HintsGrow == Spec => HintsAreOnlyAdded
<1> DEFINE Grows == \/ ClearSiteData
                    \/ \A k \in Katas :
                          \/ Count(k)' = Count(k)
                          \/ \E t \in Tabs : /\ ShowNextHint(t) /\ panelKata[t] = k
                                             /\ UpToDate(t) => Count(k)' = Count(k) + 1
<1>1. IInv /\ [Next]_vars => [Grows]_vars
  <2> SUFFICES ASSUME IInv, [Next]_vars, ~ClearSiteData, NEW k \in Katas
               PROVE  \/ Count(k)' = Count(k)
                      \/ \E t \in Tabs : /\ ShowNextHint(t) /\ panelKata[t] = k
                                         /\ UpToDate(t) => Count(k)' = Count(k) + 1
    OBVIOUS
  <2>1. CASE \E t \in Tabs : ShowNextHint(t)
    BY <2>1, ShowNextCounts
  <2>2. CASE ~(\E t \in Tabs : ShowNextHint(t))
    BY <2>2, OnlyClicksCount DEF Count, LoadHintState
  <2> QED BY <2>1, <2>2
<1> QED BY <1>1, Invariance, PTL DEF Spec, HintsAreOnlyAdded

\* A hint that is shown for the first time is not folded.
THEOREM HintsAppearUnfolded == Spec => []NextHintAppearsUnfolded
<1>1. IInv => NextHintAppearsUnfolded
  BY DEF IInv
<1> QED BY <1>1, Invariance, PTL
-----------------------------------------------------------------------------
\* The first kata that is not completed has its prerequisites completed.
LEMMA SomeKataIsOpen ==
  ASSUME NEW completed, ~(Katas \subseteq completed)
  PROVE  \E k \in Katas : Icon(k, completed) = "open"
<1> DEFINE rest == Katas \ completed
<1>1. rest \subseteq Nat /\ rest # {}
  BY CatalogueAssumption DEF Katas
<1>2. PICK k \in rest : \A j \in rest : ~(<<j, k>> \in OpToRel(<, Nat))
  BY <1>1, NatLessThanWellFounded, WFMin
<1>3. \A p \in Prerequisites[k] : p \in completed
  <2> SUFFICES ASSUME NEW p \in Prerequisites[k], p \notin completed PROVE FALSE
    OBVIOUS
  <2>1. p \in Katas /\ p < k
    BY CatalogueAssumption
  <2>2. <<p, k>> \in OpToRel(<, Nat)
    BY <1>1, <2>1 DEF OpToRel
  <2> QED BY <1>2, <2>1, <2>2
<1> QED BY <1>3 DEF Icon, PrerequisitesMet

\* The list never leaves the learner without a kata to go on with.
THEOREM NeverStuck == Spec => []SomethingIsOpen
<1>1. IInv => SomethingIsOpen
  BY SomeKataIsOpen DEF SomethingIsOpen
<1> QED BY <1>1, Invariance, PTL

LEMMA FullBar ==
  ASSUME NEW n \in Nat \ {0}, NEW c \in Nat, c >= n
  PROVE  (200 * c + n) \div (2 * n) >= 100
OBVIOUS

\* Whoever completes the last kata sees it, in whatever tabs the others were
\* completed.
THEOREM LastIsCelebrated == Spec => LastCompletionIsCelebrated
<1> DEFINE Celebrated == \A t \in Tabs, k \in Katas :
                            (Complete(t, k) /\ Katas \subseteq earned')
                              => IsAllClear(snapshot'[t]) /\ Percent(snapshot'[t]) >= 100
<1>1. IInv /\ [Next]_vars => [Celebrated]_vars
  <2> SUFFICES ASSUME IInv, NEW t \in Tabs, NEW k \in Katas, Complete(t, k),
                      Katas \subseteq earned'
               PROVE  IsAllClear(snapshot'[t]) /\ Percent(snapshot'[t]) >= 100
    OBVIOUS
  <2>1. snapshot'[t] = earned'
    BY DEF Complete, MarkCompleted, Persist, IInv, TypeOK, StoredIsEarned
  <2>2. earned' \subseteq Ids
    BY DEF Complete, MarkCompleted, IInv, TypeOK, Ids
  <2>3. NumKatas \in Nat \ {0} /\ IsFiniteSet(Katas) /\ Cardinality(Katas) = NumKatas
    BY CatalogueAssumption, FS_Interval DEF Katas
  <2>4. IsFiniteSet(earned')
    <3>1. IsFiniteSet(Ids)
      BY <2>3, CatalogueAssumption, FS_Union DEF Ids
    <3> QED BY <2>2, <3>1, FS_Subset
  <2>5. Cardinality(earned') \in Nat /\ NumKatas =< Cardinality(earned')
    BY <2>3, <2>4, FS_Subset, FS_CardinalityType
  <2>6. IsAllClear(earned')
    BY <2>3, <2>5 DEF IsAllClear
  <2>7. (200 * Cardinality(earned') + NumKatas) \div (2 * NumKatas) >= 100
    BY <2>3, <2>5, FullBar
  <2> QED BY <2>1, <2>3, <2>6, <2>7 DEF Percent
<1> QED BY <1>1, Invariance, PTL DEF Spec, LastCompletionIsCelebrated
-----------------------------------------------------------------------------
(***************************************************************************)
(* Both the banner and the bar go by numbers, not by ids.  Without ids of  *)
(* an earlier catalogue that is as good, as long as rounding does not fill *)
(* the bar too early: with 200 katas, 199 of them round to 100 per cent.   *)
(***************************************************************************)
BannerAndBarAreTrue ==
    \A t \in Tabs : /\ IsAllClear(snapshot[t]) <=> Katas \subseteq snapshot[t]
                    /\ Percent(snapshot[t]) \in 0 .. 100
                    /\ Percent(snapshot[t]) = 100 <=> Katas \subseteq snapshot[t]

LEMMA HonestBar ==
  ASSUME NEW n \in 1 .. 199, NEW c \in 0 .. n
  PROVE  /\ (200 * c + n) \div (2 * n) \in 0 .. 100
         /\ (200 * c + n) \div (2 * n) = 100 <=> c = n
<1> DEFINE q == (200 * c + n) \div (2 * n)
           r == (200 * c + n) % (2 * n)
<1>1. /\ q \in Nat /\ r \in 0 .. (2 * n - 1)
      /\ 200 * c + n = 2 * n * q + r
  OBVIOUS
<1> HIDE DEF q, r
<1>2. q =< 100
  <2> SUFFICES ASSUME q >= 101 PROVE FALSE
    BY <1>1
  <2>1. 2 * n * q >= 202 * n
    BY <1>1
  <2> QED BY <1>1, <2>1
<1>3. ASSUME c = n PROVE q = 100
  <2>1. q >= 100
    <3> SUFFICES ASSUME q =< 99 PROVE FALSE
      BY <1>1
    <3>1. 2 * n * q =< 198 * n
      BY <1>1
    <3> QED BY <1>1, <1>3, <3>1
  <2> QED BY <1>1, <1>2, <2>1
<1>4. ASSUME q = 100 PROVE c = n
  <2>1. 200 * c + n >= 200 * n
    BY <1>1, <1>4
  <2> QED BY <2>1
<1> QED BY <1>1, <1>2, <1>3, <1>4 DEF q

\* With today's catalogue "All Clear" and the full bar appear in a tab exactly
\* when the tab shows every kata as completed.
THEOREM BannerIsTrue ==
  ASSUME Former = {}, NumKatas \in 1 .. 199
  PROVE  Spec => []BannerAndBarAreTrue
<1>1. IInv => BannerAndBarAreTrue
  <2> SUFFICES ASSUME IInv, NEW t \in Tabs
               PROVE  /\ IsAllClear(snapshot[t]) <=> Katas \subseteq snapshot[t]
                      /\ Percent(snapshot[t]) \in 0 .. 100
                      /\ Percent(snapshot[t]) = 100 <=> Katas \subseteq snapshot[t]
    BY DEF BannerAndBarAreTrue
  <2> DEFINE shown == snapshot[t]
             c == Cardinality(shown)
  <2>1. shown \subseteq Katas
    BY DEF IInv, TypeOK, Ids
  <2>2. IsFiniteSet(Katas) /\ Cardinality(Katas) = NumKatas
    BY CatalogueAssumption, FS_Interval DEF Katas
  <2>3. IsFiniteSet(shown) /\ c \in Nat /\ c =< NumKatas
    BY <2>1, <2>2, FS_Subset, FS_CardinalityType
  <2>4. c = NumKatas <=> Katas \subseteq shown
    <3>1. ASSUME c = NumKatas PROVE shown = Katas
      BY <2>1, <2>2, <3>1, FS_Subset
    <3>2. ASSUME Katas \subseteq shown PROVE c = NumKatas
      <4>1. shown = Katas
        BY <2>1, <3>2
      <4> QED BY <2>2, <4>1
    <3> QED BY <3>1, <3>2
  <2>5. c \in 0 .. NumKatas
    BY <2>3
  <2> HIDE DEF shown, c
  <2>6. IsAllClear(shown) <=> c = NumKatas
    BY <2>3 DEF IsAllClear, c
  <2>7. Percent(shown) = (200 * c + NumKatas) \div (2 * NumKatas)
    BY DEF Percent, c
  <2>8. Percent(shown) \in 0 .. 100 /\ (Percent(shown) = 100 <=> c = NumKatas)
    BY <2>5, <2>7, HonestBar
  <2> QED BY <2>4, <2>6, <2>8 DEF shown
<1> QED BY <1>1, Invariance, PTL
=============================================================================
