----------------------------- MODULE LearnerTabs -----------------------------
(***************************************************************************)
(* A learner's tabs on the same localStorage: the list and the kata pages  *)
(* show progress, a kata page has the hint panel.  A step is one turn of   *)
(* the event loop of one tab.                                              *)
(***************************************************************************)
EXTENDS HintPanel

vars == <<progress, hints>>

Init == ProgressInit /\ HintsInit

\* The query cache has no detail of kata k yet, or the tab shows the list, or
\* a page that is still being loaded.
LeavePage(t) == /\ Mounted(t)
                /\ UnmountPanel(t, "none")
                /\ UNCHANGED progress

OpenPage(t, k) == panel[t] = "none" /\ MountPanel(t, k) /\ UNCHANGED progress

\* The link to the next or the previous kata, whose detail is in the cache.
NextPage(t, k) == SwitchKata(t, k) /\ UNCHANGED progress

\* The only way out of a crash.
Reload(t) == UnmountPanel(t, "none") /\ LoadProgress(t)

\* The answer to a submission is applied by the tab that made it, whatever page
\* it shows by then, also after a crash of the page.
Complete(t, k) == MarkCompleted(t, k) /\ UNCHANGED hints

\* No component calls it; it is part of what the hook offers.
Reset(t) == ResetProgress(t) /\ UNCHANGED hints

ClearSiteData == ClearProgress /\ ClearHints

Hinting(t) == /\ \/ Reinitialise(t) \/ ToggleHint(t)
                 \/ ShowNextHint(t) \/ ShowNextHintFails(t)
              /\ UNCHANGED progress

Next == \/ \E t \in Tabs : \/ \E k \in Katas : OpenPage(t, k) \/ NextPage(t, k) \/ Complete(t, k)
                           \/ LeavePage(t) \/ Reload(t) \/ Reset(t) \/ Hinting(t)
        \/ ClearSiteData

Spec == Init /\ [][Next]_vars
-----------------------------------------------------------------------------
Counts == {n \in Nat : n =< MaxStored \/ \E k \in Katas : n =< NumHints[k]}

\* The state's shape; no click leads beyond the hints there are, or the count
\* that an earlier catalogue left in storage.
TypeOK ==
    /\ raw \in (SUBSET Ids) \cup {Absent, Garbage}
    /\ snapshot \in [Tabs -> SUBSET Ids]
    /\ earned \subseteq Ids
    /\ hintState \in [Katas -> Counts] \cup {Garbage}
    /\ panel \in [Tabs -> {"none", "mounted", "stale", "ready", "crashed"}]
    /\ panelKata \in [Tabs -> Katas \cup {None}]
    /\ \A t \in Tabs : Mounted(t) <=> panelKata[t] # None
    /\ visibleCount \in [Tabs -> Counts]
    /\ collapsed \in [Tabs -> SUBSET (Nat \ {0})]
    /\ foreign \in [Tabs -> BOOLEAN]

\* Storage holds what was completed since the last reset, in whichever tabs and
\* after whatever reset: a tab that has not noticed the reset, or the other
\* tab's completion, neither undoes nor loses it.
StoredIsEarned == GetSnapshot(raw) = earned

\* Whatever a tab shows as completed, the list offers it a kata that is neither
\* completed nor locked, unless all are completed.
SomethingIsOpen ==
    \A t \in Tabs : \/ Katas \subseteq snapshot[t]
                    \/ \E k \in Katas : Icon(k, snapshot[t]) = "open"

\* The tab in which the last kata is completed shows "All Clear" and a full bar
\* at once, also if the other katas were completed in other tabs.
LastCompletionIsCelebrated ==
    [][\A t \in Tabs, k \in Katas :
          (Complete(t, k) /\ Katas \subseteq earned')
              => IsAllClear(snapshot'[t]) /\ Percent(snapshot'[t]) >= 100]_vars

\* The panel has read the count of its kata, and no other tab has changed it since.
UpToDate(t) == panel[t] \in {"mounted", "ready"} /\ ~foreign[t]

\* Hints that were shown stay stored, for the next reload, whatever the tabs click,
\* switch, complete or fail to write: a kata's count changes only by a click for
\* its next hint, and by one.  The code makes two exceptions, in which the click
\* stores what its tab shows plus one, so that the count may shrink: another tab
\* has shown hints of this kata since, and the effect on kataId is still to run.
HintsAreOnlyAdded ==
    [][\/ ClearSiteData
       \/ \A k \in Katas :
             \/ Count(k)' = Count(k)
             \/ \E t \in Tabs : /\ ShowNextHint(t) /\ panelKata[t] = k
                                /\ UpToDate(t) => Count(k)' = Count(k) + 1]_vars

\* A hint that is not on the screen is not folded: the next hint never appears
\* folded, although the folds of the previous kata stay until the effect.
NextHintAppearsUnfolded ==
    \A t \in Tabs : collapsed[t] \subseteq 1 .. visibleCount[t]
=============================================================================
