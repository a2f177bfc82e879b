------------------------------ MODULE HintPanel ------------------------------
(***************************************************************************)
(* components/HintPanel.tsx in each tab: how many hints are shown, which   *)
(* of them are folded, and the counts in localStorage that all tabs share. *)
(*                                                                         *)
(* A panel that stays mounted while its kata changes shows the old count   *)
(* until React runs the effect on kataId: it is "stale" in between.  One   *)
(* that is "mounted" has the count of its kata; its effect is to run, too. *)
(***************************************************************************)
EXTENDS Progress

CONSTANTS NumHints,   \* number of hints of each kata
          MaxStored,  \* bound: largest count found in storage
          None        \* no kata

ASSUME HintAssumption == /\ NumHints \in [Katas -> Nat]
                         /\ MaxStored \in Nat
                         /\ Garbage \notin [Katas -> Nat]
                         /\ None \notin Katas

VARIABLES hintState,     \* localStorage: the count of each kata; 0 is no entry
          panel,         \* "none", "mounted", "stale", "ready" or "crashed"
          panelKata,     \* the prop kataId
          visibleCount,
          collapsed,     \* collapsedHints
          foreign        \* another tab changed this kata's count since it was read here

hints == <<hintState, panel, panelKata, visibleCount, collapsed, foreign>>

Mounted(t) == panel[t] \in {"mounted", "stale", "ready"}

\* The hints on the screen: hints.slice(0, visibleCount)
Shown(t) == {i \in 1 .. NumHints[panelKata[t]] : i <= visibleCount[t]}

LoadHintState(state) == IF state = Garbage THEN [k \in Katas |-> 0] ELSE state

Count(k) == LoadHintState(hintState)[k]

HintsInit == /\ hintState \in [Katas -> 0 .. MaxStored] \cup {Garbage}
             /\ panel = [t \in Tabs |-> "none"]
             /\ panelKata = [t \in Tabs |-> None]
             /\ visibleCount = [t \in Tabs |-> 0]
             /\ collapsed = [t \in Tabs |-> {}]
             /\ foreign = [t \in Tabs |-> FALSE]

Put(t, count, folded, other) ==
    /\ visibleCount' = [visibleCount EXCEPT ![t] = count]
    /\ collapsed' = [collapsed EXCEPT ![t] = folded]
    /\ foreign' = [foreign EXCEPT ![t] = other]

\* The initial states; the effect of the mount is still to run.
MountPanel(t, k) == /\ panel' = [panel EXCEPT ![t] = "mounted"]
                    /\ panelKata' = [panelKata EXCEPT ![t] = k]
                    /\ Put(t, Count(k), {}, FALSE)
                    /\ UNCHANGED hintState

UnmountPanel(t, state) == /\ panel' = [panel EXCEPT ![t] = state]
                          /\ panelKata' = [panelKata EXCEPT ![t] = None]
                          /\ Put(t, 0, {}, FALSE)
                          /\ UNCHANGED hintState

\* The same panel is rendered for another kata.
SwitchKata(t, k) == /\ Mounted(t)
                    /\ k # panelKata[t]
                    /\ panel' = [panel EXCEPT ![t] = "stale"]
                    /\ panelKata' = [panelKata EXCEPT ![t] = k]
                    /\ UNCHANGED <<hintState, visibleCount, collapsed, foreign>>

\* (mutant) The effect leaves the folded hints as they are.
Reinitialise_KeepsFolds(t) == /\ panel[t] \in {"mounted", "stale"}
                              /\ panel' = [panel EXCEPT ![t] = "ready"]
                              /\ Put(t, Count(panelKata[t]), collapsed[t], FALSE)
                              /\ UNCHANGED <<hintState, panelKata>>

\* The effect on kataId.
Reinitialise(t) == /\ panel[t] \in {"mounted", "stale"}
                   /\ panel' = [panel EXCEPT ![t] = "ready"]
                   /\ Put(t, Count(panelKata[t]), {}, FALSE)
                   /\ UNCHANGED <<hintState, panelKata>>

\* The button is rendered while there are hints to show.
CanShowNext(t) == Mounted(t) /\ visibleCount[t] < NumHints[panelKata[t]]

\* (mutant) Only this kata's count is written back.
SaveHintState_OnlyThis(k, next) ==
    hintState' = [j \in Katas |-> IF j = k THEN next ELSE 0]

SaveHintState(k, next) == hintState' = [LoadHintState(hintState) EXCEPT ![k] = next]

\* showNextHint: the updater counts from what this tab shows and writes storage.
ShowNextHint(t) ==
    LET next == visibleCount[t] + 1 IN
    /\ CanShowNext(t)
    /\ SaveHintState(panelKata[t], next)
    /\ visibleCount' = [visibleCount EXCEPT ![t] = next]
    /\ foreign' = [u \in Tabs |->
           u # t /\ (foreign[u] \/ panelKata[u] = panelKata[t])]
    /\ UNCHANGED <<panel, panelKata, collapsed>>

\* setItem throws inside the updater: nothing catches it and React unmounts
\* the application.
ShowNextHintFails(t) == CanShowNext(t) /\ UnmountPanel(t, "crashed")

ToggleHint(t) ==
    /\ Mounted(t)
    /\ \E i \in Shown(t) :
          collapsed' = [collapsed EXCEPT ![t] = IF i \in @ THEN @ \ {i} ELSE @ \cup {i}]
    /\ UNCHANGED <<hintState, panel, panelKata, visibleCount, foreign>>

\* The user clears the site's data.
ClearHints == /\ hintState' = [k \in Katas |-> 0]
              /\ foreign' = [t \in Tabs |-> foreign[t] \/ Mounted(t)]
              /\ UNCHANGED <<panel, panelKata, visibleCount, collapsed>>
=============================================================================
