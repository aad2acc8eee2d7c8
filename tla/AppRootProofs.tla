---------------------------- MODULE AppRootProofs ----------------------------
(***************************************************************************)
(* Proofs about AppRoot, for any number of tabs, any themes and any        *)
(* interfaces that come and go: whatever is clicked, minimised, restarted  *)
(* and chosen in whatever order, tab bar, settings button and page agree,  *)
(* and the settings page shows what the settings service keeps.            *)
(*                                                                         *)
(* The pages are never reordered or replaced, not even by the restart of a *)
(* tab (Stacked), so a row and its page have one number.  A combo box may  *)
(* be filled at any time (AboutToShowPopup, RebuildTimer), also before the *)
(* options it had are out of date; what it selects depends only on what is *)
(* kept and what it offers (Selected).                                     *)
(***************************************************************************)
EXTENDS AppRoot, SequenceTheorems, TLAPS

\* The views of the tabs by row, and the settings after them.
Pages == Append([i \in 1 .. LastRow + 1 |-> <<i - 1, 0>>], SettingsPage)

Stacked == phase = "running" => m_contentStack = Pages

\* Which page is shown, by its number.
RowIsPage ==
  phase = "running" =>
    /\ m_lastTabIndex \in Rows
    /\ IF m_settingsActive
         THEN currentIndex = NoRow /\ shown = LastRow + 1
         ELSE currentIndex \in Rows /\ shown = currentIndex /\ m_lastTabIndex = currentIndex

\* A combo box, as it was filled or as something was chosen in it since.
Selected(k) ==
  combos[k].index = IF m_values[k] \in combos[k].options THEN m_values[k] ELSE Unset

SettingsInv ==
  /\ m_values = [k \in Settings |-> m_values[k]]
  /\ combos = [k \in Settings |-> [options |-> combos[k].options, index |-> combos[k].index]]
  /\ phase = "running" => m_colors = m_values["theme"] /\ \A k \in Settings : Selected(k)

AppInv ==
  /\ phase \in {"new", "running", "ended"}
  /\ Stacked
  /\ RowIsPage
  /\ SettingsInv

\* The page of a row is the view of its tab; the page after the last row is the settings.
LEMMA PageOfRow ==
  /\ Len(Pages) = LastRow + 2
  /\ \A r \in Rows : Pages[r + 1] = <<r, 0>> /\ <<r, 0>> # SettingsPage
  /\ Pages[LastRow + 2] = SettingsPage
<1> DEFINE views == [i \in 1 .. LastRow + 1 |-> <<i - 1, 0>>]
           Any == (Nat \union {NoRow}) \X {0}
<1>1. LastRow \in Nat
  BY AppAssumption
<1>2. views \in Seq(Any) /\ Len(views) = LastRow + 1
  <2>1. \A i \in 1 .. LastRow + 1 : <<i - 1, 0>> \in Any
    BY <1>1
  <2>2. LastRow + 1 \in Nat
    BY <1>1
  <2> HIDE DEF Any
  <2>3. QED
    BY <2>1, <2>2
<1>3. \A r \in Rows : views[r + 1] = <<r, 0>>
  <2>1. \A r \in Rows : r + 1 \in 1 .. LastRow + 1 /\ (r + 1) - 1 = r
    BY <1>1 DEF Rows
  <2>2. QED
    BY <2>1
<1>4. SettingsPage \in Any
  BY DEF SettingsPage
<1> HIDE DEF views, Any
<1>5. Pages = Append(views, SettingsPage)
  BY DEF Pages, views
<1>6. Len(Pages) = LastRow + 2 /\ Pages[LastRow + 2] = SettingsPage
  BY <1>1, <1>2, <1>4, <1>5, AppendProperties
<1>7. \A r \in Rows : Pages[r + 1] = views[r + 1]
  <2>1. \A r \in Rows : r + 1 \in 1 .. LastRow + 1
    BY <1>1 DEF Rows
  <2>2. QED
    BY <1>1, <1>2, <1>4, <1>5, <2>1, AppendProperties
<1>8. \A r \in Rows : <<r, 0>> # SettingsPage
  BY <1>1 DEF Rows, SettingsPage, NoRow
<1>9. QED
  BY <1>3, <1>6, <1>7, <1>8

LEMMA AppStart == Init => AppInv
<1> SUFFICES ASSUME Init PROVE AppInv
  OBVIOUS
<1>1. phase = "new"
  BY DEF Init
<1>2. m_values = [k \in Settings |-> m_values[k]]
  BY DEF Init
<1>3. combos = [k \in Settings |-> [options |-> combos[k].options, index |-> combos[k].index]]
  BY DEF Init
<1>4. QED
  BY <1>1, <1>2, <1>3 DEF AppInv, Stacked, RowIsPage, SettingsInv

-----------------------------------------------------------------------------
(***************************************************************************)
(* The pages.                                                              *)
(***************************************************************************)

\* A row that is selected is shown.
LEMMA TabShown ==
  ASSUME NEW row \in Rows, m_contentStack' = Pages, HandleTabChanged(row), currentIndex' = row
  PROVE  RowIsPage'
<1>1. row < Len(m_contentStack') - 1
  BY PageOfRow, AppAssumption DEF Rows
<1>2. m_settingsActive' = FALSE /\ m_lastTabIndex' = row /\ shown' = row
  BY <1>1 DEF HandleTabChanged
<1>3. QED
  BY <1>2 DEF RowIsPage

LEMMA PagesStep == AppInv /\ [Next]_vars => Stacked' /\ RowIsPage'
<1> SUFFICES ASSUME AppInv, [Next]_vars PROVE Stacked' /\ RowIsPage'
  OBVIOUS
<1>1. ASSUME UNCHANGED pageVars, UNCHANGED m_contentStack,
             phase' = "running" => phase = "running"
      PROVE  Stacked' /\ RowIsPage'
  BY <1>1 DEF AppInv, Stacked, RowIsPage, pageVars
<1>2. 0 \in Rows
  BY AppAssumption DEF Rows
<1>3. ASSUME NEW isDark \in BOOLEAN, Bootstrap(isDark)
      PROVE  Stacked' /\ RowIsPage'
  <2>1. m_contentStack' = Pages /\ currentIndex' = 0 /\ HandleTabChanged(0)
    BY <1>3 DEF Bootstrap, Pages
  <2>2. QED
    BY <1>2, <2>1, TabShown DEF Stacked
<1>4. ASSUME NEW row \in Rows, CurrentRowChanged(row)
      PROVE  Stacked' /\ RowIsPage'
  <2>1. /\ phase = "running" /\ m_contentStack' = m_contentStack
        /\ currentIndex' = row /\ HandleTabChanged(row)
    BY <1>4 DEF CurrentRowChanged, lifeVars
  <2>2. m_contentStack' = Pages
    BY <2>1 DEF AppInv, Stacked
  <2>3. QED
    BY <2>1, <2>2, TabShown DEF Stacked
<1>5. CASE ShowEvent
  <2>1. /\ phase = "running" /\ m_contentStack' = m_contentStack
        /\ currentIndex' = 0 /\ HandleTabChanged(0)
    BY <1>5 DEF ShowEvent, lifeVars
  <2>2. m_contentStack' = Pages
    BY <2>1 DEF AppInv, Stacked
  <2>3. QED
    BY <1>2, <2>1, <2>2, TabShown DEF Stacked
<1>6. CASE OnSettingsClicked
  <2>1. phase = "running" /\ phase' = phase /\ m_contentStack' = m_contentStack
    BY <1>6 DEF OnSettingsClicked, lifeVars
  <2>2. m_contentStack = Pages /\ Stacked'
    BY <2>1 DEF AppInv, Stacked
  <2>3. CASE m_settingsActive
    <3>1. /\ m_settingsActive' = FALSE /\ m_lastTabIndex' = m_lastTabIndex
          /\ currentIndex' = m_lastTabIndex /\ shown' = m_lastTabIndex
      BY <1>6, <2>3 DEF OnSettingsClicked
    <3>2. m_lastTabIndex \in Rows
      BY <2>1 DEF AppInv, RowIsPage
    <3>3. QED
      BY <2>2, <3>1, <3>2 DEF RowIsPage
  <2>4. CASE ~ m_settingsActive
    <3>1. /\ m_settingsActive' = TRUE /\ currentIndex' = NoRow
          /\ m_lastTabIndex' \in {m_lastTabIndex, currentIndex}
          /\ shown' = Len(m_contentStack) - 1
      BY <1>6, <2>4 DEF OnSettingsClicked
    <3>2. m_lastTabIndex' \in Rows
      BY <2>1, <2>4, <3>1 DEF AppInv, RowIsPage
    <3>3. shown' = LastRow + 1
      BY <2>2, <3>1, PageOfRow, AppAssumption
    <3>4. QED
      BY <2>2, <3>1, <3>2, <3>3 DEF RowIsPage
  <2>5. QED
    BY <2>3, <2>4
<1>7. ASSUME NEW k \in Settings,
             \/ AboutToShowPopup(k)
             \/ \E value \in combos[k].options : CurrentIndexChanged(k, value)
      PROVE  Stacked' /\ RowIsPage'
  <2>1. UNCHANGED <<phase, m_contentStack, pageVars>>
    BY <1>7 DEF AboutToShowPopup, CurrentIndexChanged, lifeVars
  <2>2. QED
    BY <1>1, <2>1
<1>8. CASE StyleEvent \/ RebuildTimer \/ InterfacesChange
  <2>1. UNCHANGED <<phase, m_contentStack, pageVars>>
    BY <1>8 DEF StyleEvent, RebuildTimer, InterfacesChange, lifeVars
  <2>2. QED
    BY <1>1, <2>1
<1>9. CASE Shutdown \/ \E row \in Failing : RestartModule(row)
  <2>1. UNCHANGED <<m_contentStack, pageVars>> /\ phase = "running"
    BY <1>9 DEF Shutdown, RestartModule
  <2>2. QED
    BY <1>1, <2>1
<1>10. CASE UNCHANGED vars
  <2>1. UNCHANGED <<phase, m_contentStack, pageVars>>
    BY <1>10 DEF vars, lifeVars
  <2>2. QED
    BY <1>1, <2>1
<1>11. QED
  BY <1>3, <1>4, <1>5, <1>6, <1>7, <1>8, <1>9, <1>10 DEF Next

-----------------------------------------------------------------------------
(***************************************************************************)
(* The settings.                                                           *)
(***************************************************************************)

\* A combo box that is filled from what is kept shows it.
LEMMA Filled ==
  ASSUME SettingsInv, Rebuild, UNCHANGED <<m_values, m_colors>>, phase = "running",
         phase' = phase
  PROVE  SettingsInv'
<1>1. combos' = [k \in Settings |-> PopulateCombo(k)]
  BY DEF Rebuild
<1>2. ASSUME NEW k \in Settings
      PROVE  /\ combos'[k] = [options |-> combos'[k].options, index |-> combos'[k].index]
             /\ combos'[k].index = IF m_values[k] \in combos'[k].options THEN m_values[k]
                                   ELSE Unset
  <2>1. combos'[k] = PopulateCombo(k)
    BY <1>1
  <2>2. QED
    BY <2>1 DEF PopulateCombo
<1>3. combos' = [k \in Settings |-> [options |-> combos'[k].options, index |-> combos'[k].index]]
  BY <1>1, <1>2
<1>4. QED
  BY <1>2, <1>3 DEF SettingsInv, Selected

LEMMA SettingsStep == AppInv /\ [Next]_vars => SettingsInv'
<1> SUFFICES ASSUME AppInv, [Next]_vars PROVE SettingsInv'
  OBVIOUS
<1>1. /\ SettingsInv
      /\ DOMAIN combos = Settings /\ DOMAIN m_values = Settings
      /\ \A k \in Settings :
           combos[k] = [options |-> combos[k].options, index |-> combos[k].index]
  BY DEF AppInv, SettingsInv
<1>2. ASSUME UNCHANGED <<m_values, m_colors, combos>>, phase' = "running" => phase = "running"
      PROVE  SettingsInv'
  BY <1>1, <1>2 DEF SettingsInv, Selected
<1>3. ASSUME NEW isDark \in BOOLEAN, Bootstrap(isDark)
      PROVE  SettingsInv'
  <2>1. PICK initial : /\ m_values' = [m_values EXCEPT !["theme"] = initial]
                       /\ m_colors' = initial
                       /\ combos' = [k \in Settings |-> PopulateCombo(k)]
                       /\ phase = "new"
    BY <1>3 DEF Bootstrap, Rebuild
  <2>2. /\ "theme" \in Settings /\ "device" \in Settings
        /\ \A k \in Settings : k = "theme" \/ k = "device"
    BY DEF Settings
  <2>3. /\ m_values' = [k \in Settings |-> m_values'[k]]
        /\ m_values'["theme"] = initial /\ m_values'["device"] = m_values["device"]
    BY <1>1, <2>1, <2>2
  <2>4. combos'["theme"] = [options |-> {}, index |-> Unset]
    BY <2>1, <2>2 DEF PopulateCombo, FetchOptions
  <2>5. combos'["device"] =
          [options |-> available,
           index   |-> IF m_values["device"] \in available THEN m_values["device"] ELSE Unset]
    BY <2>1, <2>2 DEF PopulateCombo, FetchOptions
  <2>6. combos' = [k \in Settings |-> [options |-> combos'[k].options,
                                       index |-> combos'[k].index]]
    <3>1. \A k \in Settings :
            combos'[k] = [options |-> combos'[k].options, index |-> combos'[k].index]
      BY <2>2, <2>4, <2>5
    <3>2. QED
      BY <2>1, <3>1
  <2>7. \A k \in Settings : Selected(k)'
    BY <2>2, <2>3, <2>4, <2>5 DEF Selected
  <2>8. QED
    BY <2>1, <2>3, <2>6, <2>7 DEF SettingsInv
<1>4. ASSUME NEW k \in Settings, AboutToShowPopup(k)
      PROVE  SettingsInv'
  <2>1. /\ combos' = [combos EXCEPT ![k] = PopulateCombo(k)]
        /\ UNCHANGED <<phase, m_values, m_colors>> /\ phase = "running"
    BY <1>4 DEF AboutToShowPopup, lifeVars
  <2>2. ASSUME NEW j \in Settings
        PROVE  /\ combos'[j] = [options |-> combos'[j].options, index |-> combos'[j].index]
               /\ Selected(j)'
    <3>1. CASE j = k
      <4>1. combos'[j] = PopulateCombo(k)
        BY <1>1, <2>1, <3>1
      <4>2. QED
        BY <2>1, <3>1, <4>1 DEF PopulateCombo, Selected
    <3>2. CASE j # k
      <4>1. combos'[j] = combos[j]
        BY <1>1, <2>1, <3>2
      <4>2. QED
        BY <1>1, <2>1, <4>1 DEF SettingsInv, Selected
    <3>3. QED
      BY <3>1, <3>2
  <2>3. combos' = [j \in Settings |-> [options |-> combos'[j].options,
                                       index |-> combos'[j].index]]
    BY <1>1, <2>1, <2>2
  <2>4. QED
    BY <1>1, <2>1, <2>2, <2>3 DEF SettingsInv
<1>5. ASSUME NEW k \in Settings, NEW value \in combos[k].options, CurrentIndexChanged(k, value)
      PROVE  SettingsInv'
  <2>1. /\ combos' = [combos EXCEPT ![k] = [combos[k] EXCEPT !.index = value]]
        /\ m_values' = [m_values EXCEPT ![k] = value]
        /\ k = "theme" => m_colors' = value
        /\ k = "device" => m_colors' = m_colors
        /\ phase = "running"
    <3>1. k = "theme" => m_colors' = value
      BY <1>5 DEF CurrentIndexChanged, PublishChanged
    <3>2. k = "device" => m_colors' = m_colors
      BY <1>5 DEF CurrentIndexChanged, PublishChanged
    <3>3. QED
      BY <1>5, <3>1, <3>2 DEF CurrentIndexChanged
  <2>2. ASSUME NEW j \in Settings
        PROVE  /\ combos'[j] = [options |-> combos'[j].options, index |-> combos'[j].index]
               /\ Selected(j)'
    <3>1. CASE j = k
      <4>1. combos'[j] = [combos[k] EXCEPT !.index = value] /\ m_values'[j] = value
        BY <1>1, <2>1, <3>1
      <4>2. combos'[j] = [options |-> combos[k].options, index |-> value]
        BY <1>1, <4>1
      <4>3. QED
        BY <4>1, <4>2 DEF Selected
    <3>2. CASE j # k
      <4>1. combos'[j] = combos[j] /\ m_values'[j] = m_values[j]
        BY <1>1, <2>1, <3>2
      <4>2. QED
        BY <1>1, <2>1, <4>1 DEF SettingsInv, Selected
    <3>3. QED
      BY <3>1, <3>2
  <2>3. combos' = [j \in Settings |-> [options |-> combos'[j].options,
                                       index |-> combos'[j].index]]
    BY <1>1, <2>1, <2>2
  <2>4. m_values' = [j \in Settings |-> m_values'[j]]
    BY <1>1, <2>1
  <2>5. m_colors' = m_values'["theme"]
    BY <1>1, <2>1 DEF Settings, SettingsInv
  <2>6. QED
    BY <2>2, <2>3, <2>4, <2>5 DEF SettingsInv
<1>6. CASE RebuildTimer
  <2>1. Rebuild /\ UNCHANGED <<phase, m_values, m_colors>> /\ phase = "running"
    BY <1>6 DEF RebuildTimer, lifeVars
  <2>2. QED
    BY <1>1, <2>1, Filled
<1>7. CASE OnSettingsClicked
  <2>1. UNCHANGED <<phase, m_values, m_colors>> /\ phase = "running"
        /\ (UNCHANGED combos \/ Rebuild)
    BY <1>7 DEF OnSettingsClicked, lifeVars
  <2>2. QED
    BY <1>1, <1>2, <2>1, Filled
<1>8. CASE StyleEvent \/ InterfacesChange \/ ShowEvent \/ \E row \in Rows : CurrentRowChanged(row)
  <2>1. UNCHANGED <<phase, m_values, m_colors, combos>>
    BY <1>8 DEF StyleEvent, InterfacesChange, ShowEvent, CurrentRowChanged, lifeVars, settingVars
  <2>2. QED
    BY <1>2, <2>1
<1>9. CASE Shutdown \/ \E row \in Failing : RestartModule(row)
  <2>1. UNCHANGED <<m_values, m_colors, combos>> /\ phase = "running"
    BY <1>9 DEF Shutdown, RestartModule, settingVars
  <2>2. QED
    BY <1>2, <2>1
<1>10. CASE UNCHANGED vars
  <2>1. UNCHANGED <<phase, m_values, m_colors, combos>>
    BY <1>10 DEF vars, lifeVars, settingVars
  <2>2. QED
    BY <1>2, <2>1
<1>11. QED
  BY <1>3, <1>4, <1>5, <1>6, <1>7, <1>8, <1>9, <1>10 DEF Next

-----------------------------------------------------------------------------
(***************************************************************************)
(* The theorems.                                                           *)
(***************************************************************************)

LEMMA PhaseStep == AppInv /\ [Next]_vars => (phase \in {"new", "running", "ended"})'
BY DEF AppInv, Next, Bootstrap, CurrentRowChanged, OnSettingsClicked, ShowEvent, AboutToShowPopup,
       CurrentIndexChanged, StyleEvent, RebuildTimer, InterfacesChange, RestartModule, Shutdown,
       vars, lifeVars

LEMMA AppInvariant == Spec => []AppInv
<1>1. AppInv /\ [Next]_vars => AppInv'
  BY PagesStep, SettingsStep, PhaseStep DEF AppInv
<1>2. QED
  BY <1>1, AppStart, PTL DEF Spec

\* For any number of tabs: the row that is selected is shown and is the one the settings go
\* back to, or none is and the settings are shown (handleTabChanged, onSettingsClicked,
\* showEvent).
THEOREM PageShownHolds == Spec => []PageShown
<1>1. AppInv => PageShown
  <2> SUFFICES ASSUME AppInv, phase = "running" PROVE PageShown
    BY DEF PageShown
  <2>1. m_contentStack = Pages /\ RowIsPage
    BY DEF AppInv, Stacked
  <2>2. CASE m_settingsActive
    <3>1. currentIndex = NoRow /\ shown = LastRow + 1
      BY <2>1, <2>2 DEF RowIsPage
    <3>2. shown + 1 = LastRow + 2
      BY <3>1, AppAssumption
    <3>3. QED
      BY <2>1, <2>2, <3>1, <3>2, PageOfRow DEF PageShown
  <2>3. CASE ~ m_settingsActive
    BY <2>1, <2>3, PageOfRow DEF PageShown, RowIsPage
  <2>4. QED
    BY <2>2, <2>3
<1>2. QED
  BY <1>1, AppInvariant, PTL

\* For any themes and interfaces: the theme that is applied is the one that is kept, and a
\* combo box shows the kept value as long as it offers it, whenever it was filled last
\* (populateCombo, SettingsService::setValue).
THEOREM SettingsAgreeHolds == Spec => []SettingsAgree
<1>1. AppInv => SettingsAgree
  BY DEF AppInv, SettingsInv, Selected, SettingsAgree
<1>2. QED
  BY <1>1, AppInvariant, PTL
=============================================================================
