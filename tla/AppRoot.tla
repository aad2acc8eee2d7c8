-------------------------------- MODULE AppRoot --------------------------------
(***************************************************************************)
(* The application: its tabs and the page that is shown, the restart of a  *)
(* tab that failed, and the settings page, where a combo box per setting   *)
(* shows the value the settings service keeps and a choice is published to *)
(* the component it is for.  Everything runs on the UI thread; an action   *)
(* is one handler of its event loop.                                       *)
(*                                                                         *)
(* A tab is its row and how often it was made; so is its view.             *)
(***************************************************************************)
EXTENDS Integers, Sequences

CONSTANTS
  LastRow,             \* of the tabs, which are numbered from 0
  Failing,             \* rows of the tabs that publish ModuleStoppedEvent: sending
  DefaultRestartLimit, \* DEFAULT_RESTART_LIMIT
  Themes, Light, Dark,
  Interfaces,          \* CAN interfaces of the machine
  Unset                \* no value

ASSUME AppAssumption ==
  /\ LastRow \in Nat
  /\ Failing \subseteq 0 .. LastRow
  /\ DefaultRestartLimit \in Nat
  /\ {Light, Dark} \subseteq Themes
  /\ Unset \notin Themes \union Interfaces

VARIABLES
  phase,              \* "new", "running" or "ended"
  m_tabs,             \* by row how often the tab was made
  m_contentStack,     \* the views, the page of the settings last
  started,            \* history: the tabs whose onStart ran
  remainingRestarts,
  currentIndex,       \* the row selected in the tab bar, or NoRow
  m_settingsActive,
  m_lastTabIndex,
  shown,              \* place of the page that is shown, from 0
  m_values,           \* the settings service
  m_colors,           \* the theme that is applied
  canDriver,          \* the interface there is a driver for, or Unset
  available,          \* the interfaces there are
  combos,             \* by setting the options of its combo box and the one selected
  posted              \* what waits in the event loop: "style", "rebuild"

lifeVars == <<phase, m_tabs, m_contentStack, started, remainingRestarts>>
pageVars == <<currentIndex, m_settingsActive, m_lastTabIndex, shown>>
settingVars == <<m_values, m_colors, canDriver, combos, posted>>
vars == <<lifeVars, pageVars, settingVars, available>>

Rows == 0 .. LastRow
NoRow == -1
Settings == {"theme", "device"}
SettingsPage == <<NoRow, 0>>

Init ==
  /\ phase = "new"
  /\ m_tabs = [r \in Rows |-> 0]
  /\ m_contentStack = <<>>
  /\ started = {}
  /\ remainingRestarts = [r \in Rows |-> DefaultRestartLimit]
  /\ currentIndex = NoRow /\ m_settingsActive = FALSE /\ m_lastTabIndex = 0 /\ shown = 0
  /\ m_values = [k \in Settings |-> Unset]
  /\ m_colors = Light
  /\ canDriver = Unset
  /\ available \in SUBSET Interfaces
  /\ combos = [k \in Settings |-> [options |-> {}, index |-> Unset]]
  /\ posted = {}

-----------------------------------------------------------------------------
(***************************************************************************)
(* The combo boxes.                                                        *)
(***************************************************************************)

\* The options the providers add; the themes have no provider before the application runs.
FetchOptions(k) ==
  IF k = "device" THEN available
  ELSE IF phase = "running" THEN Themes ELSE {}

\* Faulty PopulateCombo: the selection stays as it was.
PopulateOptionsOnly(k) == [options |-> FetchOptions(k), index |-> combos[k].index]

\* With its signals blocked: it is filled, and the stored value is selected if it is offered.
PopulateCombo(k) ==
  [options |-> FetchOptions(k),
   index   |-> IF m_values[k] \in FetchOptions(k) THEN m_values[k] ELSE Unset]

Rebuild == combos' = [k \in Settings |-> PopulateCombo(k)]

\* A popup is about to be shown.
AboutToShowPopup(k) ==
  /\ phase = "running"
  /\ m_settingsActive
  /\ combos' = [combos EXCEPT ![k] = PopulateCombo(k)]
  /\ UNCHANGED <<lifeVars, pageVars, m_values, m_colors, canDriver, posted, available>>

\* The change reaches the component: a theme is applied and every widget is told; a driver
\* is made for the interface, or cannot be.
PublishChanged(k, value) ==
  \/ /\ k = "theme"
     /\ m_colors' = value
     /\ posted' = posted \union {"style"}
     /\ UNCHANGED canDriver
  \/ /\ k = "device"
     /\ canDriver' \in {value, Unset}
     /\ UNCHANGED <<m_colors, posted>>

\* An option is chosen; to choose the one that is selected changes nothing.
CurrentIndexChanged(k, value) ==
  /\ phase = "running"
  /\ m_settingsActive
  /\ value \in combos[k].options
  /\ value # combos[k].index
  /\ combos' = [combos EXCEPT ![k].index = value]
  /\ m_values' = [m_values EXCEPT ![k] = value]
  /\ PublishChanged(k, value)
  /\ UNCHANGED <<lifeVars, pageVars, available>>

StyleEvent ==
  /\ phase = "running"
  /\ "style" \in posted
  /\ posted' = (posted \ {"style"}) \union {"rebuild"}
  /\ UNCHANGED <<lifeVars, pageVars, m_values, m_colors, canDriver, combos, available>>

RebuildTimer ==
  /\ phase = "running"
  /\ "rebuild" \in posted
  /\ posted' = posted \ {"rebuild"}
  /\ Rebuild
  /\ UNCHANGED <<lifeVars, pageVars, m_values, m_colors, canDriver, available>>

\* A CAN interface comes or goes.
InterfacesChange ==
  /\ available' \in SUBSET Interfaces \ {available}
  /\ UNCHANGED <<lifeVars, pageVars, settingVars>>

-----------------------------------------------------------------------------
(***************************************************************************)
(* The pages.                                                              *)
(***************************************************************************)

\* Faulty HandleTabChanged: the settings stay active.
HandleTabKeepsSettings(index) ==
  /\ UNCHANGED m_settingsActive
  /\ IF index < Len(m_contentStack') - 1
       THEN m_lastTabIndex' = index /\ shown' = index
       ELSE UNCHANGED <<m_lastTabIndex, shown>>

HandleTabChanged(index) ==
  /\ m_settingsActive' = FALSE
  /\ IF index < Len(m_contentStack') - 1
       THEN m_lastTabIndex' = index /\ shown' = index
       ELSE UNCHANGED <<m_lastTabIndex, shown>>

\* A click or a key in the tab bar.
CurrentRowChanged(row) ==
  /\ phase = "running"
  /\ row # currentIndex
  /\ currentIndex' = row
  /\ UNCHANGED lifeVars
  /\ HandleTabChanged(row)
  /\ UNCHANGED <<settingVars, available>>

\* The tab bar loses its selection while the settings are shown and gets it back.
OnSettingsClicked ==
  /\ phase = "running"
  /\ IF m_settingsActive
       THEN /\ m_settingsActive' = FALSE
            /\ currentIndex' = m_lastTabIndex
            /\ shown' = m_lastTabIndex
            /\ UNCHANGED <<m_lastTabIndex, combos>>
       ELSE /\ m_settingsActive' = TRUE
            /\ m_lastTabIndex' = IF currentIndex = NoRow THEN m_lastTabIndex ELSE currentIndex
            /\ currentIndex' = NoRow
            /\ shown' = Len(m_contentStack) - 1
            /\ Rebuild
  /\ UNCHANGED <<lifeVars, m_values, m_colors, canDriver, posted, available>>

\* The window is shown again, as after it was minimised: without a selection the first tab
\* is selected, also when it is the settings that were shown.
ShowEvent ==
  /\ phase = "running"
  /\ currentIndex = NoRow
  /\ currentIndex' = 0
  /\ UNCHANGED lifeVars
  /\ HandleTabChanged(0)
  /\ UNCHANGED <<settingVars, available>>

-----------------------------------------------------------------------------
(***************************************************************************)
(* The life of the tabs.                                                   *)
(***************************************************************************)

\* bootstrap() and start(): the combo boxes are built before the themes have a provider.
Bootstrap(isDark) ==
  LET initialTheme == IF isDark THEN Dark ELSE Light
  IN  /\ phase = "new"
      /\ phase' = "running"
      /\ m_contentStack' = Append([i \in 1 .. LastRow + 1 |-> <<i - 1, 0>>], SettingsPage)
      /\ started' = {<<r, 0>> : r \in Rows}
      /\ currentIndex' = 0
      /\ HandleTabChanged(0)
      /\ m_values' = [m_values EXCEPT !["theme"] = initialTheme]
      /\ m_colors' = initialTheme
      /\ Rebuild
      /\ UNCHANGED <<m_tabs, remainingRestarts, canDriver, posted, available>>

\* The handler of the tab's error publishes the event; it was connected by onStart.  The
\* new tab takes the place of the old one in m_tabs and in the model and nowhere else.  As
\* it is never started it cannot fail again, so the limit is not reached.
RestartModule(row) ==
  /\ phase = "running"
  /\ <<row, m_tabs[row]>> \in started
  /\ IF remainingRestarts[row] > 0
       THEN /\ remainingRestarts' = [remainingRestarts EXCEPT ![row] = @ - 1]
            /\ m_tabs' = [m_tabs EXCEPT ![row] = @ + 1]
            /\ UNCHANGED phase
       ELSE /\ phase' = "ended"
            /\ UNCHANGED <<remainingRestarts, m_tabs>>
  /\ UNCHANGED <<m_contentStack, started, pageVars, settingVars, available>>

Shutdown ==
  /\ phase = "running"
  /\ phase' = "ended"
  /\ UNCHANGED <<m_tabs, m_contentStack, started, remainingRestarts, pageVars, settingVars,
                 available>>

-----------------------------------------------------------------------------

Next ==
  \/ \E isDark \in BOOLEAN : Bootstrap(isDark)
  \/ \E row \in Rows : CurrentRowChanged(row)
  \/ OnSettingsClicked
  \/ ShowEvent
  \/ \E k \in Settings : AboutToShowPopup(k)
  \/ \E k \in Settings : \E value \in combos[k].options : CurrentIndexChanged(k, value)
  \/ StyleEvent
  \/ RebuildTimer
  \/ InterfacesChange
  \/ \E row \in Failing : RestartModule(row)
  \/ Shutdown

Spec == Init /\ [][Next]_vars

-----------------------------------------------------------------------------
(***************************************************************************)
(* Properties.                                                             *)
(***************************************************************************)

\* The tab bar, the settings button and the page agree, whatever is clicked in whatever
\* order and whatever tab was restarted: either a tab is selected and its row is shown, and
\* it is the one the settings go back to, or none is and the settings are shown
\* (handleTabChanged, onSettingsClicked, showEvent).
PageShown ==
  phase = "running" =>
    IF m_settingsActive
      THEN currentIndex = NoRow /\ m_contentStack[shown + 1] = SettingsPage
      ELSE /\ currentIndex = shown
           /\ currentIndex = m_lastTabIndex
           /\ m_contentStack[shown + 1] # SettingsPage

\* The theme that is applied is the one the settings keep, and a combo box shows the kept
\* value as long as it offers it, while interfaces come and go and the page is rebuilt: else
\* a choice of the kept value would be taken for a change, or a change for none
\* (populateCombo, SettingsModel::setValue, SettingsService::setValue).
SettingsAgree ==
  phase = "running" =>
    /\ m_colors = m_values["theme"]
    /\ \A k \in Settings :
         combos[k].index = IF m_values[k] \in combos[k].options THEN m_values[k] ELSE Unset

=============================================================================
