------------------------------- MODULE Reception -------------------------------
(***************************************************************************)
(* The way of a frame from the CAN interface to the monitoring tab.        *)
(*                                                                         *)
(*   CanDeviceHandler         the driver; the user replaces it             *)
(*   CanCommunicationHandler  the polling thread, which reads what the     *)
(*                            driver has and hands it to CanDbcHandler     *)
(*   MonitoringComponent      frames, DBCs and changes of the driver reach *)
(*                            the UI thread through its queue              *)
(*   SignalList, GraphListView  a row per signal, a graph per checked row  *)
(*                                                                         *)
(* Every action runs on one thread: the UI thread, the polling thread, the *)
(* thread that publishes a DBC or the erasing thread of the model.         *)
(* CanDbcHandler holds dbcMutex while it decodes and publishes, so a frame *)
(* is delivered in one step.                                               *)
(***************************************************************************)
EXTENDS MonitoringModel, Functions

CONSTANTS
  Ids,         \* ids of the frames on the bus
  Nil,
  MaxFrames,   \* bound: frames that arrive
  MaxTime,     \* bound: the clock
  MaxSelected, \* bound: devices the user selects
  MaxParsed,   \* bound: DBCs that are parsed
  Plotted      \* bound: signals the user looks at, with their message

ASSUME IdsAssumption == Ids \subseteq Nat

VARIABLES
  driver,      \* canDriver: Nil or the number of the selection that made it
  selected,    \* how many devices were selected
  configuring, \* updateCanDevice has made the driver and sets its options
  lost,        \* history: a driver was replaced or given up
  socket,      \* frames the driver has received and nobody read, with their time
  poll,        \* the polling thread: where it is, the driver it found, what it has read
  execute,     \* _execute
  handlerDbc,  \* the DBC CanDbcHandler decodes with
  parsed,      \* the DBC that is being published, who has not heard of it, how many there were
  running,     \* the monitoring component is subscribed and its timer runs
  m_dbcLoaded,
  overlay,     \* the overlay that says the connection is not complete
  uiQueue,     \* what waits for the UI thread
  rows,        \* SignalList: the signals that have a row, with their message
  curve,       \* GraphListView: by plotted signal what is plotted, pairs of time and value
  refresh,     \* a refresh in progress: graphs left, and the times read for one of them
  arrived

deviceVars == <<driver, selected, configuring, lost>>
dbcVars == <<handlerDbc, parsed>>
tabVars == <<running, m_dbcLoaded, overlay>>
viewVars == <<rows, curve, refresh>>
vars == <<modelVars, deviceVars, socket, poll, execute, dbcVars, tabVars, uiQueue, viewVars,
          arrived>>

Idle == [pc |-> "idle", saw |-> Nil, batch |-> <<>>]
NoRefresh == [left |-> {}, of |-> Nil, times |-> <<>>]

Init ==
  /\ ModelInit
  /\ driver = Nil /\ selected = 0 /\ configuring = FALSE /\ lost = FALSE
  /\ socket = <<>>
  /\ poll = [Idle EXCEPT !.pc = "new"] /\ execute = FALSE
  /\ handlerDbc = NoDbc /\ parsed = [dbc |-> NoDbc, left |-> {}, count |-> 0]
  /\ running = FALSE /\ m_dbcLoaded = FALSE /\ overlay = TRUE
  /\ uiQueue = <<>>
  /\ rows = {} /\ curve = <<>> /\ refresh = NoRefresh
  /\ arrived = 0

\* The UI thread is in its event loop, not in a handler, and the application runs.
UiFree == execute /\ ~configuring /\ refresh.left = {}

\* An event for a subscriber that runs its handler on the UI thread, if it is subscribed.
Post(e) == uiQueue' = IF running THEN Append(uiQueue, e) ELSE uiQueue

CheckDeviceReadiness == overlay' = (driver' = Nil \/ ~m_dbcLoaded')

-----------------------------------------------------------------------------
(***************************************************************************)
(* The bus and the clock.                                                  *)
(***************************************************************************)

\* A frame of another node, or one that was sent here: the driver receives its own frames.
\* The time is 0 when the kernel does not tell it.
Arrive(id) ==
  /\ driver # Nil
  /\ arrived < MaxFrames
  /\ \E stamp \in {0, now} : socket' = Append(socket, [id |-> id, stamp |-> stamp])
  /\ arrived' = arrived + 1
  /\ UNCHANGED <<modelVars, deviceVars, poll, execute, dbcVars, tabVars, uiQueue, viewVars>>

Elapse ==
  /\ now < MaxTime
  /\ Tick
  /\ UNCHANGED <<deviceVars, socket, poll, execute, dbcVars, tabVars, uiQueue, viewVars, arrived>>

-----------------------------------------------------------------------------
(***************************************************************************)
(* The start and the end of the application.                               *)
(***************************************************************************)

StartApp ==
  /\ poll.pc = "new"
  /\ poll' = Idle
  /\ execute' = TRUE
  /\ running' = TRUE
  /\ UNCHANGED <<deviceVars, m_dbcLoaded>>
  /\ CheckDeviceReadiness
  /\ UNCHANGED <<modelVars, socket, dbcVars, uiQueue, viewVars, arrived>>

\* The UI thread joins the polling thread; the tab is stopped before that or after it.
StopApp ==
  /\ UiFree
  /\ execute' = FALSE
  /\ running' \in BOOLEAN
  /\ UNCHANGED <<modelVars, deviceVars, socket, poll, dbcVars, m_dbcLoaded, overlay, uiQueue,
                 viewVars, arrived>>

Joined ==
  /\ poll.pc = "idle"
  /\ ~execute
  /\ poll' = [Idle EXCEPT !.pc = "ended"]
  /\ running' = FALSE
  /\ UNCHANGED <<modelVars, deviceVars, socket, execute, dbcVars, m_dbcLoaded, overlay, uiQueue,
                 viewVars, arrived>>

-----------------------------------------------------------------------------
(***************************************************************************)
(* The device.                                                             *)
(***************************************************************************)

\* Whatever driver there was is gone, with the frames nobody read.
Replace(d) ==
  /\ driver' = d
  /\ lost' = (lost \/ driver # Nil)
  /\ socket' = <<>>

\* A driver is made for the interface, or the constructor throws and there is none.
UpdateCanDevice ==
  /\ UiFree
  /\ selected < MaxSelected
  /\ selected' = selected + 1
  /\ \/ /\ Replace(selected')
        /\ configuring' = TRUE
        /\ UNCHANGED uiQueue
     \/ /\ Replace(Nil)
        /\ Post([kind |-> "check"])
        /\ UNCHANGED configuring
  /\ UNCHANGED <<modelVars, poll, execute, dbcVars, tabVars, viewVars, arrived>>

\* Faulty SetOptions: nobody hears of an option that could not be set.
SetOptionsSilently ==
  /\ configuring
  /\ configuring' = FALSE
  /\ \/ UNCHANGED <<driver, lost, socket>> /\ Post([kind |-> "check"])
     \/ Replace(Nil) /\ UNCHANGED uiQueue
  /\ UNCHANGED <<modelVars, selected, poll, execute, dbcVars, tabVars, viewVars, arrived>>

\* The options are set, or one of them throws; then the tab hears of the event.
SetOptions ==
  /\ configuring
  /\ configuring' = FALSE
  /\ UNCHANGED <<driver, lost, socket>> \/ Replace(Nil)
  /\ Post([kind |-> "check"])
  /\ UNCHANGED <<modelVars, selected, poll, execute, dbcVars, tabVars, viewVars, arrived>>

-----------------------------------------------------------------------------
(***************************************************************************)
(* The polling thread.                                                     *)
(***************************************************************************)

\* Faulty CheckDriver: the driver is used without a look.
CheckNothing ==
  /\ (poll.pc = "idle" /\ execute) \/ poll.pc = "check"
  /\ poll' = [poll EXCEPT !.pc = "read", !.saw = 1]
  /\ UNCHANGED <<modelVars, deviceVars, socket, execute, dbcVars, tabVars, uiQueue, viewVars,
                 arrived>>

\* Without a driver what was read in this poll is thrown away.
CheckDriver ==
  /\ (poll.pc = "idle" /\ execute) \/ poll.pc = "check"
  /\ poll' = IF driver = Nil THEN Idle ELSE [poll EXCEPT !.pc = "read", !.saw = driver]
  /\ UNCHANGED <<modelVars, deviceVars, socket, execute, dbcVars, tabVars, uiQueue, viewVars,
                 arrived>>

\* Faulty Before: the comparison is the wrong way round.
BeforeDown(batch, i, j) ==
  \/ batch[i].stamp > batch[j].stamp
  \/ batch[i].stamp = batch[j].stamp /\ i < j

\* By time; frames of the same time stay in order.
Before(batch, i, j) ==
  \/ batch[i].stamp < batch[j].stamp
  \/ batch[i].stamp = batch[j].stamp /\ i < j

Sorts(order, batch) == \A i, j \in DOMAIN batch : i < j => Before(batch, order[i], order[j])

ReadMessage ==
  /\ poll.pc = "read"
  /\ driver # Nil
  /\ IF socket # <<>>
       THEN /\ poll' = [poll EXCEPT !.pc = "check", !.batch = Append(@, Head(socket))]
            /\ socket' = Tail(socket)
       ELSE /\ \E order \in [DOMAIN poll.batch -> DOMAIN poll.batch] :
                 /\ Sorts(order, poll.batch)
                 /\ poll' = [poll EXCEPT !.pc = "deliver",
                                         !.batch = [k \in DOMAIN @ |-> @[order[k]]]]
            /\ UNCHANGED socket
  /\ UNCHANGED <<modelVars, deviceVars, execute, dbcVars, tabVars, uiQueue, viewVars, arrived>>

\* The driver was destroyed between the look and the use, or in the middle of it.
UseLostDriver ==
  /\ poll.pc = "read"
  /\ driver # poll.saw
  /\ poll' = [poll EXCEPT !.pc = "torn"]
  /\ UNCHANGED <<modelVars, deviceVars, socket, execute, dbcVars, tabVars, uiQueue, viewVars,
                 arrived>>

\* parseReceivedMessage of CanDbcHandler; which signals are there depends on a multiplexor.
Deliver ==
  /\ poll.pc = "deliver"
  /\ IF poll.batch = <<>>
       THEN poll' = Idle /\ UNCHANGED uiQueue
       ELSE LET frame == Head(poll.batch)
            IN  /\ poll' = [poll EXCEPT !.batch = Tail(@)]
                /\ IF handlerDbc # NoDbc /\ frame.id \in DOMAIN handlerDbc /\ frame.id < TableSize
                     THEN \E present \in SUBSET handlerDbc[frame.id] :
                            Post([kind |-> "frame",
                                  message |-> [id |-> frame.id, stamp |-> frame.stamp,
                                               signals |-> present, dbc |-> handlerDbc]])
                     ELSE UNCHANGED uiQueue
  /\ UNCHANGED <<modelVars, deviceVars, socket, execute, dbcVars, tabVars, viewVars, arrived>>

-----------------------------------------------------------------------------
(***************************************************************************)
(* A DBC is parsed and published; the subscribers hear of it in any order. *)
(***************************************************************************)

ParseDbc(d) ==
  /\ execute
  /\ parsed.left = {}
  /\ parsed.count < MaxParsed
  /\ parsed' = [dbc |-> d, left |-> {"handler", "tab"}, count |-> parsed.count + 1]
  /\ UNCHANGED <<modelVars, deviceVars, socket, poll, execute, handlerDbc, tabVars, uiQueue,
                 viewVars, arrived>>

HandlerHears ==
  /\ "handler" \in parsed.left
  /\ parsed' = [parsed EXCEPT !.left = @ \ {"handler"}]
  /\ handlerDbc' = parsed.dbc
  /\ UNCHANGED <<modelVars, deviceVars, socket, poll, execute, tabVars, uiQueue, viewVars, arrived>>

TabHears ==
  /\ "tab" \in parsed.left
  /\ parsed' = [parsed EXCEPT !.left = @ \ {"tab"}]
  /\ Post([kind |-> "dbc", dbc |-> parsed.dbc])
  /\ UNCHANGED <<modelVars, deviceVars, socket, poll, execute, handlerDbc, tabVars, viewVars,
                 arrived>>

-----------------------------------------------------------------------------
(***************************************************************************)
(* The UI thread: what was posted, the checkboxes and the refresh timer.   *)
(***************************************************************************)

RowsOf(d) == {g \in (DOMAIN d) \X Signals : g[2] \in d[g[1]]}

Take(kind) == UiFree /\ uiQueue # <<>> /\ Head(uiQueue).kind = kind /\ uiQueue' = Tail(uiQueue)

HandleCheck ==
  /\ Take("check")
  /\ UNCHANGED <<driver, m_dbcLoaded>>
  /\ CheckDeviceReadiness
  /\ UNCHANGED <<modelVars, selected, configuring, lost, socket, poll, execute, dbcVars, running,
                 viewVars, arrived>>

HandleFrame ==
  /\ Take("frame")
  /\ OnIncomingDbcFrame(Head(uiQueue).message)
  /\ UNCHANGED <<deviceVars, socket, poll, execute, dbcVars, tabVars, viewVars, arrived>>

\* Faulty HandleDbc: the list is built before the model has the DBC.
HandleDbcListFirst ==
  /\ Take("dbc")
  /\ rows' = IF m_currentDbc = NoDbc THEN {} ELSE RowsOf(m_currentDbc)
  /\ OnDbcChange(Head(uiQueue).dbc)
  /\ curve' = <<>>
  /\ m_dbcLoaded' = TRUE
  /\ UNCHANGED driver
  /\ CheckDeviceReadiness
  /\ UNCHANGED <<selected, configuring, lost, socket, poll, execute, dbcVars, running, refresh,
                 arrived>>

\* The slots of dbcConfigurationChanged, in the order they were connected.
HandleDbc ==
  /\ Take("dbc")
  /\ OnDbcChange(Head(uiQueue).dbc)
  /\ rows' = RowsOf(m_currentDbc')
  /\ curve' = <<>>
  /\ m_dbcLoaded' = TRUE
  /\ UNCHANGED driver
  /\ CheckDeviceReadiness
  /\ UNCHANGED <<selected, configuring, lost, socket, poll, execute, dbcVars, running, refresh,
                 arrived>>

\* A checkbox adds a graph or deletes it.
SignalChecked(g) ==
  /\ UiFree
  /\ curve' = IF g \in DOMAIN curve
                THEN Restrict(curve, DOMAIN curve \ {g})
                ELSE [h \in DOMAIN curve \union {g} |-> IF h = g THEN <<>> ELSE curve[h]]
  /\ UNCHANGED <<modelVars, deviceVars, socket, poll, execute, dbcVars, tabVars, uiQueue, rows,
                 refresh, arrived>>

Refresh ==
  /\ UiFree
  /\ running
  /\ FlushStaleWindows
  /\ refresh' = [NoRefresh EXCEPT !.left = DOMAIN curve]
  /\ UNCHANGED <<deviceVars, socket, poll, execute, dbcVars, tabVars, uiQueue, rows, curve, arrived>>

\* The two lists of a graph are read one after the other.
ReadTimes(g) ==
  /\ refresh.of = Nil
  /\ refresh' = [refresh EXCEPT !.of = g,
                                !.times = IF g[1] < TableSize THEN messageValues[g[1]].timestamps
                                          ELSE <<>>]
  /\ UNCHANGED <<modelVars, deviceVars, socket, poll, execute, dbcVars, tabVars, uiQueue, rows,
                 curve, arrived>>

\* As many points as the shorter list has; without any the graph stays as it was.
ReadValues(g) ==
  /\ refresh.of = g
  /\ refresh' = [NoRefresh EXCEPT !.left = refresh.left \ {g}]
  /\ LET values == IF g[1] < TableSize THEN messageValues[g[1]].signalValues[g[2]] ELSE <<>>
     IN  curve' = IF refresh.times = <<>> \/ values = <<>> THEN curve
                  ELSE [curve EXCEPT
                          ![g] = [i \in DOMAIN values \intersect DOMAIN refresh.times |->
                                    [time |-> refresh.times[i], value |-> values[i]]]]
  /\ UNCHANGED <<modelVars, deviceVars, socket, poll, execute, dbcVars, tabVars, uiQueue, rows,
                 arrived>>

Erase ==
  /\ EraseOldData
  /\ UNCHANGED <<deviceVars, socket, poll, execute, dbcVars, tabVars, uiQueue, viewVars, arrived>>

-----------------------------------------------------------------------------

Environment == (\E id \in Ids : Arrive(id)) \/ Elapse

PollStep == CheckDriver \/ ReadMessage \/ UseLostDriver \/ Deliver \/ Joined

DbcStep == (\E d \in Dbcs : ParseDbc(d)) \/ HandlerHears \/ TabHears

UiStep ==
  \/ StartApp
  \/ StopApp
  \/ UpdateCanDevice
  \/ SetOptions
  \/ HandleCheck
  \/ HandleFrame
  \/ HandleDbc
  \/ \E g \in rows \intersect Plotted : SignalChecked(g)
  \/ Refresh
  \/ \E g \in refresh.left : ReadTimes(g) \/ ReadValues(g)

\* After a use of a driver that is gone nothing is known of the program.
Next ==
  /\ poll.pc \notin {"torn", "ended"}
  /\ Environment \/ PollStep \/ DbcStep \/ UiStep \/ Erase

Spec == Init /\ [][Next]_vars

-----------------------------------------------------------------------------
(***************************************************************************)
(* Properties.                                                             *)
(***************************************************************************)

\* Once the UI thread has handled what was posted, the overlay is shown exactly when there
\* is no driver or no DBC, in whatever order driver and DBC came and whatever step of making
\* the driver failed (checkDeviceReadiness, updateCanDevice).
OverlayTells ==
  execute /\ running /\ ~configuring /\ uiQueue = <<>> => overlay = (driver = Nil \/ ~m_dbcLoaded)

\* The times of a message that are known do not go back, over polls and over a change of the
\* driver: frames reach the model in the order they were received (checkForCanMessage).
TimesIncrease ==
  \A id \in Slots :
    LET times == messageValues[id].timestamps
    IN  \A i, j \in DOMAIN times : i < j /\ times[j] # 0 => times[i] <= times[j]

\* The rows are the signals of the model's DBC, which updateViewData reads by their number,
\* and every graph has its row (onDbcChange of model, list and graphs).
ViewsFollowModel ==
  /\ rows = IF m_currentDbc = NoDbc THEN {} ELSE RowsOf(m_currentDbc)
  /\ DOMAIN curve \subseteq rows

\* The polling thread uses no driver that is not there unless a driver there was is lost:
\* selecting the first device while it polls is safe (checkForCanMessage, updateCanDevice).
OnlyLossTears == poll.pc = "torn" => lost

=============================================================================
