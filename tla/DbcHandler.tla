---------------------------- MODULE DbcHandler ----------------------------
(***************************************************************************)
(* CanHandler::DbcHandler: the UI thread asks for DBC files to be parsed,  *)
(* one parsing thread answers each with DBCParsedEvent or                  *)
(* DBCParseErrorEvent.  They share one slot for the request, a mutex, a    *)
(* condition variable and a flag to stop.                                  *)
(*                                                                         *)
(* The parsing thread waits without a predicate: nothing but the           *)
(* notification tells it of a request or a stop, and a notification that   *)
(* finds it elsewhere is lost.  It holds the mutex whenever it does not    *)
(* wait, so the UI thread cannot notify it in the middle of a file; but it *)
(* can before the first wait and after an error, when the thread is gone.  *)
(*                                                                         *)
(* A request is a number here, in the order of the requests; 0 is the      *)
(* empty path the slot holds at first.  What a file contains is a choice.  *)
(***************************************************************************)
EXTENDS Naturals

CONSTANTS
  MaxRequests,  \* bound: how many files the user loads
  MaxSpurious   \* bound: how often the wait returns for no reason

ASSUME DbcHandlerAssumption == MaxRequests \in Nat /\ MaxSpurious \in Nat

VARIABLES
  pc,          \* where the parsing thread is; "gone" when its function has returned
  mutex,       \* who holds dbcParsingMutex: "free" or "thread"
  reading,     \* the request whose file the thread has read
  ui,          \* what the UI thread is doing: a request or the stop, in steps
  request,     \* parseDBCRequestEvent
  asked,       \* how many requests were published
  stopThread,  \* stop_thread
  answers,     \* the events published: the file parsed, the path named, the outcome
  heard,       \* the requests whose notification found the thread waiting
  spurious     \* how often the wait has returned for no reason

threadVars  == <<pc, mutex, reading, answers>>
uiVars      == <<ui, request, asked, stopThread, heard>>
parsingVars == <<threadVars, uiVars, spurious>>

\* onStart has not run yet: there is no thread and no subscription.
ParsingInit ==
  /\ pc = "none" /\ mutex = "free" /\ reading = 0
  /\ ui = "created" /\ request = 0 /\ asked = 0
  /\ stopThread = FALSE
  /\ answers = {} /\ heard = {}
  /\ spurious = 0

-----------------------------------------------------------------------------
(***************************************************************************)
(* The parsing thread.                                                     *)
(***************************************************************************)

\* The thread takes the mutex for the first time and releases it in the wait.
FirstWait ==
  /\ pc = "start"
  /\ mutex = "free"
  /\ pc' = "waiting"
  /\ UNCHANGED <<mutex, reading, answers, uiVars, spurious>>

WakeUnasked ==
  /\ pc = "waiting"
  /\ spurious < MaxSpurious
  /\ spurious' = spurious + 1
  /\ pc' = "woken"
  /\ UNCHANGED <<mutex, reading, answers, uiVars>>

\* The wait returns once it has the mutex again.
WaitReturns ==
  /\ pc = "woken"
  /\ mutex = "free"
  /\ mutex' = "thread"
  /\ pc' = "testStop"
  /\ UNCHANGED <<reading, answers, uiVars, spurious>>

\* The thread returns, and its lock is released, when it is to stop.
TestStop ==
  /\ pc = "testStop"
  /\ IF stopThread
       THEN pc' = "gone" /\ mutex' = "free"
       ELSE pc' = "read" /\ UNCHANGED mutex
  /\ UNCHANGED <<reading, answers, uiVars, spurious>>

\* After a second's sleep, the file of the request is read.  The empty path names no file.
ReadFile ==
  /\ pc = "read"
  /\ reading' = request
  /\ \/ pc' = "parse" /\ request # 0
     \/ pc' = "fail"
  /\ UNCHANGED <<mutex, answers, uiVars, spurious>>

Parse ==
  /\ pc = "parse"
  /\ pc' \in {"publish", "fail"}
  /\ UNCHANGED <<mutex, reading, answers, uiVars, spurious>>

\* An event: what was read before, and the path the request names now.
Answer(ok) == [file |-> reading, path |-> request, ok |-> ok]

\* The event is published under the mutex, which the next wait releases.
PublishParsed ==
  /\ pc = "publish"
  /\ answers' = answers \union {Answer(TRUE)}
  /\ pc' = "waiting"
  /\ mutex' = "free"
  /\ UNCHANGED <<reading, uiVars, spurious>>

\* Faulty PublishError: the lock outlives the thread.
PublishErrorKeepsLock ==
  /\ pc = "fail"
  /\ answers' = answers \union {Answer(FALSE)}
  /\ pc' = "gone"
  /\ UNCHANGED <<mutex, reading, uiVars, spurious>>

\* The error is published and the thread returns, for good.
PublishError ==
  /\ pc = "fail"
  /\ answers' = answers \union {Answer(FALSE)}
  /\ pc' = "gone"
  /\ mutex' = "free"
  /\ UNCHANGED <<reading, uiVars, spurious>>

Thread ==
  \/ FirstWait \/ WaitReturns \/ TestStop \/ ReadFile \/ Parse
  \/ PublishParsed \/ PublishError

-----------------------------------------------------------------------------
(***************************************************************************)
(* The UI thread: the handlers of AppStartedEvent, ParseDBCRequestEvent    *)
(* and AppStoppedEvent, which the broker calls where they are published.   *)
(***************************************************************************)

\* onStart: the thread is created, then the requests are subscribed to.
Start ==
  /\ ui = "created"
  /\ ui' = "idle"
  /\ pc' = "start"
  /\ UNCHANGED <<mutex, reading, answers, request, asked, stopThread, heard, spurious>>

\* notify_one: wakes the thread if it waits.
Notify == pc' = IF pc = "waiting" THEN "woken" ELSE pc

\* A file is loaded: parseNewDbc is called.
Request ==
  /\ ui = "idle"
  /\ asked < MaxRequests
  /\ asked' = asked + 1
  /\ ui' = "store"
  /\ UNCHANGED <<threadVars, request, stopThread, heard, spurious>>

\* Faulty StoreRequest: the slot is written without the mutex.
StoreRequestUnlocked ==
  /\ ui = "store"
  /\ request' = asked
  /\ ui' = "notify"
  /\ UNCHANGED <<threadVars, asked, stopThread, heard, spurious>>

\* The request is stored under the mutex, for which the UI thread waits.
StoreRequest ==
  /\ ui = "store"
  /\ mutex = "free"
  /\ request' = asked
  /\ ui' = "notify"
  /\ UNCHANGED <<threadVars, asked, stopThread, heard, spurious>>

\* Faulty NotifyRequest: the notification is forgotten.
NotifyRequestForgotten ==
  /\ ui = "notify"
  /\ heard' = IF pc = "waiting" THEN heard \union {request} ELSE heard
  /\ ui' = "idle"
  /\ UNCHANGED <<threadVars, request, asked, stopThread, spurious>>

NotifyRequest ==
  /\ ui = "notify"
  /\ Notify
  /\ heard' = IF pc = "waiting" THEN heard \union {request} ELSE heard
  /\ ui' = "idle"
  /\ UNCHANGED <<mutex, reading, answers, request, asked, stopThread, spurious>>

\* onStop: no more requests are taken, and the flag is set.
BeginStop ==
  /\ ui = "idle"
  /\ stopThread' = TRUE
  /\ ui' = "barrier"
  /\ UNCHANGED <<threadVars, request, asked, heard, spurious>>

\* Faulty PassMutex: the mutex is not taken before the notification.
PassMutexSkipped ==
  /\ ui = "barrier"
  /\ ui' = "notifyStop"
  /\ UNCHANGED <<threadVars, request, asked, stopThread, heard, spurious>>

\* The mutex is taken and released: a file that is being parsed is finished first.
PassMutex ==
  /\ ui = "barrier"
  /\ mutex = "free"
  /\ ui' = "notifyStop"
  /\ UNCHANGED <<threadVars, request, asked, stopThread, heard, spurious>>

NotifyStop ==
  /\ ui = "notifyStop"
  /\ Notify
  /\ ui' = "join"
  /\ UNCHANGED <<mutex, reading, answers, request, asked, stopThread, heard, spurious>>

Join ==
  /\ ui = "join"
  /\ pc = "gone"
  /\ ui' = "stopped"
  /\ UNCHANGED <<threadVars, request, asked, stopThread, heard, spurious>>

User == Request \/ BeginStop

UiProceeds == Start \/ StoreRequest \/ NotifyRequest \/ PassMutex \/ NotifyStop \/ Join

ParsingNext == Thread \/ WakeUnasked \/ User \/ UiProceeds

ParsingSpec == ParsingInit /\ [][ParsingNext]_parsingVars

\* Both threads go on when they can.  Nobody has to load a file or to stop, and the wait
\* need not return without a notification.
FairSpec ==
  /\ ParsingSpec
  /\ WF_parsingVars(Thread)
  /\ WF_parsingVars(UiProceeds)
-----------------------------------------------------------------------------
(***************************************************************************)
(* Properties.                                                             *)
(***************************************************************************)

RequestNumbers == 0 .. MaxRequests

\* The values the thread, the slot and the events can take (of every variable above); the
\* thread holds the mutex exactly when it works on a request.
ParsingTypeOK ==
  /\ pc \in {"none", "start", "waiting", "woken", "testStop", "read", "parse",
             "publish", "fail", "gone"}
  /\ mutex = IF pc \in {"testStop", "read", "parse", "publish", "fail"}
               THEN "thread" ELSE "free"
  /\ reading \in RequestNumbers
  /\ ui \in {"created", "idle", "store", "notify", "barrier", "notifyStop", "join", "stopped"}
  /\ request \in RequestNumbers
  /\ asked \in RequestNumbers
  /\ stopThread \in BOOLEAN
  /\ answers \subseteq [file : RequestNumbers, path : RequestNumbers, ok : BOOLEAN]
  /\ heard \subseteq RequestNumbers
  /\ spurious \in 0 .. MaxSpurious

\* An event names the file it was made from, although the path is read from the slot
\* twice, before and after the parsing, and the user may have loaded another file between.
EventNamesItsFile == \A a \in answers : a.file = a.path

\* After onStop has returned there is no thread left to publish an event to the components
\* that are being destroyed.
StoppedMeansSilent == ui = "stopped" => pc = "gone"

\* Loading a file may block the user interface while another is parsed, never for good.
RequestReturns == ui \in {"store", "notify"} ~> ui \notin {"store", "notify"}

\* A request that reached the waiting thread gets its event, unless another one took its
\* place in the slot or the application stopped before the thread had read it.
HeardIsAnswered ==
  \A r \in 1 .. MaxRequests :
    r \in heard ~> (stopThread \/ request # r \/ \E a \in answers : a.path = r)

\* onStop returns when the thread had reached its first wait by then, whatever file it
\* is parsing: the flag is not set between its test and its wait.
HandlerStops == (ui = "barrier" /\ pc # "start") ~> ui = "stopped"

\* The handler implements NewestRequest: the request is taken when the thread has tested the flag
\* to stop, and stays in the slot until its event is out, however the UI thread stores requests
\* and stops meanwhile.
Register == INSTANCE NewestRequest WITH
  newest   <- request,
  serving  <- pc \notin {"none", "gone"},
  taken    <- pc \in {"read", "parse", "publish", "fail"},
  stopping <- stopThread

ImplementsRegister == Register!NRSpec

=============================================================================
