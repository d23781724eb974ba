---------------------------- MODULE Application ----------------------------
(***************************************************************************)
(* app::Application and main (src/app/application.cpp, src/app/main.cpp)   *)
(* on top of the ServiceManager: the control thread's run, the fault       *)
(* reporters the services call from their own threads (or from start), the *)
(* signal thread, the control mailbox they meet in, and the orderly        *)
(* shutdown with its exit code.                                            *)
(*                                                                         *)
(* Between the calls of one thread the others run: request_stop reads      *)
(* closed() in one step and closes the mailbox in another.                 *)
(***************************************************************************)
EXTENDS ServiceManager, Integers

CONSTANT MailCapacity   \* options_.control_mailbox_capacity

VARIABLES mail,          \* faults waiting in control_mailbox_
          mailClosed,    \* control_mailbox_.closed()
          serviceFailed, \* service_failed_
          loggerUp,      \* logger_ and the logging backend exist
          alive,         \* services_ exists
          app,           \* where the control thread is
          result,        \* result in run
          report,        \* where service i's call of the reporter is
          waiter,        \* where the SignalWaiter thread is
          waiterFailed,  \* SignalWaiter::failed_
          signal,        \* a SIGINT or SIGTERM is pending
          exit,          \* the exit code of main, -1 while it runs
          faultRaised,   \* history: some service called the reporter
          closedBy       \* history: whose request closed the mailbox

managerVars == <<services, attempted, started, phase, cursor, worker, stop, answer>>
mailVars    == <<mail, mailClosed, closedBy>>
runVars     == <<serviceFailed, loggerUp, alive, app, result, exit>>
faultVars   == <<report, faultRaised>>
signalVars  == <<waiter, waiterFailed, signal>>
appVars     == <<managerVars, mailVars, runVars, faultVars, signalVars>>

ASSUME MailboxAssumption == MailCapacity \in Nat \ {0}

AppInit ==
  /\ Init
  /\ mail = 0 /\ mailClosed = FALSE /\ closedBy = "nobody"
  /\ serviceFailed = FALSE /\ loggerUp = FALSE /\ alive = TRUE
  /\ app = "run" /\ result = 0 /\ exit = -1
  /\ report = [i \in Service |-> "quiet"] /\ faultRaised = FALSE
  /\ waiter = "polling" /\ waiterFailed = FALSE /\ signal = FALSE

\* Mailbox::close(discard) on behalf of who.
CloseMail(who) ==
  /\ mail' = 0
  /\ mailClosed' = TRUE
  /\ closedBy' = IF mailClosed THEN closedBy ELSE who

Goto(where) == app' = where /\ UNCHANGED <<serviceFailed, loggerUp, alive, result, exit>>

-----------------------------------------------------------------------------
\* The control thread: run

\* log::init may throw.
InitLogger ==
  /\ app = "run"
  /\ \/ loggerUp' = TRUE /\ app' = "check" /\ UNCHANGED result
     \/ app' = "shutdown" /\ result' = 1 /\ UNCHANGED loggerUp
  /\ UNCHANGED <<serviceFailed, alive, exit, managerVars, mailVars, faultVars, signalVars>>

\* A stop request that came before run is honoured without starting anything.
CheckClosed ==
  /\ app = "check"
  /\ Goto(IF mailClosed THEN "shutdown" ELSE "setup")
  /\ UNCHANGED <<managerVars, mailVars, faultVars, signalVars>>

SetupService ==
  /\ app = "setup"
  /\ Add
  /\ UNCHANGED <<mailVars, runVars, faultVars, signalVars>>

\* The factory or add throws.
SetupThrows ==
  /\ app = "setup"
  /\ app' = "shutdown" /\ result' = 1
  /\ UNCHANGED <<serviceFailed, loggerUp, alive, exit,
                 managerVars, mailVars, faultVars, signalVars>>

SetupDone ==
  /\ app = "setup" /\ services = Count
  /\ StartAll
  /\ Goto("starting")
  /\ UNCHANGED <<mailVars, faultVars, signalVars>>

\* A start() that reported a fault goes on to return false.
ManagerStarts ==
  /\ app = "starting"
  /\ \/ /\ StartSucceeds
        /\ report[cursor] = "quiet"
        /\ UNCHANGED report
     \/ /\ \E left \in {"none", "running"} : StartFails(left)
        /\ report[cursor] \in {"quiet", "reported"}
        /\ report' = [report EXCEPT ![cursor] = "quiet"]
     \/ StartDone /\ UNCHANGED report
     \/ (RequestStop \/ RequestsDone \/ Join \/ StopDone) /\ UNCHANGED report
  /\ UNCHANGED <<mailVars, runVars, faultRaised, signalVars>>

StartReturns ==
  /\ app = "starting" /\ phase = "idle"
  /\ IF answer = "true"
     THEN app' = "events" /\ UNCHANGED result
     ELSE app' = "shutdown" /\ result' = 1
  /\ UNCHANGED <<serviceFailed, loggerUp, alive, exit,
                 managerVars, mailVars, faultVars, signalVars>>

\* process_control_events receives a fault ...
ReceiveFault ==
  /\ app = "events" /\ mail > 0
  /\ mail' = mail - 1
  /\ serviceFailed' = TRUE
  /\ app' = "handle"
  /\ UNCHANGED <<mailClosed, closedBy, loggerUp, alive, result, exit,
                 managerVars, faultVars, signalVars>>

\* ... and calls request_stop, which reads closed() first.
HandleFault ==
  /\ app = "handle"
  /\ Goto(IF mailClosed THEN "events" ELSE "close")
  /\ UNCHANGED <<managerVars, mailVars, faultVars, signalVars>>

HandleClose ==
  /\ app = "close"
  /\ CloseMail("fault")
  /\ Goto("events")
  /\ UNCHANGED <<managerVars, faultVars, signalVars>>

EventsEnd ==
  /\ app = "events" /\ mail = 0 /\ mailClosed
  /\ Goto("shutdown")
  /\ UNCHANGED <<managerVars, mailVars, faultVars, signalVars>>

-----------------------------------------------------------------------------
\* The control thread: shutdown, the end of run and of main

\* Mutant: the services are destroyed without stop_all.
ShutdownStops_Skipped ==
  /\ app = "shutdown"
  /\ Goto("stopping")
  /\ UNCHANGED <<managerVars, mailVars, faultVars, signalVars>>

ShutdownStops ==
  /\ app = "shutdown"
  /\ StopAll
  /\ Goto("stopping")
  /\ UNCHANGED <<mailVars, faultVars, signalVars>>

ManagerStops ==
  /\ app = "stopping"
  /\ RequestStop \/ RequestsDone \/ Join \/ StopDone
  /\ UNCHANGED <<mailVars, runVars, faultVars, signalVars>>

DestroyServices ==
  /\ app = "stopping" /\ phase = "idle"
  /\ alive' = FALSE
  /\ app' = "cleanup"
  /\ UNCHANGED <<serviceFailed, loggerUp, result, exit,
                 managerVars, mailVars, faultVars, signalVars>>

\* close the mailbox, drop the logger, then run returns.
Cleanup ==
  /\ app = "cleanup"
  /\ CloseMail("shutdown")
  /\ loggerUp' = FALSE
  /\ result' = IF serviceFailed THEN 1 ELSE result
  /\ app' = "returned"
  /\ UNCHANGED <<serviceFailed, alive, exit, managerVars, faultVars, signalVars>>

\* main evaluates signals.failed() before ~SignalWaiter joins the thread.
MainReturns ==
  /\ app = "returned"
  /\ exit' = IF waiterFailed THEN 1 ELSE result
  /\ app' = "leaving"
  /\ UNCHANGED <<serviceFailed, loggerUp, alive, result,
                 managerVars, mailVars, faultVars, signalVars>>

Exit ==
  /\ app = "leaving" /\ waiter = "done"
  /\ Goto("exited")
  /\ UNCHANGED <<managerVars, mailVars, faultVars, signalVars>>

Control ==
  \/ InitLogger \/ CheckClosed \/ SetupService \/ SetupThrows \/ SetupDone
  \/ ManagerStarts \/ StartReturns
  \/ ReceiveFault \/ HandleFault \/ HandleClose \/ EventsEnd
  \/ ShutdownStops \/ ManagerStops \/ DestroyServices \/ Cleanup
  \/ MainReturns \/ Exit

-----------------------------------------------------------------------------
\* The fault reporter, called by a worker or, from start, by the control thread

InStart(i) == phase = "starting" /\ cursor = i /\ i <= services

\* Mutant: the failure is left to the mailbox event.
ReportFault_ByMailOnly(i) ==
  /\ report[i] = "quiet"
  /\ InStart(i) \/ (worker[i] = "running" /\ ~stop[i])
  /\ faultRaised' = TRUE
  /\ report' = [report EXCEPT ![i] = "post"]
  /\ UNCHANGED <<managerVars, mailVars, runVars, signalVars>>

ReportFault(i) ==
  /\ report[i] = "quiet"
  /\ InStart(i) \/ (worker[i] = "running" /\ ~stop[i])
  /\ serviceFailed' = TRUE
  /\ faultRaised' = TRUE
  /\ report' = [report EXCEPT ![i] = "post"]
  /\ UNCHANGED <<loggerUp, alive, app, result, exit, managerVars, mailVars, signalVars>>

ReportEnds(i) ==
  report' = [report EXCEPT ![i] = IF InStart(i) THEN "reported" ELSE "quiet"]

\* try_post; a full or closed mailbox is logged and turned into a stop request.
PostFault(i) ==
  /\ report[i] = "post"
  /\ IF ~mailClosed /\ mail < MailCapacity
     THEN mail' = mail + 1 /\ ReportEnds(i)
     ELSE report' = [report EXCEPT ![i] = "refused"] /\ UNCHANGED mail
  /\ UNCHANGED <<mailClosed, closedBy, faultRaised, managerVars, runVars, signalVars>>

RefusedChecks(i) ==
  /\ report[i] = "refused"
  /\ IF mailClosed THEN ReportEnds(i) ELSE report' = [report EXCEPT ![i] = "close"]
  /\ UNCHANGED <<faultRaised, managerVars, mailVars, runVars, signalVars>>

RefusedCloses(i) ==
  /\ report[i] = "close"
  /\ CloseMail("fault")
  /\ ReportEnds(i)
  /\ UNCHANGED <<faultRaised, managerVars, runVars, signalVars>>

Reporter(i) == PostFault(i) \/ RefusedChecks(i) \/ RefusedCloses(i)

\* A worker leaves the reporter before it ends, asked ...
ServiceStops(i) ==
  /\ report[i] = "quiet"
  /\ WorkerStops(i)
  /\ UNCHANGED <<mailVars, runVars, faultVars, signalVars>>

\* ... or by itself.
ServiceQuits(i) ==
  /\ report[i] = "quiet"
  /\ WorkerQuits(i)
  /\ UNCHANGED <<mailVars, runVars, faultVars, signalVars>>

ServiceThread(i) == ServiceStops(i) \/ ServiceQuits(i)

-----------------------------------------------------------------------------
\* The signal thread

Signal ==
  /\ ~signal
  /\ app # "exited"
  /\ signal' = TRUE
  /\ UNCHANGED <<waiter, waiterFailed, managerVars, mailVars, runVars, faultVars>>

\* ~SignalWaiter has set stopped_.
Stopped == app \in {"leaving", "exited"}

WaiterTakesSignal ==
  /\ waiter = "polling" /\ signal
  /\ signal' = FALSE
  /\ waiter' = "check"
  /\ UNCHANGED <<waiterFailed, managerVars, mailVars, runVars, faultVars>>

WaiterFails ==
  /\ waiter = "polling"
  /\ waiterFailed' = TRUE
  /\ waiter' = "check"
  /\ UNCHANGED <<signal, managerVars, mailVars, runVars, faultVars>>

\* After a failure the thread returns; after a signal it polls on, unless the
\* loop condition finds stopped_ set.
AfterRequest == IF waiterFailed \/ Stopped THEN "done" ELSE "polling"

\* Mutant: a signal that comes before the event loop runs is dropped.
WaiterChecks_IgnoresEarly ==
  /\ waiter = "check"
  /\ waiter' = IF \/ mailClosed
                  \/ ~waiterFailed /\ app \in {"run", "check", "setup", "starting"}
               THEN AfterRequest ELSE "close"
  /\ UNCHANGED <<waiterFailed, signal, managerVars, mailVars, runVars, faultVars>>

WaiterChecks ==
  /\ waiter = "check"
  /\ waiter' = IF mailClosed THEN AfterRequest ELSE "close"
  /\ UNCHANGED <<waiterFailed, signal, managerVars, mailVars, runVars, faultVars>>

WaiterCloses ==
  /\ waiter = "close"
  /\ CloseMail(IF waiterFailed THEN "waiter" ELSE "signal")
  /\ waiter' = AfterRequest
  /\ UNCHANGED <<waiterFailed, signal, managerVars, runVars, faultVars>>

WaiterStops ==
  /\ waiter = "polling" /\ Stopped
  /\ waiter' = "done"
  /\ UNCHANGED <<waiterFailed, signal, managerVars, mailVars, runVars, faultVars>>

Waiter == WaiterTakesSignal \/ WaiterChecks \/ WaiterCloses \/ WaiterStops

-----------------------------------------------------------------------------
\* The process is gone.
Terminated == app = "exited" /\ UNCHANGED appVars

AppNext ==
  \/ Control
  \/ \E i \in Service : ReportFault(i) \/ Reporter(i) \/ ServiceThread(i)
  \/ Signal \/ Waiter \/ WaiterFails
  \/ Terminated

\* Every thread that can run is scheduled.  No fault, signal or failure has to
\* happen and no worker has to quit: one that was asked to stop has to end only
\* when nobody it may be blocked on runs unasked, so a join can wait for ever.
AppFairness ==
  /\ WF_appVars(Control)
  /\ WF_appVars(Waiter)
  /\ \A i \in Service :
       /\ WF_appVars(Reporter(i))
       /\ WF_appVars(ServiceStops(i))

AppSpec == AppInit /\ [][AppNext]_appVars /\ AppFairness

-----------------------------------------------------------------------------
AppTypeOK ==
  /\ TypeOK
  /\ mail \in 0..MailCapacity
  /\ mailClosed \in BOOLEAN
  /\ closedBy \in {"nobody", "fault", "signal", "waiter", "shutdown"}
  /\ serviceFailed \in BOOLEAN /\ loggerUp \in BOOLEAN /\ alive \in BOOLEAN
  /\ app \in {"run", "check", "setup", "starting", "events", "handle", "close",
              "shutdown", "stopping", "cleanup", "returned", "leaving", "exited"}
  /\ result \in {0, 1} /\ exit \in {-1, 0, 1}
  /\ report \in [Service -> {"quiet", "post", "refused", "close", "reported"}]
  /\ faultRaised \in BOOLEAN
  /\ waiter \in {"polling", "check", "close", "done"}
  /\ waiterFailed \in BOOLEAN /\ signal \in BOOLEAN

\* The exit code is 1 when any service reported a fault, from start or from a
\* worker, even when the mailbox was full or already closed and when close threw
\* the queued event away unread; when the signal thread's failure was what
\* stopped the application; when a start() returned false or threw, reported or
\* not; and when start_all never gave an answer, unless a signal forestalled it.
FailureReachesExitCode ==
  /\ exit # -1
  /\ \/ faultRaised
     \/ closedBy = "waiter"
     \/ answer = "false"
     \/ answer = "none" /\ closedBy # "signal"
  => exit = 1

\* Nobody is inside the reporter, and so in the mailbox or the logger, once the
\* services were destroyed: shutdown waits for all threads that may report.
NoReportAfterServicesAreGone ==
  ~alive => \A i \in Service : report[i] = "quiet" /\ worker[i] = "none"

\* A reported fault ends the process.
FaultEndsProcess == faultRaised ~> app = "exited"

\* SIGINT or SIGTERM ends the process unless the signal thread has failed,
\* which ends it too.
SignalEndsProcess == (signal \/ waiterFailed) ~> app = "exited"
=============================================================================
