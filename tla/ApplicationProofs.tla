-------------------------- MODULE ApplicationProofs --------------------------
(***************************************************************************)
(* Theorems about ServiceManager and about the Application on top of it,   *)
(* for any number of services, any dependencies between their workers and  *)
(* any mailbox capacity.                                                   *)
(***************************************************************************)
EXTENDS Application, TLAPS

\* What the loops of start_all and stop_all have done when they are at cursor.
LoopsOK ==
  /\ phase = "starting" =>
       ~started /\ cursor \in 1..(services + 1) /\ attempted = cursor - 1
  /\ phase \in {"requesting", "joining"} => cursor <= attempted
  /\ phase = "requesting" =>
       \A i \in Service : cursor < i /\ i <= attempted => stop[i]

\* The inductive invariant: the invariants of interest say nothing of the
\* loops half done, LoopsOK does.
ManagerOK ==
  /\ TypeOK
  /\ LoopsOK
  /\ EveryWorkerIsAttempted
  /\ NothingRunsAfterStop
  /\ JoinOnlyAfterAllAsked
  /\ DependentsJoinedFirst
  /\ StartIsAllOrNothing

LEMMA ManagerInit == Init => ManagerOK
<1> SUFFICES ASSUME Init PROVE ManagerOK
  OBVIOUS
<1>1. TypeOK
  <2>1. Count \in Nat
    BY ManagerAssumption
  <2>2. services \in 0..Count /\ attempted \in 0..services /\ cursor \in 0..Count + 1
    BY <2>1 DEF Init
  <2>3. /\ worker \in [Service -> {"none", "running", "done"}]
        /\ stop \in [Service -> BOOLEAN]
    BY DEF Init
  <2> QED
    BY <2>2, <2>3 DEF Init, TypeOK
<1>2. LoopsOK /\ JoinOnlyAfterAllAsked /\ DependentsJoinedFirst
  BY DEF Init, LoopsOK, JoinOnlyAfterAllAsked, DependentsJoinedFirst
<1>3. EveryWorkerIsAttempted /\ NothingRunsAfterStop /\ StartIsAllOrNothing
  BY DEF Init, EveryWorkerIsAttempted, NothingRunsAfterStop, StartIsAllOrNothing
<1> QED
  BY <1>1, <1>2, <1>3 DEF ManagerOK

LEMMA ManagerNext == ManagerOK /\ [Next]_vars => ManagerOK'
<1> SUFFICES ASSUME ManagerOK, [Next]_vars PROVE ManagerOK'
  OBVIOUS
<1> USE ManagerAssumption
    DEF ManagerOK, TypeOK, LoopsOK, EveryWorkerIsAttempted, NothingRunsAfterStop,
        JoinOnlyAfterAllAsked, DependentsJoinedFirst, StartIsAllOrNothing, Service
<1>1. CASE Add
  BY <1>1 DEF Add
<1>2. CASE StartAll
  BY <1>2 DEF StartAll
<1>3. CASE StopAll
  BY <1>3 DEF StopAll
<1>4. CASE StartSucceeds
  BY <1>4 DEF StartSucceeds
<1>5. ASSUME NEW left \in {"none", "running"}, StartFails(left)
      PROVE  ManagerOK'
  BY <1>5 DEF StartFails, Fail
<1>6. CASE StartDone
  BY <1>6 DEF StartDone
<1>7. CASE RequestStop
  BY <1>7 DEF RequestStop
<1>8. CASE RequestsDone
  BY <1>8 DEF RequestsDone
<1>9. CASE Join
  BY <1>9 DEF Join
<1>10. CASE StopDone
  <2>1. \A i \in Service : worker'[i] = "none"
    BY <1>10 DEF StopDone
  <2>2. TypeOK'
    <3>1. UNCHANGED <<services, cursor, worker, stop, answer>>
      BY <1>10 DEF StopDone
    <3>2. attempted' \in 0..services'
      BY <1>10 DEF StopDone
    <3>3. started' \in BOOLEAN /\ phase' \in {"idle", "starting", "requesting", "joining"}
      BY <1>10 DEF StopDone
    <3> QED
      BY <3>1, <3>2, <3>3
  <2>3. phase' = "idle" /\ attempted' = 0 /\ ~started'
    BY <1>10 DEF StopDone
  <2> QED
    BY <2>1, <2>2, <2>3
<1>11. ASSUME NEW i \in Service, WorkerStops(i) \/ WorkerQuits(i)
       PROVE  ManagerOK'
  BY <1>11 DEF WorkerStops, WorkerQuits
<1>12. CASE UNCHANGED vars
  BY <1>12 DEF vars
<1> QED
  BY <1>1, <1>2, <1>3, <1>4, <1>5, <1>6, <1>7, <1>8, <1>9, <1>10, <1>11, <1>12
     DEF Next, Inside

\* Every state of the manager is one the code's types allow: attempted_ never
\* passes the number of services, whatever start() does.
THEOREM ManagerTypeCorrect == Spec => []TypeOK
<1>1. ManagerOK => TypeOK
  BY DEF ManagerOK
<1> QED
  BY <1>1, ManagerInit, ManagerNext, PTL DEF Spec

\* stop_all and the rollback of a failed start_all reach every service that may
\* own a thread, so that none is left behind when they return.
THEOREM NoThreadLeftBehind ==
  Spec => [](EveryWorkerIsAttempted /\ NothingRunsAfterStop /\ StartIsAllOrNothing)
<1>1. ManagerOK => /\ EveryWorkerIsAttempted
                   /\ NothingRunsAfterStop
                   /\ StartIsAllOrNothing
  BY DEF ManagerOK
<1> QED
  BY <1>1, ManagerInit, ManagerNext, PTL DEF Spec

\* The two phases of stop_all: nobody is waited for before everybody was asked,
\* and the services are joined from the last one added to the first.
THEOREM TwoPhaseStop == Spec => [](JoinOnlyAfterAllAsked /\ DependentsJoinedFirst)
<1>1. ManagerOK => JoinOnlyAfterAllAsked /\ DependentsJoinedFirst
  BY DEF ManagerOK
<1> QED
  BY <1>1, ManagerInit, ManagerNext, PTL DEF Spec

-----------------------------------------------------------------------------
\* The Application.  The manager works only while the control thread is in a
\* call to it; a stop_all that is over leaves it stopped.
CallsOK ==
  /\ phase # "idle" => app \in {"starting", "stopping"}
  /\ phase = "starting" => app = "starting"
  /\ app = "stopping" /\ phase = "idle" => ~started

\* A thread in the reporter is a service's: its start() or its running worker.
ReportsOK ==
  \A i \in Service : report[i] # "quiet" => InStart(i) \/ worker[i] = "running"

\* From the destruction of the services on.
Gone == {"cleanup", "returned", "leaving", "exited"}

DestroyedOK ==
  /\ ~alive <=> app \in Gone
  /\ app \in Gone => phase = "idle" /\ ~started

\* What every failure leaves behind for the exit code.
FailureOK ==
  /\ faultRaised => serviceFailed
  /\ closedBy # "nobody" => mailClosed
  /\ closedBy = "waiter" => waiterFailed
  /\ app \in {"returned", "leaving", "exited"} => mailClosed /\ (serviceFailed => result = 1)
  /\ exit # -1 => app \in {"leaving", "exited"}
  /\ exit # -1 /\ (serviceFailed \/ closedBy = "waiter") => exit = 1

\* Who closed the mailbox, and which failure it stands for.
ClosedOK ==
  /\ mailClosed => closedBy # "nobody"
  /\ closedBy = "fault" => serviceFailed
  /\ closedBy = "shutdown" => app \in {"returned", "leaving", "exited"}
  /\ \A i \in Service : report[i] # "quiet" => serviceFailed
  /\ app \in {"handle", "close"} => serviceFailed

\* Where the control thread is with the answer of start_all, and the result that a
\* negative one, or none, leaves.
StartOK ==
  /\ app \in {"run", "check", "setup"} => answer = "none"
  /\ app = "starting" /\ answer = "none" => phase = "starting"
  /\ app \in {"events", "handle", "close"} => answer = "true"
  /\ answer = "false" => app = "starting" \/ result = 1
  /\ answer = "none" /\ app \notin {"run", "check", "setup", "starting"} =>
       \/ result = 1 \/ serviceFailed
       \/ mailClosed /\ closedBy \in {"signal", "waiter"}
  /\ exit # -1 /\ result = 1 => exit = 1

AppOK ==
  /\ ManagerOK
  /\ AppTypeOK
  /\ CallsOK
  /\ ReportsOK
  /\ DestroyedOK
  /\ FailureOK
  /\ ClosedOK
  /\ StartOK

-----------------------------------------------------------------------------
LEMMA AppStarts == AppInit => AppOK
<1> SUFFICES ASSUME AppInit PROVE AppOK
  OBVIOUS
<1>1. ManagerOK
  BY ManagerInit DEF AppInit
<1>2. AppTypeOK
  <2>1. mail \in 0..MailCapacity
    BY MailboxAssumption DEF AppInit
  <2>2. report \in [Service -> {"quiet", "post", "refused", "close", "reported"}]
    BY DEF AppInit
  <2> QED
    BY <1>1, <2>1, <2>2 DEF ManagerOK, AppInit, AppTypeOK
<1>3. CallsOK /\ ReportsOK /\ DestroyedOK /\ FailureOK /\ ClosedOK /\ StartOK
  BY DEF AppInit, Init, CallsOK, ReportsOK, DestroyedOK, Gone, FailureOK, ClosedOK, StartOK
<1> QED
  BY <1>1, <1>2, <1>3 DEF AppOK

\* Every step of the application is one of the manager or leaves it alone.
LEMMA ManagerSteps == [AppNext]_appVars => [Next]_vars
<1> USE DEF managerVars, vars
<1>1. ASSUME Control PROVE [Next]_vars
  BY <1>1
  DEF Control, InitLogger, CheckClosed, SetupService, SetupThrows, SetupDone, ManagerStarts,
      StartReturns, ReceiveFault, HandleFault, HandleClose, EventsEnd, ShutdownStops, ManagerStops,
      DestroyServices, Cleanup, MainReturns, Exit, Next, Inside
<1>2. ASSUME NEW i \in Service, ReportFault(i) \/ Reporter(i) PROVE [Next]_vars
  BY <1>2 DEF ReportFault, Reporter, PostFault, RefusedChecks, RefusedCloses
<1>3. ASSUME NEW i \in Service, ServiceThread(i) PROVE [Next]_vars
  BY <1>3 DEF ServiceThread, ServiceStops, ServiceQuits, Next
<1>4. ASSUME Signal \/ Waiter \/ WaiterFails PROVE [Next]_vars
  BY <1>4 DEF Signal, Waiter, WaiterTakesSignal, WaiterChecks, WaiterCloses, WaiterStops, WaiterFails
<1>5. ASSUME Terminated \/ UNCHANGED appVars PROVE [Next]_vars
  BY <1>5 DEF Terminated, appVars
<1> QED
  BY <1>1, <1>2, <1>3, <1>4, <1>5 DEF AppNext

LEMMA AppTypes == AppTypeOK /\ TypeOK' /\ [AppNext]_appVars => AppTypeOK'
<1> SUFFICES ASSUME AppTypeOK, TypeOK', [AppNext]_appVars PROVE AppTypeOK'
  OBVIOUS
<1> DEFINE Mail == /\ mail \in 0..MailCapacity /\ mailClosed \in BOOLEAN
                   /\ closedBy \in {"nobody", "fault", "signal", "waiter", "shutdown"}
           Flags == /\ serviceFailed \in BOOLEAN /\ loggerUp \in BOOLEAN /\ alive \in BOOLEAN
                    /\ faultRaised \in BOOLEAN
           Run == /\ app \in {"run", "check", "setup", "starting", "events", "handle", "close",
                              "shutdown", "stopping", "cleanup", "returned", "leaving", "exited"}
                  /\ result \in {0, 1} /\ exit \in {-1, 0, 1}
           Reports == report \in [Service -> {"quiet", "post", "refused", "close", "reported"}]
           Signals == /\ waiter \in {"polling", "check", "close", "done"}
                      /\ waiterFailed \in BOOLEAN /\ signal \in BOOLEAN
<1>1. AppTypeOK <=> TypeOK /\ Mail /\ Flags /\ Run /\ Reports /\ Signals
  BY DEF AppTypeOK
<1>2. AppTypeOK' <=> TypeOK' /\ Mail' /\ Flags' /\ Run' /\ Reports' /\ Signals'
  BY DEF AppTypeOK
<1> USE DEF AppNext, Control, Waiter, Reporter, mailVars, runVars, faultVars, signalVars, appVars,
            InitLogger, CheckClosed, SetupService, SetupThrows, SetupDone, ManagerStarts,
            StartReturns, ReceiveFault, HandleFault, HandleClose, EventsEnd, ShutdownStops,
            ManagerStops, DestroyServices, Cleanup, MainReturns, Exit, ReportFault, PostFault,
            RefusedChecks, RefusedCloses, ServiceThread, ServiceStops, ServiceQuits, Signal,
            WaiterTakesSignal, WaiterChecks, WaiterCloses, WaiterStops, WaiterFails, Terminated
<1>3. Mail'
  <2>1. mailClosed' = mailClosed \/ mailClosed' = TRUE
    BY DEF CloseMail
  <2>2. closedBy' \in {"nobody", "fault", "signal", "waiter", "shutdown"}
    BY <1>1 DEF CloseMail
  <2>3. \/ mail' = mail \/ mail' = 0
        \/ mail > 0 /\ mail' = mail - 1
        \/ mail < MailCapacity /\ mail' = mail + 1
    BY DEF CloseMail
  <2>4. mail' \in 0..MailCapacity
    <3> HIDE DEF AppNext
    <3> QED
      BY <1>1, <2>3, MailboxAssumption
  <2> QED
    BY <1>1, <2>1, <2>2, <2>4
<1>4. Flags'
  BY <1>1 DEF Goto
<1>5. Run'
  BY <1>1 DEF Goto
<1>6. Reports'
  BY <1>1 DEF ReportEnds
<1>7. Signals'
  BY <1>1 DEF AfterRequest
<1> QED
  BY <1>1, <1>2, <1>3, <1>4, <1>5, <1>6, <1>7

\* The steps that are not in a call of the manager leave it alone; those that are
\* leave the rest alone.
LEMMA CallsKept == AppOK /\ [AppNext]_appVars => CallsOK'
<1> SUFFICES ASSUME AppOK, [AppNext]_appVars PROVE CallsOK'
  OBVIOUS
<1>0. CallsOK /\ StartIsAllOrNothing
  BY DEF AppOK, ManagerOK
<1> USE DEF CallsOK, managerVars, Goto
<1>1. ASSUME Control PROVE CallsOK'
  <2>1. CASE SetupService \/ SetupDone
    BY <1>0, <2>1 DEF SetupService, SetupDone, Add, StartAll
  <2>2. CASE ManagerStarts
    BY <1>0, <2>2
    DEF ManagerStarts, runVars, StartSucceeds, StartFails, Fail, StartDone, RequestStop, RequestsDone,
        Join, StopDone
  <2>3. CASE StartReturns \/ DestroyServices
    BY <1>0, <2>3 DEF StartReturns, DestroyServices
  <2>4. CASE ShutdownStops
    BY <1>0, <2>4 DEF ShutdownStops, StopAll
  <2>5. CASE ManagerStops
    BY <1>0, <2>5 DEF ManagerStops, runVars, RequestStop, RequestsDone, Join, StopDone
  <2>6. CASE InitLogger \/ CheckClosed \/ SetupThrows \/ ReceiveFault \/ HandleFault \/ HandleClose
             \/ EventsEnd \/ Cleanup \/ MainReturns \/ Exit
    BY <1>0, <2>6 DEF InitLogger, CheckClosed, SetupThrows, ReceiveFault, HandleFault, HandleClose,
                      EventsEnd, Cleanup, MainReturns, Exit
  <2> QED
    BY <1>1, <2>1, <2>2, <2>3, <2>4, <2>5, <2>6 DEF Control
<1>2. ASSUME UNCHANGED <<phase, started, app>> PROVE CallsOK'
  BY <1>0, <1>2
<1>3. ASSUME NEW i \in Service, ReportFault(i) \/ Reporter(i) \/ ServiceThread(i) PROVE CallsOK'
  BY <1>2, <1>3 DEF ReportFault, Reporter, PostFault, RefusedChecks, RefusedCloses, ServiceThread,
                    ServiceStops, ServiceQuits, WorkerStops, WorkerQuits, runVars
<1>4. ASSUME Signal \/ Waiter \/ WaiterFails \/ Terminated \/ UNCHANGED appVars PROVE CallsOK'
  BY <1>2, <1>4 DEF Signal, Waiter, WaiterTakesSignal, WaiterChecks, WaiterCloses, WaiterStops,
                    WaiterFails, Terminated, appVars, runVars
<1> QED
  BY <1>1, <1>3, <1>4 DEF AppNext

\* A service is in the reporter only while its start() or its worker runs: start()
\* does not end and join does not return with the call still open.
LEMMA ReportsKept == AppOK /\ [AppNext]_appVars => ReportsOK'
<1> SUFFICES ASSUME AppOK, [AppNext]_appVars PROVE ReportsOK'
  OBVIOUS
<1>0. /\ ReportsOK
      /\ report \in [Service -> {"quiet", "post", "refused", "close", "reported"}]
      /\ worker \in [Service -> {"none", "running", "done"}]
      /\ phase = "starting" => cursor \in Nat \ {0}
      /\ services \in 0..Count /\ cursor \in Nat /\ Count \in Nat
  <2>1. ReportsOK /\ AppTypeOK /\ TypeOK /\ LoopsOK
    BY DEF AppOK, ManagerOK
  <2> QED
    BY <2>1, ManagerAssumption DEF AppTypeOK, TypeOK, LoopsOK
<1> USE DEF ReportsOK, InStart
<1>1. ASSUME UNCHANGED <<services, phase, cursor, worker, report>> PROVE ReportsOK'
  BY <1>0, <1>1
<1>2. CASE ManagerStarts
  <2>1. CASE StartSucceeds /\ report[cursor] = "quiet" /\ UNCHANGED report
    BY <1>0, <2>1 DEF StartSucceeds
  <2>2. CASE /\ \E left \in {"none", "running"} : StartFails(left)
             /\ report' = [report EXCEPT ![cursor] = "quiet"]
    BY <1>0, <2>2 DEF StartFails, Fail
  <2>3. CASE StartDone /\ UNCHANGED report
    BY <1>0, <2>3 DEF StartDone
  <2>4. CASE (RequestStop \/ RequestsDone \/ Join \/ StopDone) /\ UNCHANGED report
    BY <1>0, <2>4 DEF RequestStop, RequestsDone, Join, StopDone
  <2> QED
    BY <1>2, <2>1, <2>2, <2>3, <2>4 DEF ManagerStarts
<1>3. CASE ManagerStops
  BY <1>0, <1>3 DEF ManagerStops, faultVars, RequestStop, RequestsDone, Join, StopDone
<1>4. CASE SetupService
  BY <1>0, <1>4 DEF SetupService, Add, faultVars
<1>5. CASE SetupDone
  BY <1>0, <1>5 DEF SetupDone, StartAll, faultVars
<1>6. CASE ShutdownStops
  BY <1>0, <1>6 DEF ShutdownStops, StopAll, faultVars
<1>7. ASSUME NEW i \in Service, ReportFault(i) \/ Reporter(i) PROVE ReportsOK'
  <2>1. UNCHANGED <<services, phase, cursor, worker>>
    BY <1>7 DEF ReportFault, Reporter, PostFault, RefusedChecks, RefusedCloses, managerVars
  <2>2. /\ InStart(i) \/ worker[i] = "running"
        /\ \A j \in Service : j # i => report'[j] = report[j]
    BY <1>0, <1>7
    DEF ReportFault, Reporter, PostFault, RefusedChecks, RefusedCloses, ReportEnds
  <2> QED
    BY <1>0, <2>1, <2>2
<1>8. ASSUME NEW i \in Service, ServiceThread(i) PROVE ReportsOK'
  BY <1>0, <1>8 DEF ServiceThread, ServiceStops, ServiceQuits, WorkerStops, WorkerQuits, faultVars
<1>9. CASE InitLogger \/ CheckClosed \/ SetupThrows \/ StartReturns \/ ReceiveFault \/ HandleFault
           \/ HandleClose \/ EventsEnd \/ DestroyServices \/ Cleanup \/ MainReturns \/ Exit
  BY <1>1, <1>9
  DEF InitLogger, CheckClosed, SetupThrows, StartReturns, ReceiveFault, HandleFault, HandleClose,
      EventsEnd, DestroyServices, Cleanup, MainReturns, Exit, managerVars, faultVars
<1>10. CASE Signal \/ Waiter \/ WaiterFails \/ Terminated \/ UNCHANGED appVars
  BY <1>1, <1>10
  DEF Signal, Waiter, WaiterTakesSignal, WaiterChecks, WaiterCloses, WaiterStops, WaiterFails,
      Terminated, appVars, managerVars, faultVars
<1> QED
  BY <1>2, <1>3, <1>4, <1>5, <1>6, <1>7, <1>8, <1>9, <1>10 DEF AppNext, Control

\* With the services gone, the manager is stopped and nobody is left to start it.
LEMMA DestroyedKept == AppOK /\ [AppNext]_appVars => DestroyedOK'
<1> SUFFICES ASSUME AppOK, [AppNext]_appVars PROVE DestroyedOK'
  OBVIOUS
<1>0. DestroyedOK /\ CallsOK
  BY DEF AppOK
<1> USE DEF DestroyedOK, Gone, Goto
<1>1. ASSUME UNCHANGED <<alive, app, phase, started>> PROVE DestroyedOK'
  BY <1>0, <1>1
<1>2. ASSUME app \notin Gone, app' \notin Gone, UNCHANGED alive PROVE DestroyedOK'
  BY <1>0, <1>2
<1>3. CASE InitLogger \/ CheckClosed \/ SetupService \/ SetupThrows \/ SetupDone \/ ManagerStarts
           \/ StartReturns \/ ReceiveFault \/ HandleFault \/ HandleClose \/ EventsEnd
           \/ ShutdownStops \/ ManagerStops
  BY <1>2, <1>3
  DEF InitLogger, CheckClosed, SetupService, SetupThrows, SetupDone, ManagerStarts, StartReturns,
      ReceiveFault, HandleFault, HandleClose, EventsEnd, ShutdownStops, ManagerStops, runVars
<1>4. CASE DestroyServices
  BY <1>0, <1>4 DEF DestroyServices, CallsOK, managerVars
<1>5. CASE Cleanup \/ MainReturns \/ Exit
  BY <1>0, <1>5 DEF Cleanup, MainReturns, Exit, managerVars
<1>6. ASSUME NEW i \in Service, ReportFault(i) \/ Reporter(i) \/ ServiceThread(i) PROVE DestroyedOK'
  BY <1>1, <1>6
  DEF ReportFault, Reporter, PostFault, RefusedChecks, RefusedCloses, ServiceThread,
      ServiceStops, ServiceQuits, WorkerStops, WorkerQuits, runVars, managerVars
<1>7. CASE Signal \/ Waiter \/ WaiterFails \/ Terminated \/ UNCHANGED appVars
  BY <1>1, <1>7
  DEF Signal, Waiter, WaiterTakesSignal, WaiterChecks, WaiterCloses, WaiterStops, WaiterFails,
      Terminated, appVars, managerVars, runVars
<1> QED
  BY <1>3, <1>4, <1>5, <1>6, <1>7 DEF AppNext, Control

\* No fault is raised and no request is the first one after the result was formed:
\* the mailbox is closed by then and nobody is left who may report.
LEMMA FailureKept == AppOK /\ [AppNext]_appVars => FailureOK'
<1> SUFFICES ASSUME AppOK, [AppNext]_appVars PROVE FailureOK'
  OBVIOUS
<1>0. /\ FailureOK /\ DestroyedOK /\ NothingRunsAfterStop
      /\ app \in Gone => phase = "idle" /\ \A i \in Service : worker[i] = "none"
      /\ result \in {0, 1} /\ serviceFailed \in BOOLEAN /\ waiterFailed \in BOOLEAN
  BY DEF AppOK, ManagerOK, AppTypeOK, DestroyedOK, NothingRunsAfterStop
<1> USE DEF FailureOK, CloseMail, Goto
<1>1. ASSUME UNCHANGED <<serviceFailed, result, exit, faultRaised, mailClosed, closedBy, waiterFailed>>,
             \/ app' = app
             \/ app \notin {"returned", "leaving", "exited"} /\ app' \notin {"returned", "leaving", "exited"}
             \/ app = "leaving" /\ app' = "exited"
      PROVE  FailureOK'
  BY <1>0, <1>1
<1>2. CASE InitLogger \/ SetupThrows \/ StartReturns
  BY <1>0, <1>2 DEF InitLogger, SetupThrows, StartReturns, mailVars, faultVars, signalVars
<1>3. CASE CheckClosed \/ SetupService \/ SetupDone \/ ManagerStarts \/ HandleFault \/ EventsEnd
           \/ ShutdownStops \/ ManagerStops \/ DestroyServices \/ Exit
  BY <1>1, <1>3
  DEF CheckClosed, SetupService, SetupDone, ManagerStarts, HandleFault, EventsEnd, ShutdownStops,
      ManagerStops, DestroyServices, Exit, mailVars, faultVars, signalVars, runVars
<1>4. CASE ReceiveFault
  BY <1>0, <1>4 DEF ReceiveFault, faultVars, signalVars
<1>5. CASE HandleClose
  BY <1>0, <1>5 DEF HandleClose, faultVars, signalVars
<1>6. CASE Cleanup
  BY <1>0, <1>6 DEF Cleanup, faultVars, signalVars
<1>7. CASE MainReturns
  BY <1>0, <1>7 DEF MainReturns, mailVars, faultVars, signalVars
<1>8. ASSUME NEW i \in Service, ReportFault(i) PROVE FailureOK'
  <2>1. app \notin Gone
    BY <1>0, <1>8 DEF ReportFault, InStart
  <2> QED
    BY <1>0, <1>8, <2>1 DEF ReportFault, Gone, mailVars, signalVars
<1>9. ASSUME NEW i \in Service, PostFault(i) \/ RefusedChecks(i) \/ ServiceThread(i) PROVE FailureOK'
  BY <1>1, <1>9
  DEF PostFault, RefusedChecks, ServiceThread, ServiceStops, ServiceQuits, mailVars, runVars,
      faultVars, signalVars
<1>10. ASSUME NEW i \in Service, RefusedCloses(i) PROVE FailureOK'
  BY <1>0, <1>10 DEF RefusedCloses, runVars, signalVars
<1>11. CASE Signal \/ WaiterTakesSignal \/ WaiterChecks \/ WaiterStops \/ Terminated
            \/ UNCHANGED appVars
  BY <1>1, <1>11
  DEF Signal, WaiterTakesSignal, WaiterChecks, WaiterStops, Terminated, appVars, mailVars, runVars,
      faultVars, signalVars
<1>12. CASE WaiterFails
  BY <1>0, <1>12 DEF WaiterFails, mailVars, runVars, faultVars
<1>13. CASE WaiterCloses
  BY <1>0, <1>13 DEF WaiterCloses, runVars, faultVars
<1> QED
  BY <1>2, <1>3, <1>4, <1>5, <1>6, <1>7, <1>8, <1>9, <1>10, <1>11, <1>12, <1>13
  DEF AppNext, Control, Reporter, Waiter

\* A close by a fault finds the flag set, and the control thread's own close comes
\* when nobody else is left to make the first one.
LEMMA ClosedKept == AppOK /\ [AppNext]_appVars => ClosedOK'
<1> SUFFICES ASSUME AppOK, [AppNext]_appVars PROVE ClosedOK'
  OBVIOUS
<1>0. /\ ClosedOK
      /\ report \in [Service -> {"quiet", "post", "refused", "close", "reported"}]
  BY DEF AppOK, AppTypeOK
<1> USE DEF ClosedOK, CloseMail, Goto
<1>1. ASSUME UNCHANGED <<mailVars, report>>, serviceFailed => serviceFailed',
             app' \in {"handle", "close"} => app \in {"handle", "close"},
             app \in {"returned", "leaving", "exited"} => app' \in {"returned", "leaving", "exited"}
      PROVE  ClosedOK'
  BY <1>0, <1>1 DEF mailVars
<1>2. CASE InitLogger \/ CheckClosed \/ SetupService \/ SetupThrows \/ SetupDone \/ StartReturns
           \/ EventsEnd \/ ShutdownStops \/ ManagerStops \/ DestroyServices \/ MainReturns \/ Exit
  BY <1>1, <1>2
  DEF InitLogger, CheckClosed, SetupService, SetupThrows, SetupDone, StartReturns, EventsEnd,
      ShutdownStops, ManagerStops, DestroyServices, MainReturns, Exit, runVars, faultVars
<1>3. CASE ManagerStarts
  BY <1>0, <1>3 DEF ManagerStarts, mailVars, runVars
<1>4. CASE ReceiveFault \/ HandleFault \/ HandleClose \/ Cleanup
  BY <1>0, <1>4 DEF ReceiveFault, HandleFault, HandleClose, Cleanup, mailVars, faultVars
<1>5. ASSUME NEW i \in Service, ReportFault(i) PROVE ClosedOK'
  BY <1>0, <1>5 DEF ReportFault, mailVars
<1>6. ASSUME NEW i \in Service, Reporter(i) PROVE ClosedOK'
  BY <1>0, <1>6
  DEF Reporter, PostFault, RefusedChecks, RefusedCloses, ReportEnds, mailVars, runVars
<1>7. ASSUME NEW i \in Service, ServiceThread(i) PROVE ClosedOK'
  BY <1>1, <1>7 DEF ServiceThread, ServiceStops, ServiceQuits, faultVars, runVars
<1>8. CASE Signal \/ WaiterTakesSignal \/ WaiterChecks \/ WaiterStops \/ WaiterFails \/ Terminated
           \/ UNCHANGED appVars
  BY <1>1, <1>8
  DEF Signal, WaiterTakesSignal, WaiterChecks, WaiterStops, WaiterFails, Terminated, appVars,
      runVars, faultVars
<1>9. CASE WaiterCloses
  BY <1>0, <1>9 DEF WaiterCloses, runVars, faultVars
<1> QED
  BY <1>2, <1>3, <1>4, <1>5, <1>6, <1>7, <1>8, <1>9 DEF AppNext, Control, Waiter

\* start_all answers before the control thread goes on, and what it does then is to
\* set the result.
LEMMA StartKept == AppOK /\ [AppNext]_appVars => StartOK'
<1> SUFFICES ASSUME AppOK, [AppNext]_appVars PROVE StartOK'
  OBVIOUS
<1>0. /\ StartOK /\ ClosedOK /\ CallsOK /\ FailureOK
      /\ answer \in {"none", "true", "false"}
      /\ result \in {0, 1} /\ serviceFailed \in BOOLEAN /\ waiterFailed \in BOOLEAN
      /\ closedBy \in {"nobody", "fault", "signal", "waiter", "shutdown"}
      /\ phase \in {"idle", "starting", "requesting", "joining"}
      /\ app \in {"run", "check", "setup", "starting", "events", "handle", "close",
                  "shutdown", "stopping", "cleanup", "returned", "leaving", "exited"}
  BY DEF AppOK, AppTypeOK, TypeOK
<1> USE DEF StartOK, Goto
<1>1. ASSUME UNCHANGED <<answer, phase, app, result, exit>>, serviceFailed => serviceFailed',
             mailClosed => mailClosed' /\ closedBy' = closedBy
      PROVE  StartOK'
  BY <1>0, <1>1
<1>2. CASE InitLogger \/ SetupThrows \/ SetupService
  BY <1>0, <1>2 DEF InitLogger, SetupThrows, SetupService, Add, FailureOK, managerVars, mailVars, runVars
<1>3. CASE CheckClosed
  BY <1>0, <1>3 DEF CheckClosed, ClosedOK, FailureOK, managerVars, mailVars
<1>4. CASE SetupDone
  BY <1>0, <1>4 DEF SetupDone, StartAll, mailVars
<1>5. CASE ManagerStarts
  BY <1>0, <1>5
  DEF ManagerStarts, StartSucceeds, StartFails, Fail, StartDone, RequestStop, RequestsDone, Join,
      StopDone, CallsOK, mailVars, runVars
<1>6. CASE StartReturns
  BY <1>0, <1>6 DEF StartReturns, FailureOK, managerVars, mailVars
<1>7. CASE ReceiveFault \/ HandleFault \/ HandleClose \/ EventsEnd
  BY <1>0, <1>7 DEF ReceiveFault, HandleFault, HandleClose, EventsEnd, managerVars
<1>8. CASE ShutdownStops
  BY <1>0, <1>8 DEF ShutdownStops, StopAll, mailVars
<1>9. CASE ManagerStops
  BY <1>0, <1>9
  DEF ManagerStops, RequestStop, RequestsDone, Join, StopDone, mailVars, runVars
<1>10. CASE DestroyServices \/ Exit
  BY <1>0, <1>10 DEF DestroyServices, Exit, managerVars, mailVars
<1>11. CASE Cleanup \/ MainReturns
  BY <1>0, <1>11 DEF Cleanup, MainReturns, CloseMail, FailureOK, managerVars, mailVars
<1>12. ASSUME NEW i \in Service, ReportFault(i) \/ Reporter(i) PROVE StartOK'
  BY <1>1, <1>12
  DEF ReportFault, Reporter, PostFault, RefusedChecks, RefusedCloses, CloseMail, managerVars, mailVars,
      runVars
<1>13. ASSUME NEW i \in Service, ServiceThread(i) PROVE StartOK'
  BY <1>1, <1>13
  DEF ServiceThread, ServiceStops, ServiceQuits, WorkerStops, WorkerQuits, mailVars, runVars
<1>14. CASE Signal \/ Waiter \/ WaiterFails \/ Terminated \/ UNCHANGED appVars
  BY <1>1, <1>14
  DEF Signal, Waiter, WaiterTakesSignal, WaiterChecks, WaiterCloses, WaiterStops, WaiterFails,
      CloseMail, Terminated, appVars, managerVars, mailVars, runVars
<1> QED
  BY <1>2, <1>3, <1>4, <1>5, <1>6, <1>7, <1>8, <1>9, <1>10, <1>11, <1>12, <1>13, <1>14
  DEF AppNext, Control

LEMMA AppKept == AppOK /\ [AppNext]_appVars => AppOK'
<1> SUFFICES ASSUME AppOK, [AppNext]_appVars PROVE AppOK'
  OBVIOUS
<1>1. ManagerOK'
  BY ManagerSteps, ManagerNext DEF AppOK
<1>2. AppTypeOK'
  BY <1>1, AppTypes DEF AppOK, ManagerOK
<1> QED
  BY <1>1, <1>2, CallsKept, ReportsKept, DestroyedKept, FailureKept, ClosedKept, StartKept DEF AppOK

LEMMA AppInvariant == AppSpec => []AppOK
  BY AppStarts, AppKept, PTL DEF AppSpec

\* The control thread, the fault reporters and the signal thread together keep
\* every variable of the application within its type.
THEOREM AppTypeCorrect == AppSpec => []AppTypeOK
<1>1. AppOK => AppTypeOK
  BY DEF AppOK
<1> QED
  BY <1>1, AppInvariant, PTL

\* A fault that was reported, a failure of the signal thread that stopped the run,
\* a start() that failed and a run that never got an answer of start_all, unless a
\* signal forestalled it, all end in exit code 1.
THEOREM FailuresAreReported == AppSpec => []FailureReachesExitCode
<1>1. AppOK => FailureReachesExitCode
  <2> SUFFICES ASSUME AppOK, exit # -1,
                      \/ faultRaised \/ closedBy = "waiter" \/ answer = "false"
                      \/ answer = "none" /\ closedBy # "signal"
               PROVE  exit = 1
    BY DEF FailureReachesExitCode
  <2>1. app \in {"leaving", "exited"}
    BY DEF AppOK, FailureOK
  <2>2. result = 1 \/ serviceFailed \/ closedBy = "waiter"
    BY <2>1 DEF AppOK, FailureOK, StartOK
  <2> QED
    BY <2>2 DEF AppOK, FailureOK, StartOK
<1> QED
  BY <1>1, AppInvariant, PTL

\* Once the services are destroyed no thread of theirs is left, in the reporter
\* or elsewhere.
THEOREM NobodyReportsToTheDead == AppSpec => []NoReportAfterServicesAreGone
<1>1. AppOK => NoReportAfterServicesAreGone
  <2> SUFFICES ASSUME AppOK, ~alive
               PROVE  \A i \in Service : report[i] = "quiet" /\ worker[i] = "none"
    BY DEF NoReportAfterServicesAreGone
  <2>1. phase = "idle" /\ ~started
    BY DEF AppOK, DestroyedOK
  <2>2. \A i \in Service : worker[i] = "none"
    BY <2>1 DEF AppOK, ManagerOK, NothingRunsAfterStop
  <2> QED
    BY <2>1, <2>2 DEF AppOK, ReportsOK, InStart
<1> QED
  BY <1>1, AppInvariant, PTL

\* The application uses the manager as its specification allows: what holds of
\* every use of the manager holds of this one.
THEOREM ApplicationUsesTheManager == AppSpec => Init /\ [][Next]_vars
<1>1. AppInit => Init
  BY DEF AppInit
<1> QED
  BY <1>1, ManagerSteps, PTL DEF AppSpec

\* Also when a fault, a signal or a failed start cuts the run short, the services
\* are joined from the last to the first and none is left when stop_all is over.
THEOREM ApplicationStopsInOrder == AppSpec => [](NothingRunsAfterStop /\ DependentsJoinedFirst)
<1>1. AppOK => NothingRunsAfterStop /\ DependentsJoinedFirst
  BY DEF AppOK, ManagerOK
<1> QED
  BY <1>1, AppInvariant, PTL
=============================================================================
