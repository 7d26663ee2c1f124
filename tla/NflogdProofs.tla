---------------------------- MODULE NflogdProofs ----------------------------
(***************************************************************************)
(* The safety of the nflogd process, for any number of recycles and hups.  *)
(***************************************************************************)
EXTENDS Nflogd, TLAPS

(* The order in which main() and the constructor bring the threads up.     *)
StartInv ==
  /\ main = "construct" => netsock = "none"
  /\ main \in {"construct", "begin"} =>
       ThreadSignal = 0 /\ server \in {"none", "failed", "wait"}
  /\ main # "construct" => server # "none" /\ netsock # "none"
  /\ main \notin {"joinserver", "hung"} => ThreadSignal <= 1
  /\ main = "spawn" => capture = "none"
  /\ main \in {"construct", "begin"} => capture = "none"
  /\ netsock = "failed" => g_shutdown = 1
  /\ netsock = "closed" =>
       server \in {"failed", "done"} /\ process = "exited"
  /\ (main \in {"loop", "woken", "recycled", "await"} /\ capture = "none")
       => g_shutdown = 1
  /\ main = "await" => capture # "none"
  /\ capture = "startup" => main = "await"
  /\ capture \in {"none", "startup", "post", "postfail"} => g_capture_sem = 0

(* What the handle pointers say about the library's handles, those left    *)
(* out that it refused to let go; a number is never given twice.           *)
HandleInv ==
  /\ LeftLogs \subseteq {l_log_handle}
  /\ LeftGroups \subseteq {l_grp_handle} /\ LeftGroups \subseteq LeftLogs
  /\ refused \subseteq {"group", "log"} \X (1..opens)
  /\ l_log_handle <= opens /\ l_grp_handle <= opens
  /\ capture \in {"none", "startup", "sleep", "done"} => LeftLogs = {}
  /\ capture \in {"post", "check", "recv", "broadcast", "stuck", "recycle"} =>
       l_log_handle \in LeftLogs /\ l_grp_handle \in LeftGroups
  /\ capture \in {"none", "startup", "recycle", "sleep"} => opens < MaxOpens
  /\ capture # "done" => misused = {}

IInv ==
  /\ TypeOK /\ StartInv /\ HandleInv
  /\ WorkerHasSocket /\ LoopAfterStartup /\ ServerOutlivesThreads

HandleTypes ==
  /\ l_log_handle \in 0..MaxOpens /\ l_grp_handle \in 0..MaxOpens
  /\ openLogs \in SUBSET (1..MaxOpens) /\ boundGroups \in SUBSET (1..MaxOpens)
  /\ opens \in 0..MaxOpens
  /\ refused \in SUBSET ({"group", "log"} \X (1..MaxOpens))
  /\ misused \in SUBSET ({"group", "log"} \X (1..MaxOpens))

(* A startup makes the pointers and the handles it opened agree.           *)
LEMMA StartupHandles ==
  ASSUME HandleTypes, HandleInv, LeftLogs = {}, opens < MaxOpens,
         NEW stage \in Stage, capture_startup(stage)
  PROVE  /\ HandleTypes'
         /\ LeftLogs' \subseteq {l_log_handle'}
         /\ LeftGroups' \subseteq {l_grp_handle'}
         /\ LeftGroups' \subseteq LeftLogs' /\ misused' = misused
         /\ refused' \subseteq {"group", "log"} \X (1..opens')
         /\ l_log_handle' <= opens' /\ l_grp_handle' <= opens'
         /\ stage = "ok" =>
              l_log_handle' \in LeftLogs' /\ l_grp_handle' \in LeftGroups'
<1> USE NflogdAssumption DEF capture_startup, Stage, Opened, Bound
<1>1. HandleTypes'
  BY DEF HandleTypes
<1>2. LeftGroups = {}
  BY DEF HandleInv
<1>3. /\ <<"log", opens + 1>> \notin refused
      /\ <<"group", opens + 1>> \notin refused
      /\ opens \in Nat /\ refused' = refused
  BY DEF HandleInv, HandleTypes
<1>4. /\ LeftLogs' = IF Opened(stage) THEN {opens + 1} ELSE {}
      /\ LeftGroups' = IF Bound(stage) THEN {opens + 1} ELSE {}
  <2>1. LeftLogs' = {h \in openLogs' : <<"log", h>> \notin refused}
    BY <1>3 DEF LeftLogs
  <2>2. LeftGroups' = {h \in boundGroups' : <<"group", h>> \notin refused}
    BY <1>3 DEF LeftGroups
  <2>3. /\ \A h \in openLogs : <<"log", h>> \in refused
        /\ \A h \in boundGroups : <<"group", h>> \in refused
    BY <1>2 DEF LeftLogs, LeftGroups
  <2> QED
    BY <1>3, <2>1, <2>2, <2>3
<1>5. refused' \subseteq {"group", "log"} \X (1..opens')
  BY <1>3 DEF HandleInv, HandleTypes
<1>6. l_log_handle' <= opens' /\ l_grp_handle' <= opens'
  BY <1>3 DEF HandleInv, HandleTypes
<1> QED
  BY <1>1, <1>4, <1>5, <1>6

(* A shutdown leaves nothing open or bound that was not refused, whatever  *)
(* the pointers are, and misuses nothing when both handles are live.       *)
LEMMA ShutdownHandles ==
  ASSUME HandleTypes, HandleInv, capture_shutdown
  PROVE  /\ HandleTypes' /\ LeftLogs' = {} /\ LeftGroups' = {}
         /\ refused' \subseteq {"group", "log"} \X (1..opens')
         /\ l_log_handle' <= opens' /\ l_grp_handle' <= opens'
         /\ opens' = opens
         /\ (l_log_handle \in LeftLogs /\ l_grp_handle \in LeftGroups)
              => misused' = misused
<1> DEFINE group == {l_grp_handle} \ {0}
           log   == {l_log_handle} \ {0}
<1>1. PICK unbound, closed \in BOOLEAN :
        /\ boundGroups' = IF unbound THEN boundGroups \ group ELSE boundGroups
        /\ openLogs' = IF closed THEN openLogs \ log ELSE openLogs
        /\ refused' = refused \cup
             (IF unbound THEN {} ELSE {"group"} \X group) \cup
             (IF closed THEN {} ELSE {"log"} \X log)
        /\ misused' = misused \cup
             ({"group"} \X (group \ boundGroups)) \cup
             ({"log"} \X ((log \cup group) \ openLogs))
        /\ UNCHANGED <<l_log_handle, l_grp_handle, opens>>
  BY DEF capture_shutdown
<1>2. /\ group \subseteq 1..opens /\ log \subseteq 1..opens
      /\ 1..opens \subseteq 1..MaxOpens
  BY NflogdAssumption DEF HandleTypes, HandleInv
<1>3. refused' \subseteq {"group", "log"} \X (1..opens)
  BY <1>1, <1>2 DEF HandleInv
<1>4. HandleTypes'
  <2>1. /\ boundGroups' \in SUBSET (1..MaxOpens)
        /\ openLogs' \in SUBSET (1..MaxOpens)
    BY <1>1 DEF HandleTypes
  <2>2. refused' \in SUBSET ({"group", "log"} \X (1..MaxOpens))
    BY <1>2, <1>3
  <2>3. misused' \in SUBSET ({"group", "log"} \X (1..MaxOpens))
    BY <1>1, <1>2 DEF HandleTypes
  <2> QED
    BY <1>1, <2>1, <2>2, <2>3 DEF HandleTypes
<1>5. LeftLogs' = {}
  <2>1. SUFFICES ASSUME NEW h \in openLogs', <<"log", h>> \notin refused'
                 PROVE  FALSE
    BY DEF LeftLogs
  <2>2. h \in openLogs /\ <<"log", h>> \notin refused
    BY <1>1, <2>1
  <2>3. h = l_log_handle /\ h # 0
    BY <2>2 DEF HandleInv, LeftLogs, HandleTypes
  <2> QED
    BY <1>1, <2>1, <2>3
<1>6. LeftGroups' = {}
  <2>1. SUFFICES ASSUME NEW h \in boundGroups', <<"group", h>> \notin refused'
                 PROVE  FALSE
    BY DEF LeftGroups
  <2>2. h \in boundGroups /\ <<"group", h>> \notin refused
    BY <1>1, <2>1
  <2>3. h = l_grp_handle /\ h # 0
    BY <2>2 DEF HandleInv, LeftGroups, HandleTypes
  <2> QED
    BY <1>1, <2>1, <2>3
<1>7. ASSUME l_log_handle \in LeftLogs, l_grp_handle \in LeftGroups
      PROVE  misused' = misused
  <2>1. /\ l_log_handle \in openLogs /\ l_grp_handle \in boundGroups
        /\ l_grp_handle \in openLogs
    BY <1>7 DEF HandleInv, LeftLogs, LeftGroups
  <2> QED
    BY <1>1, <2>1
<1> QED
  BY <1>1, <1>3, <1>4, <1>5, <1>6, <1>7 DEF HandleInv

(* What is left is the same while the handles are.                         *)
LEMMA SameHandles ==
  ASSUME HandleTypes, UNCHANGED handles
  PROVE  HandleTypes' /\ LeftLogs' = LeftLogs /\ LeftGroups' = LeftGroups
BY DEF HandleTypes, handles, LeftLogs, LeftGroups

(* The capture thread keeps its handles in order: a startup finds none     *)
(* left open, a shutdown leaves none.                                      *)
LEMMA CaptureKeepsHandles ==
  ASSUME IInv, CaptureStep \/ CaptureUnstick
  PROVE  HandleInv' /\ HandleTypes'
<1> USE DEF IInv, Capture
<1>0. HandleTypes
  BY DEF TypeOK, HandleTypes
<1>1. CASE CaptureStartup
  <2>1. LeftLogs = {} /\ opens < MaxOpens /\ misused = {}
    BY <1>1 DEF CaptureStartup, HandleInv
  <2>2. PICK stage \in Stage :
          /\ capture_startup(stage)
          /\ capture' = IF stage = "ok" THEN "post" ELSE "postfail"
    BY <1>1 DEF CaptureStartup
  <2>3. opens' = opens + 1
    BY <2>2 DEF capture_startup
  <2> QED
    BY <1>0, <2>1, <2>2, <2>3, StartupHandles DEF HandleInv
<1>2. CASE CaptureRestart
  <2>1. LeftLogs = {} /\ opens < MaxOpens /\ misused = {}
    BY <1>2 DEF CaptureRestart, HandleInv
  <2>2. PICK stage \in Stage :
          /\ capture_startup(stage)
          /\ \/ stage = "ok" /\ capture' = "check"
             \/ stage # "ok" /\ capture' = "finish"
    BY <1>2 DEF CaptureRestart
  <2> QED
    BY <1>0, <2>1, <2>2, StartupHandles DEF HandleInv
<1>3. CASE CaptureRecycle
  <2>1. capture = "recycle" /\ capture' = "sleep" /\ capture_shutdown
    BY <1>3 DEF CaptureRecycle
  <2>2. /\ l_log_handle \in LeftLogs /\ l_grp_handle \in LeftGroups
        /\ misused = {} /\ opens < MaxOpens
    BY <2>1 DEF HandleInv
  <2> QED
    BY <1>0, <2>1, <2>2, ShutdownHandles DEF HandleInv
<1>4. CASE CaptureFinish
  <2>1. capture' = "done" /\ capture_shutdown
    BY <1>4 DEF CaptureFinish
  <2> QED
    BY <1>0, <2>1, ShutdownHandles DEF HandleInv
<1>5. CASE \/ CapturePost \/ CaptureFail \/ CaptureCheck \/ CaptureRecv
           \/ CaptureBroadcast \/ CaptureUnstick
  <2>1. UNCHANGED handles
    BY <1>5 DEF CapturePost, CaptureFail, CaptureCheck, CaptureRecv,
                CaptureBroadcast, CaptureUnstick
  <2>2. HandleTypes' /\ LeftLogs' = LeftLogs /\ LeftGroups' = LeftGroups
    BY <1>0, <2>1, SameHandles
  <2> QED
    BY <1>5, <2>1, <2>2
    DEF CapturePost, CaptureFail, CaptureCheck, CaptureRecv,
        CaptureBroadcast, CaptureUnstick, HandleInv, handles
<1> QED
  BY <1>1, <1>2, <1>3, <1>4, <1>5 DEF CaptureStep

(* The capture thread keeps the invariant.                                 *)
LEMMA CaptureKeepsRest ==
  ASSUME IInv, CaptureStep \/ CaptureUnstick
  PROVE  IInv'
<1> USE NflogdAssumption DEF IInv, Capture, sync, StartInv, WorkerHasSocket,
        LoopAfterStartup, ServerOutlivesThreads
<1>0. HandleInv' /\ HandleTypes'
  BY CaptureKeepsHandles
<1>1. CASE CaptureStartup
  BY <1>0, <1>1 DEF CaptureStartup, TypeOK, HandleTypes
<1>2. CASE CaptureRestart
  BY <1>0, <1>2 DEF CaptureRestart, TypeOK, HandleTypes
<1>3. CASE CaptureRecycle
  BY <1>0, <1>3 DEF CaptureRecycle, TypeOK, HandleTypes, capture_shutdown
<1>4. CASE CaptureFinish
  BY <1>0, <1>4 DEF CaptureFinish, TypeOK, HandleTypes, capture_shutdown
<1>5. CASE CapturePost
  BY <1>0, <1>5 DEF CapturePost, TypeOK, HandleTypes
<1>6. CASE CaptureFail
  BY <1>0, <1>6 DEF CaptureFail, TypeOK, HandleTypes
<1>7. CASE CaptureCheck
  BY <1>0, <1>7 DEF CaptureCheck, TypeOK, HandleTypes
<1>8. CASE CaptureRecv
  BY <1>0, <1>8 DEF CaptureRecv, TypeOK, HandleTypes
<1>9. CASE CaptureBroadcast
  BY <1>0, <1>9 DEF CaptureBroadcast, TypeOK, HandleTypes
<1>10. CASE CaptureUnstick
  BY <1>0, <1>10 DEF CaptureUnstick, TypeOK, HandleTypes
<1> QED
  BY <1>1, <1>2, <1>3, <1>4, <1>5, <1>6, <1>7, <1>8, <1>9, <1>10 DEF CaptureStep

(* main() keeps the invariant: it enters its loop after the first startup  *)
(* and deletes the server after the capture thread is joined.              *)
LEMMA MainKeeps ==
  ASSUME IInv, MainStep \/ ConsoleInput
  PROVE  IInv'
<1> USE DEF IInv, Main, sync, handles, TypeOK, StartInv, HandleInv,
        WorkerHasSocket, LoopAfterStartup, ServerOutlivesThreads, LeftLogs,
        LeftGroups
<1>1. CASE CreateThread
  BY <1>1 DEF CreateThread
<1>2. CASE OpenSocket
  BY <1>2 DEF OpenSocket
<1>3. CASE BeginExecution
  BY <1>3 DEF BeginExecution
<1>4. CASE SpawnCapture
  BY <1>4 DEF SpawnCapture
<1>5. CASE AwaitCapture
  BY <1>5 DEF AwaitCapture
<1>6. CASE Snooze
  BY <1>6 DEF Snooze
<1>6a. CASE ConsoleInput
  BY <1>6a DEF ConsoleInput
<1>6b. CASE LeaveLoop
  BY <1>6b DEF LeaveLoop
<1>7. CASE LogRecycle
  BY <1>7 DEF LogRecycle
<1>8. CASE ClearRecycle
  BY <1>8 DEF ClearRecycle
<1>9. CASE StopAndSetAlarm
  BY <1>9 DEF StopAndSetAlarm
<1>10. CASE JoinCapture
  BY <1>10 DEF JoinCapture
<1>11. CASE JoinNothing
  BY <1>11 DEF JoinNothing
<1>12. CASE DeleteServer
  BY <1>12 DEF DeleteServer
<1>13. CASE Exit
  BY <1>13 DEF Exit, threads
<1>14. CASE JoinGarbage
  BY <1>14 DEF JoinGarbage
<1> QED
  BY <1>1, <1>2, <1>3, <1>4, <1>5, <1>6, <1>6a, <1>6b, <1>7, <1>8, <1>9,
     <1>10, <1>11, <1>12, <1>13, <1>14 DEF MainStep

(* The network thread and the signals keep the invariant.                  *)
LEMMA OthersKeep ==
  ASSUME IInv, \/ ServerStep \/ Terminate \/ Hangup \/ AlarmSignal
               \/ UNCHANGED vars
  PROVE  IInv'
<1> USE NflogdAssumption DEF IInv, Server, sync, handles, threads, TypeOK,
        StartInv, HandleInv, WorkerHasSocket, LoopAfterStartup,
        ServerOutlivesThreads, LeftLogs, LeftGroups
<1>1. CASE ThreadMaster
  BY <1>1 DEF ThreadMaster
<1>2. CASE ThreadWorker
  <2>1. CASE server = "check"
    <3>1. /\ process = "up"
          /\ server' = IF g_shutdown = 1 \/ ThreadSignal > 0 THEN "done"
                       ELSE "select"
          /\ UNCHANGED <<process, main, alarm, capture, sync, handles, hups>>
      BY <1>2, <2>1 DEF ThreadWorker
    <3>2. CASE server' = "done"
      BY <2>1, <3>1, <3>2
    <3>3. CASE server' = "select"
      BY <2>1, <3>1, <3>3
    <3> QED
      BY <3>1, <3>2, <3>3
  <2>2. CASE server # "check"
    <3>1. /\ process = "up" /\ server = "select" /\ server' = "check"
          /\ UNCHANGED <<process, main, alarm, capture, sync, handles, hups>>
      BY <1>2, <2>2 DEF ThreadWorker
    <3> QED
      BY <3>1
  <2> QED
    BY <2>1, <2>2
<1>3. CASE Terminate
  BY <1>3 DEF Terminate
<1>4. CASE Hangup
  BY <1>4 DEF Hangup
<1>5. CASE AlarmSignal
  BY <1>5 DEF AlarmSignal
<1>6. CASE UNCHANGED vars
  BY <1>6 DEF vars
<1> QED
  BY <1>1, <1>2, <1>3, <1>4, <1>5, <1>6 DEF ServerStep

(* The inductive invariant holds of the specification.                     *)
LEMMA InvariantCorrect == Spec => []IInv
<1>1. Init => IInv
  BY NflogdAssumption
  DEF Init, IInv, TypeOK, StartInv, HandleInv, WorkerHasSocket,
      LoopAfterStartup, ServerOutlivesThreads, LeftLogs, LeftGroups
<1>2. IInv /\ [Next]_vars => IInv'
  BY CaptureKeepsRest, MainKeeps, OthersKeep DEF Next
<1> QED
  BY <1>1, <1>2, PTL DEF Spec

(* Types: whichever calls of a startup fail and however often the log is   *)
(* recycled, the handles kept are ones that were opened, and the semaphore *)
(* of the capture thread is posted once at most (nflogd.cpp, capture.cpp). *)
THEOREM TypeCorrect == Spec => []TypeOK
<1>1. IInv => TypeOK
  BY DEF IInv
<1> QED
  BY <1>1, InvariantCorrect, PTL

(* Types, and no thread uses what is not there yet or not there any more:  *)
(* the network thread has its socket, main() its first startup, the        *)
(* capture thread its server object, in every interleaving with signals    *)
(* and failures, that of either pthread_create() included.                 *)
THEOREM ThreadsCorrect == Spec => [](TypeOK /\ ThreadOrder)
<1>1. IInv => TypeOK /\ ThreadOrder
  BY DEF IInv, ThreadOrder
<1> QED
  BY <1>1, InvariantCorrect, PTL

(* However often the connection to netfilter is recycled, and whichever    *)
(* calls of startups and shutdowns fail, at most one handle is open, the   *)
(* loop runs on it, and none is left at the end; not counted are handles   *)
(* the library itself refused to unbind or close.                          *)
THEOREM HandlesCorrect == Spec => []HandlesOK
<1>1. IInv => HandlesOK
  BY DEF IInv, HandleInv, HandlesOK
<1> QED
  BY <1>1, InvariantCorrect, PTL
=============================================================================
