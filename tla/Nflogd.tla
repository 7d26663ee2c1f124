------------------------------- MODULE Nflogd -------------------------------
(***************************************************************************)
(* The life of the untangle-nflogd process: main(), the signal handler,    *)
(* the capture thread with its netfilter log handles, and the start and    *)
(* end of the network thread, whose rounds are the subject of              *)
(* NetworkServer.                                                          *)
(*                                                                         *)
(* The three threads share g_shutdown, two semaphores and the server       *)
(* object.  Every call that can fail does so by choice.  Handles are       *)
(* numbered by the nflog_open() that made them; 0 is a null pointer.       *)
(***************************************************************************)
EXTENDS Naturals

CONSTANTS
  MaxOpens,  (* bound: calls of nflog_open()                               *)
  MaxHups,   (* bound: SIGHUPs received                                    *)
  CanStick   (* whether a write to a client may hang in the kernel         *)

ASSUME NflogdAssumption ==
  /\ MaxOpens \in Nat \ {0}
  /\ MaxHups \in Nat
  /\ CanStick \in BOOLEAN

VARIABLES
  process,       (* "up", "exited", "aborted" or "faulted"                 *)
  g_shutdown,    (* 0 or 1; set, never cleared                             *)
  g_logrecycle,  (* 0 or 1; SIGHUP asks main() to reopen the log           *)
  main,          (* where main() is                                        *)
  alarm,         (* "off" or "set": the five second alarm                  *)
  ThreadSignal,  (* semaphore the network thread starts on and watches     *)
  g_capture_sem, (* semaphore main() waits on for the first startup        *)
  netsock,       (* "none", "listening", "failed" or "closed"              *)
  server,        (* the network thread; "failed" if there is none          *)
  capture,       (* the capture thread                                     *)
  l_log_handle,  (* the netfilter log handle                               *)
  l_grp_handle,  (* the group handle, numbered as its log handle           *)
  openLogs,      (* log handles open in the library                        *)
  boundGroups,   (* group handles bound in the library                     *)
  opens,         (* history: calls of nflog_open()                         *)
  hups,          (* history: SIGHUPs received                              *)
  refused,       (* history: handles the library would not unbind or close *)
  misused        (* history: handles used after they were freed            *)

threads == <<main, alarm, server, capture>>
sync    == <<g_shutdown, g_logrecycle, ThreadSignal, g_capture_sem, netsock>>
handles == <<l_log_handle, l_grp_handle, openLogs, boundGroups, opens, refused,
             misused>>
vars == <<process, threads, sync, handles, hups>>

Init ==
  /\ process = "up"
  /\ g_shutdown = 0 /\ g_logrecycle = 0
  /\ main = "construct"
  /\ alarm = "off"
  /\ ThreadSignal = 0 /\ g_capture_sem = 0
  /\ netsock = "none"
  /\ server = "none" /\ capture = "none"
  /\ l_log_handle = 0 /\ l_grp_handle = 0
  /\ openLogs = {} /\ boundGroups = {}
  /\ opens = 0 /\ hups = 0 /\ refused = {} /\ misused = {}

Main(at) == process = "up" /\ main = at
Server(at) == process = "up" /\ server = at
Capture(at) == process = "up" /\ capture = at

-----------------------------------------------------------------------------
(* main(): start.                                                          *)

(* Mutant: an error in the constructor is logged and nothing else.         *)
OpenSocketQuietly ==
  /\ Main("construct") /\ server # "none"
  /\ netsock' \in {"listening", "failed"}
  /\ main' = "begin"
  /\ UNCHANGED <<process, alarm, server, capture, g_shutdown, g_logrecycle,
                 ThreadSignal, g_capture_sem, handles, hups>>

(* new NetworkServer starts the network thread, then sets up its socket;   *)
(* every error of the socket returns early with g_shutdown set.  Nobody    *)
(* looks at what pthread_create() returns.                                 *)
CreateThread ==
  /\ Main("construct") /\ server = "none"
  /\ server' \in {"wait", "failed"}
  /\ UNCHANGED <<process, main, alarm, capture, sync, handles, hups>>

OpenSocket ==
  /\ Main("construct") /\ server # "none"
  /\ \/ netsock' = "listening" /\ UNCHANGED g_shutdown
     \/ netsock' = "failed" /\ g_shutdown' = 1
  /\ main' = "begin"
  /\ UNCHANGED <<process, alarm, server, capture, g_logrecycle, ThreadSignal,
                 g_capture_sem, handles, hups>>

BeginExecution ==
  /\ Main("begin")
  /\ ThreadSignal' = ThreadSignal + 1
  /\ main' = "spawn"
  /\ UNCHANGED <<process, alarm, server, capture, g_shutdown, g_logrecycle,
                 g_capture_sem, netsock, handles, hups>>

(* Create the capture thread, and wait for it only if there is one.        *)
SpawnCapture ==
  /\ Main("spawn")
  /\ \/ capture' = "startup" /\ main' = "await" /\ UNCHANGED g_shutdown
     \/ main' = "loop" /\ g_shutdown' = 1 /\ UNCHANGED capture
  /\ UNCHANGED <<process, alarm, server, g_logrecycle, ThreadSignal,
                 g_capture_sem, netsock, handles, hups>>

(* Mutant: main() goes on without the semaphore.                           *)
DontAwaitCapture ==
  /\ Main("await")
  /\ main' = "loop"
  /\ UNCHANGED <<process, alarm, server, capture, sync, handles, hups>>

AwaitCapture ==
  /\ Main("await") /\ g_capture_sem > 0
  /\ g_capture_sem' = g_capture_sem - 1
  /\ main' = "loop"
  /\ UNCHANGED <<process, alarm, server, capture, g_shutdown, g_logrecycle,
                 ThreadSignal, netsock, handles, hups>>

-----------------------------------------------------------------------------
(* main(): the loop, a second at a time.                                   *)

(* Mutant: a round clears the flag when it begins, not after the recycle.  *)
SnoozeClears ==
  /\ Main("loop") /\ g_shutdown = 0
  /\ main' = "woken"
  /\ g_logrecycle' = 0
  /\ UNCHANGED <<process, alarm, server, capture, g_shutdown, ThreadSignal,
                 g_capture_sem, netsock, handles, hups>>

Snooze ==
  /\ Main("loop") /\ g_shutdown = 0
  /\ main' = "woken"
  /\ UNCHANGED <<process, alarm, server, capture, sync, handles, hups>>

(* On the console a line of input ends the loop.                           *)
ConsoleInput ==
  /\ Main("loop") /\ g_shutdown = 0
  /\ main' = "stop"
  /\ UNCHANGED <<process, alarm, server, capture, sync, handles, hups>>

(* logrecycle() first, then the flag is cleared.                           *)
LogRecycle ==
  /\ Main("woken")
  /\ main' = IF g_logrecycle = 1 THEN "recycled" ELSE "loop"
  /\ UNCHANGED <<process, alarm, server, capture, sync, handles, hups>>

ClearRecycle ==
  /\ Main("recycled")
  /\ g_logrecycle' = 0
  /\ main' = "loop"
  /\ UNCHANGED <<process, alarm, server, capture, g_shutdown, ThreadSignal,
                 g_capture_sem, netsock, handles, hups>>

LeaveLoop ==
  /\ Main("loop") /\ g_shutdown = 1
  /\ main' = "stop"
  /\ UNCHANGED <<process, alarm, server, capture, sync, handles, hups>>

-----------------------------------------------------------------------------
(* main(): the end.                                                        *)

(* Mutant: no alarm.                                                       *)
StopWithoutAlarm ==
  /\ Main("stop")
  /\ g_shutdown' = 1
  /\ main' = "join"
  /\ UNCHANGED <<process, alarm, server, capture, g_logrecycle, ThreadSignal,
                 g_capture_sem, netsock, handles, hups>>

StopAndSetAlarm ==
  /\ Main("stop")
  /\ g_shutdown' = 1
  /\ alarm' = "set"
  /\ main' = "join"
  /\ UNCHANGED <<process, server, capture, g_logrecycle, ThreadSignal,
                 g_capture_sem, netsock, handles, hups>>

(* Mutant: the capture thread is detached instead of joined.               *)
DetachCapture ==
  /\ Main("join") /\ capture # "none"
  /\ alarm' = "off"
  /\ main' = "delete"
  /\ UNCHANGED <<process, server, capture, sync, handles, hups>>

(* pthread_join(g_capture_tid), alarm(0), sem_destroy().                   *)
JoinCapture ==
  /\ Main("join") /\ capture = "done"
  /\ alarm' = "off"
  /\ main' = "delete"
  /\ UNCHANGED <<process, server, capture, sync, handles, hups>>

(* Joining g_capture_tid when no thread was created is undefined: the C    *)
(* library faults on the null handle or returns an error.                  *)
JoinNothing ==
  /\ Main("join") /\ capture = "none"
  /\ \/ process' = "faulted" /\ UNCHANGED <<main, alarm>>
     \/ main' = "delete" /\ alarm' = "off" /\ UNCHANGED process
  /\ UNCHANGED <<server, capture, sync, handles, hups>>

(* ~NetworkServer: post, join the network thread, delete the clients,      *)
(* close the socket; then main() returns.                                  *)
DeleteServer ==
  /\ Main("delete")
  /\ ThreadSignal' = ThreadSignal + 1
  /\ main' = "joinserver"
  /\ UNCHANGED <<process, alarm, server, capture, g_shutdown, g_logrecycle,
                 g_capture_sem, netsock, handles, hups>>

Exit ==
  /\ Main("joinserver") /\ server = "done"
  /\ netsock' = "closed"
  /\ process' = "exited"
  /\ UNCHANGED <<threads, g_shutdown, g_logrecycle, ThreadSignal,
                 g_capture_sem, handles, hups>>

(* Without a network thread ThreadHandle was never assigned, and joining   *)
(* it is undefined: the C library faults, returns, or waits for ever, the  *)
(* alarm being off by now.                                                 *)
JoinGarbage ==
  /\ Main("joinserver") /\ server = "failed"
  /\ \/ process' = "faulted" /\ UNCHANGED <<main, netsock>>
     \/ process' = "exited" /\ netsock' = "closed" /\ UNCHANGED main
     \/ main' = "hung" /\ UNCHANGED <<process, netsock>>
  /\ UNCHANGED <<alarm, server, capture, g_shutdown, g_logrecycle,
                 ThreadSignal, g_capture_sem, handles, hups>>

-----------------------------------------------------------------------------
(* Signals, delivered once the handlers are installed.                     *)

Terminate ==
  /\ process = "up"
  /\ g_shutdown' = 1
  /\ UNCHANGED <<process, threads, g_logrecycle, ThreadSignal, g_capture_sem,
                 netsock, handles, hups>>

Hangup ==
  /\ process = "up" /\ hups < MaxHups
  /\ hups' = hups + 1
  /\ g_logrecycle' = 1
  /\ UNCHANGED <<process, threads, g_shutdown, ThreadSignal, g_capture_sem,
                 netsock, handles>>

(* Every loop looks at g_shutdown at least once a second, so five seconds  *)
(* only pass for a capture thread that sleeps or hangs.                    *)
AlarmSignal ==
  /\ process = "up" /\ alarm = "set" /\ capture \in {"sleep", "stuck"}
  /\ process' = "aborted"
  /\ UNCHANGED <<threads, sync, handles, hups>>

-----------------------------------------------------------------------------
(* The network thread: ThreadMaster and the frame of ThreadWorker.         *)

ThreadMaster ==
  /\ Server("wait") /\ ThreadSignal > 0
  /\ ThreadSignal' = ThreadSignal - 1
  /\ server' = "check"
  /\ UNCHANGED <<process, main, alarm, capture, g_shutdown, g_logrecycle,
                 g_capture_sem, netsock, handles, hups>>

ThreadWorker ==
  \/ /\ Server("check")
     /\ server' = IF g_shutdown = 1 \/ ThreadSignal > 0 THEN "done"
                  ELSE "select"
     /\ UNCHANGED <<process, main, alarm, capture, sync, handles, hups>>
  \/ /\ Server("select")
     /\ server' = "check"
     /\ UNCHANGED <<process, main, alarm, capture, sync, handles, hups>>

-----------------------------------------------------------------------------
(* The capture thread.                                                     *)

(* capture_startup: the call that fails, or "ok".  A pointer keeps its old *)
(* value when the function returns before assigning it.                    *)
Stage == {"open", "bind_pf", "bind_group", "set_mode", "ok"}
Opened(stage) == stage # "open"
Bound(stage) == stage \in {"set_mode", "ok"}

capture_startup(stage) ==
  LET h == opens + 1
  IN  /\ opens' = h
      /\ l_log_handle' = IF Opened(stage) THEN h ELSE 0
      /\ openLogs' = openLogs \cup (IF Opened(stage) THEN {h} ELSE {})
      /\ l_grp_handle' = CASE Bound(stage)           -> h
                           [] stage = "bind_group" -> 0
                           [] OTHER                -> l_grp_handle
      /\ boundGroups' = boundGroups \cup (IF Bound(stage) THEN {h} ELSE {})
      /\ UNCHANGED <<refused, misused>>

(* capture_shutdown: unbind the group, close the log; an error of either   *)
(* is logged, and neither pointer is reset.  What the library refuses to   *)
(* let go stays.  Using what was freed before, or a group whose log was,   *)
(* is undefined: the process may die.                                      *)
capture_shutdown ==
  \E unbound, closed \in BOOLEAN :
    LET group == {l_grp_handle} \ {0}
        log   == {l_log_handle} \ {0}
    IN  /\ boundGroups' = IF unbound THEN boundGroups \ group ELSE boundGroups
        /\ openLogs' = IF closed THEN openLogs \ log ELSE openLogs
        /\ refused' = refused \cup
             (IF unbound THEN {} ELSE {"group"} \X group) \cup
             (IF closed THEN {} ELSE {"log"} \X log)
        /\ misused' = misused \cup
             ({"group"} \X (group \ boundGroups)) \cup
             ({"log"} \X ((log \cup group) \ openLogs))
        /\ process' \in IF misused' = misused THEN {process}
                        ELSE {process, "faulted"}
        /\ UNCHANGED <<l_log_handle, l_grp_handle, opens>>

CaptureStartup ==
  /\ Capture("startup")
  /\ \E stage \in Stage :
       /\ capture_startup(stage)
       /\ capture' = IF stage = "ok" THEN "post" ELSE "postfail"
  /\ UNCHANGED <<process, main, alarm, server, sync, hups>>

(* Mutant: a failed startup posts once more on its way out.                *)
PostTwice ==
  /\ process = "up" /\ capture \in {"post", "postfail"}
  /\ g_capture_sem' = g_capture_sem + (IF capture = "post" THEN 1 ELSE 2)
  /\ capture' = IF capture = "post" THEN "check" ELSE "fail"
  /\ UNCHANGED <<process, main, alarm, server, g_shutdown, g_logrecycle,
                 ThreadSignal, netsock, handles, hups>>

(* The semaphore is posted before a failure is made known.                 *)
CapturePost ==
  /\ process = "up" /\ capture \in {"post", "postfail"}
  /\ g_capture_sem' = g_capture_sem + 1
  /\ capture' = IF capture = "post" THEN "check" ELSE "fail"
  /\ UNCHANGED <<process, main, alarm, server, g_shutdown, g_logrecycle,
                 ThreadSignal, netsock, handles, hups>>

CaptureFail ==
  /\ Capture("fail")
  /\ g_shutdown' = 1
  /\ capture' = "finish"
  /\ UNCHANGED <<process, main, alarm, server, g_logrecycle, ThreadSignal,
                 g_capture_sem, netsock, handles, hups>>

(* The head of the loop, select() and recv().                              *)
CaptureCheck ==
  /\ Capture("check")
  /\ capture' = IF g_shutdown = 1 THEN "finish" ELSE "recv"
  /\ UNCHANGED <<process, main, alarm, server, sync, handles, hups>>

(* A timeout, a packet for the callback, or an error.                      *)
CaptureRecv ==
  /\ Capture("recv")
  /\ \/ capture' \in {"check", "broadcast"}
     \/ opens < MaxOpens /\ capture' = "recycle"
  /\ UNCHANGED <<process, main, alarm, server, sync, handles, hups>>

(* capture_callback: BroadcastMessage, which leaves between two writes     *)
(* when g_shutdown is set.                                                 *)
CaptureBroadcast ==
  /\ Capture("broadcast")
  /\ capture' \in {"check"} \cup (IF CanStick THEN {"stuck"} ELSE {})
  /\ UNCHANGED <<process, main, alarm, server, sync, handles, hups>>

(* The kernel may let the write go on after all.                           *)
CaptureUnstick ==
  /\ Capture("stuck")
  /\ capture' = "check"
  /\ UNCHANGED <<process, main, alarm, server, sync, handles, hups>>

(* Mutant: the old handles are forgotten, not shut down.                   *)
RecycleLeaks ==
  /\ Capture("recycle")
  /\ capture' = "sleep"
  /\ UNCHANGED <<process, main, alarm, server, sync, handles, hups>>

CaptureRecycle ==
  /\ Capture("recycle")
  /\ capture_shutdown
  /\ capture' = "sleep"
  /\ UNCHANGED <<main, alarm, server, sync, hups>>

(* sleep(1000) is over.                                                    *)
CaptureRestart ==
  /\ Capture("sleep")
  /\ \E stage \in Stage :
       /\ capture_startup(stage)
       /\ \/ stage = "ok" /\ capture' = "check" /\ UNCHANGED g_shutdown
          \/ stage # "ok" /\ capture' = "finish" /\ g_shutdown' = 1
  /\ UNCHANGED <<process, main, alarm, server, g_logrecycle, ThreadSignal,
                 g_capture_sem, netsock, hups>>

CaptureFinish ==
  /\ Capture("finish")
  /\ capture_shutdown
  /\ capture' = "done"
  /\ UNCHANGED <<main, alarm, server, sync, hups>>

-----------------------------------------------------------------------------
MainStep ==
  \/ CreateThread \/ OpenSocket \/ BeginExecution \/ SpawnCapture
  \/ AwaitCapture \/ Snooze \/ LogRecycle \/ ClearRecycle \/ LeaveLoop
  \/ StopAndSetAlarm \/ JoinCapture \/ JoinNothing \/ DeleteServer \/ Exit
  \/ JoinGarbage

ServerStep == ThreadMaster \/ ThreadWorker

CaptureStep ==
  \/ CaptureStartup \/ CapturePost \/ CaptureFail \/ CaptureCheck
  \/ CaptureRecv \/ CaptureBroadcast \/ CaptureRecycle \/ CaptureRestart
  \/ CaptureFinish

Next ==
  \/ MainStep \/ ServerStep \/ CaptureStep
  \/ ConsoleInput \/ Terminate \/ Hangup \/ AlarmSignal \/ CaptureUnstick

Spec == Init /\ [][Next]_vars

(* The kernel runs every thread that can run and delivers the alarm.       *)
FairSpec ==
  /\ Spec
  /\ WF_vars(MainStep) /\ WF_vars(ServerStep) /\ WF_vars(CaptureStep)
  /\ WF_vars(AlarmSignal)

-----------------------------------------------------------------------------
(* Every variable keeps its kind of value; the capture thread posts its    *)
(* semaphore once at most, whatever its startups come to.                  *)
TypeOK ==
  /\ process \in {"up", "exited", "aborted", "faulted"}
  /\ g_shutdown \in {0, 1} /\ g_logrecycle \in {0, 1}
  /\ main \in {"construct", "begin", "spawn", "await", "loop", "woken",
               "recycled", "stop", "join", "delete", "joinserver", "hung"}
  /\ alarm \in {"off", "set"}
  /\ ThreadSignal \in 0..2 /\ g_capture_sem \in 0..1
  /\ netsock \in {"none", "listening", "failed", "closed"}
  /\ server \in {"none", "failed", "wait", "check", "select", "done"}
  /\ capture \in {"none", "startup", "post", "postfail", "check", "recv",
                  "broadcast", "stuck", "recycle", "sleep", "fail", "finish",
                  "done"}
  /\ l_log_handle \in 0..MaxOpens /\ l_grp_handle \in 0..MaxOpens
  /\ openLogs \in SUBSET (1..MaxOpens) /\ boundGroups \in SUBSET (1..MaxOpens)
  /\ opens \in 0..MaxOpens /\ hups \in 0..MaxHups
  /\ refused \in SUBSET ({"group", "log"} \X (1..MaxOpens))
  /\ misused \in SUBSET ({"group", "log"} \X (1..MaxOpens))

(* The network thread is created before its socket, yet never uses one     *)
(* that is missing: an error of the constructor reaches it as g_shutdown   *)
(* before the semaphore lets it look.                                      *)
WorkerHasSocket == server = "select" => netsock = "listening"

(* The one second loop of main() is not entered while the first startup of *)
(* the capture thread is under way, unless the process is to stop anyway.  *)
LoopAfterStartup ==
  main \in {"loop", "woken", "recycled"} =>
    capture # "startup" /\ (capture = "none" => g_shutdown = 1)

(* The capture thread calls into the server object, which main() deletes:  *)
(* it does not outlive the object, and neither does the network thread, if *)
(* there is one, outlive the list that is deleted after it was joined.     *)
(* Only for want of that thread can the join hang.                         *)
ServerOutlivesThreads ==
  /\ main \in {"delete", "joinserver", "hung"} => capture \in {"none", "done"}
  /\ process = "exited" => server \in {"failed", "done"}
  /\ main = "hung" => server = "failed"

(* The threads start and end in order.                                     *)
ThreadOrder == WorkerHasSocket /\ LoopAfterStartup /\ ServerOutlivesThreads

(* Handles that are open or bound and that the library never refused.      *)
LeftLogs == {h \in openLogs : <<"log", h>> \notin refused}
LeftGroups == {h \in boundGroups : <<"group", h>> \notin refused}

(* Recycling never leaves two log handles open, the loop runs on the open  *)
(* one and on its group, and whatever calls failed, at the end nothing is  *)
(* left open or bound but what the library itself refused to let go.  A    *)
(* handle is closed or unbound after it was freed only by the last         *)
(* shutdown, when a restart before it had failed.                          *)
HandlesOK ==
  /\ \A g, h \in LeftLogs : g = h
  /\ LeftGroups \subseteq LeftLogs
  /\ capture \in {"check", "recv", "broadcast", "stuck", "recycle"} =>
       l_log_handle \in LeftLogs /\ l_grp_handle \in LeftGroups
  /\ capture \in {"sleep", "done"} => LeftLogs = {}
  /\ capture # "done" => misused = {}

(* A SIGHUP that finds main() between two rounds leads to logrecycle(),    *)
(* unless the process is told to stop first.                               *)
HangupHonoured ==
  (main = "loop" /\ g_logrecycle = 1) ~>
    (main = "recycled" \/ g_shutdown = 1 \/ process # "up")

(* Once g_shutdown is set, by a signal or by any failure, the process      *)
(* ends, even if the capture thread hangs or is in its long sleep.  The    *)
(* exception is a join of the network thread that was never created.       *)
ShutdownEnds ==
  (g_shutdown = 1) ~>
    (process # "up" \/ (main = "hung" /\ server = "failed"))
=============================================================================
