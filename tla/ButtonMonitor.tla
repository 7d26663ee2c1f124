---------------------------- MODULE ButtonMonitor ----------------------------
(***************************************************************************)
(* ut-button-led-monitor with the extension for the Caswell appliances: a  *)
(* daemon that looks, once per second, at changes of network.js, at one    *)
(* message of the kernel about a network device, and at the reset button,  *)
(* and then sets the LED of the wireless network. The service manager      *)
(* starts it, ends it and brings it back. The button latches a bit that    *)
(* stays set until it is cleared; what its press means is judged by its    *)
(* length: a reboot or a factory reset.                                    *)
(* A tick is one second; a loop takes one, or more when it is slow.        *)
(***************************************************************************)
EXTENDS Integers, Sequences, FiniteSets

CONSTANTS Devices,     \* network devices
          Interval,    \* reboot_interval_seconds, 6 in the code
          MaxQueue,    \* bound: messages the kernel keeps
          MaxEvents    \* bound: events outside of the daemon

ASSUME MonitorAssumption == /\ Interval \in Nat \ {0}
                            /\ MaxQueue \in Nat \ {0} /\ MaxEvents \in Nat

None == -1

VARIABLES
  pressed,   \* 1 while the button is held down
  latch,     \* the bit of the status pin
  led,       \* the LED as it is
  carrier,   \* devices that have a carrier
  wifi,      \* wireless devices of network.js
  changed,   \* 1 if inotify holds an event for network.js
  netlink,   \* messages about devices in the socket
  overflow,  \* 1 if the socket has lost one
  pidfile,   \* 1 if the pid file exists
  wanted,    \* "up" or "down": what the service manager was told
  pc,        \* where the daemon is in its loop, or "down"
  watched,   \* 1 while the callback for network.js is set
  hooked,    \* 1 while the callback for the button is set
  armed,     \* 1 if the pins of the button are set up
  action, since,         \* action and status_button_time of the button
  status,                \* status["wifi"]["action"]
  devices, link,         \* registered devices, those with link_status True
  asked,     \* history: what the button had the system do
  held, longest, presses,  \* history: length of this and the longest press
                           \* that this run of the daemon could see
  ended,     \* history: how the daemon ended: "graceful", "torn", "dead"
  faulted,   \* history: 1 if a read or write of a file of the driver failed,
             \* or a signal cut the set-up of the pins short
  slow,      \* history: 1 if a loop took more than a second
  left       \* events still to come

button == << pressed, latch, held, longest, presses >>
net == << carrier, wifi >>
pending == << changed, netlink, overflow >>
memory == << watched, hooked, armed, action, since >>
shown == << status, devices, link >>
vars == << button, led, net, pending, pidfile, wanted, pc, memory, shown, asked,
           ended, faulted, slow, left >>

Up == pc # "down"
Event == left > 0 /\ left' = left - 1
Fault == faulted' = 1 /\ Event
Fine == UNCHANGED << faulted, left >>
-----------------------------------------------------------------------------
Init ==
  /\ pressed = 0 /\ latch = 0 /\ led \in {"on", "off"}
  /\ carrier = {} /\ wifi \in SUBSET Devices
  /\ changed = 0 /\ netlink = <<>> /\ overflow = 0 /\ pidfile = 0
  /\ wanted = "up" /\ pc = "down" /\ watched = 0 /\ hooked = 0 /\ armed = 0
  /\ action = "none" /\ since = None
  /\ status = "off" /\ devices = {} /\ link = {} /\ asked = {}
  /\ held = 0 /\ longest = 0 /\ presses = 0
  /\ ended = "dead" /\ faulted = 0 /\ slow = 0 /\ left = MaxEvents

(* The world.                                                              *)
Press ==
  /\ pressed = 0 /\ Event
  /\ pressed' = 1 /\ latch' = 1 /\ held' = 0 /\ presses' = presses + 1
  /\ UNCHANGED << longest, led, net, pending, pidfile, wanted, pc, memory,
                  shown, asked, ended, faulted, slow >>

Release ==
  /\ pressed = 1 /\ pressed' = 0
  /\ UNCHANGED << latch, held, longest, presses, led, net, pending, pidfile,
                  wanted, pc, memory, shown, asked, ended, faulted, slow,
                  left >>

(* A carrier comes or goes, and the kernel says so to the socket.          *)
Carrier(d) ==
  /\ Event
  /\ carrier' = IF d \in carrier THEN carrier \ {d} ELSE carrier \cup {d}
  /\ IF ~Up THEN UNCHANGED << netlink, overflow >>
     ELSE IF Len(netlink) < MaxQueue
          THEN netlink' = Append(netlink, d) /\ UNCHANGED overflow
          ELSE overflow' = 1 /\ UNCHANGED netlink
  /\ UNCHANGED << button, led, wifi, changed, pidfile, wanted, pc, memory,
                  shown, asked, ended, faulted, slow >>

Configure(S) ==
  /\ Event /\ S # wifi /\ wifi' = S
  /\ changed' = IF Up THEN 1 ELSE 0
  /\ UNCHANGED << button, led, carrier, netlink, overflow, pidfile, wanted, pc,
                  memory, shown, asked, ended, faulted, slow >>

(* A start waits for the stop before it to end.                            *)
Order ==
  /\ wanted = "up" \/ ~Up
  /\ Event /\ wanted' = IF wanted = "up" THEN "down" ELSE "up"
  /\ UNCHANGED << button, led, net, pending, pidfile, pc, memory, shown, asked,
                  ended, faulted, slow >>

(* The process is gone, with its sockets and watches.                      *)
Gone(how) ==
  /\ pc' = "down" /\ ended' = how
  /\ changed' = 0 /\ netlink' = <<>> /\ overflow' = 0

(* SIGKILL leaves the pid file.                                            *)
Killed ==
  /\ Up /\ Event /\ Gone("dead")
  /\ UNCHANGED << button, led, net, pidfile, wanted, memory, shown, asked,
                  faulted, slow >>

(* The reboot that the button asked for.                                   *)
PowerCycle ==
  /\ asked # {} /\ asked' = {}
  /\ Gone("dead")
  /\ pidfile' = 0 /\ wanted' = "up"
  /\ held' = 0 /\ longest' = 0 /\ presses' = pressed
  /\ UNCHANGED << pressed, latch, led, net, memory, shown, faulted, slow,
                  left >>
-----------------------------------------------------------------------------
(* network_settings_load(), on what is in the file now.                    *)
Load_unread == devices' = wifi /\ link' = link
Load == devices' = wifi /\ link' = wifi \cap carrier

(* Daemon.start() does not start beside a pid file. The monitor loads the  *)
(* settings.                                                               *)
Start ==
  /\ ~Up /\ wanted = "up" /\ pidfile = 0
  /\ pidfile' = 1 /\ pc' = "starting"
  /\ changed' = 0 /\ netlink' = <<>> /\ overflow' = 0
  /\ action' = "none" /\ since' = None /\ watched' = 1 /\ hooked' = 0
  /\ Load /\ status' = "off"
  /\ UNCHANGED << button, led, net, wanted, armed, asked, ended, faulted, slow,
                  left >>

Counted ==
  IF asked = {} THEN held' = 0 /\ longest' = 0 /\ presses' = pressed
  ELSE UNCHANGED << held, longest, presses >>

(* It turns the LED on, and the button sets up its pins; one write that    *)
(* fails skips the others, and leaves the latch as it is.                  *)
Arm ==
  /\ pc = "starting" /\ pc' = "files"
  /\ status' = "on" /\ hooked' = 1 /\ Counted
  /\ \/ Fine /\ led' = "on" /\ armed' = 1 /\ latch' = pressed
     \/ Fault /\ led' \in {led, "on"} /\ armed' \in 0 .. 1 /\ UNCHANGED latch
  /\ UNCHANGED << pressed, net, pending, pidfile, wanted, watched, action,
                  since, devices, link, asked, ended, slow >>

(* Daemon.stop() when no process has the pid: it removes the file.         *)
Clear_never == FALSE /\ UNCHANGED vars
Clear ==
  /\ ~Up /\ pidfile = 1 /\ pidfile' = 0
  /\ UNCHANGED << button, led, net, pending, wanted, pc, memory, shown, asked,
                  ended, faulted, slow, left >>

(* set_led("wifi", "off") of NuvotonMonitor.stop().                        *)
LedOff == /\ led' = IF status = "off" THEN led ELSE "off"
          /\ status' = "off"

(* SIGTERM: exit_gracefully() stops the monitor and the button, and raises *)
(* SystemExit where the daemon is; atexit removes the pid file. A bare     *)
(* except of check_input() takes it, but then the loop over the watched    *)
(* paths ends the daemon, for stop() has changed them.                     *)
Exit ==
  /\ Up /\ LedOff /\ watched' = 0 /\ hooked' = 0
  /\ Gone(IF pc \in {"writing", "starting"} THEN "torn" ELSE "graceful")
  /\ pidfile' = 0
  /\ UNCHANGED << button, net, wanted, armed, action, since, devices, link,
                  asked, faulted, slow >>

(* The service manager sends it until the process is gone.                 *)
exit_gracefully == wanted = "down" /\ Exit /\ UNCHANGED left

(* Anybody may send it once.                                               *)
Terminated == Event /\ Exit
Signal == (wanted = "down" /\ UNCHANGED left) \/ Event
-----------------------------------------------------------------------------
(* FileWatcher.check()                                                     *)
FileCheck ==
  /\ pc = "files" /\ pc' = "netlink" /\ changed' = 0
  /\ IF changed = 1 /\ watched = 1 THEN Load
     ELSE UNCHANGED << devices, link >>
  /\ UNCHANGED << button, led, net, netlink, overflow, pidfile, wanted, memory,
                  status, asked, ended, faulted, slow, left >>

(* json.load() of a file that is not written in full ends the daemon.      *)
LoadFails ==
  /\ \/ pc = "starting"
     \/ pc = "files" /\ changed = 1 /\ watched = 1
  /\ Event /\ Gone("dead") /\ pidfile' = 0
  /\ UNCHANGED << button, led, net, wanted, memory, shown, asked, faulted,
                  slow >>

(* NetlinkWatcher.check(): one message. The carrier is read anew.          *)
NetlinkCheck ==
  /\ pc = "netlink" /\ overflow = 0 /\ pc' = "input"
  /\ netlink' = IF netlink = <<>> THEN netlink ELSE Tail(netlink)
  /\ link' = IF netlink = <<>> \/ Head(netlink) \notin devices THEN link
             ELSE IF Head(netlink) \in carrier THEN link \cup {Head(netlink)}
                  ELSE link \ {Head(netlink)}
  /\ UNCHANGED << button, led, net, changed, overflow, pidfile, wanted, memory,
                  status, devices, asked, ended, faulted, slow, left >>

(* A real error of recv() (ENOBUFS after a loss): "Try to recover", then   *)
(* the unset variable data ends the daemon.                                *)
NetlinkFails ==
  /\ pc = "netlink" /\ overflow = 1
  /\ Gone("dead") /\ pidfile' = 0
  /\ UNCHANGED << button, led, net, wanted, memory, shown, asked, faulted,
                  slow, left >>

(* The press is measured from status_button_time; it and the action are    *)
(* never reset.                                                            *)
Since == IF since = None THEN 0 ELSE since
Judge_early(s) == IF s < Interval - 1 THEN "reboot" ELSE "factory"
Judge(s) == IF s < Interval THEN "reboot" ELSE "factory"

(* What check_input() finds: pins that are not set up read anything.       *)
Bit(b) == b \in 0 .. 1 /\ (armed = 1 => b = latch)

Skipped ==
  /\ \/ hooked = 0 /\ Fine
     \/ hooked = 1 /\ Fault
  /\ UNCHANGED << latch, action, since, asked >>

PressSeen ==
  /\ hooked = 1 /\ Bit(1)
  /\ since' = Since /\ action' = Judge(Since)
  /\ \/ Fine /\ latch' = pressed
     \/ Fault /\ UNCHANGED latch
  /\ UNCHANGED asked

ReleaseSeen ==
  /\ hooked = 1 /\ Bit(0) /\ Fine
  /\ asked' = IF action = "none" THEN asked ELSE asked \cup {action}
  /\ UNCHANGED << latch, action, since >>

InputCheck ==
  /\ pc = "input" /\ pc' = "leds"
  /\ Skipped \/ PressSeen \/ ReleaseSeen
  /\ UNCHANGED << pressed, held, longest, presses, led, net, pending, pidfile,
                  wanted, watched, hooked, armed, shown, ended, slow >>

(* NuvotonMonitor.check() and set_led(): no write that fails is noticed.   *)
Shown == IF link = {} THEN "off" ELSE "on"

LedCheck ==
  /\ pc = "leds"
  /\ IF status = Shown THEN pc' = "sleep" /\ Fine /\ UNCHANGED led
     ELSE /\ pc' = "writing"
          /\ \/ Fine /\ led' = Shown
             \/ Fault /\ UNCHANGED led
  /\ UNCHANGED << button, net, pending, pidfile, wanted, memory, shown, asked,
                  ended, slow >>

LedSet ==
  /\ pc = "writing" /\ pc' = "sleep"
  /\ status' = Shown
  /\ UNCHANGED << button, led, net, pending, pidfile, wanted, memory, devices,
                  link, asked, ended, faulted, slow, left >>

(* SIGTERM within a try block with a bare except that takes SystemExit:    *)
(* the monitor and the button are stopped, but the loop goes on. In        *)
(* check_device_link_status() the device then counts as one without link;  *)
(* in set_led() the LED is noted, written or not; in start() the button is *)
(* registered after its stop, and its pins may not be set up.              *)
SwallowedReading ==
  /\ Signal /\ LedOff /\ watched' = 0 /\ hooked' = 0
  /\ \/ /\ pc = "files" /\ pc' = "netlink" /\ changed = 1 /\ watched = 1
        /\ \E d \in wifi : devices' = wifi /\ link' = (wifi \cap carrier) \ {d}
        /\ changed' = 0 /\ UNCHANGED netlink
     \/ /\ pc = "netlink" /\ pc' = "input" /\ overflow = 0
        /\ netlink # <<>> /\ Head(netlink) \in devices
        /\ netlink' = Tail(netlink) /\ link' = link \ {Head(netlink)}
        /\ UNCHANGED << devices, changed >>
  /\ UNCHANGED << button, net, overflow, pidfile, wanted, armed, action, since,
                  asked, ended, faulted, slow >>

SwallowedWriting ==
  /\ pc \in {"leds", "writing"} /\ status # Shown /\ pc' = "sleep"
  /\ Signal /\ watched' = 0 /\ hooked' = 0
  /\ led' = IF status = "off" THEN led ELSE "off"
  /\ status' = Shown
  /\ UNCHANGED << button, net, pending, pidfile, wanted, armed, action, since,
                  devices, link, asked, ended, faulted, slow >>

SwallowedStarting ==
  /\ pc = "starting" /\ pc' = "files"
  /\ Signal /\ watched' = 0 /\ hooked' = 1 /\ Counted
  /\ \/ /\ \/ /\ led' = "on"
              /\ link' \in {link} \cup { link \ {d} : d \in devices }
           \/ UNCHANGED << led, link >>
        /\ status' = "on" /\ armed' = 1 /\ latch' = pressed
        /\ UNCHANGED faulted
     \/ /\ led' = "off" /\ status' = "off" /\ faulted' = 1
        /\ armed' \in 0 .. 1 /\ latch' \in {latch, pressed}
        /\ UNCHANGED link
  /\ UNCHANGED << pressed, net, pending, pidfile, wanted, action, since,
                  devices, asked, ended, slow >>

Swallowed == SwallowedReading \/ SwallowedWriting \/ SwallowedStarting

Capped(n) == IF n > Interval + 1 THEN Interval + 1 ELSE n
Second ==
  /\ since' = IF since = None THEN None ELSE Capped(since + 1)
  /\ held' = IF pressed = 1 THEN Capped(held + 1) ELSE held
  /\ longest' = IF held' > longest THEN held' ELSE longest

Sleep ==
  /\ pc = "sleep"
  /\ Second
  /\ \/ pc' = "files" /\ UNCHANGED << slow, left >>
     \/ slow' = 1 /\ Event /\ UNCHANGED pc
  /\ UNCHANGED << pressed, latch, presses, led, net, pending, pidfile, wanted,
                  watched, hooked, armed, action, shown, asked, ended,
                  faulted >>

Loop == \/ Arm \/ FileCheck \/ LoadFails \/ NetlinkCheck \/ NetlinkFails
        \/ InputCheck \/ LedCheck \/ LedSet \/ Swallowed \/ Sleep
Manager == Start \/ Clear \/ exit_gracefully
World == \/ Press \/ Release \/ Order \/ Killed \/ Terminated
         \/ PowerCycle
         \/ \E d \in Devices : Carrier(d)
         \/ \E S \in SUBSET Devices : Configure(S)

Next == Loop \/ Manager \/ World

(* The loop goes on, and the service manager does what it was told.        *)
Spec == Init /\ [][Next]_vars /\ WF_vars(Loop) /\ WF_vars(Manager)
-----------------------------------------------------------------------------
TypeOK ==
  /\ pressed \in 0 .. 1 /\ latch \in 0 .. 1 /\ led \in {"on", "off"}
  /\ carrier \subseteq Devices /\ wifi \subseteq Devices
  /\ changed \in 0 .. 1 /\ netlink \in Seq(Devices) /\ overflow \in 0 .. 1
  /\ pidfile \in 0 .. 1 /\ wanted \in {"up", "down"}
  /\ pc \in {"down", "starting", "files", "netlink", "input", "leds",
            "writing", "sleep"}
  /\ watched \in 0 .. 1 /\ hooked \in 0 .. 1 /\ armed \in 0 .. 1
  /\ action \in {"none", "reboot", "factory"}
  /\ since \in None .. Interval + 1
  /\ status \in {"on", "off"}
  /\ devices \subseteq Devices /\ link \subseteq Devices
  /\ asked \subseteq {"reboot", "factory"}

Right == led = IF wifi \cap carrier = {} THEN "off" ELSE "on"

(* At the end of a loop the LED shows whether a wireless device has a      *)
(* carrier, unless an event that says otherwise is still to be read, a     *)
(* write failed, or a signal that a bare except took has stopped the       *)
(* monitor: no order of messages, loads and restarts loses a change        *)
(* (nuvoton_monitor.py:26-66, netlink_watcher.py:54-106).                  *)
Shows ==
  pc = "sleep" /\ watched = 1 /\ changed = 0 /\ netlink = <<>> /\ overflow = 0
    /\ faulted = 0 => Right

(* A daemon that was stopped leaves the LED off, unless the signal came    *)
(* between the write of the LED and the note of it, or before start() had  *)
(* written it (nuvoton_monitor.py:77-85, 96, nuvoton_leds.py:108-122).     *)
Dark == pc = "down" /\ ended = "graceful" /\ faulted = 0 => led = "off"

(* The LED tells the truth, while the daemon runs and when it has ended.   *)
LedTrue == TypeOK /\ Shows /\ Dark

(* What a press is judged to be is what it was, give or take the second    *)
(* between two looks, if it is the only one                                *)
(* (nuvoton_reset_button.py:13-16, 160-185).                               *)
Judged ==
  presses = 1 /\ slow = 0 /\ faulted = 0 =>
    /\ "factory" \in asked => longest >= Interval - 1
    /\ "reboot" \in asked => longest <= Interval

(* "If the interval is less than 6 seconds, reboot the system. If the      *)
(* interval 6 seconds or greater, perform factory reset": a factory reset  *)
(* needs a long press (nuvoton_reset_button.py:14-15).                     *)
HeldLong ==
  slow = 0 /\ faulted = 0 /\ "factory" \in asked => longest >= Interval - 1

(* The LED is right in the end, whatever the daemon went through: start()  *)
(* writes it whatever it was (nuvoton_monitor.py:84-85). The exception is   *)
(* a daemon that runs on although its monitor was stopped: it reads        *)
(* network.js no more, until it is started anew.                           *)
Deaf == Up /\ watched = 0
LedSettles == <>[](wanted = "up" /\ faulted = 0 /\ ~Deaf => Right)

(* A press that is over is acted upon however short it was, since the      *)
(* button latches it, unless the daemon ends before it looks.              *)
Answered ==
  (latch = 1 /\ pressed = 0 /\ hooked = 1 /\ Up) ~>
    (asked # {} \/ pressed = 1 \/ hooked = 0 \/ ~Up \/ faulted = 1)

(* The daemon comes back after every end that nobody asked for: no pid     *)
(* file keeps it from starting (ut-button-led-monitor.py:136-182).         *)
ComesBack == wanted = "up" ~> (Up \/ wanted = "down")

(* The daemon serves its LED and its button for good.                      *)
Serves == LedSettles /\ Answered /\ ComesBack
=============================================================================
