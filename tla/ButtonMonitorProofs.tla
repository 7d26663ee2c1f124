------------------------- MODULE ButtonMonitorProofs --------------------------
(***************************************************************************)
(* What ButtonMonitor guarantees for any devices, any interval that tells  *)
(* a reboot from a factory reset, and any number of events: the LED is     *)
(* right whenever nothing is left to be read, and a single press is judged *)
(* by its length.                                                          *)
(***************************************************************************)
EXTENDS ButtonMonitor, TLAPS

Waiting == { netlink[k] : k \in DOMAIN netlink }

(* The history, as far as it is counted.                                   *)
HistoryOK == /\ held \in 0 .. Interval + 1 /\ longest \in 0 .. Interval + 1
             /\ presses \in Nat /\ slow \in 0 .. 1 /\ faulted \in 0 .. 1

(* While the monitor is not stopped, the link status of a device is its    *)
(* carrier, unless a message about it waits; the devices are those of the  *)
(* file, unless that has changed.                                          *)
LinksOK ==
  Up => /\ link \subseteq devices
        /\ watched = 1 /\ overflow = 0 =>
             \A d \in devices \ Waiting : d \in link <=> d \in carrier
        /\ watched = 1 /\ changed = 0 => devices = wifi

(* The note of the LED is the LED, but until start() has written it, and   *)
(* between a write and its note; a stop that was taken may leave it off    *)
(* where the note says on. At the end of a loop the note is what the links *)
(* say.                                                                    *)
Noted == /\ status = "off" => led = "off"
         /\ watched = 1 => led = status
NoteOK ==
  /\ Up /\ faulted = 0 =>
       /\ pc = "writing" => led = Shown /\ status # Shown
       /\ pc \notin {"starting", "writing"} => Noted
  /\ pc = "sleep" => status = Shown

LedInv == TypeOK /\ LinksOK /\ NoteOK /\ Dark
-----------------------------------------------------------------------------
(* Nothing disturbed the button since the daemon started.                  *)
Clean == slow = 0 /\ faulted = 0
Before == pc \in {"files", "netlink", "input"}

(* What is judged, and asked for, fits the length of the only press.       *)
Fits(acts) == /\ "factory" \in acts => held >= Interval - 1
              /\ "reboot" \in acts => held <= Interval

PressOK ==
  /\ pressed = 1 => latch = 1 /\ presses >= 1
  /\ presses = 0 => held = 0 /\ longest = 0
  /\ presses = 1 => longest = held
  /\ Clean /\ Up /\ pc # "starting" => armed = 1
  /\ Clean /\ presses = 0 => asked = {}
  /\ Clean /\ presses = 1 /\ asked # {} => pressed = 0 /\ latch = 0 /\ Fits(asked)

(* The daemon has not seen a press yet, or measures it a second short at   *)
(* most, or a second long once it is over; and then its judgement stands.  *)
MeasureOK ==
  Clean /\ Up /\ hooked = 1 =>
    /\ presses = 0 => since = None /\ action = "none" /\ latch = 0
    /\ presses = 1 /\ latch = 1 =>
         /\ held - Since \in -1 .. 1
         /\ ~Before \/ pressed = 1 \/ since = None => held - Since \in 0 .. 1
         /\ ~Before /\ since = None => held = 0
    /\ presses = 1 /\ latch = 0 => Fits({action})

(* A daemon that starts remembers no press.                                *)
FreshOK == pc = "starting" => action = "none" /\ since = None

PressInv == TypeOK /\ HistoryOK /\ FreshOK /\ PressOK /\ MeasureOK
-----------------------------------------------------------------------------
(* Messages that wait, after one more or one less.                         *)
LEMMA AppendWaits ==
  ASSUME NEW q \in Seq(Devices), NEW d \in Devices
  PROVE  /\ Append(q, d) \in Seq(Devices)
         /\ { Append(q, d)[k] : k \in DOMAIN Append(q, d) } =
               { q[k] : k \in DOMAIN q } \cup {d}
<1> DEFINE r == Append(q, d)
<1>1. r \in Seq(Devices) /\ Len(q) \in Nat
  OBVIOUS
<1>2. DOMAIN q = 1 .. Len(q) /\ DOMAIN r = 1 .. Len(q) + 1
  OBVIOUS
<1>3. r[Len(q) + 1] = d /\ \A k \in 1 .. Len(q) : r[k] = q[k]
  OBVIOUS
<1> HIDE DEF r
<1>4. ASSUME NEW k \in DOMAIN r PROVE r[k] \in { q[j] : j \in DOMAIN q } \cup {d}
  <2>1. CASE k = Len(q) + 1
    BY <2>1, <1>3
  <2>2. CASE k # Len(q) + 1
    BY <2>2, <1>1, <1>2, <1>3
  <2> QED
    BY <2>1, <2>2
<1>5. ASSUME NEW j \in DOMAIN q PROVE q[j] \in { r[k] : k \in DOMAIN r }
  <2>1. j \in DOMAIN r /\ r[j] = q[j]
    BY <1>1, <1>2, <1>3
  <2> QED
    BY <2>1
<1>6. d \in { r[k] : k \in DOMAIN r }
  <2>1. Len(q) + 1 \in DOMAIN r
    BY <1>1, <1>2
  <2> QED
    BY <2>1, <1>3
<1>7. { r[k] : k \in DOMAIN r } = { q[k] : k \in DOMAIN q } \cup {d}
  BY <1>4, <1>5, <1>6
<1> QED
  BY <1>1, <1>7 DEF r

LEMMA TailWaits ==
  ASSUME NEW q \in Seq(Devices), q # <<>>
  PROVE  /\ Head(q) \in Devices /\ Tail(q) \in Seq(Devices)
         /\ { q[k] : k \in DOMAIN q } \subseteq
               { Tail(q)[k] : k \in DOMAIN Tail(q) } \cup {Head(q)}
<1> DEFINE r == Tail(q)
<1>1. Len(q) \in Nat \ {0} /\ DOMAIN q = 1 .. Len(q) /\ Head(q) = q[1]
  OBVIOUS
<1>2. r \in Seq(Devices) /\ DOMAIN r = 1 .. Len(q) - 1
  OBVIOUS
<1>3. \A k \in 1 .. Len(q) - 1 : r[k] = q[k + 1]
  OBVIOUS
<1>4. Head(q) \in Devices
  OBVIOUS
<1> HIDE DEF r
<1>5. ASSUME NEW k \in DOMAIN q
      PROVE  q[k] \in { r[j] : j \in DOMAIN r } \cup {Head(q)}
  <2>1. CASE k = 1
    BY <2>1, <1>1
  <2>2. CASE k # 1
    <3>1. k - 1 \in DOMAIN r /\ r[k - 1] = q[k]
      BY <2>2, <1>1, <1>2, <1>3
    <3> QED
      BY <3>1
  <2> QED
    BY <2>1, <2>2
<1> QED
  BY <1>2, <1>4, <1>5 DEF r
-----------------------------------------------------------------------------
LEMMA TypeStep ==
  ASSUME TypeOK, [Next]_vars
  PROVE  TypeOK'
<1> USE DEF TypeOK, button, net, pending, memory, shown, Fine, Fault, Event, Up
<1>1. Interval \in Nat \ {0}
  BY MonitorAssumption
<1>2. CASE Press \/ Release \/ Order \/ Killed \/ PowerCycle \/ Terminated
  <2>1. CASE Press
    BY <2>1 DEF Press
  <2>2. CASE Release
    BY <2>2 DEF Release
  <2>3. CASE Order
    BY <2>3 DEF Order
  <2>4. CASE Killed
    BY <2>4 DEF Killed, Gone
  <2>5. CASE PowerCycle
    BY <2>5 DEF PowerCycle, Gone
  <2>6. CASE Terminated
    BY <2>6 DEF Terminated, Exit, LedOff, Gone
  <2> QED
    BY <1>2, <2>1, <2>2, <2>3, <2>4, <2>5, <2>6
<1>3. CASE \E d \in Devices : Carrier(d)
  <2>1. PICK d \in Devices : Carrier(d)
    BY <1>3
  <2>2. carrier' \subseteq Devices /\ netlink' \in Seq(Devices) /\ overflow' \in 0 .. 1
    BY <2>1, AppendWaits DEF Carrier
  <2> QED
    BY <2>1, <2>2 DEF Carrier
<1>4. CASE \E S \in SUBSET Devices : Configure(S)
  BY <1>4 DEF Configure
<1>5. CASE Start \/ Arm
  <2>1. CASE Start
    BY <1>1, <2>1 DEF Start, Load, None
  <2>2. CASE Arm
    BY <1>1, <2>2 DEF Arm
  <2> QED
    BY <1>5, <2>1, <2>2
<1>6. CASE Clear
  BY <1>6 DEF Clear
<1>7. CASE exit_gracefully
  BY <1>7 DEF exit_gracefully, Exit, LedOff, Gone
<1>8. CASE FileCheck \/ LoadFails
  <2>1. CASE FileCheck
    BY <2>1 DEF FileCheck, Load
  <2>2. CASE LoadFails
    BY <2>2 DEF LoadFails, Gone
  <2> QED
    BY <1>8, <2>1, <2>2
<1>9. CASE NetlinkCheck
  <2>1. netlink' \in Seq(Devices)
    BY <1>9, TailWaits DEF NetlinkCheck
  <2>2. link' \subseteq Devices
    BY <1>9, TailWaits DEF NetlinkCheck
  <2> QED
    BY <1>9, <2>1, <2>2 DEF NetlinkCheck
<1>10. CASE NetlinkFails
  BY <1>10 DEF NetlinkFails, Gone
<1>11. CASE InputCheck
  <2>1. /\ latch' \in 0 .. 1 /\ action' \in {"none", "reboot", "factory"}
        /\ since' \in None .. Interval + 1 /\ asked' \subseteq {"reboot", "factory"}
    <3>1. CASE Skipped
      BY <3>1 DEF Skipped
    <3>2. CASE PressSeen
      BY <1>1, <3>2 DEF PressSeen, Since, Judge, None
    <3>3. CASE ReleaseSeen
      BY <3>3 DEF ReleaseSeen
    <3> QED
      BY <1>11, <3>1, <3>2, <3>3 DEF InputCheck
  <2> QED
    BY <1>11, <2>1 DEF InputCheck
<1>12. CASE LedCheck \/ LedSet \/ Swallowed
  <2>1. CASE LedCheck
    BY <2>1 DEF LedCheck, Shown
  <2>2. CASE LedSet
    BY <2>2 DEF LedSet, Shown
  <2>3. CASE Swallowed
    <3>1. CASE SwallowedReading
      <4>1. netlink' \in Seq(Devices) /\ link' \subseteq Devices
        BY <3>1, TailWaits DEF SwallowedReading
      <4> QED
        BY <3>1, <4>1 DEF SwallowedReading, LedOff
    <3>2. CASE SwallowedWriting
      BY <3>2 DEF SwallowedWriting, Shown
    <3>3. CASE SwallowedStarting
      BY <3>3 DEF SwallowedStarting
    <3> QED
      BY <2>3, <3>1, <3>2, <3>3 DEF Swallowed
  <2> QED
    BY <1>12, <2>1, <2>2, <2>3
<1>13. CASE Sleep
  <2>1. since' \in None .. Interval + 1
    BY <1>1, <1>13 DEF Sleep, Second, Capped, None
  <2> QED
    BY <1>13, <2>1 DEF Sleep
<1>14. CASE UNCHANGED vars
  BY <1>14 DEF vars
<1> QED
  BY <1>2, <1>3, <1>4, <1>5, <1>6, <1>7, <1>8, <1>9, <1>10, <1>11, <1>12, <1>13,
     <1>14 DEF Next, Loop, Manager, World

(* Each message, load and restart keeps the links right.                   *)
LEMMA LinksStep ==
  ASSUME TypeOK, LinksOK, [Next]_vars
  PROVE  LinksOK'
<1> USE DEF net, pending, memory, shown, Up, Waiting
<1>1. CASE Press \/ Release \/ Order \/ Clear \/ Arm \/ InputCheck \/ LedCheck
           \/ LedSet \/ Sleep
  BY <1>1 DEF LinksOK, Press, Release, Order, Clear, Arm, InputCheck, LedCheck,
     LedSet, Sleep
<1>2. CASE \/ Killed \/ PowerCycle \/ exit_gracefully \/ Terminated
           \/ NetlinkFails \/ LoadFails
  BY <1>2 DEF LinksOK, Killed, PowerCycle, exit_gracefully, Terminated, Exit,
     NetlinkFails, LoadFails, Gone
<1>3. CASE \E d \in Devices : Carrier(d)
  <2>1. PICK d \in Devices : Carrier(d)
    BY <1>3
  <2>2. netlink \in Seq(Devices)
    BY DEF TypeOK
  <2>3. \A e \in Devices : e # d => (e \in carrier' <=> e \in carrier)
    BY <2>1 DEF Carrier
  <2>4. UNCHANGED << pc, link, devices, watched, changed, wifi >>
    BY <2>1 DEF Carrier
  <2>5. CASE Up /\ Len(netlink) < MaxQueue
    <3>1. Waiting' = Waiting \cup {d} /\ overflow' = overflow
      BY <2>1, <2>2, <2>5, AppendWaits DEF Carrier
    <3>2. devices \subseteq Devices
      BY DEF TypeOK
    <3> HIDE DEF Waiting
    <3> QED
      BY <2>3, <2>4, <3>1, <3>2 DEF LinksOK
  <2>6. CASE Up /\ ~ (Len(netlink) < MaxQueue)
    BY <2>1, <2>4, <2>6 DEF LinksOK, Carrier
  <2>7. CASE ~ Up
    BY <2>4, <2>7 DEF LinksOK
  <2> QED
    BY <2>5, <2>6, <2>7
<1>4. CASE \E S \in SUBSET Devices : Configure(S)
  BY <1>4 DEF LinksOK, Configure
<1>5. CASE Start
  BY <1>5 DEF LinksOK, Start, Load
<1>6. CASE FileCheck
  <2>1. /\ pc = "files" /\ changed' = 0
        /\ UNCHANGED << netlink, overflow, carrier, wifi, watched >>
    BY <1>6 DEF FileCheck
  <2>2. CASE changed = 1 /\ watched = 1
    BY <1>6, <2>1, <2>2 DEF LinksOK, FileCheck, Load
  <2>3. CASE ~ (changed = 1 /\ watched = 1)
    <3>1. UNCHANGED << devices, link >>
      BY <1>6, <2>3 DEF FileCheck
    <3>2. changed \in 0 .. 1
      BY DEF TypeOK
    <3> QED
      BY <2>1, <2>3, <3>1, <3>2 DEF LinksOK
  <2> QED
    BY <2>2, <2>3
<1>7. CASE NetlinkCheck
  <2>1. netlink \in Seq(Devices)
    BY DEF TypeOK
  <2>2. UNCHANGED << devices, carrier, overflow, watched, changed, wifi >>
    BY <1>7 DEF NetlinkCheck
  <2>3. CASE netlink = <<>>
    BY <1>7, <2>2, <2>3 DEF LinksOK, NetlinkCheck
  <2>4. CASE netlink # <<>>
    <3> DEFINE d == Head(netlink)
    <3>1. Waiting \subseteq Waiting' \cup {d}
      BY <1>7, <2>1, <2>4, TailWaits DEF NetlinkCheck
    <3>2. link' = IF d \notin devices THEN link
                 ELSE IF d \in carrier THEN link \cup {d} ELSE link \ {d}
      BY <1>7, <2>4 DEF NetlinkCheck
    <3>3. /\ link \subseteq devices
          /\ watched = 1 /\ overflow = 0 =>
               \A e \in devices \ Waiting : e \in link <=> e \in carrier
          /\ watched = 1 /\ changed = 0 => devices = wifi
      BY <1>7 DEF LinksOK, NetlinkCheck
    <3> HIDE DEF d, Waiting
    <3> QED
      BY <2>2, <3>1, <3>2, <3>3 DEF LinksOK
  <2> QED
    BY <2>3, <2>4
<1>8. CASE UNCHANGED vars
  BY <1>8 DEF LinksOK, vars
<1>9. CASE Swallowed
  <2>1. watched' = 0
    BY <1>9 DEF Swallowed, SwallowedReading, SwallowedWriting, SwallowedStarting
  <2>2. Up /\ link \subseteq devices => link' \subseteq devices'
    BY <1>9 DEF Swallowed, SwallowedReading, SwallowedWriting, SwallowedStarting
  <2>3. Up
    BY <1>9 DEF Swallowed, SwallowedReading, SwallowedWriting, SwallowedStarting
  <2> QED
    BY <2>1, <2>2, <2>3 DEF LinksOK
<1> QED
  BY <1>1, <1>2, <1>3, <1>4, <1>5, <1>6, <1>7, <1>8, <1>9
  DEF Next, Loop, Manager, World

(* Each write of the LED and each end of the daemon keeps the note right.  *)
LEMMA NoteStep ==
  ASSUME TypeOK, NoteOK, Dark, [Next]_vars
  PROVE  NoteOK' /\ Dark'
<1> USE DEF net, pending, memory, shown, Up, Shown, Fine, Fault, Event, Noted
<1>1. led \in {"on", "off"} /\ status \in {"on", "off"}
  BY DEF TypeOK
<1>2. CASE Press \/ Release \/ Order \/ Clear \/ Sleep
  BY <1>2 DEF NoteOK, Dark, Press, Release, Order, Clear, Sleep
<1>3. CASE \/ \E d \in Devices : Carrier(d)
           \/ \E S \in SUBSET Devices : Configure(S)
  BY <1>3 DEF NoteOK, Dark, Carrier, Configure
<1>4. CASE Killed \/ PowerCycle \/ NetlinkFails \/ LoadFails
  BY <1>4 DEF NoteOK, Dark, Killed, PowerCycle, NetlinkFails, LoadFails, Gone
<1>5. CASE exit_gracefully \/ Terminated
  BY <1>1, <1>5 DEF NoteOK, Dark, exit_gracefully, Terminated, Exit, LedOff, Gone
<1>6. CASE Start \/ Arm
  BY <1>6 DEF NoteOK, Dark, Start, Arm
<1>7. CASE FileCheck \/ NetlinkCheck
  BY <1>7 DEF NoteOK, Dark, FileCheck, NetlinkCheck
<1>8. CASE InputCheck
  <2>1. faulted' = faulted \/ faulted' = 1
    BY <1>8 DEF InputCheck, Skipped, PressSeen, ReleaseSeen
  <2> QED
    BY <1>8, <2>1 DEF NoteOK, Dark, InputCheck
<1>9. CASE LedCheck
  BY <1>9 DEF NoteOK, Dark, LedCheck
<1>10. CASE LedSet
  BY <1>10 DEF NoteOK, Dark, LedSet
<1>11. CASE Swallowed
  <2>1. CASE SwallowedReading
    BY <1>1, <2>1 DEF NoteOK, Dark, SwallowedReading, LedOff
  <2>2. CASE SwallowedWriting
    BY <1>1, <2>2 DEF NoteOK, Dark, SwallowedWriting
  <2>3. CASE SwallowedStarting
    BY <1>1, <2>3 DEF NoteOK, Dark, SwallowedStarting
  <2> QED
    BY <1>11, <2>1, <2>2, <2>3 DEF Swallowed
<1>12. CASE UNCHANGED vars
  BY <1>12 DEF NoteOK, Dark, vars
<1> QED
  BY <1>2, <1>3, <1>4, <1>5, <1>6, <1>7, <1>8, <1>9, <1>10, <1>11, <1>12
  DEF Next, Loop, Manager, World

LEMMA LedInvStep ==
  ASSUME LedInv, [Next]_vars
  PROVE  LedInv'
BY TypeStep, LinksStep, NoteStep DEF LedInv
-----------------------------------------------------------------------------
(* The history of the button.                                              *)
LEMMA HistoryStep ==
  ASSUME TypeOK, HistoryOK, [Next]_vars
  PROVE  HistoryOK'
<1> USE DEF HistoryOK, button, Fine, Fault, Event
<1>1. Interval \in Nat \ {0} /\ pressed \in 0 .. 1
  BY MonitorAssumption DEF TypeOK
<1>2. CASE Press \/ Release
  BY <1>1, <1>2 DEF Press, Release
<1>3. CASE Order \/ Killed \/ Clear \/ Terminated
  BY <1>3 DEF Order, Killed, Clear, Terminated, Exit
<1>4. CASE PowerCycle
  BY <1>1, <1>4 DEF PowerCycle
<1>5. CASE \/ \E d \in Devices : Carrier(d)
           \/ \E S \in SUBSET Devices : Configure(S)
  BY <1>5 DEF Carrier, Configure
<1>6. CASE Start \/ Arm
  BY <1>1, <1>6 DEF Start, Arm, Counted
<1>7. CASE \/ exit_gracefully \/ FileCheck \/ LoadFails \/ NetlinkCheck
           \/ NetlinkFails
  BY <1>7 DEF exit_gracefully, Exit, FileCheck, LoadFails, NetlinkCheck,
     NetlinkFails
<1>8. CASE InputCheck
  <2>1. faulted' \in 0 .. 1
    BY <1>8 DEF InputCheck, Skipped, PressSeen, ReleaseSeen
  <2> QED
    BY <1>8, <2>1 DEF InputCheck
<1>9. CASE LedCheck \/ LedSet \/ Swallowed
  BY <1>1, <1>9 DEF LedCheck, LedSet, Swallowed, SwallowedReading,
     SwallowedWriting, SwallowedStarting, Counted
<1>10. CASE Sleep
  BY <1>1, <1>10 DEF Sleep, Second, Capped
<1>11. CASE UNCHANGED vars
  BY <1>11 DEF vars
<1> QED
  BY <1>2, <1>3, <1>4, <1>5, <1>6, <1>7, <1>8, <1>9, <1>10, <1>11
  DEF Next, Loop, Manager, World

LEMMA FreshStep ==
  ASSUME FreshOK, [Next]_vars
  PROVE  FreshOK'
<1> USE DEF FreshOK, memory
<1>1. CASE Start
  BY <1>1 DEF Start
<1>2. CASE Loop
  BY <1>2 DEF Loop, Arm, FileCheck, LoadFails, NetlinkCheck, NetlinkFails,
     InputCheck, LedCheck, LedSet, Swallowed, SwallowedReading,
     SwallowedWriting, SwallowedStarting, Sleep, Gone
<1>3. CASE Clear \/ exit_gracefully
  BY <1>3 DEF Clear, exit_gracefully, Exit, Gone
<1>4. CASE World
  BY <1>4 DEF World, Press, Release, Order, Killed, Terminated, Exit,
     PowerCycle, Carrier, Configure, Gone
<1>5. CASE UNCHANGED vars
  BY <1>5 DEF vars
<1> QED
  BY <1>1, <1>2, <1>3, <1>4, <1>5 DEF Next, Manager

(* The steps that leave the button, its daemon and its history alone.      *)
LEMMA Aside ==
  ASSUME PressOK, MeasureOK,
         UNCHANGED << button, hooked, armed, action, since, asked, slow >>,
         faulted' = faulted \/ faulted' = 1,
         pc' = pc \/ (Up /\ pc # "starting" /\ (Before <=> Before'))
  PROVE  PressOK' /\ MeasureOK'
BY DEF PressOK, MeasureOK, button, Clean, Before, Since, Fits, Up

(* A daemon that has ended measures nothing.                               *)
LEMMA DownMeasures == ASSUME ~ Up' PROVE MeasureOK'
BY DEF MeasureOK

LEMMA PressStep ==
  ASSUME PressInv, [Next]_vars
  PROVE  PressOK' /\ MeasureOK'
<1> USE DEF button, memory, shown, Fine, Fault, Event
<1>1. /\ Interval \in Nat \ {0} /\ None = -1
      /\ pressed \in 0 .. 1 /\ latch \in 0 .. 1 /\ hooked \in 0 .. 1
      /\ armed \in 0 .. 1 /\ action \in {"none", "reboot", "factory"}
      /\ since \in None .. Interval + 1 /\ asked \subseteq {"reboot", "factory"}
      /\ held \in 0 .. Interval + 1 /\ longest \in 0 .. Interval + 1
      /\ presses \in Nat /\ slow \in 0 .. 1 /\ faulted \in 0 .. 1
  BY MonitorAssumption DEF PressInv, TypeOK, HistoryOK, None
<1>2. PressOK /\ MeasureOK
  BY DEF PressInv
<1>3. CASE Press
  <2>1. /\ pressed' = 1 /\ latch' = 1 /\ held' = 0 /\ presses' = presses + 1
        /\ UNCHANGED << longest, pc, hooked, armed, action, since, asked, faulted,
                        slow >>
    BY <1>3 DEF Press
  <2>2. CASE presses = 0
    <3>1. PressOK'
      <4>1. longest' = 0 /\ presses' = 1 /\ (Clean => asked = {})
        BY <1>2, <2>1, <2>2 DEF PressOK
      <4>2. Clean' = Clean /\ Up' = Up
        BY <2>1 DEF Clean, Up
      <4>3. Clean /\ Up /\ pc # "starting" => armed = 1
        BY <1>2 DEF PressOK
      <4> QED
        BY <2>1, <4>1, <4>2, <4>3 DEF PressOK
    <3>2. ASSUME Clean, Up, hooked = 1
          PROVE  since = None /\ Since' = 0
      BY <1>2, <2>1, <2>2, <3>2 DEF MeasureOK, Since
    <3>3. MeasureOK'
      BY <1>1, <2>1, <2>2, <3>2 DEF MeasureOK, Clean, Up
    <3> QED
      BY <3>1, <3>3
  <2>3. CASE presses # 0
    <3>1. presses' \notin 0 .. 1
      BY <1>1, <2>1, <2>3
    <3> QED
      BY <1>1, <1>2, <2>1, <3>1 DEF PressOK, MeasureOK, Clean, Up
  <2> QED
    BY <2>2, <2>3
<1>4. CASE Release
  BY <1>1, <1>2, <1>4
  DEF Release, PressOK, MeasureOK, Clean, Up, Before, Since, Fits
<1>5. CASE Order
  BY <1>2, <1>5, Aside DEF Order
<1>6. CASE \E d \in Devices : Carrier(d)
  BY <1>2, <1>6, Aside DEF Carrier
<1>7. CASE \E S \in SUBSET Devices : Configure(S)
  BY <1>2, <1>7, Aside DEF Configure
<1>8. CASE Clear
  BY <1>2, <1>8, Aside DEF Clear
<1>9. CASE UNCHANGED vars
  BY <1>2, <1>9, Aside DEF vars
<1>10. CASE FileCheck
  BY <1>2, <1>10, Aside DEF FileCheck, Up, Before
<1>11. CASE NetlinkCheck
  BY <1>2, <1>11, Aside DEF NetlinkCheck, Up, Before
<1>12. CASE LedCheck
  BY <1>2, <1>12, Aside DEF LedCheck, Up, Before
<1>13. CASE LedSet
  BY <1>2, <1>13, Aside DEF LedSet, Up, Before
<1>14. CASE Killed \/ NetlinkFails \/ LoadFails \/ exit_gracefully \/ Terminated
  <2>1. /\ ~ Up' /\ UNCHANGED << button, armed, asked, slow, faulted >>
        /\ action' = action /\ since' = since
    BY <1>14 DEF Killed, NetlinkFails, LoadFails, exit_gracefully, Terminated,
       Exit, Gone, Up
  <2> QED
    BY <1>2, <2>1, DownMeasures DEF PressOK, Clean, Fits
<1>15. CASE PowerCycle
  <2>1. ~ Up'
    BY <1>15 DEF PowerCycle, Gone, Up
  <2>2. PressOK'
    BY <1>1, <1>2, <1>15, <2>1 DEF PowerCycle, PressOK, Clean
  <2> QED
    BY <2>1, <2>2, DownMeasures
<1>16. CASE Start
  <2>1. /\ pc' = "starting" /\ hooked' = 0
        /\ UNCHANGED << button, asked, slow, faulted >>
    BY <1>16 DEF Start
  <2> QED
    BY <1>2, <2>1 DEF PressOK, MeasureOK, Clean, Fits
<1>17. CASE SwallowedReading \/ SwallowedWriting
  <2>1. /\ hooked' = 0 /\ Up /\ pc # "starting"
        /\ UNCHANGED << button, armed, asked, slow, faulted >>
    BY <1>17 DEF SwallowedReading, SwallowedWriting, Up
  <2> QED
    BY <1>2, <2>1 DEF PressOK, MeasureOK, Clean, Fits
<1>20. CASE Arm \/ SwallowedStarting
  <2>1. /\ pc' = "files" /\ action' = action /\ since' = since /\ hooked' = 1
        /\ UNCHANGED << pressed, asked, slow >> /\ Counted
    BY <1>20 DEF Arm, SwallowedStarting
  <2>2. \/ faulted' = faulted /\ armed' = 1 /\ latch' = pressed
        \/ faulted' = 1 /\ latch' \in {latch, pressed}
    BY <1>20 DEF Arm, SwallowedStarting
  <2>3. action = "none" /\ since = None
    BY <1>20 DEF Arm, SwallowedStarting, PressInv, FreshOK
  <2>4. CASE asked = {}
    <3>1. held' = 0 /\ longest' = 0 /\ presses' = pressed
      BY <2>1, <2>4 DEF Counted
    <3> QED
      BY <1>1, <1>2, <2>1, <2>2, <2>3, <2>4, <3>1
      DEF PressOK, MeasureOK, Clean, Up, Before, Since, Fits
  <2>5. CASE asked # {}
    <3>1. UNCHANGED << held, longest, presses >>
      BY <2>1, <2>5 DEF Counted
    <3> QED
      BY <1>1, <1>2, <2>1, <2>2, <2>3, <2>5, <3>1
      DEF PressOK, MeasureOK, Clean, Up, Before, Since, Fits
  <2> QED
    BY <2>4, <2>5
<1>18. CASE InputCheck
  <2>1. /\ pc = "input" /\ pc' = "leds"
        /\ UNCHANGED << pressed, held, longest, presses, hooked, armed, slow >>
    BY <1>18 DEF InputCheck
  <2>2. Up /\ Up' /\ Before /\ ~ Before'
    BY <2>1 DEF Up, Before
  <2>3. CASE Skipped
    BY <1>1, <1>2, <2>1, <2>2, <2>3
    DEF Skipped, PressOK, MeasureOK, Clean, Since, Fits
  <2>4. CASE PressSeen
    <3>1. /\ hooked = 1 /\ since' = Since /\ action' = Judge(Since)
          /\ asked' = asked
          /\ \/ faulted' = faulted /\ latch' = pressed
             \/ faulted' = 1 /\ latch' = latch
      BY <2>4 DEF PressSeen
    <3>2. armed = 1 => latch = 1
      BY <2>4 DEF PressSeen, Bit
    <3>3. Since \in 0 .. Interval + 1 /\ Since' = Since /\ since' # None
      BY <1>1, <3>1 DEF Since
    <3>4. PressOK'
      BY <1>1, <1>2, <2>1, <2>2, <3>1, <3>2 DEF PressOK, Clean, Fits
    <3>5. CASE Clean' /\ presses = 1
      <4>1. /\ Clean /\ latch = 1 /\ latch' = pressed /\ held - Since \in -1 .. 1
            /\ pressed = 1 => held - Since \in 0 .. 1
        BY <1>1, <1>2, <2>1, <2>2, <3>1, <3>2, <3>5 DEF PressOK, MeasureOK, Clean
      <4>2. Fits({Judge(Since)})
        BY <1>1, <3>3, <4>1 DEF Fits, Judge
      <4> QED
        BY <1>1, <2>1, <3>1, <3>3, <3>4, <3>5, <4>1, <4>2 DEF MeasureOK, Fits
    <3>6. CASE Clean' /\ presses = 0
      BY <1>1, <1>2, <2>1, <2>2, <3>1, <3>2, <3>6 DEF PressOK, MeasureOK, Clean
    <3>7. CASE ~ Clean' \/ presses \notin 0 .. 1
      BY <1>1, <2>1, <3>4, <3>7 DEF MeasureOK
    <3> QED
      BY <1>1, <3>5, <3>6, <3>7
  <2>5. CASE ReleaseSeen
    <3>1. /\ hooked = 1 /\ faulted' = faulted
          /\ UNCHANGED << latch, action, since >>
          /\ asked' = IF action = "none" THEN asked ELSE asked \cup {action}
          /\ armed = 1 => latch = 0
      BY <2>5 DEF ReleaseSeen, Bit
    <3>2. CASE Clean
      <4>1. latch = 0 /\ pressed = 0
        BY <1>1, <1>2, <2>1, <2>2, <3>1, <3>2 DEF PressOK
      <4>2. presses = 1 => Fits({action})
        BY <1>2, <2>2, <3>1, <3>2, <4>1 DEF MeasureOK
      <4>3. presses = 0 => action = "none"
        BY <1>2, <2>2, <3>1, <3>2 DEF MeasureOK
      <4> QED
        BY <1>1, <1>2, <2>1, <2>2, <3>1, <3>2, <4>1, <4>2, <4>3
        DEF PressOK, MeasureOK, Clean, Fits
    <3>3. CASE ~ Clean
      BY <1>1, <1>2, <2>1, <3>1, <3>3 DEF PressOK, MeasureOK, Clean
    <3> QED
      BY <3>2, <3>3
  <2> QED
    BY <1>18, <2>3, <2>4, <2>5 DEF InputCheck
<1>19. CASE Sleep
  <2>1. /\ pc = "sleep" /\ Up /\ ~ Before
        /\ UNCHANGED << pressed, latch, presses, hooked, armed, action, asked,
                        faulted >>
        /\ since' = IF since = None THEN None ELSE Capped(since + 1)
        /\ held' = IF pressed = 1 THEN Capped(held + 1) ELSE held
        /\ longest' = IF held' > longest THEN held' ELSE longest
    BY <1>19 DEF Sleep, Second, Up, Before
  <2>2. \/ pc' = "files" /\ slow' = slow
        \/ slow' = 1 /\ pc' = pc
    BY <1>19 DEF Sleep
  <2>3. PressOK'
    BY <1>1, <1>2, <2>1, <2>2 DEF PressOK, Clean, Up, Fits, Capped
  <2>4. CASE slow' = 1
    BY <2>3, <2>4 DEF MeasureOK, Clean
  <2>5. CASE slow' # 1
    <3>1. slow' = slow /\ pc' = "files"
      BY <2>2, <2>5
    <3>2. Clean' = Clean /\ Before' /\ Up'
      BY <2>1, <3>1 DEF Clean, Before, Up
    <3>3. CASE presses = 1 /\ latch = 1 /\ Clean /\ hooked = 1
      <4>1. held - Since \in 0 .. 1 /\ (since = None => held = 0)
        BY <1>2, <2>1, <3>3 DEF MeasureOK
      <4>2. CASE since = None
        BY <1>1, <2>1, <2>3, <3>1, <3>2, <3>3, <4>1, <4>2
        DEF MeasureOK, Since, Capped
      <4>3. CASE since # None
        BY <1>1, <2>1, <2>3, <3>1, <3>2, <3>3, <4>1, <4>3
        DEF MeasureOK, Since, Capped
      <4> QED
        BY <4>2, <4>3
    <3>4. CASE ~ (presses = 1 /\ latch = 1) /\ Clean /\ hooked = 1
      <4>1. presses = 1 => latch = 0 /\ pressed = 0 /\ held' = held
        BY <1>1, <1>2, <2>1, <3>4 DEF PressOK
      <4> QED
        BY <1>1, <1>2, <2>1, <2>3, <3>1, <3>2, <3>4, <4>1 DEF MeasureOK, Fits
    <3>5. CASE ~ (Clean /\ hooked = 1)
      BY <2>1, <2>3, <3>2, <3>5 DEF MeasureOK
    <3> QED
      BY <3>3, <3>4, <3>5
  <2> QED
    BY <2>3, <2>4, <2>5
<1> QED
  BY <1>3, <1>4, <1>5, <1>6, <1>7, <1>8, <1>9, <1>10, <1>11, <1>12, <1>13, <1>14,
     <1>15, <1>16, <1>17, <1>18, <1>19, <1>20
  DEF Next, Loop, Manager, World, Swallowed
-----------------------------------------------------------------------------
LEMMA Start0 == Init => LedInv /\ PressInv
<1> SUFFICES ASSUME Init PROVE LedInv /\ PressInv
  OBVIOUS
<1>1. TypeOK
  BY MonitorAssumption DEF Init, TypeOK, None
<1>2. LinksOK /\ NoteOK /\ Dark
  BY DEF Init, LinksOK, NoteOK, Dark, Up
<1>3. HistoryOK /\ FreshOK
  BY MonitorAssumption DEF Init, HistoryOK, FreshOK
<1>4. PressOK /\ MeasureOK
  BY DEF Init, PressOK, MeasureOK, Up, Fits
<1> QED
  BY <1>1, <1>2, <1>3, <1>4 DEF LedInv, PressInv

(* At the end of a loop the LED is right, whatever order messages, loads   *)
(* and restarts came in, and a stopped daemon leaves it dark               *)
(* (nuvoton_monitor.py:26-66, 96).                                         *)
THEOREM LedCorrect == Spec => []LedTrue
<1>1. LedInv => LedTrue
  <2> SUFFICES ASSUME LedInv, pc = "sleep", watched = 1, changed = 0,
                      netlink = <<>>, overflow = 0, faulted = 0
               PROVE  Right
    BY DEF LedInv, LedTrue, Shows
  <2>1. Waiting = {}
    BY DEF Waiting
  <2>2. /\ link \subseteq devices /\ devices = wifi
        /\ \A d \in devices : d \in link <=> d \in carrier
    BY <2>1 DEF LedInv, LinksOK, Up
  <2>3. link = wifi \cap carrier
    BY <2>2
  <2>4. led = Shown
    BY DEF LedInv, NoteOK, Noted, Up
  <2> QED
    BY <2>3, <2>4 DEF Right, Shown
<1>2. LedInv /\ [Next]_vars => LedInv'
  BY LedInvStep
<1> QED
  BY <1>1, <1>2, Start0, PTL DEF Spec

(* A single press is a factory reset only if it lasted for the interval,   *)
(* and a reboot only if it did not, give or take the second between two    *)
(* looks (nuvoton_reset_button.py:13-16, 160-185).                         *)
THEOREM JudgedCorrect == Spec => []Judged
<1>1. PressInv => Judged
  BY DEF PressInv, PressOK, Judged, Clean, Fits
<1>2. PressInv /\ [Next]_vars => PressInv'
  BY TypeStep, HistoryStep, FreshStep, PressStep DEF PressInv
<1> QED
  BY <1>1, <1>2, Start0, PTL DEF Spec
=============================================================================
