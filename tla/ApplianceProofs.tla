--------------------------- MODULE ApplianceProofs ----------------------------
(***************************************************************************)
(* What Appliance guarantees for any browsers, addresses, and any number   *)
(* of power failures, upgrades and saves: what is flashed, copied and      *)
(* resized once an appliance is up, what may change saved settings, and    *)
(* whatever was saved, where browsers find the appliance, how its          *)
(* interfaces are addressed and what its rules admit.                      *)
(***************************************************************************)
EXTENDS Appliance, SequenceTheorems, TLAPS

(* The scripts of each kind of appliance, and how far each can be.         *)
Places == [caswell |-> {"postinst"}, cloud |-> {"netsettings"},
           linksys |-> {"flash1", "flash2", "resize", "netsettings", "reboot"},
           turris |-> {"netsettings", "reboot"},
           asus |-> {"resize", "nvram", "netsettings", "reboot"}]
PlaceOK ==
  /\ box \in Boxes
  /\ at \in {"off", "up"} \cup Places[box]
  /\ done \in 0 .. 3
  /\ at = "flash1" \/ at = "flash2" => done \in 0 .. 2
  /\ at = "nvram" \/ at = "postinst" => done \in 0 .. 2
  /\ at = "netsettings" \/ at = "reboot" => done \in 0 .. 1
  /\ at = "off" \/ at = "up" => done = 0

(* A partition is flashed, or its flash was cut short and left it torn.    *)
Slot1 == slots[1] = "new" \/ "flash1" \in interrupted
Slot2 == slots[2] = "new" \/ "flash2" \in interrupted
FlashOK ==
  /\ slots \in [1 .. 2 -> {"new", "old", "bad", "torn"}]
  /\ box # "linksys" => slots[1] = "new" /\ slots[2] = "new"
  /\ at \in {"flash2", "resize", "netsettings", "reboot", "up"} => Slot1
  /\ at \in {"resize", "netsettings", "reboot", "up"} => Slot2
  /\ slots[1] = "torn" => \/ "flash1" \in interrupted
                          \/ at = "flash1" /\ done = 2
  /\ slots[2] = "torn" => \/ "flash2" \in interrupted
                          \/ at = "flash2" /\ done = 2
  /\ slots[2] \in {"bad", "torn"} => Slot1
  /\ at = "flash1" /\ done > 0 => slots[1] \in {"bad", "torn"}

(* The settings are there from the script on that copies them.             *)
Copied == file = "whole" \/ "copy" \in interrupted
FileOK ==
  /\ file \in {"none", "torn", "whole"}
  /\ file = "torn" => \/ "copy" \in interrupted
                      \/ at = "netsettings" /\ done = 1
                      \/ at = "postinst" /\ done = 2
  /\ at \in {"reboot", "up"} => Copied
  /\ box = "caswell" /\ at # "postinst" => Copied
  /\ at = "postinst" /\ done = 0 /\ "installed" \in flags => Copied
  /\ at = "netsettings" /\ done = 1 => file = "torn"
  /\ at = "postinst" /\ done = 1 => file = "none"
  /\ at = "postinst" /\ done = 2 => file = "torn"
  /\ box = "caswell" /\ "installed" \notin flags => file = "none"
  /\ at = "postinst" /\ done > 0 => "installed" \in flags

(* The settings have an interface, and interfaces have devices: so do the  *)
(* lists loaded and copied, and a copy differs from what was loaded in the *)
(* internal interface only.                                                *)
HasDevice(intf) == "physicalDev" \in DOMAIN intf
IsList(f) == DOMAIN f # {} /\ \A i \in DOMAIN f : HasDevice(f[i])
ListsOK ==
  /\ IF file = "whole" THEN IsList(net) ELSE net = <<>>
  /\ \A c \in Clients : /\ page[c].step # "none" => IsList(page[c].base)
                        /\ page[c].step = "leaving" =>
                             /\ IsList(page[c].copy)
                             /\ OnlyOwn("leaving", page[c].base, page[c].copy)
  /\ DOMAIN page = Clients
  /\ \A c \in Clients : DOMAIN page[c] = {"step", "base", "copy"}

(* From a flag on until the restart that it asks for.                      *)
Restarts(places) == \/ at = "off"
                    \/ at = "reboot" /\ done = 1
                    \/ "reboot" \in flags /\ at \in places

(* The kernel sees the larger partition, or a restart is to come.          *)
ResizeOK ==
  /\ at = "resize" /\ done \in {1, 2} => disk = "large"
  /\ "part" \in flags =>
       /\ disk = "large"
       /\ \/ mounted = "large"
          \/ at = "resize" /\ done = 2
          \/ Restarts({"nvram", "netsettings", "reboot"})
  /\ "part" \in flags => box \in {"linksys", "asus"}
  /\ growing = 1 => mounted = "large"
  /\ at = "off" => growing = 0

(* The kernel sees the NVRAM variables, or a restart is to come.           *)
NvramOK ==
  /\ at = "nvram" /\ done > 0 => nvram = "set"
  /\ at = "nvram" /\ done = 2 => "nvram" \in flags
  /\ "nvram" \in flags =>
       /\ nvram = "set"
       /\ \/ booted = "set"
          \/ at = "nvram" /\ done = 2
          \/ Restarts({"netsettings", "reboot"})
  /\ "nvram" \in flags => box = "asus"
  /\ box = "asus" /\ at \in {"netsettings", "reboot", "up"} => "nvram" \in flags

IInv == PlaceOK /\ FlashOK /\ FileOK /\ ListsOK /\ ResizeOK /\ NvramOK
-----------------------------------------------------------------------------
(* The order of the scripts.                                               *)
LEMMA Installs ==
  /\ AtInstall["caswell"] = << "postinst" >>
  /\ AtInstall["cloud"] = << "netsettings" >>
  /\ AtInstall["linksys"] = << "flash1", "flash2", "resize", "netsettings",
                              "reboot" >>
  /\ AtInstall["turris"] = << "netsettings", "reboot" >>
  /\ AtInstall["asus"] = << "resize", "nvram", "netsettings", "reboot" >>
BY DEF AtInstall, AtBoot

LEMMA Follows ==
  ASSUME box \in Boxes, at \in Places[box]
  PROVE  /\ at = "flash1" => Follower = "flash2"
         /\ at = "flash2" => Follower = "resize"
         /\ at = "resize" => Follower = IF box = "asus" THEN "nvram"
                                        ELSE "netsettings"
         /\ at = "nvram" => Follower = "netsettings"
         /\ at = "netsettings" => Follower = IF box = "cloud" THEN "up"
                                             ELSE "reboot"
         /\ at \in {"reboot", "postinst"} => Follower = "up"
<1>1. CASE box = "caswell"
  <2>1. at = "postinst"
    BY <1>1 DEF Places
  <2> QED
    BY <1>1, <2>1, Installs DEF Follower
<1>2. CASE box = "cloud"
  <2>1. at = "netsettings"
    BY <1>2 DEF Places
  <2> QED
    BY <1>2, <2>1, Installs DEF Follower
<1>3. CASE box = "linksys"
  <2>1. at \in {"flash1", "flash2", "resize", "netsettings", "reboot"}
    BY <1>3 DEF Places
  <2> QED
    BY <1>3, <2>1, Installs DEF Follower
<1>4. CASE box = "turris"
  <2>1. at \in {"netsettings", "reboot"}
    BY <1>4 DEF Places
  <2> QED
    BY <1>4, <2>1, Installs DEF Follower
<1>5. CASE box = "asus"
  <2>1. at \in {"resize", "nvram", "netsettings", "reboot"}
    BY <1>5 DEF Places
  <2> QED
    BY <1>5, <2>1, Installs DEF Follower
<1> QED
  BY <1>1, <1>2, <1>3, <1>4, <1>5 DEF Boxes

LEMMA Starts ==
  ASSUME box \in Boxes
  PROVE  /\ box = "caswell" => /\ First(AtBoot[box]) = "up"
                               /\ First(AtInstall[box]) = "postinst"
         /\ box # "caswell" => /\ First(AtInstall[box]) = First(AtBoot[box])
                               /\ First(AtBoot[box]) =
                                    IF box = "linksys" THEN "flash1"
                                    ELSE IF box = "asus" THEN "resize"
                                    ELSE "netsettings"
<1>1. /\ AtBoot["caswell"] = << >> /\ AtBoot["cloud"] = << "netsettings" >>
      /\ AtBoot["linksys"] = << "flash1", "flash2", "resize", "netsettings",
                               "reboot" >>
      /\ AtBoot["turris"] = << "netsettings", "reboot" >>
      /\ AtBoot["asus"] = << "resize", "nvram", "netsettings", "reboot" >>
  BY DEF AtBoot
<1> QED
  BY <1>1, Installs DEF First, Boxes

(* The factory settings have an interface.                                 *)
LEMMA Joined ==
  ASSUME NEW S, NEW s \in Seq(S), NEW t \in Seq(S), s # << >>
  PROVE  s \o t \in Seq(S) /\ s \o t # << >>
OBVIOUS

LEMMA SeqIsList ==
  ASSUME NEW S, NEW s \in Seq(S), s # << >>, \A x \in S : HasDevice(x)
  PROVE  IsList(s)
<1>1. DOMAIN s = 1 .. Len(s)
  OBVIOUS
<1>2. Len(s) \in Nat \ {0}
  BY EmptySeq
<1>3. 1 \in DOMAIN s /\ \A i \in DOMAIN s : s[i] \in S
  BY <1>1, <1>2
<1> QED
  BY <1>3 DEF IsList

(* The interfaces of the files have devices.                               *)
LEMMA Devices ==
  /\ \A id, device, bridge, type : HasDevice(Intf(id, device, bridge, type))
  /\ \A id, device, bridge : HasDevice(Wan(id, device, bridge))
  /\ \A id, device, bridge, to : HasDevice(Member(id, device, bridge, to))
  /\ \A intf : HasDevice(intf) => /\ HasDevice(Wireless(intf))
                                  /\ HasDevice(Vlan(intf))
                                  /\ HasDevice(Serving(intf))
  /\ \A intf, address, prefix :
       HasDevice(intf) => HasDevice(Static(intf, address, prefix))
  /\ \A intf, to : HasDevice(intf) => HasDevice([intf EXCEPT !.bridgedTo = to])
  /\ \A intf, type :
       HasDevice(intf) => HasDevice([intf EXCEPT !.v4ConfigType = type])
<1>1. \A id, device, bridge, type : HasDevice(Intf(id, device, bridge, type))
  BY DEF HasDevice, Intf
<1>2. \A id, device, bridge : HasDevice(Wan(id, device, bridge))
  BY <1>1 DEF HasDevice, Wan
<1>3. \A id, device, bridge, to : HasDevice(Member(id, device, bridge, to))
  BY <1>1 DEF HasDevice, Member
<1>4. \A intf : HasDevice(intf) => /\ HasDevice(Wireless(intf))
                                  /\ HasDevice(Vlan(intf))
                                  /\ HasDevice(Serving(intf))
  BY DEF HasDevice, Wireless, Vlan, Serving
<1>5. \A intf, address, prefix :
        HasDevice(intf) => HasDevice(Static(intf, address, prefix))
  BY DEF HasDevice, Static
<1>6. /\ \A intf, to :
           HasDevice(intf) => HasDevice([intf EXCEPT !.bridgedTo = to])
      /\ \A intf, type :
           HasDevice(intf) => HasDevice([intf EXCEPT !.v4ConfigType = type])
  BY DEF HasDevice
<1> QED
  BY <1>1, <1>2, <1>3, <1>4, <1>5, <1>6

LEMMA FactoryIsList == ASSUME box \in Boxes PROVE IsList(Factory(box))
<1>1. ASSUME NEW a, NEW b, NEW c, NEW d, NEW e, NEW f, NEW g, NEW h,
             \A x \in {a, b, c, d, e, f, g, h} : HasDevice(x)
      PROVE  IsList(<< a, b >> \o << c, d >> \o << e, f >> \o << g, h >>)
  <2> DEFINE S == {a, b, c, d, e, f, g, h}
  <2>1. /\ << a, b >> \in Seq(S) /\ << c, d >> \in Seq(S)
        /\ << e, f >> \in Seq(S) /\ << g, h >> \in Seq(S) /\ << a, b >> # << >>
    OBVIOUS
  <2>2. \A x \in S : HasDevice(x)
    BY <1>1
  <2> HIDE DEF S
  <2> QED
    BY <2>1, <2>2, Joined, SeqIsList
<1>2. ASSUME NEW a, NEW b, NEW c, NEW d, \A x \in {a, b, c, d} : HasDevice(x)
      PROVE  IsList(<< a, b >> \o << c, d >>)
  <2> DEFINE S == {a, b, c, d}
  <2>1. << a, b >> \in Seq(S) /\ << c, d >> \in Seq(S) /\ << a, b >> # << >>
    OBVIOUS
  <2>2. \A x \in S : HasDevice(x)
    BY <1>2
  <2> HIDE DEF S
  <2> QED
    BY <2>1, <2>2, Joined, SeqIsList
<1>3. ASSUME NEW a, NEW b, NEW c, NEW d, NEW e,
             \A x \in {a, b, c, d, e} : HasDevice(x)
      PROVE  IsList(<< a, b, c >> \o << d, e >>)
  <2> DEFINE S == {a, b, c, d, e}
  <2>1. /\ << a, b, c >> \in Seq(S) /\ << d, e >> \in Seq(S)
        /\ << a, b, c >> # << >>
    OBVIOUS
  <2>2. \A x \in S : HasDevice(x)
    BY <1>3
  <2> HIDE DEF S
  <2> QED
    BY <2>1, <2>2, Joined, SeqIsList
<1>4. ASSUME NEW a, HasDevice(a) PROVE IsList(<< a >>)
  <2> DEFINE S == {a}
  <2>1. << a >> \in Seq(S) /\ << a >> # << >>
    OBVIOUS
  <2>2. \A x \in S : HasDevice(x)
    BY <1>4
  <2> HIDE DEF S
  <2> QED
    BY <2>1, <2>2, SeqIsList
<1>5. CASE box = "caswell"
  <2>1. IsList(CaswellInterfaces)
    BY <1>1, Devices DEF CaswellInterfaces, CaswellInternet,
          CaswellInternal, CaswellPorts34, CaswellPorts56, CaswellPorts78
  <2> QED
    BY <1>5, <2>1 DEF Factory
<1>6. CASE box = "cloud"
  <2>1. IsList(CloudInterfaces)
    BY <1>4, Devices DEF CloudInterfaces
  <2> QED
    BY <1>6, <2>1 DEF Factory
<1>7. CASE box = "linksys"
  <2>1. IsList(LinksysInterfaces)
    BY <1>2, Devices DEF LinksysInterfaces, LinksysWired, LinksysWireless
  <2> QED
    BY <1>7, <2>1 DEF Factory
<1>8. CASE box = "turris"
  <2>1. IsList(TurrisInterfaces)
    BY <1>3, Devices DEF TurrisInterfaces, TurrisWired, TurrisWireless
  <2> QED
    BY <1>8, <2>1 DEF Factory
<1>9. CASE box = "asus"
  <2>1. IsList(AsusInterfaces)
    BY <1>3, Devices DEF AsusInterfaces, AsusWired, AsusWireless
  <2> QED
    BY <1>9, <2>1 DEF Factory
<1> QED
  BY <1>5, <1>6, <1>7, <1>8, <1>9 DEF Boxes
-----------------------------------------------------------------------------
LEMMA PlacesAre ==
  /\ Places["caswell"] = {"postinst"}
  /\ Places["cloud"] = {"netsettings"}
  /\ Places["linksys"] = {"flash1", "flash2", "resize", "netsettings",
                          "reboot"}
  /\ Places["turris"] = {"netsettings", "reboot"}
  /\ Places["asus"] = {"resize", "nvram", "netsettings", "reboot"}
BY DEF Places

(* The pages of the wizard leave the scripts and what they do alone.       *)
Move(c) == \/ \E step \in {"Interfaces", "Internet", "InternalNetwork"} :
                Open(c, step)
           \/ Browse(c) \/ SaveInterfaces(c) \/ SaveInternet(c)
           \/ SaveInternal(c) \/ Arrives(c)
Moves   == \E c \in Clients : Move(c)
Kept == <<box, at, done, file, slots, disk, mounted, growing, nvram, booted,
          flags, interrupted>>

LEMMA MovesKeep == ASSUME Moves PROVE UNCHANGED Kept
<1> PICK c \in Clients : Move(c)
  BY DEF Moves
<1>1. ASSUME \E step \in {"Interfaces", "Internet", "InternalNetwork"} :
               Open(c, step)
      PROVE  UNCHANGED Kept
  BY <1>1 DEF Open, Kept, boot
<1>2. CASE Browse(c)
  BY <1>2 DEF Browse, Kept, boot
<1>3. CASE SaveInterfaces(c)
  BY <1>3 DEF SaveInterfaces, NetFixed, Kept, boot
<1>4. CASE SaveInternet(c)
  BY <1>4 DEF SaveInternet, NetFixed, Kept, boot
<1>5. CASE SaveInternal(c)
  BY <1>5 DEF SaveInternal, NetFixed, Kept, boot
<1>6. CASE Arrives(c)
  BY <1>6 DEF Arrives, NetFixed, Kept, boot
<1> QED
  BY <1>1, <1>2, <1>3, <1>4, <1>5, <1>6 DEF Move

(* The steps, one by one.                                                  *)
LEMMA StepCases ==
  ASSUME [Next]_vars
  PROVE  \/ Flash \/ Resize \/ Nvram \/ NetSettings \/ PostInst \/ Reboot
         \/ resize2fs \/ PowerFails \/ PowerOn \/ Upgrade
         \/ Moves
         \/ UNCHANGED <<Kept, net, page>>
BY DEF Next, vars, Script, Move, Moves, Kept, boot, wizard

(* Where a step leads.                                                     *)
LEMMA PlaceStep ==
  ASSUME PlaceOK, [Next]_vars
  PROVE  PlaceOK'
<1> USE PlacesAre
<1>0. /\ box \in Boxes /\ done \in 0 .. 3
      /\ at \in {"off", "up"} \cup Places[box]
  BY DEF PlaceOK
<1>1. at \notin {"off", "up"} => at \in Places[box]
  BY <1>0
<1>2. CASE Flash
  <2>1. box = "linksys" /\ at \in Places[box]
    BY <1>0, <1>2 DEF Flash, Boxes
  <2>2. Follower \in Places[box] /\ Follower \in {"flash2", "resize"}
    BY <1>0, <1>2, <2>1, Follows DEF Flash
  <2> QED
    BY <1>0, <1>2, <2>1, <2>2 DEF Flash, PlaceOK, Goes, Does
<1>3. CASE Resize
  <2>1. box \in {"linksys", "asus"} /\ at \in Places[box]
    BY <1>0, <1>3 DEF Resize, Boxes
  <2>2. Follower \in Places[box] /\ Follower \in {"nvram", "netsettings"}
    BY <1>0, <1>3, <2>1, Follows DEF Resize
  <2> QED
    BY <1>0, <1>3, <2>1, <2>2 DEF Resize, PlaceOK, Goes, Does
<1>4. CASE Nvram
  <2>1. box = "asus" /\ at \in Places[box]
    BY <1>0, <1>4 DEF Nvram, Boxes
  <2>2. Follower \in Places[box] /\ Follower = "netsettings"
    BY <1>0, <1>4, <2>1, Follows DEF Nvram
  <2> QED
    BY <1>0, <1>4, <2>1, <2>2 DEF Nvram, PlaceOK, Goes, Does
<1>5. CASE NetSettings
  <2>1. at \in Places[box]
    BY <1>0, <1>5 DEF NetSettings
  <2>2. Follower \in {"up"} \cup Places[box] /\ Follower \in {"up", "reboot"}
    BY <1>0, <1>5, <2>1, Follows DEF NetSettings, Boxes
  <2> QED
    BY <1>0, <1>5, <2>1, <2>2 DEF NetSettings, PlaceOK, Goes, Does
<1>6. CASE PostInst
  BY <1>0, <1>6 DEF PostInst, PlaceOK, Goes, Does
<1>7. CASE Reboot
  <2>1. Follower = "up"
    BY <1>0, <1>1, <1>7, Follows DEF Reboot
  <2> QED
    BY <1>0, <1>7, <2>1 DEF Reboot, PlaceOK, Goes, Does, Stops
<1>8. CASE resize2fs
  BY <1>8 DEF resize2fs, PlaceOK
<1>9. CASE PowerFails
  BY <1>0, <1>9 DEF PowerFails, PlaceOK, Goes, Stops
<1>10. CASE PowerOn
  <2>1. First(AtBoot[box]) \in {"up"} \cup Places[box]
    BY <1>0, Starts DEF Boxes
  <2> QED
    BY <1>0, <1>10, <2>1 DEF PowerOn, PlaceOK, Goes
<1>11. CASE Upgrade
  <2>1. First(AtInstall[box]) \in {"up"} \cup Places[box]
    BY <1>0, Starts DEF Boxes
  <2> QED
    BY <1>0, <1>11, <2>1 DEF Upgrade, PlaceOK, Goes
<1>12. CASE UNCHANGED Kept
  BY <1>12 DEF Kept, PlaceOK
<1> QED
  BY <1>2, <1>3, <1>4, <1>5, <1>6, <1>7, <1>8, <1>9, <1>10, <1>11, <1>12,
     StepCases, MovesKeep

(* What a stop does to the history of interruptions.                       *)
LEMMA StopsKeep ==
  ASSUME Stops
  PROVE  /\ interrupted \subseteq interrupted'
         /\ at = "flash1" /\ done = 2 => "flash1" \in interrupted'
         /\ at = "flash2" /\ done = 2 => "flash2" \in interrupted'
         /\ at = "postinst" => "copy" \in interrupted'
         /\ at = "netsettings" /\ done > 0 => "copy" \in interrupted'
BY DEF Stops

(* A partition is written from the first flash script to its end; only     *)
(* then comes the second one.                                              *)
LEMMA FlashStep ==
  ASSUME PlaceOK, FlashOK, [Next]_vars
  PROVE  FlashOK'
<1>0. /\ box \in Boxes /\ at \in {"off", "up"} \cup Places[box]
      /\ slots \in [1 .. 2 -> {"new", "old", "bad", "torn"}]
  BY DEF PlaceOK, FlashOK
<1>01. at \notin {"off", "up"} => at \in Places[box]
  BY <1>0
<1>1. CASE Flash /\ at = "flash1"
  <2>1. Follower = "flash2" /\ box = "linksys"
    BY <1>0, <1>01, <1>1, Follows, PlacesAre DEF Boxes
  <2>2. Slot = 1
    BY <1>1 DEF Slot
  <2> QED
    BY <1>0, <1>1, <2>1, <2>2 DEF Flash, FlashOK, Slot1, Slot2, Goes, Does
<1>2. CASE Flash /\ at = "flash2"
  <2>1. Follower = "resize" /\ box = "linksys"
    BY <1>0, <1>01, <1>2, Follows, PlacesAre DEF Boxes
  <2>2. Slot = 2
    BY <1>2 DEF Slot
  <2> QED
    BY <1>0, <1>2, <2>1, <2>2 DEF Flash, FlashOK, Slot1, Slot2, Goes, Does
<1>3. CASE Resize
  <2>1. Follower \in {"nvram", "netsettings"}
    BY <1>0, <1>01, <1>3, Follows DEF Resize
  <2> QED
    BY <1>3, <2>1 DEF Resize, FlashOK, Slot1, Slot2, Goes, Does
<1>4. CASE Nvram
  <2>1. Follower = "netsettings" /\ box = "asus"
    BY <1>0, <1>01, <1>4, Follows, PlacesAre DEF Nvram, Boxes
  <2> QED
    BY <1>4, <2>1 DEF Nvram, FlashOK, Slot1, Slot2, Goes, Does
<1>5. CASE NetSettings
  <2>1. Follower \in {"up", "reboot"}
    BY <1>0, <1>01, <1>5, Follows DEF NetSettings
  <2> QED
    BY <1>5, <2>1 DEF NetSettings, FlashOK, Slot1, Slot2, Goes, Does, boot
<1>6. CASE PostInst
  <2>1. box = "caswell"
    BY <1>0, <1>01, <1>6, PlacesAre DEF PostInst, Boxes
  <2> QED
    BY <1>6, <2>1 DEF PostInst, FlashOK, Slot1, Slot2, Goes, Does
<1>7. CASE Reboot
  <2>1. Follower = "up"
    BY <1>0, <1>01, <1>7, Follows DEF Reboot
  <2>2. Stops => FlashOK'
    BY <1>0, <1>7, StopsKeep DEF Reboot, Stops, FlashOK, Slot1, Slot2, Goes
  <2> QED
    BY <1>7, <2>1, <2>2 DEF Reboot, FlashOK, Slot1, Slot2, Goes, Does, boot
<1>8. CASE resize2fs
  BY <1>8 DEF resize2fs, FlashOK, Slot1, Slot2
<1>9. CASE PowerFails
  <2>1. Stops
    BY <1>9 DEF PowerFails
  <2> QED
    BY <1>0, <2>1, StopsKeep DEF Stops, FlashOK, Slot1, Slot2, Goes
<1>10. CASE PowerOn
  <2>1. /\ box = "linksys" => First(AtBoot[box]) = "flash1"
        /\ First(AtBoot[box]) # "flash2"
    BY <1>0, Starts DEF Boxes
  <2> QED
    BY <1>0, <1>10, <2>1 DEF PowerOn, FlashOK, Slot1, Slot2, Goes
<1>11. CASE Upgrade
  <2>1. /\ box = "linksys" => First(AtInstall[box]) = "flash1"
        /\ First(AtInstall[box]) # "flash2"
    BY <1>0, Starts DEF Boxes
  <2> QED
    BY <1>0, <1>11, <2>1 DEF Upgrade, FlashOK, Slot1, Slot2, Goes, boot
<1>12. CASE UNCHANGED Kept
  BY <1>12 DEF Kept, FlashOK, Slot1, Slot2
<1> QED
  BY <1>1, <1>2, <1>3, <1>4, <1>5, <1>6, <1>7, <1>8, <1>9, <1>10, <1>11, <1>12,
     StepCases, MovesKeep DEF Flash

(* The copy: whole, or cut short.                                          *)
LEMMA FileStep ==
  ASSUME PlaceOK, FileOK, [Next]_vars
  PROVE  FileOK'
<1>0. /\ box \in Boxes /\ at \in {"off", "up"} \cup Places[box]
      /\ file \in {"none", "torn", "whole"}
  BY DEF PlaceOK, FileOK
<1>01. at \notin {"off", "up"} => at \in Places[box]
  BY <1>0
<1>1. CASE Flash
  <2>1. Follower \in {"flash2", "resize"} /\ box = "linksys"
    BY <1>0, <1>01, <1>1, Follows, PlacesAre DEF Flash, Boxes
  <2> QED
    BY <1>0, <1>1, <2>1 DEF Flash, FileOK, Copied, Goes, Does
<1>3. CASE Resize
  <2>1. Follower \in {"nvram", "netsettings"} /\ box # "caswell"
    BY <1>0, <1>01, <1>3, Follows, PlacesAre DEF Resize
  <2> QED
    BY <1>3, <2>1 DEF Resize, FileOK, Copied, Goes, Does
<1>4. CASE Nvram
  <2>1. Follower = "netsettings" /\ box = "asus"
    BY <1>0, <1>01, <1>4, Follows, PlacesAre DEF Nvram, Boxes
  <2> QED
    BY <1>4, <2>1 DEF Nvram, FileOK, Copied, Goes, Does
<1>5. CASE NetSettings
  <2>1. Follower \in {"up", "reboot"} /\ box # "caswell"
    BY <1>0, <1>01, <1>5, Follows, PlacesAre DEF NetSettings
  <2> QED
    BY <1>0, <1>5, <2>1
       DEF NetSettings, PlaceOK, FileOK, Copied, Goes, Does, boot
<1>6. CASE PostInst
  <2>1. box = "caswell" /\ at = "postinst" /\ UNCHANGED box
    BY <1>0, <1>01, <1>6, PlacesAre DEF PostInst, Boxes
  <2>2. CASE done = 0 /\ "installed" \in flags
    BY <1>6, <2>1, <2>2 DEF PostInst, FileOK, Copied, Goes
  <2>3. CASE done = 0 /\ "installed" \notin flags
    <3>1. file = "none" /\ UNCHANGED file /\ "installed" \in flags'
      BY <1>6, <2>1, <2>3 DEF PostInst, FileOK
    <3>2. at' = "postinst" /\ done' = 1
      BY <1>6, <2>1, <2>3 DEF PostInst, Does
    <3> QED
      BY <2>1, <3>1, <3>2 DEF FileOK, Copied
  <2>4. CASE done = 1
    <3>1. file' = "torn" /\ UNCHANGED flags
      BY <1>6, <2>1, <2>4 DEF PostInst
    <3>2. at' = "postinst" /\ done' = 2
      BY <1>6, <2>1, <2>4 DEF PostInst, Does
    <3>3. "installed" \in flags
      BY <2>1, <2>4 DEF FileOK
    <3> QED
      BY <2>1, <3>1, <3>2, <3>3 DEF FileOK, Copied
  <2>5. CASE done = 2
    BY <1>6, <2>1, <2>5 DEF PostInst, FileOK, Copied, Goes
  <2> QED
    BY <1>6, <2>2, <2>3, <2>4, <2>5 DEF PostInst
<1>7. CASE Reboot
  <2>1. Follower = "up" /\ box # "caswell"
    BY <1>0, <1>01, <1>7, Follows, PlacesAre DEF Reboot
  <2>2. Stops => FileOK'
    BY <1>0, <1>7, <2>1, StopsKeep DEF Reboot, Stops, FileOK, Copied, Goes
  <2> QED
    BY <1>7, <2>1, <2>2 DEF Reboot, FileOK, Copied, Goes, Does, boot
<1>8. CASE resize2fs
  BY <1>8 DEF resize2fs, FileOK, Copied
<1>9. CASE PowerFails
  <2>1. Stops /\ UNCHANGED flags
    BY <1>9 DEF PowerFails
  <2> QED
    BY <1>0, <2>1, StopsKeep DEF Stops, FileOK, Copied, Goes
<1>10. CASE PowerOn
  <2>1. /\ box = "caswell" => First(AtBoot[box]) = "up"
        /\ First(AtBoot[box]) \notin {"reboot", "postinst"}
        /\ First(AtBoot[box]) = "up" => box = "caswell"
    BY <1>0, Starts DEF Boxes
  <2> QED
    BY <1>0, <1>10, <2>1 DEF PowerOn, FileOK, Copied, Goes
<1>11. CASE Upgrade
  <2>1. /\ First(AtInstall[box]) \notin {"reboot", "up"}
        /\ First(AtInstall[box]) = "postinst" <=> box = "caswell"
    BY <1>0, Starts DEF Boxes
  <2> QED
    BY <1>0, <1>11, <2>1 DEF Upgrade, FileOK, Copied, Goes, boot
<1>12. CASE UNCHANGED Kept
  BY <1>12 DEF Kept, FileOK, Copied
<1> QED
  BY <1>1, <1>3, <1>4, <1>5, <1>6, <1>7, <1>8, <1>9, <1>10, <1>11, <1>12,
     StepCases, MovesKeep

(* A larger partition and the restart that lets the kernel see it.         *)
LEMMA ResizeStep ==
  ASSUME PlaceOK, ResizeOK, [Next]_vars
  PROVE  ResizeOK'
<1>0. /\ box \in Boxes /\ at \in {"off", "up"} \cup Places[box]
  BY DEF PlaceOK
<1>01. at \notin {"off", "up"} => at \in Places[box]
  BY <1>0
<1>1. CASE Flash
  <2>1. Follower \in {"flash2", "resize"}
    BY <1>0, <1>01, <1>1, Follows DEF Flash
  <2> QED
    BY <1>0, <1>1, <2>1 DEF Flash, ResizeOK, Restarts, Goes, Does
<1>3. CASE Resize
  <2>1. Follower \in {"nvram", "netsettings"} /\ box \in {"linksys", "asus"}
    BY <1>0, <1>01, <1>3, Follows, PlacesAre DEF Resize, Boxes
  <2> QED
    BY <1>3, <2>1 DEF Resize, ResizeOK, Restarts, Goes, Does
<1>4. CASE Nvram
  <2>1. Follower = "netsettings"
    BY <1>0, <1>01, <1>4, Follows DEF Nvram
  <2> QED
    BY <1>4, <2>1 DEF Nvram, ResizeOK, Restarts, Goes, Does
<1>5. CASE NetSettings
  <2>1. Follower = IF box = "cloud" THEN "up" ELSE "reboot"
    BY <1>0, <1>01, <1>5, Follows DEF NetSettings
  <2> QED
    BY <1>0, <1>5, <2>1 DEF NetSettings, ResizeOK, Restarts, Goes, Does, boot
<1>6. CASE PostInst
  BY <1>0, <1>6 DEF PostInst, ResizeOK, Restarts, Goes, Does
<1>7. CASE Reboot
  <2>1. Follower = "up"
    BY <1>0, <1>01, <1>7, Follows DEF Reboot
  <2>2. Stops => ResizeOK'
    BY <1>0, <1>7, <2>1 DEF Reboot, Stops, ResizeOK, Restarts, Goes, boot
  <2> QED
    BY <1>7, <2>1, <2>2 DEF Reboot, ResizeOK, Restarts, Goes, Does, boot
<1>8. CASE resize2fs
  BY <1>8 DEF resize2fs, ResizeOK, Restarts
<1>9. CASE PowerFails
  BY <1>9 DEF PowerFails, Stops, ResizeOK, Restarts, Goes
<1>10. CASE PowerOn
  <2>1. First(AtBoot[box]) # "off"
    BY <1>0, Starts DEF Boxes
  <2> QED
    BY <1>0, <1>10, <2>1 DEF PowerOn, ResizeOK, Restarts, Goes
<1>11. CASE Upgrade
  <2>1. First(AtInstall[box]) # "off"
    BY <1>0, Starts DEF Boxes
  <2> QED
    BY <1>0, <1>11, <2>1 DEF Upgrade, ResizeOK, Restarts, Goes, boot
<1>12. CASE UNCHANGED Kept
  BY <1>12 DEF Kept, ResizeOK, Restarts
<1> QED
  BY <1>1, <1>3, <1>4, <1>5, <1>6, <1>7, <1>8, <1>9, <1>10, <1>11, <1>12,
     StepCases, MovesKeep

(* The NVRAM variables and the restart that lets the kernel see them.      *)
LEMMA NvramStep ==
  ASSUME PlaceOK, NvramOK, [Next]_vars
  PROVE  NvramOK'
<1>0. /\ box \in Boxes /\ at \in {"off", "up"} \cup Places[box]
  BY DEF PlaceOK
<1>01. at \notin {"off", "up"} => at \in Places[box]
  BY <1>0
<1>1. CASE Flash
  <2>1. Follower \in {"flash2", "resize"}
    BY <1>0, <1>01, <1>1, Follows DEF Flash
  <2> QED
    BY <1>0, <1>1, <2>1 DEF Flash, NvramOK, Restarts, Goes, Does
<1>3. CASE Resize
  <2>1. Follower = IF box = "asus" THEN "nvram" ELSE "netsettings"
    BY <1>0, <1>01, <1>3, Follows DEF Resize
  <2> QED
    BY <1>3, <2>1 DEF Resize, NvramOK, Restarts, Goes, Does
<1>4. CASE Nvram
  <2>1. Follower = "netsettings" /\ box = "asus"
    BY <1>0, <1>01, <1>4, Follows, PlacesAre DEF Nvram, Boxes
  <2> QED
    BY <1>4, <2>1 DEF Nvram, PlaceOK, NvramOK, Restarts, Goes, Does
<1>5. CASE NetSettings
  <2>1. Follower = IF box = "cloud" THEN "up" ELSE "reboot"
    BY <1>0, <1>01, <1>5, Follows DEF NetSettings
  <2> QED
    BY <1>0, <1>5, <2>1 DEF NetSettings, NvramOK, Restarts, Goes, Does, boot
<1>6. CASE PostInst
  <2>1. box = "caswell"
    BY <1>0, <1>01, <1>6, PlacesAre DEF PostInst, Boxes
  <2> QED
    BY <1>6, <2>1 DEF PostInst, NvramOK, Restarts, Goes, Does
<1>7. CASE Reboot
  <2>1. Follower = "up"
    BY <1>0, <1>01, <1>7, Follows DEF Reboot
  <2>2. Stops => NvramOK'
    BY <1>0, <1>7, <2>1 DEF Reboot, Stops, NvramOK, Restarts, Goes, boot
  <2> QED
    BY <1>7, <2>1, <2>2 DEF Reboot, NvramOK, Restarts, Goes, Does, boot
<1>8. CASE resize2fs
  BY <1>8 DEF resize2fs, NvramOK, Restarts
<1>9. CASE PowerFails
  BY <1>9 DEF PowerFails, Stops, NvramOK, Restarts, Goes
<1>10. CASE PowerOn
  <2>1. /\ First(AtBoot[box]) # "off"
        /\ box = "asus" => First(AtBoot[box]) = "resize"
        /\ First(AtBoot[box]) # "nvram"
    BY <1>0, Starts DEF Boxes
  <2> QED
    BY <1>0, <1>10, <2>1 DEF PowerOn, NvramOK, Restarts, Goes
<1>11. CASE Upgrade
  <2>1. /\ First(AtInstall[box]) # "off"
        /\ box = "asus" => First(AtInstall[box]) = "resize"
        /\ First(AtInstall[box]) # "nvram"
    BY <1>0, Starts DEF Boxes
  <2> QED
    BY <1>0, <1>11, <2>1 DEF Upgrade, NvramOK, Restarts, Goes, boot
<1>12. CASE UNCHANGED Kept
  BY <1>12 DEF Kept, NvramOK, Restarts
<1> QED
  BY <1>1, <1>3, <1>4, <1>5, <1>6, <1>7, <1>8, <1>9, <1>10, <1>11, <1>12,
     StepCases, MovesKeep

(* A change of the internal interface is one of its page's own fields.     *)
LEMMA ChangesOwn ==
  ASSUME NEW c, NEW intf, NEW step \in {"InternalNetwork", "leaving"}
  PROVE  OnlyOwn(step, page[c].base, Changed(c, intf))
<1> DEFINE old == page[c].base
           k   == FirstNonWan(old)
           new == [old EXCEPT ![k] = intf]
<1>1. Changed(c, intf) = new
  BY DEF Changed
<1>2. DOMAIN new = DOMAIN old /\ \A i \in DOMAIN old : i = k \/ new[i] = old[i]
  OBVIOUS
<1> QED
  BY <1>1, <1>2 DEF OnlyOwn

(* What the pages of the Internet and of the internal network save.        *)
WanSet(c, type, address, prefix) ==
  [page[c].base EXCEPT ![FirstWan(page[c].base)] =
                         SetWan(@, type, address, prefix)]
Old(c) == page[c].base[FirstNonWan(page[c].base)]
ToBridge(c, address) == Changed(c, Bridged(Old(c), address))
ToRouter(c, address, prefix, dhcp) ==
  Changed(c, Routed(Old(c), address, prefix, dhcp))

LEMMA InternetCases ==
  ASSUME NEW c, SaveInternet(c)
  PROVE  /\ Up /\ page[c].step = "Internet" /\ UNCHANGED host
         /\ \/ UNCHANGED <<net, wizard>>
            \/ \E type, address, prefix :
                 Write(c, WanSet(c, type, address, prefix), TRUE)
BY DEF SaveInternet, WanSet

LEMMA InternalCases ==
  ASSUME NEW c, SaveInternal(c)
  PROVE  /\ Up /\ page[c].step = "InternalNetwork"
         /\ \/ UNCHANGED <<net, wizard>>
            \/ Saves(c, page[c].base, FALSE)
            \/ \E address :
                 /\ Live(c) # Nothing
                 /\ Redirect(c, ToBridge(c, address), Live(c),
                             Address(page[c].base[FirstWan(page[c].base)])
                               # Live(c))
            \/ \E address :
                 /\ address # host[c]
                 /\ Saves(c, ToBridge(c, address),
                          address # Old(c).v4StaticAddress)
            \/ \E address, prefix, dhcp :
                 /\ address # Nothing
                 /\ IF host[c] = Old(c).v4StaticAddress /\ address # host[c]
                    THEN Redirect(c, ToRouter(c, address, prefix, dhcp),
                                  address, FALSE)
                    ELSE Saves(c, ToRouter(c, address, prefix, dhcp), FALSE)
BY DEF SaveInternal, Old, ToBridge, ToRouter

(* The saves of the wizard keep lists that have an interface.              *)
LEMMA Written ==
  ASSUME ListsOK, Up, UNCHANGED file, NEW c \in Clients, NEW list, NEW own,
         IsList(list), Write(c, list, own)
  PROVE  ListsOK'
BY DEF ListsOK, Up, Write, Close, NoPage

LEMMA Redirected ==
  ASSUME ListsOK, UNCHANGED file, NEW c \in Clients, NEW list, NEW address,
         NEW own, IsList(list), OnlyOwn("leaving", page[c].base, list),
         page[c].step # "none", Redirect(c, list, address, own)
  PROVE  ListsOK'
<1>1. /\ UNCHANGED net
      /\ page' = [page EXCEPT ![c].step = "leaving", ![c].copy = list]
  BY DEF Redirect
<1>2. /\ DOMAIN page' = Clients
      /\ \A d \in Clients \ {c} : page'[d] = page[d]
      /\ DOMAIN page'[c] = {"step", "base", "copy"}
      /\ page'[c].base = page[c].base /\ page'[c].copy = list
  BY <1>1 DEF ListsOK
<1> QED
  BY <1>1, <1>2 DEF ListsOK

LEMMA ListsMove ==
  ASSUME ListsOK, Moves
  PROVE  ListsOK'
<1>0. UNCHANGED file
  BY MovesKeep DEF Kept
<1> PICK c \in Clients : Move(c)
  BY DEF Moves
<1>1. ASSUME NEW step \in {"Interfaces", "Internet", "InternalNetwork"},
             Open(c, step)
      PROVE  ListsOK'
  BY <1>1 DEF Open, Up, ListsOK
<1>2. CASE Browse(c)
  BY <1>2 DEF Browse, ListsOK
<1>3. CASE SaveInterfaces(c)
  <2> DEFINE list == page[c].base
             j    == SelectLastInSeq(list, LAMBDA i : ~i.isVlanInterface)
             new  == [list EXCEPT ![1].physicalDev = list[j].physicalDev,
                                  ![j].physicalDev = list[1].physicalDev]
  <2>1. Up /\ page[c].step # "none" /\ Write(c, new, FALSE)
    BY <1>3 DEF SaveInterfaces
  <2>2. IsList(list)
    BY <2>1 DEF ListsOK
  <2> HIDE DEF list, j
  <2>3. IsList(new)
    BY <2>2 DEF IsList, HasDevice
  <2> HIDE DEF new
  <2> QED
    BY <1>0, <2>1, <2>3, Written
<1>4. CASE SaveInternet(c)
  <2>1. CASE UNCHANGED <<net, wizard>>
    BY <1>0, <2>1 DEF wizard, ListsOK
  <2>2. ASSUME NEW type, NEW address, NEW prefix,
               Write(c, WanSet(c, type, address, prefix), TRUE)
        PROVE  ListsOK'
    <3>1. Up /\ page[c].step = "Internet" /\ IsList(page[c].base)
      BY <1>4, InternetCases DEF ListsOK
    <3>2. IsList(WanSet(c, type, address, prefix))
      BY <3>1 DEF IsList, HasDevice, SetWan, WanSet
    <3> QED
      BY <1>0, <2>2, <3>1, <3>2, Written
  <2> QED
    BY <1>4, <2>1, <2>2, InternetCases
<1>5. CASE SaveInternal(c)
  <2>1. Up /\ page[c].step # "none" /\ IsList(page[c].base)
    BY <1>5, InternalCases DEF ListsOK
  <2>2. ASSUME NEW intf, HasDevice(Old(c)) => HasDevice(intf)
        PROVE  /\ IsList(Changed(c, intf))
               /\ OnlyOwn("leaving", page[c].base, Changed(c, intf))
    BY <2>1, <2>2, ChangesOwn DEF Changed, IsList, Old
  <2>20. ASSUME NEW address, NEW prefix, NEW dhcp, HasDevice(Old(c))
         PROVE  /\ HasDevice(Bridged(Old(c), address))
                /\ HasDevice(Routed(Old(c), address, prefix, dhcp))
    BY <2>20 DEF HasDevice, Bridged, Routed
  <2>3. ASSUME NEW list, NEW own, IsList(list), Saves(c, list, own)
        PROVE  ListsOK'
    BY <1>0, <2>1, <2>3, Written DEF Saves
  <2>4. ASSUME NEW list, NEW address, NEW own, IsList(list),
               Redirect(c, list, address, own),
               OnlyOwn("leaving", page[c].base, list)
        PROVE  ListsOK'
    BY <1>0, <2>1, <2>4, Redirected
  <2>5. CASE Saves(c, page[c].base, FALSE)
    BY <2>1, <2>3, <2>5
  <2>6. ASSUME NEW address, NEW own, NEW to,
               \/ Redirect(c, ToBridge(c, address), to, own)
               \/ Saves(c, ToBridge(c, address), own)
        PROVE  ListsOK'
    BY <2>2, <2>20, <2>3, <2>4, <2>6 DEF ToBridge
  <2>7. ASSUME NEW address, NEW prefix, NEW dhcp,
               \/ Redirect(c, ToRouter(c, address, prefix, dhcp), address,
                           FALSE)
               \/ Saves(c, ToRouter(c, address, prefix, dhcp), FALSE)
        PROVE  ListsOK'
    BY <2>2, <2>20, <2>3, <2>4, <2>7 DEF ToRouter
  <2>8. CASE UNCHANGED <<net, wizard>>
    BY <1>0, <2>8 DEF wizard, ListsOK
  <2> QED
    BY <1>5, <2>5, <2>6, <2>7, <2>8, InternalCases
<1>6. CASE Arrives(c)
  <2>1. Up /\ page[c].step = "leaving" /\ IsList(page[c].copy)
    BY <1>6 DEF Arrives, ListsOK
  <2>2. CASE Write(c, page[c].copy, FALSE)
    BY <1>0, <2>1, <2>2, Written
  <2>3. CASE Close(c) /\ UNCHANGED net
    BY <1>0, <2>3 DEF Close, NoPage, ListsOK
  <2> QED
    BY <1>6, <2>2, <2>3 DEF Arrives
<1> QED
  BY <1>1, <1>2, <1>3, <1>4, <1>5, <1>6 DEF Move

LEMMA ListsStep ==
  ASSUME PlaceOK, FileOK, ListsOK, [Next]_vars
  PROVE  ListsOK'
<1>0. IsList(Factory(box))
  BY FactoryIsList DEF PlaceOK
<1>1. ASSUME UNCHANGED <<file, net, page>> PROVE ListsOK'
  BY <1>1 DEF ListsOK
<1>2. CASE Flash \/ Resize \/ Nvram \/ resize2fs \/ PowerOn \/ Upgrade
  BY <1>1, <1>2 DEF Flash, Resize, Nvram, resize2fs, PowerOn, Upgrade, wizard
<1>3. CASE NetSettings
  BY <1>0, <1>3 DEF NetSettings, ListsOK, wizard
<1>4. CASE PostInst
  BY <1>0, <1>4 DEF PostInst, ListsOK, wizard
<1>5. ASSUME Stops PROVE ListsOK'
  BY <1>5 DEF Stops, NoPage, ListsOK
<1>6. CASE Reboot
  BY <1>1, <1>5, <1>6 DEF Reboot, wizard
<1>7. CASE PowerFails
  BY <1>5, <1>7 DEF PowerFails
<1>8. CASE UNCHANGED <<Kept, net, page>>
  BY <1>1, <1>8 DEF Kept
<1> QED
  BY <1>2, <1>3, <1>4, <1>6, <1>7, <1>8, StepCases, ListsMove

-----------------------------------------------------------------------------
(* The invariant is inductive.                                             *)
LEMMA Inductive == Spec => []IInv
<1>1. Init => IInv
  <2> SUFFICES ASSUME Init PROVE IInv
    OBVIOUS
  <2>1. box \in Boxes /\ at = First(AtInstall[box]) /\ done = 0
    BY DEF Init
  <2>2. /\ at \in {"postinst", "flash1", "resize", "netsettings"}
        /\ at \in Places[box]
        /\ at = "flash1" <=> box = "linksys"
        /\ at = "postinst" <=> box = "caswell"
        /\ at = "resize" <=> box = "asus"
    BY <2>1, Starts, PlacesAre DEF Boxes
  <2>3. PlaceOK
    BY <2>1, <2>2 DEF PlaceOK
  <2>4. FlashOK
    <3>1. /\ slots \in [1 .. 2 -> {"new", "old", "bad", "torn"}]
          /\ slots[1] \in {"new", "old"} /\ slots[2] \in {"new", "old"}
          /\ box # "linksys" => slots[1] = "new" /\ slots[2] = "new"
      BY DEF Init
    <3> QED
      BY <2>1, <2>2, <3>1 DEF FlashOK, Slot1, Slot2
  <2>5. FileOK
    BY <2>1, <2>2 DEF Init, FileOK, Copied
  <2>6. ListsOK
    BY DEF Init, ListsOK, NoPage
  <2>7. ResizeOK
    BY <2>1, <2>2 DEF Init, ResizeOK, Restarts
  <2>8. NvramOK
    BY <2>1, <2>2 DEF Init, NvramOK, Restarts
  <2> QED
    BY <2>3, <2>4, <2>5, <2>6, <2>7, <2>8 DEF IInv
<1>2. IInv /\ [Next]_vars => IInv'
  BY PlaceStep, FlashStep, FileStep, ListsStep, ResizeStep, NvramStep DEF IInv
<1> QED
  BY <1>1, <1>2, PTL DEF Spec

(* Once an appliance is up both partitions hold the kernel, unless the     *)
(* flash of that very partition was cut short; and while the second is     *)
(* written the first is whole (000flashsecondarypartition).                *)
THEOREM FlashedCorrect == Spec => []Flashed
<1>1. IInv => Flashed
  BY DEF IInv, FlashOK, Slot1, Slot2, Flashed
<1> QED
  BY <1>1, Inductive, PTL

(* An appliance that is up has its settings unless the copy was cut short, *)
(* a kernel that saw the NVRAM variables, and grows a file system only on  *)
(* a partition its kernel saw (30netsettings, 15nvram,                     *)
(* 00resizerootpartition and the postinst of the Caswell packages).        *)
THEOREM ProvisionedCorrect == Spec => []Provisioned
<1>1. ASSUME IInv PROVE Provisioned
  <2>1. net # <<>> <=> file = "whole"
    BY <1>1 DEF IInv, ListsOK, IsList
  <2>2. at = "up" => file = "whole" \/ "copy" \in interrupted
    BY <1>1 DEF IInv, FileOK, Copied
  <2>3. at = "up" /\ box = "asus" => booted = "set"
    BY <1>1 DEF IInv, NvramOK, Restarts
  <2>4. growing = 1 => mounted = "large"
    BY <1>1 DEF IInv, ResizeOK
  <2> QED
    BY <1>1, <2>1, <2>2, <2>3, <2>4 DEF IInv, PlaceOK, FileOK, Provisioned
<1> QED
  BY <1>1, Inductive, PTL

(* The lines of the scripts find no settings, or leave them alone.         *)
LEMMA ScriptsKeep ==
  ASSUME IInv, [Next]_vars, ~Moves
  PROVE  net = <<>> \/ net' = net
<1>1. CASE Flash \/ Resize \/ Nvram \/ resize2fs \/ PowerOn \/ Upgrade
  BY <1>1 DEF Flash, Resize, Nvram, resize2fs, PowerOn, Upgrade
<1>2. CASE NetSettings
  <2>1. done = 1 => net = <<>>
    BY <1>2 DEF NetSettings, IInv, FileOK, ListsOK
  <2> QED
    BY <1>2, <2>1 DEF NetSettings
<1>3. CASE PostInst
  <2>1. done \in {1, 2} => net = <<>>
    BY <1>3 DEF PostInst, IInv, FileOK, ListsOK
  <2> QED
    BY <1>3, <2>1 DEF PostInst
<1>4. CASE Reboot \/ PowerFails
  BY <1>4 DEF Reboot, PowerFails, Stops
<1>5. CASE UNCHANGED <<Kept, net, page>>
  BY <1>5
<1> QED
  BY <1>1, <1>2, <1>3, <1>4, <1>5, StepCases

(* The saves of the wizard change the fields of their page.                *)
OwnChange ==
  net # <<>> /\ net' # net =>
    \E c \in Clients : /\ page[c].step # "none" /\ page'[c].step = "none"
                       /\ OnlyOwn(page[c].step, page[c].base, net')

LEMMA SetTwice ==
  ASSUME NEW intf, NEW a, NEW b
  PROVE  [[intf EXCEPT !.physicalDev = a] EXCEPT !.physicalDev = b]
           = [intf EXCEPT !.physicalDev = b]
OBVIOUS

LEMMA MovesOwn ==
  ASSUME IInv, Moves
  PROVE  OwnChange
<1> PICK c \in Clients : Move(c)
  BY DEF Moves
<1>0. DOMAIN page = Clients
  BY DEF IInv, ListsOK
<1>1. ASSUME NEW list, NEW own, Write(c, list, own), page[c].step # "none",
             OnlyOwn(page[c].step, page[c].base, list)
      PROVE  OwnChange
  BY <1>0, <1>1 DEF Write, Close, NoPage, OwnChange
<1>2. ASSUME UNCHANGED net PROVE OwnChange
  BY <1>2 DEF OwnChange
<1>3. ASSUME NEW step \in {"Interfaces", "Internet", "InternalNetwork"},
             Open(c, step)
      PROVE  OwnChange
  BY <1>2, <1>3 DEF Open
<1>4. CASE Browse(c)
  BY <1>2, <1>4 DEF Browse
<1>5. CASE SaveInterfaces(c)
  <2> DEFINE list == page[c].base
             j    == SelectLastInSeq(list, LAMBDA i : ~i.isVlanInterface)
             new  == [list EXCEPT ![1].physicalDev = list[j].physicalDev,
                                  ![j].physicalDev = list[1].physicalDev]
  <2>1. page[c].step = "Interfaces" /\ Write(c, new, FALSE)
    BY <1>5 DEF SaveInterfaces
  <2>2. IsList(list)
    BY <2>1 DEF IInv, ListsOK
  <2> HIDE DEF list, j
  <2>3. DOMAIN new = DOMAIN list
    OBVIOUS
  <2>4. ASSUME NEW i \in DOMAIN list
        PROVE  \/ new[i] = list[i]
               \/ new[i] = [list[i] EXCEPT !.physicalDev = new[i].physicalDev]
    <3>1. HasDevice(list[i])
      BY <2>2 DEF IsList
    <3>2. CASE i # 1 /\ i # j
      BY <3>2
    <3>3. CASE i = 1 /\ i # j
      <4>1. new[i] = [list[i] EXCEPT !.physicalDev = list[j].physicalDev]
        BY <3>3
      <4> QED
        BY <3>1, <4>1 DEF HasDevice
    <3>4. CASE i = j
      <4>1. new[i] = [list[i] EXCEPT !.physicalDev = list[1].physicalDev]
        BY <3>4, SetTwice
      <4> QED
        BY <3>1, <4>1 DEF HasDevice
    <3> QED
      BY <3>2, <3>3, <3>4
  <2> HIDE DEF new
  <2>5. OnlyOwn("Interfaces", list, new)
    BY <2>3, <2>4 DEF OnlyOwn
  <2> QED
    BY <1>1, <2>1, <2>5 DEF list
<1>6. CASE SaveInternet(c)
  <2>1. ASSUME NEW type, NEW address, NEW prefix,
               Write(c, WanSet(c, type, address, prefix), TRUE)
        PROVE  OwnChange
    <3> DEFINE new == WanSet(c, type, address, prefix)
    <3>1. /\ DOMAIN new = DOMAIN page[c].base
          /\ \A i \in DOMAIN page[c].base :
               i = FirstWan(page[c].base) \/ new[i] = page[c].base[i]
      BY DEF WanSet
    <3> HIDE DEF new
    <3>2. OnlyOwn("Internet", page[c].base, new)
      BY <3>1 DEF OnlyOwn
    <3>3. page[c].step = "Internet"
      BY <1>6, InternetCases
    <3>4. Write(c, new, TRUE)
      BY <2>1 DEF new
    <3> QED
      BY <1>1, <3>2, <3>3, <3>4
  <2>2. CASE UNCHANGED <<net, wizard>>
    BY <1>2, <2>2
  <2> QED
    BY <1>6, <2>1, <2>2, InternetCases
<1>7. CASE SaveInternal(c)
  <2>1. page[c].step = "InternalNetwork"
    BY <1>7, InternalCases
  <2>2. \/ UNCHANGED net
        \/ Write(c, page[c].base, FALSE)
        \/ \E intf, own : Write(c, Changed(c, intf), own)
    BY <1>7, InternalCases DEF Saves, Redirect, ToBridge, ToRouter
  <2>3. OnlyOwn("InternalNetwork", page[c].base, page[c].base)
    BY DEF OnlyOwn
  <2>4. ASSUME NEW intf, NEW own, Write(c, Changed(c, intf), own)
        PROVE  OwnChange
    BY <1>1, <2>1, <2>4, ChangesOwn
  <2> QED
    BY <1>1, <1>2, <2>1, <2>2, <2>3, <2>4
<1>8. CASE Arrives(c)
  <2>1. page[c].step = "leaving"
    BY <1>8 DEF Arrives
  <2>2. OnlyOwn("leaving", page[c].base, page[c].copy)
    BY <2>1 DEF IInv, ListsOK
  <2> QED
    BY <1>1, <1>2, <1>8, <2>1, <2>2 DEF Arrives
<1> QED
  BY <1>3, <1>4, <1>5, <1>6, <1>7, <1>8 DEF Move

(* Saved settings change only by a page of the wizard and in its fields of *)
(* what it loaded: no boot, upgrade or power failure resets them           *)
(* (30netsettings copies only where no file is, the postinst only before   *)
(* its flag is there).                                                     *)
THEOREM OwnFieldsCorrect == Spec => OwnFields
<1>1. IInv /\ [Next]_vars => [OwnChange]_vars
  BY ScriptsKeep, MovesOwn DEF OwnChange
<1> QED
  BY <1>1, Inductive, PTL DEF Spec, OwnFields, OwnChange
(* The rules of all appliances.                                            *)
AllRules ==
  {Off(SSH), V4(SSH), Off(HTTPSWan), V4(HTTPSWan), HTTPS, Off(RADIUSWan),
   RADIUS, PING, DNS, DHCP, HTTP, SNMP, UPnP, UPnPTcp, UPnPPmp, BGP, OSPF,
   IPsec, IKE, NATT, L2TP, OpenVPN, WireGuard, BlockAll}
Service(s) == s \in Services \cup {<<443, "TCP">>}

(* A rule lets no service but the administration in from the WAN.          *)
LEMMA RuleCloses ==
  ASSUME NEW rule \in AllRules, ~rule.blocked, NEW s \in Services,
         NEW v6 \in BOOLEAN
  PROVE  ~Matches(rule, Packet(s[1], s[2], "wan", v6))
<1> DEFINE p == Packet(s[1], s[2], "wan", v6)
<1>1. /\ p.port \in {53, 67, 80} /\ p.protocol \in {"TCP", "UDP"}
      /\ p.source = "wan"
  BY DEF Services, Packet
<1> HIDE DEF p
<1>2. \A r : ~Matches(Off(r), p) /\ (Matches(V4(r), p) => Matches(r, p))
  BY DEF Off, V4, Matches
<1>3. ASSUME NEW ports, NEW protocols, NEW source,
             Matches(Allow(ports, protocols, source), p)
      PROVE  /\ ports = {} \/ p.port \in ports
             /\ protocols = {} \/ p.protocol \in protocols
             /\ source \in {"any", "wan"}
  BY <1>1, <1>3 DEF Matches, Allow
<1>4. /\ ~Matches(SSH, p) /\ ~Matches(HTTPSWan, p) /\ ~Matches(PING, p)
      /\ ~Matches(BGP, p) /\ ~Matches(OSPF, p) /\ ~Matches(IPsec, p)
      /\ ~Matches(IKE, p) /\ ~Matches(NATT, p) /\ ~Matches(L2TP, p)
      /\ ~Matches(OpenVPN, p) /\ ~Matches(WireGuard, p)
  BY <1>1, <1>3 DEF SSH, HTTPSWan, PING, BGP, OSPF, IPsec, IKE, NATT, L2TP,
                    OpenVPN, WireGuard
<1>5. /\ ~Matches(HTTPS, p) /\ ~Matches(RADIUS, p) /\ ~Matches(DNS, p)
      /\ ~Matches(DHCP, p) /\ ~Matches(HTTP, p) /\ ~Matches(SNMP, p)
      /\ ~Matches(UPnP, p) /\ ~Matches(UPnPTcp, p) /\ ~Matches(UPnPPmp, p)
  BY <1>3 DEF HTTPS, RADIUS, DNS, DHCP, HTTP, SNMP, UPnP, UPnPTcp, UPnPPmp
<1>6. BlockAll.blocked
  BY DEF BlockAll, Allow
<1> QED
  BY <1>2, <1>4, <1>5, <1>6 DEF AllRules, p

LEMMA RulesClosed ==
  ASSUME NEW rules \in Seq(AllRules), NEW s \in Services, NEW v6 \in BOOLEAN
  PROVE  ~Admitted(rules, Packet(s[1], s[2], "wan", v6))
BY RuleCloses DEF Admitted

(* A list of rules that begins as those of all appliances but Caswell do;  *)
(* what comes after does not matter.                                       *)
Opening(rules, ssh, https) ==
  /\ rules \in Seq(AllRules) /\ Len(rules) >= 8
  /\ rules[1] = ssh /\ rules[2] = https /\ rules[3] = HTTPS /\ rules[4] = PING
  /\ rules[5] = DNS /\ rules[6] = DHCP /\ rules[7] = HTTP

LEMMA OpeningGrows ==
  ASSUME NEW rules, NEW ssh, NEW https, Opening(rules, ssh, https),
         NEW rest \in Seq(AllRules)
  PROVE  Opening(rules \o rest, ssh, https)
<1>1. /\ rules \in Seq(AllRules) /\ Len(rules) >= 8
      /\ Len(rules) \in Nat /\ Len(rest) \in Nat
  BY LenProperties DEF Opening
<1>2. /\ rules \o rest \in Seq(AllRules)
      /\ Len(rules \o rest) = Len(rules) + Len(rest)
      /\ \A i \in 1 .. Len(rules) + Len(rest) : (rules \o rest)[i] =
           IF i <= Len(rules) THEN rules[i] ELSE rest[i - Len(rules)]
  BY <1>1, ConcatProperties
<1>3. \A i \in 1 .. 7 : i \in 1 .. Len(rules) + Len(rest) /\ i <= Len(rules)
  BY <1>1
<1>4. \A i \in 1 .. 7 : (rules \o rest)[i] = rules[i]
  BY <1>2, <1>3
<1> DEFINE all == rules \o rest
<1>5. /\ all \in Seq(AllRules) /\ Len(all) >= 8
      /\ \A i \in 1 .. 7 : all[i] = rules[i]
  BY <1>1, <1>2, <1>4
<1> HIDE DEF all
<1>6. Opening(all, ssh, https)
  BY <1>5 DEF Opening
<1> QED
  BY <1>6 DEF all

LEMMA RulesBegin ==
  ASSUME NEW ssh \in AllRules, NEW https \in AllRules
  PROVE  Opening(<<ssh, https, HTTPS, PING>> \o <<DNS, DHCP, HTTP, SNMP>>,
                 ssh, https)
<1> DEFINE s == <<ssh, https, HTTPS, PING>>
           t == <<DNS, DHCP, HTTP, SNMP>>
           all == s \o t
<1>1. {HTTPS, PING, DNS, DHCP, HTTP, SNMP} \subseteq AllRules
  BY DEF AllRules
<1>2. /\ s \in Seq(AllRules) /\ t \in Seq(AllRules)
  BY <1>1
<1>3. /\ Len(s) = 4 /\ s[1] = ssh /\ s[2] = https /\ s[3] = HTTPS /\ s[4] = PING
      /\ Len(t) = 4 /\ t[1] = DNS /\ t[2] = DHCP /\ t[3] = HTTP
  OBVIOUS
<1> HIDE DEF s, t
<1>4. /\ s \o t \in Seq(AllRules) /\ Len(s \o t) = Len(s) + Len(t)
      /\ \A i \in 1 .. Len(s) + Len(t) :
           (s \o t)[i] = IF i <= Len(s) THEN s[i] ELSE t[i - Len(s)]
  BY <1>2, ConcatProperties
<1>5. /\ all \in Seq(AllRules) /\ Len(all) = 8
      /\ \A i \in 1 .. 8 : all[i] = IF i <= 4 THEN s[i] ELSE t[i - 4]
  BY <1>3, <1>4
<1> HIDE DEF all
<1>6. Opening(all, ssh, https)
  BY <1>3, <1>5 DEF Opening
<1> QED
  BY <1>6 DEF all, s, t

(* The rules that come before those of the services let nothing else in.   *)
LEMMA RuleOpens ==
  ASSUME NEW s, Service(s), NEW v6 \in BOOLEAN
  PROVE  LET p == Packet(s[1], s[2], "non_wan", v6)
         IN  /\ \A rule : ~Matches(Off(rule), p)
             /\ ~Matches(V4(SSH), p) /\ ~Matches(V4(HTTPSWan), p)
             /\ ~Matches(RADIUS, p) /\ ~Matches(PING, p)
             /\ Matches(HTTPS, p) <=> s[1] = 443
             /\ Matches(DNS, p) <=> s[1] = 53
             /\ Matches(DHCP, p) <=> s[1] = 67
             /\ Matches(HTTP, p) <=> s[1] = 80
             /\ s[1] \in {443, 53, 67, 80}
             /\ ~HTTPS.blocked /\ ~DNS.blocked /\ ~DHCP.blocked
             /\ ~HTTP.blocked
<1> DEFINE p == Packet(s[1], s[2], "non_wan", v6)
<1>1. /\ p.port = s[1] /\ p.source = "non_wan"
      /\ <<s[1], p.protocol>> \in {<<443, "TCP">>, <<53, "UDP">>, <<53, "TCP">>,
                                   <<67, "UDP">>, <<80, "TCP">>}
  BY DEF Service, Services, Packet
<1> HIDE DEF p
<1>2. \A r : ~Matches(Off(r), p) /\ (Matches(V4(r), p) => Matches(r, p))
  BY DEF Off, V4, Matches
<1>3. ASSUME NEW ports, NEW protocols, NEW source
      PROVE  Matches(Allow(ports, protocols, source), p) <=>
               /\ ports = {} \/ p.port \in ports
               /\ protocols = {} \/ p.protocol \in protocols
               /\ source \in {"any", "non_wan"}
  BY <1>1, <1>3 DEF Matches, Allow
<1>4. /\ ~Matches(SSH, p) /\ ~Matches(HTTPSWan, p) /\ ~Matches(PING, p)
      /\ ~Matches(RADIUS, p)
  BY <1>1, <1>3 DEF SSH, HTTPSWan, PING, RADIUS
<1>5. /\ Matches(HTTPS, p) <=> s[1] = 443
      /\ Matches(DNS, p) <=> s[1] = 53
      /\ Matches(DHCP, p) <=> s[1] = 67
      /\ Matches(HTTP, p) <=> s[1] = 80
      /\ s[1] \in {443, 53, 67, 80}
  BY <1>1, <1>3 DEF HTTPS, DNS, DHCP, HTTP
<1>6. ~HTTPS.blocked /\ ~DNS.blocked /\ ~DHCP.blocked /\ ~HTTP.blocked
  BY DEF HTTPS, DNS, DHCP, HTTP, Allow
<1> QED
  BY <1>2, <1>4, <1>5, <1>6 DEF p

LEMMA EightOpen ==
  ASSUME NEW rules, NEW ssh \in {Off(SSH), V4(SSH)},
         NEW https \in {Off(HTTPSWan), V4(HTTPSWan)},
         Opening(rules, ssh, https), NEW s, Service(s), NEW v6 \in BOOLEAN
  PROVE  Admitted(rules, Packet(s[1], s[2], "non_wan", v6))
<1>0. {1, 2, 3, 4, 5, 6, 7, 8} \subseteq DOMAIN rules
  BY LenProperties DEF Opening
<1> DEFINE p == Packet(s[1], s[2], "non_wan", v6)
<1>1. /\ \A i \in 1 .. 2 : ~Matches(rules[i], p)
      /\ ~Matches(rules[4], p)
      /\ Matches(rules[3], p) <=> s[1] = 443
      /\ Matches(rules[5], p) <=> s[1] = 53
      /\ Matches(rules[6], p) <=> s[1] = 67
      /\ Matches(rules[7], p) <=> s[1] = 80
      /\ s[1] \in {443, 53, 67, 80}
      /\ ~rules[3].blocked /\ ~rules[5].blocked /\ ~rules[6].blocked
      /\ ~rules[7].blocked
  BY RuleOpens DEF Opening
<1> HIDE DEF p
<1>2. ASSUME NEW i \in {3, 5, 6, 7}, Matches(rules[i], p), ~rules[i].blocked,
             \A j \in {1, 2, 3, 4, 5, 6} : j < i => ~Matches(rules[j], p)
      PROVE  Admitted(rules, p)
  <2>1. \A j \in 1 .. i - 1 : j \in {1, 2, 3, 4, 5, 6} /\ j < i
    OBVIOUS
  <2> QED
    BY <1>0, <1>2, <2>1 DEF Admitted
<1>3. CASE s[1] = 443
  <2>1. /\ Matches(rules[3], p)
        /\ \A j \in {1, 2, 3, 4, 5, 6} : j < 3 => ~Matches(rules[j], p)
    BY <1>1, <1>3
  <2> QED
    BY <1>1, <1>2, <2>1 DEF p
<1>4. CASE s[1] = 53
  <2>1. /\ Matches(rules[5], p)
        /\ \A j \in {1, 2, 3, 4, 5, 6} : j < 5 => ~Matches(rules[j], p)
    BY <1>1, <1>4
  <2> QED
    BY <1>1, <1>2, <2>1 DEF p
<1>5. CASE s[1] = 67
  <2>1. /\ Matches(rules[6], p)
        /\ \A j \in {1, 2, 3, 4, 5, 6} : j < 6 => ~Matches(rules[j], p)
    BY <1>1, <1>5
  <2> QED
    BY <1>1, <1>2, <2>1 DEF p
<1>6. CASE s[1] = 80
  <2>1. /\ Matches(rules[7], p)
        /\ \A j \in {1, 2, 3, 4, 5, 6} : j < 7 => ~Matches(rules[j], p)
    BY <1>1, <1>6
  <2> QED
    BY <1>1, <1>2, <2>1 DEF p
<1> QED
  BY <1>1, <1>3, <1>4, <1>5, <1>6 DEF p

LEMMA CaswellOpen ==
  ASSUME NEW s, Service(s), NEW v6 \in BOOLEAN
  PROVE  Admitted(CaswellRules, Packet(s[1], s[2], "non_wan", v6))
<1> DEFINE p == Packet(s[1], s[2], "non_wan", v6)
           rules == CaswellRules
<1>1. /\ {1, 2, 3, 4, 5, 6, 7, 8, 9} \subseteq DOMAIN rules
      /\ rules[1] = Off(SSH) /\ rules[2] = Off(HTTPSWan)
      /\ rules[3] = HTTPS /\ rules[4] = Off(RADIUSWan)
      /\ rules[5] = RADIUS /\ rules[6] = PING
      /\ rules[7] = DNS /\ rules[8] = DHCP /\ rules[9] = HTTP
  BY DEF CaswellRules
<1> HIDE DEF rules
<1>2. /\ \A i \in {1, 2, 4, 5, 6} : ~Matches(rules[i], p)
      /\ Matches(rules[3], p) <=> s[1] = 443
      /\ Matches(rules[7], p) <=> s[1] = 53
      /\ Matches(rules[8], p) <=> s[1] = 67
      /\ Matches(rules[9], p) <=> s[1] = 80
      /\ s[1] \in {443, 53, 67, 80}
      /\ ~rules[3].blocked /\ ~rules[7].blocked /\ ~rules[8].blocked
      /\ ~rules[9].blocked
  BY <1>1, RuleOpens
<1> HIDE DEF p
<1>3. ASSUME NEW i \in {3, 7, 8, 9}, Matches(rules[i], p), ~rules[i].blocked,
             \A j \in {1, 2, 3, 4, 5, 6, 7, 8} : j < i => ~Matches(rules[j], p)
      PROVE  Admitted(rules, p)
  <2>1. \A j \in 1 .. i - 1 : j \in {1, 2, 3, 4, 5, 6, 7, 8} /\ j < i
    OBVIOUS
  <2> QED
    BY <1>1, <1>3, <2>1 DEF Admitted
<1>4. ASSUME s[1] = 443 PROVE Admitted(rules, p)
  <2>1. /\ Matches(rules[3], p)
        /\ \A j \in {1, 2, 3, 4, 5, 6, 7, 8} : j < 3 => ~Matches(rules[j], p)
    BY <1>2, <1>4
  <2> QED
    BY <1>2, <1>3, <2>1
<1>5. ASSUME s[1] = 53 PROVE Admitted(rules, p)
  <2>1. /\ Matches(rules[7], p)
        /\ \A j \in {1, 2, 3, 4, 5, 6, 7, 8} : j < 7 => ~Matches(rules[j], p)
    BY <1>2, <1>5
  <2> QED
    BY <1>2, <1>3, <2>1
<1>6. ASSUME s[1] = 67 PROVE Admitted(rules, p)
  <2>1. /\ Matches(rules[8], p)
        /\ \A j \in {1, 2, 3, 4, 5, 6, 7, 8} : j < 8 => ~Matches(rules[j], p)
    BY <1>2, <1>6
  <2> QED
    BY <1>2, <1>3, <2>1
<1>7. ASSUME s[1] = 80 PROVE Admitted(rules, p)
  <2>1. /\ Matches(rules[9], p)
        /\ \A j \in {1, 2, 3, 4, 5, 6, 7, 8} : j < 9 => ~Matches(rules[j], p)
    BY <1>2, <1>7
  <2> QED
    BY <1>2, <1>3, <2>1
<1>8. Admitted(rules, p)
  BY <1>2, <1>4, <1>5, <1>6, <1>7
<1> QED
  BY <1>8 DEF p, rules

(* The administration from the WAN, where the second rule lets it in.      *)
LEMMA AdminOpen ==
  ASSUME NEW rules, Opening(rules, V4(SSH), V4(HTTPSWan))
  PROVE  Admitted(rules, Packet(443, "TCP", "wan", FALSE))
<1> DEFINE w == Packet(443, "TCP", "wan", FALSE)
<1>1. ~Matches(V4(SSH), w) /\ Matches(V4(HTTPSWan), w) /\ ~V4(HTTPSWan).blocked
  BY DEF Matches, V4, SSH, HTTPSWan, Allow, Packet
<1> HIDE DEF w
<1>2. 2 \in DOMAIN rules /\ rules[1] = V4(SSH) /\ rules[2] = V4(HTTPSWan)
  BY LenProperties DEF Opening
<1>3. \A j \in 1 .. 2 - 1 : j = 1
  OBVIOUS
<1>4. Admitted(rules, w)
  BY <1>1, <1>2, <1>3 DEF Admitted
<1> QED
  BY <1>4 DEF w

LEMMA RulesOpen ==
  ASSUME NEW b \in Boxes
  PROVE  /\ Rules(b) \in Seq(AllRules)
         /\ b \in {"cloud", "turris"} =>
              Opening(Rules(b), V4(SSH), V4(HTTPSWan))
         /\ b \in {"linksys", "asus"} =>
              Opening(Rules(b), Off(SSH), Off(HTTPSWan))
<1>1. {Off(SSH), V4(SSH), Off(HTTPSWan), V4(HTTPSWan), HTTPS, Off(RADIUSWan),
       RADIUS, PING, DNS, DHCP, HTTP, SNMP, UPnP, UPnPTcp, UPnPPmp, BGP, OSPF,
       IPsec, IKE, NATT, L2TP, OpenVPN, WireGuard, BlockAll} \subseteq AllRules
  BY DEF AllRules
<1>2. ASSUME b = "caswell" PROVE Rules(b) \in Seq(AllRules)
  <2>1. CaswellRules \in Seq(AllRules)
    BY <1>1 DEF CaswellRules
  <2> QED
    BY <1>2, <2>1 DEF Rules
<1>3. ASSUME b = "cloud" PROVE Opening(Rules(b), V4(SSH), V4(HTTPSWan))
  <2>1. Opening(CloudAdmin \o CloudServices, V4(SSH), V4(HTTPSWan))
    BY <1>1, RulesBegin DEF CloudAdmin, CloudServices
  <2>2. /\ CloudUPnP \in Seq(AllRules) /\ CloudVpn \in Seq(AllRules)
        /\ <<BlockAll>> \in Seq(AllRules)
    BY <1>1 DEF CloudUPnP, CloudVpn
  <2>3. Opening(CloudRules, V4(SSH), V4(HTTPSWan))
    BY <2>1, <2>2, OpeningGrows DEF CloudRules
  <2> QED
    BY <1>3, <2>3 DEF Rules
<1>4. ASSUME b = "linksys" PROVE Opening(Rules(b), Off(SSH), Off(HTTPSWan))
  <2>1. Opening(LinksysAdmin \o LinksysServices, Off(SSH), Off(HTTPSWan))
    BY <1>1, RulesBegin DEF LinksysAdmin, LinksysServices
  <2>2. LinksysVpn \in Seq(AllRules)
    BY <1>1 DEF LinksysVpn
  <2>3. Opening(LinksysRules, Off(SSH), Off(HTTPSWan))
    BY <2>1, <2>2, OpeningGrows DEF LinksysRules
  <2> QED
    BY <1>4, <2>3 DEF Rules
<1>5. ASSUME b = "turris" PROVE Opening(Rules(b), V4(SSH), V4(HTTPSWan))
  <2>1. Opening(TurrisAdmin \o TurrisServices, V4(SSH), V4(HTTPSWan))
    BY <1>1, RulesBegin DEF TurrisAdmin, TurrisServices
  <2>2. TurrisVpn \in Seq(AllRules)
    BY <1>1 DEF TurrisVpn
  <2>3. Opening(TurrisRules, V4(SSH), V4(HTTPSWan))
    BY <2>1, <2>2, OpeningGrows DEF TurrisRules
  <2> QED
    BY <1>5, <2>3 DEF Rules
<1>6. ASSUME b = "asus" PROVE Opening(Rules(b), Off(SSH), Off(HTTPSWan))
  <2>1. Opening(AsusAdmin \o AsusServices, Off(SSH), Off(HTTPSWan))
    BY <1>1, RulesBegin DEF AsusAdmin, AsusServices
  <2>2. AsusVpn \in Seq(AllRules) /\ AsusLast \in Seq(AllRules)
    BY <1>1 DEF AsusVpn, AsusLast
  <2>3. Opening(AsusRules, Off(SSH), Off(HTTPSWan))
    BY <2>1, <2>2, OpeningGrows DEF AsusRules
  <2> QED
    BY <1>6, <2>3 DEF Rules
<1> QED
  BY <1>2, <1>3, <1>4, <1>5, <1>6 DEF Boxes, Opening
-----------------------------------------------------------------------------
(* How many interfaces each appliance has, which one is its WAN, and which *)
(* one the wizard takes for the internal one (0 for none).                 *)
Size  == [caswell |-> 8, cloud |-> 1, linksys |-> 4, turris |-> 5, asus |-> 5]
Outer == [caswell |-> 1, cloud |-> 1, linksys |-> 1, turris |-> 1, asus |-> 2]
Inner == [caswell |-> 2, cloud |-> 0, linksys |-> 2, turris |-> 2, asus |-> 1]

Fields == {"interfaceId", "physicalDev", "symbolicDev", "configType",
           "bridgedTo", "isWan", "isWirelessInterface", "isVlanInterface",
           "v4ConfigType", "v4StaticAddress", "v4StaticPrefix", "dhcpType",
           "dhcpRangeStart", "dhcpRangeEnd"}

(* What no page of the wizard changes, what only those of the Internet and *)
(* the internal network change, and what becomes of it there: the WAN has  *)
(* no range; an internal interface that is routed has the factory's subnet *)
(* and range, or no range, and its own address.                            *)
SamePlace(intf, old) ==
  /\ DOMAIN intf = Fields
  /\ intf.interfaceId = old.interfaceId /\ intf.bridgedTo = old.bridgedTo
  /\ intf.isWan = old.isWan
SameRange(intf, old) ==
  /\ intf.v4StaticAddress = old.v4StaticAddress
  /\ intf.v4StaticPrefix = old.v4StaticPrefix
  /\ intf.dhcpRangeStart = old.dhcpRangeStart
  /\ intf.dhcpRangeEnd = old.dhcpRangeEnd
InnerLike(intf, old) ==
  /\ intf.configType \in {"ADDRESSED", "BRIDGED", old.configType}
  /\ intf.configType = "ADDRESSED" =>
       /\ intf.v4ConfigType = "STATIC"
       /\ \/ SameRange(intf, old)
          \/ intf.dhcpRangeStart = Nothing /\ intf.dhcpRangeEnd = Nothing

(* A list of n interfaces.                                                 *)
Of(list, n) == list = [i \in 1 .. n |-> list[i]]

(* A list the wizard may have made of the factory settings of a box.       *)
ItemLike(b, i, intf) ==
  /\ SamePlace(intf, Factory(b)[i])
  /\ IF i = Inner[b] THEN InnerLike(intf, Factory(b)[i])
     ELSE /\ intf.configType = Factory(b)[i].configType
          /\ IF i = Outer[b] THEN intf.dhcpRangeStart = Nothing
             ELSE SameRange(intf, Factory(b)[i])
Like(b, list) ==
  Of(list, Size[b]) /\ \A i \in 1 .. Size[b] : ItemLike(b, i, list[i])

(* The settings, and what the browsers loaded and are about to save, are   *)
(* such lists.                                                             *)
LikeOK ==
  /\ file = "whole" => Like(box, net)
  /\ \A c \in Clients : /\ page[c].step # "none" => Like(box, page[c].base)
                        /\ page[c].step = "leaving" => Like(box, page[c].copy)

(* The address a browser uses answers in what it loaded, and once it was   *)
(* led elsewhere in what it saves; without settings no browser has left    *)
(* the WAN.  The page of the internal network is there when that is.       *)
Found1(c) == \/ page[c].step = "leaving" \/ c \in excused
             \/ Answers(net, host[c])
HostOK ==
  /\ DOMAIN host = Clients
  /\ \A c \in Clients :
       /\ IF file = "whole" THEN Found1(c)
          ELSE page[c].step = "none" /\ host[c] = Given("AUTO")
       /\ page[c].step \notin {"none", "leaving"} =>
            Answers(page[c].base, host[c])
       /\ page[c].step = "leaving" =>
            c \in excused \/ Answers(page[c].copy, host[c])
       /\ page[c].step = "InternalNetwork" => Inner[box] # 0
-----------------------------------------------------------------------------
(* Short sequences joined are one.                                         *)
LEMMA Tuple22 ==
  ASSUME NEW x1, NEW x2, NEW y1, NEW y2
  PROVE  <<x1, x2>> \o <<y1, y2>>
           = <<x1, x2, y1, y2>>
<1> DEFINE S == {x1, x2, y1, y2}
           s == <<x1, x2>>
           t == <<y1, y2>>
           u == <<x1, x2, y1, y2>>
<1>1. /\ s \in Seq(S) /\ t \in Seq(S) /\ u \in Seq(S)
      /\ Len(s) = 2 /\ Len(t) = 2 /\ Len(u) = 4
      /\ \A i \in 1 .. 4 : u[i] = IF i <= 2 THEN s[i] ELSE t[i - 2]
  OBVIOUS
<1> HIDE DEF S, s, t, u
<1>2. /\ s \o t \in Seq(S) /\ Len(s \o t) = Len(s) + Len(t)
      /\ \A i \in 1 .. Len(s) + Len(t) :
           (s \o t)[i] = IF i <= Len(s) THEN s[i] ELSE t[i - Len(s)]
  BY <1>1, ConcatProperties
<1>3. /\ s \o t \in Seq(S) /\ Len(s \o t) = Len(u)
      /\ \A i \in 1 .. Len(s \o t) : (s \o t)[i] = u[i]
  BY <1>1, <1>2
<1>4. s \o t = u
  BY <1>1, <1>3, SeqEqual
<1> QED
  BY <1>4 DEF s, t, u

LEMMA Tuple42 ==
  ASSUME NEW x1, NEW x2, NEW x3, NEW x4, NEW y1, NEW y2
  PROVE  <<x1, x2, x3, x4>> \o <<y1, y2>>
           = <<x1, x2, x3, x4, y1, y2>>
<1> DEFINE S == {x1, x2, x3, x4, y1, y2}
           s == <<x1, x2, x3, x4>>
           t == <<y1, y2>>
           u == <<x1, x2, x3, x4, y1, y2>>
<1>1. /\ s \in Seq(S) /\ t \in Seq(S) /\ u \in Seq(S)
      /\ Len(s) = 4 /\ Len(t) = 2 /\ Len(u) = 6
      /\ \A i \in 1 .. 6 : u[i] = IF i <= 4 THEN s[i] ELSE t[i - 4]
  OBVIOUS
<1> HIDE DEF S, s, t, u
<1>2. /\ s \o t \in Seq(S) /\ Len(s \o t) = Len(s) + Len(t)
      /\ \A i \in 1 .. Len(s) + Len(t) :
           (s \o t)[i] = IF i <= Len(s) THEN s[i] ELSE t[i - Len(s)]
  BY <1>1, ConcatProperties
<1>3. /\ s \o t \in Seq(S) /\ Len(s \o t) = Len(u)
      /\ \A i \in 1 .. Len(s \o t) : (s \o t)[i] = u[i]
  BY <1>1, <1>2
<1>4. s \o t = u
  BY <1>1, <1>3, SeqEqual
<1> QED
  BY <1>4 DEF s, t, u

LEMMA Tuple62 ==
  ASSUME NEW x1, NEW x2, NEW x3, NEW x4, NEW x5, NEW x6, NEW y1, NEW y2
  PROVE  <<x1, x2, x3, x4, x5, x6>> \o <<y1, y2>>
           = <<x1, x2, x3, x4, x5, x6, y1, y2>>
<1> DEFINE S == {x1, x2, x3, x4, x5, x6, y1, y2}
           s == <<x1, x2, x3, x4, x5, x6>>
           t == <<y1, y2>>
           u == <<x1, x2, x3, x4, x5, x6, y1, y2>>
<1>1. /\ s \in Seq(S) /\ t \in Seq(S) /\ u \in Seq(S)
      /\ Len(s) = 6 /\ Len(t) = 2 /\ Len(u) = 8
      /\ \A i \in 1 .. 8 : u[i] = IF i <= 6 THEN s[i] ELSE t[i - 6]
  OBVIOUS
<1> HIDE DEF S, s, t, u
<1>2. /\ s \o t \in Seq(S) /\ Len(s \o t) = Len(s) + Len(t)
      /\ \A i \in 1 .. Len(s) + Len(t) :
           (s \o t)[i] = IF i <= Len(s) THEN s[i] ELSE t[i - Len(s)]
  BY <1>1, ConcatProperties
<1>3. /\ s \o t \in Seq(S) /\ Len(s \o t) = Len(u)
      /\ \A i \in 1 .. Len(s \o t) : (s \o t)[i] = u[i]
  BY <1>1, <1>2
<1>4. s \o t = u
  BY <1>1, <1>3, SeqEqual
<1> QED
  BY <1>4 DEF s, t, u

LEMMA Tuple32 ==
  ASSUME NEW x1, NEW x2, NEW x3, NEW y1, NEW y2
  PROVE  <<x1, x2, x3>> \o <<y1, y2>>
           = <<x1, x2, x3, y1, y2>>
<1> DEFINE S == {x1, x2, x3, y1, y2}
           s == <<x1, x2, x3>>
           t == <<y1, y2>>
           u == <<x1, x2, x3, y1, y2>>
<1>1. /\ s \in Seq(S) /\ t \in Seq(S) /\ u \in Seq(S)
      /\ Len(s) = 3 /\ Len(t) = 2 /\ Len(u) = 5
      /\ \A i \in 1 .. 5 : u[i] = IF i <= 3 THEN s[i] ELSE t[i - 3]
  OBVIOUS
<1> HIDE DEF S, s, t, u
<1>2. /\ s \o t \in Seq(S) /\ Len(s \o t) = Len(s) + Len(t)
      /\ \A i \in 1 .. Len(s) + Len(t) :
           (s \o t)[i] = IF i <= Len(s) THEN s[i] ELSE t[i - Len(s)]
  BY <1>1, ConcatProperties
<1>3. /\ s \o t \in Seq(S) /\ Len(s \o t) = Len(u)
      /\ \A i \in 1 .. Len(s \o t) : (s \o t)[i] = u[i]
  BY <1>1, <1>2
<1>4. s \o t = u
  BY <1>1, <1>3, SeqEqual
<1> QED
  BY <1>4 DEF s, t, u

(* The interfaces of each appliance, one by one.                           *)
LEMMA FactoryIs ==
  /\ Factory("caswell") =
       <<CaswellInternet, CaswellInternal,
         Member(3, "eth2", "br.eth1", 2), Member(4, "eth3", "br.eth1", 2),
         Member(5, "eth4", "br.eth1", 2), Member(6, "eth5", "br.eth1", 2),
         Member(7, "eth6", "br.eth1", 2), Member(8, "eth7", "br.eth1", 2)>>
  /\ Factory("cloud") = <<Wan(1, "eth0", "eth0")>>
  /\ Factory("linksys") =
       <<LinksysWired[1], LinksysWired[2], LinksysWireless[1],
         LinksysWireless[2]>>
  /\ Factory("turris") =
       <<TurrisWired[1], TurrisWired[2], TurrisWired[3], TurrisWireless[1],
         TurrisWireless[2]>>
  /\ Factory("asus") =
       <<AsusWired[1], AsusWired[2], AsusWired[3], AsusWireless[1],
         AsusWireless[2]>>
<1>1. Factory("caswell") = CaswellInterfaces
  BY DEF Factory
<1>2. Factory("cloud") = CloudInterfaces
  BY DEF Factory
<1>3. Factory("linksys") = LinksysInterfaces
  BY DEF Factory
<1>4. Factory("turris") = TurrisInterfaces
  BY DEF Factory
<1>5. Factory("asus") = AsusInterfaces
  BY DEF Factory
<1>6. LinksysWired = <<LinksysWired[1], LinksysWired[2]>>
  BY DEF LinksysWired
<1>7. LinksysWireless = <<LinksysWireless[1], LinksysWireless[2]>>
  BY DEF LinksysWireless
<1>8. TurrisWired = <<TurrisWired[1], TurrisWired[2], TurrisWired[3]>>
  BY DEF TurrisWired
<1>9. TurrisWireless = <<TurrisWireless[1], TurrisWireless[2]>>
  BY DEF TurrisWireless
<1>10. AsusWired = <<AsusWired[1], AsusWired[2], AsusWired[3]>>
  BY DEF AsusWired
<1>11. AsusWireless = <<AsusWireless[1], AsusWireless[2]>>
  BY DEF AsusWireless
<1>12. CaswellInterfaces =
        <<CaswellInternet, CaswellInternal,
          Member(3, "eth2", "br.eth1", 2), Member(4, "eth3", "br.eth1", 2),
          Member(5, "eth4", "br.eth1", 2), Member(6, "eth5", "br.eth1", 2),
          Member(7, "eth6", "br.eth1", 2), Member(8, "eth7", "br.eth1", 2)>>
  <2> DEFINE m3 == Member(3, "eth2", "br.eth1", 2)
             m4 == Member(4, "eth3", "br.eth1", 2)
             m5 == Member(5, "eth4", "br.eth1", 2)
             m6 == Member(6, "eth5", "br.eth1", 2)
             m7 == Member(7, "eth6", "br.eth1", 2)
             m8 == Member(8, "eth7", "br.eth1", 2)
  <2>1. CaswellInterfaces = <<CaswellInternet, CaswellInternal>> \o <<m3, m4>>
                              \o <<m5, m6>> \o <<m7, m8>>
    BY DEF CaswellInterfaces, CaswellPorts34, CaswellPorts56, CaswellPorts78
  <2> HIDE DEF m3, m4, m5, m6, m7, m8
  <2>2. <<CaswellInternet, CaswellInternal>> \o <<m3, m4>>
          = <<CaswellInternet, CaswellInternal, m3, m4>>
    BY Tuple22
  <2>3. <<CaswellInternet, CaswellInternal, m3, m4>> \o <<m5, m6>>
          = <<CaswellInternet, CaswellInternal, m3, m4, m5, m6>>
    BY Tuple42
  <2>4. <<CaswellInternet, CaswellInternal, m3, m4, m5, m6>> \o <<m7, m8>>
          = <<CaswellInternet, CaswellInternal, m3, m4, m5, m6, m7, m8>>
    BY Tuple62
  <2> QED
    BY <2>1, <2>2, <2>3, <2>4 DEF m3, m4, m5, m6, m7, m8
<1>13. LinksysInterfaces =
        <<LinksysWired[1], LinksysWired[2], LinksysWireless[1],
          LinksysWireless[2]>>
  BY <1>6, <1>7, Tuple22 DEF LinksysInterfaces
<1>14. TurrisInterfaces =
        <<TurrisWired[1], TurrisWired[2], TurrisWired[3], TurrisWireless[1],
          TurrisWireless[2]>>
  <2>1. <<TurrisWired[1], TurrisWired[2], TurrisWired[3]>>
          \o <<TurrisWireless[1], TurrisWireless[2]>>
          = <<TurrisWired[1], TurrisWired[2], TurrisWired[3], TurrisWireless[1],
              TurrisWireless[2]>>
    BY Tuple32
  <2>2. TurrisWired \o TurrisWireless
          = <<TurrisWired[1], TurrisWired[2], TurrisWired[3]>>
              \o <<TurrisWireless[1], TurrisWireless[2]>>
    BY <1>8, <1>9
  <2> QED
    BY <2>1, <2>2 DEF TurrisInterfaces
<1>15. AsusInterfaces =
        <<AsusWired[1], AsusWired[2], AsusWired[3], AsusWireless[1],
          AsusWireless[2]>>
  <2>1. <<AsusWired[1], AsusWired[2], AsusWired[3]>>
          \o <<AsusWireless[1], AsusWireless[2]>>
          = <<AsusWired[1], AsusWired[2], AsusWired[3], AsusWireless[1],
              AsusWireless[2]>>
    BY Tuple32
  <2>2. AsusWired \o AsusWireless
          = <<AsusWired[1], AsusWired[2], AsusWired[3]>>
              \o <<AsusWireless[1], AsusWireless[2]>>
    BY <1>10, <1>11
  <2> QED
    BY <2>1, <2>2 DEF AsusInterfaces
<1> QED
  BY <1>1, <1>2, <1>3, <1>4, <1>5, <1>12, <1>13, <1>14, <1>15
     DEF CloudInterfaces

(* The fields of an interface, as each constructor sets them.              *)
Plain(intf, id, to, type, wan) ==
  /\ DOMAIN intf = Fields
  /\ intf.interfaceId = id /\ intf.bridgedTo = to /\ intf.configType = type
  /\ intf.isWan = wan
  /\ type = "ADDRESSED" =>
       intf.v4ConfigType = IF wan THEN "AUTO" ELSE "STATIC"
Ranged(intf, address, prefix, start, end) ==
  /\ intf.v4StaticAddress = address /\ intf.v4StaticPrefix = prefix
  /\ intf.dhcpRangeStart = start /\ intf.dhcpRangeEnd = end
Bare(intf) == Ranged(intf, Nothing, 0, Nothing, Nothing)
Lan16(intf) == Ranged(intf, 2817, 16, 2916, 3016)
Port(intf, id) == Plain(intf, id, 2, "BRIDGED", FALSE) /\ Bare(intf)

LEMMA ServingIs ==
  ASSUME NEW intf, DOMAIN intf = Fields, NEW a \in Nat, NEW p
  PROVE  Ranged(Serving(Static(intf, a, p)), a, p,
                256 * (a \div 256) + 100, 256 * (a \div 256) + 200)
<1>1. /\ DOMAIN Static(intf, a, p) = Fields
      /\ Static(intf, a, p).v4StaticAddress = a
      /\ Static(intf, a, p).v4StaticPrefix = p
  BY DEF Static, Fields
<1> DEFINE st == Static(intf, a, p)
<1> HIDE DEF st
<1>2. st.v4StaticAddress = a /\ st.v4StaticPrefix = p /\ DOMAIN st = Fields
  BY <1>1 DEF st
<1>3. Ranged(Serving(st), a, p, 256 * (a \div 256) + 100,
             256 * (a \div 256) + 200)
  BY <1>2 DEF Serving, Ranged, Fields
<1> QED
  BY <1>3 DEF st

LEMMA CaswellTable ==
  LET f == Factory("caswell")
  IN  /\ Of(f, 8)
      /\ Plain(f[1], 1, 0, "ADDRESSED", TRUE) /\ Bare(f[1])
      /\ Plain(f[2], 2, 1, "ADDRESSED", FALSE)
      /\ Ranged(f[2], 513, 24, 612, 712)
      /\ Port(f[3], 3) /\ Port(f[4], 4) /\ Port(f[5], 5)
      /\ Port(f[6], 6) /\ Port(f[7], 7) /\ Port(f[8], 8)
<1>1. Plain(CaswellInternet, 1, 0, "ADDRESSED", TRUE) /\ Bare(CaswellInternet)
  BY DEF CaswellInternet, Wan, Intf, Plain, Bare, Ranged, Fields
<1>2. 513 \div 256 = 2
  OBVIOUS
<1>3. Plain(CaswellInternal, 2, 1, "ADDRESSED", FALSE)
  BY DEF CaswellInternal, Serving, Static, Intf, Plain, Fields
<1>4. Ranged(CaswellInternal, 513, 24, 612, 712)
  BY <1>2 DEF CaswellInternal, Serving, Static, Intf, Ranged, Ip
<1>5. ASSUME NEW i, NEW device
      PROVE  Port(Member(i, device, "br.eth1", 2), i)
  BY DEF Member, Intf, Port, Plain, Bare, Ranged, Fields
<1> DEFINE f == Factory("caswell")
<1>6. /\ Of(f, 8)
      /\ f[1] = CaswellInternet /\ f[2] = CaswellInternal
      /\ f[3] = Member(3, "eth2", "br.eth1", 2)
      /\ f[4] = Member(4, "eth3", "br.eth1", 2)
      /\ f[5] = Member(5, "eth4", "br.eth1", 2)
      /\ f[6] = Member(6, "eth5", "br.eth1", 2)
      /\ f[7] = Member(7, "eth6", "br.eth1", 2)
      /\ f[8] = Member(8, "eth7", "br.eth1", 2)
  BY FactoryIs DEF Of
<1> HIDE DEF f
<1>11. /\ Of(f, 8)
       /\ Plain(f[1], 1, 0, "ADDRESSED", TRUE) /\ Bare(f[1])
       /\ Plain(f[2], 2, 1, "ADDRESSED", FALSE)
       /\ Ranged(f[2], 513, 24, 612, 712)
       /\ Port(f[3], 3) /\ Port(f[4], 4) /\ Port(f[5], 5)
       /\ Port(f[6], 6) /\ Port(f[7], 7) /\ Port(f[8], 8)
  <2>1. Plain(f[1], 1, 0, "ADDRESSED", TRUE) /\ Bare(f[1])
    BY <1>1, <1>6
  <2>2. Plain(f[2], 2, 1, "ADDRESSED", FALSE)
    BY <1>3, <1>6
  <2>3. Ranged(f[2], 513, 24, 612, 712)
    BY <1>4, <1>6
  <2>4. Port(f[3], 3) /\ Port(f[4], 4) /\ Port(f[5], 5)
    BY <1>5, <1>6
  <2>5. Port(f[6], 6) /\ Port(f[7], 7) /\ Port(f[8], 8)
    BY <1>5, <1>6
  <2> QED
    BY <1>6, <2>1, <2>2, <2>3, <2>4, <2>5
<1> QED
  BY <1>11 DEF f

LEMMA CloudTable ==
  LET f == Factory("cloud")
  IN  /\ Of(f, 1)
      /\ Plain(f[1], 1, 0, "ADDRESSED", TRUE) /\ Bare(f[1])
<1>1. Factory("cloud") = << Wan(1, "eth0", "eth0") >>
  BY FactoryIs
<1>2. /\ Plain(Wan(1, "eth0", "eth0"), 1, 0, "ADDRESSED", TRUE)
      /\ Bare(Wan(1, "eth0", "eth0"))
  BY DEF Wan, Intf, Plain, Bare, Ranged, Fields
<1>3. /\ Factory("cloud")[1] = Wan(1, "eth0", "eth0")
      /\ Of(Factory("cloud"), 1)
  BY <1>1 DEF Of
<1> QED
  BY <1>2, <1>3

LEMMA LinksysTable ==
  LET f == Factory("linksys")
  IN  /\ Of(f, 4)
      /\ Plain(f[1], 1, 0, "ADDRESSED", TRUE) /\ Bare(f[1])
      /\ Plain(f[2], 2, 0, "ADDRESSED", FALSE)
      /\ Lan16(f[2])
      /\ Port(f[3], 3) /\ Port(f[4], 4)
<1>1. 2817 \div 256 = 11
  OBVIOUS
<1>2. Plain(LinksysWired[1], 1, 0, "ADDRESSED", TRUE) /\ Bare(LinksysWired[1])
  BY DEF LinksysWired, Wan, Intf, Plain, Bare, Ranged, Fields
<1>3. Plain(LinksysWired[2], 2, 0, "ADDRESSED", FALSE)
  BY DEF LinksysWired, Serving, Static, Intf, Plain, Fields
<1>4. Lan16(LinksysWired[2])
  <2> DEFINE intf == Intf(2, "eth1", "br.eth1", "ADDRESSED")
  <2>1. /\ LinksysWired[2] = Serving(Static(intf, 2817, 16))
        /\ DOMAIN intf = Fields
    BY DEF LinksysWired, Intf, Fields, Ip
  <2> HIDE DEF intf
  <2> QED
    BY <1>1, <2>1, ServingIs DEF Lan16
<1>5. Port(LinksysWireless[1], 3)
  BY DEF LinksysWireless, Wireless, Member, Intf, Port, Plain, Bare, Ranged,
         Fields
<1>6. Port(LinksysWireless[2], 4)
  BY DEF LinksysWireless, Wireless, Member, Intf, Port, Plain, Bare, Ranged,
         Fields
<1> DEFINE f == Factory("linksys")
<1>7. /\ Of(f, 4)
      /\ f[1] = LinksysWired[1] /\ f[2] = LinksysWired[2]
      /\ f[3] = LinksysWireless[1] /\ f[4] = LinksysWireless[2]
  BY FactoryIs DEF Of
<1> HIDE DEF f
<1>11. /\ Of(f, 4)
       /\ Plain(f[1], 1, 0, "ADDRESSED", TRUE) /\ Bare(f[1])
       /\ Plain(f[2], 2, 0, "ADDRESSED", FALSE)
       /\ Lan16(f[2])
       /\ Port(f[3], 3) /\ Port(f[4], 4)
  <2>0. Of(f, 4)
    BY <1>7
  <2>1. Plain(f[1], 1, 0, "ADDRESSED", TRUE) /\ Bare(f[1])
    BY <1>2, <1>7
  <2>2. Plain(f[2], 2, 0, "ADDRESSED", FALSE)
    BY <1>3, <1>7
  <2>3. Lan16(f[2])
    BY <1>4, <1>7
  <2>4. Port(f[3], 3) /\ Port(f[4], 4)
    BY <1>5, <1>6, <1>7
  <2> QED
    BY <2>0, <2>1, <2>2, <2>3, <2>4
<1> QED
  BY <1>11 DEF f

LEMMA TurrisTable ==
  LET f == Factory("turris")
  IN  /\ Of(f, 5)
      /\ Plain(f[1], 1, 0, "ADDRESSED", TRUE) /\ Bare(f[1])
      /\ Plain(f[2], 2, 0, "ADDRESSED", FALSE)
      /\ Lan16(f[2])
      /\ Plain(f[3], 3, 2, "DISABLED", FALSE) /\ Bare(f[3])
      /\ Port(f[4], 4) /\ Port(f[5], 5)
<1>1. 2817 \div 256 = 11
  OBVIOUS
<1>2. Plain(TurrisWired[1], 1, 0, "ADDRESSED", TRUE) /\ Bare(TurrisWired[1])
  BY DEF TurrisWired, Wan, Intf, Plain, Bare, Ranged, Fields
<1>3. Plain(TurrisWired[2], 2, 0, "ADDRESSED", FALSE)
  BY DEF TurrisWired, Serving, Static, Intf, Plain, Fields
<1>4. Lan16(TurrisWired[2])
  <2> DEFINE intf == Intf(2, "eth0", "br.eth0", "ADDRESSED")
  <2>1. TurrisWired[2] = Serving(Static(intf, 2817, 16)) /\ DOMAIN intf = Fields
    BY DEF TurrisWired, Intf, Fields, Ip
  <2> HIDE DEF intf
  <2> QED
    BY <1>1, <2>1, ServingIs DEF Lan16
<1>5. Plain(TurrisWired[3], 3, 2, "DISABLED", FALSE) /\ Bare(TurrisWired[3])
  BY DEF TurrisWired, Intf, Plain, Bare, Ranged, Fields
<1>6. Port(TurrisWireless[1], 4)
  BY DEF TurrisWireless, Wireless, Member, Intf, Port, Plain, Bare, Ranged,
         Fields
<1>7. Port(TurrisWireless[2], 5)
  BY DEF TurrisWireless, Wireless, Member, Intf, Port, Plain, Bare, Ranged,
         Fields
<1> DEFINE f == Factory("turris")
<1>8. /\ Of(f, 5)
      /\ f[1] = TurrisWired[1] /\ f[2] = TurrisWired[2] /\ f[3] = TurrisWired[3]
      /\ f[4] = TurrisWireless[1] /\ f[5] = TurrisWireless[2]
  BY FactoryIs DEF Of
<1> HIDE DEF f
<1>11. /\ Of(f, 5)
       /\ Plain(f[1], 1, 0, "ADDRESSED", TRUE) /\ Bare(f[1])
       /\ Plain(f[2], 2, 0, "ADDRESSED", FALSE)
       /\ Lan16(f[2])
       /\ Plain(f[3], 3, 2, "DISABLED", FALSE) /\ Bare(f[3])
       /\ Port(f[4], 4) /\ Port(f[5], 5)
  <2>0. Of(f, 5)
    BY <1>8
  <2>1. Plain(f[1], 1, 0, "ADDRESSED", TRUE) /\ Bare(f[1])
    BY <1>2, <1>8
  <2>2. Plain(f[2], 2, 0, "ADDRESSED", FALSE)
    BY <1>3, <1>8
  <2>3. Lan16(f[2])
    BY <1>4, <1>8
  <2>4. Plain(f[3], 3, 2, "DISABLED", FALSE) /\ Bare(f[3])
    BY <1>5, <1>8
  <2>5. Port(f[4], 4) /\ Port(f[5], 5)
    BY <1>6, <1>7, <1>8
  <2> QED
    BY <2>0, <2>1, <2>2, <2>3, <2>4, <2>5
<1> QED
  BY <1>11 DEF f

LEMMA AsusTable ==
  LET f == Factory("asus")
  IN  /\ Of(f, 5)
      /\ Plain(f[1], 1, 0, "DISABLED", FALSE) /\ Bare(f[1])
      /\ Plain(f[2], 100, 0, "ADDRESSED", TRUE) /\ Bare(f[2])
      /\ Plain(f[3], 101, 0, "ADDRESSED", FALSE)
      /\ Ranged(f[3], 257, 16, 356, 456)
      /\ Plain(f[4], 102, 101, "BRIDGED", FALSE)
      /\ Plain(f[5], 103, 101, "BRIDGED", FALSE)
<1>1. 257 \div 256 = 1
  OBVIOUS
<1>2. Plain(AsusWired[1], 1, 0, "DISABLED", FALSE) /\ Bare(AsusWired[1])
  BY DEF AsusWired, Intf, Plain, Bare, Ranged, Fields
<1>3. Plain(AsusWired[2], 100, 0, "ADDRESSED", TRUE) /\ Bare(AsusWired[2])
  BY DEF AsusWired, Vlan, Wan, Intf, Plain, Bare, Ranged, Fields
<1>4. Plain(AsusWired[3], 101, 0, "ADDRESSED", FALSE)
  BY DEF AsusWired, Vlan, Serving, Static, Intf, Plain, Fields
<1>5. Ranged(AsusWired[3], 257, 16, 356, 456)
  <2> DEFINE intf == Intf(101, "eth0", "br.eth0-2", "ADDRESSED")
  <2>1. /\ AsusWired[3] = Vlan(Serving(Static(intf, 257, 16)))
        /\ DOMAIN intf = Fields
    BY DEF AsusWired, Intf, Fields, Ip
  <2> HIDE DEF intf
  <2>2. Ranged(Serving(Static(intf, 257, 16)), 257, 16, 356, 456)
    BY <1>1, <2>1, ServingIs
  <2> QED
    BY <2>1, <2>2 DEF Vlan, Ranged
<1>6. Plain(AsusWireless[1], 102, 101, "BRIDGED", FALSE)
  BY DEF AsusWireless, Wireless, Static, Member, Intf, Plain, Fields
<1>7. Plain(AsusWireless[2], 103, 101, "BRIDGED", FALSE)
  BY DEF AsusWireless, Wireless, Serving, Static, Member, Intf, Plain, Fields
<1> DEFINE f == Factory("asus")
<1>8. /\ Of(f, 5)
      /\ f[1] = AsusWired[1] /\ f[2] = AsusWired[2] /\ f[3] = AsusWired[3]
      /\ f[4] = AsusWireless[1] /\ f[5] = AsusWireless[2]
  BY FactoryIs DEF Of
<1> HIDE DEF f
<1> QED
  BY <1>2, <1>3, <1>4, <1>5, <1>6, <1>7, <1>8 DEF f

-----------------------------------------------------------------------------
(* Which interface is the WAN and which the internal one.                  *)
LEMMA Sizes ==
  /\ Size["caswell"] = 8 /\ Size["cloud"] = 1 /\ Size["linksys"] = 4
  /\ Size["turris"] = 5 /\ Size["asus"] = 5
  /\ Outer["caswell"] = 1 /\ Outer["cloud"] = 1 /\ Outer["linksys"] = 1
  /\ Outer["turris"] = 1 /\ Outer["asus"] = 2
  /\ Inner["caswell"] = 2 /\ Inner["cloud"] = 0 /\ Inner["linksys"] = 2
  /\ Inner["turris"] = 2 /\ Inner["asus"] = 1
BY DEF Size, Outer, Inner

LEMMA Shape ==
  ASSUME NEW b \in Boxes
  PROVE  /\ Size[b] \in 1 .. 8 /\ Inner[b] \in 0 .. Size[b]
         /\ Outer[b] \in 1 .. Size[b] /\ Inner[b] # Outer[b]
         /\ \A i \in 1 .. Size[b] : i < Inner[b] => i = Outer[b]
         /\ Inner[b] = 0 => Size[b] = 1
         /\ Of(Factory(b), Size[b])
         /\ \A i \in 1 .. Size[b] :
              /\ DOMAIN Factory(b)[i] = Fields
              /\ (Factory(b)[i].isWan <=> i = Outer[b])
         /\ Factory(b)[Outer[b]].configType = "ADDRESSED"
         /\ Factory(b)[Outer[b]].v4ConfigType = "AUTO"
         /\ Factory(b)[Outer[b]].dhcpRangeStart = Nothing
         /\ Inner[b] # 0 /\ Factory(b)[Inner[b]].configType = "ADDRESSED" =>
              Factory(b)[Inner[b]].v4ConfigType = "STATIC"
<1> DEFINE f == Factory(b)
<1>1. CASE b = "caswell"
  <2>1. /\ Of(f, 8) /\ Plain(f[1], 1, 0, "ADDRESSED", TRUE) /\ Bare(f[1])
        /\ Plain(f[2], 2, 1, "ADDRESSED", FALSE)
        /\ Port(f[3], 3) /\ Port(f[4], 4) /\ Port(f[5], 5) /\ Port(f[6], 6)
        /\ Port(f[7], 7) /\ Port(f[8], 8)
    BY <1>1, CaswellTable
  <2> HIDE DEF f
  <2>2. \A i \in 1 .. 8 : DOMAIN f[i] = Fields /\ (f[i].isWan <=> i = 1)
    BY <2>1 DEF Plain, Port
  <2>3. /\ f[1].configType = "ADDRESSED" /\ f[1].v4ConfigType = "AUTO"
        /\ f[1].dhcpRangeStart = Nothing
        /\ f[2].configType = "ADDRESSED" => f[2].v4ConfigType = "STATIC"
    BY <2>1 DEF Plain, Bare, Ranged
  <2> QED
    BY <1>1, <2>1, <2>2, <2>3, Sizes DEF f
<1>2. CASE b = "cloud"
  <2>1. Of(f, 1) /\ Plain(f[1], 1, 0, "ADDRESSED", TRUE) /\ Bare(f[1])
    BY <1>2, CloudTable
  <2> HIDE DEF f
  <2>2. \A i \in 1 .. 1 : DOMAIN f[i] = Fields /\ (f[i].isWan <=> i = 1)
    BY <2>1 DEF Plain
  <2>3. /\ f[1].configType = "ADDRESSED" /\ f[1].v4ConfigType = "AUTO"
        /\ f[1].dhcpRangeStart = Nothing
    BY <2>1 DEF Plain, Bare, Ranged
  <2> QED
    BY <1>2, <2>1, <2>2, <2>3, Sizes DEF f
<1>3. CASE b = "linksys"
  <2>1. /\ Of(f, 4) /\ Plain(f[1], 1, 0, "ADDRESSED", TRUE) /\ Bare(f[1])
        /\ Plain(f[2], 2, 0, "ADDRESSED", FALSE)
        /\ Port(f[3], 3) /\ Port(f[4], 4)
    BY <1>3, LinksysTable
  <2> HIDE DEF f
  <2>2. \A i \in 1 .. 4 : DOMAIN f[i] = Fields /\ (f[i].isWan <=> i = 1)
    BY <2>1 DEF Plain, Port
  <2>3. /\ f[1].configType = "ADDRESSED" /\ f[1].v4ConfigType = "AUTO"
        /\ f[1].dhcpRangeStart = Nothing
        /\ f[2].configType = "ADDRESSED" => f[2].v4ConfigType = "STATIC"
    BY <2>1 DEF Plain, Bare, Ranged
  <2> QED
    BY <1>3, <2>1, <2>2, <2>3, Sizes DEF f
<1>4. CASE b = "turris"
  <2>1. /\ Of(f, 5) /\ Plain(f[1], 1, 0, "ADDRESSED", TRUE) /\ Bare(f[1])
        /\ Plain(f[2], 2, 0, "ADDRESSED", FALSE)
        /\ Plain(f[3], 3, 2, "DISABLED", FALSE)
        /\ Port(f[4], 4) /\ Port(f[5], 5)
    BY <1>4, TurrisTable
  <2> HIDE DEF f
  <2>2. \A i \in 1 .. 5 : DOMAIN f[i] = Fields /\ (f[i].isWan <=> i = 1)
    BY <2>1 DEF Plain, Port
  <2>3. /\ f[1].configType = "ADDRESSED" /\ f[1].v4ConfigType = "AUTO"
        /\ f[1].dhcpRangeStart = Nothing
        /\ f[2].configType = "ADDRESSED" => f[2].v4ConfigType = "STATIC"
    BY <2>1 DEF Plain, Bare, Ranged
  <2> QED
    BY <1>4, <2>1, <2>2, <2>3, Sizes DEF f
<1>5. CASE b = "asus"
  <2>1. /\ Of(f, 5) /\ Plain(f[1], 1, 0, "DISABLED", FALSE)
        /\ Plain(f[2], 100, 0, "ADDRESSED", TRUE) /\ Bare(f[2])
        /\ Plain(f[3], 101, 0, "ADDRESSED", FALSE)
        /\ Plain(f[4], 102, 101, "BRIDGED", FALSE)
        /\ Plain(f[5], 103, 101, "BRIDGED", FALSE)
    BY <1>5, AsusTable
  <2> HIDE DEF f
  <2>2. \A i \in 1 .. 5 : DOMAIN f[i] = Fields /\ (f[i].isWan <=> i = 2)
    BY <2>1 DEF Plain
  <2>3. /\ f[2].configType = "ADDRESSED" /\ f[2].v4ConfigType = "AUTO"
        /\ f[2].dhcpRangeStart = Nothing
        /\ f[1].configType = "ADDRESSED" => f[1].v4ConfigType = "STATIC"
    BY <2>1 DEF Plain, Bare, Ranged
  <2> QED
    BY <1>5, <2>1, <2>2, <2>3, Sizes DEF f
<1> QED
  BY <1>1, <1>2, <1>3, <1>4, <1>5 DEF Boxes

LEMMA LengthOf ==
  ASSUME NEW list, NEW n \in Nat, Of(list, n)
  PROVE  Len(list) = n /\ DOMAIN list = 1 .. n
<1> DEFINE S == {list[i] : i \in 1 .. n}
<1>1. DOMAIN list = 1 .. n
  BY DEF Of
<1>2. list \in [1 .. n -> S]
  BY DEF Of
<1>3. list \in Seq(S)
  BY <1>2, SeqDef
<1>4. Len(list) \in Nat /\ DOMAIN list = 1 .. Len(list)
  BY <1>3, LenProperties
<1>5. Len(list) = n
  BY <1>1, <1>4
<1> QED
  BY <1>1, <1>5

LEMMA LikeFirst ==
  ASSUME NEW b \in Boxes, NEW list, Like(b, list)
  PROVE  /\ FirstWan(list) = Outer[b] /\ FirstNonWan(list) = Inner[b]
         /\ DOMAIN list = 1 .. Size[b]
         /\ \A i \in 1 .. Size[b] : DOMAIN list[i] = Fields
<1>1. Len(list) = Size[b] /\ DOMAIN list = 1 .. Size[b]
  BY Shape, LengthOf DEF Like
<1>2. \A i \in 1 .. Size[b] : /\ DOMAIN list[i] = Fields
                               /\ (list[i].isWan <=> i = Outer[b])
  BY Shape DEF Like, ItemLike, SamePlace
<1>3. list[Outer[b]].configType = "ADDRESSED"
  BY Shape DEF Like, ItemLike
<1>4. FirstWan(list) = Outer[b]
  <2> DEFINE I == {i \in 1 .. Len(list) :
                     list[i].isWan /\ list[i].configType # "DISABLED"}
  <2>1. I = {Outer[b]}
    BY <1>1, <1>2, <1>3, Shape
  <2>2. FirstWan(list) = IF I # {} THEN Min(I) ELSE 0
    BY DEF FirstWan, SelectInSeq
  <2> HIDE DEF I
  <2>3. Outer[b] \in Nat
    BY Shape
  <2>4. Min(I) = Outer[b]
    BY <2>1, <2>3 DEF Min
  <2> QED
    BY <2>1, <2>2, <2>4
<1>5. FirstNonWan(list) = Inner[b]
  <2> DEFINE I == {i \in 1 .. Len(list) : ~list[i].isWan}
  <2>1. I = 1 .. Size[b] \ {Outer[b]}
    BY <1>1, <1>2
  <2>2. FirstNonWan(list) = IF I # {} THEN Min(I) ELSE 0
    BY DEF FirstNonWan, SelectInSeq
  <2> HIDE DEF I
  <2>3. CASE Inner[b] = 0
    BY <2>1, <2>2, <2>3, Shape
  <2>4. CASE Inner[b] # 0
    <3>1. Inner[b] \in I /\ \A i \in I : Inner[b] <= i
      BY <2>1, <2>4, Shape
    <3>2. I \subseteq Nat
      BY <2>1, Shape
    <3>3. Min(I) \in I /\ \A i \in I : Min(I) <= i
      BY <3>1, <3>2 DEF Min
    <3>4. Min(I) <= Inner[b] /\ Inner[b] <= Min(I)
      BY <3>1, <3>3
    <3>5. Min(I) \in Nat /\ Inner[b] \in Nat
      BY <3>1, <3>2, <3>3
    <3>6. Min(I) = Inner[b]
      BY <3>4, <3>5
    <3> QED
      BY <2>2, <3>1, <3>6
  <2> QED
    BY <2>3, <2>4
<1> QED
  BY <1>1, <1>2, <1>4, <1>5

(* The factory settings are such a list, and one interface may change.     *)
LEMMA LikeFactory == ASSUME NEW b \in Boxes PROVE Like(b, Factory(b))
BY Shape DEF Like, ItemLike, SamePlace, InnerLike, SameRange

LEMMA LikeChange ==
  ASSUME NEW b, NEW list, Like(b, list), NEW k, NEW intf,
         k \in 1 .. Size[b] => ItemLike(b, k, intf)
  PROVE  Like(b, [list EXCEPT ![k] = intf])
<1> DEFINE new == [list EXCEPT ![k] = intf]
<1>1. Of(new, Size[b])
  BY DEF Like, Of
<1>2. ASSUME NEW i \in 1 .. Size[b] PROVE ItemLike(b, i, new[i])
  <2>1. DOMAIN list = 1 .. Size[b]
    BY DEF Like, Of
  <2>2. new[i] = IF i = k THEN intf ELSE list[i]
    BY <2>1
  <2> HIDE DEF new
  <2> QED
    BY <2>2 DEF Like
<1> HIDE DEF new
<1>3. Like(b, new)
  BY <1>1, <1>2 DEF Like
<1> QED
  BY <1>3 DEF new
-----------------------------------------------------------------------------
(* The saves of the wizard make such lists of such lists.                  *)
LEMMA LikeDevice ==
  ASSUME NEW b \in Boxes, NEW list, Like(b, list), NEW k, NEW device
  PROVE  Like(b, [list EXCEPT ![k].physicalDev = device])
<1> DEFINE intf == [list[k] EXCEPT !.physicalDev = device]
<1>1. ASSUME k \in 1 .. Size[b] PROVE ItemLike(b, k, intf)
  <2>1. ItemLike(b, k, list[k]) /\ DOMAIN list[k] = Fields
    BY <1>1, LikeFirst DEF Like
  <2> QED
    BY <2>1 DEF ItemLike, SamePlace, InnerLike, SameRange, Fields
<1>2. Like(b, [list EXCEPT ![k] = intf])
  BY <1>1, LikeChange
<1> QED
  BY <1>2

LEMMA LikeSwap ==
  ASSUME NEW b \in Boxes, NEW list, Like(b, list), NEW j
  PROVE  Like(b, [list EXCEPT ![1].physicalDev = list[j].physicalDev,
                              ![j].physicalDev = list[1].physicalDev])
<1> DEFINE first == [list EXCEPT ![1].physicalDev = list[j].physicalDev]
<1>1. Like(b, first)
  BY LikeDevice
<1> HIDE DEF first
<1>2. Like(b, [first EXCEPT ![j].physicalDev = list[1].physicalDev])
  BY <1>1, LikeDevice
<1> QED
  BY <1>2 DEF first

LEMMA LikeWan ==
  ASSUME NEW c, Like(box, page[c].base), box \in Boxes,
         NEW type, NEW address, NEW prefix
  PROVE  Like(box, WanSet(c, type, address, prefix))
<1> DEFINE list == page[c].base
           k    == Outer[box]
           intf == SetWan(list[k], type, address, prefix)
<1>1. FirstWan(list) = k
  BY LikeFirst
<1>2. ItemLike(box, k, intf)
  <2>1. /\ ItemLike(box, k, list[k]) /\ DOMAIN list[k] = Fields
        /\ k # Inner[box]
    BY Shape, LikeFirst DEF Like
  <2> HIDE DEF list, k
  <2>2. /\ DOMAIN intf = Fields
        /\ intf.interfaceId = list[k].interfaceId
        /\ intf.bridgedTo = list[k].bridgedTo /\ intf.isWan = list[k].isWan
        /\ intf.configType = list[k].configType
        /\ intf.dhcpRangeStart = list[k].dhcpRangeStart
    BY <2>1 DEF SetWan, Fields
  <2> HIDE DEF intf
  <2>3. k = Outer[box]
    BY DEF k
  <2> QED
    BY <2>1, <2>2, <2>3 DEF ItemLike, SamePlace
<1>3. Like(box, [list EXCEPT ![k] = intf])
  BY <1>2, LikeChange
<1> QED
  BY <1>1, <1>3 DEF WanSet

LEMMA LikeInner ==
  ASSUME NEW c, Like(box, page[c].base), box \in Boxes, NEW intf, NEW address,
         NEW prefix, NEW dhcp,
         \/ intf = Bridged(Old(c), address)
         \/ intf = Routed(Old(c), address, prefix, dhcp)
  PROVE  Like(box, Changed(c, intf))
<1> DEFINE list == page[c].base
           k    == Inner[box]
<1>1. FirstNonWan(list) = k
  BY LikeFirst
<1>2. ASSUME k \in 1 .. Size[box] PROVE ItemLike(box, k, intf)
  <2>1. /\ ItemLike(box, k, list[k]) /\ DOMAIN list[k] = Fields
        /\ \/ intf = Bridged(list[k], address)
           \/ intf = Routed(list[k], address, prefix, dhcp)
    BY <1>1, <1>2, LikeFirst DEF Like, Old
  <2> HIDE DEF list, k
  <2>2. ASSUME intf = Bridged(list[k], address)
        PROVE  SamePlace(intf, Factory(box)[k]) /\ intf.configType = "BRIDGED"
    BY <2>1, <2>2 DEF Bridged, ItemLike, SamePlace, Fields
  <2>3. ASSUME intf = Routed(list[k], address, prefix, dhcp)
        PROVE  /\ SamePlace(intf, Factory(box)[k])
               /\ intf.configType = "ADDRESSED" /\ intf.v4ConfigType = "STATIC"
               /\ intf.dhcpRangeStart = Nothing /\ intf.dhcpRangeEnd = Nothing
    BY <2>1, <2>3 DEF Routed, ItemLike, SamePlace, Fields
  <2> QED
    BY <2>1, <2>2, <2>3 DEF ItemLike, InnerLike, k
<1>3. Like(box, [list EXCEPT ![k] = intf])
  BY <1>2, LikeChange
<1> QED
  BY <1>1, <1>3 DEF Changed

LEMMA LikeWritten ==
  ASSUME LikeOK, UNCHANGED <<box, file>>, NEW c \in Clients, NEW list, NEW own,
         Like(box, list), Write(c, list, own), DOMAIN page = Clients
  PROVE  LikeOK'
BY DEF LikeOK, Write, Close, NoPage

LEMMA LikeRedirected ==
  ASSUME LikeOK, UNCHANGED <<box, file>>, NEW c \in Clients, NEW list,
         NEW address, NEW own, Like(box, list), page[c].step # "none", ListsOK,
         Redirect(c, list, address, own)
  PROVE  LikeOK'
<1>1. /\ UNCHANGED net
      /\ page' = [page EXCEPT ![c].step = "leaving", ![c].copy = list]
  BY DEF Redirect
<1>2. /\ \A d \in Clients \ {c} : page'[d] = page[d]
      /\ page'[c].base = page[c].base /\ page'[c].copy = list
  BY <1>1 DEF ListsOK
<1> QED
  BY <1>1, <1>2 DEF LikeOK

LEMMA LikeMove ==
  ASSUME IInv, LikeOK, Moves
  PROVE  LikeOK'
<1>0. UNCHANGED <<box, file>>
  BY MovesKeep DEF Kept
<1>01. DOMAIN page = Clients /\ box \in Boxes /\ ListsOK
  BY DEF IInv, ListsOK, PlaceOK
<1> PICK c \in Clients : Move(c)
  BY DEF Moves
<1>02. ASSUME NEW list, NEW own, Like(box, list), Write(c, list, own)
       PROVE  LikeOK'
  BY <1>0, <1>01, <1>02, LikeWritten
<1>1. ASSUME NEW step \in {"Interfaces", "Internet", "InternalNetwork"},
             Open(c, step)
      PROVE  LikeOK'
  BY <1>0, <1>01, <1>1 DEF Open, Up, LikeOK
<1>2. CASE Browse(c)
  BY <1>2 DEF Browse, LikeOK
<1>3. CASE SaveInterfaces(c)
  <2> DEFINE list == page[c].base
             j    == SelectLastInSeq(list, LAMBDA i : ~i.isVlanInterface)
  <2>1. /\ page[c].step # "none"
        /\ Write(c, [list EXCEPT ![1].physicalDev = list[j].physicalDev,
                                 ![j].physicalDev = list[1].physicalDev], FALSE)
    BY <1>3 DEF SaveInterfaces
  <2>2. Like(box, list)
    BY <2>1 DEF LikeOK
  <2> HIDE DEF j, list
  <2> QED
    BY <1>01, <1>02, <2>1, <2>2, LikeSwap
<1>4. CASE SaveInternet(c)
  <2>1. Like(box, page[c].base)
    BY <1>4, InternetCases DEF LikeOK
  <2>2. ASSUME NEW type, NEW address, NEW prefix
        PROVE  Like(box, WanSet(c, type, address, prefix))
    BY <1>01, <2>1, LikeWan
  <2>3. CASE UNCHANGED <<net, wizard>>
    BY <1>0, <2>3 DEF wizard, LikeOK
  <2> QED
    BY <1>02, <1>4, <2>2, <2>3, InternetCases
<1>5. CASE SaveInternal(c)
  <2>1. page[c].step # "none" /\ Like(box, page[c].base)
    BY <1>5, InternalCases DEF LikeOK
  <2>2. ASSUME NEW address, NEW prefix, NEW dhcp
        PROVE  /\ Like(box, ToBridge(c, address))
               /\ Like(box, ToRouter(c, address, prefix, dhcp))
    BY <1>01, <2>1, LikeInner DEF ToBridge, ToRouter
  <2>3. ASSUME NEW list, NEW own, Like(box, list), Saves(c, list, own)
        PROVE  LikeOK'
    BY <1>02, <2>3 DEF Saves
  <2>4. ASSUME NEW list, NEW address, NEW own, Like(box, list),
               Redirect(c, list, address, own)
        PROVE  LikeOK'
    BY <1>0, <1>01, <2>1, <2>4, LikeRedirected
  <2>5. CASE Saves(c, page[c].base, FALSE)
    BY <2>1, <2>3, <2>5
  <2>6. ASSUME NEW address, NEW own, NEW to,
               \/ Redirect(c, ToBridge(c, address), to, own)
               \/ Saves(c, ToBridge(c, address), own)
        PROVE  LikeOK'
    BY <2>2, <2>3, <2>4, <2>6
  <2>7. ASSUME NEW address, NEW prefix, NEW dhcp,
               \/ Redirect(c, ToRouter(c, address, prefix, dhcp), address,
                           FALSE)
               \/ Saves(c, ToRouter(c, address, prefix, dhcp), FALSE)
        PROVE  LikeOK'
    BY <2>2, <2>3, <2>4, <2>7
  <2>8. CASE UNCHANGED <<net, wizard>>
    BY <1>0, <2>8 DEF wizard, LikeOK
  <2> QED
    BY <1>5, <2>5, <2>6, <2>7, <2>8, InternalCases
<1>6. CASE Arrives(c)
  <2>1. Like(box, page[c].copy)
    BY <1>6 DEF Arrives, LikeOK
  <2>2. CASE Write(c, page[c].copy, FALSE)
    BY <1>02, <2>1, <2>2
  <2>3. CASE Close(c) /\ UNCHANGED net
    BY <1>0, <1>01, <2>3 DEF Close, NoPage, LikeOK
  <2> QED
    BY <1>6, <2>2, <2>3 DEF Arrives
<1> QED
  BY <1>1, <1>2, <1>3, <1>4, <1>5, <1>6 DEF Move

LEMMA LikeStep ==
  ASSUME IInv, LikeOK, [Next]_vars
  PROVE  LikeOK'
<1>0. Like(box, Factory(box))
  BY LikeFactory DEF IInv, PlaceOK
<1>1. ASSUME UNCHANGED <<box, file, net, page>> PROVE LikeOK'
  BY <1>1 DEF LikeOK
<1>2. CASE Flash \/ Resize \/ Nvram \/ resize2fs \/ PowerOn \/ Upgrade
  BY <1>1, <1>2 DEF Flash, Resize, Nvram, resize2fs, PowerOn, Upgrade, wizard
<1>3. CASE NetSettings
  BY <1>0, <1>3 DEF NetSettings, LikeOK, wizard
<1>4. CASE PostInst
  BY <1>0, <1>4 DEF PostInst, LikeOK, wizard
<1>5. ASSUME Stops PROVE LikeOK'
  BY <1>5 DEF Stops, NoPage, LikeOK
<1>6. CASE Reboot
  BY <1>1, <1>5, <1>6 DEF Reboot, wizard
<1>7. CASE PowerFails
  BY <1>5, <1>7 DEF PowerFails
<1>8. CASE UNCHANGED <<Kept, net, page>>
  BY <1>1, <1>8 DEF Kept
<1> QED
  BY <1>2, <1>3, <1>4, <1>6, <1>7, <1>8, StepCases, LikeMove
-----------------------------------------------------------------------------
(* Where a browser reaches the appliance.                                  *)
LEMMA AnswersIs ==
  ASSUME NEW list, NEW address
  PROVE  Answers(list, address) <=>
           /\ address # Nothing
           /\ \E i \in DOMAIN list : /\ list[i].configType = "ADDRESSED"
                                    /\ Address(list[i]) = address
BY DEF Answers

(* An address that answered still does when another interface changes.     *)
LEMMA AnswersKept ==
  ASSUME NEW list, NEW k, NEW intf, NEW address, Answers(list, address),
         \/ list[k].configType # "ADDRESSED"
         \/ Address(list[k]) # address
  PROVE  Answers([list EXCEPT ![k] = intf], address)
<1> DEFINE new == [list EXCEPT ![k] = intf]
<1>1. /\ DOMAIN new = DOMAIN list
      /\ \A i \in DOMAIN list : new[i] = IF i = k THEN intf ELSE list[i]
  OBVIOUS
<1> HIDE DEF new
<1>2. PICK i \in DOMAIN list : /\ list[i].configType = "ADDRESSED"
                               /\ Address(list[i]) = address
  BY AnswersIs
<1>3. i # k /\ new[i] = list[i]
  BY <1>1, <1>2
<1>4. Answers(new, address)
  BY <1>1, <1>2, <1>3, AnswersIs
<1> QED
  BY <1>4 DEF new

LEMMA AnswersSwap ==
  ASSUME NEW list, NEW j, NEW address, Answers(list, address),
         \A i \in DOMAIN list : DOMAIN list[i] = Fields
  PROVE  Answers([list EXCEPT ![1].physicalDev = list[j].physicalDev,
                              ![j].physicalDev = list[1].physicalDev], address)
<1> DEFINE new == [list EXCEPT ![1].physicalDev = list[j].physicalDev,
                               ![j].physicalDev = list[1].physicalDev]
<1>1. DOMAIN new = DOMAIN list
  OBVIOUS
<1>2. ASSUME NEW i \in DOMAIN list
      PROVE  /\ new[i].configType = list[i].configType
             /\ Address(new[i]) = Address(list[i])
  <2>1. DOMAIN list[i] = Fields
    OBVIOUS
  <2>2. ASSUME NEW device
        PROVE  LET intf == [list[i] EXCEPT !.physicalDev = device]
               IN  /\ intf.configType = list[i].configType
                   /\ Address(intf) = Address(list[i])
    BY <2>1 DEF Fields, Address
  <2>3. \/ new[i] = list[i]
        \/ \E device : new[i] = [list[i] EXCEPT !.physicalDev = device]
    <3>1. CASE i # 1 /\ i # j
      BY <3>1
    <3>2. CASE i = 1 /\ i # j
      BY <3>2
    <3>3. CASE i = j
      <4>1. new[i] = [list[i] EXCEPT !.physicalDev = list[1].physicalDev]
        BY <3>3, SetTwice
      <4> QED
        BY <4>1
    <3> QED
      BY <3>1, <3>2, <3>3
  <2> QED
    BY <2>2, <2>3
<1> HIDE DEF new
<1>3. Answers(new, address)
  BY <1>1, <1>2, AnswersIs
<1> QED
  BY <1>3 DEF new

(* A save excuses those who do not find the appliance again, but for the   *)
(* browser that saves.                                                     *)
LEMMA HostWritten ==
  ASSUME HostOK, Up, UNCHANGED <<box, file, host>>, NEW c \in Clients, NEW list,
         NEW own, Write(c, list, own),
         own \/ c \in excused \/ Answers(list, host[c]),
         DOMAIN page = Clients
  PROVE  HostOK'
<1>1. /\ page'[c].step = "none" /\ net' = list /\ file' = "whole"
      /\ \A d \in Clients \ {c} : page'[d] = page[d]
  BY DEF Write, Close, NoPage, Up
<1>2. ASSUME NEW d \in Clients
      PROVE  d \in excused' \/ Answers(net', host'[d])
  BY DEF Write
<1>3. ASSUME NEW d \in Clients PROVE Found1(d)'
  BY <1>2 DEF Found1
<1>4. \A d \in excused : d \in excused'
  BY DEF Write
<1> QED
  BY <1>1, <1>3, <1>4 DEF HostOK

LEMMA HostRedirected ==
  ASSUME HostOK, ListsOK, Up, UNCHANGED <<box, file>>, NEW c \in Clients,
         NEW list, NEW address, NEW own, Redirect(c, list, address, own),
         own \/ Answers(list, address)
  PROVE  HostOK'
<1>1. /\ UNCHANGED net /\ file = "whole"
      /\ excused' = excused \cup {d \in {c} : own}
      /\ page' = [page EXCEPT ![c].step = "leaving", ![c].copy = list]
      /\ host' = [host EXCEPT ![c] = address]
  BY DEF Redirect, Up
<1>2. /\ DOMAIN host' = Clients /\ host'[c] = address
      /\ \A d \in Clients \ {c} : page'[d] = page[d] /\ host'[d] = host[d]
      /\ page'[c].step = "leaving" /\ page'[c].copy = list
  BY <1>1 DEF ListsOK, HostOK
<1>3. ASSUME NEW d \in Clients
      PROVE  /\ Found1(d)'
             /\ page'[d].step \notin {"none", "leaving"} =>
                  Answers(page'[d].base, host'[d])
             /\ page'[d].step = "leaving" =>
                  d \in excused' \/ Answers(page'[d].copy, host'[d])
             /\ page'[d].step = "InternalNetwork" => Inner[box'] # 0
  <2>1. CASE d = c
    BY <1>1, <1>2, <2>1 DEF Found1
  <2>2. CASE d # c
    BY <1>1, <1>2, <2>2 DEF Found1, HostOK
  <2> QED
    BY <2>1, <2>2
<1> QED
  BY <1>1, <1>2, <1>3 DEF HostOK

(* The page of the internal network: an address that answered, unless it   *)
(* is the one that was changed; the browser that used it is led to the new *)
(* one.                                                                    *)
LEMMA HostInternal ==
  ASSUME IInv, LikeOK, HostOK, NEW c \in Clients, SaveInternal(c)
  PROVE  HostOK'
<1>0. /\ box \in Boxes /\ DOMAIN page = Clients /\ ListsOK
      /\ Up /\ UNCHANGED <<box, file>> /\ page[c].step = "InternalNetwork"
  BY InternalCases DEF IInv, ListsOK, PlaceOK, SaveInternal, NetFixed
<1> DEFINE list == page[c].base
           k    == FirstNonWan(list)
           w    == FirstWan(list)
           old  == list[k]
<1>1. Like(box, list) /\ Answers(list, host[c])
  BY <1>0 DEF LikeOK, HostOK
<1>2. /\ k \in DOMAIN list /\ DOMAIN old = Fields
      /\ old.configType = "ADDRESSED" => Address(old) = old.v4StaticAddress
      /\ w \in DOMAIN list /\ w # k /\ list[w].configType = "ADDRESSED"
  <2>1. Inner[box] \in 1 .. Size[box] /\ Outer[box] \in 1 .. Size[box]
    BY <1>0, Shape DEF HostOK
  <2>2. /\ k = Inner[box] /\ w = Outer[box] /\ DOMAIN list = 1 .. Size[box]
        /\ \A i \in 1 .. Size[box] : DOMAIN list[i] = Fields
    BY <1>0, <1>1, LikeFirst
  <2> HIDE DEF list, k, w
  <2>3. InnerLike(list[k], Factory(box)[k])
    BY <1>1, <2>1, <2>2 DEF Like, ItemLike
  <2>4. list[w].configType = "ADDRESSED" /\ w # k
    BY <1>0, <1>1, <2>1, <2>2, Shape DEF Like, ItemLike
  <2> QED
    BY <2>1, <2>2, <2>3, <2>4 DEF InnerLike, Address
<1>3. ASSUME NEW new, NEW own, Saves(c, new, own),
             own \/ Answers(new, host[c])
      PROVE  HostOK'
  BY <1>0, <1>3, HostWritten DEF Saves
<1>4. ASSUME NEW new, NEW address, NEW own, Redirect(c, new, address, own),
             own \/ Answers(new, address)
      PROVE  HostOK'
  BY <1>0, <1>4, HostRedirected
<1>5. CASE Saves(c, list, FALSE)
  BY <1>1, <1>3, <1>5
<1>6. ASSUME NEW address, Live(c) # Nothing,
             Redirect(c, ToBridge(c, address), Live(c),
                      Address(list[w]) # Live(c))
      PROVE  HostOK'
  <2> DEFINE intf == Bridged(old, address)
             new  == [list EXCEPT ![k] = intf]
  <2>1. new = ToBridge(c, address)
    BY DEF ToBridge, Changed, Old
  <2>2. w \in DOMAIN new /\ new[w] = list[w]
    BY <1>2
  <2>3. PICK to : to = Live(c)
    OBVIOUS
  <2>4. ASSUME Address(list[w]) = to PROVE Answers(new, to)
    <3>1. /\ to # Nothing /\ new[w].configType = "ADDRESSED"
          /\ Address(new[w]) = to
      BY <1>2, <1>6, <2>2, <2>3, <2>4
    <3> HIDE DEF new, w, list
    <3> QED
      BY <2>2, <3>1, AnswersIs
  <2> HIDE DEF new
  <2> QED
    BY <1>4, <1>6, <2>1, <2>3, <2>4
<1>7. ASSUME NEW address, address # host[c],
             Saves(c, ToBridge(c, address), address # old.v4StaticAddress)
      PROVE  HostOK'
  <2> DEFINE new == [list EXCEPT ![k] = Bridged(old, address)]
  <2>0. new = ToBridge(c, address)
    BY DEF ToBridge, Changed, Old
  <2>1. CASE address # old.v4StaticAddress
    BY <1>3, <1>7, <2>1
  <2>2. CASE address = old.v4StaticAddress
    <3>1. old.configType # "ADDRESSED" \/ Address(old) # host[c]
      BY <1>2, <1>7, <2>2
    <3>2. Answers(new, host[c])
      BY <1>1, <3>1, AnswersKept
    <3> HIDE DEF new
    <3> QED
      BY <1>3, <1>7, <2>0, <3>2
  <2> QED
    BY <2>1, <2>2
<1>8. ASSUME NEW address, NEW prefix, NEW dhcp, address # Nothing,
             IF host[c] = old.v4StaticAddress /\ address # host[c]
             THEN Redirect(c, ToRouter(c, address, prefix, dhcp), address,
                          FALSE)
             ELSE Saves(c, ToRouter(c, address, prefix, dhcp), FALSE)
      PROVE  HostOK'
  <2> DEFINE intf == Routed(old, address, prefix, dhcp)
             new  == [list EXCEPT ![k] = intf]
  <2>1. /\ intf.configType = "ADDRESSED"
        /\ Address(intf) = address
    BY <1>2 DEF Routed, Fields, Address
  <2>2. new = ToRouter(c, address, prefix, dhcp)
    BY DEF ToRouter, Changed, Old
  <2>3. Answers(new, address)
    <3>1. k \in DOMAIN new /\ new[k] = intf
      BY <1>2
    <3> HIDE DEF new, intf, k, list
    <3> QED
      BY <1>8, <2>1, <3>1, AnswersIs
  <2>4. CASE host[c] # old.v4StaticAddress
    <3>1. old.configType # "ADDRESSED" \/ Address(old) # host[c]
      BY <1>2, <2>4
    <3>2. Answers(new, host[c])
      BY <1>1, <3>1, AnswersKept
    <3> QED
      BY <1>3, <1>8, <2>2, <2>4, <3>2
  <2>5. CASE host[c] = old.v4StaticAddress /\ address = host[c]
    <3>1. Answers(new, host[c])
      BY <2>3, <2>5
    <3> QED
      BY <1>3, <1>8, <2>2, <2>5, <3>1
  <2>6. CASE host[c] = old.v4StaticAddress /\ address # host[c]
    BY <1>4, <1>8, <2>2, <2>3, <2>6
  <2> QED
    BY <2>4, <2>5, <2>6
<1>9. CASE UNCHANGED <<net, wizard>>
  BY <1>0, <1>9 DEF wizard, HostOK, Found1
<1> QED
  BY <1>5, <1>6, <1>7, <1>8, <1>9, InternalCases DEF Old

LEMMA HostMove ==
  ASSUME IInv, LikeOK, HostOK, Moves
  PROVE  HostOK'
<1>0. UNCHANGED <<box, file>>
  BY MovesKeep DEF Kept
<1>01. DOMAIN page = Clients /\ box \in Boxes /\ ListsOK
  BY DEF IInv, ListsOK, PlaceOK
<1> PICK c \in Clients : Move(c)
  BY DEF Moves
<1>1. ASSUME NEW step \in {"Interfaces", "Internet", "InternalNetwork"},
             Open(c, step)
      PROVE  HostOK'
  <2>1. /\ Up /\ Answers(net, host[c]) /\ step \in Steps
        /\ UNCHANGED <<net, host, excused>>
        /\ page' = [page EXCEPT ![c] =
                      [step |-> step, base |-> net, copy |-> <<>>]]
    BY <1>1 DEF Open
  <2>2. /\ page'[c].step = step /\ page'[c].base = net
        /\ \A d \in Clients \ {c} : page'[d] = page[d]
    BY <1>01, <2>1
  <2>3. step = "InternalNetwork" => Inner[box] # 0
    <3>1. FirstNonWan(net) = Inner[box]
      BY <1>01, <2>1, LikeFirst DEF LikeOK, Up
    <3> QED
      BY <2>1, <3>1 DEF Steps
  <2> QED
    BY <1>0, <2>1, <2>2, <2>3 DEF HostOK, Found1, Up
<1>2. CASE Browse(c)
  <2>1. PICK h : Answers(net, h) /\ host' = [host EXCEPT ![c] = h]
    BY <1>2 DEF Browse
  <2>2. /\ Up /\ UNCHANGED <<net, page>> /\ page[c].step = "none"
        /\ excused' = excused \ {c}
    BY <1>2 DEF Browse
  <2>3. /\ DOMAIN host' = Clients /\ host'[c] = h
        /\ \A d \in Clients \ {c} : host'[d] = host[d]
    BY <2>1 DEF HostOK
  <2> QED
    BY <1>0, <2>1, <2>2, <2>3 DEF HostOK, Found1, Up
<1>3. CASE SaveInterfaces(c)
  <2> DEFINE list == page[c].base
             j    == SelectLastInSeq(list, LAMBDA i : ~i.isVlanInterface)
             new  == [list EXCEPT ![1].physicalDev = list[j].physicalDev,
                                  ![j].physicalDev = list[1].physicalDev]
  <2>1. /\ Up /\ page[c].step = "Interfaces" /\ Write(c, new, FALSE)
        /\ UNCHANGED host
    BY <1>3 DEF SaveInterfaces
  <2>2. Like(box, list) /\ Answers(list, host[c])
    BY <2>1 DEF LikeOK, HostOK
  <2> HIDE DEF list, j
  <2>3. \A i \in DOMAIN list : DOMAIN list[i] = Fields
    <3>1. /\ DOMAIN list = 1 .. Size[box]
          /\ \A i \in 1 .. Size[box] : DOMAIN list[i] = Fields
      BY <1>01, <2>2, LikeFirst
    <3> QED
      BY <3>1
  <2>4. Answers(new, host[c])
    BY <2>2, <2>3, AnswersSwap
  <2> HIDE DEF new
  <2> QED
    BY <1>0, <1>01, <2>1, <2>4, HostWritten
<1>4. CASE SaveInternet(c)
  <2>1. Up /\ UNCHANGED host
    BY <1>4, InternetCases
  <2>2. ASSUME NEW type, NEW address, NEW prefix,
               Write(c, WanSet(c, type, address, prefix), TRUE)
        PROVE  HostOK'
    BY <1>0, <1>01, <2>1, <2>2, HostWritten
  <2>3. CASE UNCHANGED <<net, wizard>>
    BY <1>0, <2>3 DEF wizard, HostOK, Found1
  <2> QED
    BY <1>4, <2>2, <2>3, InternetCases
<1>5. CASE SaveInternal(c)
  BY <1>5, HostInternal
<1>6. CASE Arrives(c)
  <2>1. /\ Up /\ page[c].step = "leaving" /\ UNCHANGED host
        /\ c \in excused \/ Answers(page[c].copy, host[c])
    BY <1>6 DEF Arrives, HostOK
  <2>2. CASE Write(c, page[c].copy, FALSE)
    BY <1>0, <1>01, <2>1, <2>2, HostWritten
  <2>3. CASE excused' = excused \cup {c} /\ Close(c) /\ UNCHANGED net
    <3>1. /\ page'[c].step = "none"
          /\ \A d \in Clients \ {c} : page'[d] = page[d]
      BY <1>01, <2>3 DEF Close, NoPage
    <3> QED
      BY <1>0, <2>1, <2>3, <3>1 DEF HostOK, Found1, Up
  <2> QED
    BY <1>6, <2>2, <2>3 DEF Arrives
<1> QED
  BY <1>1, <1>2, <1>3, <1>4, <1>5, <1>6 DEF Move

LEMMA HostStep ==
  ASSUME IInv, LikeOK, HostOK, [Next]_vars
  PROVE  HostOK'
<1>0. box \in Boxes /\ DOMAIN page = Clients
  BY DEF IInv, PlaceOK, ListsOK
<1>1. ASSUME UNCHANGED <<box, file, net, wizard>> PROVE HostOK'
  BY <1>1 DEF HostOK, Found1, wizard
<1>2. CASE Flash \/ Resize \/ Nvram \/ resize2fs \/ PowerOn \/ Upgrade
  BY <1>1, <1>2 DEF Flash, Resize, Nvram, resize2fs, PowerOn, Upgrade
(* While there are no settings no browser has left the WAN, which has an   *)
(* address over DHCP in the factory settings.                              *)
<1>3. ASSUME file # "whole", UNCHANGED <<box, wizard>>,
             file' = "whole" => net' = Factory(box)
      PROVE  HostOK'
  <2>1. \A d \in Clients : page'[d].step = "none" /\ host'[d] = Given("AUTO")
    BY <1>3 DEF HostOK, wizard
  <2>2. Answers(Factory(box), Given("AUTO"))
    <3> DEFINE f == Factory(box)
    <3>1. /\ Outer[box] \in DOMAIN f /\ f[Outer[box]].configType = "ADDRESSED"
          /\ f[Outer[box]].v4ConfigType = "AUTO"
      BY <1>0, Shape DEF Of
    <3> HIDE DEF f
    <3>2. /\ Address(f[Outer[box]]) = Given("AUTO")
          /\ Given("AUTO") # Nothing
      BY <3>1 DEF Address, Given, Nothing
    <3>3. Answers(f, Given("AUTO"))
      BY <3>1, <3>2, AnswersIs
    <3> QED
      BY <3>3 DEF f
  <2> QED
    BY <1>3, <2>1, <2>2 DEF HostOK, Found1, wizard
<1>4. CASE NetSettings
  <2>1. done = 1 => file # "whole"
    BY <1>4 DEF NetSettings, IInv, FileOK
  <2> QED
    BY <1>1, <1>3, <1>4, <2>1 DEF NetSettings
<1>5. CASE PostInst
  <2>1. done \in {1, 2} => file # "whole"
    BY <1>5 DEF PostInst, IInv, FileOK
  <2> QED
    BY <1>1, <1>3, <1>5, <2>1 DEF PostInst
<1>6. ASSUME Stops PROVE HostOK'
  <2>1. \A d \in Clients : page'[d].step = "none"
    BY <1>6 DEF Stops, NoPage
  <2>2. /\ UNCHANGED <<box, file, net, host>>
        /\ \A d \in Clients : page[d].step = "leaving" \/ d \in excused
                                => d \in excused'
    BY <1>6 DEF Stops
  <2> QED
    BY <2>1, <2>2 DEF HostOK, Found1
<1>7. CASE Reboot
  BY <1>1, <1>6, <1>7 DEF Reboot
<1>8. CASE PowerFails
  BY <1>6, <1>8 DEF PowerFails
<1>9. CASE UNCHANGED vars
  BY <1>1, <1>9 DEF vars
<1>10. Next => \/ Flash \/ Resize \/ Nvram \/ NetSettings \/ PostInst \/ Reboot
               \/ resize2fs \/ PowerFails \/ PowerOn \/ Upgrade \/ Moves
  BY DEF Next, Script, Move, Moves
<1> QED
  BY <1>2, <1>4, <1>5, <1>7, <1>8, <1>9, <1>10, HostMove

LEMMA Lasting == Spec => [](IInv /\ LikeOK /\ HostOK)
<1>1. Init => LikeOK /\ HostOK
  BY DEF Init, LikeOK, HostOK, NoPage
<1>2. IInv /\ LikeOK /\ HostOK /\ [Next]_vars => LikeOK' /\ HostOK'
  BY LikeStep, HostStep
<1> QED
  BY <1>1, <1>2, Inductive, PTL DEF Spec

(* The address a browser uses still answers, whoever saved whatever page,  *)
(* and whenever the power failed: the page of the internal network leads   *)
(* its browser to the new address before it saves (Interface.vue).         *)
(* Excused are the browsers of other users, those that use a WAN address   *)
(* the Internet page takes away, one whose save was lost on the way or     *)
(* puts back another address of the WAN than the one it was led to, and    *)
(* one that typed an address and then chose the bridge.                    *)
THEOREM FoundCorrect == Spec => []Found
<1>1. IInv /\ LikeOK /\ HostOK => Found
  BY DEF HostOK, Found1, Found, Up
<1> QED
  BY <1>1, Lasting, PTL
-----------------------------------------------------------------------------
(* What such a list keeps of an interface of the factory settings.         *)
Placed(list, i, id, to, types) ==
  /\ i \in DOMAIN list
  /\ list[i].interfaceId = id /\ list[i].bridgedTo = to
  /\ list[i].configType \in types
Either(type) == {"ADDRESSED", "BRIDGED", type}

(* Every interface by its place.                                           *)
CaswellPlaces(list) ==
  /\ DOMAIN list = 1 .. 8
  /\ Placed(list, 1, 1, 0, {"ADDRESSED"})
  /\ Placed(list, 2, 2, 1, Either("ADDRESSED")) /\ ~list[2].isWan
  /\ Placed(list, 3, 3, 2, {"BRIDGED"})
  /\ Placed(list, 4, 4, 2, {"BRIDGED"})
  /\ Placed(list, 5, 5, 2, {"BRIDGED"})
  /\ Placed(list, 6, 6, 2, {"BRIDGED"})
  /\ Placed(list, 7, 7, 2, {"BRIDGED"})
  /\ Placed(list, 8, 8, 2, {"BRIDGED"})
CloudPlaces(list) ==
  DOMAIN list = 1 .. 1 /\ Placed(list, 1, 1, 0, {"ADDRESSED"})
LinksysPlaces(list) ==
  /\ DOMAIN list = 1 .. 4
  /\ Placed(list, 1, 1, 0, {"ADDRESSED"})
  /\ Placed(list, 2, 2, 0, Either("ADDRESSED")) /\ ~list[2].isWan
  /\ Placed(list, 3, 3, 2, {"BRIDGED"})
  /\ Placed(list, 4, 4, 2, {"BRIDGED"})
TurrisPlaces(list) ==
  /\ DOMAIN list = 1 .. 5
  /\ Placed(list, 1, 1, 0, {"ADDRESSED"})
  /\ Placed(list, 2, 2, 0, Either("ADDRESSED"))
  /\ Placed(list, 3, 3, 2, {"DISABLED"})
  /\ Placed(list, 4, 4, 2, {"BRIDGED"})
  /\ Placed(list, 5, 5, 2, {"BRIDGED"})
AsusPlaces(list) ==
  /\ DOMAIN list = 1 .. 5
  /\ Placed(list, 1, 1, 0, Either("DISABLED"))
  /\ Placed(list, 2, 100, 0, {"ADDRESSED"})
  /\ Placed(list, 3, 101, 0, {"ADDRESSED"}) /\ ~list[3].isWan
  /\ Placed(list, 4, 102, 101, {"BRIDGED"})
  /\ Placed(list, 5, 103, 101, {"BRIDGED"})

LEMMA PlacesOf ==
  ASSUME NEW b \in Boxes, NEW list, Like(b, list)
  PROVE  /\ b = "caswell" => CaswellPlaces(list)
         /\ b = "cloud" => CloudPlaces(list)
         /\ b = "linksys" => LinksysPlaces(list)
         /\ b = "turris" => TurrisPlaces(list)
         /\ b = "asus" => AsusPlaces(list)
<1> DEFINE f == Factory(b)
           n == Size[b]
           k == Inner[b]
<1>0. DOMAIN list = 1 .. n
  BY LikeFirst
<1>01. \A i \in 1 .. n :
         /\ list[i].interfaceId = f[i].interfaceId
         /\ list[i].bridgedTo = f[i].bridgedTo /\ list[i].isWan = f[i].isWan
         /\ IF i = k THEN list[i].configType \in Either(f[i].configType)
            ELSE list[i].configType = f[i].configType
  BY DEF Like, ItemLike, SamePlace, InnerLike, Either
<1>1. ASSUME b = "caswell" PROVE CaswellPlaces(list)
  <2>0. n = 8 /\ k = 2
    BY <1>1, Sizes
  <2>1. /\ Plain(f[1], 1, 0, "ADDRESSED", TRUE)
        /\ Plain(f[2], 2, 1, "ADDRESSED", FALSE)
        /\ Plain(f[3], 3, 2, "BRIDGED", FALSE)
        /\ Plain(f[4], 4, 2, "BRIDGED", FALSE)
        /\ Plain(f[5], 5, 2, "BRIDGED", FALSE)
        /\ Plain(f[6], 6, 2, "BRIDGED", FALSE)
        /\ Plain(f[7], 7, 2, "BRIDGED", FALSE)
        /\ Plain(f[8], 8, 2, "BRIDGED", FALSE)
    BY <1>1, CaswellTable DEF Port
  <2> HIDE DEF f, n, k
  <2>2. Placed(list, 1, 1, 0, {"ADDRESSED"})
    BY <1>0, <1>01, <2>0, <2>1 DEF Plain, Placed
  <2>3. Placed(list, 2, 2, 1, Either("ADDRESSED")) /\ ~list[2].isWan
    BY <1>0, <1>01, <2>0, <2>1 DEF Plain, Placed
  <2>4. Placed(list, 3, 3, 2, {"BRIDGED"})
    BY <1>0, <1>01, <2>0, <2>1 DEF Plain, Placed
  <2>5. Placed(list, 4, 4, 2, {"BRIDGED"})
    BY <1>0, <1>01, <2>0, <2>1 DEF Plain, Placed
  <2>6. Placed(list, 5, 5, 2, {"BRIDGED"})
    BY <1>0, <1>01, <2>0, <2>1 DEF Plain, Placed
  <2>7. Placed(list, 6, 6, 2, {"BRIDGED"})
    BY <1>0, <1>01, <2>0, <2>1 DEF Plain, Placed
  <2>8. Placed(list, 7, 7, 2, {"BRIDGED"})
    BY <1>0, <1>01, <2>0, <2>1 DEF Plain, Placed
  <2>9. Placed(list, 8, 8, 2, {"BRIDGED"})
    BY <1>0, <1>01, <2>0, <2>1 DEF Plain, Placed
  <2> QED
    BY <1>0, <2>0, <2>2, <2>3, <2>4, <2>5, <2>6, <2>7, <2>8, <2>9
       DEF CaswellPlaces
<1>2. ASSUME b = "cloud" PROVE CloudPlaces(list)
  <2>0. n = 1 /\ k = 0
    BY <1>2, Sizes
  <2>1. Plain(f[1], 1, 0, "ADDRESSED", TRUE)
    BY <1>2, CloudTable DEF Port
  <2> HIDE DEF f, n, k
  <2>2. Placed(list, 1, 1, 0, {"ADDRESSED"})
    BY <1>0, <1>01, <2>0, <2>1 DEF Plain, Placed
  <2> QED
    BY <1>0, <2>0, <2>2 DEF CloudPlaces
<1>3. ASSUME b = "linksys" PROVE LinksysPlaces(list)
  <2>0. n = 4 /\ k = 2
    BY <1>3, Sizes
  <2>1. /\ Plain(f[1], 1, 0, "ADDRESSED", TRUE)
        /\ Plain(f[2], 2, 0, "ADDRESSED", FALSE)
        /\ Plain(f[3], 3, 2, "BRIDGED", FALSE)
        /\ Plain(f[4], 4, 2, "BRIDGED", FALSE)
    BY <1>3, LinksysTable DEF Port
  <2> HIDE DEF f, n, k
  <2>2. Placed(list, 1, 1, 0, {"ADDRESSED"})
    BY <1>0, <1>01, <2>0, <2>1 DEF Plain, Placed
  <2>3. Placed(list, 2, 2, 0, Either("ADDRESSED")) /\ ~list[2].isWan
    BY <1>0, <1>01, <2>0, <2>1 DEF Plain, Placed
  <2>4. Placed(list, 3, 3, 2, {"BRIDGED"})
    BY <1>0, <1>01, <2>0, <2>1 DEF Plain, Placed
  <2>5. Placed(list, 4, 4, 2, {"BRIDGED"})
    BY <1>0, <1>01, <2>0, <2>1 DEF Plain, Placed
  <2> QED
    BY <1>0, <2>0, <2>2, <2>3, <2>4, <2>5 DEF LinksysPlaces
<1>4. ASSUME b = "turris" PROVE TurrisPlaces(list)
  <2>0. n = 5 /\ k = 2
    BY <1>4, Sizes
  <2>1. /\ Plain(f[1], 1, 0, "ADDRESSED", TRUE)
        /\ Plain(f[2], 2, 0, "ADDRESSED", FALSE)
        /\ Plain(f[3], 3, 2, "DISABLED", FALSE)
        /\ Plain(f[4], 4, 2, "BRIDGED", FALSE)
        /\ Plain(f[5], 5, 2, "BRIDGED", FALSE)
    BY <1>4, TurrisTable DEF Port
  <2> HIDE DEF f, n, k
  <2>2. Placed(list, 1, 1, 0, {"ADDRESSED"})
    BY <1>0, <1>01, <2>0, <2>1 DEF Plain, Placed
  <2>3. Placed(list, 2, 2, 0, Either("ADDRESSED")) /\ ~list[2].isWan
    BY <1>0, <1>01, <2>0, <2>1 DEF Plain, Placed
  <2>4. Placed(list, 3, 3, 2, {"DISABLED"})
    BY <1>0, <1>01, <2>0, <2>1 DEF Plain, Placed
  <2>5. Placed(list, 4, 4, 2, {"BRIDGED"})
    BY <1>0, <1>01, <2>0, <2>1 DEF Plain, Placed
  <2>6. Placed(list, 5, 5, 2, {"BRIDGED"})
    BY <1>0, <1>01, <2>0, <2>1 DEF Plain, Placed
  <2> QED
    BY <1>0, <2>0, <2>2, <2>3, <2>4, <2>5, <2>6 DEF TurrisPlaces
<1>5. ASSUME b = "asus" PROVE AsusPlaces(list)
  <2>0. n = 5 /\ k = 1
    BY <1>5, Sizes
  <2>1. /\ Plain(f[1], 1, 0, "DISABLED", FALSE)
        /\ Plain(f[2], 100, 0, "ADDRESSED", TRUE)
        /\ Plain(f[3], 101, 0, "ADDRESSED", FALSE)
        /\ Plain(f[4], 102, 101, "BRIDGED", FALSE)
        /\ Plain(f[5], 103, 101, "BRIDGED", FALSE)
    BY <1>5, AsusTable DEF Port
  <2> HIDE DEF f, n, k
  <2>2. Placed(list, 1, 1, 0, Either("DISABLED")) /\ ~list[1].isWan
    BY <1>0, <1>01, <2>0, <2>1 DEF Plain, Placed
  <2>3. Placed(list, 2, 100, 0, {"ADDRESSED"})
    BY <1>0, <1>01, <2>0, <2>1 DEF Plain, Placed
  <2>4. Placed(list, 3, 101, 0, {"ADDRESSED"}) /\ ~list[3].isWan
    BY <1>0, <1>01, <2>0, <2>1 DEF Plain, Placed
  <2>5. Placed(list, 4, 102, 101, {"BRIDGED"})
    BY <1>0, <1>01, <2>0, <2>1 DEF Plain, Placed
  <2>6. Placed(list, 5, 103, 101, {"BRIDGED"})
    BY <1>0, <1>01, <2>0, <2>1 DEF Plain, Placed
  <2> QED
    BY <1>0, <2>0, <2>2, <2>3, <2>4, <2>5, <2>6 DEF AsusPlaces
<1> QED
  BY <1>1, <1>2, <1>3, <1>4, <1>5

(* The factory rules let every enabled internal interface reach the        *)
(* administration, DNS, DHCP and the block page, let no such service but   *)
(* the administration be reached from the WAN, and let an appliance that   *)
(* has no internal interface be administered from there (the "inputRules"  *)
(* or "accessRules" of the network.js of the hardware packages), whatever  *)
(* is saved later.                                                         *)
THEOREM AdmitsCorrect == Spec => []Admits
<1> DEFINE inside == \E i \in DOMAIN net : /\ ~net[i].isWan
                                           /\ net[i].configType # "DISABLED"
<1>1. ASSUME IInv, LikeOK PROVE Admits
  <2>1. box \in Boxes
    BY <1>1 DEF IInv, PlaceOK
  <2>2. ASSUME NEW s \in Services, NEW v6 \in BOOLEAN
        PROVE  ~Serves(s, "wan", v6)
    BY <2>1, RulesOpen, RulesClosed DEF Serves
  <2>3. ASSUME NEW s, Service(s), NEW v6 \in BOOLEAN
        PROVE  Serves(s, "non_wan", v6)
    <3>1. CASE box = "caswell"
      <4>1. Rules(box) = CaswellRules
        BY <3>1 DEF Rules
      <4> QED
        BY <2>3, <4>1, CaswellOpen DEF Serves
    <3>2. CASE box # "caswell"
      <4>1. \/ Opening(Rules(box), V4(SSH), V4(HTTPSWan))
            \/ Opening(Rules(box), Off(SSH), Off(HTTPSWan))
        BY <2>1, <3>2, RulesOpen DEF Boxes
      <4> QED
        BY <2>3, <4>1, EightOpen DEF Serves
    <3> QED
      BY <3>1, <3>2
  <2>4. ASSUME file = "whole", ~inside
        PROVE  Serves(<<443, "TCP">>, "wan", FALSE)
    <3>1. Like(box, net)
      BY <1>1, <2>4 DEF LikeOK
    <3>2. box \notin {"caswell", "linksys", "asus"}
      BY <2>1, <2>4, <3>1, PlacesOf
         DEF CaswellPlaces, LinksysPlaces, AsusPlaces, Placed, Either
    <3>3. Opening(Rules(box), V4(SSH), V4(HTTPSWan))
      BY <2>1, <3>2, RulesOpen DEF Boxes
    <3> QED
      BY <3>3, AdminOpen DEF Serves
  <2> QED
    BY <2>2, <2>3, <2>4 DEF Admits, Service
<1> QED
  BY <1>1, Lasting, PTL
-----------------------------------------------------------------------------
(* A range that an interface serves lies in its subnet.                    *)
Fits(intf) ==
  intf.dhcpRangeStart # Nothing =>
    \A a \in {intf.dhcpRangeStart, intf.dhcpRangeEnd} :
      a \div 2 ^ (32 - intf.v4StaticPrefix)
        = Subnet(intf, intf.v4StaticPrefix)

LEMMA FitsAs ==
  ASSUME NEW intf, NEW old, SameRange(intf, old), Fits(old)
  PROVE  Fits(intf)
BY DEF SameRange, Fits, Subnet

LEMMA FitsBare ==
  ASSUME NEW intf, Bare(intf) PROVE Fits(intf)
BY DEF Bare, Ranged, Fits

LEMMA Fits24 ==
  ASSUME NEW intf, Ranged(intf, 513, 24, 612, 712) PROVE Fits(intf)
<1>1. 2 ^ (32 - 24) = 256
  OBVIOUS
<1>2. 513 \div 256 = 2 /\ 612 \div 256 = 2 /\ 712 \div 256 = 2
  OBVIOUS
<1> QED
  BY <1>1, <1>2 DEF Ranged, Fits, Subnet

LEMMA FitsAsus ==
  ASSUME NEW intf, Ranged(intf, 257, 16, 356, 456) PROVE Fits(intf)
<1>1. 2 ^ (32 - 16) = 65536
  OBVIOUS
<1>2. 257 \div 65536 = 0 /\ 356 \div 65536 = 0 /\ 456 \div 65536 = 0
  OBVIOUS
<1> QED
  BY <1>1, <1>2 DEF Ranged, Fits, Subnet

LEMMA Fits16 ==
  ASSUME NEW intf, Lan16(intf) PROVE Fits(intf)
<1>1. 2 ^ (32 - 16) = 65536
  OBVIOUS
<1>2. 2817 \div 65536 = 0
  OBVIOUS
<1>3. 2916 \div 65536 = 0
  OBVIOUS
<1>4. 3016 \div 65536 = 0
  OBVIOUS
<1> QED
  BY <1>1, <1>2, <1>3, <1>4 DEF Lan16, Ranged, Fits, Subnet

LEMMA FactoryFits ==
  ASSUME NEW b \in Boxes, NEW i \in 1 .. Size[b],
         i = Inner[b] \/ Factory(b)[i].configType = "ADDRESSED"
  PROVE  Fits(Factory(b)[i])
<1> DEFINE f == Factory(b)
<1>1. CASE b = "caswell"
  <2>1. /\ Bare(f[1]) /\ Ranged(f[2], 513, 24, 612, 712)
        /\ Bare(f[3]) /\ Bare(f[4]) /\ Bare(f[5]) /\ Bare(f[6]) /\ Bare(f[7])
        /\ Bare(f[8])
    BY <1>1, CaswellTable DEF Port
  <2>2. i \in 1 .. 8
    BY <1>1, Sizes
  <2> HIDE DEF f
  <2>3. Fits(f[2])
    BY <2>1, Fits24
  <2>4. i # 2 => Bare(f[i])
    BY <2>1, <2>2
  <2> QED
    BY <2>3, <2>4, FitsBare DEF f
<1>2. CASE b = "cloud"
  <2>1. Bare(f[1]) /\ i = 1
    BY <1>2, CloudTable, Sizes
  <2> QED
    BY <2>1, FitsBare
<1>3. CASE b = "linksys"
  <2>1. Bare(f[1]) /\ Lan16(f[2]) /\ Bare(f[3]) /\ Bare(f[4])
    BY <1>3, LinksysTable DEF Port
  <2>2. i \in 1 .. 4
    BY <1>3, Sizes
  <2> HIDE DEF f
  <2>3. Fits(f[2])
    BY <2>1, Fits16
  <2>4. i # 2 => Bare(f[i])
    BY <2>1, <2>2
  <2> QED
    BY <2>3, <2>4, FitsBare DEF f
<1>4. CASE b = "turris"
  <2>1. Bare(f[1]) /\ Lan16(f[2]) /\ Bare(f[3]) /\ Bare(f[4]) /\ Bare(f[5])
    BY <1>4, TurrisTable DEF Port
  <2>2. i \in 1 .. 5
    BY <1>4, Sizes
  <2> HIDE DEF f
  <2>3. Fits(f[2])
    BY <2>1, Fits16
  <2>4. i # 2 => Bare(f[i])
    BY <2>1, <2>2
  <2> QED
    BY <2>3, <2>4, FitsBare DEF f
<1>5. CASE b = "asus"
  <2>1. /\ Bare(f[1]) /\ Bare(f[2]) /\ Ranged(f[3], 257, 16, 356, 456)
        /\ f[4].configType = "BRIDGED" /\ f[5].configType = "BRIDGED"
    BY <1>5, AsusTable DEF Plain
  <2>2. i \in 1 .. 3
    BY <1>5, <2>1, Sizes
  <2> HIDE DEF f
  <2>3. Fits(f[3])
    BY <2>1, FitsAsus
  <2>4. i # 3 => Bare(f[i])
    BY <2>1, <2>2
  <2> QED
    BY <2>3, <2>4, FitsBare DEF f
<1> QED
  BY <1>1, <1>2, <1>3, <1>4, <1>5 DEF Boxes

LEMMA LikeFits ==
  ASSUME NEW b \in Boxes, NEW list, Like(b, list), NEW i \in DOMAIN list,
         HasAddress(list, i)
  PROVE  Fits(list[i])
<1>1. i \in 1 .. Size[b] /\ ItemLike(b, i, list[i])
  BY LikeFirst DEF Like
<1>2. list[i].configType = "ADDRESSED"
  BY DEF HasAddress
<1>3. CASE i = Inner[b]
  <2>1. CASE SameRange(list[i], Factory(b)[i])
    BY <1>1, <1>3, <2>1, FactoryFits, FitsAs
  <2>2. CASE list[i].dhcpRangeStart = Nothing
    BY <2>2 DEF Fits
  <2> QED
    BY <1>1, <1>2, <1>3, <2>1, <2>2 DEF ItemLike, InnerLike
<1>4. CASE i = Outer[b] /\ i # Inner[b]
  BY <1>1, <1>4 DEF ItemLike, Fits
<1>5. CASE i # Inner[b] /\ i # Outer[b]
  <2>1. /\ SameRange(list[i], Factory(b)[i])
        /\ Factory(b)[i].configType = "ADDRESSED"
    BY <1>1, <1>2, <1>5 DEF ItemLike
  <2> QED
    BY <1>1, <2>1, FactoryFits, FitsAs
<1> QED
  BY <1>3, <1>4, <1>5

(* Only the internal interface and the WAN may have an address that was    *)
(* typed, but for the Asus, whose first interface is a disabled one.       *)
LEMMA OneSubnet ==
  ASSUME NEW b \in Boxes \ {"asus"}, NEW list, Like(b, list),
         NEW i \in Static4(list)
  PROVE  i = Inner[b] \/ i = Outer[b]
<1>1. /\ i \in 1 .. Size[b] /\ ItemLike(b, i, list[i])
      /\ list[i].configType = "ADDRESSED"
      /\ list[i].v4StaticAddress # Nothing
  BY LikeFirst DEF Like, Static4, HasAddress
<1> SUFFICES ASSUME i # Inner[b], i # Outer[b] PROVE FALSE
  OBVIOUS
<1> DEFINE f == Factory(b)
<1>2. f[i].configType = "ADDRESSED" /\ f[i].v4StaticAddress # Nothing
  BY <1>1 DEF ItemLike, SameRange
<1>3. ~Bare(f[i])
  BY <1>2 DEF Bare, Ranged
<1>4. CASE b = "caswell"
  <2>1. /\ Bare(f[1]) /\ Bare(f[3]) /\ Bare(f[4]) /\ Bare(f[5])
        /\ Bare(f[6]) /\ Bare(f[7]) /\ Bare(f[8])
    BY <1>4, CaswellTable DEF Port
  <2>2. i \in 1 .. 8 /\ i # 2
    BY <1>1, <1>4, Sizes
  <2> HIDE DEF f
  <2> QED
    BY <1>3, <2>1, <2>2
<1>5. CASE b = "cloud"
  <2>1. Bare(f[1]) /\ i = 1
    BY <1>1, <1>5, CloudTable, Sizes
  <2> QED
    BY <1>3, <2>1
<1>6. CASE b = "linksys"
  <2>1. Bare(f[1]) /\ Bare(f[3]) /\ Bare(f[4])
    BY <1>6, LinksysTable DEF Port
  <2>2. i \in 1 .. 4 /\ i # 2
    BY <1>1, <1>6, Sizes
  <2> HIDE DEF f
  <2> QED
    BY <1>3, <2>1, <2>2
<1>7. CASE b = "turris"
  <2>1. Bare(f[1]) /\ Bare(f[3]) /\ Bare(f[4]) /\ Bare(f[5])
    BY <1>7, TurrisTable DEF Port
  <2>2. i \in 1 .. 5 /\ i # 2
    BY <1>1, <1>7, Sizes
  <2> HIDE DEF f
  <2> QED
    BY <1>3, <2>1, <2>2
<1> QED
  BY <1>4, <1>5, <1>6, <1>7 DEF Boxes

(* An interface bridged to one that has an address, or to one so bridged.  *)
LEMMA Bridge ==
  ASSUME NEW list, NEW i \in DOMAIN list, NEW j \in DOMAIN list,
         list[i].configType = "BRIDGED",
         list[j].interfaceId = list[i].bridgedTo
  PROVE  /\ HasAddress(list, j) => Reaches(list, i) /\ Carried(list, i)
         /\ Reaches(list, j) => Carried(list, i)
BY DEF Over, Reaches, Carried

LEMMA AllCarried ==
  ASSUME NEW b \in Boxes, NEW list, Like(b, list)
  PROVE  \/ Unbridged(list)
         \/ \A i \in DOMAIN list :
              list[i].configType = "DISABLED" \/ Carried(list, i)
<1> DEFINE all == \A i \in DOMAIN list :
                    list[i].configType = "DISABLED" \/ Carried(list, i)
<1>0. FirstNonWan(list) = Inner[b]
  BY LikeFirst
<1>1. CASE b = "caswell"
  <2>1. CaswellPlaces(list)
    BY <1>1, PlacesOf
  <2>2. Carried(list, 1) /\ HasAddress(list, 1)
    BY <2>1 DEF CaswellPlaces, Placed, HasAddress, Carried
  <2>3. HasAddress(list, 2) \/ Reaches(list, 2)
    BY <2>1, <2>2, Bridge DEF CaswellPlaces, Placed, Either, HasAddress
  <2>4. Carried(list, 2)
    BY <2>3 DEF Carried
  <2>5. \A i \in 3 .. 8 : /\ list[i].configType = "BRIDGED"
                          /\ list[2].interfaceId = list[i].bridgedTo
                          /\ i \in DOMAIN list /\ 2 \in DOMAIN list
    BY <2>1 DEF CaswellPlaces, Placed
  <2>6. \A i \in 3 .. 8 : Carried(list, i)
    BY <2>3, <2>5, Bridge
  <2> QED
    BY <2>1, <2>2, <2>4, <2>6 DEF CaswellPlaces
<1>2. CASE b = "cloud"
  BY <1>2, PlacesOf DEF CloudPlaces, Placed, Carried, HasAddress
<1>3. CASE b = "linksys"
  <2>1. LinksysPlaces(list) /\ FirstNonWan(list) = 2
    BY <1>0, <1>3, PlacesOf, Sizes
  <2>2. Carried(list, 1)
    BY <2>1 DEF LinksysPlaces, Placed, HasAddress, Carried
  <2>3. Unbridged(list) \/ HasAddress(list, 2)
    BY <2>1 DEF LinksysPlaces, Placed, Either, HasAddress, Unbridged
  <2>4. \A i \in 3 .. 4 : /\ list[i].configType = "BRIDGED"
                          /\ list[2].interfaceId = list[i].bridgedTo
                          /\ i \in DOMAIN list /\ 2 \in DOMAIN list
    BY <2>1 DEF LinksysPlaces, Placed
  <2>5. CASE HasAddress(list, 2)
    <3>1. \A i \in 3 .. 4 : Carried(list, i)
      BY <2>4, <2>5, Bridge
    <3> QED
      BY <2>1, <2>2, <2>5, <3>1 DEF LinksysPlaces, Carried
  <2> QED
    BY <2>3, <2>5
<1>4. CASE b = "turris"
  <2>1. TurrisPlaces(list) /\ FirstNonWan(list) = 2
    BY <1>0, <1>4, PlacesOf, Sizes
  <2>2. Carried(list, 1) /\ list[3].configType = "DISABLED"
    BY <2>1 DEF TurrisPlaces, Placed, HasAddress, Carried
  <2>3. Unbridged(list) \/ HasAddress(list, 2)
    BY <2>1 DEF TurrisPlaces, Placed, Either, HasAddress, Unbridged
  <2>4. \A i \in 4 .. 5 : /\ list[i].configType = "BRIDGED"
                          /\ list[2].interfaceId = list[i].bridgedTo
                          /\ i \in DOMAIN list /\ 2 \in DOMAIN list
    BY <2>1 DEF TurrisPlaces, Placed
  <2>5. CASE HasAddress(list, 2)
    <3>1. \A i \in 4 .. 5 : Carried(list, i)
      BY <2>4, <2>5, Bridge
    <3> QED
      BY <2>1, <2>2, <2>5, <3>1 DEF TurrisPlaces, Carried
  <2> QED
    BY <2>3, <2>5
<1>5. CASE b = "asus"
  <2>1. AsusPlaces(list) /\ FirstNonWan(list) = 1
    BY <1>0, <1>5, PlacesOf, Sizes
  <2>2. HasAddress(list, 2) /\ HasAddress(list, 3)
    BY <2>1 DEF AsusPlaces, Placed, HasAddress
  <2>3. \/ Unbridged(list) \/ HasAddress(list, 1)
        \/ list[1].configType = "DISABLED"
    BY <2>1 DEF AsusPlaces, Placed, Either, HasAddress, Unbridged
  <2>4. Carried(list, 4) /\ Carried(list, 5)
    BY <2>1, <2>2, Bridge DEF AsusPlaces, Placed
  <2> QED
    BY <2>1, <2>2, <2>3, <2>4 DEF AsusPlaces, Carried
<1> QED
  BY <1>1, <1>2, <1>3, <1>4, <1>5 DEF Boxes

(* Whatever pages are saved in whatever order, by any number of browsers   *)
(* and with any addresses: an enabled interface has an address or is       *)
(* bridged to one that has, unless the wizard bridged one that is bridged  *)
(* to nothing; a DHCP range lies in the subnet of its interface; and no    *)
(* two subnets overlap, unless the wizard gave the address to a disabled   *)
(* interface instead of the internal one (Interface.vue), or a static      *)
(* address was typed for the WAN, which is checked against nothing         *)
(* (Internet.vue).                                                         *)
THEOREM AddressingCorrect == Spec => []Addressing
<1>1. ASSUME IInv, LikeOK PROVE Addressing
  <2>1. box \in Boxes
    BY <1>1 DEF IInv, PlaceOK
  <2>2. CASE file # "whole"
    <3>1. net = << >>
      BY <1>1, <2>2 DEF IInv, ListsOK
    <3>2. DOMAIN net = {}
      BY <3>1
    <3> QED
      BY <3>2 DEF Addressing, Static4
  <2>3. CASE file = "whole"
    <3>1. Like(box, net)
      BY <1>1, <2>3 DEF LikeOK
    <3>2. \A i \in Static4(net) :
            /\ net[i].dhcpType = "SERVER" /\ net[i].dhcpRangeStart # Nothing
            => \A a \in {net[i].dhcpRangeStart, net[i].dhcpRangeEnd} :
                 a \div 2 ^ (32 - net[i].v4StaticPrefix)
                   = Subnet(net[i], net[i].v4StaticPrefix)
      <4>1. \A i \in Static4(net) : i \in DOMAIN net /\ HasAddress(net, i)
        BY DEF Static4
      <4>2. \A i \in Static4(net) : Fits(net[i])
        BY <2>1, <3>1, <4>1, LikeFits
      <4> QED
        BY <4>2 DEF Fits
    <3>3. CASE box = "asus"
      <4>1. FirstNonWan(Factory(box)) = 1
        BY <2>1, <3>3, LikeFactory, LikeFirst, Sizes
      <4>2. Factory(box)[1].configType = "DISABLED"
        BY <3>3, AsusTable DEF Plain
      <4>3. TakesDisabled
        BY <4>1, <4>2 DEF TakesDisabled
      <4> QED
        BY <2>1, <3>1, <3>2, <4>3, AllCarried DEF Addressing
    <3>4. CASE box # "asus"
      <4>0. \A i \in Static4(net) : i = Inner[box] \/ i = Outer[box]
        BY <2>1, <3>1, <3>4, OneSubnet
      <4>01. Inner[box] \in DOMAIN net => ~net[Inner[box]].isWan
        BY <2>1, <3>1, LikeFirst, Shape DEF Like, ItemLike, SamePlace
      <4>02. net[Outer[box]].isWan
        BY <2>1, <3>1, LikeFirst, Shape DEF Like, ItemLike, SamePlace
      <4>1. \A i, j \in Static4(net) : i = j \/ net[i].isWan # net[j].isWan
        <5>1. \A i \in Static4(net) : i \in DOMAIN net
          BY DEF Static4
        <5> QED
          BY <4>0, <4>01, <4>02, <5>1
      <4> QED
        BY <2>1, <3>1, <3>2, <4>1, AllCarried DEF Addressing
    <3> QED
      BY <3>3, <3>4
  <2> QED
    BY <2>2, <2>3
<1> QED
  BY <1>1, Lasting, PTL
=============================================================================
