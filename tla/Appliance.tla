----------------------------- MODULE Appliance ------------------------------
(* An appliance from the factory to its first settings: the scripts that   *)
(* prepare it at boot (firmware.d of untangle-firmware-common and of the   *)
(* hardware packages, run by run-parts in the order of their names), the   *)
(* package that installs its network settings, and the pages of the setup  *)
(* wizard that load, change and save them as a whole, in one or more       *)
(* browsers.  The power may fail between any two steps.                    *)
EXTENDS ApplianceNetwork, FiniteSets

CONSTANTS Clients,       \* browsers with a session of the administrator
          Typed,         \* the addresses a user may type
          Masks,         \* the netmasks a user may choose
          MaxCuts,       \* bounds: power failures,
          MaxUpgrades,   \*   upgrades of the hardware package,
          MaxSaves,      \*   settings saved,
          MaxEvents      \*   and all of these together

ASSUME ApplianceAssumption ==
  /\ {MaxCuts, MaxUpgrades, MaxSaves, MaxEvents} \subseteq Nat
  /\ Typed \subseteq 0 .. 65535 /\ Masks \subseteq 1 .. 32

VARIABLES
  box,          \* the kind of appliance
  at,           \* "off", the script that runs, or "up"
  done,         \* how far that script is
  file,         \* network.js: "none", "torn" (a copy cut short) or "whole"
  net,          \* the interfaces in it, once whole
  slots,        \* the two flash partitions that hold the kernel
  disk,         \* the size of the root partition on the disk
  mounted,      \*   and as the running kernel read it
  fs,           \* the size of the file system
  growing,      \* resize2fs runs in the background (0 or 1)
  nvram,        \* the switch variables of the NVRAM
  booted,       \*   and as the running kernel read them
  flags,        \* flag files: "part", "fs", "nvram", "reboot", "installed"
  page,         \* each browser's page of the wizard, what it loaded (base), and
                \*   once it is left what it saves (copy)
  host,         \* the address each browser reaches the appliance by
  cuts, upgrades, saves,
  interrupted,  \* history: what was cut short and not done again
  excused       \* history: browsers whose address went away behind them

boot   == <<slots, disk, mounted, fs, growing, nvram, booted, flags>>
wizard == <<page, host, saves, excused>>
vars   == <<box, at, done, file, net, boot, wizard, cuts, upgrades,
            interrupted>>

-----------------------------------------------------------------------------
(* Scripts.                                                                *)

AtBoot == [caswell |-> <<>>,
           cloud   |-> <<"netsettings">>,
           linksys |-> <<"flash1", "flash2", "resize", "netsettings",
                         "reboot">>,
           turris  |-> <<"netsettings", "reboot">>,
           asus    |-> <<"resize", "nvram", "netsettings", "reboot">>]

(* Installing or upgrading the package runs the same scripts again, or its *)
(* own postinst.                                                           *)
AtInstall == [AtBoot EXCEPT !.caswell = <<"postinst">>]

First(scripts) == IF scripts = <<>> THEN "up" ELSE Head(scripts)

Follower == LET scripts == AtInstall[box]
                i       == CHOOSE i \in DOMAIN scripts : scripts[i] = at
            IN  IF i = Len(scripts) THEN "up" ELSE scripts[i + 1]

(* Whatever address an interface is given over DHCP or over PPPoE.         *)
Given(type) == IF type = "PPPOE" THEN -3 ELSE -2

Bounded == cuts + upgrades + saves < MaxEvents

NoPage == [step |-> "none", base |-> <<>>, copy |-> <<>>]

Init ==
  /\ box \in Boxes
  /\ at = First(AtInstall[box])
  /\ done = 0
  /\ file = "none" /\ net = <<>>
  /\ slots \in IF box = "linksys" THEN {<<"new", "old">>, <<"old", "old">>}
                                  ELSE {<<"new", "new">>}
  /\ disk = "small" /\ mounted = "small" /\ fs = "small" /\ growing = 0
  /\ nvram = "old" /\ booted = "old"
  /\ flags = {}
  /\ page = [c \in Clients |-> NoPage]
  /\ host = [c \in Clients |-> Given("AUTO")]
  /\ cuts = 0 /\ upgrades = 0 /\ saves = 0
  /\ interrupted = {} /\ excused = {}

Goes(next) == at' = next /\ done' = 0
Does       == at' = at /\ done' = done + 1

(* 000flashsecondarypartition: a partition whose first 100 kB differ from  *)
(* the running kernel's image is written again, from its start to its end. *)
Slot == IF at = "flash1" THEN 1 ELSE 2

(* Bug for a mutant: a flash that was begun counts as done.                *)
Flash_begun ==
  /\ at \in {"flash1", "flash2"}
  /\ \/ /\ done = 0 /\ slots[Slot] \in {"new", "torn", "bad"}
        /\ Goes(Follower) /\ UNCHANGED <<slots, interrupted>>
     \/ /\ done = 0 /\ slots[Slot] \in {"old"}
        /\ slots' = [slots EXCEPT ![Slot] = "bad"]
        /\ Does /\ UNCHANGED interrupted
     \/ /\ done = 1
        /\ slots' = [slots EXCEPT ![Slot] = "torn"]
        /\ Does /\ UNCHANGED interrupted
     \/ /\ done = 2
        /\ slots' = [slots EXCEPT ![Slot] = "new"]
        /\ interrupted' = interrupted \ {at}
        /\ Goes(Follower)
  /\ UNCHANGED <<box, file, net, disk, mounted, fs, growing, nvram, booted,
                 flags, wizard, cuts, upgrades>>

Flash ==
  /\ at \in {"flash1", "flash2"}
  /\ \/ /\ done = 0 /\ slots[Slot] \in {"new", "torn"}
        /\ Goes(Follower) /\ UNCHANGED <<slots, interrupted>>
     \/ /\ done = 0 /\ slots[Slot] \in {"old", "bad"}
        /\ slots' = [slots EXCEPT ![Slot] = "bad"]
        /\ Does /\ UNCHANGED interrupted
     \/ /\ done = 1
        /\ slots' = [slots EXCEPT ![Slot] = "torn"]
        /\ Does /\ UNCHANGED interrupted
     \/ /\ done = 2
        /\ slots' = [slots EXCEPT ![Slot] = "new"]
        /\ interrupted' = interrupted \ {at}
        /\ Goes(Follower)
  /\ UNCHANGED <<box, file, net, disk, mounted, fs, growing, nvram, booted,
                 flags, wizard, cuts, upgrades>>

(* 00resizerootpartition: the partition first; then, with its flag, the    *)
(* file system in the background, and at once the flag that says so.       *)
Resize ==
  /\ at = "resize"
  /\ \/ /\ done = 0 /\ "fs" \in flags
        /\ Goes(Follower) /\ UNCHANGED <<disk, flags, growing>>
     \/ /\ done = 0 /\ {"fs", "part"} \cap flags = {}
        /\ disk' = "large"
        /\ Does /\ UNCHANGED <<flags, growing>>
     \/ /\ done = 1
        /\ flags' = flags \cup {"part"}
        /\ Does /\ UNCHANGED <<disk, growing>>
     \/ /\ done = 2
        /\ flags' = flags \cup {"reboot"}
        /\ Goes(Follower) /\ UNCHANGED <<disk, growing>>
     \/ /\ done = 0 /\ {"fs", "part"} \cap flags = {"part"}
        /\ growing' = 1
        /\ done' = 3 /\ UNCHANGED <<at, disk, flags>>
     \/ /\ done = 3
        /\ flags' = flags \cup {"fs"}
        /\ Goes(Follower) /\ UNCHANGED <<disk, growing>>
  /\ UNCHANGED <<box, file, net, slots, mounted, fs, nvram, booted, wizard,
                 cuts, upgrades, interrupted>>

resize2fs ==
  /\ growing = 1
  /\ growing' = 0 /\ fs' = mounted
  /\ UNCHANGED <<box, at, done, file, net, slots, disk, mounted, nvram, booted,
                 flags, wizard, cuts, upgrades, interrupted>>

(* Bug for a mutant: no reboot after the variables are first set.          *)
Nvram_seen ==
  /\ at = "nvram"
  /\ \/ /\ done = 0
        /\ nvram' = "set"
        /\ IF "nvram" \in flags THEN Goes(Follower) ELSE Does
        /\ UNCHANGED flags
     \/ /\ done = 1
        /\ flags' = flags \cup {"nvram"}
        /\ Does /\ UNCHANGED nvram
     \/ /\ done = 2
        /\ flags' = flags
        /\ Goes(Follower) /\ UNCHANGED nvram
  /\ UNCHANGED <<box, file, net, slots, disk, mounted, fs, growing, booted,
                 wizard, cuts, upgrades, interrupted>>

(* 15nvram: the variables are set at every boot; the first time the kernel *)
(* has to be started again to see them.                                    *)
Nvram ==
  /\ at = "nvram"
  /\ \/ /\ done = 0
        /\ nvram' = "set"
        /\ IF "nvram" \in flags THEN Goes(Follower) ELSE Does
        /\ UNCHANGED flags
     \/ /\ done = 1
        /\ flags' = flags \cup {"nvram"}
        /\ Does /\ UNCHANGED nvram
     \/ /\ done = 2
        /\ flags' = flags \cup {"reboot"}
        /\ Goes(Follower) /\ UNCHANGED nvram
  /\ UNCHANGED <<box, file, net, slots, disk, mounted, fs, growing, booted,
                 wizard, cuts, upgrades, interrupted>>

(* Bug for a mutant: the copy does not look for a file.                    *)
NetSettings_always ==
  /\ at = "netsettings"
  /\ \/ /\ done = 0 /\ FALSE
        /\ Goes(Follower) /\ UNCHANGED <<file, net>>
     \/ /\ done = 0
        /\ file' = "torn"
        /\ Does /\ UNCHANGED net
     \/ /\ done = 1
        /\ file' = "whole" /\ net' = Factory(box)
        /\ Goes(Follower)
  /\ UNCHANGED <<box, boot, wizard, cuts, upgrades, interrupted>>

(* 30netsettings, and 0000cloud-network-config: the factory settings are   *)
(* copied only where no file is.                                           *)
NetSettings ==
  /\ at = "netsettings"
  /\ \/ /\ done = 0 /\ file # "none"
        /\ Goes(Follower) /\ UNCHANGED <<file, net>>
     \/ /\ done = 0 /\ file = "none"
        /\ file' = "torn"
        /\ Does /\ UNCHANGED net
     \/ /\ done = 1
        /\ file' = "whole" /\ net' = Factory(box)
        /\ Goes(Follower)
  /\ UNCHANGED <<box, boot, wizard, cuts, upgrades, interrupted>>

(* postinst of the Caswell packages: the flag is written before the copy,  *)
(* and the copy replaces what is there.                                    *)
PostInst ==
  /\ at = "postinst"
  /\ \/ /\ done = 0 /\ "installed" \in flags
        /\ Goes("up") /\ UNCHANGED <<file, net, flags, interrupted>>
     \/ /\ done = 0 /\ "installed" \notin flags
        /\ flags' = flags \cup {"installed"}
        /\ Does /\ UNCHANGED <<file, net, interrupted>>
     \/ /\ done = 1
        /\ file' = "torn" /\ net' = <<>>
        /\ Does /\ UNCHANGED <<flags, interrupted>>
     \/ /\ done = 2
        /\ file' = "whole" /\ net' = Factory(box)
        /\ interrupted' = interrupted \ {"copy"}
        /\ Goes("up") /\ UNCHANGED flags
  /\ UNCHANGED <<box, slots, disk, mounted, fs, growing, nvram, booted, wizard,
                 cuts, upgrades>>

(* The machine stops, whatever ran: a copy, a flash or a resize is lost.   *)
Stops ==
  /\ Goes("off")
  /\ growing' = 0
  /\ page' = [c \in Clients |-> NoPage]
  /\ interrupted' = interrupted
       \cup (IF at \in {"flash1", "flash2"} /\ done = 2 THEN {at} ELSE {})
       \cup (IF at = "postinst" \/ (at = "netsettings" /\ done > 0)
             THEN {"copy"} ELSE {})
       \cup (IF growing = 1 THEN {"grow"} ELSE {})
  /\ excused' = excused \cup {c \in Clients : page[c].step = "leaving"}
  /\ UNCHANGED <<box, file, net, slots, disk, mounted, fs, nvram, booted, host,
                 saves, upgrades>>

(* Bug for a mutant: the flag is still there after the reboot.             *)
Reboot_again ==
  /\ at = "reboot"
  /\ \/ /\ done = 0 /\ "reboot" \notin flags
        /\ Goes(Follower)
        /\ UNCHANGED <<box, file, net, boot, wizard, upgrades, interrupted>>
     \/ /\ done = 0 /\ "reboot" \in flags
        /\ flags' = flags
        /\ Does
        /\ UNCHANGED <<box, file, net, slots, disk, mounted, fs, growing, nvram,
                       booted, wizard, upgrades, interrupted>>
     \/ /\ done = 1
        /\ Stops /\ UNCHANGED flags
  /\ UNCHANGED cuts

(* 99reboot: the flag is removed first.                                    *)
Reboot ==
  /\ at = "reboot"
  /\ \/ /\ done = 0 /\ "reboot" \notin flags
        /\ Goes(Follower)
        /\ UNCHANGED <<box, file, net, boot, wizard, upgrades, interrupted>>
     \/ /\ done = 0 /\ "reboot" \in flags
        /\ flags' = flags \ {"reboot"}
        /\ Does
        /\ UNCHANGED <<box, file, net, slots, disk, mounted, fs, growing, nvram,
                       booted, wizard, upgrades, interrupted>>
     \/ /\ done = 1
        /\ Stops /\ UNCHANGED flags
  /\ UNCHANGED cuts

PowerFails ==
  /\ at # "off" /\ cuts < MaxCuts /\ Bounded
  /\ Stops
  /\ cuts' = cuts + 1
  /\ UNCHANGED flags

PowerOn ==
  /\ at = "off"
  /\ Goes(First(AtBoot[box]))
  /\ mounted' = disk /\ booted' = nvram
  /\ UNCHANGED <<box, file, net, slots, disk, fs, growing, nvram, flags, wizard,
                 cuts, upgrades, interrupted>>

Upgrade ==
  /\ at = "up" /\ upgrades < MaxUpgrades /\ Bounded
  /\ Goes(First(AtInstall[box]))
  /\ upgrades' = upgrades + 1
  /\ UNCHANGED <<box, file, net, boot, wizard, cuts, interrupted>>

-----------------------------------------------------------------------------
(* The wizard.                                                             *)

FirstWan(list) ==
  SelectInSeq(list, LAMBDA i : i.isWan /\ i.configType # "DISABLED")
FirstNonWan(list) ==
  SelectInSeq(list, LAMBDA i : ~i.isWan)

(* The steps of onSyncSteps() that save network settings.                  *)
Steps == {"Interfaces"}
           \cup (IF FirstWan(net) # 0 THEN {"Internet"} ELSE {})
           \cup (IF FirstNonWan(net) # 0 THEN {"InternalNetwork"} ELSE {})

(* The addresses the appliance answers by.                                 *)
Address(intf) == IF intf.v4ConfigType = "STATIC" THEN intf.v4StaticAddress
                                                 ELSE Given(intf.v4ConfigType)
Answers(list, address) ==
  /\ address # Nothing
  /\ \E i \in DOMAIN list : /\ list[i].configType = "ADDRESSED"
                           /\ Address(list[i]) = address

Up == at = "up" /\ file = "whole"

Open(c, step) ==
  /\ Up /\ page[c].step = "none" /\ Answers(net, host[c])
  /\ step \in Steps /\ Bounded
  /\ page' = [page EXCEPT ![c] = [step |-> step, base |-> net, copy |-> <<>>]]
  /\ UNCHANGED <<box, at, done, file, net, boot, host, saves, excused, cuts,
                 upgrades, interrupted>>

(* The user's computer gets an address again, or is plugged in elsewhere.  *)
Browse(c) ==
  /\ Up /\ page[c].step = "none"
  /\ \E h \in {Address(net[i]) : i \in DOMAIN net} :
       Answers(net, h) /\ host' = [host EXCEPT ![c] = h]
  /\ excused' = excused \ {c}
  /\ UNCHANGED <<box, at, done, file, net, boot, page, saves, cuts, upgrades,
                 interrupted>>

Close(c) == page' = [page EXCEPT ![c] = NoPage]

(* setNetworkSettings(): the whole copy replaces what is there.            *)
Write(c, list, own) ==
  /\ net' = list
  /\ saves' = saves + 1
  /\ excused' = excused \cup {d \in Clients : /\ ~Answers(list, host[d])
                                              /\ d = c => own}
  /\ Close(c)

NetFixed == UNCHANGED <<box, at, done, file, boot, cuts, upgrades, interrupted>>

(* Interfaces (Network.vue): two interfaces that are no VLANs swap devices *)
(* (the first one with the last one).                                      *)
SaveInterfaces(c) ==
  /\ Up /\ page[c].step = "Interfaces" /\ saves < MaxSaves /\ Bounded
  /\ LET list == page[c].base
         j    == SelectLastInSeq(list, LAMBDA i : ~i.isVlanInterface)
     IN  Write(c, [list EXCEPT ![1].physicalDev = list[j].physicalDev,
                               ![j].physicalDev = list[1].physicalDev], FALSE)
  /\ NetFixed /\ UNCHANGED host

(* Internet: the way the first WAN interface gets its address.  An address *)
(* and a netmask that are typed are saved as they are, whatever subnet they *)
(* lie in; nobody is led to the new address.  A page that stays open after  *)
(* its save (a test of the connection) is closed here and opened again.    *)
SetWan(intf, type, address, prefix) ==
  [intf EXCEPT !.v4ConfigType = type, !.v4StaticAddress = address,
               !.v4StaticPrefix = prefix]

SaveInternet(c) ==
  LET list == page[c].base
      wan  == FirstWan(list)
      Set(type, address, prefix) ==
        Write(c, [list EXCEPT ![wan] = SetWan(@, type, address, prefix)], TRUE)
  IN
  /\ Up /\ page[c].step = "Internet" /\ saves < MaxSaves /\ Bounded
  /\ \/ UNCHANGED <<net, wizard>>                 \* the device is missing
     \/ \E type \in {"AUTO", "PPPOE"} : Set(type, Nothing, 0)
     \/ \E address \in Typed, prefix \in {24} \cup Masks :
          Set("STATIC", address, prefix)
     \/ \E prefix \in {24, list[wan].v4StaticPrefix} \ {0} :    \* renewDhcp()
          Set("AUTO", list[wan].v4StaticAddress, prefix)
  /\ NetFixed /\ UNCHANGED host

(* Bug for a mutant: the DHCP range is kept.                               *)
Routed_kept(intf, address, prefix, dhcp) ==
  [intf EXCEPT !.configType = "ADDRESSED", !.v4ConfigType = "STATIC",
               !.v4StaticAddress = address, !.v4StaticPrefix = prefix,
               !.dhcpType = dhcp]

(* InternalNetwork (Interface.vue): the first interface that is no WAN,    *)
(* as a router or as a transparent bridge.  Of what was typed before a     *)
(* bridge was chosen the address matters, which is also compared with the  *)
(* browser's; the netmask and the radio of DHCP are left out there.        *)
Routed(intf, address, prefix, dhcp) ==
  [intf EXCEPT !.configType = "ADDRESSED", !.v4ConfigType = "STATIC",
               !.v4StaticAddress = address, !.v4StaticPrefix = prefix,
               !.dhcpType = dhcp,
               !.dhcpRangeStart = Nothing, !.dhcpRangeEnd = Nothing]
Bridged(intf, address) ==
  [intf EXCEPT !.configType = "BRIDGED", !.v4StaticAddress = address]

Changed(c, intf) == [page[c].base EXCEPT ![FirstNonWan(page[c].base)] = intf]

(* Bug for a mutant: the browser is not sent to the new address.           *)
Redirect_stays(c, list, address, own) ==
  /\ page' = [page EXCEPT ![c].step = "leaving", ![c].copy = list]
  /\ host' = host
  /\ excused' = excused \cup {d \in {c} : own}
  /\ UNCHANGED <<net, saves>>

(* The browser is sent to another address, and only then the save.         *)
Redirect(c, list, address, own) ==
  /\ page' = [page EXCEPT ![c].step = "leaving", ![c].copy = list]
  /\ host' = [host EXCEPT ![c] = address]
  /\ excused' = excused \cup {d \in {c} : own}
  /\ UNCHANGED <<net, saves>>

Saves(c, list, own) == Write(c, list, own) /\ UNCHANGED host

(* The address the first WAN interface of the copy has at the moment.      *)
Live(c) == Address(net[FirstWan(page[c].base)])

SaveInternal(c) ==
  LET list == page[c].base
      old  == list[FirstNonWan(list)] IN
  /\ Up /\ page[c].step = "InternalNetwork" /\ saves < MaxSaves /\ Bounded
  /\ \/ /\ old.configType = "DISABLED"             \* kept as it is
        /\ Saves(c, list, FALSE)
     \/ \E address \in {old.v4StaticAddress} \cup Typed :
          LET bridge == Changed(c, Bridged(old, address))
              router(prefix, dhcp) ==
                Changed(c, Routed(old, address, prefix, dhcp))
          IN  \/ /\ address = host[c]               \* a bridge, over that
                 /\ \/ /\ Live(c) # Nothing
                       /\ Redirect(c, bridge, Live(c),
                                   Address(list[FirstWan(list)]) # Live(c))
                    \/ UNCHANGED <<net, wizard>>    \* the WAN has no address
              \/ /\ address # host[c]               \* a bridge, over another
                 /\ Saves(c, bridge, address # old.v4StaticAddress)
              \/ \E prefix \in ({old.v4StaticPrefix} \cup Masks) \ {0},
                    dhcp \in {"SERVER", "DISABLED"} :      \* a router
                   /\ address # Nothing
                   /\ IF host[c] = old.v4StaticAddress /\ address # host[c]
                      THEN Redirect(c, router(prefix, dhcp), address, FALSE)
                      ELSE Saves(c, router(prefix, dhcp), FALSE)
  /\ NetFixed

(* The save of a browser that left reaches the server, or it is lost with  *)
(* the page.                                                               *)
Arrives(c) ==
  /\ Up /\ page[c].step = "leaving"
  /\ \/ Write(c, page[c].copy, FALSE)
     \/ /\ excused' = excused \cup {c}
        /\ Close(c) /\ UNCHANGED <<net, saves>>
  /\ NetFixed /\ UNCHANGED host

Script == \/ Flash \/ Resize \/ Nvram \/ NetSettings \/ PostInst \/ Reboot

Next ==
  \/ Script \/ resize2fs \/ PowerFails \/ PowerOn \/ Upgrade
  \/ \E c \in Clients :
       \/ \E step \in {"Interfaces", "Internet", "InternalNetwork"} :
            Open(c, step)
       \/ Browse(c) \/ SaveInterfaces(c) \/ SaveInternet(c) \/ SaveInternal(c)
       \/ Arrives(c)

Spec == Init /\ [][Next]_vars

(* The scripts run to their end, power comes back, resize2fs ends.         *)
FairSpec == Spec /\ WF_vars(Script) /\ WF_vars(PowerOn) /\ WF_vars(resize2fs)
-----------------------------------------------------------------------------
(* Properties of the scripts.                                              *)

(* Once the appliance is up, both flash partitions of a Linksys hold the   *)
(* kernel, whatever was cut short, unless it was the flash of that very    *)
(* partition; and while the second is written the first is whole.          *)
Flashed ==
  /\ at \in {"up", "resize", "netsettings", "reboot"} =>
       \A k \in 1 .. 2 : \/ slots[k] = "new"
                         \/ <<"flash1", "flash2">>[k] \in interrupted
  /\ slots[2] \in {"bad", "torn"} => \/ slots[1] = "new"
                                    \/ "flash1" \in interrupted

(* The types; an appliance that is up has settings unless their copy was   *)
(* cut short, its kernel sees the NVRAM variables, and a file system grows *)
(* only when the kernel has seen the larger partition.                     *)
Provisioned ==
  /\ box \in Boxes /\ done \in 0 .. 3 /\ file \in {"none", "torn", "whole"}
  /\ net # <<>> <=> file = "whole"
  /\ at = "up" => file = "whole" \/ "copy" \in interrupted
  /\ at = "up" /\ box = "asus" => booted = "set"
  /\ growing = 1 => mounted = "large"

(* The scripts end and the appliance stays up: no chain of reboots goes on *)
(* for ever; and the file system of the kinds of box that resize it has    *)
(* grown, unless the power failed or the box restarted while it grew.      *)
Settles ==
  <>[](/\ at = "up" /\ growing = 0
       /\ box \in {"linksys", "asus"} => fs = "large" \/ "grow" \in interrupted)

-----------------------------------------------------------------------------
(* Properties of the settings.                                             *)

Over(list, i) == {j \in DOMAIN list : list[j].interfaceId = list[i].bridgedTo}

(* The interfaces that have an address or are bridged, directly or over a  *)
(* second bridge, to one that has.                                         *)
HasAddress(list, i) == list[i].configType = "ADDRESSED"
Reaches(list, i)    == /\ list[i].configType = "BRIDGED"
                       /\ \E j \in Over(list, i) : HasAddress(list, j)
Carried(list, i)    == \/ HasAddress(list, i) \/ Reaches(list, i)
                       \/ /\ list[i].configType = "BRIDGED"
                          /\ \E j \in Over(list, i) : Reaches(list, j)

(* The wizard made a bridge of an interface that is bridged to nothing.    *)
Unbridged(list) == LET i == FirstNonWan(list)
                   IN  i # 0 /\ list[i].configType = "BRIDGED"
                             /\ list[i].bridgedTo = 0

(* The interface the wizard takes for the internal one is a disabled one.  *)
TakesDisabled == LET i == FirstNonWan(Factory(box))
                 IN  i # 0 /\ Factory(box)[i].configType = "DISABLED"

Subnet(intf, prefix) == intf.v4StaticAddress \div 2 ^ (32 - prefix)
Static4(list) == {i \in DOMAIN list : /\ HasAddress(list, i)
                                      /\ list[i].v4ConfigType = "STATIC"
                                      /\ list[i].v4StaticAddress # Nothing}

(* Whatever pages are saved in whatever order: an enabled interface has an *)
(* address or is bridged to one that has, unless the wizard bridged one    *)
(* that is bridged to nothing; a DHCP range lies in the subnet of its      *)
(* interface; and no two subnets overlap, unless the wizard gave the       *)
(* address to a disabled interface instead of the internal one, or a       *)
(* static address was typed for the WAN: that is checked against nothing,  *)
(* nor are the internal address and netmask checked against it.            *)
Addressing ==
  /\ \/ Unbridged(net)
     \/ \A i \in DOMAIN net : net[i].configType = "DISABLED" \/ Carried(net, i)
  /\ \A i \in Static4(net) :
       /\ net[i].dhcpType = "SERVER" /\ net[i].dhcpRangeStart # Nothing
       => \A a \in {net[i].dhcpRangeStart, net[i].dhcpRangeEnd} :
            a \div 2 ^ (32 - net[i].v4StaticPrefix)
              = Subnet(net[i], net[i].v4StaticPrefix)
  /\ \/ TakesDisabled
     \/ \A i, j \in Static4(net) :
          \/ i = j \/ net[i].isWan # net[j].isWan
          \/ \E prefix \in {net[i].v4StaticPrefix, net[j].v4StaticPrefix} :
               Subnet(net[i], prefix) # Subnet(net[j], prefix)

(* The lists differ in the fields of the given step only.                  *)
OnlyOwn(step, old, new) ==
  /\ DOMAIN new = DOMAIN old
  /\ \A i \in DOMAIN old :
       \/ new[i] = old[i]
       \/ /\ step = "Interfaces"
          /\ new[i] = [old[i] EXCEPT !.physicalDev = new[i].physicalDev]
       \/ step = "Internet" /\ i = FirstWan(old)
       \/ step \in {"InternalNetwork", "leaving"} /\ i = FirstNonWan(old)

(* Saved settings change only by a page of the wizard, and only in the     *)
(* fields of that page, relative to what the page loaded (what others      *)
(* saved since then is overwritten); no boot and no upgrade resets them.   *)
OwnFields ==
  [][net # <<>> /\ net' # net =>
       \E c \in Clients : /\ page[c].step # "none" /\ page'[c].step = "none"
                          /\ OnlyOwn(page[c].step, page[c].base, net')]_vars

(* The address a browser uses still answers: whoever changes the internal  *)
(* address is led to the new one.  Excused are the browsers of other       *)
(* users, those that use a WAN address the Internet page takes away, one   *)
(* whose save was lost on the way or puts back another address of the WAN  *)
(* than the one it was led to, and one that typed an address and then      *)
(* chose the bridge.                                                       *)
Found ==
  Up => \A c \in Clients : \/ page[c].step = "leaving" \/ c \in excused
                            \/ Answers(net, host[c])

Packet(port, protocol, source, v6) ==
  [port |-> port, protocol |-> protocol, source |-> source, v6 |-> v6]
Services == {<<53, "UDP">>, <<53, "TCP">>, <<67, "UDP">>, <<80, "TCP">>}

Serves(service, source, v6) ==
  Admitted(Rules(box), Packet(service[1], service[2], source, v6))

(* The factory rules let every enabled internal interface reach the        *)
(* administration, DNS, DHCP and the block page, and let no such service   *)
(* but the administration be reached from the WAN; an appliance without an *)
(* internal interface is administered from the WAN.                        *)
Admits ==
  LET inside == \E i \in DOMAIN net : ~net[i].isWan
                                       /\ net[i].configType # "DISABLED"
  IN  /\ file = "whole" =>
           \A s \in Services, v6 \in BOOLEAN : ~Serves(s, "wan", v6)
      /\ inside => \A s \in Services \cup {<<443, "TCP">>}, v6 \in BOOLEAN :
                     Serves(s, "non_wan", v6)
      /\ file = "whole" /\ ~inside => Serves(<<443, "TCP">>, "wan", FALSE)
=============================================================================
