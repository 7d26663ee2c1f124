---------------------------- MODULE SetupNetwork ----------------------------
(***************************************************************************)
(* The "Identify Network Cards" step of the setup wizard (Network.vue):    *)
(* one instance of the component, from created() until it is destroyed.    *)
(*                                                                         *)
(* It loads the interfaces and the status of their devices, lets the user  *)
(* remap devices, refreshes the status every three seconds, and saves.     *)
(* Handlers run to completion; they interleave where they await an answer  *)
(* of the server, whose devices come and go.  Every call can fail.         *)
(* A row of the grid is an interface, numbered in the order of the list.   *)
(***************************************************************************)
EXTENDS Naturals, FiniteSets

CONSTANTS
  N,           (* number of physical interfaces                            *)
  Dev,         (* their devices                                            *)
  Undefined,   (* the JavaScript value                                     *)
  AllRecords   (* whether the server reports on every device               *)

Row == 1..N

ASSUME SetupNetworkAssumption ==
  /\ N \in Nat \ {0}
  /\ Undefined \notin Dev
  /\ AllRecords \in BOOLEAN

VARIABLES
  \* the server
  status,             (* Dev -> "present", "MISSING" or "none": no record  *)
  inventory,          (* "same", or "changed" since the page was loaded    *)
  \* the component
  page,               (* "open", or destroyed: "left", or "abandoned" when *)
                      (* it was still loading                              *)
  load,               (* getSettings(): the answer it awaits, or its end   *)
  gridData,           (* Row -> the members of the row that matter         *)
  unavailable,        (* the keys of unavailableByPhysicalDev              *)
  enableAutoRefresh,  (* 0 or 1                                            *)
  polls,              (* how many refreshes wait for a timer or an answer  *)
  save,               (* onSave(): the answer it awaits                    *)
  loader,             (* 1 while the overlay blocks the page               *)
  \* history
  seen,               (* the last device status that was applied           *)
  sent                (* the last mapping sent to the server               *)

server == <<status, inventory>>
grid == <<gridData, unavailable, seen>>
vars == <<server, page, load, grid, enableAutoRefresh, polls, save, loader,
          sent>>

Name == Dev \cup {Undefined}
Status == {"present", "MISSING"} \cup (IF AllRecords THEN {} ELSE {"none"})
Phase == {"timer", "settings", "status"}

(* What the page shows of a device: a missing record counts as MISSING.    *)
Connected(s) == IF s = "present" THEN "present" ELSE "MISSING"

(* A mapping of the interfaces to their devices, one to one.               *)
OneToOne(m) == \A i, j \in Row : m[i] = m[j] => i = j
Onto(m) == \A d \in Dev : \E i \in Row : m[i] = d
Mapping == {m \in [Row -> Dev] : OneToOne(m) /\ Onto(m)}

(* Before the first answer the grid is empty.                              *)
Empty == [i \in Row |-> [deviceName |-> Undefined, physicalDev |-> Undefined,
                         connected |-> "MISSING"]]
NotSent == [i \in Row |-> Undefined]
NoPolls == [p \in Phase |-> 0]

(* created() has called getSettings().                                     *)
Init ==
  /\ status \in [Dev -> Status] /\ inventory = "same"
  /\ page = "open" /\ load = "settings"
  /\ gridData = Empty /\ unavailable = {}
  /\ enableAutoRefresh = 0 /\ polls = NoPolls
  /\ save = "none" /\ loader = 0
  /\ seen = [d \in Dev |-> "none"] /\ sent = NotSent

-----------------------------------------------------------------------------
(* The server.                                                             *)

DeviceChanges(d) ==
  /\ \E s \in Status : s # status[d] /\ status' = [status EXCEPT ![d] = s]
  /\ UNCHANGED <<inventory, page, load, grid, enableAutoRefresh, polls, save,
                 loader, sent>>

InventoryChanges ==
  /\ inventory = "same" /\ load = "done"
  /\ inventory' = "changed"
  /\ UNCHANGED <<status, page, load, grid, enableAutoRefresh, polls, save,
                 loader, sent>>

-----------------------------------------------------------------------------
(* getSettings(), called by created() and retrySettings().                 *)

LoadSettings ==
  /\ load = "settings"
  /\ load' = "status"
  /\ UNCHANGED <<server, page, grid, enableAutoRefresh, polls, save, loader,
                 sent>>

(* A row has a deviceName only if the server reports on its device.  The   *)
(* timer is started without a look at whether the component still exists.  *)
LoadedRow(d) ==
  [deviceName |-> IF status[d] = "none" THEN Undefined ELSE d,
   physicalDev |-> d, connected |-> Connected(status[d])]

LoadStatus ==
  /\ load = "status"
  /\ \E m \in Mapping : gridData' = [i \in Row |-> LoadedRow(m[i])]
  /\ unavailable' = {d \in Dev : status[d] # "present"}
  /\ seen' = status
  /\ load' = "done"
  /\ enableAutoRefresh' = 1
  /\ polls' = [polls EXCEPT !["timer"] = @ + 1]
  /\ UNCHANGED <<server, page, save, loader, sent>>

(* Mutant: the timer is started whether or not the load succeeded.         *)
LoadFailsPolling ==
  /\ load \in {"settings", "status"}
  /\ load' = "failed"
  /\ enableAutoRefresh' = 1
  /\ polls' = [polls EXCEPT !["timer"] = @ + 1]
  /\ UNCHANGED <<server, page, grid, save, loader, sent>>

(* An exception, a malformed answer or no interface at all.                *)
LoadFails ==
  /\ load \in {"settings", "status"}
  /\ load' = "failed"
  /\ UNCHANGED <<server, page, grid, enableAutoRefresh, polls, save, loader,
                 sent>>

-----------------------------------------------------------------------------
(* The user, while no overlay is in the way.                               *)

Usable == page = "open" /\ loader = 0

Retry ==
  /\ Usable /\ load = "failed"
  /\ enableAutoRefresh' = 0
  /\ load' = "settings"
  /\ UNCHANGED <<server, page, grid, polls, save, loader, sent>>

(* Mutants: the component is destroyed without a word to the polling; it   *)
(* takes back a timer it does not know to be there.                        *)
BackPolling ==
  /\ Usable /\ load \in {"done", "failed"}
  /\ page' = "left"
  /\ UNCHANGED <<server, load, grid, enableAutoRefresh, polls, save, loader,
                 sent>>

BackClearsTimer ==
  /\ Usable /\ load \in {"done", "failed"}
  /\ page' = "left"
  /\ enableAutoRefresh' = 0
  /\ polls' = [polls EXCEPT !["timer"] = @ - 1]
  /\ UNCHANGED <<server, load, grid, save, loader, sent>>

(* The wizard shows another step and destroys the component.  There is no  *)
(* button for it while the page loads.                                     *)
Back ==
  /\ Usable /\ load \in {"done", "failed"}
  /\ page' = "left"
  /\ enableAutoRefresh' = 0
  /\ UNCHANGED <<server, load, grid, polls, save, loader, sent>>

(* Another page of the browser's history, whatever is being awaited: the   *)
(* component is destroyed, the function that awaits is not.                *)
Navigate ==
  /\ page = "open"
  /\ page' = IF load \in {"settings", "status"} THEN "abandoned" ELSE "left"
  /\ enableAutoRefresh' = 0
  /\ UNCHANGED <<server, load, grid, polls, save, loader, sent>>

(* Array.find(): the first row with this deviceName.                       *)
Named(g, name) == {i \in Row : g[i].deviceName = name}
First(s) == CHOOSE i \in s : \A j \in s : i <= j

(* Mutants: the status stays with the row; only the source row changes.    *)
MapWithoutStatus(g, row) ==
  LET target == First(Named(g, g[row].physicalDev))
      Give(i, name) == [deviceName |-> name, physicalDev |-> name,
                        connected |-> g[i].connected]
  IN  IF Named(g, g[row].physicalDev) = {} \/ row = target THEN g
      ELSE [g EXCEPT ![row] = Give(row, g[row].physicalDev),
                     ![target] = Give(target, g[row].deviceName)]

MapOneWay(g, row) ==
  LET target == First(Named(g, g[row].physicalDev))
  IN  IF Named(g, g[row].physicalDev) = {} \/ row = target THEN g
      ELSE [g EXCEPT ![row].deviceName = g[row].physicalDev,
                     ![row].connected = g[target].connected]

(* setInterfacesMap(row): swap the devices of the row that holds the row's *)
(* deviceName and of the row that holds its new physicalDev.               *)
setInterfacesMap(g, row) ==
  LET oldValue == g[row].deviceName
      newValue == g[row].physicalDev
      source == First(Named(g, oldValue))
      target == First(Named(g, newValue))
      Give(name, from) == [deviceName |-> name, physicalDev |-> name,
                           connected |-> g[from].connected]
  IN  IF Named(g, newValue) = {} \/ source = target THEN g
      ELSE [g EXCEPT ![source] = Give(newValue, target),
                     ![target] = Give(oldValue, source)]

(* The list box of a row offers the loaded devices; dropping a row on      *)
(* another takes the physicalDev of that one.                              *)
Remap(row, d) ==
  /\ Usable /\ load = "done"
  /\ d \in Dev \/ \E i \in Row : gridData[i].physicalDev = d
  /\ gridData' = setInterfacesMap([gridData EXCEPT ![row].physicalDev = d], row)
  /\ UNCHANGED <<server, page, load, unavailable, seen, enableAutoRefresh,
                 polls, save, loader, sent>>

-----------------------------------------------------------------------------
(* autoRefreshInterfaces(), one phase at a time.                           *)

Moved(from, to) == [polls EXCEPT ![from] = @ - 1, ![to] = @ + 1]
Ended(from) == [polls EXCEPT ![from] = @ - 1]

PollTimer ==
  /\ polls["timer"] > 0
  /\ polls' = IF enableAutoRefresh = 1 THEN Moved("timer", "settings")
              ELSE Ended("timer")
  /\ UNCHANGED <<server, page, load, grid, enableAutoRefresh, save, loader,
                 sent>>

(* Another number of interfaces raises an alert and ends the polling.      *)
PollSettings ==
  /\ polls["settings"] > 0
  /\ polls' = IF inventory = "same" THEN Moved("settings", "status")
              ELSE Ended("settings")
  /\ UNCHANGED <<server, page, load, grid, enableAutoRefresh, save, loader,
                 sent>>

(* The status of a device is looked up under the row's physicalDev.        *)
Lookup(name) == IF name \in Dev THEN status[name] ELSE "none"

(* Mutant: the rows are refreshed, what blocks a save is not.              *)
PollShowsOnly ==
  /\ polls["status"] > 0
  /\ gridData' = [i \in Row |-> [gridData[i] EXCEPT
                     !.connected = Connected(Lookup(gridData[i].physicalDev))]]
  /\ seen' = status
  /\ polls' = IF enableAutoRefresh = 1 THEN Moved("status", "timer")
              ELSE Ended("status")
  /\ UNCHANGED <<server, page, load, unavailable, enableAutoRefresh, save,
                 loader, sent>>

PollStatus ==
  /\ polls["status"] > 0
  /\ gridData' = [i \in Row |-> [gridData[i] EXCEPT
                     !.connected = Connected(Lookup(gridData[i].physicalDev))]]
  /\ unavailable' = {name \in Name :
                       /\ \E i \in Row : gridData[i].physicalDev = name
                       /\ Lookup(name) # "present"}
  /\ seen' = status
  /\ polls' = IF enableAutoRefresh = 1 THEN Moved("status", "timer")
              ELSE Ended("status")
  /\ UNCHANGED <<server, page, load, enableAutoRefresh, save, loader, sent>>

PollFails(p) ==
  /\ p # "timer" /\ polls[p] > 0
  /\ polls' = Ended(p)
  /\ UNCHANGED <<server, page, load, grid, enableAutoRefresh, save, loader,
                 sent>>

-----------------------------------------------------------------------------
(* onSave().                                                               *)

interfacesMap == [i \in Row |-> gridData[i].physicalDev]

Blocked == \E i \in Row : interfacesMap[i] \in unavailable

(* Mutant: the mapping is saved unchecked.                                 *)
SaveUnchecked ==
  /\ Usable /\ load = "done"
  /\ loader' = 1
  /\ save' = "saving"
  /\ sent' = interfacesMap
  /\ UNCHANGED <<server, page, load, grid, enableAutoRefresh, polls>>

(* A blocked save warns and gives the page back at once.                   *)
SaveSends ==
  /\ Usable /\ load = "done" /\ ~Blocked
  /\ loader' = 1
  /\ save' = "saving"
  /\ sent' = interfacesMap
  /\ UNCHANGED <<server, page, load, grid, enableAutoRefresh, polls>>

SaveAnswered ==
  /\ save = "saving"
  /\ save' = "updating"
  /\ UNCHANGED <<server, page, load, grid, enableAutoRefresh, polls, loader,
                 sent>>

(* Mutant: a failed save leaves the overlay.                               *)
SaveFailsBehindLoader ==
  /\ save = "saving"
  /\ save' = "none"
  /\ UNCHANGED <<server, page, load, grid, enableAutoRefresh, polls, loader,
                 sent>>

SaveFails ==
  /\ save = "saving"
  /\ save' = "none"
  /\ loader' = 0
  /\ UNCHANGED <<server, page, load, grid, enableAutoRefresh, polls, sent>>

(* updateWizardSettings(), then the next step replaces this one, if it is  *)
(* still there.  When one of its calls throws nobody catches it.           *)
SaveUpdates ==
  /\ save = "updating"
  /\ save' = "done"
  /\ loader' = 0
  /\ page' = "left"
  /\ enableAutoRefresh' = 0
  /\ UNCHANGED <<server, load, grid, polls, sent>>

SaveThrows ==
  /\ save = "updating"
  /\ save' = "threw"
  /\ UNCHANGED <<server, page, load, grid, enableAutoRefresh, polls, loader,
                 sent>>

-----------------------------------------------------------------------------
LoadStep == LoadSettings \/ LoadStatus \/ LoadFails
PollStep ==
  \/ PollTimer \/ PollSettings \/ PollStatus
  \/ \E p \in Phase : PollFails(p)
SaveStep == SaveAnswered \/ SaveFails \/ SaveUpdates \/ SaveThrows
UserStep ==
  \/ Retry \/ Back \/ Navigate \/ SaveSends
  \/ \E row \in Row, d \in Name : Remap(row, d)

Next ==
  \/ LoadStep \/ PollStep \/ SaveStep \/ UserStep
  \/ \E d \in Dev : DeviceChanges(d)
  \/ InventoryChanges

Spec == Init /\ [][Next]_vars

(* Timers fire and every call is answered, if only with an error.          *)
FairSpec ==
  Spec /\ WF_vars(LoadStep) /\ WF_vars(PollStep) /\ WF_vars(SaveStep)

-----------------------------------------------------------------------------
Running == polls["timer"] + polls["settings"] + polls["status"]

(* Every variable keeps its kind of value; the counts of refreshes in each *)
(* phase never fall below zero.                                            *)
TypeOK ==
  /\ status \in [Dev -> Status]
  /\ inventory \in {"same", "changed"}
  /\ page \in {"open", "left", "abandoned"}
  /\ load \in {"settings", "status", "done", "failed"}
  /\ gridData \in [Row -> [deviceName : Name, physicalDev : Name,
                           connected : {"present", "MISSING"}]]
  /\ unavailable \in SUBSET Name
  /\ enableAutoRefresh \in {0, 1}
  /\ polls \in [Phase -> Nat]
  /\ save \in {"none", "saving", "updating", "done", "threw"}
  /\ loader \in {0, 1}
  /\ seen \in [Dev -> {"present", "MISSING", "none"}]
  /\ sent \in [Row -> Name]

(* However refreshes, remaps and saves interleave, one refresh at most is  *)
(* under way or scheduled, and none before there is a grid to refresh.     *)
OnePoll == Running <= (IF load = "done" THEN 1 ELSE 0)

(* A row is shown as missing exactly when its device blocks the save: a    *)
(* remap takes the status along with the device, on both rows.             *)
MissingFollowsDevice ==
  load = "done" =>
    \A i \in Row : gridData[i].connected = "MISSING"
                   <=> gridData[i].physicalDev \in unavailable

(* What is saved is a rearrangement of what was loaded: after any number   *)
(* of remaps no device is lost and none is given to two interfaces.        *)
SaveRearranges == sent # NotSent => sent \in Mapping

(* Remaps keep devices, their status and interfaces together.              *)
RemapOK == SaveRearranges /\ MissingFollowsDevice

(* A save is only sent when each device it names was there in the last     *)
(* status the page received, under whatever interface it was then.         *)
SaveChecked ==
  [][save' = "saving" /\ save # "saving" =>
       \A i \in Row : sent'[i] \in Dev /\ seen[sent'[i]] = "present"]_vars

(* A component that is destroyed when its load has ended stops polling for *)
(* good, also when the chain of refreshes or a save was just awaiting an   *)
(* answer.  One that is destroyed while it loads does not: the load turns  *)
(* the polling on that destroyed() had turned off.                         *)
PollingStops == (page = "left") ~> [](Running = 0)

(* A device that goes away and stays away is noticed, as long as the page  *)
(* polls; polling only ends with an alert, an exception or the page.       *)
MissingNoticed ==
  \A d \in Dev :
    (load = "done" /\ status[d] = "MISSING") ~>
      (d \in unavailable \/ status[d] = "present" \/ Running = 0)

(* The overlay goes away again, unless an uncaught exception of            *)
(* updateWizardSettings() leaves it there.                                 *)
LoaderReleased == (loader = 1) ~> (loader = 0 \/ save = "threw")

(* The page lets go of the timer and of the screen.                        *)
LetGo == PollingStops /\ LoaderReleased
=============================================================================
