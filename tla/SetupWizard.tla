---------------------------- MODULE SetupWizard ----------------------------
(***************************************************************************)
(* The setup wizard as a whole, in local mode: which step is shown, what   *)
(* the server remembers of the progress, and the calls that are under way. *)
(*                                                                         *)
(* The browser's store (currentStep, the list of steps, the overlay) is    *)
(* shared by the component of the step and by every answer that is still   *)
(* to come, of components shown earlier too: a callback that outlives its  *)
(* component still moves the wizard.  A reload of the page keeps the store *)
(* and drops the callbacks.  Handlers run to completion.                   *)
(*                                                                         *)
(* Every list of steps has the same order, so a list is a set of numbers.  *)
(***************************************************************************)
EXTENDS Naturals

CONSTANTS
  Nets,       (* the optional steps the network interfaces call for        *)
  MaxDetours, (* bound: failures, reloads, steps back, impatient clicks    *)
  MaxCalls    (* bound: saves of one step under way at the same time, so   *)
              (* how often a user clicks Next before it is answered        *)

NoStep == 0   (* null, undefined                                           *)
Welcome == 1
License == 2
ServerSettings == 3
Interfaces == 4
Internet == 5
InternalNetwork == 6
Wireless == 7
AutoUpgrades == 8
Complete == 9

Step == Welcome..Complete
Optional == {Internet, InternalNetwork, Wireless}

ASSUME SetupWizardAssumption ==
  /\ Nets \subseteq Optional
  /\ MaxDetours \in Nat
  /\ MaxCalls \in Nat

VARIABLES
  \* the server
  completedStep,   (* wizardSettings.completedStep                         *)
  wizardComplete,  (* wizardSettings.wizardComplete: 0 or 1                *)
  savedSteps,      (* wizardSettings.steps                                 *)
  session,         (* 1 while the browser is logged in as administrator    *)
  \* the store
  currentStep,
  wizardSteps,
  loader,          (* pageLoad: 1 while the overlay blocks the page        *)
  \* the Wizard component
  rpc,             (* 1 if it got the setup RPC                            *)
  sync,            (* onSyncSteps(): "asked" for the network, or "over"    *)
  writes,          (* calls of setWizardSettings() by updateNav() under way*)
  \* the steps
  loaded,          (* 1 if the step shown found a session to load with     *)
  select,          (* the SetupSelect component: its copy of the settings  *)
  auth,            (* an authentication SetupSelect waits for              *)
  calls,           (* per step: its calls under way                        *)
  \* history
  done,            (* steps the user has gone through with their Next      *)
  hasty,           (* 1 once a call was started, or an authentication given*)
                   (* up, while the answer to another was still to come    *)
  detours

server == <<completedStep, wizardComplete, savedSteps, session>>
wizard == <<rpc, sync, writes>>
store  == <<currentStep, wizardSteps, loader>>
vars == <<server, store, wizard, loaded, select, auth, calls, done, hasty,
          detours>>

(* The list updateWizard...() builds, and the default of initializeWizard. *)
Steps(optional) ==
  {Welcome, License, ServerSettings, Interfaces, AutoUpgrades, Complete}
    \cup optional
DefaultSteps == Steps({Internet, InternalNetwork} \cup Nets)

NoAuth == [pending |-> 0, own |-> 0, step |-> NoStep]
NoCalls == [s \in Step |-> 0]

(* A new SetupSelect takes its own copy of the settings, if it can.        *)
Selects(completed, complete) ==
  {[rpc |-> 0, completed |-> NoStep, resuming |-> 0],
   [rpc |-> 1, completed |-> completed,
    resuming |-> IF complete = 0 /\ completed # NoStep THEN 1 ELSE 0]}

(* An appliance that was never set up, after the first load of the page.   *)
Init ==
  /\ completedStep = NoStep /\ wizardComplete = 0 /\ savedSteps = {}
  /\ session = 0
  /\ currentStep = Welcome /\ wizardSteps = DefaultSteps /\ loader = 0
  /\ rpc = 1 /\ sync = "over" /\ writes = 0
  /\ select \in {s \in Selects(NoStep, 0) : s.rpc = 1}
  /\ loaded = 0 /\ auth = NoAuth /\ calls = NoCalls
  /\ done = {Welcome} /\ hasty = 0 /\ detours = 0

-----------------------------------------------------------------------------
(* Navigation.                                                             *)

First(list) == CHOOSE s \in list : \A t \in list : s <= t
Last(list) == CHOOSE s \in list : \A t \in list : t <= s

(* Mutant: counts on after the last step.                                  *)
NextBeyond(list, s) ==
  LET after == {t \in list : s < t}
  IN  IF s \notin list THEN First(list)
      ELSE IF after = {} THEN s + 1 ELSE First(after)

(* wizardSteps[wizardSteps.indexOf(s) + 1]: the first step for a stranger. *)
NextOf(list, s) ==
  LET after == {t \in list : s < t}
  IN  IF s \notin list THEN First(list)
      ELSE IF after = {} THEN NoStep ELSE First(after)

(* wizardSteps[wizardSteps.indexOf(s) - 1]                                 *)
PrevOf(list, s) ==
  LET before == {t \in list : t < s}
  IN  IF s \notin list \/ before = {} THEN NoStep ELSE Last(before)

(* currentStepComponent: SetupSelect for whatever is no step.              *)
Page(s) == IF s = NoStep THEN Welcome ELSE s

Usable(s) == loader = 0 /\ Page(currentStep) = s

Opens(s) == Page(s) # Page(currentStep)

(* Mutant: the setup counts as complete when the last step is reached.     *)
ShowEnds(s, sel, c, d) ==
  /\ currentStep' = s
  /\ loaded' = IF Opens(s) THEN session' ELSE loaded
  /\ wizardComplete' = IF s >= AutoUpgrades /\ Opens(s) /\ session' = 1 THEN 1
                       ELSE wizardComplete
  /\ select' \in IF Page(s) = Welcome /\ Opens(s)
                 THEN Selects(completedStep', wizardComplete) ELSE {sel}
  /\ calls' = IF s = Wireless /\ Opens(s) /\ session' = 1
              THEN [c EXCEPT ![Wireless] = @ + 1] ELSE c
  /\ detours' = IF select'.rpc < sel.rpc THEN d + 1 ELSE d
  /\ detours' <= MaxDetours

(* The store gets a new step and the page is rendered.  SetupSelect reads  *)
(* the settings when it is created, Complete ends the setup, and Wireless  *)
(* starts to load; sel and c are what the handler leaves of select and     *)
(* calls, d the detours so far.  A SetupSelect without an RPC is one more. *)
Show(s, sel, c, d) ==
  /\ currentStep' = s
  /\ loaded' = IF Opens(s) THEN session' ELSE loaded
  /\ wizardComplete' = IF s = Complete /\ Opens(s) /\ session' = 1 THEN 1
                       ELSE wizardComplete
  /\ select' \in IF Page(s) = Welcome /\ Opens(s)
                 THEN Selects(completedStep', wizardComplete) ELSE {sel}
  /\ calls' = IF s = Wireless /\ Opens(s) /\ session' = 1
              THEN [c EXCEPT ![Wireless] = @ + 1] ELSE c
  /\ detours' = IF select'.rpc < sel.rpc THEN d + 1 ELSE d
  /\ detours' <= MaxDetours

(* An authentication that outlives its SetupSelect keeps that copy.        *)
Outlives(s, sel) ==
  auth' = IF auth.own = 1 /\ Page(s) # Welcome
          THEN [auth EXCEPT !.own = 0, !.step = sel.completed] ELSE auth

(* What the new page does to the overlay, l being what the handler did.    *)
Overlay(s, l) ==
  loader' = IF s = Wireless /\ Opens(s) THEN session' ELSE l

(* Mutant: remembers the step that is to come.                             *)
RememberNext(s) ==
  completedStep' = IF wizardComplete = 0 /\ session' = 1
                   THEN NextOf(wizardSteps, s)
                   ELSE completedStep

(* updateWizardSettings(s): only while the setup is not complete, and only *)
(* for an administrator; skipped without a word otherwise.                 *)
Remember(s) ==
  completedStep' = IF wizardComplete = 0 /\ session' = 1 THEN s
                   ELSE completedStep

(* Steps that are saved by a call the page awaits.  The overlay is up      *)
(* meanwhile, but not for ServerSettings.                                  *)
Saved == {ServerSettings, Interfaces, Internet, InternalNetwork}

(* History: a call is started; was the user waiting for another one?       *)
Haste ==
  hasty' = IF auth.pending = 0 /\ \A s \in Saved : calls[s] = 0 THEN hasty
           ELSE 1

Detour == detours < MaxDetours /\ detours' = detours + 1

-----------------------------------------------------------------------------
(* The Wizard component.                                                   *)

(* Mutant: the persisted overlay is restored with the rest of the store.   *)
LoadKeepsOverlay ==
  /\ rpc' \in {0, 1}
  /\ currentStep' = IF rpc' = 1 THEN Welcome
                    ELSE IF currentStep = NoStep THEN NoStep ELSE Welcome
  /\ wizardSteps' = IF rpc' = 0 THEN wizardSteps
                    ELSE IF savedSteps = {} THEN DefaultSteps ELSE savedSteps
  /\ loader' = loader
  /\ sync' \in IF session = 1 THEN {"asked", "over"} ELSE {"over"}
  /\ writes' = 0
  /\ select' \in Selects(completedStep, wizardComplete)
  /\ loaded' = 0 /\ auth' = NoAuth /\ calls' = NoCalls
  /\ UNCHANGED <<server, done, hasty>>

(* The page is loaded: the store is restored, the step is forced back to   *)
(* the first one and the list is taken from the server.                    *)
Load ==
  /\ rpc' \in {0, 1}
  /\ currentStep' = IF rpc' = 1 THEN Welcome
                    ELSE IF currentStep = NoStep THEN NoStep ELSE Welcome
  /\ wizardSteps' = IF rpc' = 0 THEN wizardSteps
                    ELSE IF savedSteps = {} THEN DefaultSteps ELSE savedSteps
  /\ loader' = 0
  /\ sync' \in IF session = 1 THEN {"asked", "over"} ELSE {"over"}
  /\ writes' = 0
  /\ select' \in Selects(completedStep, wizardComplete)
  /\ loaded' = 0 /\ auth' = NoAuth /\ calls' = NoCalls
  /\ UNCHANGED <<server, done, hasty>>

Reload == Load /\ Detour

(* updateNav() always finds itself at the first step: it was completed up  *)
(* to nothing.  onSyncSteps() calls it, and onAfterRender() once more.     *)
SyncAnswered ==
  /\ sync = "asked" /\ session = 1
  /\ sync' = "over"
  /\ wizardSteps' = Steps(Nets)
  /\ writes' = IF rpc = 1 THEN 2 ELSE 0
  /\ UNCHANGED <<server, currentStep, loader, rpc, loaded, select, auth, calls,
                 done, hasty, detours>>

SyncFails ==
  /\ sync = "asked" /\ Detour
  /\ sync' = "over"
  /\ UNCHANGED <<server, store, rpc, writes, loaded, select, auth, calls, done,
                 hasty>>

WriteArrives ==
  /\ writes > 0
  /\ writes' = writes - 1
  /\ \/ /\ session = 1
        /\ completedStep' = NoStep /\ wizardComplete' = 0
        /\ savedSteps' = Steps(Nets)
        /\ UNCHANGED <<session, detours>>
     \/ session = 0 /\ UNCHANGED <<server, detours>>
     \/ Detour /\ UNCHANGED server
  /\ UNCHANGED <<store, rpc, sync, loaded, select, auth, calls, done, hasty>>

SessionExpires ==
  /\ session = 1 /\ Detour
  /\ session' = 0
  /\ UNCHANGED <<completedStep, wizardComplete, savedSteps, store, wizard,
                 loaded, select, auth, calls, done, hasty>>

-----------------------------------------------------------------------------
(* Welcome: SetupSelect.                                                   *)

(* "Run Setup Wizard" or "Restart": only its own copy is reset.  A user    *)
(* who cancelled an authentication does so while it is still pending.      *)
RunWizard ==
  LET s == NextOf(wizardSteps, currentStep)
      sel == [select EXCEPT !.completed = NoStep, !.resuming = 0]
  IN  /\ Usable(Welcome) /\ select.rpc = 1
      /\ UNCHANGED <<completedStep, savedSteps, session>>
      /\ Show(s, sel, calls, detours + auth.pending)
      /\ Outlives(s, sel) /\ Overlay(s, loader)
      /\ hasty' = IF auth.pending = 1 THEN 1 ELSE hasty
      /\ UNCHANGED <<wizardSteps, wizard, done>>

(* "Resume", a password, OK; the dialog can be cancelled meanwhile.  It is *)
(* in vain when the list no longer has the step, or that is the first one: *)
(* the user then restarts.                                                 *)
ResumeWizard ==
  /\ Usable(Welcome) /\ select.resuming = 1 /\ auth.pending = 0
  /\ auth' = [pending |-> 1, own |-> 1, step |-> NoStep]
  /\ IF select.completed \in wizardSteps \ {Welcome} THEN UNCHANGED detours
     ELSE Detour
  /\ Haste
  /\ UNCHANGED <<server, store, wizard, loaded, select, calls, done>>

(* wizardSteps[wizardSteps.indexOf(completedStep)]                         *)
Resumed ==
  LET completed == IF auth.own = 1 THEN select.completed ELSE auth.step
  IN  IF completed \in wizardSteps THEN completed ELSE NoStep

(* The login is good; or it is not, but the password typed was the factory *)
(* default, which authenticate() takes for a success all the same.         *)
AuthSucceeds ==
  /\ auth.pending = 1 /\ auth' = NoAuth
  /\ UNCHANGED <<completedStep, savedSteps>>
  /\ \/ session' = 1 /\ Show(Resumed, select, calls, detours)
     \/ session' = session /\ Show(Resumed, select, calls, detours + 1)
  /\ Overlay(Resumed, loader)
  /\ UNCHANGED <<wizardSteps, wizard, done, hasty>>

AuthFails ==
  /\ auth.pending = 1 /\ Detour
  /\ auth' = NoAuth
  /\ UNCHANGED <<server, store, wizard, loaded, select, calls, done, hasty>>

-----------------------------------------------------------------------------
(* The steps.  Next of a step leads on from wherever the wizard then is.   *)

(* onClickBack() of any step that has it.                                  *)
Back ==
  LET s == PrevOf(wizardSteps, currentStep)
  IN  /\ \E p \in ServerSettings..AutoUpgrades : Usable(p)
      /\ UNCHANGED <<completedStep, savedSteps, session>>
      /\ Show(s, select, calls, detours + 1) /\ Overlay(s, loader)
      /\ UNCHANGED <<wizardSteps, wizard, auth, done, hasty>>

Agree ==
  LET s == NextOf(wizardSteps, currentStep)
  IN  /\ Usable(License)
      /\ UNCHANGED <<completedStep, savedSteps, session>>
      /\ Show(s, select, calls, detours) /\ Overlay(s, loader)
      /\ done' = done \cup {License}
      /\ UNCHANGED <<wizardSteps, wizard, auth, hasty>>

Disagree ==
  LET s == PrevOf(wizardSteps, currentStep)
  IN  /\ Usable(License)
      /\ UNCHANGED <<savedSteps, session>>
      /\ Remember(NoStep)
      /\ Show(s, select, calls, detours + 1) /\ Overlay(s, loader)
      /\ UNCHANGED <<wizardSteps, wizard, auth, done, hasty>>

(* Internet and InternalNetwork only save an interface they have loaded;   *)
(* without a WAN Next does nothing.                                        *)
HasSettings(s) ==
  s \in {Internet, InternalNetwork} => s \in Nets /\ loaded = 1

(* The server takes calls of an administrator, and the first password.     *)
Heard(s) == session = 1 \/ s = ServerSettings

Save(s) ==
  /\ s \in Saved /\ Usable(s) /\ HasSettings(s)
  /\ calls[s] < MaxCalls
  /\ IF calls[s] = 0 /\ Heard(s) THEN UNCHANGED detours ELSE Detour
  /\ calls' = [calls EXCEPT ![s] = @ + 1]
  /\ loader' = IF s = ServerSettings THEN loader ELSE 1
  /\ Haste
  /\ UNCHANGED <<server, currentStep, wizardSteps, wizard, loaded, select, auth,
                 done>>

(* The step saved by s that is shown next: ServerSettings and Interfaces   *)
(* go on from their own step, the others from the one that is shown.       *)
Target(s) ==
  IF s \in {ServerSettings, Interfaces} THEN NextOf(wizardSteps, s)
  ELSE NextOf(wizardSteps, currentStep)

(* InternalNetwork stays where it is when there is no next step.           *)
Stays(s) == s \in {InternalNetwork, AutoUpgrades} /\ Target(s) = NoStep

(* The new administrator password logs the browser in.                     *)
SaveSucceeds(s) ==
  LET t == Target(s)
      c == [calls EXCEPT ![s] = @ - 1]
  IN  /\ s \in Saved /\ calls[s] > 0
      /\ Heard(s)
      /\ session' = 1
      /\ done' = done \cup {s}
      /\ IF Stays(s)
         THEN /\ calls' = c /\ loader' = 0
              /\ UNCHANGED <<completedStep, wizardComplete, currentStep, loaded,
                             select, auth, detours>>
         ELSE /\ Remember(currentStep)
              /\ Show(t, select, c, detours) /\ Outlives(t, select)
              /\ IF s = Interfaces THEN loader' = 0 ELSE Overlay(t, 0)
      /\ UNCHANGED <<savedSteps, wizardSteps, wizard, hasty>>

(* A call fails or throws.  The handlers that hear of it clear the         *)
(* overlay; what throws past them (an answer of Interfaces, a callback of  *)
(* another step) leaves it behind.  ServerSettings fail after the login.   *)
SaveFails(s) ==
  /\ s \in Saved /\ calls[s] > 0
  /\ IF Heard(s) THEN Detour ELSE UNCHANGED detours
  /\ calls' = [calls EXCEPT ![s] = @ - 1]
  /\ loader' \in {0, loader}
  /\ session' \in IF s = ServerSettings THEN {session, 1} ELSE {session}
  /\ UNCHANGED <<completedStep, wizardComplete, savedSteps, currentStep,
                 wizardSteps, wizard, loaded, select, auth, done, hasty>>

(* Steps that go on at once: without an internal network the user confirms *)
(* it; Wireless and AutoUpgrades save in one synchronous call, or do not   *)
(* when nothing was changed, and then go on without a session as well.     *)
NextPage(s) ==
  LET t == NextOf(wizardSteps, currentStep)
  IN  /\ Usable(s)
      /\ loaded = 1
      /\ s \in {Wireless, AutoUpgrades} \cup ({InternalNetwork} \ Nets)
      /\ UNCHANGED <<savedSteps, session>>
      /\ done' = done \cup {s}
      /\ ~Stays(s)
      /\ Remember(currentStep)
      /\ Show(t, select, calls, detours) /\ Overlay(t, loader)
      /\ UNCHANGED <<wizardSteps, wizard, auth, hasty>>

(* The three calls by which Wireless loads are answered, well or not.      *)
WirelessLoaded ==
  /\ calls[Wireless] > 0
  /\ calls' = [calls EXCEPT ![Wireless] = @ - 1]
  /\ loader' = 0
  /\ UNCHANGED <<server, currentStep, wizardSteps, wizard, loaded, select, auth,
                 done, hasty, detours>>

-----------------------------------------------------------------------------
(* A page that leads nowhere: no RPC, no session, no WAN, or an overlay    *)
(* that nothing will remove.  The user reloads it until it gets its RPC    *)
(* (the loads that do not are among the reloads of Reload).                *)
Stuck ==
  /\ calls = NoCalls /\ auth.pending = 0
  /\ \/ loader = 1
     \/ Page(currentStep) = Welcome /\ select.rpc = 0
     \/ currentStep \in Interfaces..AutoUpgrades /\ session = 0
     \/ currentStep \in Internet..AutoUpgrades /\ loaded = 0
     \/ currentStep = Internet /\ Internet \notin Nets
     \/ currentStep = Complete /\ wizardComplete = 0

ReloadStuck ==
  /\ Stuck /\ Load /\ UNCHANGED detours
  /\ rpc' = 1 /\ select'.rpc = 1

Forward ==
  \/ SyncAnswered \/ WriteArrives
  \/ RunWizard \/ ResumeWizard \/ AuthSucceeds
  \/ Agree \/ WirelessLoaded \/ ReloadStuck
  \/ \E s \in Step : Save(s) \/ SaveSucceeds(s) \/ SaveFails(s) \/ NextPage(s)

Next ==
  \/ Forward
  \/ Reload \/ SyncFails \/ SessionExpires \/ AuthFails \/ Back \/ Disagree

Spec == Init /\ [][Next]_vars

(* The user keeps going, and calls are answered.                           *)
FairSpec == Spec /\ WF_vars(Forward)

-----------------------------------------------------------------------------
(* Every variable keeps its kind of value; currentStep, which each handler *)
(* computes from the list, always is a step or undefined.                  *)
TypeOK ==
  /\ completedStep \in Step \cup {NoStep}
  /\ wizardComplete \in {0, 1}
  /\ savedSteps \in {{}, Steps(Nets)}
  /\ session \in {0, 1}
  /\ currentStep \in Step \cup {NoStep}
  /\ wizardSteps \in {DefaultSteps, Steps(Nets)}
  /\ loader \in {0, 1}
  /\ rpc \in {0, 1}
  /\ sync \in {"asked", "over"}
  /\ writes \in 0..2
  /\ loaded \in {0, 1}
  /\ select \in
       [rpc : {0, 1}, completed : Step \cup {NoStep}, resuming : {0, 1}]
  /\ auth \in [pending : {0, 1}, own : {0, 1}, step : Step \cup {NoStep}]
  /\ calls \in [Step -> Nat]
  /\ done \in SUBSET Step
  /\ hasty \in {0, 1} /\ detours \in 0..MaxDetours

(* The steps up to s that the interfaces call for.  The list may hold more *)
(* of them: it is a default until the network was synced.                  *)
UpTo(s) == {t \in wizardSteps \cap Steps(Nets) : t <= s}

(* Wherever the setup is left, reloaded and resumed, no step is shown      *)
(* before the user has gone through all the steps before it that the       *)
(* interfaces call for, none is remembered as completed that the user has  *)
(* not gone through, and the setup is only marked complete when all were:  *)
(* unless a user starts calls faster than they are answered.               *)
Covered == hasty = 0 =>
  /\ UpTo(currentStep) \ {currentStep} \subseteq done
  /\ UpTo(completedStep) \subseteq done
  /\ wizardComplete = 1 => Steps(Nets) \ {Complete} \subseteq done

(* A user who keeps going completes the setup, whatever went wrong before. *)
WizardFinishes == <>(wizardComplete = 1)
=============================================================================
