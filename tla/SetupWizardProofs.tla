------------------------- MODULE SetupWizardProofs --------------------------
(***************************************************************************)
(* What SetupWizard guarantees for any interfaces, and any number of       *)
(* failures, reloads and impatient clicks: no step is skipped.             *)
(***************************************************************************)
EXTENDS SetupWizard, TLAPS

(* The steps that the interfaces call for, and those up to a step.         *)
Needed    == Steps(Nets)
Before(s) == {t \in Needed : t < s}
Until(s)  == {t \in Needed : t <= s}

(* What is shown, remembered, copied, or kept for an authentication.       *)
SeenOK ==
  /\ Welcome \in done
  /\ Before(currentStep) \subseteq done
  /\ Until(completedStep) \subseteq done
  /\ wizardComplete = 1 => Needed \ {Complete} \subseteq done
  /\ Until(select.completed) \subseteq done
  /\ Until(auth.step) \subseteq done

(* A call under way is the only one, and the wizard has not passed its     *)
(* step.                                                                   *)
PendingOK ==
  \A s \in Saved : calls[s] > 0 =>
    /\ s \in Needed /\ Before(s) \subseteq done
    /\ currentStep <= s
    /\ calls[s] = 1 /\ auth.pending = 0
    /\ \A u \in Saved \ {s} : calls[u] = 0

IInv == TypeOK /\ (hasty = 0 => SeenOK /\ PendingOK)
-----------------------------------------------------------------------------
(* The lists of steps.                                                     *)
LEMMA Numbers ==
  /\ NoStep = 0 /\ Welcome = 1 /\ License = 2 /\ ServerSettings = 3
  /\ Interfaces = 4 /\ Internet = 5 /\ InternalNetwork = 6 /\ Wireless = 7
  /\ AutoUpgrades = 8 /\ Complete = 9 /\ Step = 1 .. 9
  /\ Saved = {3, 4, 5, 6}
BY DEF NoStep, Welcome, License, ServerSettings, Interfaces, Internet,
       InternalNetwork, Wireless, AutoUpgrades, Complete, Step, Saved

LEMMA Lists ==
  /\ {1, 2, 3, 4, 8, 9} \subseteq Needed
  /\ Needed \subseteq Step
  /\ DefaultSteps \subseteq Step
  /\ Needed \subseteq DefaultSteps
  /\ \A s \in Nets : s \in Needed
BY SetupWizardAssumption, Numbers DEF Needed, DefaultSteps, Steps, Optional

LEMMA Ranges == /\ \A t \in Step : t \in Nat /\ 1 <= t /\ t <= 9
                /\ \A t \in Needed : t \in Nat /\ 1 <= t /\ t <= 9
                /\ NoStep = 0 /\ Welcome = 1
<1>1. \A t \in Step : t \in Nat /\ 1 <= t /\ t <= 9
  BY DEF Step, Welcome, Complete
<1> QED
  BY <1>1, Lists DEF NoStep, Welcome

LEMMA ListHolds ==
  ASSUME TypeOK
  PROVE  Needed \subseteq wizardSteps /\ wizardSteps \subseteq Step
BY Lists DEF TypeOK, Needed

LEMMA FirstIs ==
  ASSUME NEW list \in SUBSET Step, list # {}
  PROVE  First(list) \in list /\ \A t \in list : First(list) <= t
<1>1. list \subseteq 1 .. 9
  BY Numbers
<1>2. \E s \in list : \A t \in list : s <= t
  <2>1. CASE 1 \in list
    BY <1>1, <2>1
  <2>2. CASE 1 \notin list /\ 2 \in list
    BY <1>1, <2>2
  <2>3. CASE {1, 2} \cap list = {} /\ 3 \in list
    BY <1>1, <2>3
  <2>4. CASE {1, 2, 3} \cap list = {} /\ 4 \in list
    BY <1>1, <2>4
  <2>5. CASE {1, 2, 3, 4} \cap list = {} /\ 5 \in list
    BY <1>1, <2>5
  <2>6. CASE {1, 2, 3, 4, 5} \cap list = {} /\ 6 \in list
    BY <1>1, <2>6
  <2>7. CASE {1, 2, 3, 4, 5, 6} \cap list = {} /\ 7 \in list
    BY <1>1, <2>7
  <2>8. CASE {1, 2, 3, 4, 5, 6, 7} \cap list = {} /\ 8 \in list
    BY <1>1, <2>8
  <2>9. CASE {1, 2, 3, 4, 5, 6, 7, 8} \cap list = {}
    <3>1. \A t \in list : t = 9
      BY <1>1, <2>9
    <3> QED
      BY <3>1
  <2> QED
    BY <2>1, <2>2, <2>3, <2>4, <2>5, <2>6, <2>7, <2>8, <2>9
<1> QED
  BY <1>2 DEF First

LEMMA LastIs ==
  ASSUME NEW list \in SUBSET Step, list # {}
  PROVE  Last(list) \in list /\ \A t \in list : t <= Last(list)
<1>1. list \subseteq 1 .. 9
  BY Numbers
<1>2. \E s \in list : \A t \in list : t <= s
  <2>1. CASE 9 \in list
    BY <1>1, <2>1
  <2>2. CASE 9 \notin list /\ 8 \in list
    BY <1>1, <2>2
  <2>3. CASE {9, 8} \cap list = {} /\ 7 \in list
    BY <1>1, <2>3
  <2>4. CASE {9, 8, 7} \cap list = {} /\ 6 \in list
    BY <1>1, <2>4
  <2>5. CASE {9, 8, 7, 6} \cap list = {} /\ 5 \in list
    BY <1>1, <2>5
  <2>6. CASE {9, 8, 7, 6, 5} \cap list = {} /\ 4 \in list
    BY <1>1, <2>6
  <2>7. CASE {9, 8, 7, 6, 5, 4} \cap list = {} /\ 3 \in list
    BY <1>1, <2>7
  <2>8. CASE {9, 8, 7, 6, 5, 4, 3} \cap list = {} /\ 2 \in list
    BY <1>1, <2>8
  <2>9. CASE {9, 8, 7, 6, 5, 4, 3, 2} \cap list = {}
    <3>1. \A t \in list : t = 1
      BY <1>1, <2>9
    <3> QED
      BY <3>1
  <2> QED
    BY <2>1, <2>2, <2>3, <2>4, <2>5, <2>6, <2>7, <2>8, <2>9
<1> QED
  BY <1>2 DEF Last

(* The next step skips none that is needed.                                *)
LEMMA NextIs ==
  ASSUME TypeOK, NEW s \in Step \cup {NoStep}
  PROVE  /\ NextOf(wizardSteps, s) \in Step \cup {NoStep}
         /\ Before(NextOf(wizardSteps, s)) \subseteq Until(s)
         /\ s \notin wizardSteps => NextOf(wizardSteps, s) = Welcome
         /\ \A u \in Needed : s < u => NextOf(wizardSteps, s) <= u
<1> DEFINE after == {t \in wizardSteps : s < t}
           n     == NextOf(wizardSteps, s)
<1>1. Needed \subseteq wizardSteps /\ wizardSteps \subseteq Step /\ Needed \subseteq Step
  BY ListHolds, Lists
<1>2. CASE s \notin wizardSteps
  <2>1. n = First(wizardSteps)
    BY <1>2 DEF NextOf
  <2>2. Welcome \in wizardSteps /\ wizardSteps # {}
    BY <1>1, Lists, Numbers
  <2>3. n \in wizardSteps /\ n <= Welcome
    BY <1>1, <2>1, <2>2, FirstIs
  <2> HIDE DEF n
  <2>4. n = Welcome
    BY <1>1, <2>3, Ranges
  <2> QED
    BY <1>1, <1>2, <2>3, <2>4, Ranges DEF Before, n
<1>3. CASE s \in wizardSteps /\ after = {}
  <2>1. n = NoStep
    BY <1>3 DEF NextOf
  <2> QED
    BY <1>1, <1>3, <2>1, Ranges DEF Before, Until
<1>4. CASE s \in wizardSteps /\ after # {}
  <2>1. n = First(after)
    BY <1>4 DEF NextOf
  <2>2. n \in after /\ \A t \in after : n <= t
    BY <1>1, <1>4, <2>1, FirstIs
  <2> HIDE DEF n
  <2>3. \A u \in Needed : s < u => n <= u
    BY <1>1, <2>2
  <2> QED
    BY <1>1, <1>4, <2>2, <2>3, Ranges DEF Before, Until, n
<1> QED
  BY <1>2, <1>3, <1>4

LEMMA PrevIs ==
  ASSUME TypeOK, NEW s \in Step \cup {NoStep}
  PROVE  /\ PrevOf(wizardSteps, s) \in Step \cup {NoStep}
         /\ PrevOf(wizardSteps, s) <= s
<1> DEFINE before == {t \in wizardSteps : t < s}
           p      == PrevOf(wizardSteps, s)
<1>1. wizardSteps \subseteq Step
  BY ListHolds
<1>2. CASE s \notin wizardSteps \/ before = {}
  BY <1>2, Ranges DEF PrevOf
<1>3. CASE s \in wizardSteps /\ before # {}
  <2>1. p = Last(before)
    BY <1>3 DEF PrevOf
  <2>2. p \in before
    BY <1>1, <1>3, <2>1, LastIs
  <2> QED
    BY <1>1, <2>2, Ranges
<1> QED
  BY <1>2, <1>3

(* Smaller steps need less.                                                *)
LEMMA Smaller ==
  ASSUME NEW s \in Step \cup {NoStep}, NEW t \in Step \cup {NoStep}
  PROVE  /\ s <= t => Before(s) \subseteq Before(t) /\ Until(s) \subseteq Until(t)
         /\ s < t => Until(s) \subseteq Before(t)
         /\ Until(s) \subseteq Before(s) \cup {s} /\ Before(s) \subseteq Until(s)
         /\ Until(NoStep) = {} /\ Before(NoStep) = {} /\ Before(Welcome) = {}
BY Ranges DEF Before, Until
-----------------------------------------------------------------------------
(* Types.                                                                  *)
Places == Step \cup {NoStep}
Copies == [rpc : {0, 1}, completed : Places, resuming : {0, 1}]
Auths  == [pending : {0, 1}, own : {0, 1}, step : Places]

LEMMA SelectsTypes ==
  ASSUME NEW completed \in Places, NEW complete
  PROVE  Selects(completed, complete) \subseteq Copies
BY DEF Selects, Copies, Places

LEMMA ShowTypes ==
  ASSUME NEW s \in Places, NEW sel \in Copies, NEW c \in [Step -> Nat],
         NEW d \in Nat, TypeOK, Show(s, sel, c, d), session' \in {0, 1},
         completedStep' \in Places
  PROVE  /\ currentStep' \in Places /\ loaded' \in {0, 1}
         /\ wizardComplete' \in {0, 1} /\ select' \in Copies
         /\ calls' \in [Step -> Nat] /\ detours' \in 0 .. MaxDetours
<1>1. currentStep' \in Places /\ loaded' \in {0, 1} /\ wizardComplete' \in {0, 1}
  BY DEF Show, TypeOK, Places
<1>2. select' \in Copies
  BY SelectsTypes DEF Show
<1>3. calls' \in [Step -> Nat]
  <2>1. Wireless \in Step /\ c[Wireless] + 1 \in Nat
    BY Numbers
  <2> QED
    BY <2>1 DEF Show
<1>4. detours' \in 0 .. MaxDetours
  <2>1. detours' \in {d, d + 1} /\ detours' <= MaxDetours
    BY DEF Show
  <2> QED
    BY <2>1, SetupWizardAssumption
<1> QED
  BY <1>1, <1>2, <1>3, <1>4

(* The rest of a handler that shows a page.                                *)
Frame == /\ savedSteps' \in {{}, Steps(Nets)}
         /\ wizardSteps' \in {DefaultSteps, Steps(Nets)}
         /\ loader' \in {0, 1} /\ rpc' \in {0, 1} /\ sync' \in {"asked", "over"}
         /\ writes' \in 0 .. 2 /\ auth' \in Auths
         /\ done' \in SUBSET Step /\ hasty' \in {0, 1}

LEMMA PageTypes ==
  ASSUME NEW s \in Places, NEW sel \in Copies, NEW c \in [Step -> Nat],
         NEW d \in Nat, TypeOK, Show(s, sel, c, d), session' \in {0, 1},
         completedStep' \in Places, Frame
  PROVE  TypeOK'
<1>1. /\ currentStep' \in Places /\ loaded' \in {0, 1}
      /\ wizardComplete' \in {0, 1} /\ select' \in Copies
      /\ calls' \in [Step -> Nat] /\ detours' \in 0 .. MaxDetours
  BY ShowTypes
<1> QED
  BY <1>1 DEF Frame, TypeOK, Places, Copies, Auths

LEMMA FrameKept ==
  ASSUME TypeOK,
         UNCHANGED savedSteps \/ savedSteps' = Steps(Nets),
         UNCHANGED wizardSteps, UNCHANGED wizard,
         auth' \in Auths, loader' \in {0, 1}, hasty' \in {0, 1},
         done' \in SUBSET Step
  PROVE  Frame
BY DEF Frame, TypeOK, wizard

LEMMA Usual ==
  ASSUME TypeOK
  PROVE  /\ currentStep \in Places /\ completedStep \in Places
         /\ select \in Copies /\ auth \in Auths /\ calls \in [Step -> Nat]
         /\ session \in {0, 1} /\ loader \in {0, 1} /\ hasty \in {0, 1}
         /\ detours \in Nat /\ auth.pending \in {0, 1} /\ auth.step \in Places
         /\ select.completed \in Places /\ done \in SUBSET Step
BY SetupWizardAssumption DEF TypeOK, Places, Copies, Auths

LEMMA RememberTypes ==
  ASSUME TypeOK, NEW s \in Places, Remember(s)
  PROVE  completedStep' \in Places
BY DEF Remember, TypeOK, Places

LEMMA OverlayTypes ==
  ASSUME NEW s, NEW l \in {0, 1}, session' \in {0, 1}, Overlay(s, l)
  PROVE  loader' \in {0, 1}
BY DEF Overlay

LEMMA OutlivesTypes ==
  ASSUME TypeOK, NEW s, NEW sel \in Copies, Outlives(s, sel)
  PROVE  auth' \in Auths
BY DEF Outlives, TypeOK, Copies, Auths, Places

LEMMA LoadTypes == ASSUME TypeOK, Load, detours' \in 0 .. MaxDetours PROVE TypeOK'
<1>1. select' \in Copies
  BY SelectsTypes, Usual DEF Load
<1>2. calls' \in [Step -> Nat] /\ auth' \in Auths
  BY Numbers DEF Load, NoCalls, NoAuth, Auths, Places
<1>3. currentStep' \in Places /\ wizardSteps' \in {DefaultSteps, Steps(Nets)}
  BY Numbers DEF Load, TypeOK, Places
<1> QED
  BY <1>1, <1>2, <1>3 DEF Load, TypeOK, Places, Copies, Auths, server

LEMMA DetourTypes ==
  ASSUME TypeOK, Detour \/ UNCHANGED detours PROVE detours' \in 0 .. MaxDetours
BY SetupWizardAssumption DEF Detour, TypeOK

(* Every handler keeps the types.                                          *)
LEMMA TypeStep == ASSUME TypeOK, [Next]_vars PROVE TypeOK'
<1> USE Usual
<1>1. CASE SyncAnswered
  BY <1>1 DEF SyncAnswered, TypeOK, server
<1>2. CASE SyncFails
  BY <1>2, DetourTypes DEF SyncFails, TypeOK, server, store
<1>3. CASE WriteArrives
  <2>1. detours' \in 0 .. MaxDetours
    BY <1>3, DetourTypes DEF WriteArrives
  <2>2. writes' \in 0 .. 2
    BY <1>3 DEF WriteArrives, TypeOK
  <2> QED
    BY <1>3, <2>1, <2>2 DEF WriteArrives, TypeOK, server, store
<1>4. CASE SessionExpires
  BY <1>4, DetourTypes DEF SessionExpires, TypeOK, store, wizard
<1>5. CASE RunWizard
  <2> DEFINE s   == NextOf(wizardSteps, currentStep)
             sel == [select EXCEPT !.completed = NoStep, !.resuming = 0]
  <2>1. s \in Places /\ sel \in Copies
    BY NextIs DEF Places, Copies
  <2>2. /\ UNCHANGED <<completedStep, savedSteps, session>>
        /\ Show(s, sel, calls, detours + auth.pending)
        /\ Outlives(s, sel) /\ Overlay(s, loader)
        /\ hasty' \in {1, hasty} /\ UNCHANGED <<wizardSteps, wizard, done>>
    BY <1>5 DEF RunWizard
  <2> HIDE DEF s, sel
  <2>3. detours + auth.pending \in Nat /\ session' \in {0, 1}
    BY <2>2
  <2>4. auth' \in Auths /\ loader' \in {0, 1}
    BY <2>1, <2>2, <2>3, OutlivesTypes, OverlayTypes
  <2>5. Frame
    BY <2>2, <2>4, FrameKept
  <2> QED
    BY <2>1, <2>2, <2>3, <2>5, PageTypes
<1>6. CASE ResumeWizard
  <2>1. auth' \in Auths /\ hasty' \in {0, 1}
    BY <1>6, Numbers DEF ResumeWizard, Haste, Auths, Places
  <2>2. detours' \in 0 .. MaxDetours
    BY <1>6, DetourTypes DEF ResumeWizard
  <2> QED
    BY <1>6, <2>1, <2>2
       DEF ResumeWizard, TypeOK, Auths, Places, server, store, wizard
<1>7. CASE AuthSucceeds
  <2>1. Resumed \in Places
    BY DEF Resumed, Places
  <2>2. PICK d \in {detours, detours + 1} : Show(Resumed, select, calls, d)
    BY <1>7 DEF AuthSucceeds
  <2>3. /\ session' \in {0, 1} /\ auth' \in Auths /\ UNCHANGED completedStep
        /\ Overlay(Resumed, loader)
        /\ UNCHANGED <<savedSteps, wizardSteps, wizard, done, hasty>>
    BY <1>7, Numbers DEF AuthSucceeds, NoAuth, Auths, Places
  <2>4. Frame
    BY <2>3, FrameKept, OverlayTypes
  <2> QED
    BY <2>1, <2>2, <2>3, <2>4, PageTypes
<1>8. CASE AuthFails
  <2>1. auth' \in Auths
    BY <1>8, Numbers DEF AuthFails, NoAuth, Auths, Places
  <2> QED
    BY <1>8, <2>1, DetourTypes
       DEF AuthFails, TypeOK, Auths, Places, server, store, wizard
<1>9. CASE Back
  <2> DEFINE s == PrevOf(wizardSteps, currentStep)
  <2>1. /\ UNCHANGED <<completedStep, savedSteps, session>>
        /\ Show(s, select, calls, detours + 1) /\ Overlay(s, loader)
        /\ UNCHANGED <<wizardSteps, wizard, auth, done, hasty>>
    BY <1>9 DEF Back
  <2>2. s \in Places
    BY PrevIs DEF Places
  <2> HIDE DEF s
  <2>3. Frame
    BY <2>1, FrameKept, OverlayTypes
  <2> QED
    BY <2>1, <2>2, <2>3, PageTypes
<1>10. CASE Agree
  <2> DEFINE s == NextOf(wizardSteps, currentStep)
  <2>1. /\ UNCHANGED <<completedStep, savedSteps, session>>
        /\ Show(s, select, calls, detours) /\ Overlay(s, loader)
        /\ done' = done \cup {License}
        /\ UNCHANGED <<wizardSteps, wizard, auth, hasty>>
    BY <1>10 DEF Agree
  <2>2. s \in Places /\ License \in Step
    BY NextIs, Numbers DEF Places
  <2> HIDE DEF s
  <2>3. Frame
    BY <2>1, <2>2, FrameKept, OverlayTypes
  <2> QED
    BY <2>1, <2>2, <2>3, PageTypes
<1>11. CASE Disagree
  <2> DEFINE s == PrevOf(wizardSteps, currentStep)
  <2>1. /\ UNCHANGED <<savedSteps, session>> /\ Remember(NoStep)
        /\ Show(s, select, calls, detours + 1) /\ Overlay(s, loader)
        /\ UNCHANGED <<wizardSteps, wizard, auth, done, hasty>>
    BY <1>11 DEF Disagree
  <2>2. s \in Places /\ NoStep \in Places
    BY PrevIs DEF Places
  <2> HIDE DEF s
  <2>3. Frame /\ completedStep' \in Places
    BY <2>1, <2>2, FrameKept, OverlayTypes, RememberTypes
  <2> QED
    BY <2>1, <2>2, <2>3, PageTypes
<1>12. ASSUME NEW s \in Step, Save(s) PROVE TypeOK'
  <2>1. calls' \in [Step -> Nat] /\ hasty' \in {0, 1} /\ loader' \in {0, 1}
    BY <1>12 DEF Save, Haste
  <2>2. detours' \in 0 .. MaxDetours
    BY <1>12, DetourTypes DEF Save
  <2> QED
    BY <1>12, <2>1, <2>2 DEF Save, TypeOK, server, wizard
<1>13. ASSUME NEW s \in Step, SaveSucceeds(s) PROVE TypeOK'
  <2> DEFINE t == Target(s)
             c == [calls EXCEPT ![s] = @ - 1]
  <2>1. t \in Places
    BY NextIs DEF Target, Places
  <2>2. c \in [Step -> Nat]
    BY <1>13 DEF SaveSucceeds
  <2>3. /\ session' \in {0, 1} /\ done' \in SUBSET Step
        /\ UNCHANGED <<savedSteps, wizardSteps, wizard, hasty>>
    BY <1>13 DEF SaveSucceeds
  <2>4. CASE Stays(s)
    <3>1. /\ calls' = c /\ loader' = 0
          /\ UNCHANGED <<completedStep, wizardComplete, currentStep, loaded,
                         select, auth, detours>>
      BY <1>13, <2>4 DEF SaveSucceeds
    <3> QED
      BY <2>2, <2>3, <3>1 DEF TypeOK, wizard
  <2>5. CASE ~Stays(s)
    <3>1. /\ Remember(currentStep)
          /\ Show(t, select, c, detours) /\ Outlives(t, select)
          /\ loader' = 0 \/ Overlay(t, 0)
      BY <1>13, <2>5 DEF SaveSucceeds
    <3> HIDE DEF t, c
    <3>2. /\ completedStep' \in Places /\ auth' \in Auths
          /\ loader' \in {0, 1}
      BY <2>3, <3>1, RememberTypes, OutlivesTypes, OverlayTypes
    <3>3. Frame
      BY <2>3, <3>2, FrameKept
    <3> QED
      BY <2>1, <2>2, <2>3, <3>1, <3>2, <3>3, PageTypes
  <2> QED
    BY <2>4, <2>5
<1>14. ASSUME NEW s \in Step, SaveFails(s) PROVE TypeOK'
  <2>1. calls' \in [Step -> Nat] /\ loader' \in {0, 1} /\ session' \in {0, 1}
    BY <1>14 DEF SaveFails
  <2>2. detours' \in 0 .. MaxDetours
    BY <1>14, DetourTypes DEF SaveFails
  <2> QED
    BY <1>14, <2>1, <2>2 DEF SaveFails, TypeOK, wizard
<1>15. ASSUME NEW s \in Step, NextPage(s) PROVE TypeOK'
  <2> DEFINE t == NextOf(wizardSteps, currentStep)
  <2>1. /\ UNCHANGED <<savedSteps, session>> /\ done' = done \cup {s}
        /\ Remember(currentStep)
        /\ Show(t, select, calls, detours) /\ Overlay(t, loader)
        /\ UNCHANGED <<wizardSteps, wizard, auth, hasty>>
    BY <1>15 DEF NextPage
  <2>2. t \in Places
    BY NextIs DEF Places
  <2> HIDE DEF t
  <2>3. Frame /\ completedStep' \in Places
    BY <2>1, <2>2, FrameKept, OverlayTypes, RememberTypes
  <2> QED
    BY <2>1, <2>2, <2>3, PageTypes
<1>16. CASE WirelessLoaded
  <2>1. calls' \in [Step -> Nat]
    BY <1>16, Numbers DEF WirelessLoaded
  <2> QED
    BY <1>16, <2>1 DEF WirelessLoaded, TypeOK, server, wizard
<1>17. CASE Reload \/ ReloadStuck
  BY <1>17, LoadTypes, DetourTypes DEF Reload, ReloadStuck
<1>18. CASE UNCHANGED vars
  BY <1>18 DEF vars, TypeOK, server, store, wizard
<1> QED
  BY <1>1, <1>2, <1>3, <1>4, <1>5, <1>6, <1>7, <1>8, <1>9, <1>10, <1>11, <1>12,
     <1>13, <1>14, <1>15, <1>16, <1>17, <1>18 DEF Next, Forward
-----------------------------------------------------------------------------
(* No step is skipped.                                                     *)

(* A page that is shown: what must be gone through by then.                *)
LEMMA ShowSeen ==
  ASSUME TypeOK, SeenOK, PendingOK,
         NEW s \in Places, NEW sel, NEW c \in [Step -> Nat], NEW d,
         Show(s, sel, c, d), done \subseteq done',
         Before(s) \subseteq done', Until(completedStep') \subseteq done',
         Until(sel.completed) \subseteq done', Until(auth'.step) \subseteq done',
         \A u \in Saved : c[u] <= calls[u],
         \A u \in Saved : c[u] > 0 => s <= u /\ auth'.pending = 0
  PROVE  SeenOK' /\ PendingOK'
<1>1. currentStep' = s
  BY DEF Show
<1>2. wizardComplete' = 1 => Needed \ {Complete} \subseteq done'
  <2>1. CASE s = Complete
    <3>1. \A t \in Needed \ {Complete} : t < Complete
      BY Ranges DEF Complete
    <3> QED
      BY <2>1, <3>1 DEF Before
  <2>2. CASE s # Complete
    BY <2>2 DEF Show, SeenOK
  <2> QED
    BY <2>1, <2>2
<1>3. Until(select'.completed) \subseteq done'
  <2>1. select'.completed \in {NoStep, completedStep'} \/ select' = sel
    BY DEF Show, Selects
  <2> QED
    BY <2>1, Smaller, Ranges
<1>4. SeenOK'
  BY <1>1, <1>2, <1>3 DEF SeenOK
<1>5. \A u \in Saved : u \in Step /\ calls'[u] = c[u]
  BY Numbers DEF Show
<1>6. ASSUME NEW u \in Saved, calls'[u] > 0
      PROVE  /\ u \in Needed /\ Before(u) \subseteq done'
             /\ currentStep' <= u
             /\ calls'[u] = 1 /\ auth'.pending = 0
             /\ \A v \in Saved \ {u} : calls'[v] = 0
  <2>1. c[u] > 0 /\ calls[u] > 0 /\ calls[u] \in Nat /\ c[u] \in Nat
    BY <1>5, <1>6 DEF TypeOK
  <2>2. /\ u \in Needed /\ Before(u) \subseteq done /\ calls[u] = 1
        /\ \A v \in Saved \ {u} : calls[v] = 0
    BY <2>1 DEF PendingOK
  <2>3. \A v \in Saved \ {u} : c[v] \in Nat /\ c[v] <= 0
    BY <1>5, <2>2
  <2> QED
    BY <1>1, <1>5, <2>1, <2>2, <2>3
<1> QED
  BY <1>4, <1>6 DEF PendingOK

(* A handler that shows no page.                                           *)
LEMMA SameSeen ==
  ASSUME SeenOK, PendingOK, TypeOK,
         UNCHANGED <<currentStep, select>>, done \subseteq done',
         completedStep' = NoStep \/ UNCHANGED completedStep,
         wizardComplete' = 0 \/ UNCHANGED wizardComplete,
         UNCHANGED auth \/ auth' = NoAuth,
         calls' \in [Step -> Nat], \A u \in Saved : calls'[u] <= calls[u]
  PROVE  SeenOK' /\ PendingOK'
<1>1. Until(NoStep) = {}
  BY Smaller, Ranges
<1>2. Until(auth'.step) \subseteq done'
  BY <1>1 DEF SeenOK, NoAuth
<1>3. SeenOK'
  BY <1>1, <1>2 DEF SeenOK
<1>4. ASSUME NEW u \in Saved, calls'[u] > 0
      PROVE  /\ u \in Needed /\ Before(u) \subseteq done'
             /\ currentStep' <= u
             /\ calls'[u] = 1 /\ auth'.pending = 0
             /\ \A v \in Saved \ {u} : calls'[v] = 0
  <2>1. \A v \in Saved : calls[v] \in Nat /\ calls'[v] \in Nat
    BY Numbers DEF TypeOK
  <2>2. /\ u \in Needed /\ Before(u) \subseteq done /\ calls[u] = 1
        /\ currentStep <= u /\ auth.pending = 0
        /\ \A v \in Saved \ {u} : calls[v] = 0
    BY <1>4, <2>1 DEF PendingOK
  <2>3. auth'.pending = 0
    BY <2>2 DEF NoAuth
  <2> QED
    BY <1>4, <2>1, <2>2, <2>3
<1> QED
  BY <1>3, <1>4 DEF PendingOK

LEMMA LoadSeen == ASSUME SeenOK, TypeOK, Load PROVE SeenOK' /\ PendingOK'
<1>1. /\ Until(NoStep) = {} /\ Before(NoStep) = {} /\ Before(Welcome) = {}
  BY Smaller, Ranges
<1>2. /\ currentStep' \in {NoStep, Welcome} /\ auth'.step = NoStep
      /\ UNCHANGED <<completedStep, wizardComplete, done>>
      /\ \A u \in Saved : calls'[u] = 0
      /\ select'.completed \in {NoStep, completedStep}
  BY Numbers DEF Load, NoAuth, NoCalls, Selects, server
<1>3. SeenOK'
  BY <1>1, <1>2 DEF SeenOK
<1> QED
  BY <1>2, <1>3 DEF PendingOK

(* A call is started where the user is, with no other under way.           *)
LEMMA SaveSeen ==
  ASSUME TypeOK, SeenOK, PendingOK, NEW s \in Step, Save(s), hasty' = 0
  PROVE  SeenOK' /\ PendingOK'
<1>1. s \in Saved /\ currentStep = s /\ s \in Needed
  <2>1. s \in Saved /\ Page(currentStep) = s /\ HasSettings(s)
    BY DEF Save, Usable
  <2>2. currentStep = s
    BY <2>1, Numbers DEF Page
  <2>3. s \in Needed
    BY <2>1, Lists, Numbers DEF HasSettings
  <2> QED
    BY <2>1, <2>2, <2>3
<1>2. auth.pending = 0 /\ \A u \in Saved : calls[u] = 0
  BY DEF Save, Haste
<1>3. /\ calls' = [calls EXCEPT ![s] = @ + 1]
      /\ UNCHANGED <<completedStep, wizardComplete, currentStep, select, auth,
                     done>>
  BY DEF Save, server
<1>4. SeenOK'
  BY <1>3 DEF SeenOK
<1>5. \A u \in Saved : u \in Step /\ calls'[u] = IF u = s THEN 1 ELSE 0
  BY <1>1, <1>2, <1>3, Numbers DEF TypeOK
<1>6. Before(s) \subseteq done' /\ currentStep' <= s
  BY <1>1, <1>3, Ranges DEF SeenOK
<1> QED
  BY <1>1, <1>2, <1>3, <1>4, <1>5, <1>6 DEF PendingOK

(* Its answer leads on from its own step, or from the one that is shown.   *)
LEMMA AnswerSeen ==
  ASSUME TypeOK, SeenOK, PendingOK, NEW s \in Step, SaveSucceeds(s)
  PROVE  SeenOK' /\ PendingOK'
<1> DEFINE t == Target(s)
           c == [calls EXCEPT ![s] = @ - 1]
<1>1. /\ s \in Saved /\ calls[s] > 0 /\ done' = done \cup {s}
  BY DEF SaveSucceeds
<1>2. /\ s \in Needed /\ Before(s) \subseteq done /\ currentStep <= s
      /\ calls[s] = 1 /\ auth.pending = 0
      /\ \A u \in Saved \ {s} : calls[u] = 0
  BY <1>1 DEF PendingOK
<1>3. c \in [Step -> Nat] /\ \A u \in Saved : c[u] <= calls[u] /\ c[u] = 0
  BY <1>1, <1>2, Numbers DEF TypeOK
<1>4. Until(s) \subseteq done'
  BY <1>1, <1>2, Smaller DEF Places
<1>5. Until(currentStep) \subseteq done'
  BY <1>2, <1>4, Smaller, Usual DEF Places
<1>6. t \in Places /\ Before(t) \subseteq done'
  BY <1>4, <1>5, NextIs, Usual DEF Target, Places
<1>7. CASE Stays(s)
  <2>1. /\ calls' = c
        /\ UNCHANGED <<completedStep, wizardComplete, currentStep, select, auth>>
    BY <1>7 DEF SaveSucceeds
  <2> QED
    BY <1>1, <1>3, <2>1, SameSeen
<1>8. CASE ~Stays(s)
  <2>1. /\ Remember(currentStep)
        /\ Show(t, select, c, detours) /\ Outlives(t, select)
    BY <1>8 DEF SaveSucceeds
  <2> HIDE DEF t, c
  <2>2. Until(completedStep') \subseteq done'
    BY <1>1, <1>5, <2>1 DEF Remember, SeenOK
  <2>3. Until(select.completed) \subseteq done' /\ Until(auth'.step) \subseteq done'
    BY <1>1, <2>1 DEF Outlives, SeenOK, TypeOK
  <2> QED
    BY <1>1, <1>3, <1>6, <2>1, <2>2, <2>3, ShowSeen
<1> QED
  BY <1>7, <1>8

LEMMA SeenStep ==
  ASSUME IInv, [Next]_vars, hasty' = 0
  PROVE  SeenOK' /\ PendingOK'
<1> USE Usual
<1>0. TypeOK
  BY DEF IInv
<1>00. hasty = 0 => SeenOK /\ PendingOK
  BY DEF IInv
<1>01. /\ Until(NoStep) = {} /\ Before(NoStep) = {} /\ Before(Welcome) = {}
  BY Smaller, Ranges
<1>02. Until(Welcome) \subseteq {Welcome}
  BY Ranges DEF Until
<1>03. \A u \in Saved : u \in Step /\ calls[u] \in Nat
  BY <1>0, Numbers
<1>1. CASE SyncAnswered \/ SyncFails \/ WriteArrives \/ SessionExpires
             \/ WirelessLoaded
  <2>1. hasty = 0 /\ UNCHANGED <<currentStep, select, auth, done>>
    BY <1>1 DEF SyncAnswered, SyncFails, WriteArrives, SessionExpires,
                WirelessLoaded, store
  <2>2. /\ completedStep' = NoStep \/ UNCHANGED completedStep
        /\ wizardComplete' = 0 \/ UNCHANGED wizardComplete
    BY <1>1 DEF SyncAnswered, SyncFails, WriteArrives, SessionExpires,
                WirelessLoaded, server
  <2>3. calls' \in [Step -> Nat] /\ \A u \in Saved : calls'[u] <= calls[u]
    BY <1>0, <1>1, <1>03, Numbers
       DEF SyncAnswered, SyncFails, WriteArrives, SessionExpires, WirelessLoaded
  <2> QED
    BY <1>0, <1>00, <2>1, <2>2, <2>3, SameSeen
<1>2. CASE RunWizard
  <2> DEFINE s   == NextOf(wizardSteps, currentStep)
             sel == [select EXCEPT !.completed = NoStep, !.resuming = 0]
  <2>1. /\ UNCHANGED <<completedStep, done>>
        /\ Show(s, sel, calls, detours + auth.pending)
        /\ Outlives(s, sel) /\ hasty = 0 /\ Page(currentStep) = Welcome
    BY <1>0, <1>2 DEF RunWizard, Usable
  <2>2. s \in Places /\ Before(s) \subseteq Until(currentStep)
    BY <1>0, NextIs DEF Places
  <2>3. Until(currentStep) \subseteq done
    <3>1. currentStep \in {NoStep, Welcome}
      BY <2>1 DEF Page
    <3> QED
      BY <1>00, <1>01, <1>02, <2>1, <3>1 DEF SeenOK
  <2>4. ASSUME NEW u \in Saved, calls[u] > 0 PROVE s <= u /\ auth'.pending = 0
    <3>1. u \in Needed /\ auth.pending = 0
      BY <1>00, <2>1, <2>4 DEF PendingOK
    <3>2. currentStep < u
      BY <2>1, Numbers DEF Page
    <3>3. s <= u
      BY <1>0, <3>1, <3>2, NextIs DEF Places
    <3>4. auth'.pending = 0
      BY <1>0, <2>1, <3>1 DEF Outlives, Auths
    <3> QED
      BY <3>3, <3>4
  <2>5. Until(sel.completed) = {}
    BY <1>0, <1>01 DEF Copies
  <2> HIDE DEF s, sel
  <2>6. Until(auth'.step) \subseteq done'
    BY <1>0, <1>00, <2>1, <2>5 DEF Outlives, SeenOK, Auths
  <2> QED
    BY <1>0, <1>00, <1>03, <2>1, <2>2, <2>3, <2>4, <2>5, <2>6, ShowSeen DEF SeenOK
<1>3. CASE ResumeWizard
  <2>1. /\ auth'.step = NoStep
        /\ UNCHANGED <<completedStep, wizardComplete, currentStep, select, calls,
                       done>>
        /\ hasty = 0 /\ \A u \in Saved : calls[u] = 0
    BY <1>0, <1>3 DEF ResumeWizard, Haste, server, store
  <2>2. SeenOK'
    BY <1>00, <1>01, <2>1 DEF SeenOK
  <2> QED
    BY <2>1, <2>2 DEF PendingOK
<1>4. CASE AuthSucceeds
  <2>1. PICK d : Show(Resumed, select, calls, d)
    BY <1>4 DEF AuthSucceeds
  <2>2. /\ auth.pending = 1 /\ auth'.step = NoStep /\ hasty = 0
        /\ UNCHANGED <<completedStep, done>>
    BY <1>4 DEF AuthSucceeds, NoAuth
  <2>3. Resumed \in Places /\ Until(Resumed) \subseteq done
    BY <1>0, <1>00, <1>01, <2>2 DEF Resumed, SeenOK, Places
  <2>4. Before(Resumed) \subseteq done
    BY <2>3, Smaller DEF Places
  <2>5. \A u \in Saved : ~ calls[u] > 0
    BY <1>00, <2>2 DEF PendingOK
  <2> QED
    BY <1>0, <1>00, <1>01, <1>03, <2>1, <2>2, <2>3, <2>4, <2>5, ShowSeen
       DEF SeenOK
<1>5. CASE AuthFails
  <2>1. /\ auth' = NoAuth /\ hasty = 0
        /\ UNCHANGED <<completedStep, wizardComplete, currentStep, select, calls,
                       done>>
    BY <1>5 DEF AuthFails, server, store
  <2> QED
    BY <1>0, <1>00, <1>03, <2>1, SameSeen
<1>6. CASE Back \/ Disagree
  <2> DEFINE s == PrevOf(wizardSteps, currentStep)
  <2>1. /\ UNCHANGED completedStep \/ completedStep' = NoStep
        /\ Show(s, select, calls, detours + 1)
        /\ UNCHANGED <<auth, done, hasty>>
    BY <1>6 DEF Back, Disagree, Remember
  <2>2. s \in Places /\ s <= currentStep
    BY <1>0, PrevIs DEF Places
  <2> HIDE DEF s
  <2>3. Before(s) \subseteq done
    BY <1>0, <1>00, <2>1, <2>2, Smaller DEF SeenOK, Places
  <2>4. ASSUME NEW u \in Saved, calls[u] > 0 PROVE s <= u /\ auth'.pending = 0
    <3>1. currentStep <= u /\ auth.pending = 0
      BY <1>00, <2>1, <2>4 DEF PendingOK
    <3> QED
      BY <1>0, <1>03, <2>1, <2>2, <3>1, Numbers DEF Places
  <2> QED
    BY <1>0, <1>00, <1>01, <1>03, <2>1, <2>2, <2>3, <2>4, ShowSeen DEF SeenOK
<1>7. CASE Agree
  <2> DEFINE s == NextOf(wizardSteps, currentStep)
  <2>1. /\ UNCHANGED <<completedStep, auth, hasty>>
        /\ Show(s, select, calls, detours) /\ done' = done \cup {License}
        /\ currentStep = License
    BY <1>7, Numbers DEF Agree, Usable, Page
  <2>2. s \in Places /\ Before(s) \subseteq Until(currentStep)
    BY <1>0, NextIs DEF Places
  <2>3. Until(currentStep) \subseteq done'
    BY <1>0, <1>00, <2>1, Smaller DEF SeenOK, Places
  <2>4. ASSUME NEW u \in Saved, calls[u] > 0 PROVE s <= u /\ auth'.pending = 0
    <3>1. u \in Needed /\ auth.pending = 0
      BY <1>00, <2>1, <2>4 DEF PendingOK
    <3>2. currentStep < u
      BY <2>1, Numbers
    <3>3. s <= u
      BY <1>0, <3>1, <3>2, NextIs DEF Places
    <3> QED
      BY <2>1, <3>1, <3>3
  <2> HIDE DEF s
  <2> QED
    BY <1>0, <1>00, <1>03, <2>1, <2>2, <2>3, <2>4, ShowSeen DEF SeenOK
<1>8. ASSUME NEW s \in Step, Save(s) PROVE SeenOK' /\ PendingOK'
  <2>1. hasty = 0
    BY <1>0, <1>8 DEF Save, Haste
  <2> QED
    BY <1>0, <1>00, <1>8, <2>1, SaveSeen
<1>9. ASSUME NEW s \in Step, SaveSucceeds(s) PROVE SeenOK' /\ PendingOK'
  <2>1. hasty = 0
    BY <1>9 DEF SaveSucceeds
  <2> QED
    BY <1>0, <1>00, <1>9, <2>1, AnswerSeen
<1>10. ASSUME NEW s \in Step, SaveFails(s) PROVE SeenOK' /\ PendingOK'
  <2>1. /\ UNCHANGED <<completedStep, wizardComplete, currentStep, select, auth,
                       done, hasty>>
        /\ s \in Saved /\ calls[s] > 0 /\ calls' = [calls EXCEPT ![s] = @ - 1]
    BY <1>10 DEF SaveFails
  <2>2. calls' \in [Step -> Nat] /\ \A u \in Saved : calls'[u] <= calls[u]
    BY <1>0, <1>03, <2>1
  <2> QED
    BY <1>0, <1>00, <2>1, <2>2, SameSeen
<1>11. ASSUME NEW p \in Step, NextPage(p) PROVE SeenOK' /\ PendingOK'
  <2> DEFINE s == NextOf(wizardSteps, currentStep)
  <2>1. /\ UNCHANGED <<auth, hasty>> /\ Remember(currentStep)
        /\ Show(s, select, calls, detours) /\ done' = done \cup {p}
        /\ p \in {Wireless, AutoUpgrades} \cup ({InternalNetwork} \ Nets)
        /\ currentStep = p
    BY <1>11, Numbers DEF NextPage, Usable, Page
  <2>2. s \in Places /\ Before(s) \subseteq Until(currentStep)
    BY <1>0, NextIs DEF Places
  <2>3. Until(currentStep) \subseteq done'
    BY <1>0, <1>00, <2>1, Smaller DEF SeenOK, Places
  <2>4. Until(completedStep') \subseteq done'
    BY <1>00, <2>1, <2>3 DEF Remember, SeenOK
  <2>5. ASSUME NEW u \in Saved, calls[u] > 0 PROVE s <= u /\ auth'.pending = 0
    <3>1. u \in Needed /\ auth.pending = 0 /\ currentStep <= u
      BY <1>00, <2>1, <2>5 DEF PendingOK
    <3>2. u # p
      BY <2>1, <3>1, Numbers DEF Needed, Steps
    <3>3. currentStep < u
      BY <1>03, <2>1, <3>1, <3>2, Ranges
    <3>4. s <= u
      BY <1>0, <3>1, <3>3, NextIs DEF Places
    <3> QED
      BY <2>1, <3>1, <3>4
  <2> HIDE DEF s
  <2> QED
    BY <1>0, <1>00, <1>03, <2>1, <2>2, <2>3, <2>4, <2>5, ShowSeen DEF SeenOK
<1>12. CASE Reload \/ ReloadStuck
  <2>1. Load /\ hasty = 0
    BY <1>12 DEF Reload, ReloadStuck, Load
  <2> QED
    BY <1>0, <1>00, <2>1, LoadSeen
<1>13. CASE UNCHANGED vars
  BY <1>00, <1>13 DEF vars, server, store, SeenOK, PendingOK
<1> QED
  BY <1>1, <1>2, <1>3, <1>4, <1>5, <1>6, <1>7, <1>8, <1>9, <1>10, <1>11, <1>12,
     <1>13 DEF Next, Forward

-----------------------------------------------------------------------------
(* The invariant is inductive: types, what the user has gone through, and  *)
(* the one call under way.                                                 *)
LEMMA Inductive == Spec => []IInv
<1>1. Init => IInv
  <2> SUFFICES ASSUME Init PROVE IInv
    OBVIOUS
  <2>1. TypeOK
    <3>1. select \in Copies
      BY SelectsTypes, Ranges DEF Init, Places
    <3> QED
      BY <3>1, Numbers, SetupWizardAssumption
         DEF Init, TypeOK, Copies, Places, NoAuth, NoCalls
  <2>2. Until(NoStep) = {} /\ Before(Welcome) = {}
    BY Smaller, Ranges
  <2>3. /\ currentStep = Welcome /\ completedStep = NoStep /\ wizardComplete = 0
        /\ Welcome \in done /\ auth.step = NoStep /\ select.completed = NoStep
        /\ calls = NoCalls
    BY DEF Init, NoAuth, Selects
  <2>4. SeenOK
    BY <2>2, <2>3 DEF SeenOK
  <2>5. PendingOK
    BY <2>3, Numbers DEF PendingOK, NoCalls
  <2> QED
    BY <2>1, <2>4, <2>5 DEF IInv
<1>2. IInv /\ [Next]_vars => IInv'
  BY TypeStep, SeenStep DEF IInv
<1> QED
  BY <1>1, <1>2, PTL DEF Spec

(* Types: for any interfaces, failures, reloads and resumes, the current   *)
(* step computed from a list that may be the default or the synced one is  *)
(* a step or undefined, and so is what is remembered (SetupSelect.vue,     *)
(* Wizard.vue, store/setup.js).                                            *)
THEOREM TypeCorrect == Spec => []TypeOK
<1>1. IInv => TypeOK
  BY DEF IInv
<1> QED
  BY <1>1, Inductive, PTL

(* Wherever the setup is left, reloaded and resumed, no step is shown,     *)
(* remembered or counted as complete before the user has gone through the  *)
(* steps before it, unless calls are started faster than they are answered *)
(* (Wizard.vue, SetupSelect.vue, the steps, store/setup.js).               *)
THEOREM CoveredCorrect == Spec => [](TypeOK /\ Covered)
<1>1. IInv => TypeOK /\ Covered
  <2> SUFFICES ASSUME IInv PROVE TypeOK /\ Covered
    OBVIOUS
  <2>1. TypeOK
    BY DEF IInv
  <2>2. ASSUME NEW s \in Places
        PROVE  /\ UpTo(s) \subseteq Until(s)
               /\ UpTo(s) \ {s} \subseteq Before(s)
    BY Ranges DEF UpTo, Until, Before, Needed, Places
  <2> QED
    BY <2>1, <2>2, Usual DEF IInv, SeenOK, Covered, Needed
<1> QED
  BY <1>1, Inductive, PTL
=============================================================================
