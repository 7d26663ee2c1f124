------------------------- MODULE SetupNetworkProofs -------------------------
(***************************************************************************)
(* The safety of the network step of the setup wizard for every number of  *)
(* interfaces and every set of devices.                                    *)
(*                                                                         *)
(* The remapping is right because the grid is one to one in both columns   *)
(* (deviceName and physicalDev agree, each device is in exactly one row).  *)
(* That needs a server that reports on every device: AllRecords.           *)
(***************************************************************************)
EXTENDS SetupNetwork, WellFoundedInduction, TLAPS

RowType == [deviceName : Name, physicalDev : Name,
            connected : {"present", "MISSING"}]

GridShape(g) ==
  /\ \A i \in Row : g[i].physicalDev \in Dev
                    /\ g[i].deviceName = g[i].physicalDev
  /\ \A i, j \in Row : g[i].physicalDev = g[j].physicalDev => i = j
  /\ \A d \in Dev : \E i \in Row : g[i].physicalDev = d

StatusShape(g, u) ==
  \A i \in Row : g[i].connected = "MISSING" <=> g[i].physicalDev \in u

GridInv ==
  load = "done" =>
    /\ GridShape(gridData) /\ StatusShape(gridData, unavailable)
    /\ \A d \in Dev : seen[d] # "present" <=> d \in unavailable

IInv == TypeOK /\ OnePoll /\ (AllRecords => GridInv /\ SaveRearranges)

-----------------------------------------------------------------------------
(* The first element of a set with one element.                            *)
LEMMA FirstOfOne ==
  ASSUME NEW s, NEW k \in Row, s = {k}
  PROVE  First(s) = k
BY SetupNetworkAssumption DEF First, Row

(* Remapping a row of a grid in which both columns agree and are one to    *)
(* one is a swap: the result is such a grid, and each status went with its *)
(* device.                                                                 *)
LEMMA RemapSwaps ==
  ASSUME NEW g \in [Row -> RowType], NEW u \in SUBSET Name,
         GridShape(g), StatusShape(g, u), NEW row \in Row, NEW d \in Dev,
         NEW h, h = setInterfacesMap([g EXCEPT ![row].physicalDev = d], row)
  PROVE  h \in [Row -> RowType] /\ GridShape(h) /\ StatusShape(h, u)
<1> DEFINE b == [g EXCEPT ![row].physicalDev = d]
           old == g[row].physicalDev
<1>0. /\ \A i \in Row : g[i].physicalDev \in Dev
      /\ \A i \in Row : g[i].deviceName = g[i].physicalDev
      /\ \A i, j \in Row : g[i].physicalDev = g[j].physicalDev => i = j
  BY DEF GridShape
<1>1. PICK k \in Row : g[k].physicalDev = d
  BY DEF GridShape
<1>2. /\ \A i \in Row : b[i].deviceName = g[i].deviceName
                        /\ b[i].connected = g[i].connected
      /\ b[row].physicalDev = d /\ b[row].deviceName = old
      /\ b \in [Row -> RowType]
      /\ \A i \in Row : i # row => b[i] = g[i]
  BY DEF GridShape, RowType, Name
<1>3. Named(b, d) = {k} /\ Named(b, old) = {row}
  BY <1>1, <1>2 DEF Named, GridShape
<1>4. First(Named(b, d)) = k /\ First(Named(b, old)) = row
  BY <1>3, FirstOfOne
<1>5. CASE k = row
  <2>1. h = b
    BY <1>2, <1>4, <1>5 DEF setInterfacesMap
  <2>2. b = g
    <3>1. b[row] = g[row]
      BY <1>1, <1>5 DEF RowType
    <3> QED
      BY <1>2, <3>1
  <2> QED
    BY <2>1, <2>2
<1>6. CASE k # row
  <2>1. h = [b EXCEPT
               ![row] = [deviceName |-> d, physicalDev |-> d,
                         connected |-> b[k].connected],
               ![k] = [deviceName |-> old, physicalDev |-> old,
                       connected |-> b[row].connected]]
    BY <1>2, <1>3, <1>4, <1>6 DEF setInterfacesMap
  <2>2. /\ h[row] = [deviceName |-> d, physicalDev |-> d,
                     connected |-> g[k].connected]
        /\ h[k] = [deviceName |-> old, physicalDev |-> old,
                   connected |-> g[row].connected]
        /\ \A i \in Row : i # row /\ i # k => h[i] = g[i]
        /\ DOMAIN h = Row
    BY <1>2, <1>6, <2>1
  <2>3. /\ h[row].physicalDev = d /\ h[row].deviceName = d
        /\ h[row].connected = g[k].connected
        /\ h[k].physicalDev = old /\ h[k].deviceName = old
        /\ h[k].connected = g[row].connected
        /\ old \in Dev /\ g[k].physicalDev = d
    BY <1>1, <2>2 DEF GridShape
  <2>9. h \in [Row -> RowType]
    <3>1. h[row] \in RowType /\ h[k] \in RowType
      BY <2>2, <2>3 DEF RowType, Name
    <3>2. \A i \in Row : h[i] \in RowType
      BY <2>2, <3>1
    <3>3. h = [i \in Row |-> h[i]]
      BY <1>2, <2>1
    <3> QED
      BY <3>2, <3>3
  <2>4. \A i \in Row : h[i].physicalDev \in Dev
                       /\ h[i].deviceName = h[i].physicalDev
    <3> SUFFICES ASSUME NEW i \in Row
                 PROVE  h[i].physicalDev \in Dev
                        /\ h[i].deviceName = h[i].physicalDev
      OBVIOUS
    <3>1. CASE i = row \/ i = k
      BY <2>3, <3>1
    <3>2. CASE i # row /\ i # k
      <4>1. h[i] = g[i]
        BY <2>2, <3>2
      <4> QED
        BY <1>0, <4>1
    <3> QED
      BY <3>1, <3>2
  <2>5. \A i \in Row : i # row /\ i # k =>
             h[i].physicalDev = g[i].physicalDev
             /\ g[i].physicalDev # d /\ g[i].physicalDev # old
    BY <1>1, <2>2 DEF GridShape
  <2>6. \A i, j \in Row : h[i].physicalDev = h[j].physicalDev => i = j
    <3> SUFFICES ASSUME NEW i \in Row, NEW j \in Row,
                        h[i].physicalDev = h[j].physicalDev
                 PROVE  i = j
      OBVIOUS
    <3>1. d # old
      BY <1>1, <1>6 DEF GridShape
    <3>2. CASE i \notin {row, k} /\ j \notin {row, k}
      <4>1. g[i].physicalDev = g[j].physicalDev
        BY <2>5, <3>2
      <4> QED
        BY <1>0, <4>1
    <3>3. CASE i = row
      <4>1. h[j].physicalDev = d
        BY <2>3, <3>3
      <4> QED
        BY <2>3, <2>5, <3>1, <3>3, <4>1
    <3>4. CASE i = k
      <4>1. h[j].physicalDev = old
        BY <2>3, <3>4
      <4> QED
        BY <2>3, <2>5, <3>1, <3>4, <4>1
    <3>5. CASE i \notin {row, k} /\ j \in {row, k}
      BY <2>3, <2>5, <3>5
    <3> QED
      BY <3>2, <3>3, <3>4, <3>5
  <2>7. \A e \in Dev : \E i \in Row : h[i].physicalDev = e
    <3> SUFFICES ASSUME NEW e \in Dev PROVE \E i \in Row : h[i].physicalDev = e
      OBVIOUS
    <3>1. PICK i \in Row : g[i].physicalDev = e
      BY DEF GridShape
    <3> QED
      BY <1>1, <2>3, <2>5, <3>1
  <2>8. StatusShape(h, u)
    <3> SUFFICES ASSUME NEW i \in Row
                 PROVE  h[i].connected = "MISSING" <=> h[i].physicalDev \in u
      BY DEF StatusShape
    <3>1. CASE i = row
      BY <2>3, <3>1 DEF StatusShape
    <3>2. CASE i = k
      BY <2>3, <3>2 DEF StatusShape
    <3>3. CASE i # row /\ i # k
      BY <2>2, <3>3 DEF StatusShape
    <3> QED
      BY <3>1, <3>2, <3>3
  <2> QED
    BY <2>9, <2>4, <2>6, <2>7, <2>8 DEF GridShape
<1> QED
  BY <1>5, <1>6

(* A remap keeps the types whatever the grid.                              *)
LEMMA RemapTypes ==
  ASSUME NEW g \in [Row -> RowType], NEW row \in Row
  PROVE  setInterfacesMap(g, row) \in [Row -> RowType]
<1> DEFINE old == g[row].deviceName
           new == g[row].physicalDev
           s == First(Named(g, old))
           t == First(Named(g, new))
<1>1. old \in Name /\ new \in Name
  BY DEF RowType
<1>2. CASE Named(g, new) = {} \/ s = t
  BY <1>2 DEF setInterfacesMap
<1>3. CASE ~(Named(g, new) = {} \/ s = t)
  <2>1. \A x : x \in Row => g[x].connected \in {"present", "MISSING"}
    BY DEF RowType
  <2>2. row \in Named(g, old)
    BY DEF Named
  <2>3. \A S \in SUBSET Row : S # {} => First(S) \in S
    <3> SUFFICES ASSUME NEW S \in SUBSET Row, S # {} PROVE First(S) \in S
      OBVIOUS
    <3>1. \E i \in S : \A j \in S : i <= j
      <4> DEFINE R == OpToRel(<, Nat)
      <4>1. IsWellFoundedOn(R, Nat)
        BY NatLessThanWellFounded
      <4>2. S \subseteq Nat /\ \A i, j \in S : ~(<<j, i>> \in R) => i <= j
        BY SetupNetworkAssumption DEF Row, OpToRel
      <4> HIDE DEF R
      <4>3. PICK i \in S : \A j \in S : ~(<<j, i>> \in R)
        BY <4>1, <4>2, WFMin
      <4> QED
        BY <4>2, <4>3
    <3> QED
      BY <3>1 DEF First
  <2>4. s \in Row /\ t \in Row
    BY <1>3, <2>2, <2>3 DEF Named
  <2>5. /\ [deviceName |-> new, physicalDev |-> new,
            connected |-> g[t].connected] \in RowType
        /\ [deviceName |-> old, physicalDev |-> old,
            connected |-> g[s].connected] \in RowType
    BY <1>1, <2>1, <2>4 DEF RowType
  <2>6. setInterfacesMap(g, row) =
          [g EXCEPT ![s] = [deviceName |-> new, physicalDev |-> new,
                            connected |-> g[t].connected],
                    ![t] = [deviceName |-> old, physicalDev |-> old,
                            connected |-> g[s].connected]]
    BY <1>3 DEF setInterfacesMap
  <2> HIDE DEF old, new, s, t
  <2> QED
    BY <2>4, <2>5, <2>6
<1> QED
  BY <1>2, <1>3

-----------------------------------------------------------------------------
(* The parts of the state other than the grid.                             *)
RestType ==
  /\ status \in [Dev -> Status] /\ inventory \in {"same", "changed"}
  /\ page \in {"open", "left", "abandoned"}
  /\ load \in {"settings", "status", "done", "failed"}
  /\ enableAutoRefresh \in {0, 1} /\ polls \in [Phase -> Nat]
  /\ save \in {"none", "saving", "updating", "done", "threw"}
  /\ loader \in {0, 1}

GridType ==
  /\ gridData \in [Row -> RowType] /\ unavailable \in SUBSET Name
  /\ seen \in [Dev -> {"present", "MISSING", "none"}]

(* TypeOK speaks of the grid, of what was sent, and of the rest.           *)
LEMMA TypeParts == TypeOK <=> RestType /\ GridType /\ sent \in [Row -> Name]
BY DEF TypeOK, RestType, GridType, RowType

(* Every refresh in its phase, and one more only where a load ends.        *)
LEMMA PollsStep ==
  ASSUME RestType, OnePoll, [Next]_vars
  PROVE  RestType' /\ OnePoll'
<1> USE DEF RestType, OnePoll, Running, Phase
<1>1. CASE LoadStep
  BY <1>1 DEF LoadStep, LoadSettings, LoadStatus, LoadFails, server
<1>2. CASE PollTimer \/ PollSettings
  BY <1>2 DEF PollTimer, PollSettings, Moved, Ended, server
<1>3. CASE PollStatus
  BY <1>3 DEF PollStatus, Moved, Ended, server
<1>4. ASSUME NEW p \in Phase, PollFails(p) PROVE RestType' /\ OnePoll'
  BY <1>4 DEF PollFails, Ended, server
<1>5. CASE SaveStep
  BY <1>5 DEF SaveStep, SaveAnswered, SaveFails, SaveUpdates, SaveThrows,
              server
<1>6. CASE Retry \/ Back \/ Navigate \/ SaveSends
  BY <1>6 DEF Retry, Back, Navigate, SaveSends, Usable, server
<1>7. ASSUME NEW row \in Row, NEW d \in Name, Remap(row, d)
      PROVE  RestType' /\ OnePoll'
  BY <1>7 DEF Remap, server
<1>8. ASSUME NEW d \in Dev, DeviceChanges(d) PROVE RestType' /\ OnePoll'
  BY <1>8 DEF DeviceChanges
<1>9. CASE InventoryChanges
  BY <1>9 DEF InventoryChanges
<1>10. CASE UNCHANGED vars
  BY <1>10 DEF vars, server
<1> QED
  BY <1>1, <1>2, <1>3, <1>4, <1>5, <1>6, <1>7, <1>8, <1>9, <1>10
  DEF Next, PollStep, UserStep

(* The steps that touch the grid: a load, a remap and a refresh.           *)
LEMMA LoadKeepsGrid ==
  ASSUME RestType, LoadStatus
  PROVE  GridType' /\ (AllRecords => GridInv')
<1>1. PICK m \in Mapping : gridData' = [i \in Row |-> LoadedRow(m[i])]
  BY DEF LoadStatus
<1>2. /\ m \in [Row -> Dev]
      /\ \A i, j \in Row : m[i] = m[j] => i = j
      /\ \A d \in Dev : \E i \in Row : m[i] = d
  BY DEF Mapping, OneToOne, Onto
<1>3. \A i \in Row :
        /\ gridData'[i].physicalDev = m[i]
        /\ gridData'[i].deviceName =
             IF status[m[i]] = "none" THEN Undefined ELSE m[i]
        /\ gridData'[i].connected = Connected(status[m[i]])
  BY <1>1 DEF LoadedRow
<1>4. \A d \in Dev : LoadedRow(d) \in RowType
  BY DEF LoadedRow, Connected, RowType, Name
<1>5. status \in [Dev -> {"present", "MISSING", "none"}]
  BY DEF RestType, Status
<1>6. GridType'
  <2>1. gridData' \in [Row -> RowType]
    BY <1>1, <1>2, <1>4
  <2> QED
    BY <2>1, <1>5 DEF LoadStatus, GridType, Name
<1>7. ASSUME AllRecords PROVE GridInv'
  <2>1. \A d \in Dev : status[d] \in {"present", "MISSING"}
    BY <1>7 DEF RestType, Status
  <2>2. GridShape(gridData')
    BY <1>2, <1>3, <2>1 DEF GridShape
  <2>3. StatusShape(gridData', unavailable')
    BY <1>2, <1>3 DEF StatusShape, LoadStatus, Connected
  <2>4. \A d \in Dev : seen'[d] # "present" <=> d \in unavailable'
    BY DEF LoadStatus
  <2> QED
    BY <2>2, <2>3, <2>4 DEF GridInv
<1> QED
  BY <1>6, <1>7

(* A remap swaps two devices of a grid and so keeps it one.                *)
LEMMA RemapKeepsGrid ==
  ASSUME GridType, NEW row \in Row, NEW d \in Name, Remap(row, d)
  PROVE  GridType' /\ (AllRecords /\ GridInv => GridInv')
<1> DEFINE b == [gridData EXCEPT ![row].physicalDev = d]
<1>1. gridData' = setInterfacesMap(b, row)
      /\ load = "done" /\ UNCHANGED <<load, unavailable, seen>>
  BY DEF Remap
<1>2. b \in [Row -> RowType]
  BY DEF GridType, RowType
<1>3. GridType'
  <2> HIDE DEF b
  <2> QED
    BY <1>1, <1>2, RemapTypes DEF GridType
<1>4. ASSUME GridInv PROVE GridInv'
  <2>1. GridShape(gridData) /\ StatusShape(gridData, unavailable)
    BY <1>1, <1>4 DEF GridInv
  <2>2. d \in Dev
    BY <2>1 DEF Remap, GridShape
  <2>3. GridShape(gridData') /\ StatusShape(gridData', unavailable)
    BY <1>1, <2>1, <2>2, RemapSwaps DEF GridType
  <2> QED
    BY <1>1, <1>4, <2>3 DEF GridInv
<1> QED
  BY <1>3, <1>4

(* A refresh gives each row the status of the device it maps.              *)
LEMMA PollKeepsGrid ==
  ASSUME RestType, GridType, PollStatus
  PROVE  GridType' /\ (AllRecords /\ GridInv => GridInv')
<1>1. \A i \in Row :
        gridData'[i] = [gridData[i] EXCEPT
          !.connected = Connected(Lookup(gridData[i].physicalDev))]
  BY DEF PollStatus
<1>2. \A i \in Row : /\ gridData[i] \in RowType
                      /\ gridData'[i] \in RowType
                      /\ gridData'[i].deviceName = gridData[i].deviceName
                      /\ gridData'[i].physicalDev = gridData[i].physicalDev
                      /\ gridData'[i].connected =
                           Connected(Lookup(gridData[i].physicalDev))
  <2>1. \A i \in Row : gridData[i] \in RowType
    BY DEF GridType
  <2>2. \A x : Connected(x) \in {"present", "MISSING"}
    BY DEF Connected
  <2> SUFFICES ASSUME NEW i \in Row
               PROVE  /\ gridData[i] \in RowType /\ gridData'[i] \in RowType
                      /\ gridData'[i].deviceName = gridData[i].deviceName
                      /\ gridData'[i].physicalDev = gridData[i].physicalDev
                      /\ gridData'[i].connected =
                           Connected(Lookup(gridData[i].physicalDev))
    OBVIOUS
  <2> DEFINE c == Connected(Lookup(gridData[i].physicalDev))
  <2>4. gridData[i] \in RowType /\ c \in {"present", "MISSING"}
    BY <2>1, <2>2
  <2>5. gridData'[i] = [gridData[i] EXCEPT !.connected = c]
    BY <1>1
  <2> HIDE DEF c
  <2>6. /\ gridData'[i] \in RowType
        /\ gridData'[i].deviceName = gridData[i].deviceName
        /\ gridData'[i].physicalDev = gridData[i].physicalDev
        /\ gridData'[i].connected = c
    BY <2>4, <2>5 DEF RowType
  <2> QED
    BY <2>4, <2>6 DEF c
<1>3. status \in [Dev -> {"present", "MISSING", "none"}]
  BY DEF RestType, Status
<1>4. GridType'
  <2>1. DOMAIN gridData' = Row /\ gridData' = [i \in Row |-> gridData'[i]]
    BY DEF PollStatus
  <2>2. gridData' \in [Row -> RowType]
    BY <1>2, <2>1
  <2> QED
    BY <1>3, <2>2 DEF GridType, PollStatus
<1>5. ASSUME GridInv, load = "done" PROVE GridInv'
  <2>1. GridShape(gridData)
    BY <1>5 DEF GridInv
  <2>2. GridShape(gridData')
    BY <1>2, <2>1 DEF GridShape
  <2>3. \A i \in Row : gridData[i].physicalDev \in Name
    BY <1>2 DEF RowType
  <2>4. StatusShape(gridData', unavailable')
    BY <1>2, <2>3 DEF StatusShape, PollStatus, Connected
  <2>5. \A d \in Dev : seen'[d] # "present" <=> d \in unavailable'
    BY <2>1 DEF GridShape, PollStatus, Lookup, Name
  <2> QED
    BY <2>2, <2>4, <2>5 DEF GridInv
<1>6. load # "done" => GridInv'
  BY DEF PollStatus, GridInv
<1> QED
  BY <1>4, <1>5, <1>6

(* The steps that touch neither the grid nor the phase of the load.        *)
Quiet ==
  \/ PollTimer \/ PollSettings \/ SaveStep \/ Back \/ Navigate \/ SaveSends
  \/ InventoryChanges \/ UNCHANGED vars
  \/ \E p \in Phase : PollFails(p)
  \/ \E d \in Dev : DeviceChanges(d)

(* A step that leaves the grid alone keeps it.                             *)
LEMMA QuietKeepsGrid ==
  ASSUME Quiet
  PROVE  UNCHANGED <<gridData, unavailable, seen, load>>
BY DEF Quiet, SaveStep, PollTimer, PollSettings, PollFails, SaveAnswered,
       SaveFails, SaveUpdates, SaveThrows, Back, Navigate, SaveSends,
       DeviceChanges, InventoryChanges, grid, vars

(* Every step keeps the grid.                                              *)
LEMMA GridStep ==
  ASSUME RestType, GridType, AllRecords => GridInv, [Next]_vars
  PROVE  GridType' /\ (AllRecords => GridInv')
<1>1. CASE LoadStatus
  BY <1>1, LoadKeepsGrid
<1>2. ASSUME NEW row \in Row, NEW d \in Name, Remap(row, d)
      PROVE  GridType' /\ (AllRecords => GridInv')
  BY <1>2, RemapKeepsGrid
<1>3. CASE PollStatus
  BY <1>3, PollKeepsGrid
<1>4. CASE LoadSettings \/ LoadFails \/ Retry
  <2>1. load' # "done" /\ UNCHANGED <<gridData, unavailable, seen>>
    BY <1>4 DEF LoadSettings, LoadFails, Retry, grid
  <2> QED
    BY <2>1 DEF GridType, GridInv
<1>5. CASE Quiet
  <2>1. UNCHANGED <<gridData, unavailable, seen, load>>
    BY <1>5, QuietKeepsGrid
  <2> QED
    BY <2>1 DEF GridType, GridInv
<1> QED
  BY <1>1, <1>2, <1>3, <1>4, <1>5
  DEF Next, LoadStep, PollStep, UserStep, Quiet

(* A save sends the physicalDev column, and nothing else sends anything.   *)
LEMMA SentStep ==
  ASSUME GridType, AllRecords => GridInv /\ SaveRearranges,
         sent \in [Row -> Name], [Next]_vars
  PROVE  sent' \in [Row -> Name] /\ (AllRecords => SaveRearranges')
<1>1. CASE SaveSends
  <2>1. load = "done" /\ sent' = interfacesMap
    BY <1>1 DEF SaveSends
  <2>2. interfacesMap \in [Row -> Name]
    BY DEF interfacesMap, GridType, RowType
  <2>3. ASSUME AllRecords PROVE interfacesMap \in Mapping
    <3>1. GridShape(gridData)
      BY <2>1, <2>3 DEF GridInv
    <3>2. interfacesMap \in [Row -> Dev]
      BY <3>1 DEF interfacesMap, GridShape
    <3>3. OneToOne(interfacesMap) /\ Onto(interfacesMap)
      BY <3>1 DEF interfacesMap, GridShape, OneToOne, Onto
    <3> QED
      BY <3>2, <3>3 DEF Mapping
  <2> QED
    BY <2>1, <2>2, <2>3 DEF SaveRearranges
<1>2. CASE ~SaveSends
  <2>1. UNCHANGED sent
    BY <1>2 DEF Next, LoadStep, PollStep, SaveStep, UserStep, LoadSettings,
         LoadStatus, LoadFails, Retry, Back, Navigate, Remap, PollTimer,
         PollSettings, PollStatus, PollFails, SaveAnswered, SaveFails, SaveUpdates,
         SaveThrows, DeviceChanges, InventoryChanges, vars
  <2> QED
    BY <2>1 DEF SaveRearranges
<1> QED
  BY <1>1, <1>2

(* The inductive invariant holds.                                          *)
LEMMA InvariantCorrect == Spec => []IInv
<1>1. Init => IInv
  <2> SUFFICES ASSUME Init PROVE IInv
    OBVIOUS
  <2>1. TypeOK
    BY DEF Init, TypeOK, Empty, NoPolls, NotSent, Name, Phase
  <2>2. OnePoll
    BY DEF Init, OnePoll, Running, NoPolls, Phase
  <2>3. GridInv /\ SaveRearranges
    BY DEF Init, GridInv, SaveRearranges
  <2> QED
    BY <2>1, <2>2, <2>3 DEF IInv
<1>2. IInv /\ [Next]_vars => IInv'
  <2> SUFFICES ASSUME IInv, [Next]_vars PROVE IInv'
    OBVIOUS
  <2>1. RestType /\ GridType /\ sent \in [Row -> Name]
    BY TypeParts DEF IInv
  <2>2. RestType' /\ OnePoll'
    BY <2>1, PollsStep DEF IInv
  <2>3. GridType' /\ (AllRecords => GridInv')
    BY <2>1, GridStep DEF IInv
  <2>4. sent' \in [Row -> Name] /\ (AllRecords => SaveRearranges')
    BY <2>1, SentStep DEF IInv
  <2>5. TypeOK'
    BY <2>2, <2>3, <2>4 DEF TypeOK, RestType, GridType, RowType
  <2> QED
    BY <2>2, <2>3, <2>4, <2>5 DEF IInv
<1> QED
  BY <1>1, <1>2, PTL DEF Spec

(* Types: for any number of interfaces, devices, polls and saves, and      *)
(* whatever the server reports, no count of refreshes falls below zero and *)
(* the grid shows names of devices only (Network.vue).                     *)
THEOREM TypeCorrect == Spec => []TypeOK
<1>1. IInv => TypeOK
  BY DEF IInv
<1> QED
  BY <1>1, InvariantCorrect, PTL

(* Type correctness, and one refresh at most under way or scheduled: the   *)
(* polling does not multiply, however loads, retries and saves interleave. *)
THEOREM PollingCorrect == Spec => [](TypeOK /\ OnePoll)
<1>1. IInv => TypeOK /\ OnePoll
  BY DEF IInv
<1> QED
  BY <1>1, InvariantCorrect, PTL

(* With a server that reports on every device, no sequence of remaps and   *)
(* refreshes loses a device, gives one out twice, or shows the status of   *)
(* another.                                                                *)
THEOREM RemapCorrect ==
  Spec => [](AllRecords => RemapOK)
<1>1. IInv => (AllRecords => RemapOK)
  BY DEF IInv, GridInv, StatusShape, MissingFollowsDevice, RemapOK
<1> QED
  BY <1>1, InvariantCorrect, PTL

(* ... and no save is sent with a device that the last status called       *)
(* missing.                                                                *)
THEOREM SaveCheckedCorrect == AllRecords => (Spec => SaveChecked)
<1>1. SUFFICES ASSUME AllRecords PROVE Spec => SaveChecked
  OBVIOUS
<1>2. IInv /\ [Next]_vars =>
        (save' = "saving" /\ save # "saving" =>
           \A i \in Row : sent'[i] \in Dev /\ seen[sent'[i]] = "present")
  <2> SUFFICES ASSUME IInv, [Next]_vars, save' = "saving", save # "saving",
                      NEW i \in Row
               PROVE  sent'[i] \in Dev /\ seen[sent'[i]] = "present"
    OBVIOUS
  <2>1. SaveSends
    BY DEF Next, LoadStep, PollStep, SaveStep, UserStep, LoadSettings,
         LoadStatus, LoadFails, Retry, Back, Navigate, Remap, PollTimer,
         PollSettings, PollStatus, PollFails, SaveAnswered, SaveFails, SaveUpdates,
         SaveThrows, DeviceChanges, InventoryChanges, vars
  <2>2. /\ load = "done" /\ sent'[i] = gridData[i].physicalDev
        /\ gridData[i].physicalDev \notin unavailable
    BY <2>1 DEF SaveSends, Blocked, interfacesMap
  <2> QED
    BY <1>1, <2>2 DEF IInv, GridInv, GridShape
<1> QED
  BY <1>2, InvariantCorrect, PTL DEF Spec, SaveChecked
=============================================================================
