------------------------ MODULE NetworkServerProofs ------------------------
(***************************************************************************)
(* What NetworkServer guarantees for any number of peers, heap blocks,     *)
(* descriptors and messages.  The argument goes up in layers: the types,   *)
(* then the list the network thread maintains, then who owns which         *)
(* descriptor, then what the fd_set still means during a round, and last   *)
(* what the capture thread, which takes no lock, can rely on.              *)
(***************************************************************************)
EXTENDS NetworkServer, SequenceTheorems, TLAPS

(* A broadcast under way has a message and a client, a removal a client.   *)
ControlOK ==
  /\ cap # "idle" => msg # 0 /\ work # NULL
  /\ srv \in {"unlink", "close", "delete"} => curr # NULL

(* What send() adds to a stream is a sequence of units.                    *)
LEMMA UnitsType ==
  ASSUME NEW m \in 1..MaxMsg, NEW from \in 0..MsgSize,
         NEW to \in (from + 1)..MsgSize
  PROVE  Units(m, from, to) \in Seq(Unit)
<1>1. to - from \in Nat
  BY NetworkServerAssumption
<1>2. \A i \in 1..(to - from) : <<m, from + i>> \in Unit
  BY NetworkServerAssumption DEF Unit
<1> QED
  BY <1>1, <1>2, IsASeq DEF Units

(* The type invariant.  A message number is positive while a broadcast is  *)
(* under way, which is what keeps the streams well typed.                  *)
THEOREM TypeCorrect == Spec => [](TypeOK /\ ControlOK)
<1>1. Init => TypeOK /\ ControlOK
  BY NetworkServerAssumption
  DEF Init, TypeOK, ControlOK, NetworkClient, Blank, Pointer
<1>2. TypeOK /\ ControlOK /\ [Next]_vars => (TypeOK /\ ControlOK)'
  <2> SUFFICES ASSUME TypeOK, ControlOK, [Next]_vars
               PROVE  (TypeOK /\ ControlOK)'
    OBVIOUS
  <2> USE NetworkServerAssumption DEF TypeOK, ControlOK, Pointer, NetworkClient,
        shared, memory, kernel, server, capture, history, Server, Capture
  <2>1. CASE ServerSelect
    BY <2>1 DEF ServerSelect, Watched
  <2>2. CASE ServerStop
    BY <2>2 DEF ServerStop
  <2>3. CASE ServerNoAccept
    BY <2>3 DEF ServerNoAccept
  <2>4. CASE ServerSkip
    BY <2>4 DEF ServerSkip, WalkOn
  <2>5. ASSUME NEW c \in Conn, NEW a \in Addr, NEW f \in Fd,
               ServerAccept(c, a, f)
        PROVE  (TypeOK /\ ControlOK)'
    <3>1. /\ fds' \in [Fd -> Conn \cup {NULL}]
          /\ ready' \in SUBSET (Fd \cup {Listening})
          /\ backlog' \in SUBSET Conn
      BY <2>5 DEF ServerAccept
    <3>2. CASE InsertClient(a, f)
      <4>1. [next |-> ClientList, netsock |-> f] \in NetworkClient
        OBVIOUS
      <4>2. heap' \in [Addr -> NetworkClient] /\ ClientList' \in Pointer
        BY <3>2, <4>1 DEF InsertClient
      <4> QED
        BY <2>5, <3>1, <3>2, <4>2 DEF ServerAccept, InsertClient
    <3>3. CASE UNCHANGED <<memory, history>>
      BY <2>5, <3>1, <3>3 DEF ServerAccept
    <3> QED
      BY <2>5, <3>2, <3>3 DEF ServerAccept
  <2>6. CASE NetworkHandler
    BY <2>6 DEF NetworkHandler, WalkOn, Readable
  <2>7. CASE Unlink
    <3>1. curr \in Addr
      BY <2>7 DEF Unlink
    <3>2. heap[curr].next \in Pointer
      BY <3>1
    <3>3. heap' \in [Addr -> NetworkClient] /\ ClientList' \in Pointer
      <4>1. CASE ClientList' = heap[curr].next /\ UNCHANGED heap
        BY <3>2, <4>1
      <4>2. ASSUME NEW prev \in alive, UNCHANGED ClientList,
                   heap' = [heap EXCEPT ![prev].next = heap[curr].next]
            PROVE  heap' \in [Addr -> NetworkClient] /\ ClientList' \in Pointer
        <5>1. [heap[prev] EXCEPT !.next = heap[curr].next] \in NetworkClient
          <6>1. prev \in Addr /\ heap[prev] \in NetworkClient
            BY <4>2
          <6> QED
            BY <3>2, <6>1
        <5>2. heap' = [heap EXCEPT
                         ![prev] = [heap[prev] EXCEPT !.next = heap[curr].next]]
          BY <4>2
        <5>3. heap' \in [Addr -> NetworkClient]
          BY <5>1, <5>2
        <5>4. ClientList' \in Pointer
          BY <4>2
        <5> QED
          BY <5>3, <5>4
      <4> QED
        BY <2>7, <4>1, <4>2 DEF Unlink
    <3> QED
      BY <2>7, <3>1, <3>3 DEF Unlink
  <2>8. CASE CloseClient
    BY <2>8 DEF CloseClient
  <2>9. CASE DeleteClient
    BY <2>9 DEF DeleteClient, WalkOn
  <2>10. CASE BroadcastMessage
    BY <2>10 DEF BroadcastMessage
  <2>11. CASE TransmitGiveUp
    BY <2>11 DEF TransmitGiveUp
  <2>12. CASE TransmitReady
    BY <2>12 DEF TransmitReady
  <2>13. CASE TransmitSend
    <3> DEFINE f == heap[work].netsock
    <3>1. msg \in 1..MaxMsg
      <4>1. cap = "send"
        BY <2>13 DEF TransmitSend
      <4>2. msg \in 0..MaxMsg /\ msg # 0
        BY <4>1
      <4> QED
        BY <4>2
    <3>2. CASE /\ fds[f] = NULL \/ peer[fds[f]] = "gone"
               /\ cap' = "advance"
               /\ UNCHANGED <<off, stream>>
      BY <2>13, <3>2 DEF TransmitSend
    <3>3. ASSUME fds[f] # NULL, NEW upto \in (off + 1)..MsgSize,
                 off' = upto,
                 cap' = IF upto = MsgSize THEN "advance" ELSE "poll",
                 stream' = IF peer[fds[f]] = "here"
                           THEN [stream EXCEPT ![fds[f]] =
                                   @ \o Units(msg, off, upto)]
                           ELSE stream
          PROVE  (TypeOK /\ ControlOK)'
      <4>1. \A c \in Conn : stream[c] \o Units(msg, off, upto)
                            \in Seq(Unit)
        BY <3>1, UnitsType, ConcatProperties
      <4>2. stream' \in [Conn -> Seq(Unit)]
        BY <3>3, <4>1
      <4>3. off' \in 0..MsgSize /\ cap' \in {"poll", "advance"}
        BY <3>3
      <4>4. /\ UNCHANGED <<shared, memory, kernel, server, work, msg, history>>
            /\ work # NULL
        BY <2>13 DEF TransmitSend
      <4> QED
        BY <3>1, <4>2, <4>3, <4>4
    <3> QED
      BY <2>13, <3>2, <3>3 DEF TransmitSend
  <2>14. CASE BroadcastAdvance
    BY <2>14 DEF BroadcastAdvance
  <2>15. CASE WildAccess
    BY <2>15 DEF WildAccess
  <2>16. ASSUME NEW c \in Conn, PeerConnect(c) \/ PeerSend(c) \/ PeerClose(c)
         PROVE  (TypeOK /\ ControlOK)'
    <3>1. CASE PeerConnect(c)
      BY <3>1 DEF PeerConnect
    <3>2. CASE PeerSend(c)
      BY <3>2 DEF PeerSend
    <3>3. CASE PeerClose(c)
      BY <3>3 DEF PeerClose
    <3> QED
      BY <2>16, <3>1, <3>2, <3>3
  <2>17. CASE SetShutdown
    BY <2>17 DEF SetShutdown
  <2>18. CASE UNCHANGED vars
    BY <2>18 DEF vars
  <2> QED
    BY <2>1, <2>2, <2>3, <2>4, <2>5, <2>6, <2>7, <2>8, <2>9, <2>10, <2>11,
       <2>12, <2>13, <2>14, <2>15, <2>16, <2>17, <2>18
    DEF Next, ServerStep, CaptureStep, PeerStep
<1> QED
  BY <1>1, <1>2, PTL DEF Spec

-----------------------------------------------------------------------------
(* The list layer.                                                         *)

(* Where the network thread stands in the list.                            *)
ServerOK ==
  /\ (srv \in {"walk", "unlink", "close", "delete"} /\ curr # NULL) =>
       curr \in alive
  /\ srv \in {"unlink", "close", "delete"} => nxt = heap[curr].next
  /\ (srv \in {"close", "delete"} /\ nxt # NULL) =>
       nxt \in Linked /\ serial[nxt] < serial[curr]

(* Serial numbers grow.                                                    *)
SerialOK == \A a \in alive : serial[a] <= inserted

ListInv == ServerOK /\ SerialOK /\ ListOK

listVars == <<memory, serial, inserted>>

(* ListInv in terms of the list variables only, for the states where no    *)
(* client is being removed.                                                *)
LEMMA InsertKeepsList ==
  ASSUME TypeOK, ControlOK, ListInv,
         NEW a \in Addr, NEW f \in Fd, a \notin alive, InsertClient(a, f),
         srv = "accept", srv' = "walk", curr' = ClientList'
  PROVE  ListInv'
<1> USE NetworkServerAssumption DEF TypeOK, Pointer, NetworkClient
<1>1. Linked = alive /\ Linked' = alive \cup {a}
  BY DEF Linked, Dying, InsertClient
<1>2. /\ ClientList' = a
      /\ heap'[a].next = ClientList
      /\ \A x \in alive : heap'[x] = heap[x] /\ serial'[x] = serial[x]
      /\ serial'[a] = inserted + 1 /\ inserted' = inserted + 1
  BY DEF InsertClient
<1>3. /\ ClientList \in alive \cup {NULL}
      /\ \A x \in alive : serial[x] \in Nat /\ serial[x] <= inserted
  BY <1>1 DEF ListInv, ListOK, SerialOK
<1>4. \A x \in alive : heap[x].next # NULL =>
         heap[x].next \in alive /\ serial[heap[x].next] < serial[x]
  BY <1>1 DEF ListInv, ListOK
<1>5. SerialOK'
  BY <1>2, <1>3 DEF SerialOK, InsertClient
<1>6. ServerOK'
  BY <1>1, <1>2 DEF ServerOK, InsertClient
<1>7. \A x \in alive \cup {a} : heap'[x].next # NULL =>
         heap'[x].next \in alive \cup {a} /\ serial'[heap'[x].next] < serial'[x]
  BY <1>2, <1>3, <1>4
<1>8. \A b \in alive \cup {a} : heap'[b].next # a
  BY <1>2, <1>3, <1>4
<1>9. ASSUME NEW x \in alive
      PROVE  \E b \in alive \cup {a} :
               /\ heap'[b].next = x
               /\ \A d \in alive \cup {a} : heap'[d].next = x => d = b
  <2>1. CASE x = ClientList
    <3>1. \A b \in alive : heap[b].next # x
      BY <1>1, <2>1 DEF ListInv, ListOK
    <3> QED
      BY <1>2, <2>1, <3>1
  <2>2. CASE x # ClientList
    <3>1. PICK b \in alive : /\ heap[b].next = x
                             /\ \A d \in alive : heap[d].next = x => d = b
      BY <1>1, <2>2 DEF ListInv, ListOK
    <3> QED
      BY <1>2, <2>2, <3>1
  <2> QED
    BY <2>1, <2>2
<1>10. ListOK'
  BY <1>1, <1>2, <1>7, <1>8, <1>9 DEF ListOK
<1> QED
  BY <1>5, <1>6, <1>10 DEF ListInv

(* RemoveClient's pointer write takes the client, and only it, out.        *)
LEMMA UnlinkKeepsList ==
  ASSUME TypeOK, ControlOK, ListInv, Unlink
  PROVE  ListInv'
<1> USE NetworkServerAssumption DEF TypeOK, Pointer, NetworkClient
<1>1. /\ srv = "unlink" /\ srv' = "close"
      /\ curr \in alive /\ curr' = curr /\ nxt' = nxt /\ alive' = alive
      /\ serial' = serial /\ inserted' = inserted
      /\ nxt = heap[curr].next
  BY DEF Unlink, Server, ControlOK, ListInv, ServerOK, history
<1>2. Linked = alive /\ Linked' = alive \ {curr}
  BY <1>1 DEF Linked, Dying
<1>3. \A x \in alive : heap[x].next # NULL =>
         heap[x].next \in alive /\ serial[heap[x].next] < serial[x]
  BY <1>2 DEF ListInv, ListOK
<1>4. /\ \A x \in alive : serial[x] \in Nat /\ heap[x].next \in Pointer
      /\ ClientList \in alive \cup {NULL}
  BY <1>2 DEF ListInv, ListOK
<1>5. nxt # curr /\ nxt \in (alive \ {curr}) \cup {NULL}
  BY <1>1, <1>3, <1>4
<1>6. SerialOK'
  BY <1>1 DEF ListInv, SerialOK
<1>7. CASE curr = ClientList
  <2>1. ClientList' = nxt /\ heap' = heap
    <3>1. ~(\E prev \in alive : heap[prev].next = curr)
      BY <1>1, <1>2, <1>7 DEF ListInv, ListOK
    <3> QED
      BY <1>1, <1>7, <3>1 DEF Unlink
  <2>2. ServerOK'
    BY <1>1, <1>2, <1>3, <1>5, <2>1 DEF ServerOK
  <2>3. \A b \in alive : heap[b].next # curr
    BY <1>1, <1>2, <1>7 DEF ListInv, ListOK
  <2>4. \A x \in alive \ {curr} :
          \E b \in alive : /\ heap[b].next = x
                           /\ \A d \in alive : heap[d].next = x => d = b
    <3> SUFFICES ASSUME NEW x \in alive, x # ClientList
                 PROVE  \E b \in alive :
                          /\ heap[b].next = x
                          /\ \A d \in alive : heap[d].next = x => d = b
      BY <1>7
    <3> QED
      BY <1>2 DEF ListInv, ListOK
  <2>5. \A x \in alive \ {curr} :
          IF x = nxt
          THEN \A b \in alive \ {curr} : heap[b].next # x
          ELSE \E b \in alive \ {curr} :
                 /\ heap[b].next = x
                 /\ \A d \in alive \ {curr} : heap[d].next = x => d = b
    BY <1>1, <2>4
  <2>6. \A x \in alive \ {curr} : heap[x].next # NULL =>
          heap[x].next \in alive \ {curr} /\ serial[heap[x].next] < serial[x]
    BY <1>3, <2>3
  <2>7. ListOK'
    BY <1>1, <1>2, <1>5, <2>1, <2>5, <2>6 DEF ListOK
  <2> QED
    BY <1>6, <2>2, <2>7 DEF ListInv
<1>8. CASE curr # ClientList
  <2>1. PICK prev \in alive :
          /\ heap[prev].next = curr
          /\ heap' = [heap EXCEPT ![prev].next = heap[curr].next]
    BY <1>8 DEF Unlink
  <2>2. ClientList' = ClientList
    BY <1>8 DEF Unlink
  <2>3. \A d \in alive : heap[d].next = curr => d = prev
    BY <1>1, <1>2, <1>8, <2>1 DEF ListInv, ListOK
  <2>4. /\ prev # curr
        /\ heap'[prev].next = nxt
        /\ \A x \in alive \ {prev} : heap'[x] = heap[x]
    BY <1>1, <1>5, <2>1
  <2>5. ServerOK'
    BY <1>1, <1>2, <1>3, <1>5, <2>4 DEF ServerOK
  <2>6. serial[curr] < serial[prev]
    BY <1>1, <1>3, <2>1
  <2>7. \A x \in alive \ {curr} : heap'[x].next # NULL =>
          heap'[x].next \in alive \ {curr} /\ serial[heap'[x].next] < serial[x]
    <3>1. ASSUME nxt # NULL
          PROVE  nxt \in alive \ {curr} /\ serial[nxt] < serial[prev]
      BY <1>1, <1>3, <1>4, <1>5, <2>6, <3>1
    <3> QED
      BY <1>3, <2>3, <2>4, <3>1
  <2>8. ASSUME NEW x \in alive \ {curr}, x = ClientList
        PROVE  \A b \in alive \ {curr} : heap'[b].next # x
    <3>1. \A b \in alive : heap[b].next # x
      BY <1>2, <2>8 DEF ListInv, ListOK
    <3> QED
      BY <1>1, <2>4, <3>1
  <2>9. ASSUME NEW x \in alive \ {curr}, x # ClientList
        PROVE  \E b \in alive \ {curr} :
                 /\ heap'[b].next = x
                 /\ \A d \in alive \ {curr} : heap'[d].next = x => d = b
    <3>1. PICK b \in alive : /\ heap[b].next = x
                             /\ \A d \in alive : heap[d].next = x => d = b
      BY <1>2, <2>9 DEF ListInv, ListOK
    <3>2. CASE b = curr
      BY <1>1, <2>1, <2>4, <3>1, <3>2
    <3>3. CASE b # curr
      <4>1. b # prev
        BY <2>1, <3>1
      <4>2. nxt # x
        BY <1>1, <3>1, <3>3
      <4>3. b \in alive \ {curr} /\ heap'[b].next = x
        BY <2>4, <3>1, <3>3, <4>1
      <4>4. ASSUME NEW d \in alive \ {curr}, heap'[d].next = x
            PROVE  d = b
        <5>1. d # prev
          BY <2>4, <4>2, <4>4
        <5> QED
          BY <2>4, <3>1, <4>4, <5>1
      <4> QED
        BY <4>3, <4>4
    <3> QED
      BY <3>2, <3>3
  <2>10. ClientList \in (alive \ {curr}) \cup {NULL}
    BY <1>4, <1>8
  <2>11. ListOK'
    BY <1>1, <1>2, <2>2, <2>7, <2>8, <2>9, <2>10 DEF ListOK
  <2> QED
    BY <1>6, <2>5, <2>11 DEF ListInv
<1> QED
  BY <1>7, <1>8

(* Steps that leave the list alone and keep the network thread where it    *)
(* is, or move it along the list.                                          *)
LEMMA OtherStepsKeepList ==
  ASSUME TypeOK, ControlOK, ListInv, UNCHANGED listVars,
         \/ UNCHANGED <<srv, curr, nxt>>
         \/ srv \in {"top", "accept"} /\ srv' \in {"done", "accept"}
         \/ /\ srv \in {"accept", "walk"} /\ srv' \in {"top", "walk"}
            /\ curr' \in alive \cup {NULL}
  PROVE  ListInv'
<1>1. /\ heap' = heap /\ alive' = alive /\ ClientList' = ClientList
      /\ serial' = serial /\ inserted' = inserted
  BY DEF listVars, memory
<1>2. Dying' = Dying /\ Linked' = Linked
  BY <1>1 DEF Dying, Linked
<1>3. ServerOK'
  BY <1>1, <1>2 DEF ListInv, ServerOK
<1>4. SerialOK'
  BY <1>1 DEF ListInv, SerialOK
<1>5. ListOK'
  BY <1>1, <1>2 DEF ListInv, ListOK
<1> QED
  BY <1>3, <1>4, <1>5 DEF ListInv

(* Every step keeps the list well formed; only accept() and the removal    *)
(* touch it.                                                               *)
LEMMA ListStep ==
  ASSUME TypeOK, ControlOK, ListInv, [Next]_vars
  PROVE  ListInv'
<1> USE DEF shared, memory, kernel, server, capture, history, Server, Capture,
            listVars
<1>1. CASE ServerSelect \/ ServerStop
  BY <1>1, OtherStepsKeepList DEF ServerSelect, ServerStop
<1>2. CASE ServerNoAccept
  <2>1. ClientList \in alive \cup {NULL}
    BY DEF ListInv, ListOK, Linked, Dying
  <2> QED
    BY <1>2, <2>1, OtherStepsKeepList DEF ServerNoAccept
<1>3. CASE ServerSkip
  <2>1. srv = "walk" /\ curr # NULL => heap[curr].next \in alive \cup {NULL}
    BY DEF ListInv, ListOK, ServerOK, Linked, Dying
  <2> QED
    BY <1>3, <2>1, OtherStepsKeepList DEF ServerSkip, WalkOn
<1>4. ASSUME NEW c \in Conn, NEW a \in Addr, NEW f \in Fd,
             ServerAccept(c, a, f)
      PROVE  ListInv'
  <2>1. CASE InsertClient(a, f)
    BY <1>4, <2>1, InsertKeepsList DEF ServerAccept
  <2>2. CASE UNCHANGED <<memory, history>>
    <3>1. ClientList \in alive \cup {NULL}
      BY DEF ListInv, ListOK, Linked, Dying
    <3> QED
      BY <1>4, <2>2, <3>1, OtherStepsKeepList DEF ServerAccept
  <2> QED
    BY <1>4, <2>1, <2>2 DEF ServerAccept
<1>5. CASE NetworkHandler
  <2>1. /\ srv = "walk" /\ curr \in alive
        /\ heap[curr].next \in alive \cup {NULL}
    BY <1>5 DEF NetworkHandler, ListInv, ListOK, ServerOK, Linked, Dying
  <2>2. CASE fds[heap[curr].netsock] \in inbox
    BY <1>5, <2>1, <2>2, OtherStepsKeepList DEF NetworkHandler, WalkOn
  <2>3. CASE fds[heap[curr].netsock] \notin inbox
    <3>1. /\ srv' = "unlink" /\ nxt' = heap[curr].next /\ curr' = curr
          /\ UNCHANGED listVars
      BY <1>5, <2>3 DEF NetworkHandler
    <3> QED
      BY <2>1, <3>1 DEF ListInv, ListOK, ServerOK, SerialOK, Linked, Dying
  <2> QED
    BY <2>2, <2>3
<1>6. CASE Unlink
  BY <1>6, UnlinkKeepsList
<1>7. CASE CloseClient
  BY <1>7 DEF CloseClient, ListInv, ListOK, ServerOK, SerialOK, Linked, Dying
<1>8. CASE DeleteClient
  <2>1. /\ srv = "delete" /\ alive' = alive \ {curr} /\ curr' = nxt
        /\ srv' = IF nxt = NULL THEN "top" ELSE "walk"
        /\ UNCHANGED <<heap, ClientList, serial, inserted>>
    BY <1>8 DEF DeleteClient, WalkOn
  <2>2. Linked' = Linked /\ Linked = alive \ {curr}
    BY <2>1 DEF Linked, Dying
  <2>3. ServerOK'
    BY <2>1, <2>2 DEF ServerOK, ListInv
  <2> QED
    BY <2>1, <2>2, <2>3 DEF ListInv, ListOK, SerialOK
<1>9. CASE CaptureStep \/ WildAccess \/ SetShutdown
  BY <1>9, OtherStepsKeepList
  DEF CaptureStep, BroadcastMessage, TransmitGiveUp, TransmitReady,
      TransmitSend, BroadcastAdvance, WildAccess, SetShutdown
<1>10. CASE PeerStep
  BY <1>10, OtherStepsKeepList DEF PeerStep, PeerConnect, PeerSend, PeerClose
<1>11. CASE UNCHANGED vars
  BY <1>11, OtherStepsKeepList DEF vars
<1> QED
  BY <1>1, <1>2, <1>3, <1>4, <1>5, <1>6, <1>7, <1>8, <1>9, <1>10, <1>11
  DEF Next, ServerStep

(* However peers come and go, and wherever the capture thread is, the list *)
(* is well formed between any two pointer writes of InsertClient and       *)
(* RemoveClient, and the loops over it end.                                *)
THEOREM ListCorrect == Spec => [](ListOK /\ ListInv)
<1>1. Init => ListInv
  BY NetworkServerAssumption
  DEF Init, ListInv, ListOK, ServerOK, SerialOK, Linked, Dying
<1>2. ListInv => ListOK
  BY DEF ListInv
<1> QED
  BY <1>1, <1>2, ListStep, TypeCorrect, PTL DEF Spec

-----------------------------------------------------------------------------
(* The socket layer.                                                       *)

(* A connection is in the listen queue or behind one descriptor.           *)
ConnectionsOK ==
  /\ \A f, g \in Fd : fds[f] # NULL /\ fds[f] = fds[g] => f = g
  /\ \A f \in Fd : fds[f] # NULL => fds[f] \notin backlog
  /\ \A f \in Fd : fds[f] # NULL => peer[fds[f]] # "away"
  /\ \A c \in backlog : peer[c] # "away"

SocketInv == ConnectionsOK /\ DescriptorsOwned

socketVars == <<heap, alive, fds, backlog, peer>>

(* RemoveClient's pointer write leaves the clients their descriptors.      *)
LEMMA UnlinkKeepsSockets ==
  ASSUME TypeOK, Unlink
  PROVE  \A x \in alive : heap'[x].netsock = heap[x].netsock
<1> USE DEF TypeOK, NetworkClient
<1>1. CASE UNCHANGED heap
  BY <1>1
<1>2. ASSUME NEW prev \in alive,
             heap' = [heap EXCEPT ![prev].next = heap[curr].next]
      PROVE  \A x \in alive : heap'[x].netsock = heap[x].netsock
  BY <1>2
<1> QED
  BY <1>1, <1>2 DEF Unlink

(* Every step keeps each client the owner of its descriptor; only          *)
(* accept() and the destructor touch one.                                  *)
LEMMA SocketStep ==
  ASSUME TypeOK, ControlOK, ListInv, SocketInv, [Next]_vars
  PROVE  SocketInv'
<1> USE NetworkServerAssumption DEF TypeOK, Pointer, NetworkClient, Server,
        Capture, history, shared, memory, kernel, server, capture
<1>1. ASSUME UNCHANGED socketVars, srv # "delete", srv' # "delete"
      PROVE  SocketInv'
  BY <1>1 DEF socketVars, SocketInv, ConnectionsOK, DescriptorsOwned
<1>2. ASSUME UNCHANGED <<socketVars, srv, curr>>
      PROVE  SocketInv'
  BY <1>2 DEF socketVars, SocketInv, ConnectionsOK, DescriptorsOwned
<1>3. CASE ServerSelect \/ ServerStop \/ ServerNoAccept \/ ServerSkip
  BY <1>1, <1>3
  DEF ServerSelect, ServerStop, ServerNoAccept, ServerSkip, WalkOn, socketVars
<1>4. CASE NetworkHandler
  BY <1>1, <1>4 DEF NetworkHandler, WalkOn, socketVars
<1>5. ASSUME NEW c \in Conn, NEW a \in Addr, NEW f \in Fd,
             ServerAccept(c, a, f)
      PROVE  SocketInv'
  <2>1. /\ srv = "accept" /\ srv' = "walk" /\ a \notin alive /\ fds[f] = NULL
        /\ c \in backlog /\ backlog' = backlog \ {c} /\ peer' = peer
        /\ fds' = [fds EXCEPT ![f] = c]
    BY <1>5 DEF ServerAccept, LowestFree
  <2>2. ConnectionsOK'
    BY <2>1 DEF SocketInv, ConnectionsOK
  <2>3. \A x \in alive : /\ heap[x].netsock \in Fd /\ heap[x].netsock # f
                         /\ fds'[heap[x].netsock] # NULL
    BY <2>1 DEF SocketInv, DescriptorsOwned
  <2>4. \A x, y \in alive : heap[x].netsock = heap[y].netsock => x = y
    BY <2>1 DEF SocketInv, DescriptorsOwned
  <2>5. CASE UNCHANGED memory
    BY <2>1, <2>2, <2>3, <2>4, <2>5 DEF SocketInv, DescriptorsOwned
  <2>6. CASE InsertClient(a, f)
    <3>1. /\ alive' = alive \cup {a} /\ heap'[a].netsock = f
          /\ \A x \in alive : heap'[x] = heap[x]
      BY <2>1, <2>6 DEF InsertClient
    <3>2. DescriptorsOwned'
      BY <2>1, <2>3, <2>4, <3>1 DEF DescriptorsOwned
    <3> QED
      BY <2>2, <3>2 DEF SocketInv
  <2> QED
    BY <1>5, <2>5, <2>6 DEF ServerAccept
<1>6. CASE Unlink
  <2>1. /\ srv = "unlink" /\ srv' = "close"
        /\ UNCHANGED <<alive, fds, backlog, peer>>
    BY <1>6 DEF Unlink
  <2>2. \A x \in alive : heap'[x].netsock = heap[x].netsock
    BY <1>6, UnlinkKeepsSockets
  <2> QED
    BY <2>1, <2>2 DEF SocketInv, ConnectionsOK, DescriptorsOwned
<1>7. CASE CloseClient
  <2>1. /\ srv = "close" /\ srv' = "delete" /\ curr \in alive /\ curr' = curr
        /\ UNCHANGED <<heap, alive, backlog, peer>>
        /\ fds' = [fds EXCEPT ![heap[curr].netsock] = NULL]
    BY <1>7 DEF CloseClient, ListInv, ServerOK, ControlOK
  <2>2. ConnectionsOK'
    BY <2>1 DEF SocketInv, ConnectionsOK
  <2>3. DescriptorsOwned'
    BY <2>1 DEF SocketInv, DescriptorsOwned
  <2> QED
    BY <2>2, <2>3 DEF SocketInv
<1>8. CASE DeleteClient
  <2>1. /\ srv = "delete" /\ srv' # "delete" /\ alive' = alive \ {curr}
        /\ UNCHANGED <<heap, fds, backlog, peer>>
    BY <1>8 DEF DeleteClient, WalkOn
  <2> QED
    BY <2>1 DEF SocketInv, ConnectionsOK, DescriptorsOwned
<1>9. CASE CaptureStep \/ WildAccess \/ SetShutdown
  BY <1>2, <1>9
  DEF CaptureStep, BroadcastMessage, TransmitGiveUp, TransmitReady,
      TransmitSend, BroadcastAdvance, WildAccess, SetShutdown, socketVars
<1>10. ASSUME NEW c \in Conn, PeerConnect(c) \/ PeerSend(c) \/ PeerClose(c)
       PROVE  SocketInv'
  <2>1. /\ UNCHANGED <<heap, alive, fds, srv, curr>>
        /\ \A d \in Conn : peer'[d] = "away" => peer[d] = "away"
        /\ \/ backlog' = backlog
           \/ /\ backlog' = backlog \cup {c}
              /\ peer[c] = "away" /\ peer'[c] = "here"
    BY <1>10 DEF PeerConnect, PeerSend, PeerClose
  <2>2. ConnectionsOK'
    BY <2>1 DEF SocketInv, ConnectionsOK
  <2> QED
    BY <2>1, <2>2 DEF SocketInv, DescriptorsOwned
<1>11. CASE UNCHANGED vars
  BY <1>2, <1>11 DEF vars, socketVars
<1> QED
  BY <1>3, <1>4, <1>5, <1>6, <1>7, <1>8, <1>9, <1>10, <1>11
  DEF Next, ServerStep, PeerStep

(* No two clients share a descriptor and none owns a closed one, although  *)
(* descriptors are reused as soon as a destructor has closed them.         *)
THEOREM SocketsCorrect == Spec => [](DescriptorsOwned /\ SocketInv)
<1>1. Init => SocketInv
  BY DEF Init, SocketInv, ConnectionsOK, DescriptorsOwned
<1>2. SocketInv => DescriptorsOwned
  BY DEF SocketInv
<1> QED
  BY <1>1, <1>2, SocketStep, TypeCorrect, ListCorrect, PTL DEF Spec

-----------------------------------------------------------------------------
(* What the fd_set still says during a round.                              *)

(* The clients the walk has still to look at are those that connected no   *)
(* later than curr; the bits that matter are theirs.                       *)
ReadyInv ==
  /\ srv = "accept" =>
       \A f \in ready \ {Listening} : f \in Fd /\ Readable(f)
  /\ (srv = "walk" /\ curr # NULL) =>
       \A a \in alive : serial[a] <= serial[curr] =>
         (heap[a].netsock \in ready => Readable(heap[a].netsock))
  /\ srv \in {"unlink", "close", "delete"} =>
       \A a \in alive : serial[a] < serial[curr] =>
         (heap[a].netsock \in ready => Readable(heap[a].netsock))

(* A bit of the fd_set that may still be tested stays true: only the       *)
(* network thread reads, and it tests each bit once.                       *)
LEMMA ReadyStep ==
  ASSUME TypeOK, ControlOK, ListInv, SocketInv, ReadyInv, [Next]_vars
  PROVE  ReadyInv'
<1> USE NetworkServerAssumption DEF TypeOK, Pointer, NetworkClient, Server,
        Capture, history, shared, memory, kernel, server, capture
<1>1. CASE ServerSelect
  BY <1>1 DEF ServerSelect, ReadyInv, Readable
<1>2. CASE ServerStop
  BY <1>2 DEF ServerStop, ReadyInv
<1>3. CASE ServerNoAccept
  <2>1. /\ srv = "accept" /\ srv' = "walk" /\ ready' = ready \ {Listening}
        /\ UNCHANGED <<heap, alive, serial, fds, inbox, peer>>
    BY <1>3 DEF ServerNoAccept
  <2> QED
    BY <2>1 DEF ReadyInv, Readable
<1>4. CASE ServerSkip
  <2>1. /\ srv = "walk" /\ ready' \in {ready, {}}
        /\ srv' \in {"top", "walk"}
        /\ srv' = "walk" => curr # NULL /\ curr' = heap[curr].next
        /\ UNCHANGED <<heap, alive, serial, fds, inbox, peer>>
    BY <1>4 DEF ServerSkip, WalkOn
  <2>2. srv' = "walk" /\ curr' # NULL => serial[curr'] < serial[curr]
    BY <2>1 DEF ListInv, ListOK, ServerOK, Linked, Dying
  <2>3. curr # NULL => curr \in Addr
    OBVIOUS
  <2> QED
    BY <2>1, <2>2, <2>3 DEF ReadyInv, Readable
<1>5. ASSUME NEW c \in Conn, NEW a \in Addr, NEW f \in Fd,
             ServerAccept(c, a, f)
      PROVE  ReadyInv'
  <2>1. /\ srv = "accept" /\ srv' = "walk" /\ ready' = ready \ {Listening}
        /\ a \notin alive /\ fds[f] = NULL
        /\ fds' = [fds EXCEPT ![f] = c] /\ UNCHANGED <<inbox, peer>>
    BY <1>5 DEF ServerAccept, LowestFree
  <2>2. \A g \in ready' : g \in Fd /\ g # f /\ Readable(g)
    BY <2>1 DEF ReadyInv, Readable
  <2>3. \A g \in ready' : Readable(g)'
    BY <2>1, <2>2 DEF Readable
  <2> QED
    BY <2>1, <2>3 DEF ReadyInv
<1>6. CASE NetworkHandler
  <2>1. /\ srv = "walk" /\ curr \in alive
        /\ UNCHANGED <<heap, alive, serial, fds, peer>>
    BY <1>6 DEF NetworkHandler, ListInv, ServerOK
  <2>2. CASE fds[heap[curr].netsock] \in inbox
    <3>1. /\ curr' = heap[curr].next /\ srv' \in {"top", "walk"}
          /\ ready' \in {ready, {}}
          /\ \A c \in Conn : c # fds[heap[curr].netsock] =>
               (c \in inbox' <=> c \in inbox)
      BY <1>6, <2>2 DEF NetworkHandler, WalkOn
    <3>2. srv' = "walk" /\ curr' # NULL => serial[curr'] < serial[curr]
      BY <2>1, <3>1 DEF ListInv, ListOK, Linked, Dying
    <3>3. \A a \in alive : a # curr =>
            /\ heap[a].netsock \in Fd
            /\ fds[heap[a].netsock] \in Conn
            /\ fds[heap[a].netsock] # fds[heap[curr].netsock]
      BY <2>1 DEF SocketInv, ConnectionsOK, DescriptorsOwned
    <3>4. \A a \in alive : a # curr =>
            (Readable(heap[a].netsock) => Readable(heap[a].netsock)')
      BY <2>1, <3>1, <3>3 DEF Readable
    <3> QED
      BY <2>1, <3>1, <3>2, <3>4 DEF ReadyInv
  <2>3. CASE fds[heap[curr].netsock] \notin inbox
    <3>1. srv' = "unlink" /\ UNCHANGED <<curr, ready, inbox>>
      BY <1>6, <2>3 DEF NetworkHandler
    <3> QED
      BY <2>1, <3>1 DEF ReadyInv, Readable
  <2> QED
    BY <2>2, <2>3
<1>7. CASE Unlink
  <2>1. /\ srv = "unlink" /\ srv' = "close"
        /\ UNCHANGED <<alive, curr, ready, serial, fds, inbox, peer>>
    BY <1>7 DEF Unlink
  <2>2. \A x \in alive : heap'[x].netsock = heap[x].netsock
    BY <1>7, UnlinkKeepsSockets
  <2> QED
    BY <2>1, <2>2 DEF ReadyInv, Readable
<1>8. CASE CloseClient
  <2>1. /\ srv = "close" /\ srv' = "delete" /\ curr \in alive
        /\ UNCHANGED <<heap, alive, curr, ready, serial, inbox, peer>>
        /\ fds' = [fds EXCEPT ![heap[curr].netsock] = NULL]
    BY <1>8 DEF CloseClient, ListInv, ServerOK, ControlOK
  <2>2. \A a \in alive : a # curr =>
          /\ heap[a].netsock # heap[curr].netsock
          /\ heap[a].netsock \in Fd
    BY <2>1 DEF SocketInv, DescriptorsOwned
  <2>3. \A a \in alive : a # curr =>
          (Readable(heap[a].netsock) => Readable(heap[a].netsock)')
    BY <2>1, <2>2 DEF Readable
  <2> QED
    BY <2>1, <2>3 DEF ReadyInv
<1>9. CASE DeleteClient
  <2>1. /\ srv = "delete" /\ curr \in alive /\ alive' = alive \ {curr}
        /\ curr' = nxt /\ srv' \in {"top", "walk"}
        /\ srv' = "walk" => nxt # NULL /\ ready' = ready
        /\ UNCHANGED <<heap, serial, fds, inbox, peer>>
    BY <1>9 DEF DeleteClient, WalkOn, ListInv, ServerOK, ControlOK
  <2>2. srv' = "walk" => serial[nxt] < serial[curr]
    BY <2>1 DEF ListInv, ServerOK
  <2> QED
    BY <2>1, <2>2 DEF ReadyInv, Readable
<1>10. CASE CaptureStep \/ WildAccess \/ SetShutdown
  BY <1>10
  DEF CaptureStep, BroadcastMessage, TransmitGiveUp, TransmitReady,
      TransmitSend, BroadcastAdvance, WildAccess, SetShutdown, ReadyInv,
      Readable
<1>11. ASSUME NEW c \in Conn, PeerConnect(c) \/ PeerSend(c) \/ PeerClose(c)
       PROVE  ReadyInv'
  <2>1. /\ UNCHANGED <<heap, alive, fds, serial, srv, curr, ready>>
        /\ inbox \subseteq inbox'
        /\ \A d \in Conn : peer[d] = "gone" => peer'[d] = "gone"
    BY <1>11 DEF PeerConnect, PeerSend, PeerClose
  <2>2. \A f \in Fd : Readable(f) => Readable(f)'
    BY <2>1 DEF Readable
  <2>3. \A a \in alive : (heap[a].netsock \in ready => heap[a].netsock \in Fd)
    BY DEF Listening
  <2> QED
    BY <2>1, <2>2, <2>3 DEF ReadyInv
<1>12. CASE UNCHANGED vars
  BY <1>12 DEF vars, ReadyInv, Readable
<1> QED
  BY <1>1, <1>2, <1>3, <1>4, <1>5, <1>6, <1>7, <1>8, <1>9, <1>10, <1>11, <1>12
  DEF Next, ServerStep, PeerStep

(* The network thread never waits in recv(): the bit it tests is that of   *)
(* the connection the client has now, and only this thread reads it.       *)
THEOREM NoBlockingRecvCorrect == Spec => []NoBlockingRecv
<1>1. Init => ReadyInv
  BY DEF Init, ReadyInv
<1>2. TypeOK /\ ListInv /\ ReadyInv => NoBlockingRecv
  BY DEF TypeOK, Pointer, ListInv, ServerOK, ReadyInv, NoBlockingRecv
<1> QED
  BY <1>1, <1>2, ReadyStep, TypeCorrect, ListCorrect, SocketsCorrect, PTL
  DEF Spec

-----------------------------------------------------------------------------
(* The capture thread.                                                     *)

(* Until it is caught on a client that is being closed, the walk stands on *)
(* a linked client, or on the one just taken out of the chain, whose next  *)
(* still leads back into it.                                               *)
WalkInv ==
  (dangled = {} /\ cap # "idle") =>
    work \in Linked \/ (srv = "close" /\ work = curr)

IdleInv == cap = "idle" => work = NULL

(* A step of the network thread that takes no client out of the list.      *)
LEMMA GrowingListKeepsWalk ==
  ASSUME TypeOK, WalkInv, IdleInv, UNCHANGED <<cap, work, dangled>>,
         Linked \subseteq Linked', srv # "close"
  PROVE  WalkInv' /\ IdleInv'
BY DEF WalkInv, IdleInv

(* Every step leaves the walk on an object that exists, unless it closes   *)
(* the client under it.                                                    *)
LEMMA WalkStep ==
  ASSUME TypeOK, ControlOK, ListInv, WalkInv, IdleInv, [Next]_vars
  PROVE  WalkInv' /\ IdleInv'
<1> USE NetworkServerAssumption DEF TypeOK, Pointer, Server,
        Capture, history, shared, memory, kernel, server, capture
<1>1. CASE ServerSelect \/ ServerStop \/ ServerNoAccept \/ ServerSkip
  <2>1. /\ UNCHANGED <<cap, work, dangled, alive>>
        /\ srv \in {"top", "accept", "walk"}
        /\ srv' \in {"top", "accept", "walk", "done"}
    BY <1>1
    DEF ServerSelect, ServerStop, ServerNoAccept, ServerSkip, WalkOn
  <2> QED
    BY <2>1, GrowingListKeepsWalk DEF Linked, Dying
<1>2. ASSUME NEW c \in Conn, NEW a \in Addr, NEW f \in Fd,
             ServerAccept(c, a, f)
      PROVE  WalkInv' /\ IdleInv'
  <2>1. /\ UNCHANGED <<cap, work, dangled>> /\ alive \subseteq alive'
        /\ srv = "accept" /\ srv' = "walk"
    BY <1>2 DEF ServerAccept, InsertClient
  <2> QED
    BY <2>1, GrowingListKeepsWalk DEF Linked, Dying
<1>3. CASE NetworkHandler
  <2>1. /\ UNCHANGED <<cap, work, dangled, alive>>
        /\ srv = "walk" /\ srv' \in {"top", "walk", "unlink"}
    BY <1>3 DEF NetworkHandler, WalkOn
  <2> QED
    BY <2>1, GrowingListKeepsWalk DEF Linked, Dying
<1>4. CASE Unlink
  BY <1>4 DEF Unlink, WalkInv, IdleInv, Linked, Dying
<1>5. CASE CloseClient
  BY <1>5 DEF CloseClient, WalkInv, IdleInv, Linked, Dying
<1>6. CASE DeleteClient
  <2>1. /\ UNCHANGED <<cap, work, dangled>>
        /\ srv = "delete" /\ srv' \in {"top", "walk"} /\ alive' = alive \ {curr}
    BY <1>6 DEF DeleteClient, WalkOn
  <2>2. Linked' = Linked
    BY <2>1 DEF Linked, Dying
  <2> QED
    BY <2>1, <2>2 DEF WalkInv, IdleInv
<1>7. CASE BroadcastMessage
  <2>1. ClientList \in Linked \cup {NULL}
    BY DEF ListInv, ListOK
  <2> QED
    BY <1>7, <2>1 DEF BroadcastMessage, WalkInv, IdleInv, Linked, Dying
<1>8. CASE TransmitGiveUp \/ TransmitReady \/ TransmitSend
  <2>1. /\ UNCHANGED <<work, dangled, alive, srv, curr>>
        /\ cap # "idle" /\ cap' # "idle"
    BY <1>8 DEF TransmitGiveUp, TransmitReady, TransmitSend
  <2> QED
    BY <2>1 DEF WalkInv, IdleInv, Linked, Dying
<1>9. CASE BroadcastAdvance
  <2>1. /\ work' = heap[work].next /\ cap = "advance"
        /\ cap' = IF heap[work].next = NULL THEN "idle" ELSE "poll"
        /\ UNCHANGED <<dangled, alive, srv, curr>>
    BY <1>9 DEF BroadcastAdvance
  <2>2. dangled = {} => heap[work].next \in Linked \cup {NULL}
    <3>1. CASE work \in Linked
      BY <3>1 DEF ListInv, ListOK
    <3>2. CASE srv = "close" /\ work = curr
      BY <3>2 DEF ListInv, ServerOK
    <3> QED
      BY <2>1, <3>1, <3>2 DEF WalkInv
  <2> QED
    BY <2>1, <2>2 DEF WalkInv, IdleInv, Linked, Dying
<1>10. CASE WildAccess \/ SetShutdown \/ PeerStep \/ UNCHANGED vars
  BY <1>10
  DEF WildAccess, SetShutdown, PeerStep, PeerConnect, PeerSend, PeerClose,
      vars, WalkInv, IdleInv, Linked, Dying
<1> QED
  BY <1>1, <1>2, <1>3, <1>4, <1>5, <1>6, <1>7, <1>8, <1>9, <1>10
  DEF Next, ServerStep, CaptureStep

(* Closing the client under the capture thread is the only way it comes to *)
(* use a deleted object: removing any other client, at any moment of the   *)
(* walk, and inserting clients, are harmless without a lock.               *)
THEOREM WalkCorrect == Spec => []WalkSafe
<1>1. Init => WalkInv /\ IdleInv
  BY DEF Init, WalkInv, IdleInv
<1>2. TypeOK /\ ControlOK /\ ListInv /\ WalkInv /\ IdleInv => WalkSafe
  BY DEF TypeOK, Pointer, ControlOK, ListInv, ServerOK, WalkInv, IdleInv,
         WalkSafe, Linked, Dying
<1> QED
  BY <1>1, <1>2, WalkStep, TypeCorrect, ListCorrect, PTL DEF Spec

-----------------------------------------------------------------------------
(* What the peers receive.                                                 *)

(* The list is sorted: the newest client first, and next leads from each   *)
(* client, the one being removed included, to the newest of the older ones.*)
OrderInv ==
  /\ cutoff <= inserted
  /\ \A a \in Linked : ClientList # NULL /\ serial[a] <= serial[ClientList]
  /\ \A a \in alive, b \in Linked : serial[a] = serial[b] => a = b
  /\ \A a \in alive, b \in Linked : serial[b] < serial[a] =>
       heap[a].next # NULL /\ serial[b] <= serial[heap[a].next]

(* RemoveClient is only called for a client whose peer has gone.           *)
GoneInv ==
  srv \in {"unlink", "close"} => peer[fds[heap[curr].netsock]] = "gone"

(* A stream that is what StreamsWhole says, one that ends with part k of   *)
(* message m, and one that can be continued with the current message.      *)
Whole(s) ==
  s # <<>> => /\ s[1][2] = 1
              /\ \A i \in 1..(Len(s) - 1) : Follows(s[i], s[i + 1])
EndsAt(s, m, k) == s # <<>> /\ s[Len(s)] = <<m, k>>
Ready(s)        == s = <<>> \/ EndsAt(s, msg - 1, MsgSize)

(* How much of the current message a client has: the walk started at the   *)
(* newest client of that moment and goes from newer to older ones, so what *)
(* counts is where the client is in the list relative to it.               *)
Visited(a) == cap = "idle" \/ serial[a] > serial[work]
Waiting(a) == cap # "idle" /\ serial[a] < serial[work]
Current(a) == cap # "idle" /\ a = work

Progress(s) ==
  IF cap = "advance" THEN EndsAt(s, msg, MsgSize)
  ELSE IF off = 0 THEN Ready(s) ELSE EndsAt(s, msg, off)

Has(a, s) ==
  /\ serial[a] > cutoff => s = <<>>
  /\ serial[a] <= cutoff => /\ Visited(a) => EndsAt(s, msg, MsgSize)
                            /\ Waiting(a) => Ready(s)
                            /\ Current(a) => Progress(s)

Reached(a) == fds[heap[a].netsock]

(* Nothing has been written to a peer that was not accepted; every stream  *)
(* is whole; and, until shutdown and in the last write after it, each      *)
(* client that is linked and whose peer is there has what is due.          *)
FeedInv ==
  /\ cap # "idle" => serial[work] <= cutoff
  /\ \A c \in Conn : peer[c] = "away" \/ c \in backlog => stream[c] = <<>>
  /\ \A c \in Conn : Whole(stream[c])
  /\ (g_shutdown = 0 \/ cap = "send") =>
       \A a \in Linked : peer[Reached(a)] = "here" => Has(a, stream[Reached(a)])

StreamInv == dangled = {} => FeedInv

(* The steps that leave the list alone.                                    *)
LEMMA OtherStepsKeepOrder ==
  ASSUME OrderInv, UNCHANGED <<heap, ClientList, serial, inserted>>,
         alive' \subseteq alive, Linked' = Linked, cutoff' \in {cutoff, inserted},
         inserted \in Nat
  PROVE  OrderInv'
BY DEF OrderInv

(* InsertClient puts the newest client first.                              *)
LEMMA InsertKeepsOrder ==
  ASSUME TypeOK, ListInv, OrderInv,
         NEW a \in Addr, NEW f \in Fd, a \notin alive, InsertClient(a, f),
         srv = "accept", srv' = "walk"
  PROVE  OrderInv'
<1> USE NetworkServerAssumption DEF TypeOK, Pointer, NetworkClient
<1>1. Linked = alive /\ Linked' = alive \cup {a}
  BY DEF Linked, Dying, InsertClient
<1>2. /\ ClientList' = a /\ a # NULL
      /\ heap'[a].next = ClientList
      /\ \A x \in alive : heap'[x] = heap[x] /\ serial'[x] = serial[x]
      /\ serial'[a] = inserted + 1 /\ inserted' = inserted + 1
      /\ cutoff' = cutoff /\ alive' = alive \cup {a}
  BY DEF InsertClient
<1>3. /\ \A x \in alive : serial[x] \in Nat /\ serial[x] <= inserted
      /\ cutoff \in Nat /\ inserted \in Nat /\ cutoff <= inserted
  BY DEF ListInv, SerialOK, OrderInv
<1>4. \A x \in alive \cup {a} : ClientList' # NULL /\ serial'[x] <= serial'[a]
  BY <1>2, <1>3
<1>5. \A x, y \in alive \cup {a} : serial'[x] = serial'[y] => x = y
  BY <1>1, <1>2, <1>3 DEF OrderInv
<1>6. ASSUME NEW x \in alive \cup {a}, NEW y \in alive \cup {a},
             serial'[y] < serial'[x]
      PROVE  heap'[x].next # NULL /\ serial'[y] <= serial'[heap'[x].next]
  <2>1. y \in alive
    BY <1>2, <1>3, <1>6
  <2>2. CASE x = a
    <3>1. ClientList # NULL /\ serial[y] <= serial[ClientList]
      BY <1>1, <2>1 DEF OrderInv
    <3>2. ClientList \in alive
      BY <1>1, <3>1 DEF ListInv, ListOK
    <3> QED
      BY <1>2, <2>1, <2>2, <3>1, <3>2
  <2>3. CASE x # a
    <3>1. x \in alive /\ serial[y] < serial[x]
      BY <1>2, <1>6, <2>1, <2>3
    <3>2. heap[x].next # NULL /\ serial[y] <= serial[heap[x].next]
      BY <1>1, <2>1, <3>1 DEF OrderInv
    <3>3. heap[x].next \in alive
      BY <1>1, <3>1, <3>2 DEF ListInv, ListOK
    <3> QED
      BY <1>2, <2>1, <3>1, <3>2, <3>3
  <2> QED
    BY <2>2, <2>3
<1> QED
  BY <1>1, <1>2, <1>3, <1>4, <1>5, <1>6 DEF OrderInv

(* RemoveClient joins the clients before and after the one it takes out.   *)
LEMMA UnlinkKeepsOrder ==
  ASSUME TypeOK, ControlOK, ListInv, OrderInv, Unlink
  PROVE  OrderInv'
<1> USE NetworkServerAssumption DEF TypeOK, Pointer, NetworkClient
<1>1. /\ srv = "unlink" /\ srv' = "close"
      /\ curr \in alive /\ curr' = curr /\ alive' = alive
      /\ serial' = serial /\ inserted' = inserted /\ cutoff' = cutoff
  BY DEF Unlink, Server, ControlOK, ListInv, ServerOK, history
<1>2. Linked = alive /\ Linked' = alive \ {curr}
  BY <1>1 DEF Linked, Dying
<1>3. \A x \in alive : /\ serial[x] \in Nat /\ heap[x].next \in Pointer
                       /\ heap[x].next # NULL => heap[x].next \in alive
                       /\ heap[x].next # NULL => serial[heap[x].next] < serial[x]
  BY <1>2 DEF ListInv, ListOK
<1>4. \A x, y \in alive : serial[x] = serial[y] => x = y
  BY <1>2 DEF OrderInv
<1>5. \A x, y \in alive : serial[y] < serial[x] =>
        heap[x].next # NULL /\ serial[y] <= serial[heap[x].next]
  BY <1>2 DEF OrderInv
<1>6. \A x \in alive : ClientList # NULL /\ serial[x] <= serial[ClientList]
  BY <1>2 DEF OrderInv
<1>7. \A y \in alive \ {curr} : serial[y] < serial[curr] \/ serial[y] > serial[curr]
  BY <1>1, <1>3, <1>4
<1>8. CASE curr = ClientList
  <2>1. ClientList' = heap[curr].next /\ heap' = heap
    <3>1. ~(\E prev \in alive : heap[prev].next = curr)
      BY <1>1, <1>2, <1>8 DEF ListInv, ListOK
    <3> QED
      BY <1>8, <3>1 DEF Unlink
  <2>2. \A y \in alive \ {curr} : serial[y] < serial[curr]
    BY <1>1, <1>3, <1>6, <1>7, <1>8
  <2>3. \A y \in alive \ {curr} :
          ClientList' # NULL /\ serial[y] <= serial[ClientList']
    BY <1>1, <1>5, <2>1, <2>2
  <2> QED
    BY <1>1, <1>2, <1>4, <1>5, <2>1, <2>3 DEF OrderInv
<1>9. CASE curr # ClientList
  <2>1. PICK prev \in alive :
          /\ heap[prev].next = curr
          /\ heap' = [heap EXCEPT ![prev].next = heap[curr].next]
    BY <1>9 DEF Unlink
  <2>2. ClientList' = ClientList
    BY <1>9 DEF Unlink
  <2>3. /\ heap'[prev].next = heap[curr].next
        /\ \A x \in alive \ {prev} : heap'[x] = heap[x]
    BY <1>1, <2>1
  <2>4. ASSUME NEW y \in alive \ {curr}, serial[y] < serial[prev]
        PROVE  heap[curr].next # NULL /\ serial[y] <= serial[heap[curr].next]
    <3>1. serial[y] <= serial[curr]
      BY <1>5, <2>1, <2>4
    <3>2. serial[y] < serial[curr]
      BY <1>1, <1>3, <1>7, <3>1
    <3> QED
      BY <1>1, <1>5, <3>2
  <2>5. \A x \in alive, y \in alive \ {curr} : serial[y] < serial[x] =>
          heap'[x].next # NULL /\ serial[y] <= serial[heap'[x].next]
    BY <1>5, <2>3, <2>4
  <2> QED
    BY <1>1, <1>2, <1>4, <1>6, <2>2, <2>5 DEF OrderInv
<1> QED
  BY <1>8, <1>9

LEMMA OrderStep ==
  ASSUME TypeOK, ControlOK, ListInv, OrderInv, [Next]_vars
  PROVE  OrderInv'
<1> USE DEF shared, memory, kernel, server, capture, history, Server, Capture
<1>1. inserted \in Nat
  BY DEF TypeOK
<1>2. CASE ServerSelect \/ ServerStop \/ ServerNoAccept \/ ServerSkip
  BY <1>1, <1>2, OtherStepsKeepOrder
  DEF ServerSelect, ServerStop, ServerNoAccept, ServerSkip, WalkOn, Linked, Dying
<1>3. ASSUME NEW c \in Conn, NEW a \in Addr, NEW f \in Fd,
             ServerAccept(c, a, f)
      PROVE  OrderInv'
  <2>1. srv = "accept" /\ srv' = "walk" /\ a \notin alive
    BY <1>3 DEF ServerAccept
  <2>2. CASE InsertClient(a, f)
    BY <2>1, <2>2, InsertKeepsOrder
  <2>3. CASE UNCHANGED <<memory, history>>
    BY <1>1, <2>1, <2>3, OtherStepsKeepOrder DEF Linked, Dying
  <2> QED
    BY <1>3, <2>2, <2>3 DEF ServerAccept
<1>4. CASE NetworkHandler
  BY <1>1, <1>4, OtherStepsKeepOrder DEF NetworkHandler, WalkOn, Linked, Dying
<1>5. CASE Unlink
  BY <1>5, UnlinkKeepsOrder
<1>6. CASE CloseClient
  BY <1>1, <1>6, OtherStepsKeepOrder DEF CloseClient, Linked, Dying
<1>7. CASE DeleteClient
  BY <1>1, <1>7, OtherStepsKeepOrder DEF DeleteClient, WalkOn, Linked, Dying
<1>8. CASE CaptureStep \/ WildAccess \/ SetShutdown
  BY <1>1, <1>8, OtherStepsKeepOrder
  DEF CaptureStep, BroadcastMessage, TransmitGiveUp, TransmitReady,
      TransmitSend, BroadcastAdvance, WildAccess, SetShutdown, Linked, Dying
<1>9. CASE PeerStep \/ UNCHANGED vars
  BY <1>1, <1>9, OtherStepsKeepOrder
  DEF PeerStep, PeerConnect, PeerSend, PeerClose, vars, Linked, Dying
<1> QED
  BY <1>2, <1>3, <1>4, <1>5, <1>6, <1>7, <1>8, <1>9 DEF Next, ServerStep

(* A client is only taken out of the list at end of file, and a peer that  *)
(* has gone does not come back.                                            *)
LEMMA GoneStep ==
  ASSUME TypeOK, ControlOK, ListInv, SocketInv, GoneInv, [Next]_vars
  PROVE  GoneInv'
<1> USE DEF shared, memory, kernel, server, capture, history, Server, Capture
<1>1. CASE ServerSelect \/ ServerStop \/ ServerNoAccept \/ ServerSkip
  BY <1>1
  DEF ServerSelect, ServerStop, ServerNoAccept, ServerSkip, WalkOn, GoneInv
<1>2. ASSUME NEW c \in Conn, NEW a \in Addr, NEW f \in Fd,
             ServerAccept(c, a, f)
      PROVE  GoneInv'
  BY <1>2 DEF ServerAccept, GoneInv
<1>3. CASE NetworkHandler
  BY <1>3 DEF NetworkHandler, WalkOn, Readable, GoneInv
<1>4. CASE Unlink
  <2>1. curr \in alive
    BY <1>4 DEF Unlink, ControlOK, ListInv, ServerOK
  <2>2. heap'[curr].netsock = heap[curr].netsock
    BY <1>4, <2>1, UnlinkKeepsSockets
  <2> QED
    BY <1>4, <2>2 DEF Unlink, GoneInv
<1>5. CASE CloseClient \/ DeleteClient
  BY <1>5 DEF CloseClient, DeleteClient, WalkOn, GoneInv
<1>6. CASE CaptureStep \/ WildAccess \/ SetShutdown \/ UNCHANGED vars
  BY <1>6
  DEF CaptureStep, BroadcastMessage, TransmitGiveUp, TransmitReady,
      TransmitSend, BroadcastAdvance, WildAccess, SetShutdown, vars, GoneInv
<1>7. ASSUME NEW c \in Conn, PeerConnect(c) \/ PeerSend(c) \/ PeerClose(c)
      PROVE  GoneInv'
  <2>1. /\ UNCHANGED <<heap, fds, srv, curr, alive>>
        /\ \A d \in Conn : peer[d] = "gone" => peer'[d] = "gone"
    BY <1>7 DEF PeerConnect, PeerSend, PeerClose, TypeOK
  <2>2. srv \in {"unlink", "close"} => fds[heap[curr].netsock] \in Conn
    BY DEF ControlOK, ListInv, ServerOK, SocketInv, DescriptorsOwned, TypeOK
  <2> QED
    BY <2>1, <2>2 DEF GoneInv
<1> QED
  BY <1>1, <1>2, <1>3, <1>4, <1>5, <1>6, <1>7
  DEF Next, ServerStep, PeerStep

(* What send() adds.                                                       *)
LEMMA UnitsAre ==
  ASSUME NEW m \in 1..MaxMsg, NEW from \in 0..MsgSize,
         NEW to \in (from + 1)..MsgSize
  PROVE  /\ Units(m, from, to) \in Seq(Unit)
         /\ Len(Units(m, from, to)) = to - from
         /\ \A i \in 1..(to - from) : Units(m, from, to)[i] = <<m, from + i>>
<1>1. to - from \in Nat
  BY NetworkServerAssumption
<1>2. Units(m, from, to) \in Seq(Unit)
  BY UnitsType
<1> QED
  BY <1>1, <1>2 DEF Units

(* A write that goes on where the stream ends keeps it whole.              *)
LEMMA WriteKeepsWhole ==
  ASSUME NEW s \in Seq(Unit), Whole(s),
         NEW m \in 1..MaxMsg, NEW from \in 0..MsgSize,
         NEW to \in (from + 1)..MsgSize,
         IF from = 0 THEN s = <<>> \/ EndsAt(s, m - 1, MsgSize)
                     ELSE EndsAt(s, m, from)
  PROVE  Whole(s \o Units(m, from, to)) /\ EndsAt(s \o Units(m, from, to), m, to)
<1> DEFINE u == Units(m, from, to)
           t == s \o u
<1>1. /\ u \in Seq(Unit) /\ Len(u) = to - from
      /\ \A i \in 1..(to - from) : u[i] = <<m, from + i>>
  BY UnitsAre
<1>2. /\ from \in Nat /\ to \in Nat /\ to - from \in Nat \ {0} /\ m \in Nat
      /\ MsgSize \in Nat \ {0}
  BY NetworkServerAssumption
<1> HIDE DEF u
<1>3. /\ t \in Seq(Unit) /\ Len(t) = Len(s) + (to - from)
      /\ \A i \in 1..Len(s) : t[i] = s[i]
      /\ \A i \in (Len(s) + 1)..Len(t) : t[i] = <<m, from + (i - Len(s))>>
  <2>1. /\ t \in Seq(Unit) /\ Len(t) = Len(s) + Len(u)
        /\ \A i \in 1..(Len(s) + Len(u)) :
             t[i] = IF i <= Len(s) THEN s[i] ELSE u[i - Len(s)]
    BY <1>1, ConcatProperties
  <2>2. Len(t) = Len(s) + (to - from) /\ Len(s) \in Nat
    BY <1>1, <2>1
  <2>3. \A i \in 1..Len(s) : t[i] = s[i]
    BY <1>1, <1>2, <2>1, <2>2
  <2>4. ASSUME NEW i \in (Len(s) + 1)..Len(t)
        PROVE  t[i] = <<m, from + (i - Len(s))>>
    <3>1. i - Len(s) \in 1..(to - from)
      BY <1>2, <2>2
    <3>2. i \in 1..(Len(s) + Len(u)) /\ ~(i <= Len(s))
      BY <1>1, <1>2, <2>2
    <3>3. t[i] = u[i - Len(s)]
      BY <2>1, <3>2
    <3> QED
      BY <1>1, <3>1, <3>3
  <2> QED
    BY <2>1, <2>2, <2>3, <2>4
<1>4. Len(s) \in Nat
  OBVIOUS
<1> HIDE DEF t
<1>5. EndsAt(t, m, to)
  <2>1. Len(t) \in (Len(s) + 1)..Len(t)
    BY <1>2, <1>3, <1>4
  <2>2. t[Len(t)] = <<m, from + (Len(t) - Len(s))>>
    BY <1>3, <2>1
  <2>3. from + (Len(t) - Len(s)) = to
    BY <1>2, <1>3, <1>4
  <2>4. t # <<>>
    BY <1>2, <1>3, <1>4
  <2> QED
    BY <2>2, <2>3, <2>4 DEF EndsAt
<1>6. t[1][2] = 1
  <2>1. CASE s = <<>>
    <3>1. Len(s) = 0 /\ from = 0
      BY <2>1, EmptySeq DEF EndsAt
    <3>2. t[1] = <<m, from + (1 - 0)>>
      BY <1>2, <1>3, <3>1
    <3> QED
      BY <3>1, <3>2
  <2>2. CASE s # <<>>
    <3>1. 1 \in 1..Len(s)
      BY <1>4, <2>2, EmptySeq
    <3> QED
      BY <1>3, <2>2, <3>1 DEF Whole
  <2> QED
    BY <2>1, <2>2
<1>7. ASSUME NEW i \in 1..(Len(t) - 1)
      PROVE  Follows(t[i], t[i + 1])
  <2>1. CASE i < Len(s)
    <3>1. s # <<>> /\ i \in 1..(Len(s) - 1) /\ i \in 1..Len(s) /\ i + 1 \in 1..Len(s)
      BY <1>4, <2>1, EmptySeq
    <3> QED
      BY <1>3, <3>1 DEF Whole
  <2>2. CASE i = Len(s)
    <3>1. s # <<>> /\ i \in 1..Len(s) /\ t[i] = s[Len(s)]
      BY <1>3, <1>4, <2>2, EmptySeq
    <3>2. t[i + 1] = <<m, from + 1>>
      <4>1. i + 1 \in (Len(s) + 1)..Len(t)
        BY <1>2, <1>3, <1>4, <2>2
      <4>2. t[i + 1] = <<m, from + ((i + 1) - Len(s))>>
        BY <1>3, <4>1
      <4>3. from + ((i + 1) - Len(s)) = from + 1
        BY <1>2, <1>4, <2>2
      <4> QED
        BY <4>2, <4>3
    <3>3. CASE from = 0
      <4>1. t[i] = <<m - 1, MsgSize>>
        BY <3>1, <3>3 DEF EndsAt
      <4> QED
        BY <1>2, <3>2, <3>3, <4>1 DEF Follows
    <3>4. CASE from # 0
      <4>1. t[i] = <<m, from>>
        BY <3>1, <3>4 DEF EndsAt
      <4> QED
        BY <1>2, <3>2, <4>1 DEF Follows
    <3> QED
      BY <3>3, <3>4
  <2>3. CASE i > Len(s)
    <3>1. i \in (Len(s) + 1)..Len(t) /\ i + 1 \in (Len(s) + 1)..Len(t)
      <4>1. Len(t) \in Nat /\ i \in Nat /\ i <= Len(t) - 1
        BY <1>2, <1>3, <1>4
      <4> QED
        BY <1>4, <2>3, <4>1
    <3>2. /\ t[i] = <<m, from + (i - Len(s))>>
          /\ t[i + 1] = <<m, from + ((i + 1) - Len(s))>>
      BY <1>3, <3>1
    <3>3. from + ((i + 1) - Len(s)) = (from + (i - Len(s))) + 1
      BY <1>2, <1>4
    <3> QED
      BY <3>2, <3>3 DEF Follows
  <2> QED
    BY <1>4, <2>1, <2>2, <2>3
<1> QED
  BY <1>5, <1>6, <1>7 DEF Whole, t, u

(* The client of a broadcast under way, and the one after it.              *)
LEMMA WorkFacts ==
  ASSUME TypeOK, ControlOK, ListInv, OrderInv, WalkInv, dangled = {},
         cap # "idle"
  PROVE  /\ work \in alive /\ msg \in 1..MaxMsg
         /\ heap[work].next \in Linked \cup {NULL}
         /\ heap[work].next # NULL => serial[heap[work].next] < serial[work]
<1>1. work \in Linked \/ (srv = "close" /\ work = curr)
  BY DEF WalkInv
<1>2. work \in alive
  BY <1>1 DEF Linked, ListInv, ServerOK, ControlOK
<1>3. msg \in 1..MaxMsg
  BY NetworkServerAssumption DEF TypeOK, ControlOK
<1>4. CASE work \in Linked
  BY <1>2, <1>3, <1>4 DEF ListInv, ListOK
<1>5. CASE srv = "close" /\ work = curr
  BY <1>2, <1>3, <1>5 DEF ListInv, ServerOK
<1> QED
  BY <1>1, <1>4, <1>5

(* The descriptor of a linked client.                                      *)
LEMMA LinkedFacts ==
  ASSUME TypeOK, SocketInv
  PROVE  \A a \in Linked : /\ a \in alive /\ heap[a].netsock \in Fd
                           /\ Reached(a) \in Conn
                           /\ peer[Reached(a)] # "away"
                           /\ Reached(a) \notin backlog
                           /\ \A b \in Linked : Reached(a) = Reached(b) => a = b
<1>1. ASSUME NEW a \in Linked
      PROVE  /\ a \in alive /\ (srv = "delete" => a # curr)
             /\ heap[a].netsock \in Fd /\ Reached(a) \in Conn
  BY DEF Linked, Dying, TypeOK, SocketInv, DescriptorsOwned, Reached
<1>2. ASSUME NEW a \in Linked, NEW b \in Linked, Reached(a) = Reached(b)
      PROVE  a = b
  <2>1. heap[a].netsock = heap[b].netsock
    BY <1>1, <1>2, NetworkServerAssumption
    DEF SocketInv, ConnectionsOK, Reached
  <2> QED
    BY <1>1, <2>1 DEF SocketInv, DescriptorsOwned
<1> QED
  BY <1>1, <1>2, NetworkServerAssumption DEF SocketInv, ConnectionsOK, Reached

(* Steps after which the linked clients are some of those before, each     *)
(* with the connection it had, and the capture thread is where it was.     *)
LEMMA OtherStepsKeepFeed ==
  ASSUME FeedInv, UNCHANGED <<cap, work, off, msg, cutoff, stream>>,
         cap # "idle" => serial'[work] = serial[work],
         g_shutdown' = 0 => g_shutdown = 0,
         \A c \in Conn : (peer[c] = "away" \/ c \in backlog)'
                           => peer[c] = "away" \/ c \in backlog,
         \A a \in Linked' :
           /\ a \in Linked /\ serial'[a] = serial[a]
           /\ Reached(a)' = Reached(a)
           /\ peer'[Reached(a)] = "here" => peer[Reached(a)] = "here"
  PROVE  FeedInv'
<1>1. cap' # "idle" => serial'[work'] <= cutoff'
  BY DEF FeedInv
<1>2. \A c \in Conn : (peer[c] = "away" \/ c \in backlog)' => stream'[c] = <<>>
  BY DEF FeedInv
<1>3. \A c \in Conn : Whole(stream'[c])
  BY DEF FeedInv
<1>4. ASSUME (g_shutdown = 0 \/ cap = "send")', NEW a \in Linked',
             peer'[Reached(a)'] = "here"
      PROVE  Has(a, stream[Reached(a)])'
  <2>1. Has(a, stream[Reached(a)])
    BY <1>4 DEF FeedInv
  <2>2. stream'[Reached(a)'] = stream[Reached(a)] /\ serial'[a] = serial[a]
    BY <1>4
  <2> QED
    BY <2>1, <2>2
    DEF Has, Visited, Waiting, Current, Progress, Ready, EndsAt
<1> QED
  BY <1>1, <1>2, <1>3, <1>4 DEF FeedInv, Whole, Follows

(* What every step of the proof has at hand.                               *)
FeedContext ==
  /\ TypeOK /\ ControlOK /\ ListInv /\ SocketInv /\ OrderInv /\ GoneInv
  /\ WalkInv /\ IdleInv /\ FeedInv /\ dangled = {}

(* The network thread, but for accept().                                   *)
LEMMA ServerKeepsFeed ==
  ASSUME FeedContext, dangled' = {},
         \/ ServerSelect \/ ServerStop \/ ServerNoAccept \/ ServerSkip
         \/ NetworkHandler \/ Unlink \/ CloseClient \/ DeleteClient
  PROVE  FeedInv'
<1> USE DEF FeedContext, shared, memory, kernel, server, capture, history,
            Server, Capture
<1>1. \A a \in Linked : /\ a \in alive /\ heap[a].netsock \in Fd
                        /\ Reached(a) \in Conn
  BY LinkedFacts
<1>2. ASSUME UNCHANGED <<cap, work, off, msg, cutoff, stream, serial,
                         g_shutdown, backlog, peer>>,
             \A a \in Linked' : a \in Linked /\ Reached(a)' = Reached(a)
      PROVE  FeedInv'
  BY <1>2, OtherStepsKeepFeed
<1>3. CASE ServerSelect \/ ServerStop \/ ServerNoAccept \/ ServerSkip
  BY <1>2, <1>3
  DEF ServerSelect, ServerStop, ServerNoAccept, ServerSkip, WalkOn, Linked,
      Dying, Reached
<1>4. CASE NetworkHandler
  BY <1>2, <1>4 DEF NetworkHandler, WalkOn, Linked, Dying, Reached
<1>5. CASE Unlink
  <2>1. \A x \in alive : heap'[x].netsock = heap[x].netsock
    BY <1>5, UnlinkKeepsSockets
  <2>2. Linked' \subseteq Linked /\ fds' = fds
    BY <1>5 DEF Unlink, Linked, Dying
  <2> QED
    BY <1>1, <1>2, <1>5, <2>1, <2>2 DEF Unlink, Reached
<1>6. CASE CloseClient
  <2>1. /\ srv = "close" /\ curr \in alive /\ heap' = heap
        /\ fds' = [fds EXCEPT ![heap[curr].netsock] = NULL]
    BY <1>6 DEF CloseClient, ListInv, ServerOK, ControlOK
  <2>2. \A a \in Linked : heap[a].netsock # heap[curr].netsock
    BY <2>1 DEF Linked, Dying, SocketInv, DescriptorsOwned
  <2>3. \A a \in Linked : Reached(a)' = Reached(a)
    BY <1>1, <2>1, <2>2 DEF Reached, TypeOK
  <2>4. Linked' = Linked
    BY <1>6 DEF CloseClient, Linked, Dying
  <2> QED
    BY <1>2, <1>6, <2>3, <2>4 DEF CloseClient
<1>7. CASE DeleteClient
  <2>1. Linked' = Linked
    BY <1>7 DEF DeleteClient, WalkOn, Linked, Dying
  <2> QED
    BY <1>2, <1>7, <2>1 DEF DeleteClient, WalkOn, Reached
<1> QED
  BY <1>3, <1>4, <1>5, <1>6, <1>7

(* accept(): the new client's stream is empty and the broadcast that may   *)
(* be under way does not reach it.                                         *)
LEMMA AcceptKeepsFeed ==
  ASSUME FeedContext, NEW c \in Conn, NEW a \in Addr, NEW f \in Fd,
         ServerAccept(c, a, f)
  PROVE  FeedInv'
<1> USE DEF FeedContext, shared, memory, kernel, server, capture, history,
            Server, Capture
<1>1. /\ srv = "accept" /\ srv' = "walk" /\ a \notin alive /\ fds[f] = NULL
      /\ c \in backlog /\ backlog' = backlog \ {c} /\ peer' = peer
      /\ fds' = [fds EXCEPT ![f] = c]
      /\ UNCHANGED <<cap, work, off, msg, stream, g_shutdown>>
  BY DEF ServerAccept, LowestFree
<1>2. \A x \in Linked : /\ x \in alive /\ heap[x].netsock \in Fd
                        /\ Reached(x) \in Conn
  BY LinkedFacts
<1>3. \A x \in Linked : heap[x].netsock # f
  BY <1>1, <1>2, NetworkServerAssumption DEF Reached
<1>4. \A x \in Linked : fds'[heap[x].netsock] = Reached(x)
  BY <1>1, <1>2, <1>3 DEF Reached, TypeOK
<1>5. CASE UNCHANGED <<memory, history>>
  <2>1. Linked' = Linked
    BY <1>1, <1>5 DEF Linked, Dying
  <2>2. \A x \in Linked : Reached(x)' = Reached(x)
    BY <1>4, <1>5 DEF Reached
  <2> QED
    BY <1>1, <1>5, <2>1, <2>2, OtherStepsKeepFeed
<1>6. CASE InsertClient(a, f)
  <2>1. /\ alive' = alive \cup {a} /\ heap'[a].netsock = f
        /\ \A x \in alive : heap'[x] = heap[x] /\ serial'[x] = serial[x]
        /\ serial'[a] = inserted + 1 /\ cutoff' = cutoff
    BY <1>1, <1>6 DEF InsertClient, TypeOK
  <2>2. Linked = alive /\ Linked' = alive \cup {a}
    BY <1>1, <2>1 DEF Linked, Dying
  <2>3. \A x \in Linked : Reached(x)' = Reached(x)
    BY <1>2, <1>4, <2>1 DEF Reached
  <2>4. cap # "idle" => work \in alive
    BY WorkFacts
  <2>5. cap' # "idle" => serial'[work'] <= cutoff'
    BY <1>1, <2>1, <2>4 DEF FeedInv
  <2>6. \A d \in Conn : (peer[d] = "away" \/ d \in backlog)' => stream'[d] = <<>>
    BY <1>1 DEF FeedInv
  <2>7. \A d \in Conn : Whole(stream'[d])
    BY <1>1 DEF FeedInv
  <2>8. ASSUME (g_shutdown = 0 \/ cap = "send")', NEW x \in alive,
               peer'[Reached(x)'] = "here"
        PROVE  Has(x, stream[Reached(x)])'
    <3>1. Has(x, stream[Reached(x)])
      BY <1>1, <2>2, <2>3, <2>8 DEF FeedInv
    <3>2. /\ stream'[Reached(x)'] = stream[Reached(x)]
          /\ serial'[x] = serial[x]
          /\ cap # "idle" => serial'[work] = serial[work]
      BY <1>1, <2>1, <2>2, <2>3, <2>4
    <3> QED
      BY <1>1, <2>1, <3>1, <3>2
      DEF Has, Visited, Waiting, Current, Progress, Ready, EndsAt
  <2>9. Has(a, stream[Reached(a)])'
    <3>1. Reached(a)' = c
      BY <1>1, <2>1 DEF Reached, TypeOK
    <3>2. stream'[c] = <<>>
      BY <1>1 DEF FeedInv
    <3>3. serial'[a] > cutoff' /\ ~(serial'[a] <= cutoff')
      BY <2>1 DEF OrderInv, TypeOK
    <3> QED
      BY <3>1, <3>2, <3>3 DEF Has
  <2> QED
    BY <2>2, <2>5, <2>6, <2>7, <2>8, <2>9 DEF FeedInv, Whole, Follows
<1> QED
  BY <1>5, <1>6 DEF ServerAccept

(* BroadcastMessage begins: everybody who is linked has the message before *)
(* this one, or nothing.                                                   *)
LEMMA BeginKeepsFeed ==
  ASSUME FeedContext, BroadcastMessage
  PROVE  FeedInv'
<1> USE DEF FeedContext, shared, memory, kernel, server, capture, history,
            Server, Capture
<1>1. /\ cap = "idle" /\ msg' = msg + 1 /\ work' = ClientList /\ off' = 0
      /\ cap' = IF ClientList = NULL THEN "idle" ELSE "poll"
      /\ cutoff' = inserted
      /\ UNCHANGED <<heap, alive, fds, backlog, peer, stream, srv, curr, serial,
                     g_shutdown>>
  BY DEF BroadcastMessage
<1>2. /\ ClientList \in Linked \cup {NULL} /\ Linked' = Linked
      /\ \A a \in Linked : /\ a \in alive /\ serial[a] <= inserted
                           /\ Reached(a)' = Reached(a)
  BY <1>1, LinkedFacts DEF ListInv, ListOK, SerialOK, Linked, Dying, Reached
<1>3. cap' # "idle" => serial'[work'] <= cutoff'
  BY <1>1, <1>2
<1>4. ASSUME (g_shutdown = 0 \/ cap = "send")', NEW a \in Linked,
             peer[Reached(a)] = "here"
      PROVE  Has(a, stream[Reached(a)])'
  <2>1. Has(a, stream[Reached(a)])
    BY <1>1, <1>4 DEF FeedInv
  <2>2. /\ serial[a] \in Nat /\ cutoff \in Nat /\ msg \in Nat
        /\ msg' = msg + 1 /\ (msg + 1) - 1 = msg
    BY <1>1, <1>2 DEF TypeOK
  <2>3. Ready(stream[Reached(a)])'
    <3>1. CASE serial[a] > cutoff
      BY <1>1, <1>2, <2>1, <3>1 DEF Has, Ready
    <3>2. CASE serial[a] <= cutoff
      BY <1>1, <1>2, <2>1, <2>2, <3>2 DEF Has, Visited, Ready, EndsAt
    <3> QED
      BY <2>2, <3>1, <3>2
  <2>4. /\ ClientList # NULL /\ serial[a] <= serial[ClientList]
        /\ serial[ClientList] \in Nat
    BY <1>2, NetworkServerAssumption DEF OrderInv, TypeOK, Pointer
  <2>5. /\ cap' = "poll" /\ ~Visited(a)'
        /\ serial'[a] <= cutoff' /\ ~(serial'[a] > cutoff')
    BY <1>1, <1>2, <2>2, <2>4 DEF Visited, TypeOK
  <2> QED
    BY <1>1, <2>3, <2>5 DEF Has, Progress
<1>5. /\ \A c \in Conn : (peer[c] = "away" \/ c \in backlog)'
                            => stream'[c] = <<>>
      /\ \A c \in Conn : Whole(stream'[c])
  BY <1>1 DEF FeedInv
<1> QED
  BY <1>1, <1>2, <1>3, <1>4, <1>5 DEF FeedInv, Whole, Follows

(* A write.                                                                *)
LEMMA SendKeepsFeed ==
  ASSUME FeedContext, TransmitSend
  PROVE  FeedInv'
<1> USE DEF FeedContext, shared, memory, kernel, server, capture, history,
            Server, Capture
<1> DEFINE f == heap[work].netsock
<1>1. /\ cap = "send" /\ cap' \in {"poll", "advance"}
      /\ UNCHANGED <<heap, alive, fds, backlog, peer, srv, curr, serial, cutoff,
                     work, msg, g_shutdown>>
  BY DEF TransmitSend
<1>2. /\ work \in alive /\ msg \in 1..MaxMsg
      /\ \A a \in Linked : a \in alive /\ Reached(a) \in Conn
      /\ \A a, b \in Linked : Reached(a) = Reached(b) => a = b
  BY <1>1, WorkFacts, LinkedFacts
<1>3. Linked' = Linked /\ \A a \in Linked : Reached(a)' = Reached(a)
  BY <1>1 DEF Linked, Dying, Reached
<1>4. /\ cap' # "idle" => serial'[work'] <= cutoff'
      /\ \A c \in Conn : (peer[c] = "away" \/ c \in backlog)'
                            => peer[c] = "away" \/ c \in backlog
  BY <1>1 DEF FeedInv
<1>5. ASSUME NEW a \in Linked, a # work, peer[Reached(a)] = "here",
             stream'[Reached(a)] = stream[Reached(a)]
      PROVE  Has(a, stream[Reached(a)])'
  <2>1. Has(a, stream[Reached(a)])
    BY <1>1, <1>5 DEF FeedInv
  <2> QED
    BY <1>1, <1>3, <1>5, <2>1
    DEF Has, Visited, Waiting, Current, Progress, Ready, EndsAt
<1>6. CASE stream' = stream /\ ~(work \in Linked /\ peer[Reached(work)] = "here")
  <2>1. \A a \in Linked : peer[Reached(a)] = "here" => Has(a, stream[Reached(a)])'
    BY <1>5, <1>6
  <2>2. /\ \A c \in Conn : (peer[c] = "away" \/ c \in backlog)'
                              => stream'[c] = <<>>
        /\ \A c \in Conn : Whole(stream'[c])
    BY <1>4, <1>6 DEF FeedInv
  <2> QED
    BY <1>1, <1>3, <1>4, <2>1, <2>2 DEF FeedInv, Whole, Follows
<1>7. ASSUME work \in Linked, peer[Reached(work)] = "here"
      PROVE  FeedInv'
  <2> DEFINE c == Reached(work)
  <2>1. c \in Conn /\ c # NULL /\ f \in Fd /\ fds[f] = c
    BY <1>2, <1>7, LinkedFacts, NetworkServerAssumption DEF Reached
  <2>2. PICK upto \in (off + 1)..MsgSize :
          /\ off' = upto
          /\ cap' = IF upto = MsgSize THEN "advance" ELSE "poll"
          /\ stream' = [stream EXCEPT ![c] = @ \o Units(msg, off, upto)]
    BY <1>7, <2>1 DEF TransmitSend
  <2>3. stream[c] \in Seq(Unit) /\ off \in 0..MsgSize
    BY <2>1 DEF TypeOK
  <2>4. Whole(stream[c]) /\ Progress(stream[c])
    <3>1. Has(work, stream[c]) /\ serial[work] <= cutoff
      BY <1>1, <1>7 DEF FeedInv
    <3> QED
      BY <1>1, <2>1, <3>1 DEF FeedInv, Has, Current
  <2>5. IF off = 0 THEN stream[c] = <<>> \/ EndsAt(stream[c], msg - 1, MsgSize)
                   ELSE EndsAt(stream[c], msg, off)
    BY <1>1, <2>4 DEF Progress, Ready
  <2>6. /\ Whole(stream[c] \o Units(msg, off, upto))
        /\ EndsAt(stream[c] \o Units(msg, off, upto), msg, upto)
    BY <1>2, <2>2, <2>3, <2>4, <2>5, WriteKeepsWhole
  <2>7. /\ stream'[c] = stream[c] \o Units(msg, off, upto)
        /\ \A d \in Conn \ {c} : stream'[d] = stream[d]
    BY <2>1, <2>2 DEF TypeOK
  <2>8. Has(work, stream[c])'
    <3>1. upto # 0 /\ upto \in Nat
      BY <2>2, <2>3, NetworkServerAssumption
    <3>2. EndsAt(stream'[c], msg, upto)
      BY <2>6, <2>7 DEF EndsAt
    <3>3. Progress(stream[c])'
      <4>1. Reached(work)' = c /\ work' = work /\ msg' = msg
        BY <1>1, <1>3, <1>7
      <4> QED
        BY <1>1, <2>2, <3>1, <3>2, <4>1 DEF Progress, EndsAt
    <3>4. /\ serial'[work'] <= cutoff' /\ ~(serial'[work'] > cutoff')
          /\ ~Visited(work)' /\ ~Waiting(work)'
      BY <1>1, <1>2, <1>4 DEF Visited, Waiting, TypeOK
    <3> QED
      BY <3>2, <3>3, <3>4 DEF Has
  <2>9. \A a \in Linked : peer[Reached(a)] = "here" => Has(a, stream[Reached(a)])'
    BY <1>1, <1>2, <1>5, <1>7, <2>7, <2>8
  <2>10. \A d \in Conn : Whole(stream'[d])
    BY <2>6, <2>7 DEF FeedInv
  <2>11. c \notin backlog /\ peer[c] # "away"
    BY <1>7, LinkedFacts
  <2>12. \A d \in Conn : (peer[d] = "away" \/ d \in backlog)' => stream'[d] = <<>>
    BY <1>1, <2>7, <2>11 DEF FeedInv
  <2> QED
    BY <1>1, <1>3, <1>4, <2>9, <2>10, <2>12 DEF FeedInv, Whole, Follows
<1>8. stream' = stream \/ (work \in Linked /\ peer[Reached(work)] = "here")
  <2>1. CASE work \in Linked
    BY <2>1 DEF TransmitSend, Reached
  <2>2. CASE work \notin Linked
    <3>1. srv = "close" /\ work = curr
      BY <1>1, <2>2 DEF WalkInv
    <3>2. peer[fds[f]] = "gone"
      BY <3>1 DEF GoneInv
    <3> QED
      BY <3>2 DEF TransmitSend
  <2> QED
    BY <2>1, <2>2
<1> QED
  BY <1>6, <1>7, <1>8

(* On to the next client: the one left behind has the whole message, and   *)
(* no client stands between the two.                                       *)
LEMMA AdvanceKeepsFeed ==
  ASSUME FeedContext, BroadcastAdvance
  PROVE  FeedInv'
<1> USE DEF FeedContext, shared, memory, kernel, server, capture, history,
            Server, Capture
<1>1. /\ cap = "advance" /\ work' = heap[work].next /\ off' = 0
      /\ cap' = IF work' = NULL THEN "idle" ELSE "poll"
      /\ UNCHANGED <<heap, alive, fds, backlog, peer, stream, srv, curr, serial,
                     cutoff, msg, g_shutdown>>
  BY DEF BroadcastAdvance
<1>2. /\ work \in alive /\ work' \in Linked \cup {NULL}
      /\ work' # NULL => serial[work'] < serial[work]
      /\ serial[work] \in Nat /\ cutoff \in Nat
      /\ work' # NULL => serial[work'] \in Nat
  <2>1. /\ work \in alive /\ work' \in Linked \cup {NULL}
        /\ work' # NULL => serial[work'] < serial[work]
    BY <1>1, WorkFacts
  <2>2. work \in Addr /\ (work' # NULL => work' \in Addr)
    BY <2>1 DEF TypeOK, Linked
  <2> QED
    BY <2>1, <2>2 DEF TypeOK
<1>3. /\ Linked' = Linked
      /\ \A a \in Linked : /\ a \in alive /\ Reached(a)' = Reached(a)
                           /\ serial[a] \in Nat
  BY <1>1, LinkedFacts DEF Linked, Dying, Reached, TypeOK
<1>4. cap' # "idle" => serial'[work'] <= cutoff'
  BY <1>1, <1>2 DEF FeedInv
<1>5. /\ \A c \in Conn : (peer[c] = "away" \/ c \in backlog)'
                            => stream'[c] = <<>>
      /\ \A c \in Conn : Whole(stream'[c])
  BY <1>1 DEF FeedInv
<1>6. ASSUME g_shutdown = 0, NEW a \in Linked, peer[Reached(a)] = "here"
      PROVE  Has(a, stream[Reached(a)])'
  <2> DEFINE s == stream[Reached(a)]
  <2>1. Has(a, s) /\ s' = s
    BY <1>1, <1>3, <1>6 DEF FeedInv
  <2>2. CASE serial[a] > cutoff
    BY <1>1, <1>2, <1>3, <2>1, <2>2 DEF Has
  <2>3. CASE serial[a] <= cutoff /\ serial[a] >= serial[work]
    <3>1. EndsAt(s, msg, MsgSize)
      <4>1. CASE serial[a] > serial[work]
        BY <2>1, <2>3, <4>1 DEF Has, Visited
      <4>2. CASE serial[a] = serial[work]
        <5>1. a = work
          BY <1>2, <4>2 DEF OrderInv
        <5> QED
          BY <1>1, <2>1, <2>3, <5>1 DEF Has, Current, Progress
      <4> QED
        BY <1>2, <1>3, <2>3, <4>1, <4>2
    <3>2. ~Waiting(a)' /\ ~Current(a)' /\ ~(serial'[a] > cutoff')
      BY <1>1, <1>2, <1>3, <2>3 DEF Waiting, Current
    <3> QED
      BY <1>1, <2>1, <3>1, <3>2 DEF Has, EndsAt
  <2>4. CASE serial[a] <= cutoff /\ serial[a] < serial[work]
    <3>1. Ready(s)
      BY <1>1, <2>1, <2>4 DEF Has, Waiting
    <3>2. work' # NULL /\ serial[a] <= serial[work']
      BY <1>1, <1>2, <2>4 DEF OrderInv
    <3>3. ~Visited(a)' /\ ~(serial'[a] > cutoff') /\ cap' = "poll"
      BY <1>1, <1>2, <1>3, <2>4, <3>2 DEF Visited
    <3>4. Ready(s)' /\ Progress(s)'
      BY <1>1, <2>1, <3>1, <3>3 DEF Ready, EndsAt, Progress
    <3> QED
      BY <3>3, <3>4 DEF Has
  <2> QED
    BY <1>2, <1>3, <2>2, <2>3, <2>4
<1> QED
  BY <1>1, <1>3, <1>4, <1>5, <1>6 DEF FeedInv, Whole, Follows

(* Whatever the peers do, and the steps that write nothing.                *)
LEMMA QuietStepsKeepFeed ==
  ASSUME FeedContext, dangled' = {},
         \/ TransmitGiveUp \/ TransmitReady \/ WildAccess \/ SetShutdown
         \/ PeerStep \/ UNCHANGED vars
  PROVE  FeedInv'
<1> USE DEF FeedContext, shared, memory, kernel, server, capture, history,
            Server, Capture
<1>1. \A a \in Linked : /\ a \in alive /\ Reached(a) \in Conn
                        /\ peer[Reached(a)] # "away"
  BY LinkedFacts
<1>2. CASE WildAccess \/ SetShutdown \/ UNCHANGED vars
  BY <1>2, OtherStepsKeepFeed
  DEF WildAccess, SetShutdown, vars, Linked, Dying, Reached
<1>3. CASE TransmitGiveUp \/ TransmitReady
  <2>1. /\ UNCHANGED <<heap, alive, srv, curr, fds, backlog, peer, stream, work,
                       off, msg, cutoff, serial, g_shutdown>>
        /\ cap = "poll" /\ cap' \in {"send", "advance"}
        /\ (g_shutdown = 0 \/ cap = "send")' => g_shutdown = 0 /\ cap' = "send"
    BY <1>3 DEF TransmitGiveUp, TransmitReady
  <2>2. Linked' = Linked /\ \A a \in Linked : Reached(a)' = Reached(a)
    BY <2>1 DEF Linked, Dying, Reached
  <2>3. ASSUME (g_shutdown = 0 \/ cap = "send")', NEW a \in Linked,
               peer[Reached(a)] = "here"
        PROVE  Has(a, stream[Reached(a)])'
    <3>1. Has(a, stream[Reached(a)])
      BY <2>1, <2>3 DEF FeedInv
    <3> QED
      BY <2>1, <2>2, <2>3, <3>1
      DEF Has, Visited, Waiting, Current, Progress, Ready, EndsAt
  <2> QED
    BY <2>1, <2>2, <2>3 DEF FeedInv, Whole, Follows
<1>4. ASSUME NEW c \in Conn, PeerConnect(c) \/ PeerSend(c) \/ PeerClose(c)
      PROVE  FeedInv'
  <2>1. /\ UNCHANGED <<heap, alive, srv, curr, fds, stream, cap, work, off, msg,
                       cutoff, serial, g_shutdown>>
        /\ \A d \in Conn : (peer[d] = "away" \/ d \in backlog)'
                              => peer[d] = "away" \/ d \in backlog
        /\ \A d \in Conn : peer'[d] = "here" => peer[d] \in {"here", "away"}
    BY <1>4 DEF PeerConnect, PeerSend, PeerClose, TypeOK
  <2>2. Linked' = Linked /\ \A a \in Linked : Reached(a)' = Reached(a)
    BY <2>1 DEF Linked, Dying, Reached
  <2> QED
    BY <1>1, <2>1, <2>2, OtherStepsKeepFeed
<1> QED
  BY <1>2, <1>3, <1>4 DEF PeerStep

(* A broadcast can only go wrong once a client was closed under it.        *)
LEMMA StreamStep ==
  ASSUME TypeOK, ControlOK, ListInv, SocketInv, OrderInv, GoneInv, WalkInv,
         IdleInv, StreamInv, [Next]_vars
  PROVE  StreamInv'
<1> SUFFICES ASSUME dangled' = {}
             PROVE  FeedInv'
  BY DEF StreamInv
<1>1. dangled = {}
  <2>1. dangled \subseteq dangled'
    BY DEF Next, ServerStep, CaptureStep, PeerStep, ServerSelect, ServerStop,
           ServerNoAccept, ServerSkip, ServerAccept, InsertClient,
           NetworkHandler, Unlink, CloseClient, DeleteClient, BroadcastMessage,
           TransmitGiveUp, TransmitReady, TransmitSend, BroadcastAdvance,
           WildAccess, PeerConnect, PeerSend, PeerClose, SetShutdown, vars,
           shared, memory, kernel, server, capture, history
  <2> QED
    BY <2>1
<1>2. FeedContext
  BY <1>1 DEF FeedContext, StreamInv
<1> QED
  BY <1>2, ServerKeepsFeed, AcceptKeepsFeed, BeginKeepsFeed, SendKeepsFeed,
     AdvanceKeepsFeed, QuietStepsKeepFeed
  DEF Next, ServerStep, CaptureStep

(* As long as no client was closed while the capture thread was on it,     *)
(* every peer receives whole messages, in order and none missing, and a    *)
(* broadcast that returns has reached every client that was in the list    *)
(* when it began: partial writes, clients that join or leave and a         *)
(* shutdown do not tear or reorder what anybody receives.                  *)
THEOREM StreamsCorrect == Spec => []StreamsOK
<1>1. Init => OrderInv /\ GoneInv /\ StreamInv /\ WalkInv /\ IdleInv
  BY DEF Init, OrderInv, GoneInv, StreamInv, WalkInv, IdleInv, FeedInv, Whole,
         Linked, Dying
<1>2. TypeOK /\ ListInv /\ StreamInv => StreamsOK
  <2> SUFFICES ASSUME TypeOK, ListInv, StreamInv
               PROVE  StreamsOK
    OBVIOUS
  <2>1. StreamsWhole
    BY DEF StreamInv, FeedInv, Whole, StreamsWhole
  <2>2. Delivered
    <3> SUFFICES ASSUME cap = "idle", g_shutdown = 0, dangled = {},
                        NEW a \in Linked, serial[a] <= cutoff,
                        peer[Reached(a)] = "here"
                 PROVE  EndsAt(stream[Reached(a)], msg, MsgSize)
      BY DEF Delivered, Reached, EndsAt
    <3> QED
      BY DEF StreamInv, FeedInv, Has, Visited
  <2> QED
    BY <2>1, <2>2 DEF StreamsOK
<1> QED
  BY <1>1, <1>2, OrderStep, GoneStep, WalkStep, StreamStep, TypeCorrect,
     ListCorrect, SocketsCorrect, PTL DEF Spec
=============================================================================
