--------------------------- MODULE NetworkServer ---------------------------
(***************************************************************************)
(* The client list of untangle-nflogd.                                     *)
(*                                                                         *)
(* Two threads share one singly linked list of heap objects and take no    *)
(* lock.  The network thread (NetworkServer::ThreadWorker) accepts peers,  *)
(* inserts their NetworkClient at the front, and unlinks and deletes the   *)
(* client whose socket reports end of file.  The capture thread walks the  *)
(* same list (NetworkServer::BroadcastMessage) and writes every log        *)
(* message to each client (NetworkClient::TransmitMessage).                *)
(*                                                                         *)
(* One action is one step another thread can see: a read or write of a     *)
(* shared pointer, a system call on a descriptor, a delete.  Heap blocks   *)
(* and descriptors are reused, the lowest free descriptor first, so an     *)
(* old pointer or an old descriptor number can name a new client.  A local *)
(* variable that the code will set again before it reads it is cleared.    *)
(***************************************************************************)
EXTENDS Naturals, Sequences

CONSTANTS
  Conn,      (* the peers; each connects at most once                      *)
  Addr,      (* heap blocks a NetworkClient can occupy                     *)
  MaxFd,     (* descriptors 1..MaxFd are left for the peers                *)
  MaxMsg,    (* bound: log messages broadcast in one behaviour             *)
  MsgSize,   (* units of a message that one send() may split               *)
  NULL

Fd == 1..MaxFd

(* The listening socket, opened first.                                     *)
Listening == 0

ASSUME NetworkServerAssumption ==
  /\ MaxFd \in Nat
  /\ MaxMsg \in Nat
  /\ MsgSize \in Nat \ {0}
  /\ NULL \notin Addr
  /\ NULL \notin Conn
  /\ NULL \notin Fd \cup {Listening}

VARIABLES
  g_shutdown,  (* the global flag every loop polls                         *)
  process,     (* "up", or "dead" of a wild access                         *)
  \* the heap
  heap,        (* Addr -> the members of the object last built there       *)
  alive,       (* blocks that hold an object that was not deleted          *)
  ClientList,  (* head of the list                                         *)
  \* the kernel
  fds,         (* Fd -> the connection the descriptor is open on, or NULL  *)
  backlog,     (* connections waiting in the listen queue                  *)
  peer,        (* Conn -> "away", "here" or "gone"                         *)
  inbox,       (* connections with bytes the daemon has not read           *)
  stream,      (* Conn -> the units the daemon has written to it           *)
  \* the network thread
  srv, ready, curr, nxt,
  \* the capture thread
  cap, work, off, msg,
  \* history
  serial,      (* Addr -> how many clients had been inserted with it       *)
  inserted,    (* number of clients inserted so far                        *)
  cutoff,      (* value of inserted when the current broadcast began       *)
  dangled      (* clients closed while the capture thread was on them      *)

shared  == <<g_shutdown, process>>
memory  == <<heap, alive, ClientList>>
kernel  == <<fds, backlog, peer, inbox>>
server  == <<srv, ready, curr, nxt>>
capture == <<cap, work, off, msg>>
history == <<serial, inserted, cutoff, dangled>>
vars == <<shared, memory, kernel, stream, server, capture, history>>

-----------------------------------------------------------------------------
(* The objects.                                                            *)

Pointer == Addr \cup {NULL}
NetworkClient == [next : Pointer, netsock : Fd \cup {NULL}]

(* The members as the constructor leaves them before accept() succeeds.    *)
Blank == [next |-> NULL, netsock |-> NULL]

Init ==
  /\ g_shutdown = 0
  /\ process = "up"
  /\ heap = [a \in Addr |-> Blank]
  /\ alive = {}
  /\ ClientList = NULL
  /\ fds = [f \in Fd |-> NULL]
  /\ backlog = {}
  /\ peer = [c \in Conn |-> "away"]
  /\ inbox = {}
  /\ stream = [c \in Conn |-> <<>>]
  /\ srv = "top" /\ ready = {}
  /\ curr = NULL /\ nxt = NULL
  /\ cap = "idle" /\ work = NULL /\ off = 0 /\ msg = 0
  /\ serial = [a \in Addr |-> 0]
  /\ inserted = 0 /\ cutoff = 0
  /\ dangled = {}

-----------------------------------------------------------------------------
(* The peers and the rest of the process.                                  *)

PeerConnect(c) ==
  /\ peer[c] = "away"
  /\ peer' = [peer EXCEPT ![c] = "here"]
  /\ backlog' = backlog \cup {c}
  /\ UNCHANGED <<shared, memory, fds, inbox, stream, server, capture, history>>

PeerSend(c) ==
  /\ peer[c] = "here"
  /\ inbox' = inbox \cup {c}
  /\ UNCHANGED <<shared, memory, fds, backlog, peer, stream, server, capture,
                 history>>

(* End of file or reset: either way recv() then returns 0 or less.         *)
PeerClose(c) ==
  /\ peer[c] = "here"
  /\ peer' = [peer EXCEPT ![c] = "gone"]
  /\ UNCHANGED <<shared, memory, fds, backlog, inbox, stream, server, capture,
                 history>>

(* SIGTERM, SIGQUIT, SIGINT, or a fatal error of the capture thread.       *)
SetShutdown ==
  /\ g_shutdown = 0
  /\ g_shutdown' = 1
  /\ UNCHANGED <<process, memory, kernel, stream, server, capture, history>>

-----------------------------------------------------------------------------
(* Where the threads are; neither moves once the process is gone.          *)

Server(at) == process = "up" /\ srv = at
Capture(at) == process = "up" /\ cap = at

-----------------------------------------------------------------------------
(* The network thread: NetworkServer::ThreadWorker.                        *)

(* A descriptor is readable when bytes wait on it or its peer has closed.  *)
Readable(f) == fds[f] # NULL /\ (fds[f] \in inbox \/ peer[fds[f]] = "gone")

(* Every object that is not deleted is in the list at the top of the loop, *)
(* so these are the descriptors the loop over the list puts in the fd_set. *)
Watched == {heap[a].netsock : a \in alive}

(* Mutant: the result of select() is not looked at.                        *)
SelectUnchecked ==
  /\ Server("top") /\ g_shutdown = 0
  /\ ready' = {f \in Fd : f \in Watched}
                 \cup (IF backlog = {} THEN {} ELSE {Listening})
  /\ srv' = "accept"
  /\ UNCHANGED <<shared, memory, kernel, stream, curr, nxt, capture, history>>

(* The top of the loop: leave on shutdown, otherwise build the set and     *)
(* select().  A timeout and an interrupted select() change nothing.        *)
ServerSelect ==
  /\ Server("top") /\ g_shutdown = 0
  /\ ready' = {f \in Fd : f \in Watched /\ Readable(f)}
                 \cup (IF backlog = {} THEN {} ELSE {Listening})
  /\ ready' # {}
  /\ srv' = "accept"
  /\ UNCHANGED <<shared, memory, kernel, stream, curr, nxt, capture, history>>

ServerStop ==
  /\ Server("top") /\ g_shutdown = 1
  /\ srv' = "done"
  /\ UNCHANGED <<shared, memory, kernel, stream, ready, curr, nxt,
                 capture, history>>

(* InsertClient: the new object becomes the head in one pointer write.     *)
InsertClient(a, f) ==
  /\ heap' = [heap EXCEPT ![a] = [next |-> ClientList, netsock |-> f]]
  /\ alive' = alive \cup {a}
  /\ ClientList' = a
  /\ inserted' = inserted + 1
  /\ serial' = [serial EXCEPT ![a] = inserted + 1]
  /\ UNCHANGED <<cutoff, dangled>>

LowestFree(f) == fds[f] = NULL /\ \A g \in Fd : g < f => fds[g] # NULL

(* new NetworkClient: accept() takes a free block and the lowest free      *)
(* descriptor.  When TCP_NODELAY is refused the constructor throws after   *)
(* accept(): the block is given back, the descriptor is not.               *)
ServerAccept(c, a, f) ==
  /\ Server("accept") /\ Listening \in ready
  /\ c \in backlog /\ a \notin alive /\ LowestFree(f)
  /\ backlog' = backlog \ {c}
  /\ fds' = [fds EXCEPT ![f] = c]
  /\ \/ InsertClient(a, f)
     \/ UNCHANGED <<memory, history>>
  /\ curr' = ClientList'
  /\ srv' = "walk"
  /\ ready' = ready \ {Listening}
  /\ UNCHANGED <<shared, peer, inbox, stream, nxt, capture>>

(* Nobody to accept, or no descriptor left: the exception is swallowed.    *)
ServerNoAccept ==
  /\ Server("accept")
  /\ Listening \notin ready \/ \A f \in Fd : fds[f] # NULL
  /\ curr' = ClientList
  /\ srv' = "walk"
  /\ ready' = ready \ {Listening}
  /\ UNCHANGED <<shared, memory, kernel, stream, nxt, capture, history>>

(* Go on with client a, or back to the top of the loop after the last.     *)
WalkOn(a) ==
  /\ curr' = a
  /\ srv' = IF a = NULL THEN "top" ELSE "walk"
  /\ ready' = IF a = NULL THEN {} ELSE ready

(* The list has been walked, or the client's bit is clear.                 *)
ServerSkip ==
  /\ Server("walk")
  /\ \/ curr = NULL /\ WalkOn(NULL)
     \/ /\ curr # NULL /\ heap[curr].netsock \notin ready
        /\ WalkOn(heap[curr].next)
  /\ UNCHANGED <<shared, memory, kernel, stream, nxt, capture,
                 history>>

(* Mutant: the handler closes the socket at end of file, and so does the   *)
(* destructor.                                                             *)
HandlerCloses ==
  /\ Server("walk") /\ curr # NULL /\ heap[curr].netsock \in ready
  /\ Readable(heap[curr].netsock)
  /\ fds[heap[curr].netsock] \notin inbox
  /\ nxt' = heap[curr].next
  /\ srv' = "unlink"
  /\ fds' = [fds EXCEPT ![heap[curr].netsock] = NULL]
  /\ UNCHANGED <<shared, memory, backlog, peer, inbox, stream, curr, ready,
                 capture, history>>

(* NetworkHandler: recv() on a descriptor whose bit is set.  It blocks     *)
(* until there is something to read.  Bytes are read, all or some; end of  *)
(* file and an error make ThreadWorker call RemoveClient.                  *)
NetworkHandler ==
  /\ Server("walk") /\ curr # NULL /\ heap[curr].netsock \in ready
  /\ Readable(heap[curr].netsock)
  /\ LET c == fds[heap[curr].netsock]
     IN  IF c \in inbox
         THEN /\ inbox' \in {inbox, inbox \ {c}}
              /\ WalkOn(heap[curr].next)
              /\ UNCHANGED nxt
         ELSE /\ nxt' = heap[curr].next
              /\ srv' = "unlink"
              /\ UNCHANGED <<inbox, curr, ready>>
  /\ UNCHANGED <<shared, memory, fds, backlog, peer, stream,
                 capture, history>>

(* Mutants of RemoveClient: only the head is taken out, nothing is taken   *)
(* out, whatever is taken out the list is left empty.                      *)
UnlinkHeadOnly ==
  /\ Server("unlink")
  /\ ClientList' = IF curr = ClientList THEN heap[curr].next ELSE ClientList
  /\ srv' = "close"
  /\ UNCHANGED <<shared, heap, alive, kernel, stream, ready, curr, nxt,
                 capture, history>>

UnlinkNothing ==
  /\ Server("unlink")
  /\ srv' = "close"
  /\ UNCHANGED <<shared, memory, kernel, stream, ready, curr, nxt, capture,
                 history>>

UnlinkFromHead ==
  /\ Server("unlink")
  /\ ClientList' = NULL
  /\ srv' = "close"
  /\ UNCHANGED <<shared, heap, alive, kernel, stream, ready, curr, nxt,
                 capture, history>>

(* RemoveClient, first half: take the object out of the chain.             *)
Unlink ==
  /\ Server("unlink")
  /\ \/ /\ curr = ClientList
        /\ ClientList' = heap[curr].next
        /\ UNCHANGED heap
     \/ /\ curr # ClientList
        /\ \E prev \in alive :
             /\ heap[prev].next = curr
             /\ heap' = [heap EXCEPT ![prev].next = heap[curr].next]
        /\ UNCHANGED ClientList
  /\ srv' = "close"
  /\ UNCHANGED <<shared, alive, kernel, stream, ready, curr, nxt,
                 capture, history>>

(* The destructor closes the socket ...                                    *)
CloseClient ==
  /\ Server("close")
  /\ fds' = [fds EXCEPT ![heap[curr].netsock] = NULL]
  /\ dangled' = dangled \cup ({work} \cap {curr})
  /\ srv' = "delete"
  /\ UNCHANGED <<shared, memory, backlog, peer, inbox, stream, ready, curr, nxt,
                 capture, serial, inserted, cutoff>>

(* ... and the block goes back to the heap.                                *)
DeleteClient ==
  /\ Server("delete")
  /\ alive' = alive \ {curr}
  /\ WalkOn(nxt)
  /\ nxt' = NULL
  /\ UNCHANGED <<shared, heap, ClientList, kernel, stream, capture,
                 history>>

-----------------------------------------------------------------------------
(* The capture thread: BroadcastMessage and TransmitMessage.               *)

BroadcastMessage ==
  /\ Capture("idle") /\ msg < MaxMsg
  /\ msg' = msg + 1
  /\ work' = ClientList
  /\ off' = 0
  /\ cap' = IF ClientList = NULL THEN "idle" ELSE "poll"
  /\ cutoff' = inserted
  /\ UNCHANGED <<shared, memory, kernel, stream, server, serial, inserted,
                 dangled>>

(* Mutant: the flag is only looked at before the first write.              *)
GiveUpAtStart ==
  /\ Capture("poll") /\ g_shutdown = 1 /\ off = 0
  /\ cap' = "advance"
  /\ UNCHANGED <<shared, memory, kernel, stream, server, work, off, msg,
                 history>>

(* TransmitMessage gives up between two writes once shutdown is set.       *)
TransmitGiveUp ==
  /\ Capture("poll") /\ g_shutdown = 1
  /\ cap' = "advance"
  /\ UNCHANGED <<shared, memory, kernel, stream, server, work, off, msg,
                 history>>

(* select() says the descriptor can be written.  A timeout, and the error  *)
(* it returns for a descriptor that is not open, go round the loop again.  *)
TransmitReady ==
  /\ Capture("poll") /\ g_shutdown = 0
  /\ fds[heap[work].netsock] # NULL
  /\ cap' = "send"
  /\ UNCHANGED <<shared, memory, kernel, stream, server, work, off, msg,
                 history>>

(* A unit of a message: which message, which part of it.                   *)
Unit == (1..MaxMsg) \X (1..MsgSize)

Units(m, from, to) == [i \in 1..(to - from) |-> <<m, from + i>>]

(* Mutants of send(): what it returns counts for the whole message; it is  *)
(* given the size of the message, not what is left of it.                  *)
SendOnce ==
  /\ Capture("send")
  /\ LET f == heap[work].netsock
     IN  /\ fds[f] # NULL
         /\ \E upto \in (off + 1)..MsgSize :
              /\ off' = upto
              /\ stream' = IF peer[fds[f]] = "here"
                           THEN [stream EXCEPT ![fds[f]] =
                                   @ \o Units(msg, off, upto)]
                           ELSE stream
  /\ cap' = "advance"
  /\ UNCHANGED <<shared, memory, kernel, server, work, msg, history>>

SendBeyond ==
  /\ Capture("send")
  /\ LET f == heap[work].netsock
     IN  /\ fds[f] # NULL
         /\ \E upto \in (off + 1)..(off + MsgSize) :
              /\ off' = upto
              /\ cap' = IF upto = MsgSize THEN "advance" ELSE "poll"
              /\ stream' = IF peer[fds[f]] = "here"
                           THEN [stream EXCEPT ![fds[f]] =
                                   @ \o Units(msg, off, upto)]
                           ELSE stream
  /\ UNCHANGED <<shared, memory, kernel, server, work, msg, history>>

(* send() takes part of the message or all of it.  What is written to a    *)
(* peer that has gone reaches nobody, and may be refused; so is a write to *)
(* a descriptor closed since select().                                     *)
TransmitSend ==
  /\ Capture("send")
  /\ LET f == heap[work].netsock
     IN  \/ /\ fds[f] # NULL
            /\ \E upto \in (off + 1)..MsgSize :
                 /\ off' = upto
                 /\ cap' = IF upto = MsgSize THEN "advance" ELSE "poll"
                 /\ stream' = IF peer[fds[f]] = "here"
                              THEN [stream EXCEPT ![fds[f]] =
                                      @ \o Units(msg, off, upto)]
                              ELSE stream
         \/ /\ IF fds[f] = NULL THEN TRUE ELSE peer[fds[f]] = "gone"
            /\ cap' = "advance"
            /\ UNCHANGED <<off, stream>>
  /\ UNCHANGED <<shared, memory, kernel, server, work, msg, history>>

(* work = work->next.                                                      *)
BroadcastAdvance ==
  /\ Capture("advance")
  /\ work' = heap[work].next
  /\ off' = 0
  /\ cap' = IF heap[work].next = NULL THEN "idle" ELSE "poll"
  /\ UNCHANGED <<shared, memory, kernel, stream, server, msg, history>>

(* Reading a deleted object is undefined: the members are still what they  *)
(* were (the actions above), or the process dies of it.                    *)
WildAccess ==
  /\ process = "up" /\ cap # "idle" /\ work \notin alive
  /\ process' = "dead"
  /\ UNCHANGED <<g_shutdown, memory, kernel, stream, server, capture, history>>

-----------------------------------------------------------------------------
ServerStep ==
  \/ ServerSelect \/ ServerStop \/ ServerNoAccept \/ ServerSkip
  \/ \E c \in Conn, a \in Addr, f \in Fd : ServerAccept(c, a, f)
  \/ NetworkHandler \/ Unlink \/ CloseClient \/ DeleteClient

CaptureStep ==
  \/ BroadcastMessage \/ TransmitGiveUp \/ TransmitReady \/ TransmitSend
  \/ BroadcastAdvance

PeerStep == \E c \in Conn : PeerConnect(c) \/ PeerSend(c) \/ PeerClose(c)

Next == ServerStep \/ CaptureStep \/ WildAccess \/ PeerStep \/ SetShutdown

Spec == Init /\ [][Next]_vars

(* The scheduler runs both threads, and that is all that is assumed: peers *)
(* need not read, write or leave, and a write may always go unanswered.    *)
FairSpec ==
  /\ Spec
  /\ WF_vars(ServerStep)
  /\ WF_vars(TransmitGiveUp)
  /\ WF_vars(TransmitSend)
  /\ WF_vars(BroadcastAdvance)

-----------------------------------------------------------------------------
(* Every variable keeps its kind of value; an offset never passes the end  *)
(* of the message, so no write reads beyond it.                            *)
TypeOK ==
  /\ g_shutdown \in {0, 1}
  /\ process \in {"up", "dead"}
  /\ heap \in [Addr -> NetworkClient]
  /\ alive \in SUBSET Addr
  /\ ClientList \in Pointer
  /\ fds \in [Fd -> Conn \cup {NULL}]
  /\ backlog \in SUBSET Conn
  /\ peer \in [Conn -> {"away", "here", "gone"}]
  /\ inbox \in SUBSET Conn
  /\ stream \in [Conn -> Seq(Unit)]
  /\ srv \in {"top", "accept", "walk", "unlink", "close", "delete", "done"}
  /\ ready \in SUBSET (Fd \cup {Listening})
  /\ curr \in Pointer /\ nxt \in Pointer
  /\ cap \in {"idle", "poll", "send", "advance"}
  /\ work \in Pointer
  /\ off \in 0..MsgSize
  /\ msg \in 0..MaxMsg
  /\ serial \in [Addr -> Nat]
  /\ inserted \in Nat /\ cutoff \in Nat
  /\ dangled \in SUBSET Addr

(* The object RemoveClient has taken out of the chain but not yet freed.   *)
Dying == IF srv \in {"close", "delete"} THEN {curr} ELSE {}

Linked == alive \ Dying

(* The list is what InsertClient and RemoveClient mean it to be, in every  *)
(* state between their pointer writes: it starts and stays inside the      *)
(* objects that are not being deleted, each of them but the first has      *)
(* exactly one predecessor, and next always leads to a client that         *)
(* connected earlier, so the loops over the list end.                      *)
ListOK ==
  /\ ClientList \in Linked \cup {NULL}
  /\ \A a \in Linked : heap[a].next # NULL =>
       heap[a].next \in Linked /\ serial[heap[a].next] < serial[a]
  /\ \A a \in Linked : IF a = ClientList
       THEN \A b \in Linked : heap[b].next # a
       ELSE \E b \in Linked : /\ heap[b].next = a
                             /\ \A d \in Linked : heap[d].next = a => d = b

(* Each client owns an open descriptor that no other client has: close()   *)
(* in the destructor never closes a socket that was given to someone else. *)
DescriptorsOwned ==
  \A a \in alive : (srv = "delete" => a # curr) =>
    /\ heap[a].netsock \in Fd /\ fds[heap[a].netsock] # NULL
    /\ \A b \in alive : heap[b].netsock = heap[a].netsock =>
         a = b \/ (srv = "delete" /\ b = curr)

(* The network thread never calls recv() on a blocking socket that has     *)
(* nothing to read, although the fd_set it consults was filled before the  *)
(* accept and before the removals of the same round changed which client a *)
(* descriptor number means.                                                *)
NoBlockingRecv ==
  (srv = "walk" /\ curr # NULL) =>
    (heap[curr].netsock \in ready => Readable(heap[curr].netsock))

(* How far the lockless walk can be trusted: as long as the network thread *)
(* has not closed the very client the capture thread was writing to, the   *)
(* capture thread only touches objects that exist; removing any other      *)
(* client under it is harmless.                                            *)
WalkSafe == dangled = {} => work \in alive \cup {NULL}

(* One unit follows another: the rest of a message, or the next message.   *)
Follows(u, v) ==
  \/ v = <<u[1], u[2] + 1>>
  \/ u[2] = MsgSize /\ v = <<u[1] + 1, 1>>

(* Every peer receives whole messages, in order, none missing, whatever    *)
(* the partial writes, joins and departures of others.                     *)
StreamsWhole ==
  dangled = {} =>
    \A c \in Conn : LET s == stream[c] IN
      s # <<>> => /\ s[1][2] = 1
                  /\ \A i \in 1..(Len(s) - 1) : Follows(s[i], s[i + 1])

(* When BroadcastMessage returns, each client that was in the list when it *)
(* began, and is still there, has the whole message.                       *)
Delivered ==
  (cap = "idle" /\ msg > 0 /\ g_shutdown = 0 /\ dangled = {}) =>
    \A a \in Linked :
      LET c == fds[heap[a].netsock]
      IN  (serial[a] <= cutoff /\ peer[c] = "here") =>
            stream[c] # <<>> /\ stream[c][Len(stream[c])] = <<msg, MsgSize>>

(* What the peers receive, at any time and when a broadcast is over.       *)
StreamsOK == StreamsWhole /\ Delivered

(* Once shutdown is set both threads come to rest, with a peer that never  *)
(* reads, and with one whose client object was deleted under the walk.     *)
ThreadsStop ==
  (g_shutdown = 1) ~> (process = "dead" \/ (srv = "done" /\ cap = "idle"))

(* RemoveClient deletes the item it "pulled out of the linked list"; the   *)
(* capture thread should then have no use for it.                          *)
DeletedClientUnused == work \in alive \cup {NULL}
=============================================================================
