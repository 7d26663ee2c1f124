------------------------------- MODULE JsonRpc -------------------------------
(***************************************************************************)
(* The asynchronous half of jsonrpc.js, over which every page of the web   *)
(* interface talks to the server. A call goes through a queue of requests, *)
(* is in flight, and comes back through a queue of responses; one timer    *)
(* handler works both queues off. XMLHttpRequest objects are pooled and    *)
(* the requests in flight are counted. The cache of the methods of remote  *)
(* objects is left out.                                                    *)
(* JavaScript runs one event at a time: the handler stops for a callback,  *)
(* which may itself call, cancel, and call synchronously. An error status, *)
(* an unparseable answer and an exception of the server are one failure.   *)
(* Synchronous calls are whole steps; requests are known by the order of   *)
(* their submission.                                                       *)
(***************************************************************************)
EXTENDS Integers, Sequences, FiniteSets

CONSTANTS MaxCalls,   \* bound: asynchronous calls in a behaviour
          MaxActive,  \* max_req_active, 25 in the code
          MaxSpare    \* http_max_spare, 8 in the code

ASSUME RpcAssumption == /\ MaxCalls \in Nat
                        /\ MaxActive \in Nat \ {0}
                        /\ MaxSpare \in Nat \ {0}

Calls == 1 .. MaxCalls
Http == 1 .. (MaxActive + MaxSpare + 1)

VARIABLES
  next,        \* requestId
  requests,    \* async_requests
  inflight,    \* keys of async_inflight
  marked,      \* requests with the member canceled
  responses,   \* async_responses
  timeout,     \* 1 if async_timeout is set
  due,         \* 1 if the timer it stands for is still to fire
  active,      \* num_req_active
  spare,       \* http_spare
  sent,        \* requests on the network, with their XMLHttpRequest
  handler,     \* where _async_handler() is
  called,      \* history: how often each callback was called
  canceled,    \* history: calls for which cancelRequest() returned true
  failed       \* history: requests that send() refused

vars == << next, requests, inflight, marked, responses, timeout, due, active,
           spare, sent, handler, called, canceled, failed >>
queues == << requests, inflight, marked, responses >>
history == << called, canceled, failed >>

Contents(s) == { s[k] : k \in DOMAIN s }
InUse == { s[2] : s \in sent }
-----------------------------------------------------------------------------
kick_async == /\ timeout' = 1
              /\ due' = IF timeout = 0 THEN 1 ELSE due

(* The last spare object, or a new one.                                    *)
poolGetHTTPRequest ==
  IF spare # <<>> THEN spare[Len(spare)]
  ELSE CHOOSE h \in Http : h \notin InUse
poolRest == IF spare # <<>> THEN SubSeq(spare, 1, Len(spare) - 1) ELSE spare
poolReturn_always(pool, h) == Append(pool, h)
poolReturn(pool, h) == IF Len(pool) >= MaxSpare THEN pool ELSE Append(pool, h)

Init ==
  /\ next = 1 /\ requests = <<>> /\ inflight = {} /\ marked = {}
  /\ responses = <<>> /\ timeout = 0 /\ due = 0 /\ active = 0
  /\ spare = <<>> /\ sent = {} /\ handler = "off"
  /\ called = [i \in Calls |-> 0]
  /\ canceled = {} /\ failed = {}

(* Application code runs between events and in callbacks.                  *)
AppRuns == handler \in {"off", "callback"}

AsyncCall ==
  /\ AppRuns /\ next <= MaxCalls
  /\ requests' = Append(requests, next)
  /\ next' = next + 1
  /\ kick_async
  /\ UNCHANGED << inflight, marked, responses, active, spare, sent, handler,
                  history >>

(* cancelRequest(): in flight, in the queue of requests, or not found: the *)
(* queue of responses has no requestId to find a request by.               *)
Cancel(i) ==
  /\ AppRuns /\ i < next
  /\ i \in inflight \cup Contents(requests)
  /\ marked' = marked \cup {i}
  /\ canceled' = canceled \cup {i}
  /\ UNCHANGED << next, requests, inflight, responses, timeout, due, active,
                  spare, sent, handler, called, failed >>

(* A synchronous call takes an object from the pool and returns it.        *)
SyncCall ==
  /\ AppRuns
  /\ spare' = poolReturn(poolRest, poolGetHTTPRequest)
  /\ UNCHANGED << next, queues, timeout, due, active, sent, handler, history >>

Timer_set ==
  /\ handler = "off" /\ due = 1
  /\ due' = 0
  /\ handler' = "deliver"
  /\ UNCHANGED << next, queues, timeout, active, spare, sent, history >>
Timer ==
  /\ handler = "off" /\ due = 1
  /\ due' = 0 /\ timeout' = 0
  /\ handler' = "deliver"
  /\ UNCHANGED << next, queues, active, spare, sent, history >>

Deliver ==
  /\ handler = "deliver" /\ responses # <<>>
  /\ responses' = Tail(responses)
  /\ called' = [called EXCEPT ![Head(responses)] = @ + 1]
  /\ handler' = "callback"
  /\ UNCHANGED << next, requests, inflight, marked, timeout, due, active, spare,
                  sent, canceled, failed >>

(* The callback returns, or throws into toplevel_ex_handler.               *)
CallbackEnds ==
  /\ handler = "callback"
  /\ handler' = "deliver"
  /\ UNCHANGED << next, queues, timeout, due, active, spare, sent, history >>

DeliverDone ==
  /\ handler = "deliver" /\ responses = <<>>
  /\ handler' = "send"
  /\ UNCHANGED << next, queues, timeout, due, active, spare, sent, history >>

Sending_unlimited == handler = "send" /\ requests # <<>>
Sending == handler = "send" /\ requests # <<>> /\ active < MaxActive

Skip ==
  /\ Sending /\ Head(requests) \in marked
  /\ requests' = Tail(requests)
  /\ UNCHANGED << next, inflight, marked, responses, timeout, due, active,
                  spare, sent, handler, history >>

Send ==
  /\ Sending /\ Head(requests) \notin marked
  /\ requests' = Tail(requests)
  /\ inflight' = inflight \cup {Head(requests)}
  /\ active' = active + 1
  /\ sent' = sent \cup {<< Head(requests), poolGetHTTPRequest >>}
  /\ spare' = poolRest
  /\ UNCHANGED << next, marked, responses, timeout, due, handler, history >>

(* send() throws: the object and the count are given back, the entry in    *)
(* async_inflight stays, and the exception ends the handler.               *)
SendThrows ==
  /\ Sending /\ Head(requests) \notin marked
  /\ requests' = Tail(requests)
  /\ inflight' = inflight \cup {Head(requests)}
  /\ spare' = poolReturn(poolRest, poolGetHTTPRequest)
  /\ failed' = failed \cup {Head(requests)}
  /\ handler' = "off"
  /\ UNCHANGED << next, marked, responses, timeout, due, active, sent, called,
                  canceled >>

SendDone ==
  /\ handler = "send" /\ (requests = <<>> \/ active >= MaxActive)
  /\ handler' = "off"
  /\ UNCHANGED << next, queues, timeout, due, active, spare, sent, history >>

(* readyState 4: the object goes back to the pool whatever came, then the  *)
(* answer is read, and queued unless the request was canceled.             *)
Response_deleted(s) ==
  /\ handler = "off" /\ s \in sent
  /\ sent' = sent \ {s}
  /\ active' = active - 1
  /\ spare' = poolReturn(spare, s[2])
  /\ inflight' = inflight \ {s[1]}
  /\ responses' = IF s[1] \in inflight' \ marked THEN Append(responses, s[1])
                  ELSE responses
  /\ kick_async
  /\ UNCHANGED << next, requests, marked, handler, history >>
Response_unmarked(s) ==
  /\ handler = "off" /\ s \in sent
  /\ sent' = sent \ {s}
  /\ active' = active - 1
  /\ spare' = poolReturn(spare, s[2])
  /\ responses' = Append(responses, s[1])
  /\ inflight' = inflight \ {s[1]}
  /\ kick_async
  /\ UNCHANGED << next, requests, marked, handler, history >>
Response(s) ==
  /\ handler = "off" /\ s \in sent
  /\ sent' = sent \ {s}
  /\ active' = active - 1
  /\ spare' = poolReturn(spare, s[2])
  /\ responses' = IF s[1] \in inflight \ marked THEN Append(responses, s[1])
                  ELSE responses
  /\ inflight' = inflight \ {s[1]}
  /\ kick_async
  /\ UNCHANGED << next, requests, marked, handler, history >>

Handler == \/ Timer \/ Deliver \/ CallbackEnds \/ DeliverDone
           \/ Skip \/ Send \/ SendThrows \/ SendDone
Network == \E s \in sent : Response(s)
Application == AsyncCall \/ SyncCall \/ \E i \in Calls : Cancel(i)

Next == Handler \/ Network \/ Application

Spec == Init /\ [][Next]_vars

(* The browser fires timers and runs handlers to their end, callbacks      *)
(* return, and every request is answered, if only by an error.             *)
FairSpec == Spec /\ WF_vars(Handler) /\ WF_vars(Network)
-----------------------------------------------------------------------------
TypeOK ==
  /\ next \in 1 .. MaxCalls + 1
  /\ requests \in Seq(Calls) /\ responses \in Seq(Calls)
  /\ inflight \subseteq Calls /\ marked \subseteq Calls
  /\ timeout \in 0 .. 1 /\ due \in 0 .. 1 /\ active \in 0 .. MaxActive
  /\ spare \in Seq(Http) /\ sent \subseteq Calls \X Http
  /\ handler \in {"off", "deliver", "callback", "send"}
  /\ called \in [Calls -> Nat]

(* An XMLHttpRequest is in the pool once or belongs to one request, the    *)
(* pool keeps its limit, and num_req_active counts the requests on the     *)
(* network, whatever way they ended: what leaks from the count is missing  *)
(* from max_req_active for good (jsonrpc.js:787, 934).                     *)
PoolExact ==
  /\ Len(spare) <= MaxSpare
  /\ \A j, k \in DOMAIN spare : spare[j] = spare[k] => j = k
  /\ Contents(spare) \cap InUse = {}
  /\ \A s, t \in sent : (s[1] = t[1] \/ s[2] = t[2]) => s = t
  /\ active = Cardinality(sent)

(* No request or response waits without an event that takes it: a timer is *)
(* due, the handler is at work, or as many requests as are allowed are on  *)
(* the network. The exception that send() throws through the handler is    *)
(* the one case where requests are left behind (jsonrpc.js:682).           *)
NotForgotten ==
  (requests # <<>> \/ responses # <<>>) =>
     \/ due = 1 \/ handler # "off"
     \/ responses = <<>> /\ active >= MaxActive
     \/ failed # {}

(* The queues, the pool and the count agree.                               *)
Accounted == TypeOK /\ PoolExact /\ NotForgotten

(* The promise to the caller, with how a call stands.                      *)
Status == [ i \in Calls |->
              IF called[i] > 1 THEN "twice"
              ELSE IF called[i] = 1 THEN "called"
              ELSE IF i \in failed THEN "lost"
              ELSE IF i \in canceled THEN "canceled"
              ELSE IF i < next THEN "waiting" ELSE "new" ]
Promise == INSTANCE RpcCalls WITH status <- Status
Promised == Promise!Spec

(* Every call is called back, canceled or lost, unless an exception of     *)
(* send() stopped the handler before it was sent.                          *)
Settled == \A i \in Calls :
             (Status[i] = "waiting") ~> (Status[i] # "waiting" \/ failed # {})
=============================================================================
