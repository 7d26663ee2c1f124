---------------------------- MODULE JsonRpcProofs -----------------------------
(***************************************************************************)
(* What the JSON-RPC client guarantees.  First JsonRpc, for any number of  *)
(* calls and any limits of the pool and of the requests in flight: the     *)
(* pool and the count agree with the network, nothing is forgotten in a    *)
(* queue, and the client implements the promise of RpcCalls.  Then         *)
(* RpcMarshal, for every finite object graph, however wide: what arrives   *)
(* is what was sent, or an exception that is deserved.                     *)
(***************************************************************************)
EXTENDS JsonRpc, RpcMarshal, FiniteSetTheorems, WellFoundedInduction, TLAPS

Distinct(s) == \A j, k \in DOMAIN s : s[j] = s[k] => j = k

-----------------------------------------------------------------------------
(* The queues and the pool are sequences without repetition.               *)
LEMMA EmptyFacts == Contents(<<>>) = {} /\ Distinct(<<>>)
BY DEF Contents, Distinct

LEMMA AppendFacts ==
  ASSUME NEW S, NEW s \in Seq(S), NEW e \in S, Distinct(s), e \notin Contents(s)
  PROVE  /\ Append(s, e) \in Seq(S)
         /\ Len(Append(s, e)) = Len(s) + 1
         /\ Contents(Append(s, e)) = Contents(s) \cup {e}
         /\ Distinct(Append(s, e))
<1> DEFINE t == Append(s, e)
<1>1. t \in Seq(S) /\ Len(t) = Len(s) + 1 /\ Len(s) \in Nat
  OBVIOUS
<1>2. DOMAIN s = 1 .. Len(s) /\ DOMAIN t = 1 .. Len(s) + 1
  BY <1>1
<1>3. t[Len(s) + 1] = e /\ \A k \in 1 .. Len(s) : t[k] = s[k]
  OBVIOUS
<1> HIDE DEF t
<1>4. Contents(t) = Contents(s) \cup {e}
  <2>1. ASSUME NEW k \in DOMAIN t PROVE t[k] \in Contents(s) \cup {e}
    <3>1. CASE k = Len(s) + 1
      BY <3>1, <1>3
    <3>2. CASE k # Len(s) + 1
      BY <3>2, <1>1, <1>2, <1>3 DEF Contents
    <3> QED
      BY <3>1, <3>2
  <2>2. ASSUME NEW x \in Contents(s) PROVE x \in Contents(t)
    <3>1. PICK k \in DOMAIN s : x = s[k]
      BY DEF Contents
    <3>2. k \in DOMAIN t /\ x = t[k]
      BY <3>1, <1>1, <1>2, <1>3
    <3> QED
      BY <3>2 DEF Contents
  <2>3. e \in Contents(t)
    <3>1. Len(s) + 1 \in DOMAIN t
      BY <1>1, <1>2
    <3> QED
      BY <3>1, <1>3 DEF Contents
  <2> QED
    BY <2>1, <2>2, <2>3 DEF Contents
<1>5. Distinct(t)
  <2>1. \A k \in 1 .. Len(s) : t[k] # e
    BY <1>2, <1>3 DEF Contents
  <2> SUFFICES ASSUME NEW j \in DOMAIN t, NEW k \in DOMAIN t, t[j] = t[k]
               PROVE  j = k
    BY DEF Distinct
  <2>2. CASE j = Len(s) + 1 \/ k = Len(s) + 1
    BY <2>1, <2>2, <1>1, <1>2, <1>3
  <2>3. CASE j # Len(s) + 1 /\ k # Len(s) + 1
    BY <2>3, <1>1, <1>2, <1>3 DEF Distinct
  <2> QED
    BY <2>2, <2>3
<1> QED
  BY <1>1, <1>4, <1>5 DEF t

LEMMA TailFacts ==
  ASSUME NEW S, NEW s \in Seq(S), s # <<>>, Distinct(s)
  PROVE  /\ Head(s) \in S /\ Head(s) \in Contents(s)
         /\ Tail(s) \in Seq(S)
         /\ Contents(Tail(s)) = Contents(s) \ {Head(s)}
         /\ Distinct(Tail(s))
<1> DEFINE t == Tail(s)
<1>1. Len(s) \in Nat \ {0} /\ DOMAIN s = 1 .. Len(s) /\ Head(s) = s[1]
  OBVIOUS
<1>2. t \in Seq(S) /\ DOMAIN t = 1 .. Len(s) - 1
  OBVIOUS
<1>3. \A k \in 1 .. Len(s) - 1 : t[k] = s[k + 1]
  OBVIOUS
<1>4. Head(s) \in S /\ Head(s) \in Contents(s)
  BY <1>1 DEF Contents
<1> HIDE DEF t
<1>5. Contents(t) = Contents(s) \ {Head(s)}
  <2>1. ASSUME NEW k \in DOMAIN t PROVE t[k] \in Contents(s) \ {Head(s)}
    <3>1. k + 1 \in DOMAIN s /\ 1 \in DOMAIN s /\ k + 1 # 1 /\ t[k] = s[k + 1]
      BY <1>1, <1>2, <1>3
    <3>2. s[k + 1] # s[1]
      BY <3>1 DEF Distinct
    <3> QED
      BY <3>1, <3>2, <1>1 DEF Contents
  <2>2. ASSUME NEW x \in Contents(s) \ {Head(s)} PROVE x \in Contents(t)
    <3>1. PICK k \in DOMAIN s : x = s[k]
      BY DEF Contents
    <3>2. k - 1 \in DOMAIN t /\ t[k - 1] = s[k]
      BY <3>1, <1>1, <1>2, <1>3
    <3> QED
      BY <3>1, <3>2 DEF Contents
  <2> QED
    BY <2>1, <2>2 DEF Contents
<1>6. Distinct(t)
  <2> SUFFICES ASSUME NEW j \in DOMAIN t, NEW k \in DOMAIN t, t[j] = t[k]
               PROVE  j = k
    BY DEF Distinct
  <2>1. j + 1 \in DOMAIN s /\ k + 1 \in DOMAIN s /\ s[j + 1] = s[k + 1]
    BY <1>1, <1>2, <1>3
  <2>2. j + 1 = k + 1
    BY <2>1 DEF Distinct
  <2> QED
    BY <2>2, <1>1, <1>2
<1> QED
  BY <1>2, <1>4, <1>5, <1>6 DEF t

(* What is left when the last element is taken.                            *)
LEMMA FrontFacts ==
  ASSUME NEW S, NEW s \in Seq(S), s # <<>>, Distinct(s)
  PROVE  LET t == SubSeq(s, 1, Len(s) - 1) IN
         /\ s[Len(s)] \in S /\ s[Len(s)] \in Contents(s)
         /\ t \in Seq(S) /\ Len(t) = Len(s) - 1 /\ Distinct(t)
         /\ Contents(t) \subseteq Contents(s) /\ s[Len(s)] \notin Contents(t)
<1> DEFINE t == SubSeq(s, 1, Len(s) - 1)
<1>1. Len(s) \in Nat \ {0} /\ DOMAIN s = 1 .. Len(s)
  OBVIOUS
<1>2. t \in Seq(S) /\ DOMAIN t = 1 .. Len(s) - 1 /\ Len(t) = Len(s) - 1
  BY <1>1
<1>3. \A k \in 1 .. Len(s) - 1 : t[k] = s[k]
  BY <1>1
<1>4. s[Len(s)] \in S /\ s[Len(s)] \in Contents(s)
  BY <1>1 DEF Contents
<1> HIDE DEF t
<1>5. Distinct(t)
  BY <1>1, <1>2, <1>3 DEF Distinct
<1>6. Contents(t) \subseteq Contents(s)
  BY <1>1, <1>2, <1>3 DEF Contents
<1>7. s[Len(s)] \notin Contents(t)
  <2> SUFFICES ASSUME NEW k \in DOMAIN t, t[k] = s[Len(s)] PROVE FALSE
    BY DEF Contents
  <2>1. k \in DOMAIN s /\ Len(s) \in DOMAIN s /\ k # Len(s) /\ t[k] = s[k]
    BY <1>1, <1>2, <1>3
  <2> QED
    BY <2>1 DEF Distinct
<1> QED
  BY <1>2, <1>4, <1>5, <1>6, <1>7 DEF t
-----------------------------------------------------------------------------
(* Where the calls are. A request is in one place, and all are submitted.  *)
Queued == Contents(requests)
OnWire == { s[1] : s \in sent }
Answered == Contents(responses)
Called == { i \in Calls : called[i] # 0 }

Apart(A, B) == A \cap B = {}

PlacesOK ==
  /\ Distinct(requests) /\ Distinct(responses)
  /\ Apart(Queued, OnWire) /\ Apart(Queued, Answered) /\ Apart(Queued, Called)
  /\ Apart(Queued, failed)
  /\ Apart(OnWire, Answered) /\ Apart(OnWire, Called) /\ Apart(OnWire, failed)
  /\ Apart(Answered, Called) /\ Apart(Answered, failed) /\ Apart(Called, failed)
  /\ inflight = OnWire \cup failed
  /\ \A i \in Queued \cup inflight \cup Answered \cup Called \cup canceled :
       i < next
  /\ failed \subseteq Calls /\ canceled \subseteq Calls
  /\ \A i \in Calls : called[i] \in {0, 1}

(* A canceled call is marked for good, and has not been answered.          *)
CanceledOK == /\ canceled \subseteq marked
              /\ Apart(canceled, Answered) /\ Apart(canceled, Called)

(* The timer that async_timeout stands for is due; the handler only sends  *)
(* when it has delivered.                                                  *)
TimerOK == timeout = due /\ (handler = "send" => responses = <<>>)

(* An object is in the pool once or belongs to one request.                *)
PoolInv == /\ PoolExact
           /\ IsFiniteSet(sent)

IInv == TypeOK /\ PlacesOK /\ CanceledOK /\ TimerOK /\ PoolInv /\ NotForgotten
-----------------------------------------------------------------------------
(* Not every object is at work: there is one more than may be in use.      *)
LEMMA InUseFree ==
  ASSUME TypeOK, PoolInv
  PROVE  \E h \in Http : h \notin InUse
<1> SUFFICES ASSUME Http \subseteq InUse PROVE FALSE
  OBVIOUS
<1> DEFINE f == [s \in sent |-> s[2]]
<1>1. f \in Surjection(sent, InUse)
  BY DEF Surjection, InUse
<1>2. IsFiniteSet(InUse) /\ Cardinality(InUse) <= Cardinality(sent)
  BY <1>1, FS_Surjection DEF PoolInv
<1>3. Cardinality(Http) <= Cardinality(InUse)
  BY <1>2, FS_Subset
<1>4. Cardinality(Http) = MaxActive + MaxSpare + 1
  BY RpcAssumption, FS_Interval DEF Http
<1>5. Cardinality(InUse) \in Nat /\ Cardinality(sent) <= MaxActive
  BY <1>2, FS_CardinalityType DEF TypeOK, PoolInv, PoolExact
<1>6. Cardinality(sent) \in Nat
  BY FS_CardinalityType DEF PoolInv
<1> QED
  BY <1>2, <1>3, <1>4, <1>5, <1>6, RpcAssumption

(* What is taken from the pool is nobody's, and leaves room in the pool.   *)
LEMMA Take ==
  ASSUME TypeOK, PoolInv
  PROVE  /\ poolGetHTTPRequest \in Http /\ poolGetHTTPRequest \notin InUse
         /\ poolRest \in Seq(Http) /\ Distinct(poolRest)
         /\ Len(poolRest) < MaxSpare
         /\ Contents(poolRest) \subseteq Contents(spare)
         /\ poolGetHTTPRequest \notin Contents(poolRest)
<1>1. Distinct(spare) /\ Len(spare) <= MaxSpare /\ spare \in Seq(Http)
      /\ Contents(spare) \cap InUse = {}
  BY DEF PoolInv, PoolExact, TypeOK, Distinct
<1>2. CASE spare = <<>>
  <2>1. poolRest = <<>> /\ poolGetHTTPRequest = CHOOSE h \in Http : h \notin InUse
    BY <1>2 DEF poolRest, poolGetHTTPRequest
  <2>2. poolGetHTTPRequest \in Http /\ poolGetHTTPRequest \notin InUse
    BY <2>1, InUseFree
  <2> QED
    BY <2>1, <2>2, <1>2, EmptyFacts, RpcAssumption
<1>3. CASE spare # <<>>
  <2>1. /\ poolRest = SubSeq(spare, 1, Len(spare) - 1)
        /\ poolGetHTTPRequest = spare[Len(spare)]
    BY <1>3 DEF poolRest, poolGetHTTPRequest
  <2>2. Len(spare) \in Nat
    BY <1>1
  <2> QED
    BY <2>1, <2>2, <1>1, <1>3, FrontFacts, RpcAssumption
<1> QED
  BY <1>2, <1>3

(* What is given back is kept once, or dropped when the pool is full.      *)
LEMMA GiveBack ==
  ASSUME NEW pool \in Seq(Http), Len(pool) <= MaxSpare, Distinct(pool),
         NEW h \in Http, h \notin Contents(pool)
  PROVE  /\ poolReturn(pool, h) \in Seq(Http)
         /\ Len(poolReturn(pool, h)) <= MaxSpare
         /\ Distinct(poolReturn(pool, h))
         /\ Contents(poolReturn(pool, h)) \subseteq Contents(pool) \cup {h}
<1>1. Len(pool) \in Nat
  OBVIOUS
<1>2. CASE Len(pool) >= MaxSpare
  BY <1>2 DEF poolReturn
<1>3. CASE ~ (Len(pool) >= MaxSpare)
  <2>1. poolReturn(pool, h) = Append(pool, h)
    BY <1>3 DEF poolReturn
  <2> QED
    BY <2>1, <1>1, <1>3, AppendFacts, RpcAssumption
<1> QED
  BY <1>2, <1>3

(* The pool and the count after each way of using them.                    *)
LEMMA PoolStep ==
  ASSUME TypeOK, PlacesOK, PoolInv, [Next]_vars
  PROVE  /\ PoolInv' /\ active' \in 0 .. MaxActive
         /\ spare' \in Seq(Http) /\ sent' \subseteq Calls \X Http
<1> DEFINE h == poolGetHTTPRequest
<1>1. /\ Distinct(spare) /\ Len(spare) <= MaxSpare /\ spare \in Seq(Http)
      /\ Contents(spare) \cap InUse = {} /\ active = Cardinality(sent)
      /\ active \in 0 .. MaxActive /\ sent \subseteq Calls \X Http
      /\ IsFiniteSet(sent)
      /\ \A s, t \in sent : (s[1] = t[1] \/ s[2] = t[2]) => s = t
  BY DEF PoolInv, PoolExact, TypeOK, Distinct
<1>2. ASSUME UNCHANGED << active, spare, sent >>
      PROVE  /\ PoolInv' /\ active' \in 0 .. MaxActive
             /\ spare' \in Seq(Http) /\ sent' \subseteq Calls \X Http
  BY <1>1, <1>2 DEF PoolInv, PoolExact, InUse, Contents
<1>3. ASSUME UNCHANGED << active, sent >>,
             spare' = poolReturn(poolRest, poolGetHTTPRequest)
      PROVE  /\ PoolInv' /\ active' \in 0 .. MaxActive
             /\ spare' \in Seq(Http) /\ sent' \subseteq Calls \X Http
  <2>1. /\ spare' \in Seq(Http) /\ Len(spare') <= MaxSpare /\ Distinct(spare')
        /\ Contents(spare') \subseteq Contents(poolRest) \cup {h}
    BY <1>3, Take, GiveBack, RpcAssumption
  <2>2. InUse' = InUse
    BY <1>3 DEF InUse
  <2>3. Contents(spare') \cap InUse = {}
    BY <2>1, <1>1, Take
  <2> QED
    BY <1>1, <1>3, <2>1, <2>2, <2>3 DEF PoolInv, PoolExact, Distinct, Contents
<1>4. CASE Send
  <2> DEFINE c == Head(requests)
  <2>1. c \in Calls /\ c \in Queued /\ active < MaxActive
    BY <1>4, TailFacts DEF Send, Sending, TypeOK, PlacesOK, Queued
  <2>2. /\ sent' = sent \cup {<< c, h >>} /\ spare' = poolRest
        /\ active' = active + 1
    BY <1>4 DEF Send
  <2>3. h \in Http /\ h \notin InUse /\ h \notin Contents(poolRest)
    BY Take
  <2>4. c \notin OnWire
    BY <2>1 DEF PlacesOK, Apart
  <2>5. << c, h >> \notin sent
    BY <2>4 DEF OnWire
  <2>6. IsFiniteSet(sent') /\ Cardinality(sent') = Cardinality(sent) + 1
    BY <2>2, <2>5, <1>1, FS_AddElement
  <2>7. InUse' = InUse \cup {h}
    <3>1. { s[2] : s \in sent \cup {<< c, h >>} } = { s[2] : s \in sent } \cup {h}
      <4> HIDE DEF c, h
      <4>1. << c, h >>[2] = h
        OBVIOUS
      <4> QED
        BY <4>1, ZenonT(30)
    <3> QED
      BY <2>2, <3>1, Zenon DEF InUse
  <2>8. \A s, t \in sent' : (s[1] = t[1] \/ s[2] = t[2]) => s = t
    BY <2>2, <2>3, <2>4, <1>1 DEF InUse, OnWire
  <2>9. Contents(spare') \cap InUse' = {}
    BY <2>2, <2>3, <2>7, <1>1, Take
  <2>10. spare' \in Seq(Http) /\ Len(spare') <= MaxSpare /\ Distinct(spare')
    BY <2>2, Take, RpcAssumption
  <2>11. active' \in 0 .. MaxActive /\ sent' \subseteq Calls \X Http
    BY <1>1, <2>1, <2>2, <2>3, RpcAssumption
  <2> QED
    BY <1>1, <2>2, <2>6, <2>8, <2>9, <2>10, <2>11
    DEF PoolInv, PoolExact, Distinct, Contents
<1>5. CASE Network
  <2>1. PICK s \in sent : Response(s)
    BY <1>5 DEF Network
  <2>2. /\ sent' = sent \ {s} /\ spare' = poolReturn(spare, s[2])
        /\ active' = active - 1
    BY <2>1 DEF Response
  <2>3. s[2] \in Http /\ s[2] \in InUse /\ s[2] \notin Contents(spare)
    BY <1>1 DEF InUse
  <2>4. IsFiniteSet(sent') /\ Cardinality(sent') = Cardinality(sent) - 1
    BY <2>2, <1>1, FS_RemoveElement
  <2>5. Cardinality(sent') \in Nat
    BY <2>4, FS_CardinalityType
  <2>6. InUse' \subseteq InUse \ {s[2]}
    BY <2>2, <1>1 DEF InUse
  <2>7. /\ spare' \in Seq(Http) /\ Len(spare') <= MaxSpare /\ Distinct(spare')
        /\ Contents(spare') \subseteq Contents(spare) \cup {s[2]}
    BY <2>2, <2>3, <1>1, GiveBack
  <2>8. Contents(spare') \cap InUse' = {}
    BY <2>6, <2>7, <1>1
  <2>9. active' \in 0 .. MaxActive /\ active' = Cardinality(sent')
    BY <1>1, <2>2, <2>4, <2>5, RpcAssumption
  <2>10. sent' \subseteq sent
    BY <2>2
  <2> QED
    BY <1>1, <2>4, <2>7, <2>8, <2>9, <2>10
    DEF PoolInv, PoolExact, Distinct, Contents
<1>6. CASE SyncCall
  BY <1>3, <1>6 DEF SyncCall
<1>7. CASE SendThrows
  BY <1>3, <1>7 DEF SendThrows
<1>8. CASE \/ Timer \/ Deliver \/ CallbackEnds \/ DeliverDone \/ Skip \/ SendDone
  BY <1>2, <1>8 DEF Timer, Deliver, CallbackEnds, DeliverDone, Skip, SendDone
<1>9. CASE AsyncCall \/ \E i \in Calls : Cancel(i)
  BY <1>2, <1>9 DEF AsyncCall, Cancel
<1>10. CASE UNCHANGED vars
  BY <1>2, <1>10 DEF vars
<1> QED
  BY <1>4, <1>5, <1>6, <1>7, <1>8, <1>9, <1>10 DEF Next, Handler, Application
-----------------------------------------------------------------------------
(* The places after each step.                                             *)
LEMMA PlacesStep ==
  ASSUME TypeOK, PlacesOK, CanceledOK, PoolInv, [Next]_vars
  PROVE  /\ PlacesOK' /\ CanceledOK'
         /\ requests' \in Seq(Calls) /\ responses' \in Seq(Calls)
<1> USE DEF Apart, Queued, OnWire, Answered, Called
<1>1. /\ requests \in Seq(Calls) /\ responses \in Seq(Calls)
      /\ inflight \subseteq Calls /\ marked \subseteq Calls
      /\ next \in 1 .. MaxCalls + 1 /\ called \in [Calls -> Nat]
  BY DEF TypeOK
<1>2. Queued \subseteq Calls /\ Answered \subseteq Calls
  BY <1>1 DEF Contents
<1>3. ASSUME UNCHANGED << next, requests, responses, inflight, marked, sent,
                         called, failed, canceled >>
      PROVE  /\ PlacesOK' /\ CanceledOK'
             /\ requests' \in Seq(Calls) /\ responses' \in Seq(Calls)
  <2>1. Queued' = Queued /\ Answered' = Answered /\ OnWire' = OnWire /\ Called' = Called
    BY <1>3 DEF Contents
  <2> HIDE DEF Queued, OnWire, Answered, Called
  <2> QED
    BY <1>1, <1>3, <2>1 DEF PlacesOK, CanceledOK, Distinct
<1>4. CASE AsyncCall
  <2>1. next \in Calls /\ next \notin Queued \cup OnWire \cup failed \cup Answered
                                     \cup Called \cup canceled
    <3> HIDE DEF Queued, OnWire, Answered, Called
    <3>1. next \in Calls
      BY <1>1, <1>4, RpcAssumption DEF AsyncCall, Calls
    <3>2. \A i \in Queued \cup inflight \cup Answered \cup Called \cup canceled : i # next
      BY <1>1 DEF PlacesOK
    <3>3. inflight = OnWire \cup failed
      BY DEF PlacesOK
    <3> QED
      BY <3>1, <3>2, <3>3
  <2>2. /\ requests' = Append(requests, next) /\ next' = next + 1
        /\ UNCHANGED << inflight, marked, responses, sent, called, canceled,
                        failed >>
    BY <1>4 DEF AsyncCall, history
  <2>3. /\ requests' \in Seq(Calls) /\ Distinct(requests')
        /\ Queued' = Queued \cup {next}
    BY <1>1, <2>1, <2>2, AppendFacts DEF PlacesOK
  <2>4. Answered' = Answered /\ OnWire' = OnWire /\ Called' = Called
    BY <2>2 DEF Contents
  <2>5. \A i \in Calls : i < next => i < next'
    BY <1>1, <2>2 DEF Calls
  <2>6. next < next'
    BY <1>1, <2>2
  <2> HIDE DEF Queued, OnWire, Answered, Called
  <2>7. \A i \in Queued' \cup inflight' \cup Answered' \cup Called' \cup canceled' :
          i < next'
    <3>1. Called \subseteq Calls /\ canceled \subseteq Calls
      BY DEF PlacesOK, Called
    <3> QED
      BY <1>1, <1>2, <2>2, <2>3, <2>4, <2>5, <2>6, <3>1 DEF PlacesOK
  <2>8. PlacesOK'
    BY <2>1, <2>2, <2>3, <2>4, <2>7 DEF PlacesOK, Distinct
  <2> QED
    BY <1>1, <2>2, <2>3, <2>4, <2>8 DEF CanceledOK
<1>5. CASE \E i \in Calls : Cancel(i)
  <2>1. PICK i \in Calls : Cancel(i)
    BY <1>5
  <2>2. /\ marked' = marked \cup {i} /\ canceled' = canceled \cup {i} /\ i < next
        /\ i \in inflight \cup Queued
        /\ UNCHANGED << next, requests, inflight, responses, sent, called,
                        failed >>
    BY <2>1 DEF Cancel
  <2>3. i \notin Answered /\ i \notin Called
    BY <2>2 DEF PlacesOK
  <2>4. Queued' = Queued /\ Answered' = Answered /\ OnWire' = OnWire /\ Called' = Called
    BY <2>2 DEF Contents
  <2> HIDE DEF Queued, OnWire, Answered, Called
  <2> QED
    BY <1>1, <2>2, <2>3, <2>4 DEF PlacesOK, CanceledOK, Distinct
<1>6. CASE Deliver
  <2> DEFINE c == Head(responses)
  <2>1. /\ responses # <<>> /\ responses' = Tail(responses)
        /\ called' = [called EXCEPT ![c] = @ + 1]
        /\ UNCHANGED << next, requests, inflight, marked, sent, canceled,
                        failed >>
    BY <1>6 DEF Deliver
  <2>2. /\ c \in Calls /\ c \in Answered /\ responses' \in Seq(Calls)
        /\ Answered' = Answered \ {c} /\ Distinct(responses')
    BY <1>1, <2>1, TailFacts DEF PlacesOK
  <2>3. called[c] = 0
    BY <2>2 DEF PlacesOK
  <2>4. called'[c] = 1 /\ \A i \in Calls : i # c => called'[i] = called[i]
    BY <1>1, <2>1, <2>2, <2>3
  <2>5. Called' = Called \cup {c}
    BY <2>2, <2>4
  <2>6. \A i \in Calls : called'[i] \in {0, 1}
    BY <2>4 DEF PlacesOK
  <2>7. Queued' = Queued /\ OnWire' = OnWire
    BY <2>1 DEF Contents
  <2> HIDE DEF Queued, OnWire, Answered, Called, c
  <2> QED
    BY <1>1, <2>1, <2>2, <2>5, <2>6, <2>7 DEF PlacesOK, CanceledOK, Distinct
<1>7. CASE Skip \/ Send \/ SendThrows
  <2> DEFINE c == Head(requests)
  <2>1. /\ requests # <<>> /\ requests' = Tail(requests)
        /\ UNCHANGED << next, marked, responses, called, canceled >>
    BY <1>7 DEF Skip, Send, SendThrows, Sending, history
  <2>2. /\ c \in Calls /\ c \in Queued /\ requests' \in Seq(Calls)
        /\ Queued' = Queued \ {c} /\ Distinct(requests')
    BY <1>1, <2>1, TailFacts DEF PlacesOK
  <2>3. Answered' = Answered /\ Called' = Called
    BY <2>1 DEF Contents
  <2>4. CASE Skip
    <3>1. UNCHANGED << inflight, sent, failed >>
      BY <2>4 DEF Skip, history
    <3>2. OnWire' = OnWire
      BY <3>1
    <3> HIDE DEF Queued, OnWire, Answered, Called, c
    <3> QED
      BY <1>1, <2>1, <2>2, <2>3, <3>1, <3>2 DEF PlacesOK, CanceledOK, Distinct
  <2>5. CASE Send
    <3>1. /\ inflight' = inflight \cup {c} /\ failed' = failed
          /\ sent' = sent \cup {<< c, poolGetHTTPRequest >>}
      BY <2>5 DEF Send, history
    <3>2. OnWire' = OnWire \cup {c}
      <4> DEFINE h == poolGetHTTPRequest
      <4>1. { s[1] : s \in sent \cup {<< c, h >>} } = { s[1] : s \in sent } \cup {c}
        <5> HIDE DEF c, h
        <5>1. << c, h >>[1] = c
          OBVIOUS
        <5> QED
          BY <5>1, ZenonT(30)
      <4> QED
        BY <3>1, <4>1, Zenon
    <3> HIDE DEF Queued, OnWire, Answered, Called, c
    <3> QED
      BY <1>1, <2>1, <2>2, <2>3, <3>1, <3>2 DEF PlacesOK, CanceledOK, Distinct
  <2>6. CASE SendThrows
    <3>1. /\ inflight' = inflight \cup {c} /\ failed' = failed \cup {c}
          /\ sent' = sent
      BY <2>6 DEF SendThrows
    <3>2. OnWire' = OnWire
      BY <3>1
    <3> HIDE DEF Queued, OnWire, Answered, Called, c
    <3> QED
      BY <1>1, <2>1, <2>2, <2>3, <3>1, <3>2 DEF PlacesOK, CanceledOK, Distinct
  <2> QED
    BY <1>7, <2>4, <2>5, <2>6
<1>8. CASE Network
  <2>1. PICK s \in sent : Response(s)
    BY <1>8 DEF Network
  <2> DEFINE c == s[1]
  <2>2. /\ sent' = sent \ {s} /\ inflight' = inflight \ {c}
        /\ responses' = IF c \in inflight \ marked THEN Append(responses, c)
                        ELSE responses
        /\ UNCHANGED << next, requests, marked, called, canceled, failed >>
    BY <2>1 DEF Response, history
  <2>3. c \in OnWire /\ c \in inflight /\ c \in Calls
    BY <1>1 DEF PlacesOK
  <2>4. OnWire' = OnWire \ {c}
    BY <2>2 DEF PoolInv, PoolExact
  <2>5. Queued' = Queued /\ Called' = Called
    BY <2>2 DEF Contents
  <2>6. c \notin Answered /\ c \notin failed /\ Distinct(responses)
    BY <2>3 DEF PlacesOK
  <2>7. /\ responses' \in Seq(Calls) /\ Distinct(responses')
        /\ \/ Answered' = Answered
           \/ c \notin marked /\ Answered' = Answered \cup {c}
    <3>1. CASE c \in marked
      BY <1>1, <2>2, <2>6, <3>1 DEF Contents
    <3>2. CASE c \notin marked
      <4>1. responses' = Append(responses, c)
        BY <2>2, <2>3, <3>2
      <4> QED
        BY <1>1, <2>3, <2>6, <3>2, <4>1, AppendFacts
    <3> QED
      BY <3>1, <3>2
  <2> HIDE DEF Queued, OnWire, Answered, Called, c
  <2>8. inflight' = OnWire' \cup failed'
    BY <2>2, <2>4, <2>6 DEF PlacesOK
  <2>9. PlacesOK'
    BY <1>1, <2>2, <2>3, <2>4, <2>5, <2>6, <2>7, <2>8 DEF PlacesOK, Distinct
  <2>10. CanceledOK'
    BY <2>2, <2>3, <2>5, <2>7 DEF CanceledOK, PlacesOK
  <2> QED
    BY <1>1, <2>2, <2>7, <2>9, <2>10
<1>9. CASE \/ Timer \/ CallbackEnds \/ DeliverDone \/ SendDone \/ SyncCall
           \/ UNCHANGED vars
  BY <1>3, <1>9 DEF Timer, CallbackEnds, DeliverDone, SendDone, SyncCall, queues,
     history, vars
<1> QED
  BY <1>4, <1>5, <1>6, <1>7, <1>8, <1>9 DEF Next, Handler, Application
-----------------------------------------------------------------------------
(* The types after each step, those of the queues and the pool included.   *)
LEMMA TypeStep ==
  ASSUME TypeOK, PlacesOK, CanceledOK, PoolInv, [Next]_vars
  PROVE  TypeOK'
<1>1. /\ active' \in 0 .. MaxActive /\ spare' \in Seq(Http)
      /\ sent' \subseteq Calls \X Http
  BY PoolStep
<1>2. requests' \in Seq(Calls) /\ responses' \in Seq(Calls)
  BY PlacesStep
<1>3. inflight' \subseteq Calls
  <2>1. PlacesOK'
    BY PlacesStep
  <2>2. OnWire' \subseteq Calls
    BY <1>1 DEF OnWire
  <2> QED
    BY <2>1, <2>2 DEF PlacesOK
<1>4. /\ next \in 1 .. MaxCalls + 1 /\ marked \subseteq Calls
      /\ timeout \in 0 .. 1 /\ due \in 0 .. 1 /\ called \in [Calls -> Nat]
      /\ handler \in {"off", "deliver", "callback", "send"}
      /\ requests \in Seq(Calls) /\ responses \in Seq(Calls)
  BY DEF TypeOK
<1>5. MaxCalls \in Nat
  BY RpcAssumption
<1> DEFINE Rest == /\ next' \in 1 .. MaxCalls + 1 /\ marked' \subseteq Calls
                   /\ timeout' \in 0 .. 1 /\ due' \in 0 .. 1
                   /\ called' \in [Calls -> Nat]
                   /\ handler' \in {"off", "deliver", "callback", "send"}
<1> SUFFICES Rest
  BY <1>1, <1>2, <1>3 DEF TypeOK
<1>6. CASE AsyncCall
  BY <1>4, <1>5, <1>6 DEF AsyncCall, kick_async, history
<1>7. CASE Network
  BY <1>4, <1>7 DEF Network, Response, kick_async, history
<1>8. CASE Deliver
  <2>1. Head(responses) \in Calls
    BY <1>4, <1>8 DEF Deliver
  <2> QED
    BY <1>4, <1>8, <2>1 DEF Deliver
<1>9. CASE SyncCall \/ \E i \in Calls : Cancel(i)
  BY <1>4, <1>9 DEF SyncCall, Cancel, queues, history
<1>10. CASE \/ Timer \/ CallbackEnds \/ DeliverDone \/ Skip \/ Send \/ SendThrows
            \/ SendDone
  BY <1>4, <1>10
  DEF Timer, CallbackEnds, DeliverDone, Skip, Send, SendThrows, SendDone,
      Sending, queues, history
<1>11. CASE UNCHANGED vars
  BY <1>4, <1>11 DEF vars
<1> QED
  BY <1>6, <1>7, <1>8, <1>9, <1>10, <1>11 DEF Next, Handler, Application

LEMMA TimerStep ==
  ASSUME TypeOK, TimerOK, [Next]_vars
  PROVE  TimerOK'
<1>1. timeout \in 0 .. 1 /\ due \in 0 .. 1
  BY DEF TypeOK
<1>2. CASE AsyncCall \/ Network
  BY <1>1, <1>2 DEF TimerOK, AsyncCall, AppRuns, Network, Response, kick_async
<1>3. CASE SyncCall \/ \E i \in Calls : Cancel(i)
  BY <1>3 DEF TimerOK, SyncCall, Cancel, AppRuns, queues
<1>4. CASE \/ Timer \/ Deliver \/ CallbackEnds \/ DeliverDone \/ Skip \/ Send
           \/ SendThrows \/ SendDone
  BY <1>4
  DEF TimerOK, Timer, Deliver, CallbackEnds, DeliverDone, Skip, Send,
      SendThrows, SendDone, Sending, queues
<1>5. CASE UNCHANGED vars
  BY <1>5 DEF TimerOK, vars
<1> QED
  BY <1>2, <1>3, <1>4, <1>5 DEF Next, Handler, Application

(* Who fills a queue sets the timer; the handler stops only with its work  *)
(* done, with enough on the network, or with an exception.                 *)
LEMMA NotForgottenStep ==
  ASSUME TypeOK, TimerOK, NotForgotten, [Next]_vars
  PROVE  NotForgotten'
<1>1. timeout \in 0 .. 1 /\ due \in 0 .. 1
  BY DEF TypeOK
<1>2. CASE AsyncCall \/ Network
  <2>1. due' = 1
    BY <1>1, <1>2 DEF TimerOK, AsyncCall, Network, Response, kick_async
  <2> QED
    BY <2>1 DEF NotForgotten
<1>3. CASE SyncCall \/ \E i \in Calls : Cancel(i)
  BY <1>3 DEF NotForgotten, SyncCall, Cancel, queues, history
<1>4. CASE Timer \/ Deliver \/ CallbackEnds \/ DeliverDone \/ Skip \/ Send
  <2>1. handler' # "off"
    BY <1>4
    DEF Timer, Deliver, CallbackEnds, DeliverDone, Skip, Send, Sending
  <2> QED
    BY <2>1 DEF NotForgotten
<1>5. CASE SendThrows
  <2>1. failed' # {}
    BY <1>5 DEF SendThrows
  <2> QED
    BY <2>1 DEF NotForgotten
<1>6. CASE SendDone
  BY <1>6 DEF NotForgotten, TimerOK, SendDone, queues, history
<1>7. CASE UNCHANGED vars
  BY <1>7 DEF NotForgotten, vars
<1> QED
  BY <1>2, <1>3, <1>4, <1>5, <1>6, <1>7 DEF Next, Handler, Application
-----------------------------------------------------------------------------
LEMMA Start == Init => IInv
<1> SUFFICES ASSUME Init PROVE IInv
  OBVIOUS
<1>1. Contents(<<>>) = {} /\ Distinct(<<>>)
  BY EmptyFacts
<1>2. /\ Queued = {} /\ OnWire = {} /\ Answered = {} /\ Called = {} /\ InUse = {}
      /\ Contents(spare) = {}
  BY <1>1 DEF Init, Queued, OnWire, Answered, Called, InUse
<1>3. TypeOK
  BY RpcAssumption DEF Init, TypeOK
<1>4. PlacesOK /\ CanceledOK
  BY <1>1, <1>2 DEF Init, PlacesOK, CanceledOK, Apart
<1>5. PoolInv
  BY <1>2, FS_EmptySet, RpcAssumption DEF Init, PoolInv, PoolExact
<1> QED
  BY <1>3, <1>4, <1>5 DEF Init, IInv, TimerOK, NotForgotten

(* The whole invariant.                                                    *)
THEOREM ClientCorrect == Spec => []IInv
<1>1. ASSUME IInv, [Next]_vars PROVE IInv'
  BY <1>1, TypeStep, PlacesStep, TimerStep, PoolStep, NotForgottenStep DEF IInv
<1> QED
  BY <1>1, Start, PTL DEF Spec

(* The pool keeps its limit and its objects apart, num_req_active counts   *)
(* the requests on the network, and what waits in a queue has an event     *)
(* that takes it (jsonrpc.js:682, 787, 934).                               *)
THEOREM AccountedCorrect == Spec => []Accounted
<1>1. IInv => Accounted
  BY DEF IInv, PoolInv, Accounted
<1> QED
  BY <1>1, ClientCorrect, PTL
-----------------------------------------------------------------------------
(* The client implements the promise: each step is a step of RpcCalls for  *)
(* the one call it is about, or none.                                      *)
LEMMA StatusChange ==
  ASSUME NEW c \in Calls,
         \A i \in Calls : i # c => Status'[i] = Status[i]
  PROVE  Status' = [Status EXCEPT ![c] = Status'[c]]
BY DEF Status

LEMMA PromiseStep ==
  ASSUME IInv, [Next]_vars
  PROVE  [Promise!Next]_Status
<1>1. /\ TypeOK /\ PlacesOK /\ CanceledOK
      /\ requests \in Seq(Calls) /\ responses \in Seq(Calls)
      /\ next \in 1 .. MaxCalls + 1 /\ called \in [Calls -> Nat]
  BY DEF IInv, TypeOK
<1>2. ASSUME UNCHANGED << next, called, failed, canceled >>
      PROVE  UNCHANGED Status
  BY <1>2 DEF Status
<1>3. CASE AsyncCall
  <2>1. /\ next \in Calls /\ next' = next + 1
        /\ UNCHANGED << called, failed, canceled >>
    BY <1>1, <1>3, RpcAssumption DEF AsyncCall, history, Calls
  <2>2. called[next] = 0 /\ next \notin failed /\ next \notin canceled
    <3>1. next \notin inflight \cup Called \cup canceled
      BY <1>1 DEF PlacesOK
    <3> QED
      BY <2>1, <3>1, <1>1 DEF PlacesOK, Called
  <2>3. Status[next] = "new" /\ Status'[next] = "waiting"
    BY <1>1, <2>1, <2>2 DEF Status
  <2>4. ASSUME NEW i \in Calls, i # next PROVE Status'[i] = Status[i]
    <3>1. i < next <=> i < next'
      BY <1>1, <2>1, <2>4 DEF Calls
    <3> QED
      BY <2>1, <3>1 DEF Status
  <2>5. Promise!Submit(next)
    BY <2>1, <2>3, <2>4, StatusChange DEF Promise!Submit, Promise!Becomes
  <2> QED
    BY <2>1, <2>5 DEF Promise!Next
<1>4. CASE \E i \in Calls : Cancel(i)
  <2>1. PICK c \in Calls : Cancel(c)
    BY <1>4
  <2>2. /\ canceled' = canceled \cup {c} /\ c < next
        /\ c \in inflight \cup Queued
        /\ UNCHANGED << next, called, failed >>
    BY <2>1 DEF Cancel, Queued
  <2>3. called[c] = 0
    BY <1>1, <2>2 DEF PlacesOK, Apart, Called
  <2>4. ASSUME NEW i \in Calls, i # c PROVE Status'[i] = Status[i]
    BY <2>2, <2>4 DEF Status
  <2>5. CASE c \in failed \/ c \in canceled
    <3>1. Status'[c] = Status[c]
      BY <2>2, <2>3, <2>5 DEF Status
    <3>2. Status' = Status
      BY <2>4, <3>1 DEF Status
    <3> QED
      BY <3>2
  <2>6. CASE c \notin failed /\ c \notin canceled
    <3>1. Status[c] = "waiting" /\ Status'[c] = "canceled"
      BY <2>2, <2>3, <2>6 DEF Status
    <3>2. Promise!Cancel(c)
      BY <2>4, <3>1, StatusChange DEF Promise!Cancel, Promise!Becomes
    <3> QED
      BY <3>2 DEF Promise!Next
  <2> QED
    BY <2>5, <2>6
<1>5. CASE Deliver
  <2> DEFINE c == Head(responses)
  <2>1. /\ responses # <<>> /\ called' = [called EXCEPT ![c] = @ + 1]
        /\ UNCHANGED << next, failed, canceled >>
    BY <1>5 DEF Deliver
  <2>2. c \in Calls /\ c \in Answered
    BY <1>1, <2>1, TailFacts DEF PlacesOK, Answered
  <2>3. called[c] = 0 /\ c \notin failed /\ c \notin canceled /\ c < next
    BY <1>1, <2>2 DEF PlacesOK, CanceledOK, Apart, Called
  <2>4. called'[c] = 1 /\ \A i \in Calls : i # c => called'[i] = called[i]
    BY <1>1, <2>1, <2>2, <2>3
  <2> HIDE DEF c
  <2>5. Status[c] = "waiting" /\ Status'[c] = "called"
    BY <2>2, <2>3, <2>4 DEF Status
  <2>6. \A i \in Calls : i # c => Status'[i] = Status[i]
    BY <2>1, <2>4 DEF Status
  <2>7. Promise!Callback(c)
    BY <2>2, <2>5, <2>6, StatusChange DEF Promise!Callback, Promise!Becomes
  <2> QED
    BY <2>2, <2>7 DEF Promise!Next
<1>6. CASE SendThrows
  <2> DEFINE c == Head(requests)
  <2>1. /\ requests # <<>> /\ failed' = failed \cup {c} /\ c \notin marked
        /\ UNCHANGED << next, called, canceled >>
    BY <1>6 DEF SendThrows, Sending
  <2>2. c \in Calls /\ c \in Queued
    BY <1>1, <2>1, TailFacts DEF PlacesOK, Queued
  <2>3. called[c] = 0 /\ c \notin failed /\ c \notin canceled /\ c < next
    BY <1>1, <2>1, <2>2 DEF PlacesOK, CanceledOK, Apart, Called
  <2> HIDE DEF c
  <2>4. Status[c] = "waiting" /\ Status'[c] = "lost"
    BY <2>1, <2>2, <2>3 DEF Status
  <2>5. \A i \in Calls : i # c => Status'[i] = Status[i]
    BY <2>1 DEF Status
  <2>6. Promise!Lose(c)
    BY <2>2, <2>4, <2>5, StatusChange DEF Promise!Lose, Promise!Becomes
  <2> QED
    BY <2>2, <2>6 DEF Promise!Next
<1>7. CASE \/ Timer \/ CallbackEnds \/ DeliverDone \/ Skip \/ Send \/ SendDone
           \/ Network \/ SyncCall \/ UNCHANGED vars
  BY <1>2, <1>7
  DEF Timer, CallbackEnds, DeliverDone, Skip, Send, SendDone, Network, Response,
      SyncCall, history, vars
<1> QED
  BY <1>3, <1>4, <1>5, <1>6, <1>7 DEF Next, Handler, Application

(* A callback is called at most once, never after cancelRequest() said     *)
(* that the call is canceled, and never for a request that was not sent    *)
(* (jsonrpc.js:670, 698).                                                  *)
THEOREM PromiseKept == Spec => Promised
<1>1. Init => Promise!Init
  BY DEF Init, Promise!Init, Status
<1>2. IInv /\ [Next]_vars => [Promise!Next]_Status
  BY PromiseStep
<1> QED
  BY <1>1, <1>2, ClientCorrect, PTL DEF Spec, Promised, Promise!Spec

-----------------------------------------------------------------------------
(* RpcMarshal.  Induction over paths goes by the least counterexample.     *)

(* A set of numbers that is not empty has a least one.                     *)
LEMMA NatMin ==
  ASSUME NEW T \in SUBSET Nat, T # {}
  PROVE  \E x \in T : \A y \in T : x <= y
<1> DEFINE R == {ss \in Nat \X Nat : ss[1] < ss[2]}
<1>1. IsWellFoundedOn(R, Nat)
  BY NatLessThanWellFounded, Zenon DEF OpToRel
<1>2. PICK x \in T : \A y \in T : ~(<<y, x>> \in R)
  <2> HIDE DEF R
  <2> QED
    BY <1>1, WFMin, Zenon
<1>3. ASSUME NEW y \in T PROVE x <= y
  <2>1. <<y, x>> \notin R
    BY <1>2
  <2> QED
    BY <2>1
<1> QED
  BY <1>3

(* The places on the way of a path, as a function of how far one has gone. *)
Walk(G, root, path, f) ==
  f = [k \in 0 .. Len(path) |->
         IF k = 0 THEN root
         ELSE IF f[k - 1] = Nil THEN Nil ELSE G[f[k - 1]][path[k]]]

(* A path has one walk, which Find() therefore takes.                      *)
LEMMA WalkUnique ==
  ASSUME NEW G, NEW root, NEW path, Len(path) \in Nat,
         NEW f, NEW g, Walk(G, root, path, f), Walk(G, root, path, g)
  PROVE  f = g
<1>1. \A k \in 0 .. Len(path) : f[k] = g[k]
  <2> SUFFICES ASSUME \E k \in 0 .. Len(path) : f[k] # g[k] PROVE FALSE
    OBVIOUS
  <2> DEFINE T == { k \in 0 .. Len(path) : f[k] # g[k] }
  <2>1. T # {} /\ T \in SUBSET Nat
    OBVIOUS
  <2>2. PICK k \in T : \A j \in T : k <= j
    BY <2>1, NatMin
  <2>3. k # 0
    BY DEF Walk
  <2>4. k - 1 \in 0 .. Len(path) /\ f[k - 1] = g[k - 1]
    BY <2>2, <2>3
  <2>5. f[k] = IF f[k - 1] = Nil THEN Nil ELSE G[f[k - 1]][path[k]]
    BY <2>3 DEF Walk
  <2>6. g[k] = IF g[k - 1] = Nil THEN Nil ELSE G[g[k - 1]][path[k]]
    BY <2>3 DEF Walk
  <2> QED
    BY <2>4, <2>5, <2>6
<1> QED
  BY <1>1 DEF Walk

LEMMA FindWalk ==
  ASSUME NEW G, NEW root, NEW path, Len(path) \in Nat,
         NEW f, Walk(G, root, path, f)
  PROVE  Find(G, root, path) = f[Len(path)]
<1>1. \A g : Walk(G, root, path, g) => g = f
  BY WalkUnique
<1>2. f = CHOOSE g : Walk(G, root, path, g)
  BY <1>1
<1> QED
  BY <1>2 DEF Find, Walk

(* A path with one more reference.                                         *)
LEMMA AppendIs ==
  ASSUME NEW S, NEW p \in Seq(S), NEW r \in S
  PROVE  /\ Append(p, r) \in Seq(S) /\ Append(p, r) # <<>>
         /\ Len(Append(p, r)) = Len(p) + 1 /\ Len(p) \in Nat
         /\ Append(p, r)[Len(p) + 1] = r
         /\ \A k \in 1 .. Len(p) : Append(p, r)[k] = p[k]
         /\ Front(Append(p, r)) = p
BY DEF Front

(* A path that is not empty, without its last reference.                   *)
LEMMA FrontIs ==
  ASSUME NEW S, NEW p \in Seq(S), p # <<>>
  PROVE  /\ Front(p) \in Seq(S) /\ p[Len(p)] \in S /\ Len(p) \in Nat
         /\ p = Append(Front(p), p[Len(p)])
         /\ Len(Front(p)) = Len(p) - 1
<1>1. Len(p) \in Nat \ {0} /\ p[Len(p)] \in S
  OBVIOUS
<1> DEFINE n == Len(p) - 1
<1>2. n \in Nat /\ n <= Len(p) /\ \A k \in 1 .. n : p[k] \in S
  BY <1>1
<1>3. /\ SubSeq(p, 1, n) \in Seq(S) /\ Len(SubSeq(p, 1, n)) = n
      /\ \A k \in 1 .. n : SubSeq(p, 1, n)[k] = p[k]
  <2> HIDE DEF n
  <2> QED
    BY <1>2
<1>4. /\ Front(p) \in Seq(S) /\ Len(Front(p)) = Len(p) - 1
      /\ \A k \in 1 .. Len(p) - 1 : Front(p)[k] = p[k]
  BY <1>3 DEF Front
<1>5. p = Append(Front(p), p[Len(p)])
  BY <1>1, <1>4
<1> QED
  BY <1>1, <1>4, <1>5

(* Two places are the same only in the same object.                        *)
LEMMA AppendEq ==
  ASSUME NEW S, NEW p \in Seq(S), NEW r \in S,
         NEW q \in Seq(S), NEW s \in S, Append(p, r) = Append(q, s)
  PROVE  p = q /\ r = s
BY AppendIs

(* A walk goes on by one reference.                                        *)
LEMMA WalkAppend ==
  ASSUME NEW S, NEW p \in Seq(S), NEW r \in S,
         NEW G, NEW root, NEW f, Walk(G, root, p, f)
  PROVE  \E g : /\ Walk(G, root, Append(p, r), g)
                /\ g[Len(p) + 1] = IF f[Len(p)] = Nil THEN Nil
                                   ELSE G[f[Len(p)]][r]
<1> DEFINE q == Append(p, r)
           g == [k \in 0 .. Len(p) + 1 |->
                   IF k <= Len(p) THEN f[k]
                   ELSE IF f[Len(p)] = Nil THEN Nil ELSE G[f[Len(p)]][r]]
<1>1. /\ Len(q) = Len(p) + 1 /\ Len(p) \in Nat /\ q[Len(p) + 1] = r
      /\ \A k \in 1 .. Len(p) : q[k] = p[k]
  BY AppendIs
<1> HIDE DEF q
<1>2. g[Len(p) + 1] = IF f[Len(p)] = Nil THEN Nil ELSE G[f[Len(p)]][r]
  BY <1>1
<1>3. \A k \in 0 .. Len(p) : g[k] = f[k]
  BY <1>1
<1>4. DOMAIN g = 0 .. Len(p) + 1 /\ g = [k \in 0 .. Len(p) + 1 |-> g[k]]
  OBVIOUS
<1> HIDE DEF g
<1>5. f[0] = root
  BY <1>1 DEF Walk
<1>6. ASSUME NEW k \in 0 .. Len(p) + 1
      PROVE  g[k] = IF k = 0 THEN root
                    ELSE IF g[k - 1] = Nil THEN Nil ELSE G[g[k - 1]][q[k]]
  <2>1. CASE k = 0
    BY <2>1, <1>1, <1>3, <1>5
  <2>2. CASE k = Len(p) + 1
    BY <2>2, <1>1, <1>2, <1>3
  <2>3. CASE k \in 1 .. Len(p)
    <3>1. f[k] = IF f[k - 1] = Nil THEN Nil ELSE G[f[k - 1]][p[k]]
      BY <2>3, <1>1 DEF Walk
    <3>2. g[k] = f[k] /\ g[k - 1] = f[k - 1] /\ q[k] = p[k]
      BY <2>3, <1>1, <1>3
    <3> QED
      BY <2>3, <3>1, <3>2
  <2> QED
    BY <2>1, <2>2, <2>3, <1>1
<1>7. Walk(G, root, q, g)
  BY <1>1, <1>4, <1>6 DEF Walk
<1> QED
  BY <1>2, <1>7 DEF q

(* Induction over paths: what holds of the empty one and of each that is   *)
(* longer by one reference than one of which it holds.                     *)
LEMMA PathInduction ==
  ASSUME NEW S, NEW T, <<>> \in T,
         \A p \in Seq(S) : p \in T => \A r \in S : Append(p, r) \in T
  PROVE  \A p \in Seq(S) : p \in T
<1> DEFINE Bad == { q \in Seq(S) : q \notin T }
           L == { Len(q) : q \in Bad }
<1> SUFFICES ASSUME NEW p \in Bad PROVE FALSE
  OBVIOUS
<1>1. L # {} /\ L \in SUBSET Nat
  <2>1. \A q \in Bad : q \in Seq(S)
    OBVIOUS
  <2>2. \A q \in Seq(S) : Len(q) \in Nat
    OBVIOUS
  <2> HIDE DEF Bad
  <2> QED
    BY <2>1, <2>2
<1>2. PICK n \in L : \A j \in L : n <= j
  BY <1>1, NatMin
<1>3. PICK q \in Bad : n = Len(q)
  BY <1>2
<1>4. q # <<>> /\ q \in Seq(S) /\ q \notin T
  OBVIOUS
<1>5. /\ Front(q) \in Seq(S) /\ q[Len(q)] \in S
      /\ q = Append(Front(q), q[Len(q)])
      /\ Len(Front(q)) < n /\ Len(Front(q)) \in Nat /\ n \in Nat
  BY <1>3, <1>4, FrontIs
<1>6. Len(Front(q)) \notin L
  <2>1. \A j \in L : n <= j
    BY <1>2
  <2> HIDE DEF L
  <2> QED
    BY <1>5, <2>1
<1>7. Front(q) \in T
  BY <1>5, <1>6
<1>8. Append(Front(q), q[Len(q)]) \in T
  BY <1>5, <1>7
<1> QED
  BY <1>4, <1>5, <1>8

(* Every path has a walk.                                                  *)
LEMMA WalkExists ==
  ASSUME NEW S, NEW p \in Seq(S), NEW G, NEW root
  PROVE  \E f : Walk(G, root, p, f)
<1> DEFINE T == { q \in Seq(S) : \E f : Walk(G, root, q, f) }
<1>1. <<>> \in T
  <2>1. Walk(G, root, <<>>, [k \in 0 .. Len(<<>>) |-> root])
    BY DEF Walk
  <2> QED
    BY <2>1
<1>2. ASSUME NEW q \in Seq(S), q \in T, NEW r \in S PROVE Append(q, r) \in T
  <2>1. PICK f : Walk(G, root, q, f)
    BY <1>2
  <2>2. \E g : Walk(G, root, Append(q, r), g)
    BY <2>1, WalkAppend
  <2> QED
    BY <2>2, AppendIs
<1>3. \A q \in Seq(S) : q \in T
  <2> HIDE DEF T
  <2> QED
    BY <1>1, <1>2, PathInduction
<1> QED
  BY <1>3

(* findOriginal(): an empty path stays at the root, and each reference     *)
(* leads on from where the path before it has led.                         *)
LEMMA FindEmpty ==
  ASSUME NEW G, NEW root
  PROVE  Find(G, root, <<>>) = root
<1>1. Walk(G, root, <<>>, [k \in 0 .. Len(<<>>) |-> root])
  BY DEF Walk
<1> QED
  BY <1>1, FindWalk

(* From an object that is not there no reference leads on.                 *)
LEMMA FindAppend ==
  ASSUME NEW S, NEW p \in Seq(S), NEW r \in S, NEW G, NEW root
  PROVE  Find(G, root, Append(p, r)) =
           IF Find(G, root, p) = Nil THEN Nil ELSE G[Find(G, root, p)][r]
<1>1. PICK f : Walk(G, root, p, f)
  BY WalkExists
<1>2. PICK g : /\ Walk(G, root, Append(p, r), g)
               /\ g[Len(p) + 1] = IF f[Len(p)] = Nil THEN Nil
                                  ELSE G[f[Len(p)]][r]
  BY <1>1, WalkAppend
<1>3. Len(p) \in Nat /\ Len(Append(p, r)) = Len(p) + 1
  BY AppendIs
<1>4. Find(G, root, p) = f[Len(p)]
  BY <1>1, <1>3, FindWalk
<1>5. Find(G, root, Append(p, r)) = g[Len(p) + 1]
  <2>1. Len(Append(p, r)) \in Nat
    BY <1>3
  <2> QED
    BY <1>2, <1>3, <2>1, FindWalk
<1> QED
  BY <1>2, <1>4, <1>5

-----------------------------------------------------------------------------
(* The markers: paths and chains, of any assignment of markers.            *)
Marks == [parent : Objects \cup {Nil}, ref : 0 .. Width,
          prev : Objects \cup {Nil}]
MarkedIn(m) == { o \in Objects : m[o] # Nil }
PathEq(m, f) ==
  f = [x \in MarkedIn(m) |->
         IF m[x].parent = Nil THEN <<>>
         ELSE Append(f[m[x].parent], m[x].ref)]
ChainEq(m, f) ==
  f = [x \in MarkedIn(m) |->
         {x} \cup IF m[x].parent = Nil THEN {} ELSE f[m[x].parent]]
PathIn(m, o) == (CHOOSE f : PathEq(m, f))[o]
ChainIn(m, o) == (CHOOSE f : ChainEq(m, f))[o]

Prefix(p, q) == /\ Len(p) <= Len(q)
                /\ \A k \in 1 .. Len(p) : p[k] = q[k]

(* The parents of the marked objects form a tree, and f is its paths and c *)
(* its chains: a path leads to its object, and those of the chain are on   *)
(* the way, each of them once.                                             *)
Tree(G, m, f, c) ==
  /\ m \in [Objects -> Marks \cup {Nil}]
  /\ f \in [MarkedIn(m) -> Seq(Refs)]
  /\ c \in [MarkedIn(m) -> SUBSET Objects]
  /\ PathEq(m, f) /\ ChainEq(m, c)
  /\ \A x \in MarkedIn(m) :
       /\ m[x].parent # Nil => m[x].parent \in MarkedIn(m) /\ m[x].ref \in Refs
       /\ Find(G, Root, f[x]) = x
       /\ \A y \in c[x] : y \in MarkedIn(m) /\ Prefix(f[y], f[x])
       /\ IsFiniteSet(c[x]) /\ Cardinality(c[x]) = Len(f[x]) + 1

(* The recursive definitions of Chain() and PathOf() have one solution in  *)
(* a tree: shortest path first, the two solutions can nowhere differ.      *)
LEMMA TreeUnique ==
  ASSUME NEW G, NEW m, NEW f, NEW c, Tree(G, m, f, c)
  PROVE  /\ \A x \in MarkedIn(m) : PathIn(m, x) = f[x]
         /\ \A x \in MarkedIn(m) : ChainIn(m, x) = c[x]
<1> DEFINE M == MarkedIn(m)
<1>1. /\ \A x \in M : f[x] \in Seq(Refs) /\ Len(f[x]) \in Nat
      /\ \A x \in M : m[x].parent # Nil =>
           m[x].parent \in M /\ Len(f[m[x].parent]) < Len(f[x])
  <2>1. \A x \in M : f[x] \in Seq(Refs) /\ Len(f[x]) \in Nat
    BY DEF Tree
  <2>2. ASSUME NEW x \in M, m[x].parent # Nil
        PROVE  m[x].parent \in M /\ Len(f[m[x].parent]) < Len(f[x])
    <3>1. m[x].parent \in M /\ m[x].ref \in Refs
      BY <2>2 DEF Tree
    <3>2. f[x] = Append(f[m[x].parent], m[x].ref)
      BY <2>2 DEF Tree, PathEq
    <3> QED
      BY <2>1, <3>1, <3>2, AppendIs
  <2> QED
    BY <2>1, <2>2
<1>2. ASSUME NEW g, NEW h, NEW x \in M,
             \A y \in M : m[y].parent # Nil =>
               (g[m[y].parent] = h[m[y].parent] => g[y] = h[y]),
             \A y \in M : m[y].parent = Nil => g[y] = h[y]
      PROVE  g[x] = h[x]
  <2> SUFFICES ASSUME g[x] # h[x] PROVE FALSE
    OBVIOUS
  <2> DEFINE B == { y \in M : g[y] # h[y] }
             T == { Len(f[y]) : y \in B }
  <2>1. T # {} /\ T \in SUBSET Nat
    BY <1>1
  <2>2. PICK n \in T : \A j \in T : n <= j
    BY <2>1, NatMin
  <2>3. PICK y \in B : n = Len(f[y])
    BY <2>2
  <2>4. m[y].parent # Nil /\ m[y].parent \in M
    BY <1>1, <1>2, <2>3
  <2>5. g[m[y].parent] # h[m[y].parent]
    BY <1>2, <2>4
  <2>6. Len(f[m[y].parent]) \in T
    BY <2>4, <2>5
  <2>7. Len(f[m[y].parent]) < n /\ n \in Nat /\ Len(f[m[y].parent]) \in Nat
    BY <2>3, <2>4, <1>1
  <2> HIDE DEF T
  <2> QED
    BY <2>2, <2>6, <2>7
<1>3. \A g : PathEq(m, g) => g = f
  <2> SUFFICES ASSUME NEW g, PathEq(m, g) PROVE g = f
    OBVIOUS
  <2>1. PathEq(m, f)
    BY DEF Tree
  <2>2. \A x \in M : g[x] = f[x]
    <3>1. \A y \in M : m[y].parent # Nil =>
            (g[m[y].parent] = f[m[y].parent] => g[y] = f[y])
      <4> SUFFICES ASSUME NEW y \in M, m[y].parent # Nil,
                          g[m[y].parent] = f[m[y].parent]
                   PROVE  g[y] = f[y]
        OBVIOUS
      <4>1. g[y] = Append(g[m[y].parent], m[y].ref)
        BY ZenonT(40) DEF PathEq
      <4>2. f[y] = Append(f[m[y].parent], m[y].ref)
        BY <2>1, ZenonT(40) DEF PathEq
      <4> QED
        BY <4>1, <4>2
    <3>2. \A y \in M : m[y].parent = Nil => g[y] = f[y]
      BY <2>1 DEF PathEq
    <3> HIDE DEF M
    <3> QED
      BY <1>2, <3>1, <3>2
  <2> QED
    BY <2>1, <2>2 DEF PathEq
<1>4. \A g : ChainEq(m, g) => g = c
  <2> SUFFICES ASSUME NEW g, ChainEq(m, g) PROVE g = c
    OBVIOUS
  <2>1. ChainEq(m, c)
    BY DEF Tree
  <2>2. \A x \in M : g[x] = c[x]
    <3>1. \A y \in M : m[y].parent # Nil =>
            (g[m[y].parent] = c[m[y].parent] => g[y] = c[y])
      <4> SUFFICES ASSUME NEW y \in M, m[y].parent # Nil,
                          g[m[y].parent] = c[m[y].parent]
                   PROVE  g[y] = c[y]
        OBVIOUS
      <4>1. g[y] = {y} \cup g[m[y].parent]
        BY DEF ChainEq
      <4>2. c[y] = {y} \cup c[m[y].parent]
        BY <2>1 DEF ChainEq
      <4> QED
        BY <4>1, <4>2
    <3>2. \A y \in M : m[y].parent = Nil => g[y] = c[y]
      BY <2>1 DEF ChainEq
    <3> HIDE DEF M
    <3> QED
      BY <1>2, <3>1, <3>2
  <2> QED
    BY <2>1, <2>2 DEF ChainEq
<1>5. f = CHOOSE g : PathEq(m, g)
  BY <1>3 DEF Tree
<1>6. c = CHOOSE g : ChainEq(m, g)
  BY <1>4 DEF Tree
<1> QED
  BY <1>5, <1>6 DEF PathIn, ChainIn

(* At the beginning the root alone is marked.                              *)
LEMMA TreeRoot ==
  ASSUME NEW G, NEW m, m = [o \in Objects |-> IF o = Root
                  THEN [parent |-> Nil, ref |-> 0, prev |-> Nil] ELSE Nil]
  PROVE  /\ MarkedIn(m) = {Root}
         /\ \E f, c : /\ Tree(G, m, f, c)
                      /\ f[Root] = <<>> /\ c[Root] = {Root}
<1> DEFINE k == [parent |-> Nil, ref |-> 0, prev |-> Nil]
           f == [x \in {Root} |-> <<>>]
           c == [x \in {Root} |-> {Root}]
<1>1. k \in Marks /\ k # Nil /\ k.parent = Nil /\ Root \in Objects
  BY MarshalAssumption DEF Marks
<1>2. MarkedIn(m) = {Root} /\ m[Root] = k
  BY <1>1 DEF MarkedIn
<1>3. m \in [Objects -> Marks \cup {Nil}]
  BY <1>1
<1>4. f \in [{Root} -> Seq(Refs)] /\ c \in [{Root} -> SUBSET Objects]
  BY <1>1
<1>5. PathEq(m, f) /\ ChainEq(m, c)
  BY <1>1, <1>2 DEF PathEq, ChainEq
<1>6. f[Root] = <<>> /\ c[Root] = {Root}
  OBVIOUS
<1>7. IsFiniteSet({Root}) /\ Cardinality({Root}) = 1 /\ Len(<<>>) = 0
  BY FS_Singleton
<1>8. Find(G, Root, <<>>) = Root /\ Prefix(<<>>, <<>>)
  BY FindEmpty DEF Prefix
<1> HIDE DEF f, c, k
<1>9. ASSUME NEW x \in {Root}
      PROVE  /\ m[x].parent = Nil /\ Find(G, Root, f[x]) = x
             /\ \A y \in c[x] : y \in {Root} /\ Prefix(f[y], f[x])
             /\ IsFiniteSet(c[x]) /\ Cardinality(c[x]) = Len(f[x]) + 1
  <2>1. x = Root
    OBVIOUS
  <2>2. m[Root].parent = Nil
    BY <1>1, <1>2
  <2>3. Find(G, Root, f[Root]) = Root /\ Prefix(f[Root], f[Root])
    BY <1>6, <1>8
  <2>4. IsFiniteSet(c[Root]) /\ Cardinality(c[Root]) = 1 /\ Len(f[Root]) = 0
    BY <1>6, <1>7
  <2>5. \A y \in c[Root] : y = Root
    BY <1>6
  <2> QED
    BY <2>1, <2>2, <2>3, <2>4, <2>5
<1>10. Tree(G, m, f, c)
  BY <1>2, <1>3, <1>4, <1>5, <1>9 DEF Tree
<1> QED
  BY <1>2, <1>6, <1>10

(* A marker attached: a leaf of the tree.                                  *)
Attached(G, m, m2, x, p, r, h) ==
  /\ G \in [Objects -> [Refs -> Objects \cup {Nil}]] /\ G[p][r] = x
  /\ x \in Objects \ MarkedIn(m) /\ p \in MarkedIn(m)
  /\ r \in Refs /\ h \in Objects \cup {Nil}
  /\ m2 = [m EXCEPT ![x] = [parent |-> p, ref |-> r, prev |-> h]]
Grown(G, m, m2, f, c, x, p, r) ==
  /\ MarkedIn(m2) = MarkedIn(m) \cup {x}
  /\ \E f2, c2 :
       /\ Tree(G, m2, f2, c2)
       /\ \A y \in MarkedIn(m) : f2[y] = f[y] /\ c2[y] = c[y]
       /\ f2[x] = Append(f[p], r) /\ c2[x] = {x} \cup c[p]

LEMMA TreeAppend ==
  ASSUME NEW G, NEW m, NEW f, NEW c, Tree(G, m, f, c),
         NEW x, NEW p, NEW r, NEW h, NEW m2, Attached(G, m, m2, x, p, r, h)
  PROVE  Grown(G, m, m2, f, c, x, p, r)
<1> DEFINE M == MarkedIn(m)
           k == [parent |-> p, ref |-> r, prev |-> h]
           f2 == [y \in M \cup {x} |-> IF y = x THEN Append(f[p], r) ELSE f[y]]
           c2 == [y \in M \cup {x} |-> IF y = x THEN {x} \cup c[p] ELSE c[y]]
<1>0. /\ G \in [Objects -> [Refs -> Objects \cup {Nil}]] /\ G[p][r] = x
      /\ x \in Objects \ MarkedIn(m) /\ p \in MarkedIn(m)
      /\ r \in Refs /\ h \in Objects \cup {Nil}
  BY DEF Attached
<1> USE <1>0
<1>1. Width \in Nat /\ r \in 0 .. Width /\ Root \in Objects /\ Nil \notin Objects
  BY MarshalAssumption DEF Refs
<1>2. M \subseteq Objects /\ p \in Objects
  BY DEF MarkedIn
<1>3. k \in Marks /\ k # Nil /\ k.parent = p /\ k.ref = r /\ p # Nil
  BY <1>1, <1>2, MarshalAssumption DEF Marks
<1>4. m \in [Objects -> Marks \cup {Nil}]
  BY DEF Tree
<1>5. m2[x] = k /\ \A y \in Objects : y # x => m2[y] = m[y]
  BY <1>4 DEF Attached
<1>6. m2 \in [Objects -> Marks \cup {Nil}]
  BY <1>3, <1>4 DEF Attached
<1> HIDE DEF k
<1>7. MarkedIn(m2) = M \cup {x}
  BY <1>3, <1>5 DEF MarkedIn
<1>8. \A y \in M : y # x /\ m2[y] = m[y]
  BY <1>2, <1>5
<1>9. /\ \A y \in M : f2[y] = f[y] /\ c2[y] = c[y]
      /\ f2[x] = Append(f[p], r) /\ c2[x] = {x} \cup c[p]
      /\ DOMAIN f2 = M \cup {x} /\ DOMAIN c2 = M \cup {x}
      /\ f2 = [y \in M \cup {x} |-> f2[y]] /\ c2 = [y \in M \cup {x} |-> c2[y]]
  BY <1>8
<1> HIDE DEF f2, c2
<1>10. /\ \A y \in M : f[y] \in Seq(Refs) /\ c[y] \in SUBSET Objects
       /\ \A y \in M : m[y].parent # Nil => m[y].parent \in M
  BY DEF Tree
<1>11. /\ Append(f[p], r) \in Seq(Refs) /\ Len(f[p]) \in Nat
       /\ Len(Append(f[p], r)) = Len(f[p]) + 1
       /\ \A j \in 1 .. Len(f[p]) : Append(f[p], r)[j] = f[p][j]
  BY <1>10, AppendIs
<1>12. f2 \in [M \cup {x} -> Seq(Refs)]
  <2>1. \A y \in M \cup {x} : f2[y] \in Seq(Refs)
    BY <1>9, <1>10, <1>11
  <2> QED
    BY <1>9, <2>1
<1>13. c2 \in [M \cup {x} -> SUBSET Objects]
  <2>1. {x} \cup c[p] \in SUBSET Objects
    BY <1>10
  <2>2. \A y \in M \cup {x} : c2[y] \in SUBSET Objects
    BY <1>9, <1>10, <2>1
  <2> QED
    BY <1>9, <2>2
<1>14. PathEq(m2, f2)
  <2>1. ASSUME NEW y \in M
        PROVE  f2[y] = IF m2[y].parent = Nil THEN <<>>
                       ELSE Append(f2[m2[y].parent], m2[y].ref)
    <3>1. f[y] = IF m[y].parent = Nil THEN <<>>
                 ELSE Append(f[m[y].parent], m[y].ref)
      BY DEF Tree, PathEq
    <3>2. m2[y] = m[y] /\ f2[y] = f[y]
      BY <1>8, <1>9
    <3>3. CASE m[y].parent = Nil
      BY <3>1, <3>2, <3>3
    <3>4. CASE m[y].parent # Nil
      <4>1. f2[m[y].parent] = f[m[y].parent]
        BY <3>4, <1>9, <1>10
      <4> QED
        BY <3>1, <3>2, <3>4, <4>1
    <3> QED
      BY <3>3, <3>4
  <2>2. f2[x] = IF m2[x].parent = Nil THEN <<>>
                ELSE Append(f2[m2[x].parent], m2[x].ref)
    BY <1>3, <1>5, <1>9
  <2> QED
    BY <2>1, <2>2, <1>7, <1>9 DEF PathEq
<1>15. ChainEq(m2, c2)
  <2>1. ASSUME NEW y \in M
        PROVE  c2[y] = {y} \cup IF m2[y].parent = Nil THEN {}
                                ELSE c2[m2[y].parent]
    <3>1. c[y] = {y} \cup IF m[y].parent = Nil THEN {} ELSE c[m[y].parent]
      BY DEF Tree, ChainEq
    <3>2. m2[y].parent = m[y].parent /\ c2[y] = c[y]
      BY <1>8, <1>9
    <3>3. CASE m[y].parent = Nil
      BY <3>1, <3>2, <3>3
    <3>4. CASE m[y].parent # Nil
      <4>1. c2[m[y].parent] = c[m[y].parent]
        BY <3>4, <1>9, <1>10
      <4> QED
        BY <3>1, <3>2, <3>4, <4>1
    <3> QED
      BY <3>3, <3>4
  <2>2. c2[x] = {x} \cup IF m2[x].parent = Nil THEN {} ELSE c2[m2[x].parent]
    BY <1>3, <1>5, <1>9
  <2> QED
    BY <2>1, <2>2, <1>7, <1>9 DEF ChainEq
<1>16. ASSUME NEW y \in M
       PROVE  /\ m2[y].parent # Nil => /\ m2[y].parent \in M
                                       /\ m2[y].ref \in Refs
              /\ Find(G, Root, f2[y]) = y
              /\ \A z \in c2[y] : z \in M /\ Prefix(f2[z], f2[y])
              /\ IsFiniteSet(c2[y]) /\ Cardinality(c2[y]) = Len(f2[y]) + 1
  <2>1. /\ m[y].parent # Nil => m[y].parent \in M /\ m[y].ref \in Refs
        /\ Find(G, Root, f[y]) = y
        /\ \A z \in c[y] : z \in M /\ Prefix(f[z], f[y])
        /\ IsFiniteSet(c[y]) /\ Cardinality(c[y]) = Len(f[y]) + 1
    BY DEF Tree
  <2> QED
    BY <2>1, <1>8, <1>9
<1>17. m2[x].parent \in M /\ m2[x].ref \in Refs
  BY <1>3, <1>5
<1>18. Find(G, Root, f2[x]) = x
  <2>1. Find(G, Root, f[p]) = p
    BY DEF Tree
  <2> QED
    BY <2>1, <1>3, <1>9, <1>10, FindAppend
<1>19. \A z \in c2[x] : z \in M \cup {x} /\ Prefix(f2[z], f2[x])
  <2>1. ASSUME NEW z \in c[p] PROVE z \in M /\ Prefix(f2[z], f2[x])
    <3>1. z \in M /\ Prefix(f[z], f[p])
      BY DEF Tree
    <3> QED
      BY <3>1, <1>9, <1>10, <1>11 DEF Prefix
  <2>2. Prefix(f2[x], f2[x])
    BY <1>9, <1>11 DEF Prefix
  <2> QED
    BY <2>1, <2>2, <1>9
<1>20. IsFiniteSet(c2[x]) /\ Cardinality(c2[x]) = Len(f2[x]) + 1
  <2>1. IsFiniteSet(c[p]) /\ Cardinality(c[p]) = Len(f[p]) + 1 /\ x \notin c[p]
    BY DEF Tree
  <2>2. IsFiniteSet(c[p] \cup {x})
        /\ Cardinality(c[p] \cup {x}) = Cardinality(c[p]) + 1
    BY <2>1, FS_AddElement
  <2>3. c2[x] = c[p] \cup {x}
    BY <1>9
  <2> QED
    BY <2>1, <2>2, <2>3, <1>9, <1>11
<1>21. Tree(G, m2, f2, c2)
  BY <1>6, <1>7, <1>12, <1>13, <1>14, <1>15, <1>16, <1>17, <1>18, <1>19, <1>20
     DEF Tree
<1>22. /\ \A y \in M : f2[y] = f[y] /\ c2[y] = c[y]
       /\ f2[x] = Append(f[p], r) /\ c2[x] = {x} \cup c[p]
  BY <1>9
<1>23. \E f3, c3 :
         /\ Tree(G, m2, f3, c3)
         /\ \A y \in M : f3[y] = f[y] /\ c3[y] = c[y]
         /\ f3[x] = Append(f[p], r) /\ c3[x] = {x} \cup c[p]
  <2> WITNESS f2, c2
  <2> QED
    BY <1>21, <1>22
<1> QED
  BY <1>7, <1>23 DEF Grown

-----------------------------------------------------------------------------
(* The inductive invariant.                                                *)
Frames == [obj : Objects, next : 1 .. Width + 1, at : Seq(Refs)]
Graphs == [Objects -> [Refs -> Objects \cup {Nil}]]

TypeInv ==
  /\ graph \in Graphs /\ circ \in BOOLEAN /\ dup \in BOOLEAN
  /\ marker \in [Objects -> Marks \cup {Nil}]
  /\ markerHead \in Objects \cup {Nil}
  /\ stack \in Seq(Frames)
  /\ written \in SUBSET Seq(Refs)
  /\ fixups \in Seq(Seq(Refs) \X Seq(Refs))
  /\ phase \in {"walk", "unmark", "throw", "sent", "apply", "done", "thrown"}
  /\ phase = "walk" <=> stack # <<>>

(* The running calls are a path of the graph from the root.                *)
StackInv ==
  /\ stack # <<>> => stack[1].obj = Root /\ stack[1].at = <<>>
  /\ \A k \in 1 .. Len(stack) : Len(stack[k].at) = k - 1
  /\ \A k \in 1 .. Len(stack) - 1 :
       /\ stack[k].next - 1 \in Refs
       /\ stack[k + 1].obj = graph[stack[k].obj][stack[k].next - 1]
       /\ stack[k + 1].at = Append(stack[k].at, stack[k].next - 1)

(* What the conversion knows of the graph: F are the objects it has been   *)
(* through, in the order of rank; the first g of the running calls are in  *)
(* objects entered for the first time, with the path f and the chain c,    *)
(* the others write again what is in F. From F one gets into F, downwards, *)
(* or back to an object of the chain.                                      *)
Ranked(F, rank, n, g) ==
  /\ g \in 0 .. Len(stack) /\ F \in SUBSET Objects
  /\ rank \in [Objects -> Nat] /\ n \in Nat /\ \A o \in F : rank[o] < n
FirstTime(f, c, F, g) ==
  /\ MarkedIn(marker) = F \cup { stack[k].obj : k \in 1 .. g }
  /\ \A k \in 1 .. g : /\ stack[k].obj \notin F
                       /\ f[stack[k].obj] = stack[k].at
                       /\ c[stack[k].obj] = { stack[j].obj : j \in 1 .. k }
WrittenAgain(F, rank, g) ==
  /\ \A k \in g + 1 .. Len(stack) : stack[k].obj \in F
  /\ \A j, k \in g + 1 .. Len(stack) :
       j < k => rank[stack[k].obj] < rank[stack[j].obj]
  /\ g < Len(stack) => ~dup
Closed(c, F, rank) ==
  \A o \in F : \A r \in Refs :
    \/ graph[o][r] = Nil
    \/ graph[o][r] \in F /\ rank[graph[o][r]] < rank[o]
    \/ graph[o][r] \in c[o] /\ circ
Visited(c, F, g) ==
  \A k \in 1 .. g : \A r \in 1 .. stack[k].next - 1 :
    \/ graph[stack[k].obj][r] = Nil
    \/ graph[stack[k].obj][r] \in F
    \/ graph[stack[k].obj][r] \in c[stack[k].obj] /\ circ
    \/ k < g /\ r = stack[k].next - 1
SearchInv(f, c, F, rank, n, g) ==
  /\ Tree(graph, marker, f, c)
  /\ Ranked(F, rank, n, g) /\ FirstTime(f, c, F, g)
  /\ WrittenAgain(F, rank, g) /\ Closed(c, F, rank) /\ Visited(c, F, g)

(* What the json holds while it is written: nothing twice if duplicates    *)
(* are combined, and nothing ahead of the running calls.                   *)
WireWalk(f) ==
  /\ \A w \in written : Sent(w) \in MarkedIn(marker)
  /\ dup => \A w \in written : w = f[Sent(w)]
  /\ \A o \in MarkedIn(marker) : f[o] \in written
  /\ \A k \in 1 .. Len(stack) :
       /\ stack[k].at \in written /\ Sent(stack[k].at) = stack[k].obj
       /\ \A r \in Refs : r >= stack[k].next =>
            Append(stack[k].at, r) \notin written

(* Nothing is written where the first place of an object refers back to    *)
(* one that the object is inside of.                                       *)
Unlisted(f, c) ==
  \A o \in MarkedIn(marker) : \A r \in Refs :
    graph[o][r] \in c[o] => Append(f[o], r) \notin written

(* Every reference to another object of those at the places A is written,  *)
(* or left out with a fixup that names another place of the same object,   *)
(* or still to be visited.                                                 *)
Pending(w, r) == \E k \in 1 .. Len(stack) : stack[k].at = w /\ r >= stack[k].next
Listed(p) == \E i \in 1 .. Len(fixups) : fixups[i][1] = p
RefsAccounted(A) ==
  \A w \in A : \A r \in Refs :
    \/ Sent(Append(w, r)) = Nil
    \/ Append(w, r) \in written
    \/ Pending(w, r)
    \/ Listed(Append(w, r))

(* That is so of the first place of each object, and of all places unless  *)
(* duplicates are written again in a value that contains itself.           *)
Readable == dup \/ ~Cyclic
Sure(f) ==
  { f[o] : o \in MarkedIn(marker) } \cup IF Readable THEN written ELSE {}

WalkInv ==
  phase = "walk" =>
    \E f, c, F, rank, n, g : /\ SearchInv(f, c, F, rank, n, g)
                             /\ WireWalk(f) /\ Unlisted(f, c)
                             /\ RefsAccounted(Sure(f))

(* The markers are linked from the last one to the first.                  *)
Linked(l, m, h) ==
  /\ l \in Seq(Objects) /\ \A j, k \in DOMAIN l : l[j] = l[k] => j = k
  /\ MarkedIn(m) = { l[k] : k \in DOMAIN l }
  /\ h = IF l = <<>> THEN Nil ELSE l[Len(l)]
  /\ \A k \in DOMAIN l : m[l[k]].prev = IF k = 1 THEN Nil ELSE l[k - 1]
ListInv ==
  IF phase \in {"walk", "unmark", "throw"}
    THEN \E l : Linked(l, marker, markerHead)
    ELSE MarkedIn(marker) = {}

VerdictInv ==
  /\ phase \in {"unmark", "sent", "apply", "done"} => circ \/ ~Cyclic
  /\ phase \in {"throw", "thrown"} => Cyclic /\ ~circ

(* What is on the wire, and the places of which it is complete: one of     *)
(* every object.                                                           *)
WrittenOK ==
  /\ <<>> \in written /\ \A w \in written : Sent(w) \in Objects
  /\ \A w \in written : w # <<>> => Front(w) \in written
  /\ dup => \A v, w \in written : Sent(v) = Sent(w) => v = w
FixupsOK ==
  \A i \in 1 .. Len(fixups) :
    /\ fixups[i][1] \notin written /\ fixups[i][2] \in written
    /\ Sent(fixups[i][2]) = Sent(fixups[i][1])
    /\ \E w \in written, r \in Refs : /\ fixups[i][1] = Append(w, r)
                                      /\ ~Pending(w, r)
Covers(A) ==
  /\ A \subseteq written /\ (Readable => A = written)
  /\ \A w \in written : \E v \in A : Sent(v) = Sent(w)
WireInv ==
  /\ phase \in {"walk", "unmark", "sent"} => WrittenOK /\ FixupsOK
  /\ phase \in {"unmark", "sent"} => \E A : Covers(A) /\ RefsAccounted(A)

(* What the receiver has made of it so far.                                *)
Rebuilt(A) ==
  \A w \in A : \A r \in Refs :
    built[w][r] = Nil => Sent(Append(w, r)) = Nil \/ Listed(Append(w, r))
BuiltInv ==
  phase \in {"apply", "done"} =>
    /\ WrittenOK /\ FixupsOK
    /\ built \in [written -> [Refs -> written \cup {Nil}]]
    /\ \A w \in written : \A r \in Refs :
         /\ Append(w, r) \in written => built[w][r] = Append(w, r)
         /\ built[w][r] # Nil => Sent(built[w][r]) = Sent(Append(w, r))
    /\ \E A : Covers(A) /\ Rebuilt(A)
    /\ phase = "done" => fixups = <<>>

MarshalInv == /\ TypeInv /\ StackInv /\ WalkInv /\ ListInv
        /\ VerdictInv /\ WireInv /\ BuiltInv

-----------------------------------------------------------------------------
(* The running calls when an item is passed, entered, and left.            *)
LEMMA FrameIs ==
  ASSUME NEW s \in Seq(Frames), NEW k \in 1 .. Len(s)
  PROVE  /\ s[k] \in Frames /\ s[k].obj \in Objects
         /\ s[k].next \in 1 .. Width + 1 /\ s[k].next \in Nat
         /\ s[k].at \in Seq(Refs) /\ Width \in Nat
<1>1. s[k] \in Frames
  OBVIOUS
<1>2. Width \in Nat
  BY MarshalAssumption
<1> QED
  BY <1>1, <1>2 DEF Frames

(* The calls that are left when the last one returns.                      *)
LEMMA PoppedIs ==
  ASSUME NEW s \in Seq(Frames), s # <<>>,
         NEW t, t = SubSeq(s, 1, Len(s) - 1)
  PROVE  /\ t \in Seq(Frames) /\ Len(t) = Len(s) - 1
         /\ Len(s) \in Nat \ {0}
         /\ \A k \in 1 .. Len(s) - 1 : t[k] = s[k]
         /\ (t = <<>>) <=> (Len(s) = 1)
<1> DEFINE n == Len(s) - 1
<1>1. Len(s) \in Nat \ {0}
  OBVIOUS
<1>2. n \in Nat /\ n <= Len(s) /\ \A k \in 1 .. n : s[k] \in Frames
  BY <1>1
<1>3. /\ t \in Seq(Frames) /\ Len(t) = n /\ \A k \in 1 .. n : t[k] = s[k]
  <2>1. t = SubSeq(s, 1, n)
    OBVIOUS
  <2> HIDE DEF n
  <2> QED
    BY <1>2, <2>1
<1>4. (t = <<>>) <=> (n = 0)
  <2> HIDE DEF n
  <2> QED
    BY <1>2, <1>3
<1> QED
  BY <1>1, <1>3, <1>4

(* What an action that visits an item is about.                            *)
LEMMA ItemIs ==
  ASSUME TypeInv, StackInv, AtItem
  PROVE  /\ stack \in Seq(Frames) /\ stack # <<>> /\ Len(stack) \in Nat \ {0}
         /\ phase = "walk" /\ Top = stack[Len(stack)]
         /\ Top.obj \in Objects /\ Top.next \in Refs /\ Top.at \in Seq(Refs)
         /\ Item = graph[Top.obj][Top.next] /\ Item \in Objects \cup {Nil}
         /\ Len(Top.at) = Len(stack) - 1 /\ graph \in Graphs
<1>1. /\ stack \in Seq(Frames) /\ stack # <<>> /\ phase = "walk"
      /\ Top.next \in Refs /\ graph \in Graphs
  BY DEF TypeInv, AtItem, Walking
<1>2. Len(stack) \in Nat \ {0}
  BY <1>1
<1>3. Top.obj \in Objects /\ Top.at \in Seq(Refs)
  BY <1>1, <1>2, FrameIs DEF Top
<1>4. Len(Top.at) = Len(stack) - 1
  BY <1>2 DEF StackInv, Top
<1> QED
  BY <1>1, <1>2, <1>3, <1>4 DEF Top, Item, Graphs

(* t is the stack with the item passed, and with the item entered.         *)
SameFrames(t) ==
  \A k \in 1 .. Len(stack) :
    /\ t[k].obj = stack[k].obj /\ t[k].at = stack[k].at
    /\ t[k].next = IF k = Len(stack) THEN stack[k].next + 1 ELSE stack[k].next
Passed(t) == t \in Seq(Frames) /\ Len(t) = Len(stack) /\ SameFrames(t)
Pushed(t) ==
  /\ t \in Seq(Frames) /\ Len(t) = Len(stack) + 1 /\ SameFrames(t)
  /\ t[Len(stack) + 1].obj = Item
  /\ t[Len(stack) + 1].at = Append(Top.at, Top.next)
  /\ t[Len(stack) + 1].next = 1

(* The counter of the last call goes on by one.                            *)
LEMMA PassedIs ==
  ASSUME TypeInv, StackInv, AtItem
  PROVE  Passed(Advanced)
<1> DEFINE m == Len(stack)
           e == [stack[m] EXCEPT !.next = stack[m].next + 1]
<1>1. /\ stack \in Seq(Frames) /\ m \in Nat \ {0}
      /\ stack[m].next \in Refs
  BY ItemIs
<1>2. stack[m] \in Frames /\ DOMAIN stack = 1 .. m
  BY <1>1
<1>3. stack[m].next + 1 \in 1 .. Width + 1
  BY <1>1, MarshalAssumption DEF Refs
<1>4. e \in Frames /\ e.obj = stack[m].obj /\ e.at = stack[m].at
      /\ e.next = stack[m].next + 1
  <2> HIDE DEF m
  <2> QED
    BY <1>2, <1>3 DEF Frames
<1>5. Advanced = [stack EXCEPT ![m] = e]
  BY DEF Advanced
<1> HIDE DEF e
<1>6. Advanced \in Seq(Frames) /\ Len(Advanced) = Len(stack)
  BY <1>1, <1>4, <1>5
<1>7. \A k \in 1 .. m : Advanced[k] = IF k = m THEN e ELSE stack[k]
  BY <1>1, <1>2, <1>5
<1> QED
  BY <1>1, <1>4, <1>6, <1>7 DEF Passed, SameFrames

(* The same, with a call for the item.                                     *)
LEMMA PushedIs ==
  ASSUME TypeInv, StackInv, AtItem, Item # Nil
  PROVE  Pushed(Append(Advanced, Frame(Item, Append(Top.at, Top.next))))
<1> DEFINE e == Frame(Item, Append(Top.at, Top.next))
           u == Advanced
<1>1. Item \in Objects /\ Append(Top.at, Top.next) \in Seq(Refs)
  BY ItemIs, AppendIs
<1>2. e \in Frames /\ e.obj = Item /\ e.at = Append(Top.at, Top.next)
      /\ e.next = 1
  BY <1>1, MarshalAssumption DEF Frame, Frames
<1>3. u \in Seq(Frames) /\ Len(u) = Len(stack) /\ SameFrames(u)
  BY PassedIs DEF Passed
<1> HIDE DEF e, u
<1>4. /\ Append(u, e) \in Seq(Frames) /\ Len(Append(u, e)) = Len(u) + 1
      /\ \A k \in 1 .. Len(u) : Append(u, e)[k] = u[k]
      /\ Append(u, e)[Len(u) + 1] = e
  BY <1>2, <1>3
<1>5. SameFrames(Append(u, e))
  BY <1>3, <1>4 DEF SameFrames
<1>6. Pushed(Append(u, e))
  BY <1>2, <1>3, <1>4, <1>5 DEF Pushed
<1> QED
  BY <1>6 DEF e, u

(* The running calls remain a path when an item is passed, when it is      *)
(* entered, and when a call returns.                                       *)
LEMMA StackAdvanced ==
  ASSUME StackInv, AtItem, Len(stack) \in Nat \ {0}, Passed(stack'),
         graph' = graph
  PROVE  StackInv'
<1>2. /\ stack # <<>> /\ Len(stack') = Len(stack)
      /\ \A k \in 1 .. Len(stack) :
           /\ stack'[k].obj = stack[k].obj /\ stack'[k].at = stack[k].at
           /\ stack'[k].next = IF k = Len(stack) THEN stack[k].next + 1
                               ELSE stack[k].next
  BY DEF Passed, SameFrames
<1>3. stack'[1].obj = Root /\ stack'[1].at = <<>>
  <2>1. stack[1].obj = Root /\ stack[1].at = <<>> /\ 1 \in 1 .. Len(stack)
    BY <1>2 DEF StackInv
  <2> QED
    BY <1>2, <2>1
<1>4. \A k \in 1 .. Len(stack') : Len(stack'[k].at) = k - 1
  BY <1>2 DEF StackInv
<1>5. ASSUME NEW k \in 1 .. Len(stack') - 1
      PROVE  /\ stack'[k].next - 1 \in Refs
             /\ stack'[k + 1].obj = graph[stack'[k].obj][stack'[k].next - 1]
             /\ stack'[k + 1].at = Append(stack'[k].at, stack'[k].next - 1)
  <2>1. k \in 1 .. Len(stack) - 1 /\ k \in 1 .. Len(stack)
        /\ k + 1 \in 1 .. Len(stack) /\ k # Len(stack)
    BY <1>2
  <2>2. /\ stack[k].next - 1 \in Refs
        /\ stack[k + 1].obj = graph[stack[k].obj][stack[k].next - 1]
        /\ stack[k + 1].at = Append(stack[k].at, stack[k].next - 1)
    BY <2>1 DEF StackInv
  <2> QED
    BY <1>2, <2>1, <2>2
<1> QED
  BY <1>3, <1>4, <1>5 DEF StackInv

LEMMA StackPushed ==
  ASSUME TypeInv, StackInv, AtItem, Item # Nil, Pushed(stack'), graph' = graph
  PROVE  StackInv'
<1>1. /\ stack \in Seq(Frames) /\ Len(stack) \in Nat \ {0}
      /\ Top = stack[Len(stack)] /\ Item = graph[Top.obj][Top.next]
      /\ Len(Top.at) = Len(stack) - 1 /\ Top.at \in Seq(Refs)
      /\ Top.next \in Refs
  BY ItemIs
<1>2. Len(Append(Top.at, Top.next)) = Len(stack)
  <2>1. Len(Append(Top.at, Top.next)) = Len(Top.at) + 1
    BY <1>1, AppendIs
  <2> QED
    BY <1>1, <2>1
<1>3. /\ Len(stack') = Len(stack) + 1
      /\ \A k \in 1 .. Len(stack) :
           /\ stack'[k].obj = stack[k].obj /\ stack'[k].at = stack[k].at
           /\ stack'[k].next = IF k = Len(stack) THEN stack[k].next + 1
                               ELSE stack[k].next
      /\ stack'[Len(stack) + 1].obj = Item
      /\ stack'[Len(stack) + 1].at = Append(Top.at, Top.next)
  BY DEF Pushed, SameFrames
<1>4. stack'[1].obj = Root /\ stack'[1].at = <<>>
  BY <1>1, <1>3 DEF StackInv
<1>5. \A k \in 1 .. Len(stack') : Len(stack'[k].at) = k - 1
  <2>1. \A k \in 1 .. Len(stack) : Len(stack[k].at) = k - 1
    BY DEF StackInv
  <2> SUFFICES ASSUME NEW k \in 1 .. Len(stack') PROVE Len(stack'[k].at) = k - 1
    OBVIOUS
  <2>2. CASE k \in 1 .. Len(stack)
    <3>1. stack'[k].at = stack[k].at
      BY <1>3, <2>2
    <3> QED
      BY <2>1, <2>2, <3>1
  <2>3. CASE k = Len(stack) + 1
    <3>1. Len(stack'[k].at) = Len(Append(Top.at, Top.next))
      BY <1>3, <2>3
    <3> QED
      BY <1>1, <1>2, <2>3, <3>1
  <2> QED
    BY <1>1, <1>3, <2>2, <2>3
<1>6. ASSUME NEW k \in 1 .. Len(stack') - 1
      PROVE  /\ stack'[k].next - 1 \in Refs
             /\ stack'[k + 1].obj = graph[stack'[k].obj][stack'[k].next - 1]
             /\ stack'[k + 1].at = Append(stack'[k].at, stack'[k].next - 1)
  <2>1. CASE k = Len(stack)
    <3>1. stack'[k].next = stack[k].next + 1 /\ stack[k].next \in Nat
      BY <2>1, <1>1, <1>3, FrameIs
    <3>2. stack'[k].next - 1 = Top.next
      BY <2>1, <1>1, <3>1
    <3>3. stack'[k].obj = Top.obj /\ stack'[k].at = Top.at
      BY <2>1, <1>1, <1>3
    <3> QED
      BY <2>1, <1>1, <1>3, <3>2, <3>3
  <2>2. CASE k # Len(stack)
    <3>1. k \in 1 .. Len(stack) - 1 /\ k \in 1 .. Len(stack)
          /\ k + 1 \in 1 .. Len(stack)
      BY <2>2, <1>3
    <3>2. /\ stack[k].next - 1 \in Refs
          /\ stack[k + 1].obj = graph[stack[k].obj][stack[k].next - 1]
          /\ stack[k + 1].at = Append(stack[k].at, stack[k].next - 1)
      BY <3>1 DEF StackInv
    <3> QED
      BY <1>3, <2>2, <3>1, <3>2
  <2> QED
    BY <2>1, <2>2
<1>7. StackInv'
  BY <1>3, <1>4, <1>5, <1>6 DEF StackInv
<1> QED
  BY <1>7

LEMMA StackPopped ==
  ASSUME TypeInv, StackInv, Leave
  PROVE  /\ stack' \in Seq(Frames) /\ Len(stack') = Len(stack) - 1
         /\ Len(stack) \in Nat \ {0} /\ StackInv'
         /\ \A k \in 1 .. Len(stack) - 1 : stack'[k] = stack[k]
         /\ (stack' = <<>>) <=> (Len(stack) = 1)
<1>1. stack \in Seq(Frames) /\ stack # <<>> /\ graph' = graph
      /\ stack' = SubSeq(stack, 1, Len(stack) - 1)
  BY DEF TypeInv, Leave, Walking, sender
<1>2. /\ stack' \in Seq(Frames) /\ Len(stack') = Len(stack) - 1
      /\ Len(stack) \in Nat \ {0}
      /\ \A k \in 1 .. Len(stack) - 1 : stack'[k] = stack[k]
      /\ (stack' = <<>>) <=> (Len(stack) = 1)
  BY <1>1, PoppedIs
<1>3. stack' # <<>> => stack'[1].obj = Root /\ stack'[1].at = <<>>
  BY <1>1, <1>2 DEF StackInv
<1>4. \A k \in 1 .. Len(stack') : Len(stack'[k].at) = k - 1
  <2>1. \A k \in 1 .. Len(stack) : Len(stack[k].at) = k - 1
    BY DEF StackInv
  <2> QED
    BY <1>2, <2>1
<1>5. ASSUME NEW k \in 1 .. Len(stack') - 1
      PROVE  /\ stack'[k].next - 1 \in Refs
             /\ stack'[k + 1].obj = graph[stack'[k].obj][stack'[k].next - 1]
             /\ stack'[k + 1].at = Append(stack'[k].at, stack'[k].next - 1)
  <2>1. k \in 1 .. Len(stack) - 1 /\ k + 1 \in 1 .. Len(stack) - 1
    BY <1>2
  <2>2. /\ stack[k].next - 1 \in Refs
        /\ stack[k + 1].obj = graph[stack[k].obj][stack[k].next - 1]
        /\ stack[k + 1].at = Append(stack[k].at, stack[k].next - 1)
    BY <2>1 DEF StackInv
  <2>3. stack'[k] = stack[k] /\ stack'[k + 1] = stack[k + 1]
    BY <1>2, <2>1
  <2> QED
    BY <2>2, <2>3
<1>6. StackInv'
  BY <1>1, <1>3, <1>4, <1>5 DEF StackInv
<1> QED
  BY <1>2, <1>6

-----------------------------------------------------------------------------
(* The search: PathOf() and Chain() are the paths and chains of the tree.  *)
LEMMA PathIs ==
  ASSUME NEW f, NEW c, Tree(graph, marker, f, c)
  PROVE  /\ Marked = MarkedIn(marker)
         /\ \A x \in MarkedIn(marker) : PathOf(x) = f[x] /\ Chain(x) = c[x]
<1>1. Marked = MarkedIn(marker)
  BY DEF Marked, MarkedIn
<1>2. \A x : PathOf(x) = PathIn(marker, x)
  BY DEF PathOf, PathIn, PathEq, Marked, MarkedIn
<1>3. \A x : Chain(x) = ChainIn(marker, x)
  BY DEF Chain, ChainIn, ChainEq, Marked, MarkedIn
<1> QED
  BY <1>1, <1>2, <1>3, TreeUnique

(* The object of the last call is marked; it has been left exactly if it   *)
(* is being written again.                                                 *)
LEMMA TopIs ==
  ASSUME TypeInv, StackInv, NEW f, NEW c, NEW F, NEW rank, NEW n, NEW g,
         SearchInv(f, c, F, rank, n, g), stack # <<>>
  PROVE  /\ Top.obj \in MarkedIn(marker) /\ g \in Nat
         /\ Len(stack) \in Nat \ {0} /\ g <= Len(stack)
         /\ Top = stack[Len(stack)]
         /\ g < Len(stack) => Top.obj \in F
         /\ g = Len(stack) => /\ Top.obj \notin F /\ f[Top.obj] = Top.at
                              /\ c[Top.obj] \cup F = MarkedIn(marker)
<1>1. Len(stack) \in Nat \ {0}
  BY DEF TypeInv
<1>2. g \in Nat /\ g <= Len(stack)
  BY <1>1 DEF SearchInv, Ranked
<1>3. g < Len(stack) => Top.obj \in F
  BY <1>1, <1>2 DEF Top, SearchInv, WrittenAgain
<1>4. ASSUME g = Len(stack)
      PROVE  /\ Top.obj \notin F /\ f[Top.obj] = Top.at
             /\ c[Top.obj] \cup F = MarkedIn(marker)
             /\ Top.obj \in MarkedIn(marker)
  <2>1. Len(stack) \in 1 .. g
    BY <1>1, <1>4
  <2> QED
    BY <2>1, <1>4 DEF Top, SearchInv, FirstTime
<1>5. F \subseteq MarkedIn(marker)
  BY DEF SearchInv, FirstTime
<1> QED
  BY <1>1, <1>2, <1>3, <1>4, <1>5 DEF Top

(* No call is in the object of another: those entered for the first time   *)
(* have their own path, those written again go down in rank.               *)
LEMMA CallsDiffer ==
  ASSUME TypeInv, StackInv, NEW f, NEW c, NEW F, NEW rank, NEW n, NEW g,
         SearchInv(f, c, F, rank, n, g),
         NEW i \in 1 .. Len(stack), NEW j \in 1 .. Len(stack),
         stack[i].obj = stack[j].obj
  PROVE  i = j
<1>1. stack \in Seq(Frames) /\ Len(stack) \in Nat
  BY DEF TypeInv
<1>2. /\ g \in 0 .. Len(stack) /\ rank \in [Objects -> Nat]
      /\ F \in SUBSET Objects
      /\ \A k \in 1 .. g : /\ stack[k].obj \notin F
                           /\ f[stack[k].obj] = stack[k].at
      /\ \A k \in g + 1 .. Len(stack) : stack[k].obj \in F
      /\ \A k, m \in g + 1 .. Len(stack) :
           k < m => rank[stack[m].obj] < rank[stack[k].obj]
  BY DEF SearchInv, Ranked, FirstTime, WrittenAgain
<1>3. ASSUME NEW j1 \in 1 .. Len(stack), NEW k \in 1 .. Len(stack),
             stack[j1].obj = stack[k].obj, j1 < k
      PROVE  FALSE
  <2>1. Len(stack[j1].at) = j1 - 1 /\ Len(stack[k].at) = k - 1
    BY DEF StackInv
  <2>2. CASE k <= g
    <3>1. stack[j1].at = stack[k].at
      BY <1>1, <1>2, <1>3, <2>2
    <3> QED
      BY <1>1, <1>3, <2>1, <3>1
  <2>3. CASE j1 <= g /\ g < k
    BY <1>1, <1>2, <1>3, <2>3
  <2>4. CASE g < j1
    <3>1. stack[j1].obj \in Objects
      BY <1>1, <1>2, <2>4
    <3>2. rank[stack[k].obj] < rank[stack[j1].obj]
      BY <1>1, <1>2, <1>3, <2>4
    <3> QED
      BY <1>2, <1>3, <3>1, <3>2
  <2> QED
    BY <1>1, <1>2, <1>3, <2>2, <2>3, <2>4
<1>4. i < j \/ j < i \/ i = j
  BY <1>1
<1> QED
  BY <1>3, <1>4

(* An object that is met again has been left or is one of the chain.       *)
LEMMA MetIs ==
  ASSUME TypeInv, StackInv, NEW f, NEW c, NEW F, NEW rank, NEW n, NEW g,
         SearchInv(f, c, F, rank, n, g), Met
  PROVE  /\ Item \in MarkedIn(marker)
         /\ Circular <=> Item \in c[Top.obj]
         /\ g = Len(stack) => Item \in F \/ Item \in c[Top.obj]
         /\ g < Len(stack) => \/ Item \in F /\ rank[Item] < rank[Top.obj]
                              \/ Item \in c[Top.obj] /\ circ
         /\ Item \in F \/ Item \in c[Top.obj]
<1>1. /\ AtItem /\ Item \in Objects /\ Item # Nil /\ marker[Item] # Nil
      /\ Top.next \in Refs /\ Item = graph[Top.obj][Top.next] /\ stack # <<>>
  BY ItemIs DEF Met
<1>2. Item \in MarkedIn(marker)
  BY <1>1 DEF MarkedIn
<1>3. Circular <=> Item \in c[Top.obj]
  BY <1>1, TopIs, PathIs DEF Circular, SearchInv
<1>4. g = Len(stack) => Item \in F \/ Item \in c[Top.obj]
  BY <1>1, <1>2, TopIs
<1>5. g < Len(stack) => \/ Item \in F /\ rank[Item] < rank[Top.obj]
                        \/ Item \in c[Top.obj] /\ circ
  <2>1. g < Len(stack) => Top.obj \in F
    BY <1>1, TopIs
  <2> QED
    BY <1>1, <2>1 DEF SearchInv, Closed
<1>6. g = Len(stack) \/ g < Len(stack)
  BY <1>1, TopIs
<1> QED
  BY <1>2, <1>3, <1>4, <1>5, <1>6

(* What is met for the first time is met in an object that is entered for  *)
(* the first time.                                                         *)
LEMMA FirstIs ==
  ASSUME TypeInv, StackInv, NEW f, NEW c, NEW F, NEW rank, NEW n, NEW g,
         SearchInv(f, c, F, rank, n, g), AtItem, Item # Nil, marker[Item] = Nil
  PROVE  g = Len(stack) /\ Item \in Objects \ MarkedIn(marker)
<1>1. /\ Item \in Objects /\ Top.next \in Refs /\ stack # <<>>
      /\ Item = graph[Top.obj][Top.next]
  BY ItemIs
<1>2. Item \notin MarkedIn(marker)
  BY DEF MarkedIn
<1>3. ASSUME g < Len(stack) PROVE FALSE
  <2>1. Top.obj \in F
    BY <1>1, <1>3, TopIs
  <2>2. Item \in F \/ Item \in c[Top.obj]
    BY <1>1, <2>1 DEF SearchInv, Closed
  <2>3. F \subseteq MarkedIn(marker)
    BY DEF SearchInv, FirstTime
  <2>4. c[Top.obj] \subseteq MarkedIn(marker)
    BY <2>1, <2>3 DEF SearchInv, Tree
  <2> QED
    BY <1>2, <2>2, <2>3, <2>4
<1>4. g = Len(stack)
  BY <1>1, <1>3, TopIs
<1> QED
  BY <1>1, <1>2, <1>4

(* An item is passed that is nothing, or was left, or is left out.         *)
LEMMA SearchAdvanced ==
  ASSUME TypeInv, StackInv, AtItem, Passed(stack'),
         NEW f, NEW c, NEW F, NEW rank, NEW n, NEW g,
         SearchInv(f, c, F, rank, n, g),
         UNCHANGED << graph, circ, dup, marker >>,
         g = Len(stack) =>
           Item = Nil \/ Item \in F \/ (Item \in c[Top.obj] /\ circ)
  PROVE  SearchInv(f, c, F, rank, n, g)'
<1>1. /\ Len(stack) \in Nat \ {0} /\ Len(stack') = Len(stack)
      /\ g \in Nat /\ g <= Len(stack)
      /\ \A k \in 1 .. Len(stack) :
           /\ stack'[k].obj = stack[k].obj /\ stack'[k].at = stack[k].at
           /\ stack'[k].next = IF k = Len(stack) THEN stack[k].next + 1
                               ELSE stack[k].next
  BY ItemIs, TopIs DEF Passed, SameFrames
<1>2. Tree(graph, marker, f, c)' /\ Closed(c, F, rank)'
  BY DEF SearchInv, Closed
<1>3. Ranked(F, rank, n, g)'
  BY <1>1 DEF SearchInv, Ranked
<1>4. FirstTime(f, c, F, g)'
  <2>1. \A k \in 1 .. g : stack'[k].obj = stack[k].obj
                          /\ stack'[k].at = stack[k].at
    BY <1>1
  <2>2. { stack'[k].obj : k \in 1 .. g } = { stack[k].obj : k \in 1 .. g }
    BY <2>1
  <2>3. \A k \in 1 .. g : { stack'[j].obj : j \in 1 .. k }
                          = { stack[j].obj : j \in 1 .. k }
    BY <1>1, <2>1
  <2> QED
    BY <2>1, <2>2, <2>3 DEF SearchInv, FirstTime
<1>5. WrittenAgain(F, rank, g)'
  <2>1. \A k \in g + 1 .. Len(stack) : stack'[k].obj = stack[k].obj
    BY <1>1
  <2> QED
    BY <1>1, <2>1 DEF SearchInv, WrittenAgain
<1>6. Visited(c, F, g)'
  <2> SUFFICES ASSUME NEW k \in 1 .. g, NEW r \in 1 .. stack'[k].next - 1
               PROVE  \/ graph[stack[k].obj][r] = Nil
                      \/ graph[stack[k].obj][r] \in F
                      \/ graph[stack[k].obj][r] \in c[stack[k].obj] /\ circ
                      \/ k < g /\ r = stack'[k].next - 1
    BY <1>1 DEF Visited
  <2>1. r \in 1 .. stack[k].next - 1 =>
           \/ graph[stack[k].obj][r] = Nil
           \/ graph[stack[k].obj][r] \in F
           \/ graph[stack[k].obj][r] \in c[stack[k].obj] /\ circ
           \/ k < g /\ r = stack[k].next - 1
    BY DEF SearchInv, Visited
  <2>2. k \in 1 .. Len(stack) /\ stack[k].next \in Nat
    BY <1>1, FrameIs DEF TypeInv
  <2>3. CASE k # Len(stack)
    BY <1>1, <2>1, <2>2, <2>3
  <2>4. CASE k = Len(stack)
    <3>1. g = Len(stack) /\ Top = stack[k]
      BY <1>1, <2>4 DEF Top
    <3>2. Item = graph[stack[k].obj][stack[k].next]
      BY <3>1 DEF Item
    <3>3. r = stack[k].next \/ r \in 1 .. stack[k].next - 1
      BY <1>1, <2>2, <2>4
    <3> QED
      BY <2>1, <2>4, <3>1, <3>2, <3>3
  <2> QED
    BY <2>3, <2>4
<1> QED
  BY <1>2, <1>3, <1>4, <1>5, <1>6 DEF SearchInv

(* What entering an item leaves of the calls there were.                   *)
LEMMA PushedFacts ==
  ASSUME TypeInv, StackInv, AtItem, Pushed(stack')
  PROVE  /\ Len(stack) \in Nat \ {0} /\ Len(stack') = Len(stack) + 1
         /\ \A k \in 1 .. Len(stack) :
              /\ stack'[k].obj = stack[k].obj /\ stack'[k].at = stack[k].at
              /\ stack'[k].next = IF k = Len(stack) THEN stack[k].next + 1
                                  ELSE stack[k].next
         /\ stack'[Len(stack) + 1].obj = Item
         /\ stack'[Len(stack) + 1].at = Append(Top.at, Top.next)
         /\ stack'[Len(stack) + 1].next = 1
BY ItemIs DEF Pushed, SameFrames

(* An object is entered for the first time: one more of the first g.       *)
LEMMA SearchFirst ==
  ASSUME TypeInv, StackInv, AtItem, Pushed(stack'),
         NEW f, NEW c, NEW F, NEW rank, NEW n, NEW g,
         SearchInv(f, c, F, rank, n, g),
         UNCHANGED << graph, circ, dup >>,
         g = Len(stack), Item \notin MarkedIn(marker),
         MarkedIn(marker') = MarkedIn(marker) \cup {Item},
         NEW f2, NEW c2, Tree(graph, marker', f2, c2),
         \A y \in MarkedIn(marker) : f2[y] = f[y] /\ c2[y] = c[y],
         f2[Item] = Append(f[Top.obj], Top.next),
         c2[Item] = {Item} \cup c[Top.obj]
  PROVE  SearchInv(f2, c2, F, rank, n, g + 1)'
<1>1. /\ Len(stack) \in Nat \ {0} /\ Len(stack') = Len(stack) + 1
      /\ \A k \in 1 .. Len(stack) :
           /\ stack'[k].obj = stack[k].obj /\ stack'[k].at = stack[k].at
           /\ stack'[k].next = IF k = Len(stack) THEN stack[k].next + 1
                               ELSE stack[k].next
      /\ stack'[Len(stack) + 1].obj = Item
      /\ stack'[Len(stack) + 1].at = Append(Top.at, Top.next)
      /\ stack'[Len(stack) + 1].next = 1
  BY PushedFacts
<1>2. /\ F \subseteq MarkedIn(marker)
      /\ \A k \in 1 .. g : stack[k].obj \in MarkedIn(marker)
      /\ MarkedIn(marker) = F \cup { stack[k].obj : k \in 1 .. g }
  BY DEF SearchInv, FirstTime
<1>3. Tree(graph, marker, f2, c2)'
  OBVIOUS
<1>4. Ranked(F, rank, n, g + 1)'
  BY <1>1 DEF SearchInv, Ranked
<1>5. FirstTime(f2, c2, F, g + 1)'
  <2>1. \A k \in 1 .. g : stack'[k].obj = stack[k].obj
                          /\ stack'[k].at = stack[k].at
    BY <1>1
  <2>2. ASSUME NEW i \in 0 .. g
        PROVE  { stack'[k].obj : k \in 1 .. i } = { stack[k].obj : k \in 1 .. i }
    BY <1>1, <2>1
  <2>3. { stack'[k].obj : k \in 1 .. g + 1 }
          = { stack[k].obj : k \in 1 .. g } \cup {Item}
    <3>1. \A k \in 1 .. g + 1 : k \in 1 .. g \/ k = Len(stack) + 1
      BY <1>1
    <3>2. \A k \in 1 .. g : k \in 1 .. g + 1
      BY <1>1
    <3>3. Len(stack) + 1 \in 1 .. g + 1
      BY <1>1
    <3> QED
      BY <1>1, <2>1, <3>1, <3>2, <3>3
  <2>4. MarkedIn(marker') = F \cup { stack'[k].obj : k \in 1 .. g + 1 }
    BY <1>2, <2>3
  <2>5. ASSUME NEW k \in 1 .. g
        PROVE  /\ stack'[k].obj \notin F
               /\ f2[stack'[k].obj] = stack'[k].at
               /\ c2[stack'[k].obj] = { stack'[j].obj : j \in 1 .. k }
    <3>1. /\ stack[k].obj \notin F /\ f[stack[k].obj] = stack[k].at
          /\ c[stack[k].obj] = { stack[j].obj : j \in 1 .. k }
      BY DEF SearchInv, FirstTime
    <3>2. k \in 0 .. g
      BY <1>1
    <3>3. { stack'[j].obj : j \in 1 .. k } = { stack[j].obj : j \in 1 .. k }
      BY <2>2, <3>2
    <3> QED
      BY <1>2, <2>1, <3>1, <3>3
  <2>6. /\ Item \notin F
        /\ f2[Item] = stack'[g + 1].at
        /\ c2[Item] = { stack'[j].obj : j \in 1 .. g + 1 }
    <3>1. f[Top.obj] = Top.at /\ Top = stack[g] /\ g \in 1 .. g
      BY <1>1, ItemIs, TopIs
    <3>2. c[Top.obj] = { stack[j].obj : j \in 1 .. g }
      BY <3>1 DEF SearchInv, FirstTime
    <3> QED
      BY <1>1, <1>2, <2>3, <3>1, <3>2
  <2>7. ASSUME NEW k \in 1 .. g + 1
        PROVE  /\ stack'[k].obj \notin F
               /\ f2[stack'[k].obj] = stack'[k].at
               /\ c2[stack'[k].obj] = { stack'[j].obj : j \in 1 .. k }
    <3>1. CASE k \in 1 .. g
      BY <2>5, <3>1
    <3>2. CASE k = g + 1
      BY <1>1, <2>6, <3>2
    <3> QED
      BY <1>1, <3>1, <3>2
  <2> QED
    BY <2>4, <2>7 DEF FirstTime
<1>6. WrittenAgain(F, rank, g + 1)'
  BY <1>1 DEF WrittenAgain
<1>7. Closed(c2, F, rank)'
  BY <1>2 DEF SearchInv, Closed
<1>8. Visited(c2, F, g + 1)'
  <2> SUFFICES ASSUME NEW k \in 1 .. g + 1, NEW r \in 1 .. stack'[k].next - 1
               PROVE  \/ graph[stack'[k].obj][r] = Nil
                      \/ graph[stack'[k].obj][r] \in F
                      \/ graph[stack'[k].obj][r] \in c2[stack'[k].obj] /\ circ
                      \/ k < g + 1 /\ r = stack'[k].next - 1
    BY DEF Visited
  <2>1. CASE k = g + 1
    BY <1>1, <2>1
  <2>2. CASE k \in 1 .. g
    <3>1. r \in 1 .. stack[k].next - 1 =>
            \/ graph[stack[k].obj][r] = Nil
            \/ graph[stack[k].obj][r] \in F
            \/ graph[stack[k].obj][r] \in c[stack[k].obj] /\ circ
            \/ k < g /\ r = stack[k].next - 1
      BY <2>2 DEF SearchInv, Visited
    <3>2. stack[k].next \in Nat /\ c2[stack[k].obj] = c[stack[k].obj]
          /\ stack'[k].obj = stack[k].obj /\ k < g + 1
      <4>1. k \in 1 .. Len(stack) /\ stack \in Seq(Frames)
        BY <2>2 DEF TypeInv
      <4>2. stack[k].next \in Nat
        BY <4>1, FrameIs
      <4>3. c2[stack[k].obj] = c[stack[k].obj]
        BY <1>2, <2>2
      <4>4. stack'[k].obj = stack[k].obj /\ k < g + 1
        BY <1>1, <2>2, <4>1
      <4> QED
        BY <4>2, <4>3, <4>4
    <3>3. CASE r = stack'[k].next - 1
      BY <3>2, <3>3
    <3>4. CASE r # stack'[k].next - 1
      <4>1. k < Len(stack) => stack'[k].next = stack[k].next
        BY <1>1, <2>2
      <4>2. k = Len(stack) => stack'[k].next = stack[k].next + 1
        BY <1>1, <2>2
      <4>3. r \in 1 .. stack[k].next - 1
        BY <1>1, <2>2, <3>2, <3>4, <4>1, <4>2
      <4>4. ~(k < g /\ r = stack[k].next - 1)
        BY <3>4, <4>1
      <4> QED
        BY <3>1, <3>2, <4>3, <4>4
    <3> QED
      BY <3>3, <3>4
  <2> QED
    BY <1>1, <2>1, <2>2
<1> QED
  BY <1>3, <1>4, <1>5, <1>6, <1>7, <1>8 DEF SearchInv

(* An object is entered again: it was left, and it ranks below the one it  *)
(* is met in.                                                              *)
LEMMA SearchAgain ==
  ASSUME TypeInv, StackInv, AtItem, Pushed(stack'), ~dup,
         NEW f, NEW c, NEW F, NEW rank, NEW n, NEW g,
         SearchInv(f, c, F, rank, n, g),
         UNCHANGED << graph, circ, dup, marker >>,
         Item \in F, g < Len(stack) => rank[Item] < rank[Top.obj]
  PROVE  SearchInv(f, c, F, rank, n, g)'
<1>1. /\ Len(stack) \in Nat \ {0} /\ Len(stack') = Len(stack) + 1
      /\ g \in Nat /\ g <= Len(stack) /\ Top = stack[Len(stack)]
      /\ \A k \in 1 .. Len(stack) :
           /\ stack'[k].obj = stack[k].obj /\ stack'[k].at = stack[k].at
           /\ stack'[k].next = IF k = Len(stack) THEN stack[k].next + 1
                               ELSE stack[k].next
      /\ stack'[Len(stack) + 1].obj = Item
  BY PushedFacts, ItemIs, TopIs
<1>2. Tree(graph, marker, f, c)' /\ Closed(c, F, rank)'
  BY DEF SearchInv, Closed
<1>3. Ranked(F, rank, n, g)'
  BY <1>1 DEF SearchInv, Ranked
<1>4. FirstTime(f, c, F, g)'
  <2>1. \A k \in 1 .. g : stack'[k].obj = stack[k].obj
                          /\ stack'[k].at = stack[k].at
    BY <1>1
  <2>2. { stack'[k].obj : k \in 1 .. g } = { stack[k].obj : k \in 1 .. g }
    BY <2>1
  <2>3. \A k \in 1 .. g : { stack'[j].obj : j \in 1 .. k }
                          = { stack[j].obj : j \in 1 .. k }
    BY <1>1, <2>1
  <2> QED
    BY <2>1, <2>2, <2>3 DEF SearchInv, FirstTime
<1>5. WrittenAgain(F, rank, g)'
  <2>1. ASSUME NEW k \in g + 1 .. Len(stack') PROVE stack'[k].obj \in F
    BY <1>1 DEF SearchInv, WrittenAgain
  <2>2. ASSUME NEW j \in g + 1 .. Len(stack'), NEW k \in g + 1 .. Len(stack'),
               j < k
        PROVE  rank[stack'[k].obj] < rank[stack'[j].obj]
    <3>1. j \in g + 1 .. Len(stack) /\ stack'[j].obj = stack[j].obj
      BY <1>1, <2>2
    <3>2. CASE k \in g + 1 .. Len(stack)
      BY <1>1, <2>2, <3>1, <3>2 DEF SearchInv, WrittenAgain
    <3>3. CASE k = Len(stack) + 1
      <4>1. rank[Item] < rank[Top.obj] /\ Len(stack) \in g + 1 .. Len(stack)
        BY <1>1, <3>1
      <4>2. j = Len(stack) \/ rank[Top.obj] < rank[stack[j].obj]
        BY <1>1, <3>1, <4>1 DEF SearchInv, WrittenAgain
      <4>3. \A x \in Objects : rank[x] \in Nat
        BY DEF SearchInv, Ranked
      <4>4. Item \in Objects /\ Top.obj \in Objects /\ stack[j].obj \in Objects
        <5>1. j \in 1 .. Len(stack) /\ stack \in Seq(Frames)
          BY <1>1, <3>1 DEF TypeInv
        <5>2. stack[j].obj \in Objects
          BY <5>1, FrameIs
        <5>3. F \subseteq Objects
          BY DEF SearchInv, Ranked
        <5> QED
          BY <5>2, <5>3, ItemIs
      <4> QED
        BY <1>1, <3>1, <3>3, <4>1, <4>2, <4>3, <4>4
    <3> QED
      BY <1>1, <3>2, <3>3
  <2> QED
    BY <2>1, <2>2 DEF WrittenAgain
<1>6. Visited(c, F, g)'
  <2> SUFFICES ASSUME NEW k \in 1 .. g, NEW r \in 1 .. stack'[k].next - 1
               PROVE  \/ graph[stack[k].obj][r] = Nil
                      \/ graph[stack[k].obj][r] \in F
                      \/ graph[stack[k].obj][r] \in c[stack[k].obj] /\ circ
                      \/ k < g /\ r = stack'[k].next - 1
    BY <1>1 DEF Visited
  <2>1. r \in 1 .. stack[k].next - 1 =>
           \/ graph[stack[k].obj][r] = Nil
           \/ graph[stack[k].obj][r] \in F
           \/ graph[stack[k].obj][r] \in c[stack[k].obj] /\ circ
           \/ k < g /\ r = stack[k].next - 1
    BY DEF SearchInv, Visited
  <2>2. k \in 1 .. Len(stack) /\ stack[k].next \in Nat
    BY <1>1, FrameIs DEF TypeInv
  <2>3. CASE k # Len(stack)
    BY <1>1, <2>1, <2>2, <2>3
  <2>4. CASE k = Len(stack)
    <3>1. Item = graph[stack[k].obj][stack[k].next]
      BY <1>1, <2>4 DEF Item
    <3>2. r = stack[k].next \/ r \in 1 .. stack[k].next - 1
      BY <1>1, <2>2, <2>4
    <3> QED
      BY <1>1, <2>1, <2>4, <3>1, <3>2
  <2> QED
    BY <2>3, <2>4
<1> QED
  BY <1>2, <1>3, <1>4, <1>5, <1>6 DEF SearchInv

(* An object is left: for the first time, and then all that it refers to   *)
(* has a rank below the one it gets; or again.                             *)
LEMMA SearchLeft ==
  ASSUME TypeInv, StackInv, Leave,
         NEW f, NEW c, NEW F, NEW rank, NEW n, NEW g,
         SearchInv(f, c, F, rank, n, g), g = Len(stack), NEW o, o = Top.obj
  PROVE  SearchInv(f, c, F \cup {o}, [rank EXCEPT ![o] = n], n + 1, g - 1)'
<1> DEFINE F2 == F \cup {o}
           rank2 == [rank EXCEPT ![o] = n]
<1>1. /\ stack' \in Seq(Frames) /\ Len(stack') = Len(stack) - 1
      /\ Len(stack) \in Nat \ {0}
      /\ \A k \in 1 .. Len(stack) - 1 : stack'[k] = stack[k]
  BY StackPopped
<1>2. UNCHANGED << graph, circ, dup, marker >>
  BY DEF Leave, sender
<1>3. /\ o \in MarkedIn(marker) /\ o \notin F /\ o = stack[Len(stack)].obj
      /\ c[o] \cup F = MarkedIn(marker) /\ o \in Objects /\ stack # <<>>
  <2>1. stack # <<>>
    BY DEF Leave, Walking
  <2> QED
    BY <2>1, TopIs DEF MarkedIn
<1>4. /\ rank \in [Objects -> Nat] /\ n \in Nat /\ F \in SUBSET Objects
      /\ \A x \in F : rank[x] < n
  BY DEF SearchInv, Ranked
<1>5. /\ rank2 \in [Objects -> Nat] /\ rank2[o] = n
      /\ \A x \in F : rank2[x] = rank[x]
  BY <1>3, <1>4
<1>6. /\ F2 \in SUBSET Objects /\ o \in F2 /\ F \subseteq F2
      /\ \A x \in F2 : x = o \/ x \in F
  BY <1>3, <1>4
<1> HIDE DEF rank2
<1>7. Tree(graph, marker, f, c)'
  BY <1>2 DEF SearchInv
<1>8. Ranked(F2, rank2, n + 1, g - 1)'
  <2>1. \A x \in F2 : rank2[x] < n + 1
    BY <1>4, <1>5, <1>6
  <2>2. g - 1 \in 0 .. Len(stack')
    BY <1>1
  <2> QED
    BY <1>4, <1>5, <1>6, <2>1, <2>2 DEF Ranked
<1>9. FirstTime(f, c, F2, g - 1)'
  <2>1. \A k \in 1 .. g - 1 : stack'[k] = stack[k] /\ k \in 1 .. g
    BY <1>1
  <2>2. { stack'[k].obj : k \in 1 .. g - 1 } = { stack[k].obj : k \in 1 .. g - 1 }
    BY <2>1
  <2>3. { stack[k].obj : k \in 1 .. g }
          = { stack[k].obj : k \in 1 .. g - 1 } \cup {o}
    <3>1. \A k \in 1 .. g : k \in 1 .. g - 1 \/ k = g
      BY <1>1
    <3>2. g \in 1 .. g /\ \A k \in 1 .. g - 1 : k \in 1 .. g
      BY <1>1
    <3> QED
      BY <1>3, <3>1, <3>2
  <2>4. MarkedIn(marker) = F2 \cup { stack'[k].obj : k \in 1 .. g - 1 }
    BY <2>2, <2>3 DEF SearchInv, FirstTime
  <2>5. ASSUME NEW k \in 1 .. g - 1
        PROVE  /\ stack'[k].obj \notin F2
               /\ f[stack'[k].obj] = stack'[k].at
               /\ c[stack'[k].obj] = { stack'[j].obj : j \in 1 .. k }
    <3>1. /\ stack[k].obj \notin F /\ f[stack[k].obj] = stack[k].at
          /\ c[stack[k].obj] = { stack[j].obj : j \in 1 .. k }
      BY <2>1 DEF SearchInv, FirstTime
    <3>2. stack[k].obj # o
      <4>1. f[o] = stack[g].at /\ Len(stack[g].at) = g - 1
        BY <1>1, <1>3 DEF SearchInv, FirstTime, StackInv
      <4>2. Len(stack[k].at) = k - 1
        BY <2>1 DEF StackInv
      <4> QED
        BY <1>1, <3>1, <4>1, <4>2
    <3>3. \A j \in 1 .. k : stack'[j] = stack[j]
      BY <1>1, <2>1
    <3>4. { stack'[j].obj : j \in 1 .. k } = { stack[j].obj : j \in 1 .. k }
      BY <3>3
    <3> QED
      BY <2>1, <3>1, <3>2, <3>4
  <2> HIDE DEF F2
  <2> QED
    BY <1>2, <2>4, <2>5 DEF FirstTime
<1>10. WrittenAgain(F2, rank2, g - 1)'
  BY <1>1 DEF WrittenAgain
<1>11. Closed(c, F2, rank2)'
  <2> SUFFICES ASSUME NEW x \in F2, NEW r \in Refs
               PROVE  \/ graph[x][r] = Nil
                      \/ graph[x][r] \in F2 /\ rank2[graph[x][r]] < rank2[x]
                      \/ graph[x][r] \in c[x] /\ circ
    BY <1>2 DEF Closed
  <2>1. CASE x \in F
    <3>1. \/ graph[x][r] = Nil
          \/ graph[x][r] \in F /\ rank[graph[x][r]] < rank[x]
          \/ graph[x][r] \in c[x] /\ circ
      BY <2>1 DEF SearchInv, Closed
    <3> QED
      BY <2>1, <3>1, <1>5, <1>6
  <2>2. CASE x = o
    <3>1. g \in 1 .. g /\ stack[g].obj = o
      BY <1>1, <1>3
    <3>2. stack[g].next = Width + 1 /\ Width \in Nat
      <4>1. stack[g].next \in 1 .. Width + 1 /\ Width \in Nat
        BY <1>1, FrameIs DEF TypeInv
      <4>2. stack[g].next \notin 1 .. Width
        BY DEF Leave, Top, Refs
      <4> QED
        BY <4>1, <4>2
    <3>3. r \in 1 .. stack[g].next - 1
      BY <3>2 DEF Refs
    <3>4. \/ graph[o][r] = Nil
          \/ graph[o][r] \in F
          \/ graph[o][r] \in c[o] /\ circ
          \/ g < g /\ r = stack[g].next - 1
      BY <3>1, <3>3 DEF SearchInv, Visited
    <3>5. ~(g < g)
      BY <1>1
    <3> QED
      BY <2>2, <3>4, <3>5, <1>4, <1>5, <1>6
  <2> QED
    BY <2>1, <2>2
<1>12. Visited(c, F2, g - 1)'
  <2> SUFFICES ASSUME NEW k \in 1 .. g - 1, NEW r \in 1 .. stack'[k].next - 1
               PROVE  \/ graph[stack'[k].obj][r] = Nil
                      \/ graph[stack'[k].obj][r] \in F2
                      \/ graph[stack'[k].obj][r] \in c[stack'[k].obj] /\ circ
                      \/ k < g - 1 /\ r = stack'[k].next - 1
    BY <1>2 DEF Visited
  <2>1. stack'[k] = stack[k] /\ k \in 1 .. g
    BY <1>1
  <2>2. \/ graph[stack[k].obj][r] = Nil
        \/ graph[stack[k].obj][r] \in F
        \/ graph[stack[k].obj][r] \in c[stack[k].obj] /\ circ
        \/ k < g /\ r = stack[k].next - 1
    BY <2>1 DEF SearchInv, Visited
  <2>3. CASE k = g - 1 /\ r = stack[k].next - 1
    <3>1. k \in 1 .. Len(stack) - 1 /\ k + 1 = Len(stack)
      BY <1>1, <2>3
    <3>2. stack[k + 1].obj = graph[stack[k].obj][stack[k].next - 1]
      BY <3>1 DEF StackInv
    <3> QED
      BY <1>3, <1>6, <2>1, <2>3, <3>1, <3>2
  <2>4. CASE k # g - 1 \/ r # stack[k].next - 1
    <3>1. k < g /\ r = stack[k].next - 1 => k < g - 1
      BY <1>1, <2>4
    <3> QED
      BY <1>6, <2>1, <2>2, <3>1
  <2> QED
    BY <2>3, <2>4
<1> HIDE DEF F2
<1>13. SearchInv(f, c, F2, rank2, n + 1, g - 1)'
  BY <1>7, <1>8, <1>9, <1>10, <1>11, <1>12 DEF SearchInv
<1> QED
  BY <1>13 DEF F2, rank2

(* When an object that is written again is left, nothing is learnt.        *)
LEMMA SearchLeftAgain ==
  ASSUME TypeInv, StackInv, Leave,
         NEW f, NEW c, NEW F, NEW rank, NEW n, NEW g,
         SearchInv(f, c, F, rank, n, g), g < Len(stack)
  PROVE  SearchInv(f, c, F, rank, n, g)'
<1>1. /\ stack' \in Seq(Frames) /\ Len(stack') = Len(stack) - 1
      /\ Len(stack) \in Nat \ {0} /\ g \in Nat
      /\ \A k \in 1 .. Len(stack) - 1 : stack'[k] = stack[k]
  BY StackPopped DEF SearchInv, Ranked
<1>2. UNCHANGED << graph, circ, dup, marker >>
  BY DEF Leave, sender
<1>3. Tree(graph, marker, f, c)' /\ Closed(c, F, rank)'
  BY <1>2 DEF SearchInv, Closed
<1>4. Ranked(F, rank, n, g)'
  BY <1>1 DEF SearchInv, Ranked
<1>5. \A k \in 1 .. g : stack'[k] = stack[k]
  BY <1>1
<1>6. FirstTime(f, c, F, g)'
  <2>1. { stack'[k].obj : k \in 1 .. g } = { stack[k].obj : k \in 1 .. g }
    BY <1>5
  <2>2. \A k \in 1 .. g : { stack'[j].obj : j \in 1 .. k }
                          = { stack[j].obj : j \in 1 .. k }
    BY <1>1, <1>5
  <2> QED
    BY <1>2, <1>5, <2>1, <2>2 DEF SearchInv, FirstTime
<1>7. WrittenAgain(F, rank, g)'
  <2>1. \A k \in g + 1 .. Len(stack') : /\ stack'[k] = stack[k]
                                        /\ k \in g + 1 .. Len(stack)
    BY <1>1
  <2>2. ~dup
    BY DEF SearchInv, WrittenAgain
  <2> QED
    BY <1>2, <2>1, <2>2 DEF SearchInv, WrittenAgain
<1>8. Visited(c, F, g)'
  BY <1>2, <1>5 DEF SearchInv, Visited
<1> QED
  BY <1>3, <1>4, <1>6, <1>7, <1>8 DEF SearchInv

-----------------------------------------------------------------------------
(* The verdict: an object that is met inside itself, and none that is.     *)
(* Paths are sequences of references, and all of the short ones.           *)
LEMMA PathsAre ==
  /\ \A p \in Paths : p \in Seq(Refs)
  /\ \A p \in Seq(Refs) : Len(p) <= Cardinality(Objects) => p \in Paths
<1>1. Cardinality(Objects) \in Nat
  BY FS_CardinalityType, MarshalAssumption
<1>2. ASSUME NEW p \in Paths PROVE p \in Seq(Refs)
  <2>1. PICK k \in 0 .. Cardinality(Objects) : p \in [1 .. k -> Refs]
    BY DEF Paths
  <2>2. k \in Nat
    BY <1>1
  <2> QED
    BY <2>1, <2>2
<1>3. ASSUME NEW p \in Seq(Refs), Len(p) <= Cardinality(Objects)
      PROVE  p \in Paths
  <2>1. Len(p) \in 0 .. Cardinality(Objects) /\ p \in [1 .. Len(p) -> Refs]
    BY <1>1, <1>3
  <2> QED
    BY <2>1 DEF Paths
<1> QED
  BY <1>2, <1>3

(* The two ways to say that a path begins with another.                    *)
LEMMA PrefixIs ==
  ASSUME NEW S, NEW p \in Seq(S), NEW q \in Seq(S)
  PROVE  /\ Prefix(p, q) =>
              Len(p) <= Len(q) /\ SubSeq(q, 1, Len(p)) = p
         /\ Len(p) <= Len(q) /\ SubSeq(q, 1, Len(p)) = p => Prefix(p, q)
<1>1. Len(p) \in Nat /\ Len(q) \in Nat
  OBVIOUS
<1>2. ASSUME Len(p) <= Len(q)
      PROVE  /\ SubSeq(q, 1, Len(p)) \in Seq(S)
             /\ Len(SubSeq(q, 1, Len(p))) = Len(p)
             /\ \A k \in 1 .. Len(p) : SubSeq(q, 1, Len(p))[k] = q[k]
  <2>1. \A k \in 1 .. Len(p) : q[k] \in S
    BY <1>1, <1>2
  <2> QED
    BY <1>1, <1>2, <2>1
<1>3. ASSUME Prefix(p, q) PROVE SubSeq(q, 1, Len(p)) = p
  <2>1. Len(p) <= Len(q) /\ \A k \in 1 .. Len(p) : p[k] = q[k]
    BY <1>3 DEF Prefix
  <2> QED
    BY <1>1, <1>2, <2>1
<1>4. ASSUME Len(p) <= Len(q), SubSeq(q, 1, Len(p)) = p PROVE Prefix(p, q)
  BY <1>2, <1>4 DEF Prefix
<1> QED
  BY <1>3, <1>4 DEF Prefix

(* An object met inside itself: its own path, and that path prolonged to   *)
(* the place where it was met, are the witnesses.                          *)
LEMMA CircularIsCyclic ==
  ASSUME TypeInv, StackInv, NEW f, NEW c, NEW F, NEW rank, NEW n, NEW g,
         SearchInv(f, c, F, rank, n, g), Met, Circular
  PROVE  Cyclic
<1> DEFINE o == Top.obj
           p == f[Item]
           q == Append(f[o], Top.next)
<1>1. /\ AtItem /\ stack # <<>> /\ Top.next \in Refs /\ Item \in Objects
      /\ Item = graph[o][Top.next] /\ Item # Nil
  BY ItemIs DEF Met
<1>2. o \in MarkedIn(marker) /\ Item \in MarkedIn(marker) /\ Item \in c[o]
  BY <1>1, TopIs, MetIs
<1>3. /\ f[o] \in Seq(Refs) /\ p \in Seq(Refs)
      /\ Find(graph, Root, f[o]) = o /\ Find(graph, Root, p) = Item
      /\ Prefix(p, f[o])
      /\ IsFiniteSet(c[o]) /\ Cardinality(c[o]) = Len(f[o]) + 1
      /\ c[o] \subseteq Objects
  BY <1>2 DEF SearchInv, Tree
<1>4. /\ q \in Seq(Refs) /\ Len(q) = Len(f[o]) + 1 /\ Len(f[o]) \in Nat
      /\ \A k \in 1 .. Len(f[o]) : q[k] = f[o][k]
  BY <1>1, <1>3, AppendIs
<1>5. Find(graph, Root, q) = Item
  <2>1. o # Nil
    BY <1>2, MarshalAssumption DEF MarkedIn
  <2> QED
    BY <1>1, <1>3, <2>1, FindAppend
<1> HIDE DEF p, q, o
<1>6. Len(p) \in Nat /\ Len(p) < Len(q) /\ Prefix(p, q)
  BY <1>3, <1>4 DEF Prefix
<1>7. SubSeq(q, 1, Len(p)) = p
  BY <1>3, <1>4, <1>6, PrefixIs
<1>8. p \in Paths /\ q \in Paths
  <2>1. Cardinality(c[o]) <= Cardinality(Objects)
    BY <1>3, FS_Subset, MarshalAssumption
  <2>2. Cardinality(Objects) \in Nat
    BY FS_CardinalityType, MarshalAssumption
  <2>3. Len(q) <= Cardinality(Objects)
    BY <1>3, <1>4, <2>1
  <2>4. Len(p) <= Cardinality(Objects)
    BY <1>4, <1>6, <2>2, <2>3
  <2> QED
    BY <1>3, <1>4, <2>3, <2>4, PathsAre
<1> QED
  BY <1>1, <1>3, <1>5, <1>6, <1>7, <1>8 DEF Cyclic, Sent

(* If all references go down, a path is nowhere where it has been.         *)
LEMMA RankedIsAcyclic ==
  ASSUME graph \in Graphs, NEW F \in SUBSET Objects,
         NEW rank \in [Objects -> Nat], Root \in F,
         \A o \in F : \A r \in Refs :
           \/ graph[o][r] = Nil
           \/ graph[o][r] \in F /\ rank[graph[o][r]] < rank[o]
  PROVE  ~Cyclic
<1> DEFINE T == { q \in Seq(Refs) : Sent(q) = Nil \/
                    /\ Sent(q) \in F
                    /\ \A p \in Seq(Refs) : Prefix(p, q) /\ Len(p) < Len(q) =>
                         Sent(p) \in F /\ rank[Sent(q)] < rank[Sent(p)] }
<1>1. <<>> \in T
  <2>1. Sent(<<>>) \in F
    BY FindEmpty DEF Sent
  <2>2. \A p \in Seq(Refs) : ~(Len(p) < Len(<<>>))
    OBVIOUS
  <2> QED
    BY <2>1, <2>2
<1>2. ASSUME NEW q \in Seq(Refs), q \in T, NEW r \in Refs
      PROVE  Append(q, r) \in T
  <2> DEFINE u == Append(q, r)
  <2>1. /\ u \in Seq(Refs) /\ Len(u) = Len(q) + 1 /\ Len(q) \in Nat
        /\ \A k \in 1 .. Len(q) : u[k] = q[k]
    BY AppendIs
  <2>2. Sent(u) = IF Sent(q) = Nil THEN Nil ELSE graph[Sent(q)][r]
    BY FindAppend DEF Sent
  <2> HIDE DEF u
  <2> SUFFICES ASSUME Sent(u) # Nil
               PROVE  /\ Sent(u) \in F
                      /\ \A p \in Seq(Refs) : Prefix(p, u) /\ Len(p) < Len(u) =>
                           Sent(p) \in F /\ rank[Sent(u)] < rank[Sent(p)]
    BY <2>1 DEF u
  <2>3. /\ Sent(q) # Nil /\ Sent(q) \in F
        /\ \A p \in Seq(Refs) : Prefix(p, q) /\ Len(p) < Len(q) =>
             Sent(p) \in F /\ rank[Sent(q)] < rank[Sent(p)]
    BY <1>2, <2>2
  <2>4. Sent(u) \in F /\ rank[Sent(u)] < rank[Sent(q)]
    BY <2>2, <2>3
  <2>5. ASSUME NEW p \in Seq(Refs), Prefix(p, u), Len(p) < Len(u)
        PROVE  Sent(p) \in F /\ rank[Sent(u)] < rank[Sent(p)]
    <3>1. Len(p) \in Nat /\ Len(p) <= Len(q) /\ Prefix(p, q)
      <4>1. /\ Len(p) \in Nat /\ Len(p) <= Len(q)
            /\ \A k \in 1 .. Len(p) : p[k] = u[k]
        BY <2>1, <2>5 DEF Prefix
      <4>2. \A k \in 1 .. Len(p) : k \in 1 .. Len(q)
        BY <2>1, <4>1
      <4> QED
        BY <2>1, <4>1, <4>2 DEF Prefix
    <3>2. CASE Len(p) = Len(q)
      <4>1. p = q
        BY <3>1, <3>2 DEF Prefix
      <4> QED
        BY <2>3, <2>4, <4>1
    <3>3. CASE Len(p) < Len(q)
      <4>1. Sent(p) \in F /\ rank[Sent(q)] < rank[Sent(p)]
        BY <2>3, <3>1, <3>3
      <4>2. \A x \in F : rank[x] \in Nat
        OBVIOUS
      <4> QED
        BY <2>3, <2>4, <4>1, <4>2
    <3> QED
      BY <2>1, <3>1, <3>2, <3>3
  <2> QED
    BY <2>4, <2>5
<1>3. \A q \in Seq(Refs) : q \in T
  <2> HIDE DEF T
  <2> QED
    BY <1>1, <1>2, PathInduction
<1> SUFFICES ASSUME NEW p \in Paths, NEW q \in Paths, Sent(p) # Nil,
                    Sent(p) = Sent(q), Len(p) < Len(q),
                    SubSeq(q, 1, Len(p)) = p
             PROVE  FALSE
  BY DEF Cyclic
<1>4. p \in Seq(Refs) /\ q \in Seq(Refs)
  BY PathsAre
<1>5. Prefix(p, q)
  <2>1. Len(p) <= Len(q)
    BY <1>4
  <2> QED
    BY <1>4, <2>1, PrefixIs
<1>6. Sent(p) \in F /\ rank[Sent(q)] < rank[Sent(p)]
  BY <1>3, <1>4, <1>5
<1> QED
  BY <1>6

-----------------------------------------------------------------------------
(* The wire: what is written, left out and still to be visited.            *)
LEMMA Unchanged ==
  ASSUME UNCHANGED << graph, dup >>
  PROVE  /\ \A p : Sent(p)' = Sent(p)
         /\ Cyclic' = Cyclic /\ Readable' = Readable
BY DEF Sent, Cyclic, Readable

(* No two calls write at the same place.                                   *)
LEMMA PlacesDiffer ==
  ASSUME TypeInv, StackInv, NEW j \in 1 .. Len(stack), NEW k \in 1 .. Len(stack),
         stack[j].at = stack[k].at
  PROVE  j = k
<1>1. \A i \in 1 .. Len(stack) : Len(stack[i].at) = i - 1
  BY DEF StackInv
<1>2. j - 1 = k - 1
  BY <1>1
<1>3. j \in Int /\ k \in Int
  OBVIOUS
<1> QED
  BY <1>2, <1>3

(* What is still to be visited when an item is passed, when it is entered, *)
(* and when a call returns.                                                *)
LEMMA PendingPassed ==
  ASSUME TypeInv, StackInv, AtItem, Passed(stack')
  PROVE  /\ \A w : \A r \in Refs : Pending(w, r)' =>
              Pending(w, r) /\ ~(w = Top.at /\ r = Top.next)
         /\ \A w : \A r \in Refs : Pending(w, r) =>
              Pending(w, r)' \/ (w = Top.at /\ r = Top.next)
<1>1. /\ Len(stack) \in Nat \ {0} /\ Len(stack') = Len(stack)
      /\ Top = stack[Len(stack)] /\ stack \in Seq(Frames)
      /\ \A k \in 1 .. Len(stack) :
           /\ stack'[k].obj = stack[k].obj /\ stack'[k].at = stack[k].at
           /\ stack'[k].next = IF k = Len(stack) THEN stack[k].next + 1
                               ELSE stack[k].next
  BY ItemIs DEF Passed, SameFrames
<1>2. \A k \in 1 .. Len(stack) : stack[k].next \in Nat
  BY <1>1, FrameIs
<1>3. \A r \in Refs : r \in Nat
  BY DEF Refs
<1>4. ASSUME NEW w, NEW r \in Refs, Pending(w, r)'
      PROVE  Pending(w, r) /\ ~(w = Top.at /\ r = Top.next)
  <2>1. PICK k \in 1 .. Len(stack) : stack'[k].at = w /\ r >= stack'[k].next
    BY <1>1, <1>4 DEF Pending
  <2>2. stack[k].at = w /\ r >= stack[k].next
    BY <1>1, <1>2, <1>3, <2>1
  <2>3. ASSUME w = Top.at, r = Top.next PROVE FALSE
    <3>1. k = Len(stack)
      BY <1>1, <2>2, <2>3, PlacesDiffer
    <3> QED
      BY <1>1, <1>2, <2>1, <2>3, <3>1
  <2> QED
    BY <2>2, <2>3 DEF Pending
<1>5. ASSUME NEW w, NEW r \in Refs, Pending(w, r), ~(w = Top.at /\ r = Top.next)
      PROVE  Pending(w, r)'
  <2>1. PICK k \in 1 .. Len(stack) : stack[k].at = w /\ r >= stack[k].next
    BY <1>5 DEF Pending
  <2>2. stack'[k].at = w /\ r >= stack'[k].next
    BY <1>1, <1>2, <1>3, <1>5, <2>1
  <2> QED
    BY <1>1, <2>2 DEF Pending
<1> QED
  BY <1>4, <1>5

LEMMA PendingPushed ==
  ASSUME TypeInv, StackInv, AtItem, Pushed(stack')
  PROVE  /\ \A w : \A r \in Refs : Pending(w, r)' =>
              \/ Pending(w, r) /\ ~(w = Top.at /\ r = Top.next)
              \/ w = Append(Top.at, Top.next)
         /\ \A w : \A r \in Refs : Pending(w, r) =>
              Pending(w, r)' \/ (w = Top.at /\ r = Top.next)
         /\ \A w : \A r \in Refs :
              w = Append(Top.at, Top.next) => Pending(w, r)'
<1>1. /\ Len(stack) \in Nat \ {0} /\ Len(stack') = Len(stack) + 1
      /\ Top = stack[Len(stack)] /\ stack \in Seq(Frames)
      /\ \A k \in 1 .. Len(stack) :
           /\ stack'[k].obj = stack[k].obj /\ stack'[k].at = stack[k].at
           /\ stack'[k].next = IF k = Len(stack) THEN stack[k].next + 1
                               ELSE stack[k].next
      /\ stack'[Len(stack) + 1].at = Append(Top.at, Top.next)
      /\ stack'[Len(stack) + 1].next = 1
  BY PushedFacts, ItemIs
<1>2. \A k \in 1 .. Len(stack) : stack[k].next \in Nat
  BY <1>1, FrameIs
<1>3. \A r \in Refs : r \in Nat /\ r >= 1
  BY DEF Refs
<1>4. ASSUME NEW w, NEW r \in Refs, Pending(w, r)',
             w # Append(Top.at, Top.next)
      PROVE  Pending(w, r) /\ ~(w = Top.at /\ r = Top.next)
  <2>1. PICK k \in 1 .. Len(stack') : stack'[k].at = w /\ r >= stack'[k].next
    BY <1>4 DEF Pending
  <2>2. k \in 1 .. Len(stack)
    BY <1>1, <1>4, <2>1
  <2>3. stack[k].at = w /\ r >= stack[k].next
    BY <1>1, <1>2, <1>3, <2>1, <2>2
  <2>4. ASSUME w = Top.at, r = Top.next PROVE FALSE
    <3>1. k = Len(stack)
      BY <1>1, <2>2, <2>3, <2>4, PlacesDiffer
    <3> QED
      BY <1>1, <1>2, <2>1, <2>4, <3>1
  <2> QED
    BY <2>2, <2>3, <2>4 DEF Pending
<1>5. ASSUME NEW w, NEW r \in Refs, Pending(w, r), ~(w = Top.at /\ r = Top.next)
      PROVE  Pending(w, r)'
  <2>1. PICK k \in 1 .. Len(stack) : stack[k].at = w /\ r >= stack[k].next
    BY <1>5 DEF Pending
  <2>2. stack'[k].at = w /\ r >= stack'[k].next /\ k \in 1 .. Len(stack')
    BY <1>1, <1>2, <1>3, <1>5, <2>1
  <2> QED
    BY <2>2 DEF Pending
<1>6. ASSUME NEW w, NEW r \in Refs, w = Append(Top.at, Top.next)
      PROVE  Pending(w, r)'
  <2>1. Len(stack) + 1 \in 1 .. Len(stack')
    BY <1>1
  <2> QED
    BY <1>1, <1>3, <1>6, <2>1 DEF Pending
<1> QED
  BY <1>4, <1>5, <1>6

LEMMA PendingPopped ==
  ASSUME TypeInv, StackInv, Leave
  PROVE  \A w : \A r \in Refs : Pending(w, r)' <=> Pending(w, r)
<1>1. /\ Len(stack') = Len(stack) - 1 /\ Len(stack) \in Nat \ {0}
      /\ \A k \in 1 .. Len(stack) - 1 : stack'[k] = stack[k]
      /\ stack \in Seq(Frames)
  BY StackPopped DEF TypeInv
<1>2. stack[Len(stack)].next = Width + 1 /\ Width \in Nat
  <2>1. stack[Len(stack)].next \in 1 .. Width + 1 /\ Width \in Nat
    BY <1>1, FrameIs
  <2>2. stack[Len(stack)].next \notin 1 .. Width
    BY DEF Leave, Top, Refs
  <2> QED
    BY <2>1, <2>2
<1>3. ASSUME NEW w, NEW r \in Refs, Pending(w, r)' PROVE Pending(w, r)
  <2>1. PICK k \in 1 .. Len(stack') : stack'[k].at = w /\ r >= stack'[k].next
    BY <1>3 DEF Pending
  <2>2. k \in 1 .. Len(stack) /\ stack'[k] = stack[k]
    BY <1>1
  <2> QED
    BY <2>1, <2>2 DEF Pending
<1>4. ASSUME NEW w, NEW r \in Refs, Pending(w, r) PROVE Pending(w, r)'
  <2>1. PICK k \in 1 .. Len(stack) : stack[k].at = w /\ r >= stack[k].next
    BY <1>4 DEF Pending
  <2>2. k # Len(stack)
    BY <1>2, <2>1 DEF Refs
  <2>3. k \in 1 .. Len(stack') /\ stack'[k] = stack[k]
    BY <1>1, <2>2
  <2> QED
    BY <2>1, <2>3 DEF Pending
<1> QED
  BY <1>3, <1>4

(* The json and the running calls agree when an item is passed, when it is *)
(* entered, and when a call returns.                                       *)
LEMMA WalkWireAdvanced ==
  ASSUME TypeInv, StackInv, AtItem, Passed(stack'), NEW f, WireWalk(f),
         UNCHANGED << graph, dup, marker, written >>
  PROVE  WireWalk(f)'
<1>1. /\ Len(stack') = Len(stack) /\ stack \in Seq(Frames)
      /\ \A k \in 1 .. Len(stack) :
           /\ stack'[k].obj = stack[k].obj /\ stack'[k].at = stack[k].at
           /\ stack'[k].next = IF k = Len(stack) THEN stack[k].next + 1
                               ELSE stack[k].next
  BY ItemIs DEF Passed, SameFrames
<1>2. \A p : Sent(p)' = Sent(p)
  BY Unchanged
<1>3. /\ \A w \in written : Sent(w) \in MarkedIn(marker)
      /\ dup => \A w \in written : w = f[Sent(w)]
      /\ \A o \in MarkedIn(marker) : f[o] \in written
  BY DEF WireWalk
<1>4. ASSUME NEW k \in 1 .. Len(stack')
      PROVE  /\ stack'[k].at \in written
             /\ Sent(stack'[k].at) = stack'[k].obj
             /\ \A r \in Refs : r >= stack'[k].next =>
                  Append(stack'[k].at, r) \notin written
  <2>1. /\ stack[k].at \in written /\ Sent(stack[k].at) = stack[k].obj
        /\ \A r \in Refs : r >= stack[k].next =>
             Append(stack[k].at, r) \notin written
    BY <1>1 DEF WireWalk
  <2>2. stack[k].next \in Nat /\ \A r \in Refs : r \in Nat
    BY <1>1, FrameIs DEF Refs
  <2>3. \A r \in Refs : r >= stack'[k].next => r >= stack[k].next
    BY <1>1, <2>2
  <2> QED
    BY <1>1, <2>1, <2>3
<1>5. \A k : Sent(stack[k].at)' = Sent(stack'[k].at)
  BY DEF Sent
<1> QED
  BY <1>2, <1>3, <1>4, <1>5 DEF WireWalk

Place == Append(Top.at, Top.next)

LEMMA WalkWirePushed ==
  ASSUME TypeInv, StackInv, AtItem, Pushed(stack'), Item # Nil,
         NEW f, WireWalk(f), WrittenOK, UNCHANGED << graph, dup >>,
         NEW e, e = Place, written' = written \cup {e},
         MarkedIn(marker) \subseteq MarkedIn(marker'), Item \in MarkedIn(marker'),
         NEW f2, \A y \in MarkedIn(marker) : f2[y] = f[y],
         dup => f2[Item] = e,
         \A y \in MarkedIn(marker') : f2[y] \in written'
  PROVE  /\ WireWalk(f2)'
         /\ e \in Seq(Refs) /\ Sent(e) = Item /\ e \notin written
         /\ Top.at \in written /\ Sent(Top.at) = Top.obj
<1>1. /\ Len(stack) \in Nat \ {0} /\ Len(stack') = Len(stack) + 1
      /\ Top = stack[Len(stack)] /\ stack \in Seq(Frames)
      /\ Top.at \in Seq(Refs) /\ Top.next \in Refs /\ Top.obj \in Objects
      /\ Item = graph[Top.obj][Top.next]
      /\ written \subseteq Seq(Refs)
      /\ \A k \in 1 .. Len(stack) :
           /\ stack'[k].obj = stack[k].obj /\ stack'[k].at = stack[k].at
           /\ stack'[k].next = IF k = Len(stack) THEN stack[k].next + 1
                               ELSE stack[k].next
      /\ stack'[Len(stack) + 1].obj = Item
      /\ stack'[Len(stack) + 1].at = e
  BY PushedFacts, ItemIs DEF TypeInv, Place
<1>2. /\ Top.at \in written /\ Sent(Top.at) = Top.obj
      /\ \A r \in Refs : r >= Top.next => Append(Top.at, r) \notin written
  BY <1>1 DEF WireWalk
<1>3. e \in Seq(Refs) /\ e # <<>> /\ Front(e) = Top.at
      /\ Len(e) = Len(Top.at) + 1 /\ Len(Top.at) \in Nat
  BY <1>1, AppendIs DEF Place
<1>4. e \notin written
  BY <1>1, <1>2 DEF Refs, Place
<1>5. Sent(e) = Item
  <2>1. Top.obj # Nil
    BY <1>1, MarshalAssumption
  <2> QED
    BY <1>1, <1>2, <2>1, FindAppend DEF Sent, Place
<1>6. \A p : Sent(p)' = Sent(p)
  BY Unchanged
<1>7. /\ \A w \in written' : Sent(w) \in MarkedIn(marker')
      /\ dup => \A w \in written' : w = f2[Sent(w)]
  BY <1>5 DEF WireWalk
<1>8. ASSUME NEW k \in 1 .. Len(stack'), NEW p, p = stack'[k].at
      PROVE  /\ p \in written' /\ Sent(p) = stack'[k].obj
             /\ \A r \in Refs : r >= stack'[k].next => Append(p, r) \notin written'
  <2>1. CASE k = Len(stack) + 1
    <3>1. p = e /\ Sent(p) = stack'[k].obj
      BY <1>1, <1>5, <1>8, <2>1
    <3>2. ASSUME NEW r \in Refs PROVE Append(e, r) \notin written'
      <4>1. /\ Append(e, r) # <<>> /\ Front(Append(e, r)) = e
            /\ Len(Append(e, r)) = Len(e) + 1
        BY <1>3, AppendIs
      <4>2. Append(e, r) \notin written
        BY <1>4, <4>1 DEF WrittenOK
      <4>3. Append(e, r) # e
        BY <1>3, <4>1
      <4> QED
        BY <4>2, <4>3
    <3> QED
      BY <3>1, <3>2
  <2>2. CASE k \in 1 .. Len(stack)
    <3>1. p = stack[k].at /\ stack'[k].obj = stack[k].obj
      BY <1>1, <1>8, <2>2
    <3>2. /\ p \in written /\ Sent(p) = stack[k].obj
          /\ \A r \in Refs : r >= stack[k].next => Append(p, r) \notin written
      BY <2>2, <3>1 DEF WireWalk
    <3>3. /\ stack[k].next \in Nat /\ \A r \in Refs : r \in Nat
          /\ p \in Seq(Refs)
      BY <1>1, <2>2, <3>1, FrameIs DEF Refs
    <3>4. ASSUME NEW r \in Refs, r >= stack'[k].next PROVE Append(p, r) # e
      <4> SUFFICES ASSUME Append(p, r) = e PROVE FALSE
        OBVIOUS
      <4>1. p = Top.at /\ r = Top.next
        <5>1. Append(p, r) = Append(Top.at, Top.next)
          BY DEF Place
        <5>2. /\ p \in Seq(Refs) /\ Top.at \in Seq(Refs)
              /\ r \in Refs /\ Top.next \in Refs
          BY <1>1, <3>3
        <5> QED
          BY <5>1, <5>2, AppendEq
      <4>2. k = Len(stack)
        <5>1. Len(stack) \in 1 .. Len(stack)
              /\ stack[k].at = stack[Len(stack)].at
          BY <1>1, <3>1, <4>1
        <5> QED
          BY <2>2, <5>1, PlacesDiffer
      <4>3. stack'[k].next = Top.next + 1
        BY <1>1, <4>2
      <4> QED
        BY <1>1, <3>3, <3>4, <4>1, <4>3
    <3>5. \A r \in Refs : r >= stack'[k].next => r >= stack[k].next
      BY <1>1, <2>2, <3>3
    <3> QED
      BY <3>1, <3>2, <3>4, <3>5
  <2> QED
    BY <1>1, <2>1, <2>2
<1>9. WireWalk(f2)'
  <2>1. \A k \in 1 .. Len(stack') :
          /\ stack'[k].at \in written' /\ Sent(stack'[k].at) = stack'[k].obj
          /\ \A r \in Refs : r >= stack'[k].next =>
               Append(stack'[k].at, r) \notin written'
    <3> SUFFICES ASSUME NEW k \in 1 .. Len(stack')
                 PROVE  /\ stack'[k].at \in written'
                        /\ Sent(stack'[k].at) = stack'[k].obj
                        /\ \A r \in Refs : r >= stack'[k].next =>
                             Append(stack'[k].at, r) \notin written'
      OBVIOUS
    <3>1. PICK p : p = stack'[k].at
      OBVIOUS
    <3> QED
      BY <1>8, <3>1
  <2>2. \A k : Sent(stack[k].at)' = Sent(stack'[k].at)
    BY DEF Sent
  <2> QED
    BY <1>6, <1>7, <2>1, <2>2 DEF WireWalk
<1> QED
  BY <1>2, <1>3, <1>4, <1>5, <1>9

LEMMA UnlistedPushed ==
  ASSUME TypeInv, StackInv, AtItem, Item # Nil,
         NEW f, NEW c, Tree(graph, marker, f, c), WrittenOK, Unlisted(f, c),
         Item \notin c[Top.obj], Sent(Top.at) = Top.obj, graph' = graph,
         NEW e \in Seq(Refs), e = Place, e \notin written,
         written' = written \cup {e},
         MarkedIn(marker') \subseteq MarkedIn(marker) \cup {Item},
         NEW f2, NEW c2,
         \A y \in MarkedIn(marker) : f2[y] = f[y] /\ c2[y] = c[y],
         Item \notin MarkedIn(marker) => f2[Item] = e
  PROVE  Unlisted(f2, c2)'
<1>1. /\ Top.at \in Seq(Refs) /\ Top.next \in Refs
      /\ Item = graph[Top.obj][Top.next]
  BY ItemIs
<1> SUFFICES ASSUME NEW o \in MarkedIn(marker'), NEW r \in Refs,
                    graph[o][r] \in c2[o]
             PROVE  Append(f2[o], r) \notin written \cup {e}
  BY DEF Unlisted
<1>2. CASE o \in MarkedIn(marker)
  <2>1. f2[o] = f[o] /\ graph[o][r] \in c[o] /\ f[o] \in Seq(Refs)
        /\ Find(graph, Root, f[o]) = o
    BY <1>2 DEF Tree
  <2>2. Append(f[o], r) \notin written
    BY <1>2, <2>1 DEF Unlisted
  <2>3. ASSUME Append(f[o], r) = e PROVE FALSE
    <3>1. f[o] = Top.at /\ r = Top.next
      <4>1. PICK a \in Seq(Refs), b \in Seq(Refs), j \in Refs :
                   a = f[o] /\ b = Top.at /\ j = Top.next
        BY <1>1, <2>1
      <4>2. Append(a, r) = Append(b, j)
        BY <2>3, <4>1 DEF Place
      <4>3. a = b /\ r = j
        BY <4>2, AppendEq
      <4> QED
        BY <4>1, <4>3
    <3>2. o = Top.obj
      BY <2>1, <3>1 DEF Sent
    <3> QED
      BY <1>1, <2>1, <3>1, <3>2
  <2> QED
    BY <2>1, <2>2, <2>3
<1>3. CASE o \notin MarkedIn(marker)
  <2>1. f2[o] = e
    BY <1>3
  <2>2. /\ Append(e, r) # <<>> /\ Front(Append(e, r)) = e
        /\ Len(Append(e, r)) = Len(e) + 1 /\ Len(e) \in Nat
    BY AppendIs
  <2>3. Append(e, r) \notin written
    BY <2>2 DEF WrittenOK
  <2>4. Append(e, r) # e
    BY <2>2
  <2> QED
    BY <2>1, <2>3, <2>4
<1> QED
  BY <1>2, <1>3

(* The places of which the json is complete are written.                   *)
LEMMA SureIs ==
  ASSUME NEW f, WireWalk(f)
  PROVE  Sure(f) \in SUBSET written
BY DEF Sure, WireWalk

LEMMA WalkWirePopped ==
  ASSUME TypeInv, StackInv, Leave, NEW f, WireWalk(f)
  PROVE  WireWalk(f)'
<1>1. /\ Len(stack') = Len(stack) - 1 /\ Len(stack) \in Nat \ {0}
      /\ \A k \in 1 .. Len(stack) - 1 : stack'[k] = stack[k]
  BY StackPopped
<1>2. UNCHANGED << graph, dup, marker, written >>
  BY DEF Leave, sender
<1>3. \A p : Sent(p)' = Sent(p)
  BY <1>2, Unchanged
<1>4. ASSUME NEW k \in 1 .. Len(stack')
      PROVE  /\ stack'[k].at \in written
             /\ Sent(stack'[k].at) = stack'[k].obj
             /\ \A r \in Refs : r >= stack'[k].next =>
                  Append(stack'[k].at, r) \notin written
  <2>1. k \in 1 .. Len(stack) /\ stack'[k] = stack[k]
    BY <1>1
  <2> QED
    BY <2>1 DEF WireWalk
<1>5. \A k : Sent(stack[k].at)' = Sent(stack'[k].at)
  BY <1>2 DEF Sent
<1> QED
  BY <1>2, <1>3, <1>4, <1>5 DEF WireWalk

(* The wire when an item that is nothing is passed, when one is left out,  *)
(* and when one is entered.                                                *)
LEMMA WireKept ==
  ASSUME UNCHANGED << graph, dup, written, fixups >>,
         WrittenOK, FixupsOK, NEW A \in SUBSET written, RefsAccounted(A),
         \A w \in written : \A r \in Refs : Pending(w, r)' => Pending(w, r),
         \A w \in written : \A r \in Refs : Pending(w, r) =>
           Pending(w, r)' \/ Sent(Append(w, r)) = Nil
  PROVE  (WrittenOK /\ FixupsOK /\ RefsAccounted(A))'
<1>1. WrittenOK'
  BY DEF WrittenOK, Sent
<1>2. FixupsOK'
  <2> SUFFICES ASSUME NEW i \in 1 .. Len(fixups)
               PROVE  /\ fixups[i][1] \notin written /\ fixups[i][2] \in written
                      /\ Sent(fixups[i][2]) = Sent(fixups[i][1])
                      /\ \E w \in written, r \in Refs :
                           fixups[i][1] = Append(w, r) /\ ~Pending(w, r)'
    BY DEF FixupsOK, Sent
  <2> QED
    BY DEF FixupsOK
<1>3. RefsAccounted(A)'
  <2>1. \A p : Sent(p)' = Sent(p) /\ (Listed(p)' <=> Listed(p))
    BY DEF Sent, Listed
  <2> QED
    BY <2>1 DEF RefsAccounted
<1> QED
  BY <1>1, <1>2, <1>3

LEMMA WireLeftOut ==
  ASSUME UNCHANGED << graph, dup, written >>, TypeInv, WrittenOK, FixupsOK,
         NEW A \in SUBSET written, RefsAccounted(A),
         \A w \in written : \A r \in Refs : Pending(w, r)' => Pending(w, r),
         NEW w0 \in written, NEW r0 \in Refs,
         \A w \in A : \A r \in Refs : Pending(w, r) =>
           Pending(w, r)' \/ (w = w0 /\ r = r0),
         ~Pending(w0, r0)', NEW v \in written, NEW e, e = Append(w0, r0),
         e \notin written, Sent(v) = Sent(e),
         fixups' = Append(fixups, << e, v >>)
  PROVE  (WrittenOK /\ FixupsOK /\ RefsAccounted(A))'
<1>1. WrittenOK'
  BY DEF WrittenOK, Sent
<1>2. /\ Len(fixups') = Len(fixups) + 1 /\ Len(fixups) \in Nat
      /\ \A i \in 1 .. Len(fixups) : fixups'[i] = fixups[i]
      /\ fixups'[Len(fixups) + 1] = << e, v >>
  BY DEF TypeInv
<1>3. FixupsOK'
  <2> SUFFICES ASSUME NEW i \in 1 .. Len(fixups')
               PROVE  /\ fixups'[i][1] \notin written
                      /\ fixups'[i][2] \in written
                      /\ Sent(fixups'[i][2]) = Sent(fixups'[i][1])
                      /\ \E w \in written, r \in Refs :
                           fixups'[i][1] = Append(w, r) /\ ~Pending(w, r)'
    BY DEF FixupsOK, Sent
  <2>1. CASE i = Len(fixups) + 1
    BY <1>2, <2>1
  <2>2. CASE i \in 1 .. Len(fixups)
    <3>1. fixups'[i] = fixups[i]
      BY <1>2, <2>2
    <3>2. /\ fixups[i][1] \notin written /\ fixups[i][2] \in written
          /\ Sent(fixups[i][2]) = Sent(fixups[i][1])
          /\ \E w \in written, r \in Refs :
               fixups[i][1] = Append(w, r) /\ ~Pending(w, r)
      BY <2>2 DEF FixupsOK
    <3> QED
      BY <3>1, <3>2
  <2> QED
    BY <1>2, <2>1, <2>2
<1>4. RefsAccounted(A)'
  <2>1. \A p : Sent(p)' = Sent(p)
    BY DEF Sent
  <2>2. \A p : Listed(p) => Listed(p)'
    <3> SUFFICES ASSUME NEW p, Listed(p) PROVE Listed(p)'
      OBVIOUS
    <3>1. PICK i \in 1 .. Len(fixups) : fixups[i][1] = p
      BY DEF Listed
    <3>2. i \in 1 .. Len(fixups') /\ fixups'[i][1] = p
      BY <1>2, <3>1
    <3> QED
      BY <3>2 DEF Listed
  <2>3. \A p : p = e => Listed(p)'
    <3>1. Len(fixups) + 1 \in 1 .. Len(fixups')
      BY <1>2
    <3>2. fixups'[Len(fixups) + 1][1] = e
      BY <1>2
    <3> QED
      BY <3>1, <3>2 DEF Listed
  <2> SUFFICES ASSUME NEW w \in A, NEW r \in Refs
               PROVE  \/ Sent(Append(w, r)) = Nil
                      \/ Append(w, r) \in written
                      \/ Pending(w, r)'
                      \/ Listed(Append(w, r))'
    BY <2>1 DEF RefsAccounted
  <2>4. \/ Sent(Append(w, r)) = Nil
        \/ Append(w, r) \in written
        \/ Pending(w, r)
        \/ Listed(Append(w, r))
    BY DEF RefsAccounted
  <2> QED
    BY <2>2, <2>3, <2>4
<1> QED
  BY <1>1, <1>3, <1>4

LEMMA WirePushed ==
  ASSUME TypeInv, StackInv, AtItem, Pushed(stack'),
         UNCHANGED << graph, dup, fixups >>,
         WrittenOK, FixupsOK, NEW A \in SUBSET written, RefsAccounted(A),
         NEW e \in Seq(Refs), e = Place, written' = written \cup {e},
         e \notin written, Sent(e) \in Objects, Top.at \in written,
         dup => \A v, w \in written' : Sent(v) = Sent(w) => v = w
  PROVE  (WrittenOK /\ FixupsOK /\ RefsAccounted(A \cup {e}))'
<1>1. /\ Top.at \in Seq(Refs) /\ Top.next \in Refs /\ Len(stack) \in Nat \ {0}
      /\ Top = stack[Len(stack)] /\ written \subseteq Seq(Refs)
  BY ItemIs DEF TypeInv
<1>2. /\ \A w : \A r \in Refs : Pending(w, r)' =>
           (Pending(w, r) /\ ~(w = Top.at /\ r = Top.next)) \/ w = e
      /\ \A w : \A r \in Refs : Pending(w, r) =>
           Pending(w, r)' \/ (w = Top.at /\ r = Top.next)
      /\ \A r \in Refs : Pending(e, r)'
  BY PendingPushed DEF Place
<1>3. Pending(Top.at, Top.next)
  <2>1. Len(stack) \in 1 .. Len(stack) /\ Top.next >= Top.next
    BY <1>1 DEF Refs
  <2> QED
    BY <1>1, <2>1 DEF Pending
<1>4. Front(e) = Top.at /\ e # <<>>
  BY <1>1, AppendIs DEF Place
<1>5. WrittenOK'
  <2>1. <<>> \in written' /\ \A w \in written' : Sent(w) \in Objects
    BY DEF WrittenOK
  <2>2. \A w \in written' : w # <<>> => Front(w) \in written'
    BY <1>4 DEF WrittenOK
  <2> QED
    BY <2>1, <2>2 DEF WrittenOK, Sent
<1>6. \A w \in written : \A r \in Refs :
        Append(w, r) = e => w = Top.at /\ r = Top.next
  <2>1. \A a, w \in Seq(Refs) : \A b, r \in Refs :
          Append(w, r) = Append(a, b) => w = a /\ r = b
    BY AppendEq
  <2>2. e = Append(Top.at, Top.next)
    BY DEF Place
  <2>3. /\ Top.at \in Seq(Refs) /\ Top.next \in Refs
        /\ \A w \in written : w \in Seq(Refs)
    BY <1>1
  <2> HIDE DEF Top
  <2>4. \A w \in Seq(Refs) : \A r \in Refs :
          Append(w, r) = Append(Top.at, Top.next) => w = Top.at /\ r = Top.next
    BY <2>1, <2>3, Zenon
  <2> QED
    BY <2>2, <2>3, <2>4, Zenon
<1>7. FixupsOK'
  <2> SUFFICES ASSUME NEW i \in 1 .. Len(fixups')
               PROVE  /\ fixups'[i][1] \notin written'
                      /\ fixups'[i][2] \in written'
                      /\ Sent(fixups[i][2])' = Sent(fixups[i][1])'
                      /\ \E w \in written', r \in Refs :
                           fixups'[i][1] = Append(w, r) /\ ~Pending(w, r)'
    BY DEF FixupsOK
  <2> i \in 1 .. Len(fixups)
    OBVIOUS
  <2>1. /\ fixups[i][1] \notin written /\ fixups[i][2] \in written
        /\ Sent(fixups[i][2]) = Sent(fixups[i][1])
    BY DEF FixupsOK
  <2>2. PICK w \in written, r \in Refs :
               fixups[i][1] = Append(w, r) /\ ~Pending(w, r)
    BY DEF FixupsOK
  <2>3. ~Pending(w, r)'
    BY <1>2, <2>2
  <2>4. fixups[i][1] # e
    BY <1>3, <1>6, <2>2
  <2>5. Sent(fixups[i][2])' = Sent(fixups[i][1])'
    BY <2>1 DEF Sent
  <2>6. \E v \in written', q \in Refs :
          fixups'[i][1] = Append(v, q) /\ ~Pending(v, q)'
    BY <2>2, <2>3
  <2> QED
    BY <2>1, <2>4, <2>5, <2>6
<1>8. RefsAccounted(A \cup {e})'
  <2>1. \A p : Sent(p)' = Sent(p) /\ (Listed(p)' <=> Listed(p))
    BY DEF Sent, Listed
  <2> SUFFICES ASSUME NEW w \in A \cup {e}, NEW r \in Refs
               PROVE  \/ Sent(Append(w, r)) = Nil
                      \/ Append(w, r) \in written'
                      \/ Pending(w, r)'
                      \/ Listed(Append(w, r))
    BY <2>1 DEF RefsAccounted
  <2>2. CASE w = e
    BY <1>2, <2>2
  <2>3. CASE w \in A
    <3>1. \/ Sent(Append(w, r)) = Nil
          \/ Append(w, r) \in written
          \/ Pending(w, r)
          \/ Listed(Append(w, r))
      BY <2>3 DEF RefsAccounted
    <3>2. CASE w = Top.at /\ r = Top.next
      <4>1. Append(w, r) = Place
        BY <3>2 DEF Place
      <4> QED
        BY <4>1
    <3> QED
      BY <1>2, <3>1, <3>2
  <2> QED
    BY <2>2, <2>3
<1> QED
  BY <1>5, <1>7, <1>8

-----------------------------------------------------------------------------
(* The list of the markers.                                                *)
LEMMA LinkedAppend ==
  ASSUME NEW m, NEW h, NEW l, Linked(l, m, h),
         NEW x \in Objects \ MarkedIn(m), NEW m2, m2[x].prev = h,
         MarkedIn(m2) = MarkedIn(m) \cup {x},
         \A y \in MarkedIn(m) : m2[y] = m[y]
  PROVE  Linked(Append(l, x), m2, x)
<1> DEFINE l2 == Append(l, x)
<1>1. /\ l \in Seq(Objects) /\ MarkedIn(m) = { l[k] : k \in DOMAIN l }
      /\ \A j, k \in DOMAIN l : l[j] = l[k] => j = k
      /\ h = IF l = <<>> THEN Nil ELSE l[Len(l)]
      /\ \A k \in DOMAIN l : m[l[k]].prev = IF k = 1 THEN Nil ELSE l[k - 1]
  BY DEF Linked
<1>2. /\ l2 \in Seq(Objects) /\ Len(l2) = Len(l) + 1 /\ Len(l) \in Nat
      /\ DOMAIN l2 = 1 .. Len(l) + 1 /\ DOMAIN l = 1 .. Len(l)
      /\ l2[Len(l) + 1] = x /\ \A k \in 1 .. Len(l) : l2[k] = l[k]
      /\ (l = <<>>) <=> (Len(l) = 0)
  BY <1>1
<1> HIDE DEF l2
<1>3. \A k \in 1 .. Len(l) : l[k] \in MarkedIn(m)
  BY <1>1, <1>2
<1>4. \A j, k \in DOMAIN l2 : l2[j] = l2[k] => j = k
  BY <1>1, <1>2, <1>3
<1>5. MarkedIn(m2) = { l2[k] : k \in DOMAIN l2 }
  <2>1. ASSUME NEW y \in MarkedIn(m2) PROVE \E k \in DOMAIN l2 : y = l2[k]
    <3>1. CASE y = x
      BY <1>2, <3>1
    <3>2. CASE y \in MarkedIn(m)
      BY <1>1, <1>2, <3>2
    <3> QED
      BY <3>1, <3>2
  <2>2. ASSUME NEW k \in DOMAIN l2 PROVE l2[k] \in MarkedIn(m2)
    BY <1>2, <1>3
  <2> QED
    BY <2>1, <2>2
<1>6. l2 # <<>> /\ l2[Len(l2)] = x
  BY <1>2
<1>7. ASSUME NEW k \in DOMAIN l2
      PROVE  m2[l2[k]].prev = IF k = 1 THEN Nil ELSE l2[k - 1]
  <2>1. CASE k = Len(l) + 1
    <3>1. l2[k] = x /\ m2[l2[k]].prev = h
      BY <1>2, <2>1
    <3>2. CASE Len(l) = 0
      BY <1>1, <1>2, <2>1, <3>1, <3>2
    <3>3. CASE Len(l) # 0
      <4>1. k # 1 /\ k - 1 = Len(l) /\ l2[Len(l)] = l[Len(l)]
        BY <1>2, <2>1, <3>3
      <4> QED
        BY <1>1, <1>2, <3>1, <3>3, <4>1
    <3> QED
      BY <3>2, <3>3
  <2>2. CASE k \in 1 .. Len(l)
    <3>1. l2[k] = l[k] /\ m2[l[k]] = m[l[k]]
      BY <1>2, <1>3, <2>2
    <3>2. k # 1 => l2[k - 1] = l[k - 1]
      BY <1>2, <2>2
    <3> QED
      BY <1>1, <1>2, <2>2, <3>1, <3>2
  <2> QED
    BY <1>2, <2>1, <2>2
<1>8. Linked(l2, m2, x)
  BY <1>2, <1>4, <1>5, <1>6, <1>7 DEF Linked
<1> QED
  BY <1>8 DEF l2

(* The marker attached last is taken off.                                  *)
LEMMA LinkedRemove ==
  ASSUME NEW m \in [Objects -> Marks \cup {Nil}], NEW h, h # Nil,
         NEW l, Linked(l, m, h),
         NEW m2, m2 = [m EXCEPT ![h] = Nil]
  PROVE  /\ h \in MarkedIn(m)
         /\ \E l2 : Linked(l2, m2, m[h].prev)
<1>1. /\ l \in Seq(Objects) /\ MarkedIn(m) = { l[k] : k \in DOMAIN l }
      /\ \A j, k \in DOMAIN l : l[j] = l[k] => j = k
      /\ l # <<>> /\ h = l[Len(l)]
      /\ \A k \in DOMAIN l : m[l[k]].prev = IF k = 1 THEN Nil ELSE l[k - 1]
  BY DEF Linked
<1>2. Len(l) \in Nat \ {0} /\ DOMAIN l = 1 .. Len(l)
  BY <1>1
<1>3. h \in MarkedIn(m) /\ h \in Objects
  BY <1>1, <1>2
<1> DEFINE n == Len(l) - 1
           l2 == SubSeq(l, 1, n)
<1>4. /\ l2 \in Seq(Objects) /\ Len(l2) = n /\ DOMAIN l2 = 1 .. n
      /\ \A k \in 1 .. n : l2[k] = l[k]
  <2>1. n \in Nat /\ n <= Len(l) /\ \A k \in 1 .. n : l[k] \in Objects
    BY <1>1, <1>2
  <2> HIDE DEF n
  <2> QED
    BY <2>1
<1> HIDE DEF l2
<1>5. MarkedIn(m2) = MarkedIn(m) \ {h}
  <2>1. \A y \in Objects : m2[y] = IF y = h THEN Nil ELSE m[y]
    OBVIOUS
  <2> QED
    BY <2>1 DEF MarkedIn
<1>6. \A j, k \in DOMAIN l2 : l2[j] = l2[k] => j = k
  BY <1>1, <1>2, <1>4
<1>7. MarkedIn(m2) = { l2[k] : k \in DOMAIN l2 }
  <2>1. ASSUME NEW y \in MarkedIn(m2) PROVE \E k \in DOMAIN l2 : y = l2[k]
    <3>1. PICK k \in DOMAIN l : y = l[k]
      BY <1>1, <1>5
    <3>2. k # Len(l)
      BY <1>1, <1>5, <3>1
    <3> QED
      BY <1>2, <1>4, <3>1, <3>2
  <2>2. ASSUME NEW k \in DOMAIN l2 PROVE l2[k] \in MarkedIn(m2)
    <3>1. k \in DOMAIN l /\ k # Len(l) /\ Len(l) \in DOMAIN l /\ l2[k] = l[k]
      BY <1>2, <1>4
    <3>2. l[k] \in MarkedIn(m) /\ l[k] # h
      BY <1>1, <3>1
    <3> QED
      BY <1>5, <3>1, <3>2
  <2> QED
    BY <2>1, <2>2
<1>8. m[h].prev = IF l2 = <<>> THEN Nil ELSE l2[Len(l2)]
  <2>1. Len(l) \in DOMAIN l
    BY <1>2
  <2>2. m[h].prev = IF Len(l) = 1 THEN Nil ELSE l[Len(l) - 1]
    BY <1>1, <2>1
  <2>3. (l2 = <<>>) <=> (Len(l) = 1)
    BY <1>2, <1>4
  <2>4. Len(l) # 1 => l2[Len(l2)] = l[Len(l) - 1]
    BY <1>2, <1>4
  <2> QED
    BY <2>2, <2>3, <2>4
<1>9. ASSUME NEW k \in DOMAIN l2
      PROVE  m2[l2[k]].prev = IF k = 1 THEN Nil ELSE l2[k - 1]
  <2>1. k \in DOMAIN l /\ l2[k] = l[k] /\ (k # 1 => l2[k - 1] = l[k - 1])
    BY <1>2, <1>4
  <2>2. l[k] # h /\ l[k] \in Objects
    BY <1>1, <1>2, <1>4, <2>1
  <2>3. m2[l[k]] = m[l[k]]
    BY <2>2
  <2> QED
    BY <1>1, <2>1, <2>3
<1>10. Linked(l2, m2, m[h].prev)
  BY <1>4, <1>6, <1>7, <1>8, <1>9 DEF Linked
<1> QED
  BY <1>3, <1>10

(* At the end of the list no marker is left.                               *)
LEMMA LinkedEmpty ==
  ASSUME NEW m, NEW l, Linked(l, m, Nil)
  PROVE  MarkedIn(m) = {}
<1>1. l \in Seq(Objects) /\ l = <<>>
  <2>1. l \in Seq(Objects) /\ (l # <<>> => l[Len(l)] = Nil)
    BY DEF Linked
  <2>2. l # <<>> => l[Len(l)] \in Objects
    BY <2>1
  <2> QED
    BY <2>1, <2>2, MarshalAssumption
<1>2. DOMAIN l = {}
  BY <1>1
<1> QED
  BY <1>2 DEF Linked

(* Nothing but the markers changes, or the phase.                          *)
LEMMA WireSame ==
  ASSUME UNCHANGED << graph, dup, stack, written, fixups >>
  PROVE  /\ WrittenOK' = WrittenOK /\ FixupsOK' = FixupsOK
         /\ \A A : RefsAccounted(A)' = RefsAccounted(A)
         /\ \A A : Covers(A)' = Covers(A)
<1>1. WrittenOK' = WrittenOK
  BY DEF WrittenOK, Sent
<1>2. \A w : \A r : Pending(w, r)' = Pending(w, r)
  BY DEF Pending
<1>3. \A p : Listed(p)' = Listed(p) /\ Sent(p)' = Sent(p)
  BY DEF Listed, Sent
<1>4. FixupsOK' = FixupsOK
  BY <1>2 DEF FixupsOK, Sent
<1>5. \A A : RefsAccounted(A)' = RefsAccounted(A)
  BY <1>2, <1>3 DEF RefsAccounted
<1>6. \A A : Covers(A)' = Covers(A)
  BY <1>3, Unchanged DEF Covers
<1> QED
  BY <1>1, <1>4, <1>5, <1>6

(* No path is mistaken for a reference to nothing.                         *)
LEMMA NilIsNoPath == Nil \notin Seq(Refs)
<1>1. ASSUME NEW p \in Seq(Refs) PROVE p \in Seq(Nat)
  BY MarshalAssumption DEF Refs
<1> QED
  BY <1>1, MarshalAssumption
-----------------------------------------------------------------------------
(* The inductive invariant holds at first, and every action keeps it.      *)
LEMMA InitIInv ==
  ASSUME MarshalInit PROVE MarshalInv
<1> DEFINE s == Frame(Root, <<>>)
<1>1. /\ graph \in Graphs /\ circ \in BOOLEAN /\ dup \in BOOLEAN
      /\ markerHead = Root /\ stack = << s >> /\ written = {<<>>}
      /\ fixups = <<>> /\ phase = "walk" /\ built = Nil
      /\ marker = [o \in Objects |-> IF o = Root
                     THEN [parent |-> Nil, ref |-> 0, prev |-> Nil] ELSE Nil]
  BY DEF MarshalInit, Graphs
<1>2. /\ Root \in Objects /\ Width \in Nat \ {0} /\ Nil \notin Objects
      /\ IsFiniteSet(Objects)
  BY MarshalAssumption
<1>3. MarkedIn(marker) = {Root}
  BY <1>1, TreeRoot
<1>4. PICK f, c : Tree(graph, marker, f, c) /\ f[Root] = <<>> /\ c[Root] = {Root}
  BY <1>1, TreeRoot
<1>5. /\ s \in Frames /\ s.obj = Root /\ s.next = 1 /\ s.at = <<>>
      /\ stack \in Seq(Frames) /\ Len(stack) = 1 /\ stack[1] = s
      /\ stack # <<>>
  BY <1>1, <1>2 DEF Frame, Frames
<1> HIDE DEF s
<1>6. TypeInv
  <2>1. marker \in [Objects -> Marks \cup {Nil}]
    BY <1>4 DEF Tree
  <2>2. written \in SUBSET Seq(Refs) /\ fixups \in Seq(Seq(Refs) \X Seq(Refs))
    BY <1>1
  <2> QED
    BY <1>1, <1>2, <1>5, <2>1, <2>2 DEF TypeInv
<1>7. StackInv
  BY <1>5 DEF StackInv
<1>8. Sent(<<>>) = Root
  BY FindEmpty DEF Sent
<1>9. WalkInv
  <2> DEFINE rank == [o \in Objects |-> 0]
  <2>1. rank \in [Objects -> Nat]
    OBVIOUS
  <2> HIDE DEF rank
  <2>2. Ranked({}, rank, 0, 1)
    BY <1>5, <2>1 DEF Ranked
  <2>3. FirstTime(f, c, {}, 1)
    <3>1. { stack[k].obj : k \in 1 .. 1 } = {Root}
      BY <1>5
    <3>2. \A k \in 1 .. 1 : k = 1 /\ { stack[j].obj : j \in 1 .. k } = {Root}
      BY <1>5
    <3> QED
      BY <1>3, <1>4, <1>5, <3>1, <3>2 DEF FirstTime
  <2>4. WrittenAgain({}, rank, 1)
    BY <1>5 DEF WrittenAgain
  <2>5. Closed(c, {}, rank) /\ Visited(c, {}, 1)
    BY <1>5 DEF Closed, Visited
  <2>6. SearchInv(f, c, {}, rank, 0, 1)
    BY <1>4, <2>2, <2>3, <2>4, <2>5 DEF SearchInv
  <2>7. WireWalk(f)
    <3>1. \A r \in Refs : Append(<<>>, r) \notin written
      BY <1>1, AppendIs
    <3>2. \A k \in 1 .. Len(stack) : stack[k].at = <<>> /\ stack[k].obj = Root
      BY <1>5
    <3> QED
      BY <1>1, <1>3, <1>4, <1>8, <3>1, <3>2 DEF WireWalk
  <2>8. Unlisted(f, c)
    <3>1. \A o \in MarkedIn(marker) : \A r \in Refs : Append(f[o], r) # <<>>
      BY <1>3, <1>4, AppendIs
    <3> QED
      BY <1>1, <3>1 DEF Unlisted
  <2>9. RefsAccounted(Sure(f))
    <3>1. \A w \in Sure(f) : w = <<>>
      BY <1>1, <1>3, <1>4 DEF Sure
    <3>2. \A r \in Refs : Pending(<<>>, r)
      BY <1>2, <1>5 DEF Pending, Refs
    <3> QED
      BY <3>1, <3>2 DEF RefsAccounted
  <2> QED
    BY <2>6, <2>7, <2>8, <2>9 DEF WalkInv
<1>10. ListInv
  <2>1. Linked(<< Root >>, marker, markerHead)
    <3>1. marker[Root].prev = Nil
      BY <1>1, <1>2
    <3>2. << Root >> \in Seq(Objects) /\ DOMAIN << Root >> = {1}
          /\ << Root >>[1] = Root /\ << Root >> # <<>> /\ Len(<< Root >>) = 1
      BY <1>2
    <3> QED
      BY <1>1, <1>3, <3>1, <3>2 DEF Linked
  <2> QED
    BY <1>1, <2>1 DEF ListInv
<1>11. VerdictInv /\ BuiltInv
  BY <1>1 DEF VerdictInv, BuiltInv
<1>12. WireInv
  <2>1. WrittenOK
    BY <1>1, <1>2, <1>8 DEF WrittenOK
  <2>2. FixupsOK
    BY <1>1 DEF FixupsOK
  <2> QED
    BY <1>1, <2>1, <2>2 DEF WireInv
<1> QED
  BY <1>6, <1>7, <1>9, <1>10, <1>11, <1>12 DEF MarshalInv

(* A simple value.                                                         *)
LEMMA SimpleKeeps ==
  ASSUME MarshalInv, Simple PROVE MarshalInv'
<1>1. /\ TypeInv /\ StackInv /\ WalkInv /\ ListInv /\ VerdictInv /\ WireInv
      /\ AtItem /\ Item = Nil /\ stack' = Advanced
      /\ UNCHANGED << graph, circ, dup, marker, markerHead, written, fixups,
                      phase, built >>
  BY DEF MarshalInv, Simple, sender
<1>2. Passed(stack')
  BY <1>1, PassedIs
<1>3. /\ stack # <<>> /\ phase = "walk" /\ Len(stack) \in Nat \ {0}
      /\ Top.at \in Seq(Refs) /\ Top.next \in Refs /\ Top = stack[Len(stack)]
      /\ Item = graph[Top.obj][Top.next]
  BY <1>1, ItemIs
<1>4. stack' \in Seq(Frames) /\ stack' # <<>>
  BY <1>2, <1>3 DEF Passed
<1>5. TypeInv'
  BY <1>1, <1>3, <1>4 DEF TypeInv
<1>6. StackInv'
  BY <1>1, <1>2, <1>3, StackAdvanced
<1>7. /\ \A p : Sent(p)' = Sent(p)
      /\ Cyclic' = Cyclic /\ Readable' = Readable
  BY <1>1, Unchanged
<1>8. PICK f, c, F, rank, n, g : /\ SearchInv(f, c, F, rank, n, g)
                                 /\ WireWalk(f) /\ Unlisted(f, c)
                                 /\ RefsAccounted(Sure(f))
  BY <1>1, <1>3 DEF WalkInv
<1>9. PICK A \in SUBSET written : A = Sure(f)
  BY <1>8, SureIs
<1>9a. (WrittenOK /\ FixupsOK /\ RefsAccounted(A))'
  <2>1. WrittenOK /\ FixupsOK /\ RefsAccounted(A)
    BY <1>1, <1>3, <1>8, <1>9 DEF WireInv
  <2>2. Sent(Top.at) = Top.obj
    BY <1>3, <1>8 DEF WireWalk
  <2>3. Sent(Append(Top.at, Top.next)) = Nil
    BY <1>1, <1>3, <2>2, FindAppend DEF Sent
  <2>4. /\ \A w \in written : \A r \in Refs : Pending(w, r)' => Pending(w, r)
        /\ \A w \in written : \A r \in Refs : Pending(w, r) =>
             Pending(w, r)' \/ Sent(Append(w, r)) = Nil
    BY <1>1, <1>2, <2>3, PendingPassed
  <2> QED
    BY <1>1, <2>1, <2>4, WireKept
<1>9b. WalkInv'
  <2>1. SearchInv(f, c, F, rank, n, g)'
    BY <1>1, <1>2, <1>8, SearchAdvanced
  <2>2. WireWalk(f)'
    BY <1>1, <1>2, <1>8, WalkWireAdvanced
  <2>3. Unlisted(f, c)'
    BY <1>1, <1>8 DEF Unlisted
  <2>4. Sure(f)' = A
    BY <1>1, <1>7, <1>9 DEF Sure
  <2>5. RefsAccounted(Sure(f))'
    BY <1>9a, <2>4 DEF RefsAccounted
  <2> QED
    BY <2>1, <2>2, <2>3, <2>5 DEF WalkInv
<1>10. ListInv' /\ VerdictInv' /\ BuiltInv'
  BY <1>1, <1>3, <1>7 DEF ListInv, VerdictInv, BuiltInv
<1>11. WireInv'
  BY <1>1, <1>3, <1>9a DEF WireInv
<1> QED
  BY <1>5, <1>6, <1>9b, <1>10, <1>11 DEF MarshalInv

(* An object met for the first time.                                       *)
LEMMA FirstKeeps ==
  ASSUME MarshalInv, First PROVE MarshalInv'
<1> DEFINE x == Item
           e == Place
           mk == Mark(Top.obj, Top.next)
<1>1. /\ TypeInv /\ StackInv /\ WalkInv /\ ListInv /\ VerdictInv /\ WireInv
      /\ AtItem /\ Item # Nil /\ marker[Item] = Nil
      /\ stack' = Append(Advanced, Frame(Item, Append(Top.at, Top.next)))
      /\ written' = written \cup {Place}
      /\ marker' = [marker EXCEPT ![Item] = mk] /\ markerHead' = Item
      /\ UNCHANGED << graph, circ, dup, fixups, phase, built >>
  BY DEF MarshalInv, First, Enter, sender, Place
<1>2. Pushed(stack')
  BY <1>1, PushedIs
<1>2a. /\ TypeInv /\ StackInv /\ AtItem /\ Item # Nil
       /\ UNCHANGED << graph, circ, dup >>
  BY <1>1
<1>3. /\ stack # <<>> /\ phase = "walk" /\ Len(stack) \in Nat \ {0}
      /\ Top.at \in Seq(Refs) /\ Top.next \in Refs /\ Top.obj \in Objects
      /\ Item = graph[Top.obj][Top.next] /\ Item \in Objects
      /\ graph \in Graphs /\ Place \in Seq(Refs)
  BY <1>1, ItemIs, AppendIs DEF Place
<1>4. PICK f, c, F, rank, n, g : /\ SearchInv(f, c, F, rank, n, g)
                                 /\ WireWalk(f) /\ Unlisted(f, c)
                                 /\ RefsAccounted(Sure(f))
  BY <1>1, <1>3 DEF WalkInv
<1>5. /\ g = Len(stack) /\ Item \in Objects \ MarkedIn(marker)
      /\ Top.obj \in MarkedIn(marker) /\ f[Top.obj] = Top.at
  BY <1>1, <1>3, <1>4, FirstIs, TopIs
<1>6. Tree(graph, marker, f, c) /\ marker \in [Objects -> Marks \cup {Nil}]
      /\ markerHead \in Objects \cup {Nil}
  BY <1>1, <1>4 DEF SearchInv, TypeInv
<1>7. mk = [parent |-> Top.obj, ref |-> Top.next, prev |-> markerHead]
  BY DEF Mark
<1> HIDE DEF mk, x, e
<1>8. /\ MarkedIn(marker') = MarkedIn(marker) \cup {Item}
      /\ \E f2, c2 :
           /\ Tree(graph, marker', f2, c2)
           /\ \A y \in MarkedIn(marker) : f2[y] = f[y] /\ c2[y] = c[y]
           /\ f2[Item] = Append(f[Top.obj], Top.next)
           /\ c2[Item] = {Item} \cup c[Top.obj]
  <2>1. graph \in [Objects -> [Refs -> Objects \cup {Nil}]]
    BY <1>3 DEF Graphs
  <2>2. Attached(graph, marker, marker', Item, Top.obj, Top.next, markerHead)
    BY <1>1, <1>3, <1>5, <1>6, <1>7, <2>1 DEF Attached
  <2>3. Tree(graph, marker, f, c)
    BY <1>6
  <2>4. Grown(graph, marker, marker', f, c, Item, Top.obj, Top.next)
    BY <2>2, <2>3, TreeAppend
  <2> QED
    BY <2>4, Zenon DEF Grown
<1>9. PICK f2, c2 :
           /\ Tree(graph, marker', f2, c2)
           /\ \A y \in MarkedIn(marker) : f2[y] = f[y] /\ c2[y] = c[y]
           /\ f2[Item] = Append(f[Top.obj], Top.next)
           /\ c2[Item] = {Item} \cup c[Top.obj]
  BY <1>8
<1>10. TypeInv'
  <2>1. stack' \in Seq(Frames) /\ stack' # <<>>
    BY <1>2, <1>3 DEF Pushed
  <2>2. marker' \in [Objects -> Marks \cup {Nil}]
    BY <1>9 DEF Tree
  <2>3. written' \in SUBSET Seq(Refs)
    BY <1>1, <1>3 DEF TypeInv
  <2>4. markerHead' \in Objects \cup {Nil}
    BY <1>1, <1>3
  <2>5. /\ graph \in Graphs /\ circ \in BOOLEAN /\ dup \in BOOLEAN
        /\ fixups \in Seq(Seq(Refs) \X Seq(Refs))
    BY <1>1 DEF TypeInv
  <2> QED
    BY <1>1, <1>3, <2>1, <2>2, <2>3, <2>4, <2>5 DEF TypeInv
<1>11. StackInv'
  BY <1>1, <1>2, StackPushed
<1>12. /\ \A p : Sent(p)' = Sent(p)
       /\ Cyclic' = Cyclic /\ Readable' = Readable
  BY <1>1, Unchanged
<1>13. SearchInv(f2, c2, F, rank, n, g + 1)'
  BY <1>2, <1>2a, <1>4, <1>5, <1>8, <1>9, SearchFirst
<1>14. f2[Item] = Place
  BY <1>5, <1>9 DEF Place
<1>14a. PICK A \in SUBSET written : A = Sure(f)
  BY <1>4, SureIs
<1>14b. PICK p : p = Place
  OBVIOUS
<1>15. /\ WireWalk(f2)' /\ Unlisted(f2, c2)'
       /\ (WrittenOK /\ FixupsOK /\ RefsAccounted(A \cup {p}))'
  <2>1. WrittenOK /\ FixupsOK /\ RefsAccounted(A)
    BY <1>1, <1>3, <1>4, <1>14a DEF WireInv
  <2>2. WireWalk(f)
    BY <1>4
  <2>3. \A y \in MarkedIn(marker') : f2[y] \in written'
    BY <1>1, <1>8, <1>9, <1>14, <2>2 DEF WireWalk
  <2>5. /\ WireWalk(f2)' /\ p \in Seq(Refs) /\ Sent(p) = Item
        /\ p \notin written /\ Top.at \in written /\ Sent(Top.at) = Top.obj
    <3>1. written' = written \cup {p} /\ (dup => f2[Item] = p)
      BY <1>1, <1>14, <1>14b
    <3>2. /\ MarkedIn(marker) \subseteq MarkedIn(marker')
          /\ Item \in MarkedIn(marker')
      BY <1>8
    <3>3. \A y \in MarkedIn(marker) : f2[y] = f[y]
      BY <1>9
    <3> QED
      BY <1>2, <1>2a, <1>14b, <2>1, <2>2, <2>3, <3>1, <3>2, <3>3,
         WalkWirePushed
  <2>6. dup => \A v, w \in written' : Sent(v) = Sent(w) => v = w
    <3>1. dup => \A w \in written' : w = f2[Sent(w)]
      BY <1>1, <1>12, <2>5 DEF WireWalk
    <3> QED
      BY <3>1
  <2>7. (WrittenOK /\ FixupsOK /\ RefsAccounted(A \cup {p}))'
    BY <1>1, <1>2, <1>3, <1>14b, <2>1, <2>5, <2>6, WirePushed
  <2>8. Unlisted(f2, c2)'
    <3>1. Item \notin c[Top.obj]
      <4>1. c[Top.obj] \subseteq MarkedIn(marker)
        BY <1>5, <1>6 DEF Tree
      <4> QED
        BY <1>5, <4>1
    <3>2. Tree(graph, marker, f, c) /\ Unlisted(f, c) /\ WrittenOK
      BY <1>4, <1>6, <2>1
    <3>3. written' = written \cup {p} /\ (Item \notin MarkedIn(marker) => f2[Item] = p)
      BY <1>1, <1>14, <1>14b
    <3>4. MarkedIn(marker') \subseteq MarkedIn(marker) \cup {Item}
      BY <1>8
    <3>5. \A y \in MarkedIn(marker) : f2[y] = f[y] /\ c2[y] = c[y]
      BY <1>9
    <3> QED
      BY <1>2a, <1>14b, <2>5, <3>1, <3>2, <3>3, <3>4, <3>5, UnlistedPushed
  <2> QED
    BY <2>5, <2>7, <2>8
<1>16. WalkInv'
  <2>1. Sure(f2)' \subseteq A \cup {p}
    <3>1. \A y \in MarkedIn(marker') : f2[y] \in A \cup {p}
      BY <1>8, <1>9, <1>14, <1>14a, <1>14b DEF Sure
    <3>2. Readable' => written' \subseteq A \cup {p}
      BY <1>1, <1>12, <1>14a, <1>14b DEF Sure
    <3> QED
      BY <3>1, <3>2 DEF Sure
  <2>2. RefsAccounted(Sure(f2))'
    BY <1>15, <2>1 DEF RefsAccounted
  <2> QED
    BY <1>13, <1>15, <2>2 DEF WalkInv
<1>17. ListInv'
  <2>1. PICK l : Linked(l, marker, markerHead)
    BY <1>1, <1>3 DEF ListInv
  <2>2. marker'[Item].prev = markerHead
    BY <1>1, <1>3, <1>6, <1>7
  <2>3. \A y \in MarkedIn(marker) : marker'[y] = marker[y]
    BY <1>1, <1>5, <1>6 DEF MarkedIn
  <2>4. Linked(Append(l, Item), marker', Item)
    <3> HIDE DEF Item
    <3> QED
      BY <1>5, <1>8, <2>1, <2>2, <2>3, LinkedAppend
  <2>6. \E k : Linked(k, marker', markerHead')
    BY <1>1, <2>4
  <2> QED
    BY <1>1, <1>3, <2>6 DEF ListInv
<1>18. VerdictInv' /\ BuiltInv' /\ WireInv'
  BY <1>1, <1>3, <1>12, <1>15 DEF VerdictInv, BuiltInv, WireInv
<1> QED
  BY <1>10, <1>11, <1>16, <1>17, <1>18 DEF MarshalInv

(* A circular reference or a duplicate is left out and listed.             *)
LEMMA LeaveOutKeeps ==
  ASSUME MarshalInv, LeaveOut PROVE MarshalInv'
<1>1. /\ TypeInv /\ StackInv /\ WalkInv /\ ListInv /\ VerdictInv /\ WireInv
      /\ AtItem /\ Met /\ stack' = Advanced /\ fixups' = Append(fixups, Fixup)
      /\ IF Circular THEN circ ELSE dup
      /\ UNCHANGED << graph, circ, dup, marker, markerHead, written, phase,
                      built >>
  BY DEF MarshalInv, LeaveOut, Met, sender
<1>2. Passed(stack')
  BY <1>1, PassedIs
<1>3. /\ stack # <<>> /\ phase = "walk" /\ Len(stack) \in Nat \ {0}
      /\ Top.at \in Seq(Refs) /\ Top.next \in Refs /\ Top = stack[Len(stack)]
      /\ Item = graph[Top.obj][Top.next] /\ Top.obj \in Objects /\ Top.obj # Nil
  BY <1>1, ItemIs, MarshalAssumption
<1>4. PICK f, c, F, rank, n, g : /\ SearchInv(f, c, F, rank, n, g)
                                 /\ WireWalk(f) /\ Unlisted(f, c)
                                 /\ RefsAccounted(Sure(f))
  BY <1>1, <1>3 DEF WalkInv
<1>5. /\ Item \in MarkedIn(marker) /\ Top.obj \in MarkedIn(marker)
      /\ Circular <=> Item \in c[Top.obj]
  BY <1>1, <1>3, <1>4, MetIs, TopIs
<1>5a. g = Len(stack) => Item \in F \/ (Item \in c[Top.obj] /\ circ)
  BY <1>1, <1>4, MetIs
<1>6. /\ Tree(graph, marker, f, c)
      /\ PathOf(Item) = f[Item] /\ f[Item] \in Seq(Refs)
      /\ PathOf(Top.obj) = f[Top.obj] /\ f[Top.obj] \in Seq(Refs)
      /\ Find(graph, Root, f[Item]) = Item
  <2>1. Tree(graph, marker, f, c)
    BY <1>4 DEF SearchInv
  <2> QED
    BY <1>5, <2>1, PathIs DEF Tree
<1>7. Fixup = << Append(f[Top.obj], Top.next), f[Item] >>
      /\ Append(f[Top.obj], Top.next) \in Seq(Refs)
  BY <1>3, <1>6, AppendIs DEF Fixup
<1>8. TypeInv'
  <2>1. stack' \in Seq(Frames) /\ stack' # <<>>
    BY <1>2, <1>3 DEF Passed
  <2>2. fixups' \in Seq(Seq(Refs) \X Seq(Refs))
    <3>1. Fixup \in Seq(Refs) \X Seq(Refs)
      BY <1>6, <1>7
    <3>2. fixups \in Seq(Seq(Refs) \X Seq(Refs))
      BY <1>1 DEF TypeInv
    <3> QED
      BY <1>1, <3>1, <3>2
  <2> QED
    BY <1>1, <1>3, <2>1, <2>2 DEF TypeInv
<1>9. StackInv'
  BY <1>1, <1>2, <1>3, StackAdvanced
<1>10. /\ \A p : Sent(p)' = Sent(p)
       /\ Cyclic' = Cyclic /\ Readable' = Readable
  BY <1>1, Unchanged
<1>11. PICK A \in SUBSET written : A = Sure(f)
  BY <1>4, SureIs
<1>11a. /\ Top.at \in written /\ Sent(Top.at) = Top.obj
        /\ Append(Top.at, Top.next) \notin written
        /\ f[Top.obj] \in written /\ f[Item] \in written
        /\ Sent(f[Top.obj]) = Top.obj
        /\ dup => f[Top.obj] = Top.at
  <2>1. WireWalk(f)
    BY <1>4
  <2>2. Top.at \in written /\ Sent(Top.at) = Top.obj
    BY <1>3, <2>1 DEF WireWalk
  <2>3. Append(Top.at, Top.next) \notin written
    BY <1>3, <2>1 DEF WireWalk, Refs
  <2>4. f[Top.obj] \in written /\ f[Item] \in written
    BY <1>5, <2>1 DEF WireWalk
  <2>5. dup => f[Top.obj] = Top.at
    BY <2>1, <2>2 DEF WireWalk
  <2>6. Sent(f[Top.obj]) = Top.obj
    BY <1>5, <1>6 DEF Tree, Sent
  <2> QED
    BY <2>2, <2>3, <2>4, <2>5, <2>6
<1>11b. (WrittenOK /\ FixupsOK /\ RefsAccounted(A))'
  <2>1. WrittenOK /\ FixupsOK /\ RefsAccounted(A)
    BY <1>1, <1>3, <1>4, <1>11 DEF WireInv
  <2>4. PICK a \in written, b \in Refs : a = f[Top.obj] /\ b = Top.next
    BY <1>3, <1>11a
  <2>5. PICK e : e = Append(a, b)
    OBVIOUS
  <2>6. Sent(f[Item]) = Sent(e)
    <3>1. Find(graph, Root, Append(f[Top.obj], Top.next)) =
            graph[Find(graph, Root, f[Top.obj])][Top.next]
      BY <1>3, <1>6, <1>11a, FindAppend DEF Sent
    <3> QED
      BY <1>3, <1>6, <1>11a, <2>4, <2>5, <3>1 DEF Sent
  <2>6a. e \notin written
    <3>1. CASE Circular
      BY <1>3, <1>4, <1>5, <2>4, <2>5, <3>1 DEF Unlisted
    <3>2. CASE ~Circular
      BY <1>1, <1>11a, <2>4, <2>5, <3>2
    <3> QED
      BY <3>1, <3>2
  <2>7. fixups' = Append(fixups, << e, f[Item] >>)
    BY <1>1, <1>7, <2>4, <2>5
  <2>8. /\ \A w \in written : \A r \in Refs : Pending(w, r)' => Pending(w, r)
        /\ \A w \in A : \A r \in Refs : Pending(w, r) =>
             Pending(w, r)' \/ (w = a /\ r = b)
        /\ ~Pending(a, b)'
    <3>1. /\ \A w : \A r \in Refs : Pending(w, r)' =>
               Pending(w, r) /\ ~(w = Top.at /\ r = Top.next)
          /\ \A w : \A r \in Refs : Pending(w, r) =>
               Pending(w, r)' \/ (w = Top.at /\ r = Top.next)
      BY <1>1, <1>2, PendingPassed
    <3>2. Top.at \in A => Top.at = a
      <4>1. CASE Readable
        <5>1. dup
          BY <1>1, <1>4, <4>1, CircularIsCyclic DEF Readable
        <5> QED
          BY <1>11a, <2>4, <5>1
      <4>2. CASE ~Readable
        <5> SUFFICES ASSUME NEW o \in MarkedIn(marker), Top.at = f[o]
                     PROVE  Top.at = a
          BY <1>11, <4>2 DEF Sure
        <5>1. Sent(f[o]) = o
          BY <1>6 DEF Tree, Sent
        <5> QED
          BY <1>11a, <2>4, <5>1
      <4> QED
        BY <4>1, <4>2
    <3>3. ASSUME Pending(a, b) PROVE a = Top.at
      <4>1. PICK k \in 1 .. Len(stack) : stack[k].at = a
        BY <3>3 DEF Pending
      <4>2. stack[k].obj = Top.obj
        <5>1. Sent(stack[k].at) = stack[k].obj
          BY <1>4 DEF WireWalk
        <5> QED
          BY <1>11a, <2>4, <4>1, <5>1
      <4>3. k = Len(stack)
        <5>1. Len(stack) \in 1 .. Len(stack)
              /\ stack[k].obj = stack[Len(stack)].obj
          BY <1>3, <4>2
        <5> QED
          BY <1>1, <1>4, <5>1, CallsDiffer
      <4> QED
        BY <1>3, <4>1, <4>3
    <3>4. ~Pending(a, b)'
      BY <2>4, <3>1, <3>3
    <3> QED
      BY <2>4, <3>1, <3>2, <3>4
  <2>9. TypeInv /\ UNCHANGED << graph, dup, written >> /\ f[Item] \in written
    BY <1>1, <1>11a
  <2> QED
    BY <2>1, <2>5, <2>6, <2>6a, <2>7, <2>8, <2>9, WireLeftOut
<1>11c. WalkInv'
  <2>1. SearchInv(f, c, F, rank, n, g)'
    BY <1>1, <1>2, <1>4, <1>5a, SearchAdvanced
  <2>2. WireWalk(f)'
    BY <1>1, <1>2, <1>4, WalkWireAdvanced
  <2>3. Unlisted(f, c)'
    BY <1>1, <1>4 DEF Unlisted
  <2>4. Sure(f)' = A
    BY <1>1, <1>10, <1>11 DEF Sure
  <2>5. RefsAccounted(Sure(f))'
    BY <1>11b, <2>4 DEF RefsAccounted
  <2> QED
    BY <2>1, <2>2, <2>3, <2>5 DEF WalkInv
<1>12. ListInv' /\ VerdictInv' /\ BuiltInv'
  BY <1>1, <1>3, <1>10 DEF ListInv, VerdictInv, BuiltInv
<1>13. WireInv'
  BY <1>1, <1>3, <1>11b DEF WireInv
<1> QED
  BY <1>8, <1>9, <1>11c, <1>12, <1>13 DEF MarshalInv

(* A circular reference that may not be left out.                          *)
LEMMA ThrowKeeps ==
  ASSUME MarshalInv, Throw PROVE MarshalInv'
<1>1. /\ TypeInv /\ StackInv /\ WalkInv /\ ListInv /\ VerdictInv
      /\ AtItem /\ Met /\ Circular /\ ~circ /\ phase' = "throw" /\ stack' = <<>>
      /\ UNCHANGED << graph, circ, dup, marker, markerHead, written, fixups,
                      built >>
  BY DEF MarshalInv, Throw, Met, sender
<1>2. phase = "walk"
  BY <1>1 DEF AtItem, Walking
<1>3. Cyclic
  BY <1>1, <1>2, CircularIsCyclic DEF WalkInv
<1>4. Cyclic' = Cyclic
  BY <1>1, Unchanged
<1>5. TypeInv' /\ StackInv'
  BY <1>1 DEF TypeInv, StackInv
<1>6. ListInv' /\ VerdictInv'
  BY <1>1, <1>2, <1>3, <1>4 DEF ListInv, VerdictInv
<1>7. WalkInv' /\ WireInv' /\ BuiltInv'
  BY <1>1 DEF WalkInv, WireInv, BuiltInv
<1> QED
  BY <1>5, <1>6, <1>7 DEF MarshalInv

(* A duplicate that is written again.                                      *)
LEMMA AgainKeeps ==
  ASSUME MarshalInv, Again PROVE MarshalInv'
<1>1. /\ TypeInv /\ StackInv /\ WalkInv /\ ListInv /\ VerdictInv /\ WireInv
      /\ AtItem /\ Met /\ ~Circular /\ ~dup /\ Item # Nil
      /\ stack' = Append(Advanced, Frame(Item, Append(Top.at, Top.next)))
      /\ written' = written \cup {Place}
      /\ UNCHANGED << graph, circ, dup, marker, markerHead, fixups, phase,
                      built >>
  BY DEF MarshalInv, Again, Met, Enter, sender, Place
<1>2. Pushed(stack')
  BY <1>1, PushedIs
<1>3. /\ TypeInv /\ StackInv /\ AtItem /\ Item # Nil /\ ~dup
      /\ UNCHANGED << graph, circ, dup, marker >>
  BY <1>1
<1>4. /\ stack # <<>> /\ phase = "walk" /\ Len(stack) \in Nat \ {0}
      /\ Place \in Seq(Refs) /\ Item \in Objects
  BY <1>1, ItemIs, AppendIs DEF Place
<1>5. PICK f, c, F, rank, n, g : /\ SearchInv(f, c, F, rank, n, g)
                                 /\ WireWalk(f) /\ Unlisted(f, c)
                                 /\ RefsAccounted(Sure(f))
  BY <1>1, <1>4 DEF WalkInv
<1>6. /\ Item \in MarkedIn(marker) /\ Item \in F
      /\ g < Len(stack) => rank[Item] < rank[Top.obj]
  BY <1>1, <1>5, MetIs
<1>7. TypeInv'
  <2>1. stack' \in Seq(Frames) /\ stack' # <<>>
    BY <1>2, <1>4 DEF Pushed
  <2>2. written' \in SUBSET Seq(Refs)
    BY <1>1, <1>4 DEF TypeInv
  <2> QED
    BY <1>1, <1>4, <2>1, <2>2 DEF TypeInv
<1>8. StackInv'
  BY <1>1, <1>2, StackPushed
<1>9. /\ \A p : Sent(p)' = Sent(p)
      /\ Cyclic' = Cyclic /\ Readable' = Readable
  BY <1>1, Unchanged
<1>10. SearchInv(f, c, F, rank, n, g)'
  BY <1>2, <1>3, <1>5, <1>6, SearchAgain
<1>11. PICK A \in SUBSET written : A = Sure(f)
  BY <1>5, SureIs
<1>11a. PICK p : p = Place
  OBVIOUS
<1>11b. /\ WireWalk(f)' /\ Unlisted(f, c)'
        /\ (WrittenOK /\ FixupsOK /\ RefsAccounted(A \cup {p}))'
  <2>1. WrittenOK /\ FixupsOK /\ RefsAccounted(A)
    BY <1>1, <1>4, <1>5, <1>11 DEF WireInv
  <2>2. WireWalk(f)
    BY <1>5
  <2>4. written' = written \cup {p}
    BY <1>1, <1>11a
  <2>5. \A y \in MarkedIn(marker') : f[y] \in written'
    BY <1>1, <2>2, <2>4 DEF WireWalk
  <2>6. /\ MarkedIn(marker) \subseteq MarkedIn(marker')
        /\ Item \in MarkedIn(marker')
    BY <1>1, <1>6
  <2>7. /\ WireWalk(f)' /\ p \in Seq(Refs) /\ Sent(p) = Item
        /\ p \notin written /\ Top.at \in written /\ Sent(Top.at) = Top.obj
    BY <1>2, <1>3, <1>11a, <2>1, <2>2, <2>4, <2>5, <2>6, WalkWirePushed
  <2>8. (WrittenOK /\ FixupsOK /\ RefsAccounted(A \cup {p}))'
    BY <1>1, <1>2, <1>4, <1>11a, <2>1, <2>4, <2>7, WirePushed
  <2>9. Unlisted(f, c)'
    <3>1. Item \notin c[Top.obj]
      BY <1>1, <1>5, MetIs
    <3>2. Tree(graph, marker, f, c) /\ Unlisted(f, c) /\ WrittenOK
      BY <1>5, <2>1 DEF SearchInv
    <3>3. MarkedIn(marker') \subseteq MarkedIn(marker) \cup {Item}
      BY <1>1
    <3> QED
      BY <1>3, <1>6, <1>11a, <2>4, <2>7, <3>1, <3>2, <3>3, UnlistedPushed
  <2> QED
    BY <2>7, <2>8, <2>9
<1>12. WalkInv'
  <2>1. Sure(f)' \subseteq A \cup {p}
    BY <1>1, <1>9, <1>11, <1>11a DEF Sure
  <2>2. RefsAccounted(Sure(f))'
    BY <1>11b, <2>1 DEF RefsAccounted
  <2> QED
    BY <1>10, <1>11b, <2>2 DEF WalkInv
<1>13. ListInv' /\ VerdictInv' /\ BuiltInv' /\ WireInv'
  BY <1>1, <1>4, <1>9, <1>11b DEF ListInv, VerdictInv, BuiltInv, WireInv
<1> QED
  BY <1>7, <1>8, <1>12, <1>13 DEF MarshalInv

(* A call returns; with the last one the verdict is known.                 *)
LEMMA LeaveKeeps ==
  ASSUME MarshalInv, Leave PROVE MarshalInv'
<1>1. /\ TypeInv /\ StackInv /\ WalkInv /\ ListInv /\ VerdictInv /\ WireInv
      /\ phase = "walk" /\ stack # <<>>
      /\ phase' = IF Len(stack) = 1 THEN "unmark" ELSE phase
      /\ UNCHANGED << graph, circ, dup, marker, markerHead, written, fixups,
                      built >>
  BY DEF MarshalInv, Leave, Walking, sender
<1>2. /\ stack' \in Seq(Frames) /\ Len(stack') = Len(stack) - 1
      /\ Len(stack) \in Nat \ {0} /\ StackInv'
      /\ (stack' = <<>>) <=> (Len(stack) = 1)
  BY <1>1, StackPopped
<1>3. PICK f, c, F, rank, n, g : /\ SearchInv(f, c, F, rank, n, g)
                                 /\ WireWalk(f) /\ Unlisted(f, c)
                                 /\ RefsAccounted(Sure(f))
  BY <1>1 DEF WalkInv
<1>4. /\ \A p : Sent(p)' = Sent(p)
      /\ Cyclic' = Cyclic /\ Readable' = Readable
  BY <1>1, Unchanged
<1>5. \E F2, rank2, n2, g2 : /\ SearchInv(f, c, F2, rank2, n2, g2)'
                             /\ Top.obj \in F2
  <2>1. g \in Nat /\ g <= Len(stack) /\ (g < Len(stack) => Top.obj \in F)
    BY <1>1, <1>3, TopIs
  <2>2. CASE g = Len(stack)
    <3>1. PICK o : o = Top.obj
      OBVIOUS
    <3>2. SearchInv(f, c, F \cup {o}, [rank EXCEPT ![o] = n], n + 1, g - 1)'
      BY <1>1, <1>3, <2>2, <3>1, SearchLeft
    <3> QED
      BY <3>1, <3>2
  <2>3. CASE g < Len(stack)
    <3>1. SearchInv(f, c, F, rank, n, g)'
      BY <1>1, <1>3, <2>3, SearchLeftAgain
    <3> QED
      BY <2>1, <2>3, <3>1
  <2> QED
    BY <1>2, <2>1, <2>2, <2>3
<1>6. PICK F2, rank2, n2, g2 : /\ SearchInv(f, c, F2, rank2, n2, g2)'
                               /\ Top.obj \in F2
  BY <1>5
<1>7. TypeInv'
  <2>1. (phase' = "walk") <=> (stack' # <<>>)
    BY <1>1, <1>2
  <2> QED
    BY <1>1, <1>2, <2>1 DEF TypeInv
<1>7a. PICK A \in SUBSET written : A = Sure(f)
  BY <1>3, SureIs
<1>7b. (WrittenOK /\ FixupsOK /\ RefsAccounted(A))'
  <2>1. WrittenOK /\ FixupsOK /\ RefsAccounted(A)
    BY <1>1, <1>3, <1>7a DEF WireInv
  <2>2. /\ \A w \in written : \A r \in Refs : Pending(w, r)' => Pending(w, r)
        /\ \A w \in written : \A r \in Refs : Pending(w, r) =>
             Pending(w, r)' \/ Sent(Append(w, r)) = Nil
    BY <1>1, PendingPopped
  <2> QED
    BY <1>1, <2>1, <2>2, WireKept
<1>8. WalkInv'
  <2>1. WireWalk(f)'
    BY <1>1, <1>3, WalkWirePopped
  <2>2. Unlisted(f, c)'
    BY <1>1, <1>3 DEF Unlisted
  <2>3. Sure(f)' = A
    BY <1>1, <1>4, <1>7a DEF Sure
  <2>4. RefsAccounted(Sure(f))'
    BY <1>7b, <2>3 DEF RefsAccounted
  <2> QED
    BY <1>6, <2>1, <2>2, <2>4 DEF WalkInv
<1>9. ListInv' /\ BuiltInv'
  BY <1>1 DEF ListInv, BuiltInv
<1>10. VerdictInv'
  <2> SUFFICES ASSUME Len(stack) = 1, ~circ PROVE ~Cyclic
    BY <1>1, <1>4 DEF VerdictInv
  <2>1. Root \in F2
    <3>1. stack[1].obj = Root
      BY <1>1 DEF StackInv
    <3> QED
      BY <1>6, <3>1 DEF Top
  <2>2. F2 \in SUBSET Objects /\ rank2 \in [Objects -> Nat] /\ graph \in Graphs
    BY <1>1, <1>6 DEF SearchInv, Ranked, TypeInv
  <2>3. \A o \in F2 : \A r \in Refs :
          \/ graph[o][r] = Nil
          \/ graph[o][r] \in F2 /\ rank2[graph[o][r]] < rank2[o]
    BY <1>1, <1>6 DEF SearchInv, Closed
  <2> QED
    BY <2>1, <2>2, <2>3, RankedIsAcyclic
<1>11. WireInv'
  <2>1. Covers(A)
    <3>1. Readable => A = written
      BY <1>7a DEF Sure
    <3>2. ASSUME NEW w \in written PROVE \E v \in A : Sent(v) = Sent(w)
      <4>1. Sent(w) \in MarkedIn(marker)
        BY <1>3 DEF WireWalk
      <4>2. f[Sent(w)] \in A
        BY <1>7a, <4>1 DEF Sure
      <4>3. Sent(f[Sent(w)]) = Sent(w)
        BY <1>3, <4>1 DEF SearchInv, Tree, Sent
      <4> QED
        BY <4>2, <4>3
    <3> QED
      BY <3>1, <3>2 DEF Covers
  <2>2. Covers(A)'
    BY <1>1, <1>4, <2>1 DEF Covers
  <2> QED
    BY <1>1, <1>7b, <2>2 DEF WireInv
<1> QED
  BY <1>2, <1>7, <1>8, <1>9, <1>10, <1>11 DEF MarshalInv

(* The markers are taken off, one by one.                                  *)
LEMMA UnmarkingKeeps ==
  ASSUME MarshalInv, removeMarkers PROVE MarshalInv'
<1>1. /\ TypeInv /\ StackInv /\ ListInv /\ VerdictInv /\ WireInv
      /\ phase \in {"unmark", "throw"} /\ markerHead # Nil
      /\ marker' = [marker EXCEPT ![markerHead] = Nil]
      /\ markerHead' = marker[markerHead].prev
      /\ UNCHANGED << graph, circ, dup, stack, written, fixups, phase, built >>
  BY DEF MarshalInv, removeMarkers, sender
<1>2. PICK l : Linked(l, marker, markerHead)
  BY <1>1 DEF ListInv
<1>3. marker \in [Objects -> Marks \cup {Nil}]
  BY <1>1 DEF TypeInv
<1>4. /\ markerHead \in MarkedIn(marker)
      /\ \E k : Linked(k, marker', marker[markerHead].prev)
  BY <1>1, <1>2, <1>3, LinkedRemove
<1>5. TypeInv'
  <2>1. marker[markerHead] \in Marks
    BY <1>3, <1>4 DEF MarkedIn
  <2>2. markerHead' \in Objects \cup {Nil}
    BY <1>1, <2>1 DEF Marks
  <2>3. marker' \in [Objects -> Marks \cup {Nil}]
    BY <1>1, <1>3
  <2> QED
    BY <1>1, <2>2, <2>3 DEF TypeInv
<1>6. /\ \A p : Sent(p)' = Sent(p)
      /\ Cyclic' = Cyclic /\ Readable' = Readable
  BY <1>1, Unchanged
<1>7. StackInv' /\ VerdictInv'
  BY <1>1, <1>6 DEF StackInv, VerdictInv
<1>8. WalkInv' /\ BuiltInv'
  BY <1>1 DEF WalkInv, BuiltInv
<1>9. ListInv'
  BY <1>1, <1>4 DEF ListInv
<1>10. WireInv'
  BY <1>1, <1>6, WireSame DEF WireInv
<1> QED
  BY <1>5, <1>7, <1>8, <1>9, <1>10 DEF MarshalInv

LEMMA UnmarkedKeeps ==
  ASSUME MarshalInv, Unmarked PROVE MarshalInv'
<1>1. /\ TypeInv /\ StackInv /\ ListInv /\ VerdictInv /\ WireInv
      /\ phase \in {"unmark", "throw"} /\ markerHead = Nil
      /\ phase' = IF phase = "unmark" THEN "sent" ELSE "thrown"
      /\ UNCHANGED << graph, circ, dup, marker, markerHead, stack, written,
                      fixups, built >>
  BY DEF MarshalInv, Unmarked, sender
<1>2. MarkedIn(marker) = {}
  <2>1. PICK l : Linked(l, marker, markerHead)
    BY <1>1 DEF ListInv
  <2> QED
    BY <1>1, <2>1, LinkedEmpty
<1>3. /\ \A p : Sent(p)' = Sent(p)
      /\ Cyclic' = Cyclic /\ Readable' = Readable
  BY <1>1, Unchanged
<1>4. TypeInv' /\ StackInv' /\ VerdictInv'
  BY <1>1, <1>3 DEF TypeInv, StackInv, VerdictInv
<1>5. WalkInv' /\ BuiltInv'
  BY <1>1 DEF WalkInv, BuiltInv
<1>6. ListInv'
  BY <1>1, <1>2 DEF ListInv
<1>7. WireInv'
  BY <1>1, <1>3, WireSame DEF WireInv
<1> QED
  BY <1>4, <1>5, <1>6, <1>7 DEF MarshalInv

(* What is written is found at its own path by who receives it.            *)
LEMMA ReachWritten ==
  ASSUME written \in SUBSET Seq(Refs), WrittenOK,
         \A w \in written : \A r \in Refs :
           Append(w, r) \in written => built[w][r] = Append(w, r)
  PROVE  \A w \in written : Find(built, <<>>, w) = w
<1> DEFINE T == { p \in Seq(Refs) : p \in written => Find(built, <<>>, p) = p }
<1>1. <<>> \in T
  BY FindEmpty
<1>2. ASSUME NEW p \in Seq(Refs), p \in T, NEW r \in Refs
      PROVE  Append(p, r) \in T
  <2>1. Append(p, r) \in Seq(Refs) /\ Append(p, r) # <<>>
        /\ Front(Append(p, r)) = p
    BY AppendIs
  <2>2. ASSUME Append(p, r) \in written
        PROVE  Find(built, <<>>, Append(p, r)) = Append(p, r)
    <3>1. p \in written
      BY <2>1, <2>2 DEF WrittenOK
    <3>2. Find(built, <<>>, p) = p /\ p # Nil
      <4>1. p # Nil
        BY NilIsNoPath
      <4> QED
        BY <1>2, <3>1, <4>1
    <3>3. Find(built, <<>>, Append(p, r)) = built[p][r]
      BY <3>2, FindAppend
    <3> QED
      BY <2>2, <3>1, <3>3
  <2> QED
    BY <2>1, <2>2
<1> HIDE DEF T
<1>3. \A p \in Seq(Refs) : p \in T
  BY <1>1, <1>2, PathInduction
<1> QED
  BY <1>3 DEF T

(* The json is received: what is no longer to be visited is written or     *)
(* listed.                                                                 *)
LEMMA ReceiveKeeps ==
  ASSUME MarshalInv, Receive PROVE MarshalInv'
<1>1. /\ TypeInv /\ StackInv /\ ListInv /\ VerdictInv /\ WireInv
      /\ phase = "sent" /\ phase' = "apply"
      /\ built' = [p \in written |-> [r \in Refs |->
                     IF Append(p, r) \in written THEN Append(p, r) ELSE Nil]]
      /\ UNCHANGED << graph, circ, dup, marker, markerHead, stack, written,
                      fixups >>
  BY DEF MarshalInv, Receive, sender
<1>2. /\ \A p : Sent(p)' = Sent(p)
      /\ Cyclic' = Cyclic /\ Readable' = Readable
  BY <1>1, Unchanged
<1>3. TypeInv' /\ StackInv' /\ VerdictInv' /\ ListInv'
  BY <1>1, <1>2 DEF TypeInv, StackInv, VerdictInv, ListInv
<1>4. WalkInv' /\ WireInv'
  BY <1>1 DEF WalkInv, WireInv
<1>5. BuiltInv'
  <2>1. WrittenOK /\ FixupsOK
    BY <1>1 DEF WireInv
  <2>2. WrittenOK' /\ FixupsOK'
    BY <1>1, <2>1, WireSame
  <2>3. built' \in [written -> [Refs -> written \cup {Nil}]]
    BY <1>1
  <2>4. ASSUME NEW w \in written, NEW r \in Refs
        PROVE  /\ Append(w, r) \in written => built'[w][r] = Append(w, r)
               /\ built'[w][r] # Nil =>
                    Sent(built'[w][r]) = Sent(Append(w, r))
               /\ built'[w][r] = Nil => Append(w, r) \notin written
    <3>1. built'[w][r] = IF Append(w, r) \in written THEN Append(w, r) ELSE Nil
      BY <1>1
    <3>2. Append(w, r) \in written => Append(w, r) # Nil
      <4>1. written \subseteq Seq(Refs) /\ Nil \notin Seq(Refs)
        BY <1>1, NilIsNoPath DEF TypeInv
      <4> QED
        BY <4>1
    <3> QED
      BY <3>1, <3>2
  <2>5. PICK A : Covers(A) /\ RefsAccounted(A)
    BY <1>1 DEF WireInv
  <2>6. Covers(A)'
    BY <1>1, <2>5, WireSame
  <2>7. \A w \in A : \A r \in Refs :
          built'[w][r] = Nil => Sent(Append(w, r)) = Nil \/ Listed(Append(w, r))
    <3> SUFFICES ASSUME NEW w \in A, NEW r \in Refs, built'[w][r] = Nil
                 PROVE  Sent(Append(w, r)) = Nil \/ Listed(Append(w, r))
      OBVIOUS
    <3>1. Append(w, r) \notin written
      BY <2>4, <2>5 DEF Covers
    <3>2. ~Pending(w, r)
      BY <1>1 DEF TypeInv, Pending
    <3> QED
      BY <2>5, <3>1, <3>2 DEF RefsAccounted
  <2>8. Rebuilt(A)'
    <3>1. /\ \A q : Listed(q)' = Listed(q)
          /\ \A w : \A r : Sent(Append(w, r))' = Sent(Append(w, r))
      BY <1>1 DEF Listed, Sent
    <3> QED
      BY <2>7, <3>1 DEF Rebuilt
  <2>9. \A w : \A r : /\ Sent(Append(w, r))' = Sent(Append(w, r))
                      /\ Sent(built[w][r])' = Sent(built'[w][r])
    BY <1>1 DEF Sent
  <2> QED
    BY <1>1, <2>2, <2>3, <2>4, <2>6, <2>8, <2>9 DEF BuiltInv
<1> QED
  BY <1>3, <1>4, <1>5 DEF MarshalInv

(* A fixup is applied: it finds the object it was left out of, and the one *)
(* it was left out for.                                                    *)
LEMMA ApplyKeeps ==
  ASSUME MarshalInv, applyFixup PROVE MarshalInv'
<1> DEFINE fix == Head(fixups)
           place == fix[1]
<1>1. /\ TypeInv /\ StackInv /\ ListInv /\ VerdictInv /\ BuiltInv
      /\ phase = "apply" /\ fixups # <<>> /\ fixups' = Tail(fixups)
      /\ built' = [built EXCEPT ![Find(built, <<>>, Front(place))]
                                 [place[Len(place)]] =
                     Find(built, <<>>, fix[2])]
      /\ UNCHANGED << graph, circ, dup, marker, markerHead, stack, written,
                      phase >>
  BY DEF MarshalInv, applyFixup, sender
<1>2. fixups \in Seq(Seq(Refs) \X Seq(Refs)) /\ written \in SUBSET Seq(Refs)
  BY <1>1 DEF TypeInv
<1>3. /\ fix = fixups[1] /\ Len(fixups) \in Nat \ {0}
      /\ fixups' \in Seq(Seq(Refs) \X Seq(Refs))
      /\ Len(fixups') = Len(fixups) - 1
      /\ \A i \in 1 .. Len(fixups) - 1 : fixups'[i] = fixups[i + 1]
  BY <1>1, <1>2
<1>4. /\ \A p : Sent(p)' = Sent(p)
      /\ Cyclic' = Cyclic /\ Readable' = Readable
  BY <1>1, Unchanged
<1>5. TypeInv' /\ StackInv' /\ VerdictInv' /\ ListInv'
  BY <1>1, <1>3, <1>4 DEF TypeInv, StackInv, VerdictInv, ListInv
<1>6. WalkInv' /\ WireInv'
  BY <1>1 DEF WalkInv, WireInv
<1>7. BuiltInv'
  <2>0. PICK A : Covers(A) /\ Rebuilt(A)
    BY <1>1 DEF BuiltInv
  <2> SUFFICES /\ WrittenOK' /\ FixupsOK'
               /\ built' \in [written -> [Refs -> written \cup {Nil}]]
               /\ \A w \in written : \A r \in Refs :
                    /\ Append(w, r) \in written => built'[w][r] = Append(w, r)
                    /\ built'[w][r] # Nil =>
                         Sent(built'[w][r]) = Sent(Append(w, r))
               /\ Covers(A)' /\ Rebuilt(A)'
    <3>1. /\ \A w : \A r : Sent(Append(w, r))' = Sent(Append(w, r))
          /\ \A w : \A r : Sent(built[w][r])' = Sent(built'[w][r])
      BY <1>1 DEF Sent
    <3> QED
      BY <1>1, <1>4, <3>1 DEF BuiltInv
  <2>1. /\ WrittenOK /\ FixupsOK
        /\ built \in [written -> [Refs -> written \cup {Nil}]]
        /\ \A w \in written : \A r \in Refs :
             /\ Append(w, r) \in written => built[w][r] = Append(w, r)
             /\ built[w][r] # Nil => Sent(built[w][r]) = Sent(Append(w, r))
        /\ \A w \in A : w \in written
        /\ \A w \in A : \A r \in Refs : built[w][r] = Nil =>
             Sent(Append(w, r)) = Nil \/ Listed(Append(w, r))
    BY <1>1, <2>0 DEF BuiltInv, Covers, Rebuilt
  <2>2. /\ place \notin written /\ fix[2] \in written
        /\ Sent(fix[2]) = Sent(place)
    BY <1>3, <2>1 DEF FixupsOK
  <2>3. PICK w0 \in written, r0 \in Refs : place = Append(w0, r0)
    <3>1. FixupsOK /\ 1 \in 1 .. Len(fixups)
      BY <1>3, <2>1
    <3>2. \E w \in written, r \in Refs : fixups[1][1] = Append(w, r)
      BY <3>1 DEF FixupsOK
    <3> QED
      BY <1>3, <3>2
  <2>4. PICK v \in written : v = fix[2]
    BY <2>2
  <2>5. \A w \in written : Find(built, <<>>, w) = w
    BY <1>2, <2>1, ReachWritten
  <2>6. built' = [built EXCEPT ![w0][r0] = v]
    <3>1. Front(place) = w0 /\ place[Len(place)] = r0
      <4>1. w0 \in Seq(Refs)
        BY <1>2
      <4>2. /\ Front(Append(w0, r0)) = w0
            /\ Append(w0, r0)[Len(Append(w0, r0))] = r0
        BY <4>1, AppendIs
      <4> HIDE DEF place
      <4> QED
        BY <2>3, <4>2
    <3>2. Find(built, <<>>, Front(place)) = w0 /\ Find(built, <<>>, fix[2]) = v
      BY <2>4, <2>5, <3>1
    <3> HIDE DEF place, fix
    <3> QED
      BY <1>1, <3>1, <3>2
  <2>7. /\ place \notin written /\ Sent(v) = Sent(place)
        /\ \A w \in written : \A r \in Refs :
             Append(w, r) = place => w = w0 /\ r = r0
    <3>1. ASSUME NEW w \in written, NEW r \in Refs, Append(w, r) = place
          PROVE  w = w0 /\ r = r0
      <4>1. w \in Seq(Refs) /\ w0 \in Seq(Refs)
        BY <1>2
      <4>2. Append(w, r) = Append(w0, r0)
        BY <2>3, <3>1
      <4> QED
        BY <4>1, <4>2, AppendEq
    <3> QED
      BY <2>2, <2>4, <3>1
  <2>8. WrittenOK'
    BY <1>1, <2>1 DEF WrittenOK, Sent
  <2>9. FixupsOK'
    <3> SUFFICES ASSUME NEW i \in 1 .. Len(fixups')
                 PROVE  /\ fixups'[i][1] \notin written
                        /\ fixups'[i][2] \in written
                        /\ Sent(fixups'[i][2]) = Sent(fixups'[i][1])
                        /\ \E w \in written, r \in Refs :
                             fixups'[i][1] = Append(w, r) /\ ~Pending(w, r)
      BY <1>1 DEF FixupsOK, Sent, Pending
    <3>1. PICK j \in 1 .. Len(fixups) : fixups'[i] = fixups[j]
      <4>1. i + 1 \in 1 .. Len(fixups) /\ fixups'[i] = fixups[i + 1]
        BY <1>3
      <4> QED
        BY <4>1
    <3>2. /\ fixups[j][1] \notin written /\ fixups[j][2] \in written
          /\ Sent(fixups[j][2]) = Sent(fixups[j][1])
          /\ \E w \in written, r \in Refs :
               fixups[j][1] = Append(w, r) /\ ~Pending(w, r)
      BY <2>1 DEF FixupsOK
    <3> QED
      BY <3>1, <3>2
  <2>10. built' \in [written -> [Refs -> written \cup {Nil}]]
    BY <2>1, <2>6
  <2>11. \A p : Listed(p) => Listed(p)' \/ p = place
    <3> SUFFICES ASSUME NEW p, Listed(p), p # place PROVE Listed(p)'
      OBVIOUS
    <3>1. PICK i \in 1 .. Len(fixups) : fixups[i][1] = p
      BY DEF Listed
    <3>2. i # 1
      BY <1>3, <3>1
    <3>3. i - 1 \in 1 .. Len(fixups) - 1 /\ (i - 1) + 1 = i
      BY <1>3, <3>2
    <3>4. i - 1 \in 1 .. Len(fixups') /\ fixups'[i - 1][1] = p
      BY <1>3, <3>1, <3>3
    <3> QED
      BY <3>4 DEF Listed
  <2>12. v # Nil
    BY <1>2, NilIsNoPath
  <2> HIDE DEF place, fix
  <2>13. ASSUME NEW w \in written, NEW r \in Refs
         PROVE  /\ Append(w, r) \in written => built'[w][r] = Append(w, r)
                /\ built'[w][r] # Nil =>
                     Sent(built'[w][r]) = Sent(Append(w, r))
                /\ w \in A /\ built'[w][r] = Nil =>
                     Sent(Append(w, r)) = Nil \/ Listed(Append(w, r))'
    <3>1. CASE w = w0 /\ r = r0
      <4>1. built'[w][r] = v
        BY <2>1, <2>6, <3>1
      <4>2. Append(w, r) = place
        BY <2>3, <3>1
      <4> QED
        BY <2>7, <2>12, <4>1, <4>2
    <3>2. CASE ~(w = w0 /\ r = r0)
      <4>1. built'[w][r] = built[w][r]
        BY <2>1, <2>6, <3>2
      <4>2. Append(w, r) # place
        BY <2>7, <3>2
      <4> QED
        BY <2>1, <2>11, <4>1, <4>2
    <3> QED
      BY <3>1, <3>2
  <2>14. Covers(A)'
    BY <1>1, <1>4, <2>0 DEF Covers
  <2>15. Rebuilt(A)'
    <3>1. \A w : \A r : Sent(Append(w, r))' = Sent(Append(w, r))
      BY <1>1 DEF Sent
    <3> QED
      BY <2>1, <2>13, <3>1 DEF Rebuilt
  <2> QED
    BY <2>8, <2>9, <2>10, <2>13, <2>14, <2>15
<1> QED
  BY <1>5, <1>6, <1>7 DEF MarshalInv

(* No fixup is left.                                                       *)
LEMMA AppliedKeeps ==
  ASSUME MarshalInv, Applied PROVE MarshalInv'
<1>1. /\ TypeInv /\ StackInv /\ ListInv /\ VerdictInv /\ BuiltInv
      /\ phase = "apply" /\ fixups = <<>> /\ phase' = "done"
      /\ UNCHANGED << graph, circ, dup, marker, markerHead, stack, written,
                      fixups, built >>
  BY DEF MarshalInv, Applied, sender
<1>2. /\ \A p : Sent(p)' = Sent(p)
      /\ Cyclic' = Cyclic /\ Readable' = Readable
  BY <1>1, Unchanged
<1>3. TypeInv' /\ StackInv' /\ VerdictInv' /\ ListInv'
  BY <1>1, <1>2 DEF TypeInv, StackInv, VerdictInv, ListInv
<1>4. WalkInv' /\ WireInv'
  BY <1>1 DEF WalkInv, WireInv
<1>5. /\ WrittenOK' = WrittenOK /\ FixupsOK' = FixupsOK
      /\ \A A : Covers(A)' = Covers(A)
  BY <1>1, WireSame
<1>6. /\ \A w : \A r : Sent(Append(w, r))' = Sent(Append(w, r))
      /\ \A w : \A r : Sent(built[w][r])' = Sent(built[w][r])
      /\ \A p : Listed(p)' = Listed(p)
  BY <1>1 DEF Sent, Listed
<1>7. BuiltInv'
  <2>1. \A A : Rebuilt(A)' = Rebuilt(A)
    BY <1>1, <1>6 DEF Rebuilt
  <2> QED
    BY <1>1, <1>5, <1>6, <2>1 DEF BuiltInv
<1> QED
  BY <1>3, <1>4, <1>7 DEF MarshalInv

(* Nothing happens.                                                        *)
LEMMA StutterKeeps ==
  ASSUME MarshalInv, UNCHANGED marshalVars PROVE MarshalInv'
<1>1. UNCHANGED << graph, circ, dup, marker, markerHead, stack, written,
                   fixups, phase, built >>
  BY DEF marshalVars
<1>2. /\ \A p : Sent(p)' = Sent(p)
      /\ Cyclic' = Cyclic /\ Readable' = Readable
  BY <1>1, Unchanged
<1>3. /\ WrittenOK' = WrittenOK /\ FixupsOK' = FixupsOK
      /\ \A A : RefsAccounted(A)' = RefsAccounted(A)
      /\ \A A : Covers(A)' = Covers(A)
  BY <1>1, WireSame
<1>4. TypeInv' /\ StackInv' /\ VerdictInv' /\ ListInv'
  BY <1>1, <1>2 DEF MarshalInv, TypeInv, StackInv, VerdictInv, ListInv
<1>5. WalkInv'
  <2>1. ASSUME NEW f, NEW c, NEW F, NEW rank, NEW n, NEW g
        PROVE  /\ SearchInv(f, c, F, rank, n, g)' = SearchInv(f, c, F, rank, n, g)
               /\ WireWalk(f)' = WireWalk(f)
               /\ Unlisted(f, c)' = Unlisted(f, c)
               /\ RefsAccounted(Sure(f))' = RefsAccounted(Sure(f))
    <3>1. /\ Ranked(F, rank, n, g)' = Ranked(F, rank, n, g)
          /\ FirstTime(f, c, F, g)' = FirstTime(f, c, F, g)
          /\ WrittenAgain(F, rank, g)' = WrittenAgain(F, rank, g)
          /\ Closed(c, F, rank)' = Closed(c, F, rank)
          /\ Visited(c, F, g)' = Visited(c, F, g)
      BY <1>1 DEF Ranked, FirstTime, WrittenAgain, Closed, Visited
    <3>2. WireWalk(f)' = WireWalk(f)
      BY <1>1 DEF WireWalk, Sent
    <3>3. Unlisted(f, c)' = Unlisted(f, c)
      BY <1>1 DEF Unlisted
    <3>4. PICK A : A = Sure(f)
      OBVIOUS
    <3>5. Sure(f)' = A
      BY <1>1, <1>2, <3>4 DEF Sure
    <3>6. RefsAccounted(Sure(f))' = RefsAccounted(A)'
      BY <3>5 DEF RefsAccounted
    <3>7. RefsAccounted(Sure(f))' = RefsAccounted(Sure(f))
      BY <1>3, <3>4, <3>6
    <3> QED
      BY <1>1, <3>1, <3>2, <3>3, <3>7 DEF SearchInv
  <2> QED
    BY <1>1, <1>2, <2>1 DEF MarshalInv, WalkInv
<1>6. WireInv'
  BY <1>1, <1>2, <1>3 DEF MarshalInv, WireInv
<1>7. /\ \A w : \A r : Sent(Append(w, r))' = Sent(Append(w, r))
      /\ \A w : \A r : Sent(built[w][r])' = Sent(built[w][r])
      /\ \A p : Listed(p)' = Listed(p)
  BY <1>1 DEF Sent, Listed
<1>8. BuiltInv'
  <2>1. \A A : Rebuilt(A)' = Rebuilt(A)
    BY <1>1, <1>7 DEF Rebuilt
  <2> QED
    BY <1>1, <1>3, <1>7, <2>1 DEF MarshalInv, BuiltInv
<1> QED
  BY <1>4, <1>5, <1>6, <1>8 DEF MarshalInv

(* The inductive invariant holds of the specification.                     *)
LEMMA MarshalInvCorrect == MarshalSpec => []MarshalInv
<1>1. MarshalInit => MarshalInv
  BY InitIInv
<1>2. MarshalInv /\ [MarshalNext]_marshalVars => MarshalInv'
  <2> SUFFICES ASSUME MarshalInv, [MarshalNext]_marshalVars PROVE MarshalInv'
    OBVIOUS
  <2>1. CASE Simple
    BY <2>1, SimpleKeeps
  <2>2. CASE First
    BY <2>2, FirstKeeps
  <2>3. CASE LeaveOut
    BY <2>3, LeaveOutKeeps
  <2>4. CASE Throw
    BY <2>4, ThrowKeeps
  <2>5. CASE Again
    BY <2>5, AgainKeeps
  <2>6. CASE Leave
    BY <2>6, LeaveKeeps
  <2>7. CASE removeMarkers
    BY <2>7, UnmarkingKeeps
  <2>8. CASE Unmarked
    BY <2>8, UnmarkedKeeps
  <2>9. CASE Receive
    BY <2>9, ReceiveKeeps
  <2>10. CASE applyFixup
    BY <2>10, ApplyKeeps
  <2>11. CASE Applied
    BY <2>11, AppliedKeeps
  <2>12. CASE UNCHANGED marshalVars
    BY <2>12, StutterKeeps
  <2> QED
    BY <2>1, <2>2, <2>3, <2>4, <2>5, <2>6, <2>7, <2>8, <2>9, <2>10, <2>11, <2>12
       DEF MarshalNext, toJSON, applyFixups
<1> QED
  BY <1>1, <1>2, PTL DEF MarshalSpec

(* No object is inside itself.                                             *)
LEMMA NeverEndless ==
  ASSUME MarshalInv PROVE NoEndless
<1>1. TypeInv /\ StackInv /\ WalkInv
  BY DEF MarshalInv
<1>2. stack \in Seq(Frames) /\ DOMAIN stack = 1 .. Len(stack)
      /\ Len(stack) \in Nat
  BY <1>1 DEF TypeInv
<1> SUFFICES ASSUME NEW j \in 1 .. Len(stack), NEW k \in 1 .. Len(stack),
                    stack[j].obj = stack[k].obj
             PROVE  j = k
  BY <1>2 DEF NoEndless
<1>3. phase = "walk"
  BY <1>1, <1>2 DEF TypeInv
<1>4. PICK f, c, F, rank, n, g : SearchInv(f, c, F, rank, n, g)
  BY <1>1, <1>3 DEF WalkInv
<1> QED
  BY <1>1, <1>4, CallsDiffer

(* When the fixups are applied, every path leads to what was written of    *)
(* the object to which it led here.                                        *)
LEMMA SamePaths ==
  ASSUME MarshalInv, phase = "done", Readable, NEW p \in Seq(Refs)
  PROVE  /\ (Sent(p) = Nil) <=> (Got(p) = Nil)
         /\ Got(p) # Nil => Got(p) \in written /\ Sent(Got(p)) = Sent(p)
<1> DEFINE Same(q) ==
             /\ (Sent(q) = Nil) <=> (Got(q) = Nil)
             /\ Got(q) # Nil => Got(q) \in written /\ Sent(Got(q)) = Sent(q)
           T == { q \in Seq(Refs) : Same(q) }
<1>1. /\ written \in SUBSET Seq(Refs) /\ <<>> \in written /\ fixups = <<>>
      /\ \A w \in written : Sent(w) \in Objects
      /\ built \in [written -> [Refs -> written \cup {Nil}]]
      /\ \A w \in written : \A r \in Refs :
           /\ built[w][r] # Nil => Sent(built[w][r]) = Sent(Append(w, r))
           /\ built[w][r] = Nil =>
                Sent(Append(w, r)) = Nil \/ Listed(Append(w, r))
  <2>1. \E A : Covers(A) /\ Rebuilt(A)
    BY DEF MarshalInv, BuiltInv
  <2>2. Rebuilt(written)
    BY <2>1 DEF Covers
  <2> QED
    BY <2>2 DEF MarshalInv, TypeInv, BuiltInv, WrittenOK, Rebuilt
<1>2. /\ \A w \in written : w # Nil
      /\ \A o \in Objects : o # Nil
      /\ Root \in Objects
  BY <1>1, NilIsNoPath, MarshalAssumption
<1>3. \A q : ~Listed(q)
  BY <1>1 DEF Listed
<1>4. <<>> \in T
  <2>1. Sent(<<>>) = Root /\ Got(<<>>) = <<>>
    BY FindEmpty DEF Sent, Got
  <2>2. <<>> # Nil
    BY <1>1, <1>2
  <2> QED
    BY <1>1, <1>2, <2>1, <2>2
<1>5. ASSUME NEW q \in Seq(Refs), q \in T, NEW r \in Refs
      PROVE  Append(q, r) \in T
  <2>1. Append(q, r) \in Seq(Refs)
    BY AppendIs
  <2>2. /\ Sent(Append(q, r)) = IF Sent(q) = Nil THEN Nil ELSE graph[Sent(q)][r]
        /\ Got(Append(q, r)) = IF Got(q) = Nil THEN Nil ELSE built[Got(q)][r]
    BY FindAppend DEF Sent, Got
  <2>3. Same(q)
    BY <1>5
  <2>4. CASE Got(q) = Nil
    BY <2>1, <2>2, <2>3, <2>4
  <2>5. CASE Got(q) # Nil
    <3>1. PICK w \in written : w = Got(q) /\ Sent(w) = Sent(q) /\ Sent(w) # Nil
      BY <1>1, <1>2, <2>3, <2>5
    <3>2. Sent(Append(w, r)) = graph[Sent(w)][r]
      BY <1>1, <3>1, FindAppend DEF Sent
    <3>3. /\ Sent(Append(q, r)) = Sent(Append(w, r))
          /\ Got(Append(q, r)) = built[w][r]
      BY <2>2, <2>3, <2>5, <3>1, <3>2
    <3>4. built[w][r] \in written \cup {Nil}
      BY <1>1
    <3>5. CASE built[w][r] = Nil
      <4>1. Sent(Append(w, r)) = Nil
        BY <1>1, <1>3, <3>5
      <4> QED
        BY <2>1, <3>3, <3>5, <4>1
    <3>6. CASE built[w][r] # Nil
      <4>1. built[w][r] \in written /\ Sent(built[w][r]) = Sent(Append(w, r))
        BY <1>1, <3>4, <3>6
      <4>2. Sent(built[w][r]) # Nil
        BY <1>1, <1>2, <4>1
      <4> QED
        BY <2>1, <3>3, <3>6, <4>1, <4>2
    <3> QED
      BY <3>5, <3>6
  <2> QED
    BY <2>4, <2>5
<1> HIDE DEF T
<1>6. \A q \in Seq(Refs) : q \in T
  BY <1>4, <1>5, PathInduction
<1> QED
  BY <1>6 DEF T

(* Combined duplicates: an object is written once, so what is one here is  *)
(* one there.                                                              *)
LEMMA AlwaysIsomorphic ==
  ASSUME MarshalInv PROVE Isomorphic
<1> SUFFICES ASSUME phase = "done", dup, NEW p \in Paths, NEW q \in Paths
             PROVE  /\ (Sent(p) = Nil) <=> (Got(p) = Nil)
                    /\ (Sent(p) = Sent(q)) <=> (Got(p) = Got(q))
  BY DEF Isomorphic
<1>1. p \in Seq(Refs) /\ q \in Seq(Refs) /\ Readable
  BY PathsAre DEF Readable
<1>2. /\ (Sent(p) = Nil) <=> (Got(p) = Nil)
      /\ Got(p) # Nil => Got(p) \in written /\ Sent(Got(p)) = Sent(p)
  BY <1>1, SamePaths
<1>3. /\ (Sent(q) = Nil) <=> (Got(q) = Nil)
      /\ Got(q) # Nil => Got(q) \in written /\ Sent(Got(q)) = Sent(q)
  BY <1>1, SamePaths
<1>4. \A v, w \in written : Sent(v) = Sent(w) => v = w
  BY <1>1 DEF MarshalInv, BuiltInv, WrittenOK
<1>5. Sent(p) = Sent(q) => Got(p) = Got(q)
  BY <1>2, <1>3, <1>4
<1>6. Got(p) = Got(q) => Sent(p) = Sent(q)
  BY <1>2, <1>3
<1> QED
  BY <1>2, <1>5, <1>6

(* A value that does not contain itself loses no reference.                *)
LEMMA AlwaysUnfolded ==
  ASSUME MarshalInv PROVE Unfolded
<1> SUFFICES ASSUME phase = "done", ~Cyclic, NEW p \in Paths
             PROVE  (Sent(p) = Nil) <=> (Got(p) = Nil)
  BY DEF Unfolded
<1>1. p \in Seq(Refs) /\ Readable
  BY PathsAre DEF Readable
<1> QED
  BY <1>1, SamePaths

(* No path leads to what was not there: what was written at a place is of  *)
(* the object that the place leads to here, and so is each of its          *)
(* references.                                                             *)
LEMMA AlwaysGenuine ==
  ASSUME MarshalInv PROVE Genuine
<1> SUFFICES ASSUME phase = "done"
             PROVE  \A p \in Paths : Got(p) # Nil => /\ Sent(p) # Nil
                                                     /\ Sent(Got(p)) = Sent(p)
  BY DEF Genuine
<1> DEFINE T == { q \in Seq(Refs) : Got(q) # Nil =>
                    Got(q) \in written /\ Sent(Got(q)) = Sent(q) }
<1>1. /\ written \in SUBSET Seq(Refs) /\ <<>> \in written
      /\ \A w \in written : Sent(w) \in Objects
      /\ built \in [written -> [Refs -> written \cup {Nil}]]
      /\ \A w \in written : \A r \in Refs :
           built[w][r] # Nil => Sent(built[w][r]) = Sent(Append(w, r))
  BY DEF MarshalInv, TypeInv, BuiltInv, WrittenOK
<1>2. \A o \in Objects : o # Nil
  BY MarshalAssumption
<1>3. <<>> \in T
  <2>1. Got(<<>>) = <<>>
    BY FindEmpty DEF Got
  <2> QED
    BY <1>1, <2>1
<1>4. ASSUME NEW q \in Seq(Refs), q \in T, NEW r \in Refs
      PROVE  Append(q, r) \in T
  <2>1. Append(q, r) \in Seq(Refs)
    BY AppendIs
  <2>2. /\ Sent(Append(q, r)) = IF Sent(q) = Nil THEN Nil ELSE graph[Sent(q)][r]
        /\ Got(Append(q, r)) = IF Got(q) = Nil THEN Nil ELSE built[Got(q)][r]
    BY FindAppend DEF Sent, Got
  <2>3. CASE Got(q) = Nil
    BY <2>1, <2>2, <2>3
  <2>4. CASE Got(q) # Nil
    <3>1. PICK w \in written : w = Got(q) /\ Sent(w) = Sent(q)
      BY <1>4, <2>4
    <3>2. Sent(Append(w, r)) = IF Sent(w) = Nil THEN Nil ELSE graph[Sent(w)][r]
      BY <1>1, <3>1, FindAppend DEF Sent
    <3>3. /\ Sent(Append(q, r)) = Sent(Append(w, r))
          /\ Got(Append(q, r)) = built[w][r]
          /\ built[w][r] \in written \cup {Nil}
      BY <1>1, <2>2, <2>4, <3>1, <3>2
    <3> QED
      BY <1>1, <2>1, <3>3
  <2> QED
    BY <2>3, <2>4
<1> HIDE DEF T
<1>5. \A q \in Seq(Refs) : q \in T
  BY <1>3, <1>4, PathInduction
<1> QED
  BY <1>1, <1>2, <1>5, PathsAre DEF T

(* One place of every object that is reached is complete: the places of    *)
(* which the json was complete are one of each object that is written, and *)
(* all that they refer to is written.                                      *)
LEMMA AlwaysComplete ==
  ASSUME MarshalInv PROVE Complete
<1> SUFFICES ASSUME phase = "done", NEW p \in Paths, Sent(p) # Nil
             PROVE  \E w \in written :
                      /\ Sent(w) = Sent(p)
                      /\ \A r \in Refs :
                           (graph[Sent(p)][r] = Nil) <=> (built[w][r] = Nil)
  BY DEF Complete, Reached
<1>1. /\ written \in SUBSET Seq(Refs) /\ <<>> \in written /\ fixups = <<>>
      /\ \A w \in written : Sent(w) \in Objects
      /\ built \in [written -> [Refs -> written \cup {Nil}]]
      /\ \A w \in written : \A r \in Refs :
           built[w][r] # Nil => Sent(built[w][r]) = Sent(Append(w, r))
  BY DEF MarshalInv, TypeInv, BuiltInv, WrittenOK
<1>2. PICK A : /\ A \subseteq written
               /\ \A w \in written : \E v \in A : Sent(v) = Sent(w)
               /\ \A w \in A : \A r \in Refs :
                    built[w][r] = Nil => Sent(Append(w, r)) = Nil
  <2>1. PICK A : Covers(A) /\ Rebuilt(A)
    BY DEF MarshalInv, BuiltInv
  <2>2. \A q : ~Listed(q)
    BY <1>1 DEF Listed
  <2> QED
    BY <2>1, <2>2 DEF Covers, Rebuilt
<1>3. \A o \in Objects : o # Nil
  BY MarshalAssumption
<1>4. ASSUME NEW w \in A, NEW r \in Refs
      PROVE  /\ Sent(Append(w, r)) = graph[Sent(w)][r]
             /\ (Sent(Append(w, r)) = Nil) <=> (built[w][r] = Nil)
             /\ built[w][r] # Nil => /\ built[w][r] \in written
                                     /\ Sent(built[w][r]) = Sent(Append(w, r))
  <2>1. w \in written /\ w \in Seq(Refs) /\ Sent(w) # Nil
    BY <1>1, <1>2, <1>3
  <2>2. Sent(Append(w, r)) = graph[Sent(w)][r]
    BY <2>1, FindAppend DEF Sent
  <2>3. built[w][r] \in written \cup {Nil}
    BY <1>1, <2>1
  <2> QED
    BY <1>1, <1>2, <1>3, <2>1, <2>2, <2>3
<1> DEFINE T == { q \in Seq(Refs) : Sent(q) # Nil =>
                                       \E v \in A : Sent(v) = Sent(q) }
<1>5. <<>> \in T
  BY <1>1, <1>2
<1>6. ASSUME NEW q \in Seq(Refs), q \in T, NEW r \in Refs
      PROVE  Append(q, r) \in T
  <2>1. Append(q, r) \in Seq(Refs)
    BY AppendIs
  <2>2. Sent(Append(q, r)) = IF Sent(q) = Nil THEN Nil ELSE graph[Sent(q)][r]
    BY FindAppend DEF Sent
  <2>3. ASSUME Sent(Append(q, r)) # Nil
        PROVE  \E v \in A : Sent(v) = Sent(Append(q, r))
    <3>1. PICK w \in A : Sent(w) = Sent(q)
      BY <1>6, <2>2, <2>3
    <3>2. Sent(Append(q, r)) = Sent(Append(w, r))
      BY <1>4, <2>2, <2>3, <3>1
    <3>3. /\ built[w][r] \in written
          /\ Sent(built[w][r]) = Sent(Append(q, r))
      BY <1>4, <2>3, <3>2
    <3> QED
      BY <1>2, <3>3
  <2> QED
    BY <2>1, <2>3
<1> HIDE DEF T
<1>7. \A q \in Seq(Refs) : q \in T
  BY <1>5, <1>6, PathInduction
<1>8. PICK w \in A : Sent(w) = Sent(p)
  BY <1>7, PathsAre DEF T
<1> QED
  BY <1>2, <1>4, <1>8

(* The exception is deserved, and no marker is left.                       *)
LEMMA AlwaysVerdict ==
  ASSUME MarshalInv PROVE Verdict
<1> SUFFICES ASSUME phase \in {"thrown", "sent", "apply", "done"}
             PROVE  /\ \A o \in Objects : marker[o] = Nil
                    /\ phase = "thrown" <=> Cyclic /\ ~circ
  BY DEF Verdict
<1>1. \A o \in Objects : marker[o] = Nil
  <2>1. MarkedIn(marker) = {}
    BY DEF MarshalInv, ListInv
  <2> QED
    BY <2>1 DEF MarkedIn
<1>2. (phase = "thrown") <=> (Cyclic /\ ~circ)
  BY DEF MarshalInv, VerdictInv
<1> QED
  BY <1>1, <1>2

(* What arrives is what was sent, as far as each setting of the two flags  *)
(* goes, or an exception that is deserved, for every finite object graph,  *)
(* and the conversion does not go round in a circle (jsonrpc.js:204-275,   *)
(* 334, 881-904). Of a value that contains itself and duplicates written   *)
(* again, one copy of every object arrives complete, and the others may    *)
(* lack references.                                                        *)
THEOREM FaithfulCorrect == MarshalSpec => []Faithful
<1>1. MarshalInv => Faithful
  <2> SUFFICES ASSUME MarshalInv PROVE Faithful
    OBVIOUS
  <2>1. MarshalTypeOK
    <3>1. TypeInv
      BY DEF MarshalInv
    <3>2. ASSUME NEW k \in DOMAIN stack
          PROVE  stack[k].obj \in Objects /\ stack[k].next \in 1 .. Width + 1
      BY <3>1, FrameIs DEF TypeInv
    <3> QED
      BY <3>1, <3>2 DEF TypeInv, MarshalTypeOK, Marks
  <2> QED
    BY <2>1, NeverEndless, AlwaysIsomorphic, AlwaysUnfolded, AlwaysGenuine,
       AlwaysComplete, AlwaysVerdict DEF Faithful
<1> QED
  BY <1>1, MarshalInvCorrect, PTL
=============================================================================
