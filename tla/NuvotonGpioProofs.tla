-------------------------- MODULE NuvotonGpioProofs --------------------------
(***************************************************************************)
(* What NuvotonGpio guarantees for any number of users, kernel clients,    *)
(* boards, pins and calls. First the mode, the selected device and the     *)
(* reservation of the port, where the tables of the chips enter only       *)
(* through their types; then what a show prints, which rests on lemmas     *)
(* about each of the seven tables.                                         *)
(***************************************************************************)
EXTENDS NuvotonGpio, TLAPS

Chips == 0 .. 6

(* Every layout of a setter gives devices 7 to 9 and a register.           *)
LEMMA SetLayoutType ==
  ASSUME NEW s \in Chips, NEW p \in DOMAIN SetLayout(s)
  PROVE  SetLayout(s)[p] \in (7 .. 9) \X Nat
<1> DEFINE Cell == (7 .. 9) \X Nat
<1>1. \A i \in 1 .. 10 : Wide[i] \in Cell
  BY DEF Wide
<1>2. \A q \in DOMAIN nct6775f_set : nct6775f_set[q] \in Cell
  BY <1>1 DEF nct6775f_set
<1>3. \A q \in DOMAIN nct6776f_set : nct6776f_set[q] \in Cell
  BY <1>1 DEF nct6776f_set
<1>4. \A q \in DOMAIN nct6779d_set : nct6779d_set[q] \in Cell
  BY <1>1 DEF nct6779d_set
<1>5. \A q \in DOMAIN nct6104d_set : nct6104d_set[q] \in Cell
  BY DEF nct6104d_set
<1>6. \A q \in DOMAIN nct6116d_set : nct6116d_set[q] \in Cell
  BY DEF nct6116d_set
<1>7. \A q \in DOMAIN nct6796d_set : nct6796d_set[q] \in Cell
  BY <1>1 DEF nct6796d_set
<1>8. \A q \in DOMAIN nct5581d_set : nct5581d_set[q] \in Cell
  BY <1>1 DEF nct5581d_set
<1>9. SetLayout(s) \in { nct6775f_set, nct6776f_set, nct6779d_set,
          nct6104d_set, nct6116d_set, nct6796d_set, nct5581d_set }
  BY DEF SetLayout, Chips
<1> QED
  BY <1>2, <1>3, <1>4, <1>5, <1>6, <1>7, <1>8, <1>9

(* So do the layouts of the getters, which differ for the NCT6116D alone.  *)
LEMMA GetLayoutType ==
  ASSUME NEW s \in Chips, NEW attr \in Attrs,
         NEW p \in DOMAIN GetLayout(s, attr)
  PROVE  GetLayout(s, attr)[p] \in (7 .. 9) \X Nat
<1>1. CASE s = 4
  <2>1. GetLayout(s, attr) = nct6116d_get(attr) /\ SetLayout(s) = nct6116d_set
    BY <1>1 DEF GetLayout, SetLayout
  <2>2. DOMAIN nct6116d_get(attr) = DOMAIN nct6116d_set
    BY DEF nct6116d_get
  <2>3. \/ nct6116d_get(attr)[p] = nct6116d_set[p]
        \/ nct6116d_get(attr)[p] = <<9, 252>>
    BY <2>1, <2>2 DEF nct6116d_get
  <2>4. nct6116d_set[p] \in (7 .. 9) \X Nat
    BY <2>1, <2>2, SetLayoutType
  <2> QED
    BY <2>1, <2>3, <2>4
<1>2. CASE s # 4
  <2>1. GetLayout(s, attr) = SetLayout(s)
    BY <1>2 DEF Chips, GetLayout, SetLayout, nct6775f_get, nct6776f_get,
       nct6779d_get, nct6104d_get, nct6796d_get, nct5581d_get
  <2> QED
    BY <2>1, SetLayoutType
<1> QED
  BY <1>1, <1>2

(* A show of select looks at devices 7 to 9.                               *)
LEMMA SelectDeviceType ==
  ASSUME NEW s \in Chips, NEW p
  PROVE  SelectDevice(s, p) \in 7 .. 9
BY DEF Chips, SelectDevice, nct6775f_ld, nct6776f_ld, nct6779d_ld, nct6104d_ld,
   nct6116d_ld, nct6796d_ld, nct5581d_ld

(* An accepted pin has a register in one of the devices, and is a triple.  *)
LEMMA TargetType ==
  ASSUME NEW s \in Chips, NEW attr \in Attrs, NEW pin \in Nat,
         Accepts(s, attr, pin)
  PROVE  LET t == Target(s, attr, pin) IN
         /\ t[1] \in 7 .. 9 /\ t[2] \in Nat
         /\ t = << t[1], t[2], t[3] >>
<1>1. CASE attr = "select"
  <2>1. SelectBit(s, Port(attr, pin))[1] \in 7 .. 9
    BY DEF Chips, SelectBit, nct6775f_sel, nct6776f_sel, nct6779d_sel,
       nct6104d_sel, nct6116d_sel, nct6796d_sel, nct5581d_sel
  <2> QED
    BY <1>1, <2>1 DEF Target, USE_SEL
<1>2. CASE attr # "select"
  <2> DEFINE cell == SetLayout(s)[Port(attr, pin)]
  <2>1. cell \in (7 .. 9) \X Nat
    BY <1>2, SetLayoutType DEF Accepts
  <2>2. cell[1] \in 7 .. 9 /\ cell[2] \in Nat
    BY <2>1
  <2>3. Offset[attr] \in Nat
    BY <1>2 DEF Offset, Attrs
  <2>4. Target(s, attr, pin) = << cell[1], cell[2] + Offset[attr], pin % 10 >>
    BY <1>2 DEF Target
  <2> HIDE DEF cell
  <2> QED
    BY <2>2, <2>3, <2>4
<1> QED
  BY <1>1, <1>2
-----------------------------------------------------------------------------
InMode == {"access", "read", "write", "leave"}

(* A caller at work has a loaded driver and a pin the setter accepts.      *)
CallsOK ==
  \A a \in Callers :
    /\ pc[a] # "idle" => sio \in Chips
    /\ pc[a] \in InMode => Accepts(sio, op[a].attr, op[a].pin)
    /\ pc[a] = "request" => a \in Users

(* The port is reserved by exactly the user who is inside.                 *)
Reserved == \A u \in Users : Inside(u) <=> region = u

(* Without a race one caller is inside, and a setter finds the mode, the   *)
(* device and the register as it left them.                                *)
Alone == "raced" \notin harm =>
           \A a, b \in Callers : Inside(a) /\ Inside(b) => a = b
Undisturbed ==
  "raced" \notin harm => \A a \in Callers :
    /\ pc[a] \in InMode => ext = 1
    /\ pc[a] \in {"read", "write"} => dev = Where(a)[1]
    /\ pc[a] = "write" => val[a] = Bits(dev, Where(a)[2])

(* The mode is on only while a setter is in it, or after a missing port.   *)
ModeOwned == (ext = 1 /\ "missing" \notin harm) =>
               \E a \in Callers : pc[a] \in InMode

IInv == TypeOK /\ CallsOK /\ Reserved /\ Alone /\ Undisturbed /\ ModeOwned

(* Where a caller's setter writes, and that it is a triple.                *)
LEMMA WhereType ==
  ASSUME TypeOK, CallsOK, NEW a \in Callers, pc[a] \in InMode
  PROVE  /\ Where(a)[1] \in 7 .. 9 /\ Where(a)[2] \in Nat
         /\ Where(a) = << Where(a)[1], Where(a)[2], Where(a)[3] >>
<1>1. sio \in Chips /\ Accepts(sio, op[a].attr, op[a].pin)
  BY DEF CallsOK, InMode
<1>2. op[a].attr \in Attrs /\ op[a].pin \in Nat
  BY DEF TypeOK
<1> QED
  BY <1>1, <1>2, TargetType DEF Where

(* What one read of a port by a getter leaves of the types.                *)
LEMMA GetPortType ==
  ASSUME TypeOK, NEW a \in Callers, NEW p \in Nat, sio \in Chips, GetPort(a, p)
  PROVE  ext' \in 0 .. 1 /\ dev' \in 7 .. 9
         /\ harm' \subseteq {"raced", "stray", "missing", "guessed"}
<1>1. op[a].attr \in Attrs
  BY DEF TypeOK
<1>2. CASE p \in DOMAIN GetLayout(sio, op[a].attr)
  <2>1. GetLayout(sio, op[a].attr)[p] \in (7 .. 9) \X Nat
    BY <1>1, <1>2, GetLayoutType
  <2>2. /\ ext' = 0 /\ dev' = GetLayout(sio, op[a].attr)[p][1]
        /\ harm' = harm
    BY <1>2 DEF GetPort
  <2> QED
    BY <2>1, <2>2 DEF TypeOK
<1>3. CASE p \notin DOMAIN GetLayout(sio, op[a].attr)
  <2>1. ext' = 1 /\ dev' = dev /\ harm' = harm \cup {"missing"}
    BY <1>3 DEF GetPort
  <2> QED
    BY <2>1 DEF TypeOK
<1> QED
  BY <1>2, <1>3

(* The types are inductive along with CallsOK.                             *)
LEMMA TypeStep ==
  ASSUME TypeOK, CallsOK, [Next]_vars
  PROVE  TypeOK'
<1> USE DriverAssumption DEF TypeOK, Callers, chip
<1>1. CASE Load
  BY <1>1 DEF Load, nuvoton_match
<1>2. CASE Unload
  BY <1>2 DEF Unload
<1>3. ASSUME NEW a \in Callers, NEW kind \in {"store", "show", "get"},
             NEW attr \in Attrs, NEW pin \in Nat, NEW cmd \in 0 .. 1,
             NEW at \in {"request", "enter", "get"},
             Call(a, kind, attr, pin, cmd, at), harm' = harm \/ harm' = Raced(a)
      PROVE  TypeOK'
  <2>1. op' \in [Callers -> [kind : {"store", "show", "get"}, attr : Attrs,
                            pin : Nat, cmd : 0 .. 1]]
    BY <1>3 DEF Call
  <2>2. harm' \subseteq {"raced", "stray", "missing", "guessed"}
    BY <1>3 DEF Raced
  <2>3. ops' \in 0 .. MaxOps
    BY <1>3 DEF Call
  <2>4. pc' \in [Callers -> {"idle", "request", "enter", "access", "read",
                            "write", "leave", "show", "get", "done"}]
    BY <1>3 DEF Call
  <2> QED
    BY <1>3, <2>1, <2>2, <2>3, <2>4 DEF Call
<1>4. ASSUME NEW a \in Callers, Setter(a)
      PROVE  TypeOK'
  <2> USE DEF Step
  <2>1. CASE Ignore(a)
    BY <2>1 DEF Ignore
  <2>2. CASE Enter(a)
    BY <2>2 DEF Enter
  <2>3. CASE AccessDevice(a)
    <3>1. Where(a)[1] \in 7 .. 9
      BY <2>3, WhereType DEF AccessDevice, InMode
    <3> QED
      BY <2>3, <3>1 DEF AccessDevice
  <2>4. CASE Read(a)
    BY <2>4 DEF Read, Bits
  <2>5. CASE Write(a)
    <3>1. Where(a)[2] \in Nat
      BY <2>5, WhereType DEF Write, InMode
    <3>2. Modified(a) \subseteq 0 .. 7
      BY DEF Modified
    <3>3. regs' \subseteq (7 .. 9) \X Nat \X (0 .. 7)
      BY <2>5, <3>1, <3>2 DEF Write
    <3> QED
      BY <2>5, <3>3 DEF Write
  <2>6. CASE Leave(a)
    BY <2>6 DEF Leave
  <2>7. CASE Finish(a)
    <3>1. op' \in [Callers -> [kind : {"store", "show", "get"}, attr : Attrs,
                              pin : Nat, cmd : 0 .. 1]]
      BY <2>7 DEF Finish, NoCall, Attrs
    <3> QED
      BY <2>7, <3>1 DEF Finish
  <2> QED
    BY <1>4, <2>1, <2>2, <2>3, <2>4, <2>5, <2>6, <2>7 DEF Setter
<1>5. ASSUME NEW u \in Users, User(u)
      PROVE  TypeOK'
  <2>1. CASE Store(u)
    <3>1. PICK attr \in Attrs, pin \in Pins, cmd \in 0 .. 1 :
             Call(u, "store", attr, pin, cmd, "request")
      BY <2>1 DEF Store
    <3> QED
      BY <1>3, <2>1, <3>1 DEF Store
  <2>2. CASE Show(u)
    <3>1. PICK attr \in Attrs :
             Call(u, "show", attr, IF sio = 6 THEN 2 ELSE 0, 0, "request")
      BY <2>2 DEF Show
    <3> QED
      BY <1>3, <2>2, <3>1 DEF Show
  <2>3. CASE Request(u)
    BY <2>3 DEF Request, Raced
  <2>4. CASE RequestFails(u)
    <3>1. op' \in [Callers -> [kind : {"store", "show", "get"}, attr : Attrs,
                              pin : Nat, cmd : 0 .. 1]]
      BY <2>4 DEF RequestFails, NoCall, Attrs
    <3> QED
      BY <2>4, <3>1 DEF RequestFails
  <2>5. CASE ShowPort(u)
    <3>1. sio \in Chips
      BY <2>5 DEF ShowPort, CallsOK
    <3>2. op[u].pin \in Nat
      OBVIOUS
    <3>3. /\ ext' \in 0 .. 1 /\ dev' \in 7 .. 9
          /\ harm' \subseteq {"raced", "stray", "missing", "guessed"}
      BY <2>5, <3>1, <3>2, GetPortType DEF ShowPort
    <3>4. NextPort(sio, op[u].pin) \in Nat
      BY <3>2 DEF NextPort
    <3>5. op' \in [Callers -> [kind : {"store", "show", "get"}, attr : Attrs,
                              pin : Nat, cmd : 0 .. 1]]
      <4>1. CASE op' = op
        BY <4>1
      <4>2. CASE op' = [op EXCEPT ![u].pin = NextPort(sio, @)]
        BY <3>4, <4>2
      <4> QED
        BY <2>5, <4>1, <4>2 DEF ShowPort
    <3> QED
      BY <2>5, <3>3, <3>5 DEF ShowPort, Step
  <2>6. CASE ShowSelect(u)
    <3>1. sio \in Chips
      BY <2>6 DEF ShowSelect, CallsOK, Step
    <3>2. dev' \in 7 .. 9
      BY <2>6, <3>1, SelectDeviceType DEF ShowSelect
    <3> QED
      BY <2>6, <3>2 DEF ShowSelect, Step
  <2> QED
    BY <1>5, <2>1, <2>2, <2>3, <2>4, <2>5, <2>6 DEF User
<1>6. ASSUME NEW c \in Clients, Client(c)
      PROVE  TypeOK'
  <2>1. CASE ClientSet(c)
    <3>1. PICK attr \in {"direction", "output"}, pin \in Pins, cmd \in 0 .. 1 :
             Call(c, "store", attr, pin, cmd, "enter")
      BY <2>1 DEF ClientSet
    <3> QED
      BY <1>3, <2>1, <3>1 DEF ClientSet, Attrs
  <2>2. CASE ClientGet(c)
    <3>1. PICK attr \in {"direction", "output"}, pin \in Pins :
             Call(c, "get", attr, pin \div 10, 0, "get")
      BY <2>2 DEF ClientGet
    <3>2. pin \div 10 \in Nat
      OBVIOUS
    <3> QED
      BY <1>3, <2>2, <3>1, <3>2 DEF ClientGet, Attrs
  <2>3. CASE Get(c)
    <3>1. sio \in Chips /\ op[c].pin \in Nat
      BY <2>3 DEF Get, CallsOK, Step
    <3>2. /\ ext' \in 0 .. 1 /\ dev' \in 7 .. 9
          /\ harm' \subseteq {"raced", "stray", "missing", "guessed"}
      BY <2>3, <3>1, GetPortType DEF Get
    <3> QED
      BY <2>3, <3>2 DEF Get, Step
  <2> QED
    BY <1>6, <2>1, <2>2, <2>3 DEF Client
<1>7. CASE UNCHANGED vars
  BY <1>7 DEF vars
<1> QED
  BY <1>1, <1>2, <1>4, <1>5, <1>6, <1>7 DEF Next

(* Which callers are where after a step, for any invariant that speaks of  *)
(* it: one caller moves, along an edge of the control flow.                *)
LEMMA CallsStep ==
  ASSUME TypeOK, CallsOK, [Next]_vars
  PROVE  CallsOK'
<1> USE DriverAssumption DEF TypeOK, CallsOK, Callers, chip, InMode, Step
<1>1. CASE Load
  BY <1>1 DEF Load, Chips
<1>2. CASE Unload
  BY <1>2 DEF Unload
<1>3. ASSUME NEW a \in Callers, Setter(a)
      PROVE  CallsOK'
  <2>1. CASE Ignore(a)
    BY <2>1 DEF Ignore
  <2>2. CASE Enter(a)
    BY <2>2 DEF Enter
  <2>3. CASE AccessDevice(a)
    BY <2>3 DEF AccessDevice
  <2>4. CASE Read(a)
    BY <2>4 DEF Read
  <2>5. CASE Write(a)
    BY <2>5 DEF Write
  <2>6. CASE Leave(a)
    BY <2>6 DEF Leave
  <2>7. CASE Finish(a)
    BY <2>7 DEF Finish
  <2> QED
    BY <1>3, <2>1, <2>2, <2>3, <2>4, <2>5, <2>6, <2>7 DEF Setter
<1>4. ASSUME NEW u \in Users, User(u)
      PROVE  CallsOK'
  <2>1. CASE Store(u)
    BY <2>1 DEF Store, Call, Chips
  <2>2. CASE Show(u)
    BY <2>2 DEF Show, Call, Chips
  <2>3. CASE Request(u)
    BY <2>3 DEF Request
  <2>4. CASE RequestFails(u)
    BY <2>4 DEF RequestFails
  <2>5. CASE ShowPort(u)
    BY <2>5 DEF ShowPort
  <2>6. CASE ShowSelect(u)
    BY <2>6 DEF ShowSelect
  <2> QED
    BY <1>4, <2>1, <2>2, <2>3, <2>4, <2>5, <2>6 DEF User
<1>5. ASSUME NEW c \in Clients, Client(c)
      PROVE  CallsOK'
  <2>1. CASE ClientSet(c)
    BY <2>1 DEF ClientSet, Call, Chips
  <2>2. CASE ClientGet(c)
    BY <2>2 DEF ClientGet, Call, Chips
  <2>3. CASE Get(c)
    BY <2>3 DEF Get
  <2> QED
    BY <1>5, <2>1, <2>2, <2>3 DEF Client
<1>6. CASE UNCHANGED vars
  BY <1>6 DEF vars
<1> QED
  BY <1>1, <1>2, <1>3, <1>4, <1>5, <1>6 DEF Next

(* The reservation follows the user who is inside.                         *)
LEMMA ReservedStep ==
  ASSUME TypeOK, CallsOK, Reserved, [Next]_vars
  PROVE  Reserved'
<1> USE DriverAssumption DEF TypeOK, CallsOK, Reserved, Inside, Callers, Step
<1>1. CASE Load
  BY <1>1 DEF Load
<1>2. CASE Unload
  BY <1>2 DEF Unload
<1>3. ASSUME NEW a \in Callers, Setter(a)
      PROVE  Reserved'
  <2>1. CASE Ignore(a)
    BY <2>1 DEF Ignore
  <2>2. CASE Enter(a)
    BY <2>2 DEF Enter
  <2>3. CASE AccessDevice(a)
    BY <2>3 DEF AccessDevice
  <2>4. CASE Read(a)
    BY <2>4 DEF Read
  <2>5. CASE Write(a)
    BY <2>5 DEF Write
  <2>6. CASE Leave(a)
    BY <2>6 DEF Leave
  <2>7. CASE Finish(a)
    BY <2>7 DEF Finish
  <2> QED
    BY <1>3, <2>1, <2>2, <2>3, <2>4, <2>5, <2>6, <2>7 DEF Setter
<1>4. ASSUME NEW u \in Users, User(u)
      PROVE  Reserved'
  <2>1. CASE Store(u)
    BY <2>1 DEF Store, Call
  <2>2. CASE Show(u)
    BY <2>2 DEF Show, Call
  <2>3. CASE Request(u)
    BY <2>3 DEF Request
  <2>4. CASE RequestFails(u)
    BY <2>4 DEF RequestFails
  <2>5. CASE ShowPort(u)
    BY <2>5 DEF ShowPort
  <2>6. CASE ShowSelect(u)
    BY <2>6 DEF ShowSelect
  <2> QED
    BY <1>4, <2>1, <2>2, <2>3, <2>4, <2>5, <2>6 DEF User
<1>5. ASSUME NEW c \in Clients, Client(c)
      PROVE  Reserved'
  <2>1. CASE ClientSet(c)
    BY <2>1 DEF ClientSet, Call
  <2>2. CASE ClientGet(c)
    BY <2>2 DEF ClientGet, Call
  <2>3. CASE Get(c)
    BY <2>3 DEF Get
  <2> QED
    BY <1>5, <2>1, <2>2, <2>3 DEF Client
<1>6. CASE UNCHANGED vars
  BY <1>6 DEF vars
<1> QED
  BY <1>1, <1>2, <1>3, <1>4, <1>5, <1>6 DEF Next

(* A race is never forgotten.                                              *)
LEMMA RacedStays ==
  ASSUME [Next]_vars, "raced" \notin harm'
  PROVE  "raced" \notin harm
BY DEF Next, Load, Unload, Setter, User, Client, Ignore, Enter, AccessDevice,
   Read, Write, Leave, Finish, Store, Show, Call, Request, RequestFails,
   ShowPort, ShowSelect, ClientSet, ClientGet, Get, GetPort, Raced, vars

(* Whoever comes in while another is inside is recorded as a race.         *)
LEMMA AloneStep ==
  ASSUME TypeOK, CallsOK, Alone, [Next]_vars
  PROVE  Alone'
<1> SUFFICES ASSUME "raced" \notin harm'
             PROVE  \A a, b \in Callers : Inside(a)' /\ Inside(b)' => a = b
  BY DEF Alone
<1>0. \A a, b \in Callers : Inside(a) /\ Inside(b) => a = b
  BY RacedStays DEF Alone
<1>1. ASSUME NEW x \in Callers, NEW at,
             pc' = [pc EXCEPT ![x] = at],
             Inside(x) \/ at \in {"idle", "request"}
      PROVE  \A a, b \in Callers : Inside(a)' /\ Inside(b)' => a = b
  BY <1>0, <1>1 DEF TypeOK, Inside
<1>2. ASSUME NEW x \in Callers, NEW at,
             pc' = [pc EXCEPT ![x] = at], harm' = Raced(x)
      PROVE  \A a, b \in Callers : Inside(a)' /\ Inside(b)' => a = b
  BY <1>0, <1>2 DEF TypeOK, Inside, Raced, Overlap
<1>3. ASSUME pc' = pc
      PROVE  \A a, b \in Callers : Inside(a)' /\ Inside(b)' => a = b
  BY <1>0, <1>3 DEF Inside
<1>4. CASE Load \/ Unload \/ UNCHANGED vars
  BY <1>3, <1>4 DEF Load, Unload, vars
<1>5. ASSUME NEW a \in Callers, Setter(a)
      PROVE  \E at : pc' = [pc EXCEPT ![a] = at] /\ Inside(a)
  BY <1>5 DEF Setter, Ignore, Enter, AccessDevice, Read, Write, Leave, Finish,
     Step, Inside
<1>6. ASSUME NEW u \in Users, User(u)
      PROVE  \/ pc' = pc
             \/ \E at : /\ pc' = [pc EXCEPT ![u] = at]
                       /\ \/ Inside(u) \/ at \in {"idle", "request"}
                          \/ harm' = Raced(u)
  BY <1>6 DEF User, Store, Show, Call, Request, RequestFails, ShowPort,
     ShowSelect, Step, Inside
<1>7. ASSUME NEW c \in Clients, Client(c)
      PROVE  \E at : /\ pc' = [pc EXCEPT ![c] = at]
                    /\ (Inside(c) \/ harm' = Raced(c))
  BY <1>7 DEF Client, ClientSet, ClientGet, Call, Get, Step, Inside
<1>8. ASSUME NEW a \in Callers, Setter(a)
      PROVE  \A x, y \in Callers : Inside(x)' /\ Inside(y)' => x = y
  BY <1>1, <1>5, <1>8
<1>9. ASSUME NEW u \in Users, User(u)
      PROVE  \A x, y \in Callers : Inside(x)' /\ Inside(y)' => x = y
  BY <1>1, <1>2, <1>3, <1>6, <1>9 DEF Callers
<1>10. ASSUME NEW c \in Clients, Client(c)
       PROVE  \A x, y \in Callers : Inside(x)' /\ Inside(y)' => x = y
  BY <1>1, <1>2, <1>7, <1>10 DEF Callers
<1> QED
  BY <1>4, <1>8, <1>9, <1>10 DEF Next

(* Nobody else moves the mode, the device or the registers while a setter  *)
(* is at work without a race.                                              *)
LEMMA UndisturbedStep ==
  ASSUME TypeOK, CallsOK, Alone, Undisturbed, [Next]_vars
  PROVE  Undisturbed'
<1> SUFFICES ASSUME "raced" \notin harm', NEW x \in Callers
             PROVE  /\ pc'[x] \in InMode => ext' = 1
                    /\ pc'[x] \in {"read", "write"} => dev' = Where(x)'[1]
                    /\ pc'[x] = "write" => val'[x] = Bits(dev, Where(x)[2])'
  BY DEF Undisturbed
<1> DEFINE Goal == /\ pc'[x] \in InMode => ext' = 1
                   /\ pc'[x] \in {"read", "write"} => dev' = Where(x)'[1]
                   /\ pc'[x] = "write" => val'[x] = Bits(dev, Where(x)[2])'
<1> SUFFICES Goal
  OBVIOUS
<1>0. /\ \A a, b \in Callers : Inside(a) /\ Inside(b) => a = b
      /\ pc[x] \in InMode => ext = 1
      /\ pc[x] \in {"read", "write"} => dev = Where(x)[1]
      /\ pc[x] = "write" => val[x] = Bits(dev, Where(x)[2])
  BY RacedStays DEF Alone, Undisturbed
<1>1. ASSUME pc'[x] \notin InMode
      PROVE  Goal
  BY <1>1 DEF InMode
<1>2. ASSUME pc'[x] = pc[x], op'[x] = op[x], val'[x] = val[x],
             UNCHANGED << sio, regs, ext, dev >>
      PROVE  Goal
  BY <1>0, <1>2 DEF Where, Bits
<1>3. ASSUME NEW a \in Callers, Inside(a), a # x, pc'[x] = pc[x]
      PROVE  Goal
  BY <1>0, <1>1, <1>3 DEF Inside, InMode
<1> HIDE DEF Goal
<1> USE DEF TypeOK, Step, chip
<1>4. CASE Load
  BY <1>1, <1>4 DEF Load, CallsOK, Chips, InMode
<1>5. CASE Unload
  BY <1>1, <1>5 DEF Unload, InMode
<1>6. ASSUME NEW a \in Callers, Setter(a)
      PROVE  Goal
  <2>1. CASE a # x
    <3>1. Inside(a) /\ pc'[x] = pc[x]
      BY <1>6, <2>1 DEF Setter, Ignore, Enter, AccessDevice, Read, Write, Leave,
         Finish, Inside
    <3> QED
      BY <1>3, <2>1, <3>1
  <2>2. CASE a = x
    <3>1. CASE Ignore(x) \/ Leave(x) \/ Finish(x)
      BY <1>1, <3>1 DEF Ignore, Leave, Finish, InMode
    <3>2. CASE Enter(x)
      BY <3>2 DEF Enter, Goal
    <3>3. CASE AccessDevice(x)
      <4>1. ext = 1
        BY <1>0, <3>3 DEF AccessDevice, InMode
      <4>2. Where(x)' = Where(x)
        BY <3>3 DEF AccessDevice, Where
      <4> QED
        BY <3>3, <4>1, <4>2 DEF AccessDevice, Goal
    <3>4. CASE Read(x)
      <4>1. ext = 1 /\ dev = Where(x)[1]
        BY <1>0, <3>4 DEF Read, InMode
      <4>2. Where(x)' = Where(x)
        BY <3>4 DEF Read, Where
      <4>3. Bits(dev, Where(x)[2])' = Bits(dev, Where(x)[2])
        BY <3>4, <4>2 DEF Read, Bits
      <4> QED
        BY <3>4, <4>1, <4>2, <4>3 DEF Read, Goal
    <3>5. CASE Write(x)
      <4>1. ext = 1
        BY <1>0, <3>5 DEF Write, InMode
      <4> QED
        BY <3>5, <4>1 DEF Write, Goal
    <3> QED
      BY <1>6, <2>2, <3>1, <3>2, <3>3, <3>4, <3>5 DEF Setter
  <2> QED
    BY <2>1, <2>2
<1>7. ASSUME NEW u \in Users, User(u)
      PROVE  Goal
  <2>1. CASE u = x
    <3>1. pc'[x] \notin InMode
      <4>1. CASE ShowPort(u)
        BY <2>1, <4>1 DEF ShowPort, InMode
      <4> QED
        BY <1>7, <2>1, <4>1 DEF User, Store, Show, Call, Request, RequestFails,
           ShowSelect, InMode
    <3> QED
      BY <1>1, <3>1
  <2>2. CASE u # x /\ (Store(u) \/ Show(u) \/ Request(u) \/ RequestFails(u))
    BY <1>2, <2>2 DEF Store, Show, Call, Request, RequestFails
  <2>3. CASE u # x /\ (ShowPort(u) \/ ShowSelect(u))
    <3>1. Inside(u) /\ pc'[x] = pc[x]
      BY <2>3 DEF ShowPort, ShowSelect, Inside
    <3> QED
      BY <1>3, <2>3, <3>1 DEF Callers
  <2> QED
    BY <1>7, <2>1, <2>2, <2>3 DEF User
<1>8. ASSUME NEW c \in Clients, Client(c)
      PROVE  Goal
  <2>1. CASE c = x
    BY <1>1, <1>8, <2>1 DEF Client, ClientSet, ClientGet, Call, Get, InMode
  <2>2. CASE c # x /\ (ClientSet(c) \/ ClientGet(c))
    BY <1>2, <2>2 DEF ClientSet, ClientGet, Call
  <2>3. CASE c # x /\ Get(c)
    <3>1. Inside(c) /\ pc'[x] = pc[x]
      BY <2>3 DEF Get, Inside
    <3> QED
      BY <1>3, <2>3, <3>1 DEF Callers
  <2> QED
    BY <1>8, <2>1, <2>2, <2>3 DEF Client
<1>9. CASE UNCHANGED vars
  BY <1>2, <1>9 DEF vars
<1> QED
  BY <1>4, <1>5, <1>6, <1>7, <1>8, <1>9 DEF Next

(* The mode is switched on by Enter and by a missing port only.            *)
LEMMA ModeOwnedStep ==
  ASSUME TypeOK, ModeOwned, [Next]_vars
  PROVE  ModeOwned'
<1> SUFFICES ASSUME ext' = 1, "missing" \notin harm'
             PROVE  \E a \in Callers : pc'[a] \in InMode
  BY DEF ModeOwned
<1> USE DEF TypeOK, InMode, Step, chip, Callers
<1>1. ASSUME ext = 1, "missing" \notin harm,
             \A a \in Callers : pc[a] \in InMode => pc'[a] \in InMode
      PROVE  \E a \in Callers : pc'[a] \in InMode
  BY <1>1 DEF ModeOwned
<1>2. CASE Load
  BY <1>2 DEF Load
<1>3. CASE Unload
  BY <1>1, <1>3 DEF Unload
<1>4. ASSUME NEW a \in Callers, Setter(a)
      PROVE  \E b \in Callers : pc'[b] \in InMode
  <2>1. CASE Enter(a)
    BY <2>1 DEF Enter
  <2>2. CASE Ignore(a) \/ AccessDevice(a) \/ Read(a) \/ Write(a) \/ Finish(a)
    BY <1>1, <2>2 DEF Ignore, AccessDevice, Read, Write, Finish
  <2>3. CASE Leave(a)
    BY <2>3 DEF Leave
  <2> QED
    BY <1>4, <2>1, <2>2, <2>3 DEF Setter
<1>5. ASSUME NEW u \in Users, User(u)
      PROVE  \E b \in Callers : pc'[b] \in InMode
  <2>1. CASE ShowPort(u) \/ ShowSelect(u)
    BY <2>1 DEF ShowPort, ShowSelect, GetPort
  <2>2. CASE Store(u) \/ Show(u) \/ Request(u) \/ RequestFails(u)
    BY <1>1, <2>2 DEF Store, Show, Call, Request, RequestFails, Raced
  <2> QED
    BY <1>5, <2>1, <2>2 DEF User
<1>6. ASSUME NEW c \in Clients, Client(c)
      PROVE  \E b \in Callers : pc'[b] \in InMode
  <2>1. CASE Get(c)
    BY <2>1 DEF Get, GetPort
  <2>2. CASE ClientSet(c) \/ ClientGet(c)
    BY <1>1, <2>2 DEF ClientSet, ClientGet, Call, Raced
  <2> QED
    BY <1>6, <2>1, <2>2 DEF Client
<1>7. CASE UNCHANGED vars
  BY <1>1, <1>7 DEF vars
<1> QED
  BY <1>2, <1>3, <1>4, <1>5, <1>6, <1>7 DEF Next
(* A store without a race leaves every bit but its own.                    *)
LEMMA WriteOne ==
  ASSUME TypeOK, CallsOK, Undisturbed, "raced" \notin harm,
         NEW a \in Callers, Write(a)
  PROVE  /\ \A r \in (7 .. 9) \X Nat \X (0 .. 7) :
              r # Where(a) => (r \in regs' <=> r \in regs)
         /\ Where(a)[3] \in 0 .. 7 => (Where(a) \in regs' <=> op[a].cmd = 1)
<1> DEFINE w == Where(a)
<1>1. pc[a] = "write" /\ pc[a] \in InMode
  BY DEF Write, Step, InMode
<1>2. ext = 1 /\ dev = w[1] /\ val[a] = Bits(w[1], w[2])
  BY <1>1 DEF Undisturbed
<1>3. w = << w[1], w[2], w[3] >>
  BY <1>1, WhereType
<1>4. regs' = { r \in regs : << r[1], r[2] >> # << w[1], w[2] >> }
              \cup { << w[1], w[2], b >> : b \in Modified(a) }
  BY <1>2 DEF Write
<1> HIDE DEF w
<1>5. Modified(a) = IF op[a].cmd = 1
                    THEN Bits(w[1], w[2]) \cup ({w[3]} \cap (0 .. 7))
                    ELSE Bits(w[1], w[2]) \ {w[3]}
  BY <1>2 DEF Modified, w
<1>6. \A r \in (7 .. 9) \X Nat \X (0 .. 7) :
        r # w => (r \in regs' <=> r \in regs)
  <2>1. ASSUME NEW ld, NEW reg, NEW b \in 0 .. 7, << ld, reg, b >> # w
        PROVE  << ld, reg, b >> \in regs' <=> << ld, reg, b >> \in regs
    <3>1. CASE << ld, reg >> # << w[1], w[2] >>
      BY <1>4, <3>1
    <3>2. CASE ld = w[1] /\ reg = w[2]
      <4>1. b # w[3]
        BY <1>3, <2>1, <3>2
      <4>2. << ld, reg, b >> \in regs' <=> b \in Modified(a)
        BY <1>4, <3>2
      <4>3. b \in Modified(a) <=> << ld, reg, b >> \in regs
        BY <1>5, <3>2, <4>1 DEF Bits
      <4> QED
        BY <4>2, <4>3
    <3> QED
      BY <3>1, <3>2
  <2> TAKE r \in (7 .. 9) \X Nat \X (0 .. 7)
  <2>2. r[3] \in 0 .. 7 /\ r = << r[1], r[2], r[3] >>
    OBVIOUS
  <2> QED
    BY <2>1, <2>2
<1>7. ASSUME w[3] \in 0 .. 7
      PROVE  w \in regs' <=> op[a].cmd = 1
  <2>1. << w[1], w[2], w[3] >> \in regs' <=> w[3] \in Modified(a)
    BY <1>4
  <2>2. w[3] \in Modified(a) <=> op[a].cmd = 1
    BY <1>5, <1>7
  <2> QED
    BY <1>3, <2>1, <2>2
<1> QED
  BY <1>6, <1>7 DEF w

-----------------------------------------------------------------------------
(* The types.                                                              *)
THEOREM TypeCorrect == Spec => [](TypeOK /\ CallsOK)
<1>1. Init => TypeOK /\ CallsOK
  BY DriverAssumption
  DEF Init, TypeOK, CallsOK, NoCall, Attrs, Callers, Unlisted, InMode
<1>2. TypeOK /\ CallsOK /\ [Next]_vars => (TypeOK /\ CallsOK)'
  BY TypeStep, CallsStep
<1> QED
  BY <1>1, <1>2, PTL DEF Spec

(* The whole invariant.                                                    *)
THEOREM DriverCorrect == Spec => []IInv
<1>1. Init => IInv
  <2> SUFFICES ASSUME Init PROVE IInv
    OBVIOUS
  <2>1. TypeOK /\ CallsOK
    BY DriverAssumption
    DEF Init, TypeOK, CallsOK, NoCall, Attrs, Callers, Unlisted, InMode
  <2>2. Reserved /\ Alone /\ Undisturbed /\ ModeOwned
    BY DriverAssumption DEF Init, Reserved, Alone, Undisturbed, ModeOwned,
       Inside, InMode, Callers
  <2> QED
    BY <2>1, <2>2 DEF IInv
<1>2. IInv /\ [Next]_vars => IInv'
  BY TypeStep, CallsStep, ReservedStep, AloneStep, UndisturbedStep,
     ModeOwnedStep DEF IInv
<1> QED
  BY <1>1, <1>2, PTL DEF Spec

(* Users of the attributes never meet in the chip (nuvoton_main.c:88).     *)
THEOREM UsersApartCorrect == Spec => []UsersApart
<1>1. IInv => UsersApart
  BY DEF IInv, Reserved, UsersApart
<1> QED
  BY <1>1, DriverCorrect, PTL

(* The port and the mode are given back (nuvoton_main.c:140).              *)
THEOREM QuietCorrect == Spec => []Quiet
<1>1. IInv => Quiet
  <2> SUFFICES ASSUME IInv, \A a \in Callers : pc[a] = "idle"
               PROVE  region = Free /\ ("missing" \notin harm => ext = 0)
    BY DEF Quiet
  <2>1. region = Free
    BY DEF IInv, TypeOK, Reserved, Inside, Callers
  <2>2. "missing" \notin harm => ext = 0
    BY DEF IInv, TypeOK, ModeOwned, InMode
  <2> QED
    BY <2>1, <2>2
<1> QED
  BY <1>1, DriverCorrect, PTL

(* A store without a race changes one bit, that of its pin: what it read   *)
(* is still in the register when it writes (nuvoton_main.c:110).           *)
THEOREM OneBitCorrect == Spec => OneBit
<1> DEFINE Act == (regs' # regs /\ "raced" \notin harm) =>
        \E a \in Callers : /\ pc[a] = "write"
                           /\ (regs \ regs') \cup (regs' \ regs) = {Where(a)}
<1>1. IInv /\ [Next]_vars => [Act]_vars
  <2> SUFFICES ASSUME IInv, [Next]_vars, regs' # regs, "raced" \notin harm
               PROVE  Act
    OBVIOUS
  <2>1. PICK a \in Callers : Write(a)
    BY DEF Next, Load, Unload, Setter, User, Client, Ignore, Enter,
       AccessDevice, Read, Leave, Finish, Store, Show, Call, Request,
       RequestFails, ShowPort, ShowSelect, ClientSet, ClientGet, Get, vars, chip
  <2> DEFINE w == Where(a)
  <2>2. pc[a] = "write"
    BY <2>1 DEF Write, Step
  <2>3. \A r \in (7 .. 9) \X Nat \X (0 .. 7) :
          r # w => (r \in regs' <=> r \in regs)
    BY <2>1, WriteOne DEF IInv
  <2>4. regs \subseteq (7 .. 9) \X Nat \X (0 .. 7)
    BY DEF IInv, TypeOK
  <2>5. regs' \subseteq (7 .. 9) \X Nat \X (0 .. 7)
    BY TypeStep DEF IInv, TypeOK
  <2>6. (regs \ regs') \cup (regs' \ regs) \subseteq {w}
    BY <2>3, <2>4, <2>5
  <2>7. (regs \ regs') \cup (regs' \ regs) = {w}
    BY <2>6
  <2> QED
    BY <2>2, <2>7 DEF w
<1> QED
  BY <1>1, DriverCorrect, PTL DEF Spec, OneBit
-----------------------------------------------------------------------------
(* Without a client between, a pin that the chip has not, or a chip that   *)
(* was guessed, the driver takes the chip for what it is.                  *)
Good   == harm \cap {"raced", "stray", "guessed"} = {}
Kind   == IF board[1] \in Chips THEN board[1] ELSE 0
KindOK == Good /\ sio # -1 => sio = Kind

(* A setter at work has a pin of the chip.                                 *)
PinOK == Good => \A a \in Callers :
           pc[a] \in InMode => HasPin(sio, op[a].attr, op[a].pin)

(* The ports that a show prints as they were set, and what the registers   *)
(* have of the stores: their bits, and no others.                          *)
Legible(s, attr) == DOMAIN SetLayout(s) \ Misread(s, attr)
WantOK == \A w \in want : \E pin \in Nat, cmd \in 0 .. 1, attr \in Attrs :
            HasPin(Kind, attr, pin) /\ w = <<attr, Shown(attr, pin), cmd>>
RegsOK == \A r \in regs : \E pin \in Nat, attr \in Attrs :
            HasPin(Kind, attr, pin) /\ r = Target(Kind, attr, pin)
BitOK(attr, pin) == Target(Kind, attr, pin) \in regs
                      <=> <<attr, Shown(attr, pin), 1>> \in want
BitsOK == \A pin \in Nat, attr \in Attrs :
            HasPin(Kind, attr, pin) /\ pin \div 10 \in Legible(Kind, attr) =>
              BitOK(attr, pin)
StoredOK == Good => WantOK /\ RegsOK /\ BitsOK

(* The ports that a show of a user has printed.                            *)
Register(s, attr, p) ==
  <<SetLayout(s)[p][1], SetLayout(s)[p][2] + Offset[attr]>>
Past(u, p) == pc[u] = "done" \/ p < op[u].pin
Asked(s)   == IF s = 6 THEN DOMAIN SetLayout(s) ELSE 0 .. Ports(s)
PortsOK(u) ==
  LET attr == op[u].attr
  IN  /\ seen[u] \subseteq Nat \X (0 .. 7)
      /\ pc[u] = "show" => op[u].pin \in Asked(sio)
      /\ \A p \in Legible(sio, attr), b \in 0 .. 7 :
           <<p, b>> \in seen[u] <=>
             /\ Past(u, p)
             /\ <<Register(sio, attr, p)[1], Register(sio, attr, p)[2], b>>
                  \in regs
SelectOK(u) ==
  pc[u] = "done" =>
    /\ \A x \in seen[u] : x = <<x[1]>>
    /\ \A p \in Legible(sio, "select") :
         <<p>> \in seen[u] <=>
           <<SelectBit(sio, p)[1], USE_SEL, SelectBit(sio, p)[2]>> \in regs

UserOK(u) ==
  /\ pc[u] \notin {"show", "done"} => seen[u] = {}
  /\ pc[u] \in {"enter"} \cup InMode => op[u].kind = "store"
  /\ pc[u] = "show" => op[u].kind = "show"
  /\ pc[u] = "request" => op[u].kind \in {"store", "show"}
  /\ pc[u] = "request" /\ op[u].kind = "show" =>
       op[u].pin = IF sio = 6 THEN 2 ELSE 0
  /\ Good /\ pc[u] \in {"show", "done"} /\ op[u].kind = "show" =>
       IF op[u].attr = "select" THEN SelectOK(u) ELSE PortsOK(u)
ShowsOK == DOMAIN seen = Callers /\ \A u \in Users : UserOK(u)
-----------------------------------------------------------------------------
(* The tables: no two pins of a chip have a bit in common, but for the     *)
(* ports of Misread.                                                       *)
LEMMA WideIs ==
  /\ Wide[1] = <<8, 224>> /\ Wide[2] = <<8, 240>> /\ Wide[3] = <<9, 224>>
  /\ Wide[4] = <<9, 228>> /\ Wide[5] = <<9, 240>> /\ Wide[6] = <<9, 244>>
  /\ Wide[7] = <<7, 244>> /\ Wide[8] = <<7, 224>> /\ Wide[9] = <<7, 228>>
  /\ Wide[10] = <<7, 232>>
BY DEF Wide

(* The registers of a layout: a port has its own, one of every four.       *)
Apart(layout) ==
  /\ DOMAIN layout \subseteq 0 .. 9
  /\ \A p \in DOMAIN layout :
       /\ layout[p] = <<layout[p][1], layout[p][2]>>
       /\ layout[p][1] \in 7 .. 9
       /\ layout[p][2] \in {224, 228, 232, 236, 240, 244, 248, 252}
  /\ \A p, q \in DOMAIN layout : layout[p] = layout[q] => p = q

LEMMA WideApart ==
  ASSUME NEW D, D \subseteq 0 .. 9
  PROVE  Apart([p \in D |-> Wide[p + 1]])
<1> DEFINE f == [p \in D |-> Wide[p + 1]]
<1>1. \A i \in 1 .. 10 :
        /\ Wide[i] = <<Wide[i][1], Wide[i][2]>>
        /\ Wide[i][1] \in 7 .. 9
        /\ Wide[i][2] \in {224, 228, 232, 236, 240, 244, 248, 252}
  BY WideIs
<1>2. \A i, j \in 1 .. 10 : Wide[i] = Wide[j] => i = j
  BY DEF Wide
<1>3. DOMAIN f = D /\ \A p \in D : f[p] = Wide[p + 1] /\ p + 1 \in 1 .. 10
  OBVIOUS
<1> HIDE DEF f
<1>4. \A p \in D : /\ f[p] = <<f[p][1], f[p][2]>>
                   /\ f[p][1] \in 7 .. 9
                   /\ f[p][2] \in {224, 228, 232, 236, 240, 244, 248, 252}
  <2> TAKE p \in D
  <2>1. f[p] = Wide[p + 1] /\ p + 1 \in 1 .. 10
    BY <1>3
  <2> HIDE DEF f
  <2> QED
    BY <1>1, <2>1
<1>5. \A p, q \in D : f[p] = f[q] => p = q
  <2> SUFFICES ASSUME NEW p \in D, NEW q \in D, f[p] = f[q] PROVE p = q
    OBVIOUS
  <2>1. /\ f[p] = Wide[p + 1] /\ p + 1 \in 1 .. 10
        /\ f[q] = Wide[q + 1] /\ q + 1 \in 1 .. 10
    BY <1>3
  <2>2. p + 1 = q + 1
    BY <1>2, <2>1
  <2> QED
    BY <2>2
<1>6. Apart(f)
  BY <1>3, <1>4, <1>5, ZenonT(30) DEF Apart
<1> QED
  BY <1>6 DEF f

LEMMA LayoutApart ==
  ASSUME NEW s \in Chips
  PROVE  Apart(SetLayout(s))
<1>1. CASE s \in {0, 1}
  <2>1. SetLayout(s) = [p \in 0 .. 9 |-> Wide[p + 1]]
    BY <1>1 DEF SetLayout, nct6775f_set, nct6776f_set
  <2> QED
    BY <2>1, WideApart
<1>2. CASE s \in {2, 5}
  <2>1. SetLayout(s) = [p \in 0 .. 8 |-> Wide[p + 1]]
    BY <1>2 DEF SetLayout, nct6779d_set, nct6796d_set
  <2>2. 0 .. 8 \subseteq 0 .. 9
    OBVIOUS
  <2> QED
    BY <2>1, <2>2, WideApart
<1>3. CASE s = 6
  <2>1. SetLayout(s) = [p \in {2, 3, 5, 7, 8} |-> Wide[p + 1]]
    BY <1>3 DEF SetLayout, nct5581d_set
  <2>2. {2, 3, 5, 7, 8} \subseteq 0 .. 9
    OBVIOUS
  <2> QED
    BY <2>1, <2>2, WideApart
<1>4. CASE s = 3
  <2>1. SetLayout(s) = nct6104d_set
    BY <1>4 DEF SetLayout
  <2>2. Apart(nct6104d_set)
    BY DEF Apart, nct6104d_set
  <2> QED
    BY <2>1, <2>2
<1>5. CASE s = 4
  <2>1. SetLayout(s) = nct6116d_set
    BY <1>5 DEF SetLayout
  <2>2. Apart(nct6116d_set)
    BY DEF Apart, nct6116d_set
  <2> QED
    BY <2>1, <2>2
<1> QED
  BY <1>1, <1>2, <1>3, <1>4, <1>5 DEF Chips

(* The ports of the chips.                                                 *)
LEMMA PortsOf ==
  /\ \A s \in {0, 1} : DOMAIN SetLayout(s) = 0 .. 9
  /\ \A s \in {2, 4, 5} : DOMAIN SetLayout(s) = 0 .. 8
  /\ DOMAIN SetLayout(3) = 0 .. 7
  /\ DOMAIN SetLayout(6) = {2, 3, 5, 7, 8}
BY DEF SetLayout, nct6775f_set, nct6776f_set, nct6779d_set, nct6104d_set,
   nct6116d_set, nct6796d_set, nct5581d_set

(* The bits that enable a port: a port has its own, but for ports 0 and 1  *)
(* of the NCT6796D.                                                        *)
LEMMA SelectApart ==
  ASSUME NEW s \in Chips, NEW p \in DOMAIN SetLayout(s)
  PROVE  /\ SelectBit(s, p)[1] \in 7 .. 9 /\ SelectBit(s, p)[2] \in 0 .. 7
         /\ SelectBit(s, p) = <<SelectBit(s, p)[1], SelectBit(s, p)[2]>>
         /\ p \in Legible(s, "select") =>
              \A q \in DOMAIN SetLayout(s) :
                SelectBit(s, p) = SelectBit(s, q) => p = q
<1>1. CASE s = 0
  BY <1>1, PortsOf DEF SelectBit, nct6775f_sel
<1>2. CASE s = 1
  BY <1>2, PortsOf DEF SelectBit, nct6776f_sel
<1>3. CASE s = 2
  BY <1>3, PortsOf DEF SelectBit, nct6779d_sel
<1>4. CASE s = 3
  BY <1>4, PortsOf DEF SelectBit, nct6104d_sel
<1>5. CASE s = 4
  BY <1>5, PortsOf DEF SelectBit, nct6116d_sel
<1>6. CASE s = 5
  BY <1>6, PortsOf DEF SelectBit, nct6796d_sel, Legible, Misread
<1>7. CASE s = 6
  BY <1>7, PortsOf DEF SelectBit, nct5581d_sel
<1> QED
  BY <1>1, <1>2, <1>3, <1>4, <1>5, <1>6, <1>7 DEF Chips

(* A pin of the chip is a pin the setter accepts, under its own port.      *)
LEMMA PinPort ==
  ASSUME NEW s \in Chips, NEW attr \in Attrs, NEW pin \in Nat,
         HasPin(s, attr, pin)
  PROVE  /\ pin \div 10 \in 0 .. 9 /\ pin \div 10 \in DOMAIN SetLayout(s)
         /\ Port(attr, pin) = pin \div 10
         /\ attr # "select" => pin % 10 \in 0 .. 7
<1>1. pin \div 10 \in DOMAIN SetLayout(s)
  BY DEF HasPin
<1>2. pin \div 10 \in 0 .. 9
  BY <1>1, LayoutApart DEF Apart
<1>3. Port(attr, pin) = pin \div 10
  BY <1>2 DEF Port
<1> QED
  BY <1>1, <1>2, <1>3 DEF HasPin

(* The register of an attribute other than select.                         *)
LEMMA RegisterType ==
  ASSUME NEW s \in Chips, NEW attr \in Attrs, attr # "select",
         NEW p \in DOMAIN SetLayout(s)
  PROVE  /\ Register(s, attr, p)[1] = SetLayout(s)[p][1]
         /\ Register(s, attr, p)[2] = SetLayout(s)[p][2] + Offset[attr]
         /\ Register(s, attr, p)[1] \in 7 .. 9
         /\ Register(s, attr, p)[2] \in Nat
         /\ Register(s, attr, p)[2] > USE_SEL
         /\ SetLayout(s)[p][2] \in {224, 228, 232, 236, 240, 244, 248, 252}
         /\ Offset[attr] \in 0 .. 2
<1>1. /\ SetLayout(s)[p][1] \in 7 .. 9
      /\ SetLayout(s)[p][2] \in {224, 228, 232, 236, 240, 244, 248, 252}
  BY LayoutApart DEF Apart
<1>2. Offset[attr] \in 0 .. 2
  BY DEF Offset, Attrs
<1>3. /\ Register(s, attr, p)[1] = SetLayout(s)[p][1]
      /\ Register(s, attr, p)[2] = SetLayout(s)[p][2] + Offset[attr]
  BY DEF Register
<1> QED
  BY <1>1, <1>2, <1>3 DEF USE_SEL

(* Two ports or two attributes never share a register.                     *)
LEMMA RegisterApart ==
  ASSUME NEW s \in Chips,
         NEW attr \in Attrs, attr # "select", NEW p \in DOMAIN SetLayout(s),
         NEW attr2 \in Attrs, attr2 # "select", NEW q \in DOMAIN SetLayout(s),
         Register(s, attr, p)[1] = Register(s, attr2, q)[1],
         Register(s, attr, p)[2] = Register(s, attr2, q)[2]
  PROVE  attr = attr2 /\ p = q
<1>1. /\ SetLayout(s)[p][1] = SetLayout(s)[q][1]
      /\ SetLayout(s)[p][2] + Offset[attr] = SetLayout(s)[q][2] + Offset[attr2]
  BY RegisterType
<1>2. /\ SetLayout(s)[p][2] \in {224, 228, 232, 236, 240, 244, 248, 252}
      /\ SetLayout(s)[q][2] \in {224, 228, 232, 236, 240, 244, 248, 252}
      /\ Offset[attr] \in 0 .. 2 /\ Offset[attr2] \in 0 .. 2
  BY RegisterType
<1>3. SetLayout(s)[p][2] = SetLayout(s)[q][2] /\ Offset[attr] = Offset[attr2]
  BY <1>1, <1>2
<1>4. attr = attr2
  BY <1>3 DEF Offset, Attrs
<1>5. SetLayout(s)[p] = SetLayout(s)[q]
  <2>1. /\ SetLayout(s)[p] = <<SetLayout(s)[p][1], SetLayout(s)[p][2]>>
        /\ SetLayout(s)[q] = <<SetLayout(s)[q][1], SetLayout(s)[q][2]>>
    BY LayoutApart DEF Apart
  <2> QED
    BY <1>1, <1>3, <2>1
<1>6. p = q
  BY <1>5, LayoutApart DEF Apart
<1> QED
  BY <1>4, <1>6

(* The bit of a pin.                                                       *)
LEMMA TargetIs ==
  ASSUME NEW s \in Chips, NEW attr \in Attrs, NEW pin \in Nat,
         HasPin(s, attr, pin)
  PROVE  LET p == pin \div 10
             t == Target(s, attr, pin)
         IN  /\ attr = "select" =>
                  t = <<SelectBit(s, p)[1], USE_SEL, SelectBit(s, p)[2]>>
             /\ attr # "select" =>
                  t = <<Register(s, attr, p)[1], Register(s, attr, p)[2],
                        pin % 10>>
             /\ t[1] \in 7 .. 9 /\ t[2] \in Nat /\ t[3] \in 0 .. 7
             /\ t = <<t[1], t[2], t[3]>>
<1> DEFINE p == pin \div 10
           t == Target(s, attr, pin)
<1>1. p \in DOMAIN SetLayout(s) /\ Port(attr, pin) = p
      /\ (attr # "select" => pin % 10 \in 0 .. 7)
  BY PinPort
<1> HIDE DEF p
<1>2. ASSUME attr = "select"
      PROVE  /\ t = <<SelectBit(s, p)[1], USE_SEL, SelectBit(s, p)[2]>>
             /\ SelectBit(s, p)[1] \in 7 .. 9 /\ SelectBit(s, p)[2] \in 0 .. 7
  <2>1. SelectBit(s, p)[1] \in 7 .. 9 /\ SelectBit(s, p)[2] \in 0 .. 7
    BY <1>1, SelectApart
  <2> QED
    BY <1>1, <1>2, <2>1 DEF Target
<1>3. ASSUME attr # "select"
      PROVE  /\ t = <<Register(s, attr, p)[1], Register(s, attr, p)[2],
                      pin % 10>>
             /\ Register(s, attr, p)[1] \in 7 .. 9
             /\ Register(s, attr, p)[2] \in Nat
  <2>1. /\ Register(s, attr, p)[1] \in 7 .. 9
        /\ Register(s, attr, p)[2] \in Nat
        /\ Register(s, attr, p)[1] = SetLayout(s)[p][1]
        /\ Register(s, attr, p)[2] = SetLayout(s)[p][2] + Offset[attr]
    BY <1>1, <1>3, RegisterType
  <2> QED
    BY <1>1, <1>3, <2>1 DEF Target
<1> HIDE DEF t
<1>4. t[1] \in 7 .. 9 /\ t[2] \in Nat /\ t[3] \in 0 .. 7
      /\ t = <<t[1], t[2], t[3]>>
  BY <1>1, <1>2, <1>3 DEF USE_SEL
<1> QED
  BY <1>2, <1>3, <1>4 DEF p, t

(* Pins that are shown alike are one bit...                                *)
LEMMA ShownIs ==
  ASSUME NEW s \in Chips, NEW attr \in Attrs,
         NEW pin \in Nat, HasPin(s, attr, pin),
         NEW pin2 \in Nat, HasPin(s, attr, pin2),
         Shown(attr, pin) = Shown(attr, pin2)
  PROVE  Target(s, attr, pin) = Target(s, attr, pin2)
<1>1. CASE attr = "select"
  <2>1. pin \div 10 = pin2 \div 10
    BY <1>1 DEF Shown
  <2> QED
    BY <1>1, <2>1, TargetIs
<1>2. CASE attr # "select"
  <2>1. pin \div 10 = pin2 \div 10 /\ pin % 10 = pin2 % 10
    BY <1>2 DEF Shown
  <2> QED
    BY <1>2, <2>1, TargetIs
<1> QED
  BY <1>1, <1>2

(* ... and a bit is of one pin and one attribute.                          *)
LEMMA Distinct ==
  ASSUME NEW s \in Chips,
         NEW attr \in Attrs, NEW pin \in Nat, HasPin(s, attr, pin),
         NEW attr2 \in Attrs, NEW pin2 \in Nat, HasPin(s, attr2, pin2),
         pin \div 10 \in Legible(s, attr),
         Target(s, attr, pin) = Target(s, attr2, pin2)
  PROVE  attr = attr2 /\ Shown(attr, pin) = Shown(attr2, pin2)
<1> DEFINE p == pin \div 10
           q == pin2 \div 10
<1>1. p \in DOMAIN SetLayout(s) /\ q \in DOMAIN SetLayout(s)
  BY PinPort
<1>2. CASE attr = "select" /\ attr2 = "select"
  <2>1. SelectBit(s, p) = SelectBit(s, q)
    <3>1. /\ SelectBit(s, p)[1] = SelectBit(s, q)[1]
          /\ SelectBit(s, p)[2] = SelectBit(s, q)[2]
      BY <1>2, TargetIs
    <3>2. /\ SelectBit(s, p) = <<SelectBit(s, p)[1], SelectBit(s, p)[2]>>
          /\ SelectBit(s, q) = <<SelectBit(s, q)[1], SelectBit(s, q)[2]>>
      BY <1>1, SelectApart
    <3> QED
      BY <3>1, <3>2
  <2>2. p = q
    BY <1>1, <1>2, <2>1, SelectApart
  <2> QED
    BY <1>2, <2>2 DEF Shown
<1>3. CASE attr # "select" /\ attr2 # "select"
  <2>1. /\ Register(s, attr, p)[1] = Register(s, attr2, q)[1]
        /\ Register(s, attr, p)[2] = Register(s, attr2, q)[2]
        /\ pin % 10 = pin2 % 10
    BY <1>3, TargetIs
  <2>2. attr = attr2 /\ p = q
    BY <1>1, <1>3, <2>1, RegisterApart
  <2> QED
    BY <1>3, <2>1, <2>2 DEF Shown
<1>4. CASE attr = "select" /\ attr2 # "select"
  <2>1. Register(s, attr2, q)[2] = USE_SEL
    BY <1>4, TargetIs
  <2>2. Register(s, attr2, q)[2] > USE_SEL
    BY <1>1, <1>4, RegisterType
  <2> QED
    BY <2>1, <2>2 DEF USE_SEL
<1>5. CASE attr # "select" /\ attr2 = "select"
  <2>1. Register(s, attr, p)[2] = USE_SEL
    BY <1>5, TargetIs
  <2>2. Register(s, attr, p)[2] > USE_SEL
    BY <1>1, <1>5, RegisterType
  <2> QED
    BY <2>1, <2>2 DEF USE_SEL
<1> QED
  BY <1>2, <1>3, <1>4, <1>5

(* The getters look where the setters have written.                        *)
LEMMA GetIs ==
  ASSUME NEW s \in Chips, NEW attr \in Attrs
  PROVE  /\ DOMAIN GetLayout(s, attr) = DOMAIN SetLayout(s)
         /\ \A p \in Legible(s, attr) : GetLayout(s, attr)[p] = SetLayout(s)[p]
<1>1. CASE s = 4
  <2>1. GetLayout(s, attr) = nct6116d_get(attr) /\ SetLayout(s) = nct6116d_set
    BY <1>1 DEF GetLayout, SetLayout
  <2>2. DOMAIN nct6116d_get(attr) = DOMAIN nct6116d_set
    BY DEF nct6116d_get
  <2>3. \A p \in DOMAIN nct6116d_set :
          attr # "inverse" \/ p # 8 => nct6116d_get(attr)[p] = nct6116d_set[p]
    BY DEF nct6116d_get
  <2> QED
    BY <1>1, <2>1, <2>2, <2>3 DEF Legible, Misread
<1>2. CASE s # 4
  <2>1. GetLayout(s, attr) = SetLayout(s)
    BY <1>2 DEF Chips, GetLayout, SetLayout, nct6775f_get, nct6776f_get,
       nct6779d_get, nct6104d_get, nct6796d_get, nct5581d_get
  <2> QED
    BY <2>1 DEF Legible
<1> QED
  BY <1>1, <1>2

(* A show of select reads the bit of every legible port; what else it      *)
(* prints under that port is no bit of a port.                             *)
Pair(s, t) == <<SelectDevice(s, t[1]), t[2]>>
Match(s, p, t) == t[3] = p /\ Pair(s, t) = SelectBit(s, p)
Reads(s, p, t) ==
  /\ t[3] \in Nat /\ t[2] \in 0 .. 7
  /\ t[3] = p => \/ Pair(s, t) = SelectBit(s, p)
                 \/ \A q \in DOMAIN SetLayout(s) : Pair(s, t) # SelectBit(s, q)

LEMMA SelectReads ==
  ASSUME NEW s \in Chips, NEW p \in Legible(s, "select")
  PROVE  /\ \A t \in SelectShow(s) : Reads(s, p, t)
         /\ \E t \in SelectShow(s) : Match(s, p, t)
<1>1. CASE s = 0
  <2>1. \A t : t \in SelectShow(s) <=>
          \/ \E b \in 1 .. 4 : t = <<6, b, b + 5>>
          \/ \E b \in 0 .. 3 : t = <<2, b, b + 2>>
          \/ t = <<0, 2, 0>>
          \/ t = <<0, 1, 1>>
    BY <1>1 DEF SelectShow
  <2>2. \A b \in 1 .. 4 : Reads(s, p, <<6, b, b + 5>>)
    BY <1>1, PortsOf DEF Reads, Match, Pair, SelectDevice, SelectBit, Legible,
       Misread, nct6775f_sel, nct6775f_ld
  <2>3. \A b \in 0 .. 3 : Reads(s, p, <<2, b, b + 2>>)
    BY <1>1, PortsOf DEF Reads, Match, Pair, SelectDevice, SelectBit, Legible,
       Misread, nct6775f_sel, nct6775f_ld
  <2>4. Reads(s, p, <<0, 2, 0>>) /\ Reads(s, p, <<0, 1, 1>>)
    BY <1>1, PortsOf DEF Reads, Match, Pair, SelectDevice, SelectBit, Legible,
       Misread, nct6775f_sel, nct6775f_ld
  <2>5. \/ \E b \in 1 .. 4 : Match(s, p, <<6, b, b + 5>>)
        \/ \E b \in 0 .. 3 : Match(s, p, <<2, b, b + 2>>)
        \/ Match(s, p, <<0, 2, 0>>)
        \/ Match(s, p, <<0, 1, 1>>)
    BY <1>1, PortsOf DEF Reads, Match, Pair, SelectDevice, SelectBit, Legible,
       Misread, nct6775f_sel, nct6775f_ld
  <2> QED
    BY <2>1, <2>2, <2>3, <2>4, <2>5
<1>2. CASE s = 1
  <2>1. \A t : t \in SelectShow(s) <=>
          \/ \E b \in 0 .. 1 : t = <<8, b, b + 8>>
          \/ \E b \in 1 .. 7 : t = <<1, b, b>>
          \/ t = <<0, 1, 0>>
    BY <1>2 DEF SelectShow
  <2>2. \A b \in 0 .. 1 : Reads(s, p, <<8, b, b + 8>>)
    BY <1>2, PortsOf DEF Reads, Match, Pair, SelectDevice, SelectBit, Legible,
       Misread, nct6776f_sel, nct6776f_ld
  <2>3. \A b \in 1 .. 7 : Reads(s, p, <<1, b, b>>)
    BY <1>2, PortsOf DEF Reads, Match, Pair, SelectDevice, SelectBit, Legible,
       Misread, nct6776f_sel, nct6776f_ld
  <2>4. Reads(s, p, <<0, 1, 0>>)
    BY <1>2, PortsOf DEF Reads, Match, Pair, SelectDevice, SelectBit, Legible,
       Misread, nct6776f_sel, nct6776f_ld
  <2>5. \/ \E b \in 0 .. 1 : Match(s, p, <<8, b, b + 8>>)
        \/ \E b \in 1 .. 7 : Match(s, p, <<1, b, b>>)
        \/ Match(s, p, <<0, 1, 0>>)
    BY <1>2, PortsOf DEF Reads, Match, Pair, SelectDevice, SelectBit, Legible,
       Misread, nct6776f_sel, nct6776f_ld
  <2> QED
    BY <2>1, <2>2, <2>3, <2>4, <2>5
<1>3. CASE s = 2
  <2>1. \A t : t \in SelectShow(s) <=>
          \/ \E b \in 1 .. 7 : t = <<7, b, b>>
          \/ t = <<8, 0, 8>>
          \/ t = <<0, 1, 0>>
    BY <1>3 DEF SelectShow
  <2>2. \A b \in 1 .. 7 : Reads(s, p, <<7, b, b>>)
    BY <1>3, PortsOf DEF Reads, Match, Pair, SelectDevice, SelectBit, Legible,
       Misread, nct6779d_sel, nct6779d_ld
  <2>3. Reads(s, p, <<8, 0, 8>>) /\ Reads(s, p, <<0, 1, 0>>)
    BY <1>3, PortsOf DEF Reads, Match, Pair, SelectDevice, SelectBit, Legible,
       Misread, nct6779d_sel, nct6779d_ld
  <2>4. \/ \E b \in 1 .. 7 : Match(s, p, <<7, b, b>>)
        \/ Match(s, p, <<8, 0, 8>>)
        \/ Match(s, p, <<0, 1, 0>>)
    BY <1>3, PortsOf DEF Reads, Match, Pair, SelectDevice, SelectBit, Legible,
       Misread, nct6779d_sel, nct6779d_ld
  <2> QED
    BY <2>1, <2>2, <2>3, <2>4
<1>4. CASE s = 4
  <2>1. \A t : t \in SelectShow(s) <=>
          \/ \E b \in 0 .. 7 : t = <<8, b, b + 8>>
          \/ \E b \in 0 .. 7 : t = <<0, b, b>>
    BY <1>4 DEF SelectShow
  <2>2. \A b \in 0 .. 7 : Reads(s, p, <<8, b, b + 8>>)
    BY <1>4, PortsOf DEF Reads, Match, Pair, SelectDevice, SelectBit, Legible,
       Misread, nct6116d_sel, nct6116d_ld
  <2>3. \A b \in 0 .. 7 : Reads(s, p, <<0, b, b>>)
    BY <1>4, PortsOf DEF Reads, Match, Pair, SelectDevice, SelectBit, Legible,
       Misread, nct6116d_sel, nct6116d_ld
  <2>4. \/ \E b \in 0 .. 7 : Match(s, p, <<8, b, b + 8>>)
        \/ \E b \in 0 .. 7 : Match(s, p, <<0, b, b>>)
    BY <1>4, PortsOf DEF Reads, Match, Pair, SelectDevice, SelectBit, Legible,
       Misread, nct6116d_sel, nct6116d_ld
  <2> QED
    BY <2>1, <2>2, <2>3, <2>4
<1>5. CASE s = 5
  <2>1. \A t : t \in SelectShow(s) <=>
          \/ \E b \in 0 .. 3 : t = <<2, b, b + 2>>
          \/ \E b \in 0 .. 2 : t = <<0, b, b + 6>>
          \/ t = <<0, 1, 0>>
          \/ t = <<7, 7, 0>>
    BY <1>5 DEF SelectShow
  <2>2. \A b \in 0 .. 3 : Reads(s, p, <<2, b, b + 2>>)
    BY <1>5, PortsOf DEF Reads, Match, Pair, SelectDevice, SelectBit, Legible,
       Misread, nct6796d_sel, nct6796d_ld
  <2>3. \A b \in 0 .. 2 : Reads(s, p, <<0, b, b + 6>>)
    BY <1>5, PortsOf DEF Reads, Match, Pair, SelectDevice, SelectBit, Legible,
       Misread, nct6796d_sel, nct6796d_ld
  <2>4. Reads(s, p, <<0, 1, 0>>) /\ Reads(s, p, <<7, 7, 0>>)
    BY <1>5, PortsOf DEF Reads, Match, Pair, SelectDevice, SelectBit, Legible,
       Misread, nct6796d_sel, nct6796d_ld
  <2>5. \/ \E b \in 0 .. 3 : Match(s, p, <<2, b, b + 2>>)
        \/ \E b \in 0 .. 2 : Match(s, p, <<0, b, b + 6>>)
        \/ Match(s, p, <<0, 1, 0>>)
        \/ Match(s, p, <<7, 7, 0>>)
    BY <1>5, PortsOf DEF Reads, Match, Pair, SelectDevice, SelectBit, Legible,
       Misread, nct6796d_sel, nct6796d_ld
  <2> QED
    BY <2>1, <2>2, <2>3, <2>4, <2>5
<1>6. CASE s = 6
  <2>1. \A t : t \in SelectShow(s) <=>
          \/ \E b \in 0 .. 7 : t = <<7, b, b + 6>>
          \/ \E b \in 0 .. 7 : t = <<2, b, b + 2>>
    BY <1>6 DEF SelectShow
  <2>2. \A b \in 0 .. 7 : Reads(s, p, <<7, b, b + 6>>)
    BY <1>6, PortsOf DEF Reads, Match, Pair, SelectDevice, SelectBit, Legible,
       Misread, nct5581d_sel, nct5581d_ld
  <2>3. \A b \in 0 .. 7 : Reads(s, p, <<2, b, b + 2>>)
    BY <1>6, PortsOf DEF Reads, Match, Pair, SelectDevice, SelectBit, Legible,
       Misread, nct5581d_sel, nct5581d_ld
  <2>4. \/ \E b \in 0 .. 7 : Match(s, p, <<7, b, b + 6>>)
        \/ \E b \in 0 .. 7 : Match(s, p, <<2, b, b + 2>>)
    BY <1>6, PortsOf DEF Reads, Match, Pair, SelectDevice, SelectBit, Legible,
       Misread, nct5581d_sel, nct5581d_ld
  <2> QED
    BY <2>1, <2>2, <2>3, <2>4
<1>7. CASE s = 3
  BY <1>7, PortsOf DEF Legible, Misread
<1> QED
  BY <1>1, <1>2, <1>3, <1>4, <1>5, <1>6, <1>7 DEF Chips
-----------------------------------------------------------------------------
(* What went wrong is not forgotten.                                       *)
LEMMA HarmGrows ==
  ASSUME [Next]_vars
  PROVE  harm \subseteq harm' /\ (Good' => Good)
<1>1. harm \subseteq harm'
  BY DEF Next, Load, Unload, Setter, User, Client, Ignore, Enter, AccessDevice,
     Read, Write, Leave, Finish, Store, Show, Call, Request, RequestFails,
     ShowPort, ShowSelect, ClientSet, ClientGet, Get, GetPort, Raced, vars
<1> QED
  BY <1>1 DEF Good

(* The board stays, and the driver is loaded for the chip it has.          *)
LEMMA BoardStays ==
  ASSUME [Next]_vars
  PROVE  board' = board /\ Kind' = Kind
<1>1. board' = board
  BY DEF Next, Load, Unload, Setter, User, Client, Ignore, Enter, AccessDevice,
     Read, Write, Leave, Finish, Store, Show, Call, Request, RequestFails,
     ShowPort, ShowSelect, ClientSet, ClientGet, Get, vars
<1> QED
  BY <1>1 DEF Kind

(* The index of the chip is only set by init and exit.                     *)
LEMMA SioMoves ==
  ASSUME [Next]_vars
  PROVE  Load \/ Unload \/ sio' = sio
BY DEF Next, Setter, User, Client, Ignore, Enter, AccessDevice,
   Read, Write, Leave, Finish, Store, Show, Call, Request, RequestFails,
   ShowPort, ShowSelect, ClientSet, ClientGet, Get, vars

LEMMA KindStep ==
  ASSUME TypeOK, KindOK, [Next]_vars
  PROVE  KindOK'
<1> SUFFICES ASSUME Good', sio' # -1
             PROVE  sio' = Kind
  BY BoardStays DEF KindOK
<1>1. CASE Load
  <2>1. board[2] = 1
    BY <1>1 DEF Load, Good, TypeOK
  <2>2. board[1] \in 0 .. Unlisted
    BY DriverAssumption DEF TypeOK
  <2> QED
    BY <1>1, <2>1, <2>2 DEF Load, nuvoton_match, Kind, Chips, Unlisted
<1>2. CASE Unload
  BY <1>2 DEF Unload
<1>3. CASE sio' = sio
  BY <1>3, HarmGrows DEF KindOK
<1> QED
  BY <1>1, <1>2, <1>3, SioMoves

(* A setter goes to work on a pin of the chip, or it is a stray.           *)
LEMMA PinStep ==
  ASSUME TypeOK, CallsOK, PinOK, [Next]_vars
  PROVE  PinOK'
<1> SUFFICES ASSUME Good', NEW x \in Callers, pc'[x] \in InMode
             PROVE  HasPin(sio', op'[x].attr, op'[x].pin)
  BY DEF PinOK
<1>0. Good /\ (pc[x] \in InMode => HasPin(sio, op[x].attr, op[x].pin))
  BY HarmGrows DEF PinOK
<1>1. ASSUME pc[x] \in InMode, op'[x] = op[x], sio' = sio
      PROVE  HasPin(sio', op'[x].attr, op'[x].pin)
  BY <1>0, <1>1
<1> USE DEF TypeOK, Step, chip
<1>2. CASE Load
  BY <1>2 DEF Load, CallsOK, Chips, InMode
<1>3. CASE Unload
  BY <1>3 DEF Unload, InMode
<1>4. ASSUME NEW a \in Callers, Setter(a)
      PROVE  HasPin(sio', op'[x].attr, op'[x].pin)
  <2>1. CASE a # x
    <3>1. pc'[x] = pc[x] /\ op'[x] = op[x] /\ sio' = sio
      BY <1>4, <2>1 DEF Setter, Ignore, Enter, AccessDevice, Read, Write, Leave,
         Finish
    <3> QED
      BY <1>1, <3>1
  <2>2. CASE a = x
    <3>1. CASE Ignore(x) \/ Leave(x) \/ Finish(x)
      BY <3>1 DEF Ignore, Leave, Finish, InMode
    <3>2. CASE Enter(x)
      <4>1. HasPin(sio, op[x].attr, op[x].pin)
        BY <3>2 DEF Enter, Good
      <4> QED
        BY <3>2, <4>1 DEF Enter
    <3>3. CASE AccessDevice(x) \/ Read(x) \/ Write(x)
      BY <1>1, <3>3 DEF AccessDevice, Read, Write, InMode
    <3> QED
      BY <1>4, <2>2, <3>1, <3>2, <3>3 DEF Setter
  <2> QED
    BY <2>1, <2>2
<1>5. ASSUME NEW u \in Users, User(u)
      PROVE  HasPin(sio', op'[x].attr, op'[x].pin)
  <2>1. CASE u = x
    <3>1. CASE ShowPort(u)
      BY <2>1, <3>1 DEF ShowPort, InMode
    <3> QED
      BY <1>5, <2>1, <3>1 DEF User, Store, Show, Call, Request, RequestFails,
         ShowSelect, InMode
  <2>2. CASE u # x
    <3>1. pc'[x] = pc[x] /\ op'[x] = op[x] /\ sio' = sio
      <4>1. CASE ShowPort(u)
        BY <2>2, <4>1 DEF ShowPort
      <4> QED
        BY <1>5, <2>2, <4>1 DEF User, Store, Show, Call, Request, RequestFails,
           ShowSelect
    <3> QED
      BY <1>1, <3>1
  <2> QED
    BY <2>1, <2>2
<1>6. ASSUME NEW c \in Clients, Client(c)
      PROVE  HasPin(sio', op'[x].attr, op'[x].pin)
  <2>1. CASE c = x
    BY <1>6, <2>1 DEF Client, ClientSet, ClientGet, Call, Get, InMode
  <2>2. CASE c # x
    <3>1. pc'[x] = pc[x] /\ op'[x] = op[x] /\ sio' = sio
      BY <1>6, <2>2 DEF Client, ClientSet, ClientGet, Call, Get
    <3> QED
      BY <1>1, <3>1
  <2> QED
    BY <2>1, <2>2
<1>7. CASE UNCHANGED vars
  BY <1>1, <1>7 DEF vars
<1> QED
  BY <1>2, <1>3, <1>4, <1>5, <1>6, <1>7 DEF Next

(* The registers and what is asked of them change in Write alone.          *)
LEMMA RegsMove ==
  ASSUME [Next]_vars
  PROVE  (\E a \in Callers : Write(a)) \/ (regs' = regs /\ want' = want)
BY DEF Next, Load, Unload, Setter, User, Client, Ignore, Enter,
   AccessDevice, Read, Leave, Finish, Store, Show, Call, Request,
   RequestFails, ShowPort, ShowSelect, ClientSet, ClientGet, Get, vars, chip

(* A store moves a pin's bit and what was asked of it together, and those  *)
(* of no other pin.                                                        *)
LEMMA StoredStep ==
  ASSUME TypeOK, CallsOK, Undisturbed, KindOK, PinOK, StoredOK, [Next]_vars
  PROVE  StoredOK'
<1> SUFFICES ASSUME Good'
             PROVE  WantOK' /\ RegsOK' /\ BitsOK'
  BY DEF StoredOK
<1>0. Good /\ WantOK /\ RegsOK /\ BitsOK /\ "raced" \notin harm
  BY HarmGrows DEF StoredOK, Good
<1>1. Kind' = Kind
  BY BoardStays
<1>2. CASE regs' = regs /\ want' = want
  BY <1>0, <1>1, <1>2 DEF WantOK, RegsOK, BitsOK, BitOK
<1>3. ASSUME NEW a \in Callers, Write(a)
      PROVE  WantOK' /\ RegsOK' /\ BitsOK'
  <2> DEFINE attr0 == op[a].attr
             pin0 == op[a].pin
             cmd0 == op[a].cmd
             w == Where(a)
             name == <<attr0, Shown(attr0, pin0)>>
  <2>1. pc[a] \in InMode /\ sio = Kind /\ Kind \in Chips
    BY <1>0, <1>3 DEF Write, Step, InMode, KindOK, CallsOK, Chips
  <2>2. /\ attr0 \in Attrs /\ pin0 \in Nat /\ cmd0 \in 0 .. 1
        /\ HasPin(Kind, attr0, pin0) /\ w = Target(Kind, attr0, pin0)
    BY <1>0, <2>1 DEF TypeOK, PinOK, Where
  <2>3. w[3] \in 0 .. 7 /\ w \in (7 .. 9) \X Nat \X (0 .. 7)
    BY <2>1, <2>2, TargetIs
  <2>4. /\ \A r \in (7 .. 9) \X Nat \X (0 .. 7) :
             r # w => (r \in regs' <=> r \in regs)
        /\ w \in regs' <=> cmd0 = 1
    BY <1>0, <1>3, <2>3, WriteOne
  <2>5. regs' \subseteq (7 .. 9) \X Nat \X (0 .. 7)
    BY TypeStep DEF TypeOK
  <2>6. want' = { x \in want : <<x[1], x[2]>> # name }
                \cup { <<attr0, Shown(attr0, pin0), cmd0>> }
    BY <1>3 DEF Write, Wanted
  <2> HIDE DEF attr0, pin0, cmd0, w
  <2>7. WantOK'
    <3> SUFFICES ASSUME NEW x \in want'
                 PROVE  \E pin \in Nat, cmd \in 0 .. 1, attr \in Attrs :
                          /\ HasPin(Kind, attr, pin)
                          /\ x = <<attr, Shown(attr, pin), cmd>>
      BY <1>1 DEF WantOK
    <3>1. CASE x \in want
      BY <1>0, <3>1 DEF WantOK
    <3>2. CASE x = <<attr0, Shown(attr0, pin0), cmd0>>
      BY <2>2, <3>2
    <3> QED
      BY <2>6, <3>1, <3>2
  <2>8. RegsOK'
    <3> SUFFICES ASSUME NEW r \in regs'
                 PROVE  \E pin \in Nat, attr \in Attrs :
                          /\ HasPin(Kind, attr, pin)
                          /\ r = Target(Kind, attr, pin)
      BY <1>1 DEF RegsOK
    <3>1. CASE r = w
      BY <2>2, <3>1
    <3>2. CASE r # w
      BY <1>0, <2>4, <2>5, <3>2 DEF RegsOK
    <3> QED
      BY <3>1, <3>2
  <2>9. ASSUME NEW pin \in Nat, NEW attr \in Attrs, HasPin(Kind, attr, pin),
               pin \div 10 \in Legible(Kind, attr)
        PROVE  BitOK(attr, pin)'
    <3> DEFINE t == Target(Kind, attr, pin)
               shown == <<attr, Shown(attr, pin), 1>>
    <3>0. BitOK(attr, pin)' <=> (t \in regs' <=> shown \in want')
      BY <1>1 DEF BitOK
    <3>1. CASE t = w
      <4>1. attr = attr0 /\ Shown(attr, pin) = Shown(attr0, pin0)
        BY <2>1, <2>2, <2>9, <3>1, Distinct
      <4>2. shown \in want' <=> cmd0 = 1
        BY <2>6, <4>1
      <4> QED
        BY <2>4, <3>0, <3>1, <4>2
    <3>2. CASE t # w
      <4>1. <<attr, Shown(attr, pin)>> # name
        <5> SUFFICES ASSUME attr = attr0, Shown(attr, pin) = Shown(attr0, pin0)
                     PROVE  FALSE
          OBVIOUS
        <5>1. t = Target(Kind, attr0, pin0)
          BY <2>1, <2>2, <2>9, ShownIs
        <5> QED
          BY <2>2, <3>2, <5>1
      <4>2. shown \in want' <=> shown \in want
        BY <2>6, <4>1
      <4>3. t \in (7 .. 9) \X Nat \X (0 .. 7)
        BY <2>1, <2>9, TargetIs
      <4>4. t \in regs' <=> t \in regs
        BY <2>4, <3>2, <4>3
      <4>5. t \in regs <=> shown \in want
        BY <1>0, <2>9 DEF BitsOK, BitOK
      <4> QED
        BY <3>0, <4>2, <4>4, <4>5
    <3> QED
      BY <3>1, <3>2
  <2>10. BitsOK'
    BY <1>1, <2>9 DEF BitsOK
  <2> QED
    BY <2>7, <2>8, <2>10
<1> QED
  BY <1>2, <1>3, RegsMove

(* What is in a select register is the bit of a port.                      *)
LEMMA SelectOnly ==
  ASSUME Good, KindOK, RegsOK, sio \in Chips, NEW ld, NEW b,
         <<ld, USE_SEL, b>> \in regs
  PROVE  \E q \in DOMAIN SetLayout(sio) : <<ld, b>> = SelectBit(sio, q)
<1> DEFINE r == <<ld, USE_SEL, b>>
<1>1. PICK pin \in Nat, attr \in Attrs :
             HasPin(sio, attr, pin) /\ r = Target(sio, attr, pin)
  BY DEF RegsOK, KindOK, Chips
<1> DEFINE q == pin \div 10
<1>2. q \in DOMAIN SetLayout(sio)
  BY <1>1, PinPort
<1>3. attr = "select"
  <2> SUFFICES ASSUME attr # "select" PROVE FALSE
    OBVIOUS
  <2>1. Register(sio, attr, q)[2] = USE_SEL
    BY <1>1, TargetIs
  <2>2. Register(sio, attr, q)[2] > USE_SEL
    BY <1>2, RegisterType
  <2> QED
    BY <2>1, <2>2 DEF USE_SEL
<1>4. r = <<SelectBit(sio, q)[1], USE_SEL, SelectBit(sio, q)[2]>>
  BY <1>1, <1>3, TargetIs
<1>5. SelectBit(sio, q) = <<SelectBit(sio, q)[1], SelectBit(sio, q)[2]>>
  BY <1>2, SelectApart
<1> HIDE DEF q
<1>6. <<ld, b>> = SelectBit(sio, q)
  BY <1>4, <1>5
<1> QED
  BY <1>2, <1>6

(* A show of select prints the legible ports as they are enabled.          *)
LEMMA SelectRight ==
  ASSUME TypeOK, CallsOK, KindOK, StoredOK, Good, DOMAIN seen = Callers,
         NEW u \in Users, ShowSelect(u)
  PROVE  SelectOK(u)'
<1> DEFINE set(t) == <<SelectDevice(sio, t[1]), USE_SEL, t[2]>> \in regs
           printed == { <<t[3]>> : t \in { t \in SelectShow(sio) : set(t) } }
<1>1. sio \in Chips /\ sio' = sio /\ regs' = regs
  BY DEF ShowSelect, Step, CallsOK, Callers
<1>2. seen'[u] = printed
  BY DEF ShowSelect, Callers
<1>3. \A x \in printed : x = <<x[1]>>
  <2> TAKE x \in printed
  <2>1. PICK t \in SelectShow(sio) : x = <<t[3]>>
    OBVIOUS
  <2> QED
    BY <2>1
<1>4. ASSUME NEW p \in Legible(sio, "select")
      PROVE  <<p>> \in printed <=>
               <<SelectBit(sio, p)[1], USE_SEL, SelectBit(sio, p)[2]>> \in regs
  <2>1. <<p>> \in printed <=> \E t \in SelectShow(sio) : t[3] = p /\ set(t)
    OBVIOUS
  <2>2. p \in DOMAIN SetLayout(sio)
    BY <1>4 DEF Legible
  <2>3. SelectBit(sio, p) = <<SelectBit(sio, p)[1], SelectBit(sio, p)[2]>>
    BY <1>1, <2>2, SelectApart
  <2>4. ASSUME NEW t \in SelectShow(sio), t[3] = p, set(t)
        PROVE  Pair(sio, t) = SelectBit(sio, p)
    <3>1. \E q \in DOMAIN SetLayout(sio) : Pair(sio, t) = SelectBit(sio, q)
      BY <1>1, <2>4, SelectOnly DEF StoredOK, Pair
    <3>2. Reads(sio, p, t)
      BY <1>1, SelectReads
    <3> QED
      BY <2>4, <3>1, <3>2 DEF Reads
  <2>5. PICK t0 \in SelectShow(sio) : Match(sio, p, t0)
    BY <1>1, SelectReads
  <2>6. ASSUME NEW t, Pair(sio, t) = SelectBit(sio, p)
        PROVE  set(t) <=>
               <<SelectBit(sio, p)[1], USE_SEL, SelectBit(sio, p)[2]>> \in regs
    BY <2>3, <2>6 DEF Pair
  <2> QED
    BY <2>1, <2>4, <2>5, <2>6 DEF Match
<1> HIDE DEF printed
<1> QED
  BY <1>1, <1>2, <1>3, <1>4 DEF SelectOK

(* One port of any other show: the loop comes by every port of the chip.   *)
LEMMA LoopCovers ==
  ASSUME NEW s \in Chips, NEW p \in Asked(s), NEW q \in DOMAIN SetLayout(s)
  PROVE  /\ NextPort(s, p) <= Ports(s) =>
              /\ NextPort(s, p) \in Asked(s)
              /\ q < NextPort(s, p) <=> q < p \/ q = p
         /\ ~(NextPort(s, p) <= Ports(s)) => q < p \/ q = p
         /\ p \in Nat
         /\ (IF s = 6 THEN 2 ELSE 0) \in Asked(s)
         /\ ~(q < IF s = 6 THEN 2 ELSE 0)
<1>1. CASE s = 6
  <2>1. p \in {2, 3, 5, 7, 8} /\ q \in {2, 3, 5, 7, 8}
    BY <1>1, PortsOf DEF Asked
  <2>2. Ports(s) = 8 /\ Asked(s) = {2, 3, 5, 7, 8}
    BY <1>1, PortsOf DEF Ports, Asked
  <2> QED
    BY <1>1, <2>1, <2>2 DEF NextPort
<1>2. CASE s # 6
  <2>1. Ports(s) \in 7 .. 9 /\ q \in 0 .. Ports(s)
    BY <1>2, PortsOf DEF Chips, Ports
  <2>2. Asked(s) = 0 .. Ports(s) /\ NextPort(s, p) = p + 1
    BY <1>2 DEF Asked, NextPort
  <2> QED
    BY <1>2, <2>1, <2>2
<1> QED
  BY <1>1, <1>2

LEMMA PortRight ==
  ASSUME TypeOK, CallsOK, DOMAIN seen = Callers,
         NEW u \in Users, ShowPort(u), PortsOK(u)
  PROVE  PortsOK(u)'
<1> DEFINE attr == op[u].attr
           p0 == op[u].pin
           get == GetLayout(sio, attr)
           B == IF p0 \in DOMAIN get
                THEN Bits(get[p0][1], get[p0][2] + Offset[attr]) ELSE 0 .. 7
           shows(p, b) == <<Register(sio, attr, p)[1],
                            Register(sio, attr, p)[2], b>> \in regs
<1>1. /\ sio \in Chips /\ sio' = sio /\ regs' = regs /\ pc[u] = "show"
      /\ attr \in Attrs /\ attr # "select" /\ u \in Callers
  BY DEF ShowPort, CallsOK, Callers, TypeOK
<1>2. seen'[u] = seen[u] \cup { <<p0, b>> : b \in B }
  BY <1>1 DEF ShowPort, GetPort
<1>3. B \subseteq 0 .. 7
  BY DEF Bits
<1>4. /\ op'[u].attr = attr
      /\ \/ /\ NextPort(sio, p0) <= Ports(sio)
            /\ op'[u].pin = NextPort(sio, p0) /\ pc'[u] = "show"
         \/ ~(NextPort(sio, p0) <= Ports(sio)) /\ pc'[u] = "done"
  BY <1>1 DEF ShowPort, Step, TypeOK
<1>5. p0 \in Asked(sio)
  BY <1>1 DEF PortsOK
<1>6. ASSUME NEW p \in Legible(sio, attr)
      PROVE  Past(u, p)' <=> Past(u, p) \/ p = p0
  <2>1. p \in DOMAIN SetLayout(sio)
    BY DEF Legible
  <2> QED
    BY <1>1, <1>4, <1>5, <2>1, LoopCovers DEF Past
<1>7. ASSUME p0 \in Legible(sio, attr), NEW b \in 0 .. 7
      PROVE  b \in B <=> shows(p0, b)
  <2>1. p0 \in DOMAIN get /\ get[p0] = SetLayout(sio)[p0]
    BY <1>1, <1>7, GetIs DEF Legible
  <2>2. /\ Register(sio, attr, p0)[1] = get[p0][1]
        /\ Register(sio, attr, p0)[2] = get[p0][2] + Offset[attr]
    BY <2>1 DEF Register
  <2> QED
    BY <2>1, <2>2 DEF Bits
<1> HIDE DEF B
<1>8. seen'[u] \subseteq Nat \X (0 .. 7)
  <2>1. p0 \in Nat /\ seen[u] \subseteq Nat \X (0 .. 7)
    BY <1>1 DEF TypeOK, PortsOK
  <2> HIDE DEF p0
  <2>2. \A b \in B : <<p0, b>> \in Nat \X (0 .. 7)
    BY <1>3, <2>1
  <2>3. { <<p0, b>> : b \in B } \subseteq Nat \X (0 .. 7)
    BY <2>2
  <2> QED
    BY <1>2, <2>1, <2>3
<1>9. pc'[u] = "show" => op'[u].pin \in Asked(sio)
  <2>1. PICK q : q \in DOMAIN SetLayout(sio)
    BY <1>1, PortsOf DEF Chips
  <2> QED
    BY <1>1, <1>4, <1>5, <2>1, LoopCovers
<1>10. ASSUME NEW p \in Legible(sio, attr), NEW b \in 0 .. 7
       PROVE  <<p, b>> \in seen'[u] <=> Past(u, p)' /\ shows(p, b)
  <2>1. <<p, b>> \in seen'[u] <=> <<p, b>> \in seen[u] \/ (p = p0 /\ b \in B)
    BY <1>2
  <2>2. <<p, b>> \in seen[u] <=> Past(u, p) /\ shows(p, b)
    BY DEF PortsOK
  <2>3. p = p0 => (b \in B <=> shows(p, b))
    BY <1>7
  <2> QED
    BY <1>6, <2>1, <2>2, <2>3
<1> QED
  BY <1>1, <1>4, <1>8, <1>9, <1>10 DEF PortsOK

(* What a user has printed is touched by nobody else, and while one prints *)
(* nobody writes.                                                          *)
LEMMA UserFrame ==
  ASSUME TypeOK, DOMAIN seen = Callers, [Next]_vars, NEW u \in Users
  PROVE  \/ Setter(u) \/ User(u)
         \/ pc'[u] = pc[u] /\ op'[u] = op[u] /\ seen'[u] = seen[u]
<1> DEFINE Same == pc'[u] = pc[u] /\ op'[u] = op[u] /\ seen'[u] = seen[u]
<1> USE DriverAssumption DEF TypeOK, Callers, Step
<1>1. CASE Load \/ Unload \/ UNCHANGED vars
  BY <1>1 DEF Load, Unload, vars
<1>2. ASSUME NEW a \in Callers, a # u, Setter(a)
      PROVE  Same
  BY <1>2 DEF Setter, Ignore, Enter, AccessDevice, Read, Write, Leave, Finish
<1>3. ASSUME NEW v \in Users, v # u, User(v)
      PROVE  Same
  <2>1. CASE ShowPort(v)
    BY <1>3, <2>1 DEF ShowPort, GetPort
  <2> QED
    BY <1>3, <2>1 DEF User, Store, Show, Call, Request, RequestFails, ShowSelect
<1>4. ASSUME NEW c \in Clients, Client(c)
      PROVE  Same
  BY <1>4 DEF Client, ClientSet, ClientGet, Call, Get, GetPort
<1> HIDE DEF Same
<1>5. Setter(u) \/ User(u) \/ Same
  BY <1>2, <1>3, <1>4, <1>1 DEF Next, Same
<1> QED
  BY <1>5 DEF Same

LEMMA SeenStep ==
  ASSUME DOMAIN seen = Callers, [Next]_vars
  PROVE  DOMAIN seen' = Callers
BY DEF Next, Load, Unload, Setter, User, Client, Ignore, Enter, AccessDevice,
   Read, Write, Leave, Finish, Store, Show, Call, Request, RequestFails,
   ShowPort, ShowSelect, ClientSet, ClientGet, Get, GetPort, Raced, vars

LEMMA ShowFrame ==
  ASSUME CallsOK, Alone, "raced" \notin harm, [Next]_vars,
         NEW u \in Users, pc[u] \in {"show", "done"}
  PROVE  (sio' = sio /\ regs' = regs) \/ Setter(u)
<1>1. sio' = sio
  BY SioMoves DEF Load, Unload, CallsOK, Chips, Callers
<1>2. ASSUME NEW a \in Callers, Write(a)
      PROVE  FALSE
  BY <1>2 DEF Alone, Inside, Write, Step, Callers
<1> QED
  BY <1>1, <1>2, RegsMove

(* The prints of a user, step by step.                                     *)
LEMMA UserStep ==
  ASSUME IInv, KindOK, StoredOK, ShowsOK, [Next]_vars, NEW u \in Users
  PROVE  UserOK(u)'
<1> USE DEF IInv
<1>1. UserOK(u) /\ DOMAIN seen = Callers /\ u \in Callers
  BY DEF ShowsOK, Callers
<1>2. Good' => Good /\ "raced" \notin harm
  BY HarmGrows DEF Good
<1>3. ASSUME pc'[u] = pc[u], op'[u] = op[u], seen'[u] = seen[u]
      PROVE  UserOK(u)'
  <2>1. pc[u] = "request" => sio' = sio
    BY <1>1, SioMoves DEF Load, Unload, CallsOK, Chips
  <2>2. Good' /\ pc[u] \in {"show", "done"} =>
          (sio' = sio /\ regs' = regs) \/ Setter(u)
    BY <1>2, ShowFrame
  <2>3. ~ (pc[u] \in {"show", "done"} /\ Setter(u))
    BY <1>1, <1>3 DEF Setter, Ignore, Enter, AccessDevice, Read, Write, Leave,
       Finish, Step, TypeOK
  <2>4. ASSUME sio' = sio, regs' = regs
        PROVE  /\ SelectOK(u)' <=> SelectOK(u)
               /\ PortsOK(u)' <=> PortsOK(u)
    BY <1>3, <2>4 DEF SelectOK, PortsOK, Past
  <2>5. ASSUME Good', pc[u] \in {"show", "done"}
        PROVE  /\ SelectOK(u)' <=> SelectOK(u)
               /\ PortsOK(u)' <=> PortsOK(u)
    <3>1. sio' = sio /\ regs' = regs
      BY <2>2, <2>3, <2>5
    <3> QED
      BY <2>4, <3>1
  <2> HIDE DEF IInv
  <2> QED
    BY <1>1, <1>2, <1>3, <2>1, <2>5 DEF UserOK
<1>4. CASE Setter(u)
  <2> USE <1>1 DEF UserOK, TypeOK, Step, InMode
  <2>1. CASE Ignore(u)
    BY <2>1 DEF Ignore
  <2>2. CASE Enter(u)
    BY <2>2 DEF Enter
  <2>3. CASE AccessDevice(u)
    BY <2>3 DEF AccessDevice
  <2>4. CASE Read(u)
    BY <2>4 DEF Read
  <2>5. CASE Write(u)
    BY <2>5 DEF Write
  <2>6. CASE Leave(u)
    BY <2>6 DEF Leave
  <2>7. CASE Finish(u)
    BY <2>7 DEF Finish
  <2> QED
    BY <1>4, <2>1, <2>2, <2>3, <2>4, <2>5, <2>6, <2>7 DEF Setter
<1>5. CASE Store(u) \/ Show(u)
  BY <1>1, <1>5 DEF Store, Show, Call, UserOK, TypeOK, InMode
<1>6. CASE RequestFails(u)
  BY <1>1, <1>6 DEF RequestFails, UserOK, TypeOK, InMode
<1>7. CASE Request(u)
  <2>1. /\ pc[u] = "request" /\ op' = op /\ seen' = seen /\ seen[u] = {}
        /\ pc'[u] = IF op[u].kind = "store" THEN "enter" ELSE "show"
        /\ sio' = sio /\ regs' = regs /\ sio \in Chips
    BY <1>1, <1>7 DEF Request, UserOK, TypeOK, CallsOK, chip
  <2>2. ASSUME op[u].kind = "show"
        PROVE  PortsOK(u)'
    <3>1. op[u].pin = IF sio = 6 THEN 2 ELSE 0
      BY <1>1, <2>1, <2>2 DEF UserOK
    <3>2. PICK q : q \in DOMAIN SetLayout(sio)
      BY <2>1, PortsOf DEF Chips
    <3>3. op[u].pin \in Asked(sio)
      <4>1. PICK p : p \in Asked(sio)
        BY <2>1, PortsOf DEF Asked, Chips, Ports
      <4> QED
        BY <2>1, <3>1, <3>2, <4>1, LoopCovers
    <3>4. \A p \in Legible(sio, op[u].attr) : ~(p < op[u].pin)
      BY <2>1, <3>1, <3>3, LoopCovers DEF Legible
    <3> QED
      BY <2>1, <2>2, <3>3, <3>4 DEF PortsOK, Past
  <2>3. SelectOK(u)' \/ pc'[u] = "enter"
    BY <2>1 DEF SelectOK
  <2> QED
    BY <1>1, <2>1, <2>2, <2>3 DEF UserOK, InMode
<1>8. CASE ShowPort(u)
  <2>1. /\ pc[u] = "show" /\ pc'[u] \in {"show", "done"}
        /\ op[u].attr # "select" /\ op'[u].attr = op[u].attr
        /\ op[u].kind = "show" /\ op'[u].kind = "show"
    BY <1>1, <1>8 DEF ShowPort, Step, TypeOK, UserOK
  <2>2. Good' => PortsOK(u)'
    BY <1>1, <1>2, <1>8, <2>1, PortRight DEF UserOK
  <2> QED
    BY <2>1, <2>2 DEF UserOK, InMode
<1>9. CASE ShowSelect(u)
  <2>1. /\ pc[u] = "show" /\ pc'[u] = "done" /\ op' = op
        /\ op[u].attr = "select" /\ op[u].kind = "show"
    BY <1>1, <1>9 DEF ShowSelect, Step, TypeOK, UserOK
  <2>2. Good' => SelectOK(u)'
    BY <1>1, <1>2, <1>9, SelectRight
  <2> QED
    BY <2>1, <2>2 DEF UserOK, InMode
<1> QED
  BY <1>1, <1>3, <1>4, <1>5, <1>6, <1>7, <1>8, <1>9, UserFrame DEF User

LEMMA ShowsStep ==
  ASSUME IInv, KindOK, StoredOK, ShowsOK, [Next]_vars
  PROVE  ShowsOK'
<1>1. \A u \in Users : UserOK(u)'
  BY UserStep
<1>2. DOMAIN seen' = Callers
  BY SeenStep DEF ShowsOK
<1> QED
  BY <1>1, <1>2 DEF ShowsOK

(* What the last stores of an attribute have set of the legible ports: the *)
(* bits that are set in the registers.                                     *)
Told(attr) == { w[2] : w \in { w \in want : /\ w[1] = attr /\ w[3] = 1
                                          /\ w[2][1] \in Legible(sio, attr) } }
LEMMA ToldIs ==
  ASSUME Good, KindOK, StoredOK, sio \in Chips, NEW attr \in Attrs
  PROVE  /\ \A pin \in Nat :
              HasPin(sio, attr, pin) /\ pin \div 10 \in Legible(sio, attr) =>
                (Shown(attr, pin) \in Told(attr)
                   <=> Target(sio, attr, pin) \in regs)
         /\ \A x \in Told(attr) : \E pin \in Nat :
              /\ HasPin(sio, attr, pin) /\ pin \div 10 \in Legible(sio, attr)
              /\ x = Shown(attr, pin)
<1>1. sio = Kind /\ WantOK /\ BitsOK
  BY DEF KindOK, StoredOK, Chips
<1>2. \A x : x \in Told(attr) <=>
               \E w \in want : /\ w[1] = attr /\ w[3] = 1 /\ x = w[2]
                               /\ w[2][1] \in Legible(sio, attr)
  BY DEF Told
<1>3. \A w \in want : w = <<w[1], w[2], w[3]>>
  <2> TAKE w \in want
  <2>1. PICK pin \in Nat, cmd \in 0 .. 1, at \in Attrs :
               w = <<at, Shown(at, pin), cmd>>
    BY <1>1 DEF WantOK
  <2> QED
    BY <2>1
<1>4. \A x : x \in Told(attr) <=> /\ <<attr, x, 1>> \in want
                                  /\ x[1] \in Legible(sio, attr)
  <2> TAKE x
  <2>1. ASSUME x \in Told(attr)
        PROVE  <<attr, x, 1>> \in want /\ x[1] \in Legible(sio, attr)
    <3>1. PICK w \in want : /\ w[1] = attr /\ w[3] = 1 /\ x = w[2]
                            /\ w[2][1] \in Legible(sio, attr)
      BY <1>2, <2>1
    <3>2. w = <<attr, x, 1>>
      BY <1>3, <3>1
    <3> QED
      BY <3>1, <3>2
  <2>2. ASSUME <<attr, x, 1>> \in want, x[1] \in Legible(sio, attr)
        PROVE  x \in Told(attr)
    <3> DEFINE w == <<attr, x, 1>>
    <3>1. w[1] = attr /\ w[2] = x /\ w[3] = 1
      OBVIOUS
    <3> HIDE DEF w
    <3> QED
      BY <1>2, <2>2, <3>1 DEF w
  <2> QED
    BY <2>1, <2>2
<1>5. \A pin : Shown(attr, pin)[1] = pin \div 10
  BY DEF Shown
<1>6. ASSUME NEW pin \in Nat, HasPin(sio, attr, pin),
             pin \div 10 \in Legible(sio, attr)
      PROVE  Shown(attr, pin) \in Told(attr) <=> Target(sio, attr, pin) \in regs
  BY <1>1, <1>4, <1>5, <1>6 DEF BitsOK, BitOK
<1>7. ASSUME NEW x \in Told(attr)
      PROVE  \E pin \in Nat :
               /\ HasPin(sio, attr, pin) /\ pin \div 10 \in Legible(sio, attr)
               /\ x = Shown(attr, pin)
  <2>1. <<attr, x, 1>> \in want /\ x[1] \in Legible(sio, attr)
    BY <1>4, <1>7
  <2>2. PICK pin \in Nat, cmd \in 0 .. 1, at \in Attrs :
               HasPin(sio, at, pin)
                 /\ <<attr, x, 1>> = <<at, Shown(at, pin), cmd>>
    BY <1>1, <2>1 DEF WantOK
  <2>3. at = attr /\ x = Shown(attr, pin)
    BY <2>2
  <2> QED
    BY <1>5, <2>1, <2>2, <2>3
<1> QED
  BY <1>6, <1>7

(* What a finished show has printed of the legible ports.                  *)
LEMMA PrintedIs ==
  ASSUME TypeOK, Good, KindOK, StoredOK, sio \in Chips, ShowsOK,
         NEW u \in Users, pc[u] = "done", op[u].kind = "show"
  PROVE  { x \in seen[u] : x[1] \in Legible(sio, op[u].attr) }
           = Told(op[u].attr)
<1> DEFINE attr == op[u].attr
           printed == { x \in seen[u] : x[1] \in Legible(sio, attr) }
<1>1. attr \in Attrs
  BY DEF TypeOK, Callers
<1>2. IF attr = "select" THEN SelectOK(u) ELSE PortsOK(u)
  BY DEF ShowsOK, UserOK
<1>3. \A p \in Legible(sio, attr) : p \in DOMAIN SetLayout(sio) /\ p \in 0 .. 9
  BY LayoutApart DEF Legible, Apart
<1>4. ASSUME NEW pin \in Nat, HasPin(sio, attr, pin),
             pin \div 10 \in Legible(sio, attr)
      PROVE  Shown(attr, pin) \in seen[u] <=> Target(sio, attr, pin) \in regs
  <2> DEFINE p == pin \div 10
  <2>1. CASE attr = "select"
    <3>1. Shown(attr, pin) = <<p>>
      BY <2>1 DEF Shown
    <3>2. Target(sio, attr, pin)
            = <<SelectBit(sio, p)[1], USE_SEL, SelectBit(sio, p)[2]>>
      BY <1>1, <1>4, <2>1, TargetIs
    <3>3. p \in Legible(sio, "select")
      BY <1>4, <2>1
    <3> HIDE DEF p
    <3> QED
      BY <1>2, <2>1, <3>1, <3>2, <3>3 DEF SelectOK
  <2>2. CASE attr # "select"
    <3> DEFINE b == pin % 10
    <3>1. Shown(attr, pin) = <<p, b>> /\ b \in 0 .. 7
      BY <1>1, <1>4, <2>2, PinPort DEF Shown
    <3>2. Target(sio, attr, pin)
            = <<Register(sio, attr, p)[1], Register(sio, attr, p)[2], b>>
      BY <1>1, <1>4, <2>2, TargetIs
    <3>3. Past(u, p) /\ p \in Legible(sio, attr)
      BY <1>4 DEF Past
    <3> HIDE DEF p, b
    <3> QED
      BY <1>2, <2>2, <3>1, <3>2, <3>3 DEF PortsOK
  <2> QED
    BY <2>1, <2>2
<1>5. ASSUME NEW x \in printed
      PROVE  \E pin \in Nat :
               /\ HasPin(sio, attr, pin) /\ pin \div 10 \in Legible(sio, attr)
               /\ x = Shown(attr, pin)
  <2>1. x \in seen[u] /\ x[1] \in Legible(sio, attr)
    BY <1>5
  <2>2. x[1] \in DOMAIN SetLayout(sio) /\ x[1] \in 0 .. 9
    BY <1>3, <2>1
  <2>3. CASE attr = "select"
    <3> DEFINE pin == 10 * x[1]
    <3>1. x = <<x[1]>>
      BY <1>2, <2>1, <2>3 DEF SelectOK
    <3>2. pin \in Nat /\ pin \div 10 = x[1]
      BY <2>2
    <3>3. HasPin(sio, attr, pin) /\ x = Shown(attr, pin)
      BY <2>2, <2>3, <3>1, <3>2 DEF HasPin, Shown
    <3> QED
      BY <2>1, <3>2, <3>3
  <2>4. CASE attr # "select"
    <3> DEFINE pin == 10 * x[1] + x[2]
    <3>1. x \in Nat \X (0 .. 7)
      BY <1>2, <2>1, <2>4 DEF PortsOK
    <3>2. x = <<x[1], x[2]>> /\ x[2] \in 0 .. 7
      BY <3>1
    <3>3. pin \in Nat /\ pin \div 10 = x[1] /\ pin % 10 = x[2]
      BY <2>2, <3>2
    <3>4. HasPin(sio, attr, pin) /\ x = Shown(attr, pin)
      BY <2>2, <2>4, <3>2, <3>3 DEF HasPin, Shown
    <3> QED
      BY <2>1, <3>3, <3>4
  <2> QED
    BY <2>3, <2>4
<1>6. \A pin : Shown(attr, pin)[1] = pin \div 10
  BY DEF Shown
<1>7. ASSUME NEW x
      PROVE  x \in printed <=> x \in Told(attr)
  <2> HIDE DEF attr
  <2>1. ASSUME NEW pin \in Nat, HasPin(sio, attr, pin),
               pin \div 10 \in Legible(sio, attr), x = Shown(attr, pin)
        PROVE  x \in printed <=> x \in Told(attr)
    BY <1>1, <1>4, <1>6, <2>1, ToldIs
  <2>2. x \in printed \/ x \in Told(attr) =>
          \E pin \in Nat :
            /\ HasPin(sio, attr, pin) /\ pin \div 10 \in Legible(sio, attr)
            /\ x = Shown(attr, pin)
    BY <1>1, <1>5, ToldIs
  <2> QED
    BY <2>1, <2>2
<1> HIDE DEF printed
<1>8. printed = Told(attr)
  BY <1>7
<1> QED
  BY <1>8 DEF printed

(* The invariant behind Displayed, inductive along with IInv.              *)
ShowInv == KindOK /\ PinOK /\ StoredOK /\ ShowsOK

(* A show says of every legible port what the stores have asked for: the   *)
(* stores and the registers agree (StoredOK), and so do the registers and  *)
(* what has been printed (ShowsOK), as nobody writes during a show         *)
(* (nuvoton_main.c:148).                                                   *)
THEOREM DisplayedCorrect == Spec => []Displayed
<1>1. Init => ShowInv
  <2> SUFFICES ASSUME Init PROVE ShowInv
    OBVIOUS
  <2>1. KindOK /\ PinOK
    BY DEF Init, KindOK, PinOK, InMode, Callers
  <2>2. StoredOK
    <3>1. ASSUME NEW pin \in Nat, NEW attr \in Attrs PROVE BitOK(attr, pin)
      BY DEF Init, BitOK
    <3>2. BitsOK
      BY <3>1 DEF BitsOK
    <3> QED
      BY <3>2 DEF Init, StoredOK, WantOK, RegsOK
  <2>3. ShowsOK
    BY DEF Init, ShowsOK, UserOK, InMode, Callers
  <2> QED
    BY <2>1, <2>2, <2>3 DEF ShowInv
<1>2. IInv /\ ShowInv /\ [Next]_vars => ShowInv'
  BY KindStep, PinStep, StoredStep, ShowsStep DEF IInv, ShowInv
<1>3. IInv /\ ShowInv => Displayed
  <2> SUFFICES ASSUME IInv, ShowInv, NEW u \in Users, pc[u] = "done",
                      op[u].kind = "show", Good
               PROVE  { x \in seen[u] : x[1] \in Legible(sio, op[u].attr) }
                        = Told(op[u].attr)
    BY DEF Displayed, Good, Legible, Told
  <2>1. sio \in Chips
    BY DEF IInv, CallsOK, Callers
  <2> QED
    BY <2>1, PrintedIs DEF IInv, ShowInv
<1> QED
  BY <1>1, <1>2, <1>3, DriverCorrect, PTL DEF Spec
=============================================================================
