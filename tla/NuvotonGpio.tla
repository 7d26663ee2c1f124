----------------------------- MODULE NuvotonGpio -----------------------------
(***************************************************************************)
(* The Linux driver gpio-nuvoton 1.9.3: GPIO pins of seven Super I/O chips *)
(* behind one index/data port pair. Everybody who touches a register first *)
(* enters the chip's extended function mode, selects a logical device, and *)
(* leaves the mode again; the mode and the selected device are shared by   *)
(* the whole machine.                                                      *)
(* Users read and write the sysfs attributes, which reserve the port with  *)
(* request_region(). Clients are kernel modules that call the exported     *)
(* cw_gpio_*() functions, which reserve nothing.                           *)
(* A pin is a number 10 * port + bit. A register is <<device, number>> and *)
(* holds a set of bits; those set before the driver was loaded are left    *)
(* out. Abstracted: attribute text, the index register, printk.            *)
(***************************************************************************)
EXTENDS Integers, FiniteSets, Sequences

CONSTANTS Users,    \* processes that use the attributes in sysfs
          Clients,  \* kernel modules that call the exported functions
          Boards,   \* chips of the boards, as indices of sio_device_tbl,
                    \* or Unlisted
          Pins,     \* pins that are written
          MaxOps    \* bound: calls in a behaviour

Unlisted == 7       \* a chip that sio_device_tbl does not have

VARIABLES board,    \* the chip, and whether its monitor has an I/O address
          sio,      \* g_priv.sio_priv_index, -1 while not loaded
          regs,     \* bits that are set: <<device, number, bit>>
          ext,      \* 1 in extended function mode
          dev,      \* logical device selected in the chip
          region,   \* who has reserved the port EFER, or "free"
          pc, op,   \* where each caller is, and in which call
          val,      \* bits in its local variable val
          seen,     \* what its show has printed: <<port, bit>>, or <<port>>
          want,     \* history: the last store of each pin and attribute
          harm,     \* history: see Raced, Enter, GetPort, Load
          ops

vars == <<board, sio, regs, ext, dev, region, pc, op, val, seen, want, harm,
          ops>>
chip == <<regs, ext, dev>>

NoCall == [kind |-> "show", attr |-> "output", pin |-> 0, cmd |-> 0]
Callers == Users \cup Clients
Attrs == {"select", "direction", "output", "inverse"}
Free == "free"

ASSUME DriverAssumption ==
  /\ Users \cap Clients = {} /\ Free \notin Callers
  /\ Boards \subseteq 0 .. Unlisted
  /\ Pins \subseteq Nat
  /\ MaxOps \in Nat
-----------------------------------------------------------------------------
(* The chips. A layout maps a port to its device and base register.        *)

USE_SEL == 48       \* GPIO_USE_SEL
Offset == [direction |-> 0, output |-> 1, inverse |-> 2]

Wide == << <<8, 224>>, <<8, 240>>, <<9, 224>>, <<9, 228>>, <<9, 240>>,
           <<9, 244>>, <<7, 244>>, <<7, 224>>, <<7, 228>>, <<7, 232>> >>

(* Layouts that the setters use...                                         *)
nct6775f_set == [p \in 0 .. 9 |-> Wide[p + 1]]
nct6776f_set == [p \in 0 .. 9 |-> Wide[p + 1]]
nct6779d_set == [p \in 0 .. 8 |-> Wide[p + 1]]
nct6104d_set == [p \in 0 .. 7 |-> <<7, 224 + 4 * p>>]
nct6116d_set == [p \in 0 .. 8 |-> IF p = 8 THEN <<9, 240>>
                                           ELSE <<7, 224 + 4 * p>>]
nct6796d_set == [p \in 0 .. 8 |-> Wide[p + 1]]
nct5581d_set == [p \in {2, 3, 5, 7, 8} |-> Wide[p + 1]]

(* ... and the getters, each with switch tables of its own. The NCT6116D   *)
(* takes the base of port 7 for the inversion of port 8.                   *)
nct6775f_get(attr) == nct6775f_set
nct6776f_get(attr) == nct6776f_set
nct6779d_get(attr) == nct6779d_set
nct6104d_get(attr) == nct6104d_set
nct6116d_get(attr) ==
  IF attr = "inverse" THEN [nct6116d_set EXCEPT ![8] = <<9, 252>>]
                      ELSE nct6116d_set
nct6796d_get(attr) == nct6796d_set
nct5581d_get(attr) == nct5581d_set

(* Bug for a mutant: port 0 is not moved to bit 2.                         *)
nct6775f_sel_straight(p) == IF p \in 2 .. 5 THEN <<9, p - 2>>
                            ELSE IF p < 2 THEN <<8, p>> ELSE <<7, p - 5>>

(* Device and bit of register USE_SEL that enable a port. The last branch  *)
(* of NCT6775F and NCT6796D is taken by every other port: its condition is *)
(* port >= 6 || port <= 9. The NCT6796D computes a bit for ports 0 and 1   *)
(* and then uses another variable.                                         *)
nct6775f_sel(p) == CASE p \in 2 .. 5 -> <<9, p - 2>>
                     [] p = 0        -> <<8, 2>>
                     [] p = 1        -> <<8, 1>>
                     [] OTHER        -> <<7, p - 5>>
nct6776f_sel(p) == CASE p \in 1 .. 7 -> <<9, p>>
                     [] p = 0        -> <<8, 1>>
                     [] OTHER        -> <<7, p - 8>>
nct6779d_sel(p) == CASE p \in 1 .. 7 -> <<9, p>>
                     [] p = 0        -> <<8, 1>>
                     [] OTHER        -> <<9, 0>>
nct6104d_sel(p) == <<9, p>>
nct6116d_sel(p) == IF p = 8 THEN <<9, 0>> ELSE <<7, p>>
nct6796d_sel(p) == CASE p \in 2 .. 5 -> <<9, p - 2>>
                     [] p \in 0 .. 1 -> <<8, 0>>
                     [] OTHER        -> <<7, p - 6>>
nct5581d_sel(p) == IF p \in 2 .. 5 THEN <<9, p - 2>> ELSE <<7, p - 6>>

(* The device whose USE_SEL get_select(p) reads.                           *)
nct6775f_ld(p) == CASE p \in 0 .. 1 -> 8 [] p \in 2 .. 5 -> 9 [] OTHER -> 7
nct6776f_ld(p) == CASE p = 0 -> 8 [] p \in 1 .. 7 -> 9 [] OTHER -> 7
nct6779d_ld(p) == IF p = 0 THEN 8 ELSE 9
nct6104d_ld(p) == 7
nct6116d_ld(p) == IF p = 8 THEN 9 ELSE 7
nct6796d_ld(p) == CASE p \in 0 .. 1 -> 8 [] p \in 2 .. 5 -> 9 [] OTHER -> 7
nct5581d_ld(p) == IF p \in {2, 3, 5} THEN 9 ELSE 7

(* The tables as the operations in g_priv.ops reach them.                  *)
SetLayout(s) == << nct6775f_set, nct6776f_set, nct6779d_set, nct6104d_set,
                   nct6116d_set, nct6796d_set, nct5581d_set >>[s + 1]
GetLayout(s, attr) ==
  << nct6775f_get(attr), nct6776f_get(attr), nct6779d_get(attr),
     nct6104d_get(attr), nct6116d_get(attr), nct6796d_get(attr),
     nct5581d_get(attr) >>[s + 1]
SelectBit(s, p) == CASE s = 0 -> nct6775f_sel(p) [] s = 1 -> nct6776f_sel(p)
                     [] s = 2 -> nct6779d_sel(p) [] s = 3 -> nct6104d_sel(p)
                     [] s = 4 -> nct6116d_sel(p) [] s = 5 -> nct6796d_sel(p)
                     [] OTHER -> nct5581d_sel(p)
SelectDevice(s, p) == CASE s = 0 -> nct6775f_ld(p) [] s = 1 -> nct6776f_ld(p)
                        [] s = 2 -> nct6779d_ld(p) [] s = 3 -> nct6104d_ld(p)
                        [] s = 4 -> nct6116d_ld(p) [] s = 5 -> nct6796d_ld(p)
                        [] OTHER -> nct5581d_ld(p)

(* sio_device_tbl[s].ports, the last port of a show.                       *)
Ports(s) == << 9, 9, 8, 7, 8, 9, 8 >>[s + 1]

(* The number of a port is an u8 for select and direction.                 *)
Port(attr, pin) == IF attr \in {"select", "direction"}
                   THEN (pin \div 10) % 256 ELSE pin \div 10

(* The range check of a setter.                                            *)
Accepts(s, attr, pin) ==
  \/ /\ Port(attr, pin) \in DOMAIN SetLayout(s)
     /\ attr = "select" \/ pin % 10 < 8
  \/ attr = "select" /\ s \in {0, 5}

(* Where a setter writes: device, register, bit.                           *)
Target(s, attr, pin) ==
  LET p == Port(attr, pin) IN
  IF attr = "select"
  THEN << SelectBit(s, p)[1], USE_SEL, SelectBit(s, p)[2] >>
  ELSE << SetLayout(s)[p][1], SetLayout(s)[p][2] + Offset[attr], pin % 10 >>

(* What the chip has, and how a pin is named in the text of a show.        *)
HasPin(s, attr, pin) == /\ pin \div 10 \in DOMAIN SetLayout(s)
                        /\ attr # "select" => pin % 10 < 8
Shown(attr, pin) == IF attr = "select" THEN << pin \div 10 >>
                                       ELSE << pin \div 10, pin % 10 >>

Bits(ld, reg) == { b \in 0 .. 7 : << ld, reg, b >> \in regs }

(* What nuvoton_gpio_sysfs_show() puts together for select: triples of the *)
(* port asked for, the bit, and the port it is shown as.                   *)
SelectShow(s) ==
  LET run(p, bits, d) == { << p, b, b + d >> : b \in bits } IN
  CASE s = 0 -> run(6, 1 .. 4, 5) \cup run(2, 0 .. 3, 2)
                \cup {<< 0, 2, 0 >>, << 0, 1, 1 >>}
    [] s = 1 -> run(8, 0 .. 1, 8) \cup run(1, 1 .. 7, 0) \cup {<< 0, 1, 0 >>}
    [] s = 2 -> run(8, {0}, 8) \cup run(7, 1 .. 7, 0) \cup {<< 0, 1, 0 >>}
    [] s = 3 -> run(7, 0 .. 7, 0)
    [] s = 4 -> run(8, 0 .. 7, 8) \cup run(0, 0 .. 7, 0)
    [] s = 5 -> {<< 0, 1, 0 >>, << 7, 7, 0 >>} \cup run(2, 0 .. 3, 2)
                \cup run(0, 0 .. 2, 6)
    [] OTHER -> run(7, 0 .. 7, 6) \cup run(2, 0 .. 7, 2)
-----------------------------------------------------------------------------
Init ==
  /\ board \in Boards \X {1} \cup (Boards \cap {5, 6}) \X {0}
  /\ sio = -1
  /\ regs = {} /\ ext = 0 /\ dev = 7
  /\ region = Free
  /\ pc = [a \in Callers |-> "idle"]
  /\ op = [a \in Callers |-> NoCall]
  /\ val = [a \in Callers |-> {}]
  /\ seen = [a \in Callers |-> {}]
  /\ want = {}
  /\ harm = {}
  /\ ops = 0

Inside(a) == pc[a] \notin {"idle", "request"}
Overlap(a) == \E b \in Callers \ {a} : Inside(b)
Raced(a) == IF Overlap(a) THEN harm \cup {"raced"} ELSE harm

(* Bug for a mutant: the loop leaves the index at the sentinel row.        *)
nuvoton_match_sentinel ==
  IF board[1] \in 0 .. 4 THEN {board[1]} ELSE {Unlisted}

(* nuvoton_gpio_init(): the index stays 0 for a device id that is not in   *)
(* the table. NCT6796D and NCT5581D share an id and are told apart by a    *)
(* register of the monitor; without its address any bits may be read.      *)
nuvoton_match ==
  CASE board[1] \in {5, 6} /\ board[2] = 1 -> {board[1]}
    [] board[1] \in {5, 6} /\ board[2] = 0 -> {5, 6}
    [] board[1] \in 0 .. 4 -> {board[1]}
    [] OTHER -> {0}

Load ==
  /\ sio = -1
  /\ sio' \in nuvoton_match
  /\ ext' = 0
  /\ harm' = IF board[2] = 0 THEN harm \cup {"guessed"} ELSE harm
  /\ UNCHANGED << board, regs, dev, region, pc, op, val, seen, want, ops >>

Unload ==
  /\ sio # -1
  /\ \A a \in Callers : pc[a] = "idle"
  /\ sio' = -1
  /\ UNCHANGED << board, chip, region, pc, op, val, seen, want, harm, ops >>

Call(a, kind, attr, pin, cmd, at) ==
  /\ sio # -1 /\ ops < MaxOps /\ pc[a] = "idle"
  /\ op' = [op EXCEPT ![a] = [kind |-> kind, attr |-> attr,
                              pin |-> pin, cmd |-> cmd]]
  /\ pc' = [pc EXCEPT ![a] = at]
  /\ ops' = ops + 1
  /\ UNCHANGED << board, sio, chip, region, val, seen, want >>

(* A write to an attribute. Text that sscanf() cannot read leaves pin and  *)
(* cmd as they were on the stack: any values.                              *)
Store(u) == /\ \E attr \in Attrs, pin \in Pins, cmd \in 0 .. 1 :
                  Call(u, "store", attr, pin, cmd, "request")
            /\ UNCHANGED harm

(* A read of an attribute; input prints what output prints.                *)
Show(u) == /\ \E attr \in Attrs :
                 Call(u, "show", attr, IF sio = 6 THEN 2 ELSE 0, 0, "request")
           /\ UNCHANGED harm

(* cw_gpio_set_value_by_nctsio() and its three companions.                 *)
ClientSet(c) == /\ \E attr \in {"direction", "output"}, pin \in Pins,
                      cmd \in 0 .. 1 : Call(c, "store", attr, pin, cmd, "enter")
                /\ harm' = Raced(c)
ClientGet(c) == /\ \E attr \in {"direction", "output"}, pin \in Pins :
                      Call(c, "get", attr, pin \div 10, 0, "get")
                /\ harm' = Raced(c)

(* request_io_port(): up to 6500 attempts.                                 *)
Request(u) ==
  /\ pc[u] = "request" /\ region = Free
  /\ region' = u
  /\ pc' = [pc EXCEPT ![u] = IF op[u].kind = "store" THEN "enter" ELSE "show"]
  /\ harm' = Raced(u)
  /\ UNCHANGED << board, sio, chip, op, val, seen, want, ops >>

(* Bug for a mutant: the result of request_io_port() is not looked at.     *)
RequestFails_ignored(u) ==
  /\ pc[u] = "request" /\ region # Free
  /\ pc' = [pc EXCEPT ![u] = IF op[u].kind = "store" THEN "enter" ELSE "show"]
  /\ UNCHANGED << board, sio, chip, region, op, val, seen, want, harm, ops >>

RequestFails(u) ==
  /\ pc[u] = "request" /\ region # Free
  /\ pc' = [pc EXCEPT ![u] = "idle"]
  /\ op' = [op EXCEPT ![u] = NoCall]
  /\ UNCHANGED << board, sio, chip, region, val, seen, want, harm, ops >>

(* A setter: enter the mode, select the device, read, write, leave.        *)
Step(a, from, to) == pc[a] = from /\ pc' = [pc EXCEPT ![a] = to]
Where(a) == Target(sio, op[a].attr, op[a].pin)

Ignore(a) ==
  /\ Step(a, "enter", "done")
  /\ ~Accepts(sio, op[a].attr, op[a].pin)
  /\ UNCHANGED << board, sio, chip, region, op, val, seen, want, harm, ops >>

Enter(a) ==
  /\ Step(a, "enter", "access")
  /\ Accepts(sio, op[a].attr, op[a].pin)
  /\ ext' = 1
  /\ harm' = IF HasPin(sio, op[a].attr, op[a].pin) THEN harm
             ELSE harm \cup {"stray"}
  /\ UNCHANGED << board, sio, regs, dev, region, op, val, seen, want, ops >>

AccessDevice(a) ==
  /\ Step(a, "access", "read")
  /\ dev' = IF ext = 1 THEN Where(a)[1] ELSE dev
  /\ UNCHANGED << board, sio, regs, ext, region, op, val, seen, want, harm,
                  ops >>

(* Bug for a mutant: the register is read without the attribute's offset.  *)
Read_base(a) ==
  /\ Step(a, "read", "write")
  /\ val' = [val EXCEPT ![a] = IF ext = 0 THEN 0 .. 7
       ELSE IF op[a].attr = "select" THEN Bits(dev, Where(a)[2])
       ELSE Bits(dev, Where(a)[2] - Offset[op[a].attr])]
  /\ UNCHANGED << board, sio, chip, region, op, seen, want, harm, ops >>

(* Out of the mode the port pair does not reach the chip: reads give ones. *)
Read(a) ==
  /\ Step(a, "read", "write")
  /\ val' = [val EXCEPT ![a] = IF ext = 1 THEN Bits(dev, Where(a)[2])
                                          ELSE 0 .. 7]
  /\ UNCHANGED << board, sio, chip, region, op, seen, want, harm, ops >>

(* set_bit() or clear_bit() on val, and the write back. A bit beyond the   *)
(* eighth changes val alone.                                               *)
Modified(a) == IF op[a].cmd = 1 THEN val[a] \cup ({Where(a)[3]} \cap (0 .. 7))
                                ELSE val[a] \ {Where(a)[3]}
Wanted(a) == Shown(op[a].attr, op[a].pin)

Write(a) ==
  /\ Step(a, "write", "leave")
  /\ regs' = IF ext = 0 THEN regs
             ELSE { r \in regs : << r[1], r[2] >> # << dev, Where(a)[2] >> }
                  \cup { << dev, Where(a)[2], b >> : b \in Modified(a) }
  /\ want' = { w \in want : << w[1], w[2] >> # << op[a].attr, Wanted(a) >> }
             \cup { << op[a].attr, Wanted(a), op[a].cmd >> }
  /\ UNCHANGED << board, sio, ext, dev, region, op, val, seen, harm, ops >>

(* Bug for a mutant: the mode is not left.                                 *)
Leave_not(a) ==
  /\ Step(a, "leave", "done")
  /\ UNCHANGED << board, sio, chip, region, op, val, seen, want, harm, ops >>

Leave(a) ==
  /\ Step(a, "leave", "done")
  /\ ext' = 0
  /\ UNCHANGED << board, sio, regs, dev, region, op, val, seen, want, harm,
                  ops >>

(* A getter. It returns -1 for a port without a register, and does not     *)
(* leave the mode then.                                                    *)
GetPort(a, p) ==
  LET get == GetLayout(sio, op[a].attr)
      reg == get[p][2] + Offset[op[a].attr] IN
  IF p \in DOMAIN get
  THEN /\ ext' = 0 /\ dev' = get[p][1]
       /\ seen' = [seen EXCEPT ![a] =
                     @ \cup { << p, b >> : b \in Bits(get[p][1], reg) }]
       /\ UNCHANGED harm
  ELSE /\ ext' = 1 /\ UNCHANGED dev
       /\ seen' = [seen EXCEPT ![a] = @ \cup { << p, b >> : b \in 0 .. 7 }]
       /\ harm' = harm \cup {"missing"}

NextPort(s, p) == IF s = 6 /\ p \in {3, 5} THEN p + 2 ELSE p + 1

ShowPort(u) ==
  /\ pc[u] = "show" /\ op[u].attr # "select"
  /\ GetPort(u, op[u].pin)
  /\ IF NextPort(sio, op[u].pin) <= Ports(sio)
     THEN op' = [op EXCEPT ![u].pin = NextPort(sio, @)] /\ UNCHANGED pc
     ELSE Step(u, "show", "done") /\ UNCHANGED op
  /\ UNCHANGED << board, sio, regs, region, val, want, ops >>

(* The order of the reads of one expression is the compiler's.             *)
ShowSelect(u) ==
  /\ Step(u, "show", "done") /\ op[u].attr = "select"
  /\ ext' = 0
  /\ dev' \in { SelectDevice(sio, t[1]) : t \in SelectShow(sio) }
  /\ LET set(t) == << SelectDevice(sio, t[1]), USE_SEL, t[2] >> \in regs
     IN seen' = [seen EXCEPT ![u] =
                   { << t[3] >> : t \in { t \in SelectShow(sio) : set(t) } }]
  /\ UNCHANGED << board, sio, regs, region, op, val, want, harm, ops >>

Get(c) ==
  /\ Step(c, "get", "done")
  /\ GetPort(c, op[c].pin)
  /\ UNCHANGED << board, sio, regs, region, op, val, want, ops >>

(* release_region() and the return.                                        *)
Finish(a) ==
  /\ Step(a, "done", "idle")
  /\ region' = IF a \in Users THEN Free ELSE region
  /\ op' = [op EXCEPT ![a] = NoCall]
  /\ val' = [val EXCEPT ![a] = {}]
  /\ seen' = [seen EXCEPT ![a] = {}]
  /\ UNCHANGED << board, sio, chip, want, harm, ops >>

Setter(a) == \/ Ignore(a) \/ Enter(a) \/ AccessDevice(a) \/ Read(a)
             \/ Write(a) \/ Leave(a) \/ Finish(a)
User(u) == \/ Store(u) \/ Show(u) \/ Request(u) \/ RequestFails(u)
           \/ ShowPort(u) \/ ShowSelect(u)
Client(c) == ClientSet(c) \/ ClientGet(c) \/ Get(c)

Next == \/ Load \/ Unload
        \/ \E a \in Callers : Setter(a)
        \/ \E u \in Users : User(u)
        \/ \E c \in Clients : Client(c)

Spec == Init /\ [][Next]_vars
-----------------------------------------------------------------------------
(* Types of the variables.                                                 *)
TypeOK ==
  /\ board \in Boards \X {0, 1}
  /\ sio \in -1 .. 6
  /\ regs \subseteq (7 .. 9) \X Nat \X (0 .. 7)
  /\ ext \in 0 .. 1 /\ dev \in 7 .. 9
  /\ region \in Users \cup {Free}
  /\ pc \in [Callers -> {"idle", "request", "enter", "access", "read",
                         "write", "leave", "show", "get", "done"}]
  /\ op \in [Callers -> [kind : {"store", "show", "get"}, attr : Attrs,
                         pin : Nat, cmd : 0 .. 1]]
  /\ val \in [Callers -> SUBSET (0 .. 7)]
  /\ harm \subseteq {"raced", "stray", "missing", "guessed"}
  /\ ops \in 0 .. MaxOps

(* request_region() keeps the users of sysfs apart, on every path through  *)
(* store and show (nuvoton_main.c:88): two of them are never in the chip.  *)
UsersApart == \A u, v \in Users : Inside(u) /\ Inside(v) => u = v

(* A store changes the bit of its own pin and no other, if no client came  *)
(* in between: its read, modify and write are one (nuvoton_main.c:110).    *)
OneBit ==
  [][ (regs' # regs /\ "raced" \notin harm) =>
        \E a \in Callers : /\ pc[a] = "write"
                           /\ (regs \ regs') \cup (regs' \ regs) = {Where(a)}
    ]_vars

(* The ports for which getters and setters disagree.                       *)
Misread(s, attr) == CASE s = 3 /\ attr = "select"  -> 0 .. 7
                      [] s = 4 /\ attr = "inverse" -> {8}
                      [] s = 5 /\ attr = "select"  -> {0, 1, 6, 7, 8}
                      [] OTHER -> {}

(* show prints a pin as set exactly when the last store for it set it, on  *)
(* all seven chips and for every port but those of Misread, if no client   *)
(* interfered, no store was for a pin the chip does not have and the chip  *)
(* was identified (nuvoton_main.c:148): no setter has a bit in common with *)
(* another, none addresses what the getter does not.                       *)
Displayed ==
  \A u \in Users :
    (/\ pc[u] = "done" /\ op[u].kind = "show"
     /\ harm \cap {"raced", "stray", "guessed"} = {}) =>
      LET attr == op[u].attr
          ports == DOMAIN SetLayout(sio) \ Misread(sio, attr) IN
      { x \in seen[u] : x[1] \in ports } =
        { w[2] : w \in { w \in want : /\ w[1] = attr /\ w[3] = 1
                                     /\ w[2][1] \in ports } }

(* Nobody at work: the port is free and the chip has left the extended     *)
(* function mode, unless a getter was asked for a port that the chip has   *)
(* not (nct6796d.c:366).                                                   *)
Quiet == (\A a \in Callers : pc[a] = "idle") =>
           /\ region = Free
           /\ "missing" \notin harm => ext = 0
=============================================================================
