----------------------------- MODULE MouseProofs -----------------------------
(***************************************************************************)
(* Theorems about module Mouse, for every screen, warm-up, configuration   *)
(* of the firmware and set of packets: the pointer stays on the screen,    *)
(* init_mouse keeps the configuration, and the pointer follows the mouse.  *)
(***************************************************************************)
EXTENDS Mouse, TLAPS

Bytes == 0 .. 255

-----------------------------------------------------------------------------
(* The operators *)

\* The script, spelled out: which step does what.
LEMMA ScriptIs ==
  ASSUME pc \in 1 .. Done
  PROVE  /\ Done = 13
         /\ Doing("enable") <=> pc = 1
         /\ Doing("query") <=> pc = 2
         /\ Doing("status") <=> pc = 3
         /\ Doing("configure") <=> pc = 5
         /\ Doing("read") => pc \in {4, 6, 8, 10, 12}
         /\ Doing("reset") => pc = 7
         /\ Doing("defaults") => pc = 9
         /\ Doing("report") => pc = 11
<1>1. Done = 13
  BY DEF Done, Script
<1>2. /\ Script[1] = "enable" /\ Script[2] = "query" /\ Script[3] = "status"
      /\ Script[4] = "read" /\ Script[5] = "configure" /\ Script[6] = "read"
      /\ Script[7] = "reset" /\ Script[8] = "read" /\ Script[9] = "defaults"
      /\ Script[10] = "read" /\ Script[11] = "report" /\ Script[12] = "read"
  BY DEF Script
<1>3. pc \in 1 .. 13
  BY <1>1
<1> QED
  BY <1>1, <1>2, <1>3 DEF Doing

\* Bits are set and cleared within a byte.
LEMMA BytesStay ==
  ASSUME NEW v \in Bytes
  PROVE  /\ ClearBit(v, 5) \in Bytes
         /\ SetBit(v, 1) \in Bytes
         /\ ClearBit(SetBit(v, 1), 5) \in Bytes
<1>1. \A u \in Bytes : ClearBit(u, 5) \in Bytes
  BY DEF Bytes, ClearBit, Bit
<1>2. SetBit(v, 1) \in Bytes
  BY DEF Bytes, SetBit, Bit
<1> QED
  BY <1>1, <1>2

\* Clearing bit 5 before setting bit 1 makes no difference.
LEMMA ClearedTwice ==
  ASSUME NEW v \in Bytes
  PROVE  ClearBit(SetBit(ClearBit(v, 5), 1), 5) = ClearBit(SetBit(v, 1), 5)
BY DEF Bytes, SetBit, ClearBit, Bit

\* A coordinate that was bounded is on the screen.
LEMMA BoundedInRange ==
  ASSUME NEW v \in Int, NEW limit \in Nat
  PROVE  Bounded(v, limit) \in 0 .. limit
BY DEF Bounded

\* A movement is an integer, as the driver and as the user sees it.
LEMMA MovementIsInt ==
  ASSUME NEW mov \in Bytes, NEW negative \in BOOLEAN
  PROVE  Movement(negative, mov) \in Int /\ Counts(negative, mov) \in Int
BY DEF Movement, Counts, Bytes

\* The places in the framebuffer that are drawn to.
Places == NoPixel .. (fb_height * Pitch - 1)

\* The screen's measures are numbers, and its rows fit the pitch.
LEMMA ScreenIs ==
  /\ fb_width \in Nat /\ fb_height \in Nat /\ Pitch \in Nat
  /\ Pitch >= fb_width /\ fb_height * Pitch \in Nat
BY MouseAssumption

\* A pixel on the screen has its place in the framebuffer.
LEMMA PixelInPlace ==
  ASSUME NEW col \in Nat, NEW row \in Nat, col < fb_width, row < fb_height
  PROVE  row * Pitch + col \in Places
<1>1. row * Pitch + Pitch = (row + 1) * Pitch
  BY ScreenIs
<1>2. (row + 1) * Pitch <= fb_height * Pitch
  BY ScreenIs
<1>3. row * Pitch \in Nat
  BY ScreenIs
<1>4. 0 <= row * Pitch + col
  BY <1>3
<1>5. row * Pitch + col < row * Pitch + Pitch
  BY <1>3, ScreenIs
<1> QED
  BY <1>1, <1>2, <1>3, <1>4, <1>5, ScreenIs DEF Places, NoPixel

-----------------------------------------------------------------------------
(* Types *)

Triples == Bytes \X Bytes \X Bytes

\* What TypeOK says of the driver, the devices and the port.
DriverType ==
  /\ pc \in 1 .. Done /\ ticks \in 0 .. Warmup
  /\ status \in Bytes /\ config \in Bytes /\ original \in Bytes /\ data \in Bytes
  /\ replies \in Seq(Bytes) /\ typed \in Seq(Bytes) /\ moved \in Seq(Bytes)
  /\ obf \in BOOLEAN /\ reporting \in BOOLEAN /\ irq1 \in BOOLEAN
  /\ irq12 \in BOOLEAN /\ disturbed \in BOOLEAN /\ settled \in BOOLEAN

\* Of the packet and the pointer.
PacketType ==
  /\ handler_cycle \in 0 .. 2 /\ current_packet \in Triples
  /\ discard_packet \in BOOLEAN
  /\ x \in 0 .. fb_width /\ y \in 0 .. fb_height /\ drawn \in Places

\* And of what the packets ask for.
WishType == wx \in 0 .. fb_width /\ wy \in 0 .. fb_height /\ wdrawn \in Places

\* The type invariant in three parts: the driver's, the packet's, the user's.
LEMMA TypeParts == TypeOK <=> DriverType /\ PacketType /\ WishType
BY DEF TypeOK, DriverType, PacketType, WishType, Triples, Bytes, Places

\* The same of the next state.
LEMMA TypePartsNext == DriverType' /\ PacketType' /\ WishType' => TypeOK'
BY DEF TypeOK, DriverType, PacketType, WishType, Triples, Bytes, Places

\* The types hold at boot.
LEMMA InitType == Init => TypeOK
<1> SUFFICES ASSUME Init PROVE DriverType /\ PacketType /\ WishType
  BY TypeParts
<1>1. DriverType
  <2>1. Done = 13
    BY ScriptIs DEF Done, Script
  <2>2. config \in Bytes /\ original = config
    BY MouseAssumption DEF Init, Bytes
  <2>3. <<>> \in Seq(Bytes) /\ 0 \in Bytes /\ 0 \in 0 .. Warmup
    BY MouseAssumption DEF Bytes
  <2>4. pc = 1 /\ status = 0 /\ ticks = 0 /\ data = 0
    BY DEF Init
  <2>5. replies = <<>> /\ typed = <<>> /\ moved = <<>>
    BY DEF Init
  <2>6. /\ obf = FALSE /\ reporting = FALSE /\ irq1 = FALSE
        /\ irq12 = FALSE /\ disturbed = FALSE /\ settled = FALSE
    BY DEF Init
  <2> QED
    <3>1. /\ pc \in 1 .. Done /\ ticks \in 0 .. Warmup
          /\ status \in Bytes /\ config \in Bytes /\ original \in Bytes /\ data \in Bytes
       BY <2>1, <2>2, <2>3, <2>4
    <3>2. replies \in Seq(Bytes) /\ typed \in Seq(Bytes) /\ moved \in Seq(Bytes)
       BY <2>3, <2>5
    <3> QED
       BY <2>6, <3>1, <3>2 DEF DriverType
<1>2. /\ fb_width \div 2 \in 0 .. fb_width
      /\ fb_height \div 2 \in 0 .. fb_height
      /\ NoPixel \in Places
  <2>1. ASSUME NEW n \in Nat PROVE n \div 2 \in 0 .. n
    OBVIOUS
  <2> QED
    BY <2>1, ScreenIs DEF Places, NoPixel
<1>3. PacketType /\ WishType
  <2>1. <<0, 0, 0>> \in Triples
    BY DEF Triples, Bytes
  <2>2. /\ handler_cycle = 0 /\ current_packet = <<0, 0, 0>> /\ discard_packet = FALSE
        /\ x = fb_width \div 2 /\ y = fb_height \div 2 /\ drawn = NoPixel
        /\ wx = x /\ wy = y /\ wdrawn = drawn
    BY DEF Init
  <2> QED
    <3>1. /\ handler_cycle \in 0 .. 2 /\ current_packet \in Triples
          /\ x \in 0 .. fb_width /\ y \in 0 .. fb_height /\ drawn \in Places
          /\ wx \in 0 .. fb_width /\ wy \in 0 .. fb_height /\ wdrawn \in Places
      BY <1>2, <2>1, <2>2
    <3> QED
      BY <2>2, <3>1 DEF PacketType, WishType
<1> QED
  BY <1>1, <1>3

\* init_mouse's steps.
LEMMA DriverSteps ==
  ASSUME DriverType, Command \/ Read, settled' \in BOOLEAN
  PROVE  DriverType' /\ packet' = packet
<1>1. /\ Done = 13 /\ pc \in 1 .. 13
  BY ScriptIs DEF DriverType
<1>2. CASE Enable /\ UNCHANGED <<ticks, packet, port, irq1, irq12, original, disturbed>>
  <2>1. pc = 1 /\ ClearBit(config, 5) \in Bytes
    BY <1>2, ScriptIs, BytesStay DEF DriverType, Enable
  <2> QED
    BY <1>1, <1>2, <2>1 DEF DriverType, Enable, Advance, devices, port
<1>3. CASE Query /\ UNCHANGED <<ticks, packet, port, irq1, irq12, original, disturbed>>
  <2>1. pc = 2 /\ Append(replies, config) \in Seq(Bytes)
    BY <1>3, ScriptIs DEF DriverType, Query
  <2> QED
    BY <1>1, <1>3, <2>1 DEF DriverType, Query, Advance, port, packet
<1>4. CASE Configure /\ UNCHANGED <<ticks, packet, port, irq1, irq12, original, disturbed>>
  <2>1. pc = 5 /\ ClearBit(SetBit(status, 1), 5) \in Bytes
    BY <1>4, ScriptIs, BytesStay DEF DriverType, Configure
  <2> QED
    BY <1>1, <1>4, <2>1 DEF DriverType, Configure, Advance, devices, port
<1>5. ASSUME NEW op \in {"reset", "defaults", "report"},
             NEW bytes \in Seq(Bytes), NEW on \in BOOLEAN,
             MouseCommand(op, bytes, on),
             UNCHANGED <<ticks, packet, port, irq1, irq12, original, disturbed>>
      PROVE  DriverType' /\ packet' = packet
  <2>1. pc \in {7, 9, 11}
    BY <1>5, ScriptIs DEF DriverType, MouseCommand
  <2>2. moved \o bytes \in Seq(Bytes)
    BY <1>5 DEF DriverType
  <2> QED
    <3>1. pc' \in 1 .. 13 /\ status' = status /\ moved' \in Seq(Bytes) /\ reporting' \in BOOLEAN
      <4>1. pc' = pc + 1 /\ status' = status
        BY <1>5 DEF MouseCommand, Advance
      <4>2. moved' = moved \o bytes \/ moved' = moved
        BY <1>5 DEF MouseCommand
      <4>3. reporting' = on \/ reporting' = reporting
        BY <1>5 DEF MouseCommand
      <4>4. reporting' \in BOOLEAN
        BY <1>5, <4>3 DEF DriverType
      <4>5. moved' \in Seq(Bytes)
        BY <2>2, <4>2 DEF DriverType
      <4> QED
        BY <1>1, <2>1, <4>1, <4>4, <4>5
    <3> QED
      BY <1>1, <1>5, <3>1 DEF DriverType, MouseCommand, port
<1>6. <<Ack, 170, 0>> \in Seq(Bytes) /\ <<Ack>> \in Seq(Bytes)
  BY DEF Ack, Bytes
<1>7. CASE Read
  <2>1. pc \in 1 .. 12
    BY <1>7, ScriptIs DEF DriverType, Read
  <2> QED
    <3>1. pc' \in 1 .. 13 /\ status' \in Bytes /\ obf' = FALSE
      BY <1>7, <2>1 DEF DriverType, Read
    <3> QED
      BY <1>1, <1>7, <3>1 DEF DriverType, Read, devices
<1>8. CASE Command
  BY <1>2, <1>3, <1>4, <1>5, <1>6, <1>8 DEF Command
<1> QED
  BY <1>7, <1>8

\* Bytes are passed on.
LEMMA DeviceSteps ==
  ASSUME DriverType, settled' \in BOOLEAN,
         \/ Transfer \/ KeyPress \/ Tick \/ KeyboardIrq
         \/ \E p \in Packets : MouseMoves(p)
  PROVE  DriverType' /\ packet' = packet
<1>1. ASSUME NEW s \in Seq(Bytes), s # <<>>
      PROVE  Head(s) \in Bytes /\ Tail(s) \in Seq(Bytes)
  BY <1>1
<1>2. CASE Transfer
  BY <1>1, <1>2 DEF Transfer, DriverType, driver
<1>3. CASE KeyPress
  BY <1>3, MouseAssumption DEF KeyPress, DriverType, driver, port, Bytes
<1>4. CASE Tick
  BY <1>4, MouseAssumption DEF Tick, DriverType, driver, port, devices
<1>5. CASE KeyboardIrq
  BY <1>5 DEF KeyboardIrq, DriverType, driver, devices
<1>6. ASSUME NEW p \in Packets, MouseMoves(p)
      PROVE  DriverType' /\ packet' = packet
  <2>1. p \in (0 .. 255) \X (0 .. 255) \X (0 .. 255)
    BY MouseAssumption
  <2>2. p = <<p[1], p[2], p[3]>> /\ p[1] \in Bytes /\ p[2] \in Bytes /\ p[3] \in Bytes
    BY <2>1 DEF Bytes
  <2>3. <<p[1], p[2], p[3]>> \in Seq(Bytes)
    BY <2>2
  <2> QED
    BY <1>6, <2>2, <2>3 DEF MouseMoves, DriverType, driver, port
<1> QED
  BY <1>2, <1>3, <1>4, <1>5, <1>6

\* A byte of the mouse moves the pointer within the screen only.
LEMMA MouseSteps ==
  ASSUME DriverType, PacketType, _mouse_int, settled' \in BOOLEAN
  PROVE  DriverType' /\ PacketType'
<1>1. DriverType'
  BY DEF _mouse_int, DriverType, driver, devices
<1>2. CASE UNCHANGED packet
  <2>1. /\ handler_cycle' \in 0 .. 2 /\ current_packet' \in Triples
        /\ x' \in 0 .. fb_width /\ y' \in 0 .. fb_height /\ drawn' \in Places
    BY <1>2 DEF PacketType, packet
  <2>2. discard_packet' = discard_packet
    BY <1>2 DEF packet
  <2> QED
    BY <1>1, <2>1, <2>2 DEF PacketType
<1>3. data \in Bytes
  BY DEF DriverType
<1>4. CASE FlagsByte(data)
  <2>1. [current_packet EXCEPT ![1] = data] \in Triples
    BY <1>3 DEF PacketType, Triples
  <2>2. handler_cycle' \in 0 .. 2 /\ current_packet' \in Triples
    BY <1>4, <2>1 DEF FlagsByte
  <2>3. discard_packet' \in BOOLEAN
    BY <1>4 DEF FlagsByte, PacketType
  <2>4. x' \in 0 .. fb_width /\ y' \in 0 .. fb_height /\ drawn' \in Places
    BY <1>4 DEF FlagsByte, PacketType
  <2> QED
    BY <1>1, <2>2, <2>3, <2>4 DEF PacketType
<1>5. CASE XByte(data)
  <2>1. [current_packet EXCEPT ![2] = data] \in Triples
    BY <1>3 DEF PacketType, Triples
  <2>2. handler_cycle' \in 0 .. 2 /\ current_packet' \in Triples
    BY <1>5, <2>1 DEF XByte
  <2>3. x' \in 0 .. fb_width /\ y' \in 0 .. fb_height /\ drawn' \in Places
    BY <1>5 DEF XByte, PacketType
  <2>4. discard_packet' \in BOOLEAN
    BY <1>5 DEF XByte, PacketType
  <2> QED
    BY <1>1, <2>2, <2>3, <2>4 DEF PacketType
<1>6. CASE YByte(data)
  <2>1. [current_packet EXCEPT ![3] = data] \in Triples
    BY <1>3 DEF PacketType, Triples
  <2>2. handler_cycle' \in 0 .. 2 /\ current_packet' \in Triples /\ discard_packet' = FALSE
    BY <1>6, <2>1 DEF YByte
  <2>3. x' \in 0 .. fb_width /\ y' \in 0 .. fb_height /\ drawn' \in Places
    <3>1. CASE discard_packet
      BY <1>6, <3>1 DEF YByte, PacketType
    <3>2. CASE ~discard_packet
      <4> DEFINE flags == current_packet[1]
                 dx == Movement(Bit(flags, 4), current_packet[2])
                 dy == Movement(Bit(flags, 5), data)
      <4>1. dx \in Int /\ dy \in Int
        <5>1. current_packet[2] \in Bytes
          BY DEF PacketType, Triples
        <5>2. Bit(flags, 4) \in BOOLEAN /\ Bit(flags, 5) \in BOOLEAN
          BY DEF Bit
        <5> QED
          BY <1>3, <5>1, <5>2, MovementIsInt
      <4>2. /\ x' = Bounded(x + dx, fb_width)
            /\ y' = Bounded(y - dy, fb_height)
            /\ mouse_int(flags)
        BY <1>6, <3>2 DEF YByte
      <4>3. x + dx \in Int /\ y - dy \in Int
        BY <4>1, ScreenIs DEF PacketType
      <4>4. x' \in 0 .. fb_width /\ y' \in 0 .. fb_height
        BY <4>2, <4>3, BoundedInRange, ScreenIs
      <4>5. pixel(x', y', drawn) \in Places
        <5>1. x' \in Nat /\ y' \in Nat
          BY <4>4, ScreenIs
        <5>2. CASE fb_width > x' /\ fb_height > y'
          BY <5>1, <5>2, PixelInPlace, ScreenIs DEF pixel
        <5> QED
          BY <5>2 DEF pixel, PacketType
      <4>6. drawn' \in Places
        BY <4>2, <4>5 DEF mouse_int, PacketType
      <4> QED
        BY <4>4, <4>6
    <3> QED
      BY <3>1, <3>2
  <2>4. discard_packet' \in BOOLEAN
    BY <2>2
  <2>5. handler_cycle' \in 0 .. 2 /\ current_packet' \in Triples
    BY <2>2
  <2> QED
    BY <1>1, <2>3, <2>4, <2>5 DEF PacketType
<1> QED
  BY <1>1, <1>2, <1>4, <1>5, <1>6 DEF _mouse_int

\* The wish is the pointer until everything was quiet, then it is moved by
\* packets.
LEMMA WishSteps ==
  ASSUME TypeOK, PacketType', Next
  PROVE  WishType'
<1>1. PacketType /\ WishType
  BY TypeParts
<1>2. CASE Follow
  BY <1>1, <1>2 DEF Follow, PacketType, WishType
<1>3. ASSUME NEW p \in Packets, settled,
             wx' = Wanted(p, <<wx, wy>>)[1], wy' = Wanted(p, <<wx, wy>>)[2],
             wdrawn' = WantedPixel(p, Wanted(p, <<wx, wy>>))
      PROVE  WishType'
  <2>1. p[1] \in Bytes /\ p[2] \in Bytes /\ p[3] \in Bytes
    BY MouseAssumption DEF Bytes
  <2>2. /\ Counts(Bit(p[1], 4), p[2]) \in Int
        /\ Counts(Bit(p[1], 5), p[3]) \in Int
    <3>1. Bit(p[1], 4) \in BOOLEAN /\ Bit(p[1], 5) \in BOOLEAN
      BY DEF Bit
    <3> QED
      BY <2>1, <3>1, MovementIsInt
  <2>3. /\ Bounded(wx + Counts(Bit(p[1], 4), p[2]), fb_width) \in 0 .. fb_width
        /\ Bounded(wy - Counts(Bit(p[1], 5), p[3]), fb_height) \in 0 .. fb_height
    <3>1. /\ wx + Counts(Bit(p[1], 4), p[2]) \in Int
          /\ wy - Counts(Bit(p[1], 5), p[3]) \in Int
      BY <1>1, <2>2, ScreenIs DEF WishType
    <3> QED
      BY <3>1, BoundedInRange, ScreenIs
  <2>4. wx' \in 0 .. fb_width /\ wy' \in 0 .. fb_height
    BY <1>1, <1>3, <2>3 DEF Wanted, WishType
  <2>5. wdrawn' \in Places
    <3>1. wx' \in Nat /\ wy' \in Nat
      BY <2>4, ScreenIs
    <3>2. CASE wx' < fb_width /\ wy' < fb_height
      BY <1>1, <1>3, <3>1, <3>2, PixelInPlace DEF WantedPixel, WishType
    <3>3. CASE ~(wx' < fb_width /\ wy' < fb_height)
      BY <1>1, <1>3, <3>3 DEF WantedPixel, WishType
    <3> QED
      BY <3>2, <3>3
  <2> QED
    BY <2>4, <2>5 DEF WishType
<1> QED
  BY <1>2, <1>3 DEF Next

\* Whether the mouse has settled is a truth value after every step.
LEMMA SettledIsBoolean ==
  ASSUME Next
  PROVE  settled' \in BOOLEAN
<1>1. Settle
  BY DEF Next
<1> QED
  BY <1>1 DEF Settle

\* Every step keeps the types.
LEMMA TypeStep == TypeOK /\ [Next]_vars => TypeOK'
<1> SUFFICES ASSUME TypeOK, [Next]_vars PROVE DriverType' /\ PacketType' /\ WishType'
  BY TypePartsNext
<1>1. DriverType /\ PacketType /\ WishType
  BY TypeParts
<1>2. CASE UNCHANGED vars
  BY <1>1, <1>2 DEF vars, driver, packet, devices, port, history,
                   DriverType, PacketType, WishType
<1>3. CASE Next
  <2>1. settled' \in BOOLEAN
    BY <1>3, SettledIsBoolean
  <2>2. ASSUME packet' = packet PROVE PacketType'
    BY <1>1, <2>2 DEF PacketType, packet
  <2>3. DriverType' /\ PacketType'
    BY <1>1, <1>3, <2>1, <2>2, DriverSteps, DeviceSteps, MouseSteps DEF Next
  <2> QED
    BY <1>3, <2>3, WishSteps
<1> QED
  BY <1>2, <1>3

\* The variables have their types in every reachable state; in particular
\* the pointer never leaves the screen by more than the edge, and what is
\* drawn lies within the framebuffer, whatever bytes the mouse sends.
THEOREM TypeCorrect == Spec => []TypeOK
<1> QED
  BY InitType, TypeStep, PTL DEF Spec

-----------------------------------------------------------------------------
(* The configuration *)

\* The mouse is silent until it is reset.
SilentInv == pc <= 7 => moved = <<>> /\ ~reporting

\* How far init_mouse has come: until it has asked, nothing is in the port;
\* then the controller's answer is under way or the last byte that came,
\* whoever has read it; then init_mouse has it.
AnswerInv ==
  ~disturbed =>
    /\ pc <= 3 => typed = <<>>
    /\ pc <= 2 => replies = <<>> /\ ~obf
    /\ pc = 3 => \/ replies = <<config>> /\ ~obf
                 \/ replies = <<>> /\ data = config
    /\ pc \in 4 .. 5 => status = ClearBit(original, 5)

ConfigInv ==
  /\ pc = 1 => config = original
  /\ pc \in 2 .. 5 => config = ClearBit(original, 5)
  /\ ConfigKept

\* The steps that leave init_mouse where it is leave the configuration alone.
LEMMA OthersKeepConfig ==
  ASSUME DriverType, SilentInv, AnswerInv, ConfigInv,
         \/ Transfer \/ KeyPress \/ Tick \/ KeyboardIrq \/ _mouse_int
         \/ \E p \in Packets : MouseMoves(p)
  PROVE  SilentInv' /\ AnswerInv' /\ ConfigInv'
<1>1. ASSUME UNCHANGED <<pc, status, config, original>>, disturbed' = disturbed
      PROVE  ConfigInv'
  BY <1>1 DEF ConfigInv, ConfigKept
<1>2. CASE Transfer
  <2>1. UNCHANGED <<pc, status, config, original>> /\ disturbed' = disturbed
    BY <1>2 DEF Transfer, driver
  <2>2. SilentInv'
    BY <1>2, <2>1 DEF Transfer, SilentInv
  <2>3. AnswerInv'
    <3> SUFFICES ASSUME ~disturbed PROVE AnswerInv'
      BY <2>1 DEF AnswerInv
    <3>1. pc \in 1 .. 13
      BY ScriptIs DEF DriverType
    <3>2. ~(pc <= 2)
      BY <1>2, <3>1 DEF Transfer, AnswerInv, SilentInv
    <3>3. CASE pc = 3
      <4>1. replies # <<>>
        BY <1>2, <3>3 DEF Transfer, AnswerInv, SilentInv
      <4>2. replies = <<config>>
        BY <3>3, <4>1 DEF AnswerInv
      <4>3. data' = config /\ replies' = <<>> /\ typed' = typed
        BY <1>2, <4>1, <4>2 DEF Transfer
      <4> QED
        BY <2>1, <3>3, <4>3 DEF AnswerInv
    <3>4. CASE pc > 3
      BY <2>1, <3>1, <3>4 DEF AnswerInv
    <3> QED
      BY <3>1, <3>2, <3>3, <3>4
  <2> QED
    BY <1>1, <2>1, <2>2, <2>3
<1>3. CASE KeyPress
  <2>1. UNCHANGED <<pc, status, config, data, obf, replies, moved, reporting, original>>
    BY <1>3 DEF KeyPress, driver, port
  <2>2. disturbed' = (disturbed \/ pc <= 3)
    BY <1>3 DEF KeyPress
  <2>3. SilentInv'
    BY <2>1 DEF SilentInv
  <2>4. AnswerInv' /\ ConfigInv'
    BY <2>1, <2>2 DEF AnswerInv, ConfigInv, ConfigKept, DriverType
  <2> QED
    BY <2>3, <2>4
<1>4. CASE Tick \/ KeyboardIrq \/ _mouse_int
  <2>1. UNCHANGED <<pc, status, config, data, replies, typed, moved, reporting,
                    original, disturbed>>
    BY <1>4 DEF Tick, KeyboardIrq, _mouse_int, driver, port, devices
  <2>2. obf' => obf
    BY <1>4 DEF Tick, KeyboardIrq, _mouse_int, port
  <2> QED
    BY <1>1, <2>1, <2>2 DEF SilentInv, AnswerInv
<1>5. ASSUME NEW p \in Packets, MouseMoves(p)
      PROVE  SilentInv' /\ AnswerInv' /\ ConfigInv'
  <2>1. UNCHANGED <<pc, status, config, data, obf, replies, typed, reporting,
                    original, disturbed>>
    BY <1>5 DEF MouseMoves, driver, port
  <2>2. ~(pc <= 7)
    BY <1>5 DEF MouseMoves, SilentInv
  <2> QED
    BY <1>1, <2>1, <2>2 DEF SilentInv, AnswerInv
<1> QED
  BY <1>2, <1>3, <1>4, <1>5

\* init_mouse's own steps: it asks, reads, and writes back what it has read.
LEMMA InitMouseKeepsConfig ==
  ASSUME DriverType, SilentInv, AnswerInv, ConfigInv, Command \/ Read
  PROVE  SilentInv' /\ AnswerInv' /\ ConfigInv'
<1>1. pc \in 1 .. 13 /\ Done = 13
  BY ScriptIs DEF DriverType
<1>2. original' = original /\ disturbed' = disturbed /\ pc' = pc + 1
  BY DEF Command, Read, Enable, Query, Configure, MouseCommand, Advance
<1>3. CASE Enable /\ UNCHANGED <<port>>
  <2>1. /\ pc = 1 /\ config' = ClearBit(config, 5)
        /\ UNCHANGED <<replies, typed, moved, reporting, obf>>
    BY <1>3, ScriptIs DEF DriverType, Enable, devices, port
  <2> QED
    BY <1>2, <2>1 DEF SilentInv, AnswerInv, ConfigInv, ConfigKept
<1>4. CASE Query /\ UNCHANGED <<port>>
  <2>1. /\ pc = 2 /\ replies' = Append(replies, config)
        /\ UNCHANGED <<config, typed, moved, reporting, obf>>
    BY <1>4, ScriptIs DEF DriverType, Query, port
  <2>2. ~disturbed => replies' = <<config>>
    BY <2>1 DEF AnswerInv
  <2> QED
    BY <1>2, <2>1, <2>2 DEF SilentInv, AnswerInv, ConfigInv, ConfigKept
<1>5. CASE Configure
  <2>1. /\ pc = 5 /\ config' = ClearBit(SetBit(status, 1), 5)
        /\ UNCHANGED <<moved, reporting>>
    BY <1>5, ScriptIs DEF DriverType, Configure, devices
  <2>2. ~disturbed => config' = ClearBit(SetBit(original, 1), 5)
    BY <2>1, ClearedTwice DEF AnswerInv, DriverType
  <2> QED
    BY <1>2, <2>1, <2>2 DEF SilentInv, AnswerInv, ConfigInv, ConfigKept
<1>6. ASSUME NEW op \in {"reset", "defaults", "report"}, NEW bytes, NEW on,
             MouseCommand(op, bytes, on)
      PROVE  SilentInv' /\ AnswerInv' /\ ConfigInv'
  <2>1. pc \in {7, 9, 11} /\ config' = config
    BY <1>6, ScriptIs DEF DriverType, MouseCommand
  <2> QED
    BY <1>2, <2>1 DEF SilentInv, AnswerInv, ConfigInv, ConfigKept
<1>7. CASE Read
  <2>1. /\ UNCHANGED <<config, data, replies, typed, moved, reporting>>
        /\ pc \in {3, 4, 6, 8, 10, 12}
    BY <1>7, ScriptIs DEF DriverType, Read, devices
  <2>2. CASE pc = 3
    <3>1. status' = data
      BY <1>7, <2>2, ScriptIs DEF DriverType, Read
    <3>2. ~disturbed => data = config
      BY <1>7, <2>2 DEF Read, Ready, GivesUp, AnswerInv
    <3> QED
      BY <1>2, <2>1, <2>2, <3>1, <3>2 DEF SilentInv, AnswerInv, ConfigInv, ConfigKept
  <2>3. CASE pc # 3
    <3>1. status' = status
      BY <1>7, <2>3, ScriptIs DEF DriverType, Read
    <3> QED
      BY <1>2, <2>1, <2>3, <3>1 DEF SilentInv, AnswerInv, ConfigInv, ConfigKept
  <2> QED
    BY <2>2, <2>3
<1>8. CASE Command
  BY <1>3, <1>4, <1>5, <1>6, <1>8 DEF Command
<1> QED
  BY <1>7, <1>8

\* Whatever is pressed, moved and interrupted, and whoever wins the race for
\* the controller's answer: unless a key disturbs it, init_mouse writes back
\* the firmware's configuration with the two bits of the mouse changed.
THEOREM ConfigKeptCorrect == Spec => []ConfigKept
<1> DEFINE IInv == TypeOK /\ SilentInv /\ AnswerInv /\ ConfigInv
<1>1. Init => IInv
  BY InitType DEF Init, SilentInv, AnswerInv, ConfigInv, ConfigKept
<1>2. IInv /\ [Next]_vars => IInv'
  <2> SUFFICES ASSUME IInv, [Next]_vars PROVE SilentInv' /\ AnswerInv' /\ ConfigInv'
    BY TypeStep
  <2>1. DriverType
    BY TypeParts
  <2>2. CASE UNCHANGED vars
    BY <2>2 DEF vars, driver, devices, port, history,
               SilentInv, AnswerInv, ConfigInv, ConfigKept
  <2>3. CASE Next
    BY <2>1, <2>3, OthersKeepConfig, InitMouseKeepsConfig DEF Next
  <2> QED
    BY <2>2, <2>3
<1>3. IInv => ConfigKept
  BY DEF ConfigInv
<1> QED
  BY <1>1, <1>2, <1>3, PTL DEF Spec

-----------------------------------------------------------------------------
(* Packets *)

Void(p) == Bit(p[1], 6) \/ Bit(p[1], 7)

\* The mouse sets the bit that is always set, and no movement to the left or
\* down is longer than 128, where the cast to int8_t loses the sign.
PacketsAreShort ==
  \A p \in Packets :
    /\ Bit(p[1], 3)
    /\ ~Void(p) => (Bit(p[1], 4) => p[2] >= 128) /\ (Bit(p[1], 5) => p[3] >= 128)

\* Where a packet moves the pointer, and what it draws.
NextX(p, col) ==
  IF Void(p) THEN col ELSE Bounded(col + Counts(Bit(p[1], 4), p[2]), fb_width)

NextY(p, row) ==
  IF Void(p) THEN row ELSE Bounded(row - Counts(Bit(p[1], 5), p[3]), fb_height)

NextPlace(p, col, row, place) ==
  IF Draws(p) /\ NextX(p, col) < fb_width /\ NextY(p, row) < fb_height
  THEN NextY(p, row) * Pitch + NextX(p, col) ELSE place

\* The cast to int8_t is right for the packets that are sent.
LEMMA MovementIsRight ==
  ASSUME NEW mov \in Bytes, NEW negative \in BOOLEAN, negative => mov >= 128
  PROVE  Movement(negative, mov) = Counts(negative, mov)
BY DEF Movement, Counts, Bytes

\* The third byte of a packet has the driver do what the packet asks for.
LEMMA PacketArrives ==
  ASSUME PacketsAreShort, NEW p \in Packets, PacketType, YByte(p[3]),
         current_packet[1] = p[1], current_packet[2] = p[2],
         discard_packet <=> Void(p)
  PROVE  /\ x' = NextX(p, x) /\ y' = NextY(p, y)
         /\ drawn' = NextPlace(p, x, y, drawn)
<1>1. CASE Void(p)
  BY <1>1 DEF YByte, NextX, NextY, NextPlace, Draws, Void
<1>2. CASE ~Void(p)
  <2>1. p[2] \in Bytes /\ p[3] \in Bytes
    BY MouseAssumption DEF Bytes
  <2>2. /\ Movement(Bit(p[1], 4), p[2]) = Counts(Bit(p[1], 4), p[2])
        /\ Movement(Bit(p[1], 5), p[3]) = Counts(Bit(p[1], 5), p[3])
    <3>1. Bit(p[1], 4) \in BOOLEAN /\ Bit(p[1], 5) \in BOOLEAN
      BY DEF Bit
    <3>2. /\ Bit(p[1], 4) => p[2] >= 128
          /\ Bit(p[1], 5) => p[3] >= 128
      BY <1>2 DEF PacketsAreShort
    <3> QED
      BY <2>1, <3>1, <3>2, MovementIsRight
  <2>3. /\ x' = Bounded(x + Movement(Bit(p[1], 4), p[2]), fb_width)
        /\ y' = Bounded(y - Movement(Bit(p[1], 5), p[3]), fb_height)
        /\ mouse_int(p[1])
    BY <1>2 DEF YByte
  <2>4. x' = NextX(p, x) /\ y' = NextY(p, y)
    BY <1>2, <2>2, <2>3 DEF NextX, NextY
  <2>5. Draws(p) <=> Bit(p[1], 0)
    BY <1>2 DEF Draws, Void
  <2>6. x' \in Int /\ y' \in Int
    <3>1. /\ x + Counts(Bit(p[1], 4), p[2]) \in Int
          /\ y - Counts(Bit(p[1], 5), p[3]) \in Int
      <4>1. Bit(p[1], 4) \in BOOLEAN /\ Bit(p[1], 5) \in BOOLEAN
        BY DEF Bit
      <4>2. /\ Counts(Bit(p[1], 4), p[2]) \in Int
            /\ Counts(Bit(p[1], 5), p[3]) \in Int
        BY <2>1, <4>1, MovementIsInt
      <4> QED
        BY <4>2, ScreenIs DEF PacketType
    <3> QED
      BY <2>2, <2>3, <3>1, BoundedInRange, ScreenIs
  <2>7. drawn' = IF Draws(p) THEN pixel(x', y', drawn) ELSE drawn
    BY <2>3, <2>5 DEF mouse_int
  <2>8. drawn' = NextPlace(p, x, y, drawn)
    BY <2>4, <2>6, <2>7, ScreenIs DEF pixel, NextPlace
  <2> QED
    BY <2>4, <2>8
<1> QED
  BY <1>1, <1>2

\* A packet of the mouse asks for just that.
LEMMA PacketAsks ==
  ASSUME NEW p \in Packets, NEW to, to = Wanted(p, <<wx, wy>>)
  PROVE  /\ to[1] = NextX(p, wx) /\ to[2] = NextY(p, wy)
         /\ WantedPixel(p, to) = NextPlace(p, wx, wy, wdrawn)
<1>1. to[1] = NextX(p, wx) /\ to[2] = NextY(p, wy)
  BY DEF Wanted, NextX, NextY, Void
<1> QED
  BY <1>1 DEF WantedPixel, NextPlace

-----------------------------------------------------------------------------
(* The pointer follows *)

\* A byte in the register that nobody is told of: it stays there.
Stuck == obf /\ ~irq1 /\ ~irq12

\* How many bytes of the packet under way have left the mouse.
Out == handler_cycle + (IF irq12 THEN 1 ELSE 0)

\* What the mouse still has of a packet.
Rest(p, n) ==
  CASE n = 0 -> p
    [] n = 1 -> <<p[2], p[3]>>
    [] n = 2 -> <<p[3]>>
    [] n = 3 -> <<>>

\* The driver has the first bytes of p, the next one may be in the register.
Underway(p) ==
  /\ handler_cycle >= 1 => current_packet[1] = p[1] /\ (discard_packet <=> Void(p))
  /\ handler_cycle = 2 => current_packet[2] = p[2]
  /\ irq12 => data = p[handler_cycle + 1]

AtRest ==
  /\ handler_cycle = 0 /\ ~irq12 /\ moved = <<>>
  /\ wx = x /\ wy = y /\ wdrawn = drawn

OnePacket(p) ==
  /\ Underway(p) /\ moved = Rest(p, Out)
  /\ wx = NextX(p, x) /\ wy = NextY(p, y) /\ wdrawn = NextPlace(p, x, y, drawn)

\* The last byte of p is in the register, and the mouse has q ready.
TwoPackets(p, q) ==
  /\ Underway(p) /\ Out = 3 /\ moved = q
  /\ wx = NextX(q, NextX(p, x)) /\ wy = NextY(q, NextY(p, y))
  /\ wdrawn = NextPlace(q, NextX(p, x), NextY(p, y), NextPlace(p, x, y, drawn))

InStep ==
  \/ AtRest
  \/ \E p \in Packets : OnePacket(p)
  \/ \E p, q \in Packets : TwoPackets(p, q)

PortInv ==
  /\ irq1 => obf /\ ~irq12
  /\ irq12 => obf

FollowInv ==
  /\ handler_cycle = 0 => ~discard_packet
  /\ settled => pc = Done /\ ticks = Warmup /\ replies = <<>> /\ PortInv /\ (Stuck \/ InStep)

\* A packet has three bytes.
LEMMA PacketIs ==
  ASSUME NEW p \in Packets
  PROVE  /\ p = <<p[1], p[2], p[3]>> /\ p # <<>>
         /\ \A n \in 0 .. 2 :
              /\ Rest(p, n) # <<>>
              /\ Head(Rest(p, n)) = p[n + 1] /\ Tail(Rest(p, n)) = Rest(p, n + 1)
<1>1. p \in (0 .. 255) \X (0 .. 255) \X (0 .. 255)
  BY MouseAssumption
<1>2. p = <<p[1], p[2], p[3]>>
  BY <1>1
<1>3. /\ Rest(p, 0) = p /\ Rest(p, 1) = <<p[2], p[3]>>
      /\ Rest(p, 2) = <<p[3]>> /\ Rest(p, 3) = <<>>
  BY DEF Rest
<1>4. ASSUME NEW a, NEW b, NEW c
      PROVE  /\ <<a, b, c>> # <<>> /\ Head(<<a, b, c>>) = a /\ Tail(<<a, b, c>>) = <<b, c>>
             /\ <<b, c>> # <<>> /\ Head(<<b, c>>) = b /\ Tail(<<b, c>>) = <<c>>
             /\ <<c>> # <<>> /\ Head(<<c>>) = c /\ Tail(<<c>>) = <<>>
  OBVIOUS
<1>5. p # <<>> /\ Head(p) = p[1] /\ Tail(p) = <<p[2], p[3]>>
  <2>1. /\ <<p[1], p[2], p[3]>> # <<>> /\ Head(<<p[1], p[2], p[3]>>) = p[1]
        /\ Tail(<<p[1], p[2], p[3]>>) = <<p[2], p[3]>>
    BY <1>4
  <2> DEFINE bytes == <<p[1], p[2], p[3]>>
  <2>2. bytes = p /\ bytes # <<>> /\ Head(bytes) = p[1] /\ Tail(bytes) = <<p[2], p[3]>>
    BY <1>2, <2>1
  <2> HIDE DEF bytes
  <2> QED
    BY <2>2
<1>6. /\ <<p[2], p[3]>> # <<>> /\ Head(<<p[2], p[3]>>) = p[2] /\ Tail(<<p[2], p[3]>>) = <<p[3]>>
      /\ <<p[3]>> # <<>> /\ Head(<<p[3]>>) = p[3] /\ Tail(<<p[3]>>) = <<>>
  BY <1>4
<1>7. ASSUME NEW n \in 0 .. 2
      PROVE  /\ Rest(p, n) # <<>>
             /\ Head(Rest(p, n)) = p[n + 1] /\ Tail(Rest(p, n)) = Rest(p, n + 1)
  <2>1. CASE n = 0
    <3>1. n + 1 = 1
      BY <2>1
    <3> QED
      BY <1>3, <1>5, <2>1, <3>1
  <2>2. CASE n = 1
    <3>1. n + 1 = 2
      BY <2>2
    <3> QED
      BY <1>3, <1>6, <2>2, <3>1
  <2>3. CASE n = 2
    <3>1. n + 1 = 3
      BY <2>3
    <3> QED
      BY <1>3, <1>6, <2>3, <3>1
  <2> QED
    BY <2>1, <2>2, <2>3
<1> QED
  BY <1>2, <1>5, <1>7

\* What a step leaves alone keeps the driver in step.
LEMMA InStepKept ==
  ASSUME InStep, packet' = packet, moved' = moved, UNCHANGED <<wx, wy, wdrawn>>,
         irq12 = irq12', irq12 => data' = data
  PROVE  InStep'
<1>1. /\ UNCHANGED <<handler_cycle, current_packet, x, y, drawn>>
      /\ discard_packet' = discard_packet
  BY DEF packet
<1>2. Out' = Out
  BY <1>1 DEF Out
<1>3. ASSUME NEW p, Underway(p) PROVE Underway(p)'
  BY <1>1, <1>3 DEF Underway
<1>4. CASE AtRest
  BY <1>1, <1>4 DEF AtRest, InStep
<1>5. ASSUME NEW p \in Packets, OnePacket(p) PROVE OnePacket(p)'
  <2>1. Underway(p)'
    BY <1>3, <1>5 DEF OnePacket
  <2> QED
    BY <1>1, <1>2, <1>5, <2>1 DEF OnePacket
<1>6. ASSUME NEW p \in Packets, NEW q \in Packets, TwoPackets(p, q)
      PROVE  TwoPackets(p, q)'
  <2>1. Underway(p)'
    BY <1>3, <1>6 DEF TwoPackets
  <2> QED
    BY <1>1, <1>2, <1>6, <2>1 DEF TwoPackets
<1> QED
  BY <1>4, <1>5, <1>6 DEF InStep

\* A byte comes into the register.
LEMMA TransferFollows ==
  ASSUME PacketType, settled, FollowInv, Transfer, UNCHANGED <<wx, wy, wdrawn>>
  PROVE  PortInv' /\ (Stuck' \/ InStep')
<1>1. ~obf /\ ~irq1 /\ ~irq12 /\ obf' /\ replies = <<>> /\ packet' = packet /\ InStep
  BY DEF Transfer, FollowInv, PortInv, Stuck
<1>2. CASE typed # <<>> /\ moved' = moved /\ irq12' = irq12
  <2>1. PortInv'
    BY <1>1, <1>2 DEF PortInv
  <2>2. irq12 = irq12' /\ (irq12 => data' = data)
    BY <1>1, <1>2
  <2> QED
    BY <1>1, <1>2, <2>1, <2>2, InStepKept
<1>3. CASE /\ moved # <<>> /\ data' = Head(moved) /\ moved' = Tail(moved)
           /\ irq12' = (irq12 \/ Bit(config, 1)) /\ irq1' = irq1
  <2>1. ~irq1'
    BY <1>1, <1>3
  <2>2. PortInv'
    BY <1>1, <2>1 DEF PortInv
  <2>3. CASE ~irq12'
    BY <1>1, <2>1, <2>2, <2>3 DEF Stuck
  <2>4. CASE irq12'
    <3>1. PICK p \in Packets : OnePacket(p)
      <4>1. ~AtRest
        BY <1>3 DEF AtRest
      <4>2. Out = handler_cycle
        BY <1>1 DEF Out, PacketType
      <4>3. \A p, q \in Packets : ~TwoPackets(p, q)
        BY <4>2 DEF TwoPackets, PacketType
      <4> QED
        BY <1>1, <4>1, <4>3 DEF InStep
    <3> DEFINE n == handler_cycle
    <3>2. n \in 0 .. 2 /\ Out = n
      BY <1>1 DEF Out, PacketType
    <3>3. UNCHANGED <<handler_cycle, current_packet, x, y, drawn>>
      BY <1>1 DEF packet
    <3>4. discard_packet' = discard_packet
      BY <1>1 DEF packet
    <3>5. data' = p[n + 1] /\ moved' = Rest(p, n + 1)
      BY <1>3, <3>1, <3>2, PacketIs DEF OnePacket
    <3>6. Out' = n + 1
      BY <2>4, <3>3 DEF Out
    <3>7. Underway(p)'
      BY <3>1, <3>3, <3>4, <3>5 DEF OnePacket, Underway
    <3>8. OnePacket(p)'
      BY <3>1, <3>3, <3>5, <3>6, <3>7 DEF OnePacket
    <3> QED
      BY <2>2, <3>8 DEF InStep
  <2> QED
    BY <2>3, <2>4
<1> QED
  BY <1>1, <1>2, <1>3 DEF Transfer

\* The mouse puts a packet together that the driver will get to.
LEMMA PacketFollows ==
  ASSUME PacketType, settled, FollowInv,
         NEW q \in Packets, MouseMoves(q),
         wx' = NextX(q, wx), wy' = NextY(q, wy), wdrawn' = NextPlace(q, wx, wy, wdrawn)
  PROVE  PortInv' /\ (Stuck' \/ InStep')
<1>1. moved = <<>> /\ moved' = q /\ packet' = packet /\ data' = data
  BY DEF MouseMoves, port
<1>2. obf' = obf /\ irq1' = irq1 /\ irq12' = irq12
  BY DEF MouseMoves, port
<1>3. PortInv'
  BY <1>2 DEF FollowInv, PortInv
<1>4. CASE Stuck
  BY <1>2, <1>3, <1>4 DEF Stuck
<1>5. CASE InStep
  <2>1. UNCHANGED <<handler_cycle, current_packet, x, y, drawn>>
    BY <1>1 DEF packet
  <2>2. discard_packet' = discard_packet
    BY <1>1 DEF packet
  <2>3. Out' = Out
    BY <1>2, <2>1 DEF Out
  <2>4. ASSUME NEW p, Underway(p) PROVE Underway(p)'
    BY <1>1, <1>2, <2>1, <2>2, <2>4 DEF Underway
  <2>5. CASE AtRest
    <3>1. handler_cycle = 0 /\ Out = 0
      BY <2>5 DEF AtRest, Out
    <3>2. Underway(q)'
      BY <1>2, <2>1, <2>5, <3>1 DEF AtRest, Underway
    <3>3. moved' = Rest(q, Out')
      BY <1>1, <2>3, <3>1 DEF Rest
    <3>4. OnePacket(q)'
      BY <2>1, <2>5, <3>2, <3>3 DEF AtRest, OnePacket
    <3> QED
      BY <1>3, <3>4 DEF InStep
  <2>6. ASSUME NEW p \in Packets, OnePacket(p) PROVE TwoPackets(p, q)'
    <3>1. Out \in 0 .. 3
      BY DEF Out, PacketType
    <3>2. Out = 3
      BY <1>1, <2>6, <3>1, PacketIs DEF OnePacket
    <3>3. Underway(p)'
      BY <2>4, <2>6 DEF OnePacket
    <3> QED
      BY <1>1, <2>1, <2>3, <2>6, <3>2, <3>3 DEF OnePacket, TwoPackets
  <2>7. \A p, r \in Packets : ~TwoPackets(p, r)
    BY <1>1, PacketIs DEF TwoPackets
  <2> QED
    BY <1>3, <1>5, <2>5, <2>6, <2>7 DEF InStep
<1> QED
  BY <1>4, <1>5 DEF FollowInv

\* With no byte in the register, what is out is what the handler has taken.
LEMMA NoneInRegister ==
  ASSUME NEW n \in 0 .. 2, handler_cycle' = n, ~irq12'
  PROVE  Out' = n
BY DEF Out

\* The driver takes the byte that is in the register.
LEMMA ByteFollows ==
  ASSUME PacketsAreShort, PacketType, settled, FollowInv, _mouse_int,
         UNCHANGED <<wx, wy, wdrawn>>
  PROVE  PortInv' /\ (Stuck' \/ InStep')
<1>1. /\ irq12 /\ ~irq12' /\ ~irq1 /\ irq1' = irq1 /\ ~obf' /\ InStep /\ ticks = Warmup
  BY DEF _mouse_int, FollowInv, PortInv, Stuck
<1>2. PortInv'
  BY <1>1 DEF PortInv
<1>3. FlagsByte(data) \/ XByte(data) \/ YByte(data)
  BY <1>1, MouseAssumption DEF _mouse_int
<1>4. moved' = moved
  BY DEF _mouse_int, devices
<1>5. Out = handler_cycle + 1 /\ Out' = handler_cycle' /\ handler_cycle \in 0 .. 2
  <2>1. handler_cycle' \in 0 .. 2
    BY <1>3 DEF FlagsByte, XByte, YByte
  <2>2. Out' = handler_cycle'
    BY <1>1, <2>1, NoneInRegister
  <2>3. Out = handler_cycle + 1 /\ handler_cycle \in 0 .. 2
    BY <1>1 DEF Out, PacketType
  <2> QED
    BY <2>2, <2>3
<1>6. ASSUME NEW p \in Packets, Underway(p), handler_cycle = 0
      PROVE  /\ handler_cycle' = 1 /\ Underway(p)'
             /\ UNCHANGED <<x, y, drawn>>
  <2>1. FlagsByte(data) /\ data = p[1]
    BY <1>1, <1>3, <1>6 DEF FlagsByte, XByte, YByte, Underway
  <2>2. ~discard_packet /\ Bit(p[1], 3)
    BY <1>6 DEF FollowInv, PacketsAreShort
  <2>3. discard_packet' <=> Void(p)
    BY <2>1, <2>2 DEF FlagsByte, Void
  <2>4. handler_cycle' = 1 /\ current_packet'[1] = p[1] /\ UNCHANGED <<x, y, drawn>>
    BY <2>1 DEF FlagsByte, PacketType, Triples
  <2> QED
    BY <1>1, <2>3, <2>4 DEF Underway
<1>7. ASSUME NEW p \in Packets, Underway(p), handler_cycle = 1
      PROVE  /\ handler_cycle' = 2 /\ Underway(p)'
             /\ UNCHANGED <<x, y, drawn>>
  <2>1. XByte(data) /\ data = p[2]
    BY <1>1, <1>3, <1>7 DEF FlagsByte, XByte, YByte, Underway
  <2>2. discard_packet' = discard_packet
    BY <2>1 DEF XByte
  <2>3. /\ handler_cycle' = 2 /\ UNCHANGED <<x, y, drawn>>
        /\ current_packet'[1] = current_packet[1] /\ current_packet'[2] = p[2]
    BY <2>1 DEF XByte, PacketType, Triples
  <2> QED
    BY <1>1, <1>7, <2>2, <2>3 DEF Underway
<1>8. ASSUME NEW p \in Packets, Underway(p), handler_cycle = 2
      PROVE  /\ handler_cycle' = 0
             /\ x' = NextX(p, x) /\ y' = NextY(p, y) /\ drawn' = NextPlace(p, x, y, drawn)
  <2>1. YByte(data) /\ data = p[3]
    BY <1>1, <1>3, <1>8 DEF FlagsByte, XByte, YByte, Underway
  <2>2. /\ current_packet[1] = p[1] /\ current_packet[2] = p[2]
        /\ discard_packet <=> Void(p)
    BY <1>8 DEF Underway
  <2>3. handler_cycle' = 0
    BY <2>1 DEF YByte
  <2> QED
    BY <2>1, <2>2, <2>3, PacketArrives
<1>9. ASSUME NEW p \in Packets, OnePacket(p) PROVE InStep'
  <2>1. CASE handler_cycle \in {0, 1}
    <3>1. Underway(p)' /\ handler_cycle' = handler_cycle + 1 /\ UNCHANGED <<x, y, drawn>>
      BY <1>6, <1>7, <1>9, <2>1 DEF OnePacket
    <3>2. moved' = Rest(p, Out')
      BY <1>4, <1>5, <1>9, <3>1 DEF OnePacket
    <3>3. OnePacket(p)'
      BY <1>9, <3>1, <3>2 DEF OnePacket
    <3> QED
      BY <3>3 DEF InStep
  <2>2. CASE handler_cycle = 2
    <3>1. /\ handler_cycle' = 0
          /\ x' = NextX(p, x) /\ y' = NextY(p, y) /\ drawn' = NextPlace(p, x, y, drawn)
      BY <1>8, <1>9, <2>2 DEF OnePacket
    <3>2. moved' = <<>>
      BY <1>4, <1>5, <1>9, <2>2 DEF OnePacket, Rest
    <3>3. AtRest'
      BY <1>1, <1>9, <3>1, <3>2 DEF AtRest, OnePacket
    <3> QED
      BY <3>3 DEF InStep
  <2> QED
    BY <1>5, <2>1, <2>2
<1>10. ASSUME NEW p \in Packets, NEW q \in Packets, TwoPackets(p, q) PROVE InStep'
  <2>1. handler_cycle = 2 /\ moved = q
    BY <1>5, <1>10 DEF TwoPackets
  <2>2. /\ handler_cycle' = 0
        /\ x' = NextX(p, x) /\ y' = NextY(p, y) /\ drawn' = NextPlace(p, x, y, drawn)
    BY <1>8, <1>10, <2>1 DEF TwoPackets
  <2>3. Underway(q)'
    BY <1>1, <2>2 DEF Underway
  <2>4. moved' = Rest(q, Out')
    BY <1>4, <1>5, <2>1, <2>2 DEF Rest
  <2>5. OnePacket(q)'
    BY <1>10, <2>2, <2>3, <2>4 DEF TwoPackets, OnePacket
  <2> QED
    BY <2>5 DEF InStep
<1>11. ~AtRest
  BY <1>1 DEF AtRest
<1> QED
  BY <1>1, <1>2, <1>9, <1>10, <1>11 DEF InStep

\* The packet that is put together is only marked void while it is.
LEMMA DiscardEnds ==
  ASSUME PacketType, FollowInv, Next
  PROVE  handler_cycle' = 0 => ~discard_packet'
<1>1. CASE packet' = packet
  <2>1. handler_cycle' = handler_cycle
    BY <1>1 DEF packet
  <2>2. discard_packet' = discard_packet
    BY <1>1 DEF packet
  <2> QED
    BY <2>1, <2>2 DEF FollowInv
<1>2. CASE _mouse_int
  BY <1>1, <1>2 DEF _mouse_int, FlagsByte, XByte, YByte, packet
<1>3. CASE Command \/ Read
  BY <1>1, <1>3 DEF Command, Read
<1>4. CASE \/ Transfer \/ KeyPress \/ Tick \/ KeyboardIrq
           \/ \E p \in Packets : MouseMoves(p)
  BY <1>1, <1>4 DEF Transfer, KeyPress, Tick, KeyboardIrq, MouseMoves
<1> QED
  BY <1>2, <1>3, <1>4 DEF Next

\* Once settled, every step keeps the driver in step.
LEMMA SettledStep ==
  ASSUME PacketsAreShort, DriverType, PacketType, settled, FollowInv, Next
  PROVE  /\ pc' = Done /\ ticks' = Warmup /\ replies' = <<>>
         /\ PortInv' /\ (Stuck' \/ InStep')
<1>1. pc = Done /\ ticks = Warmup /\ replies = <<>> /\ PortInv /\ (Stuck \/ InStep)
  BY DEF FollowInv
<1>2. ~Command /\ ~Read
  BY <1>1 DEF Command, Enable, Query, Configure, MouseCommand, Read, Doing, Done
<1>3. ~Tick
  BY <1>1, MouseAssumption DEF Tick
<1>4. pc' = pc /\ ticks' = ticks /\ replies' = <<>>
  BY <1>1, <1>2, <1>3 DEF Next, Transfer, KeyPress, KeyboardIrq, _mouse_int,
                          MouseMoves, driver, devices
<1>5. ASSUME Transfer \/ KeyPress \/ KeyboardIrq \/ _mouse_int, Follow
      PROVE  PortInv' /\ (Stuck' \/ InStep')
  <2>1. UNCHANGED <<wx, wy, wdrawn>>
    BY <1>5 DEF Follow
  <2>2. CASE Transfer
    BY <2>1, <2>2, TransferFollows
  <2>3. CASE KeyPress
    <3>1. packet' = packet /\ moved' = moved /\ data' = data
      BY <2>3 DEF KeyPress, port
    <3>2. obf' = obf /\ irq1' = irq1 /\ irq12' = irq12
      BY <2>3 DEF KeyPress, port
    <3>3. PortInv' /\ (Stuck => Stuck')
      BY <1>1, <3>2 DEF PortInv, Stuck
    <3> QED
      BY <1>1, <2>1, <3>1, <3>2, <3>3, InStepKept
  <2>4. CASE KeyboardIrq
    <3>1. packet' = packet /\ moved' = moved /\ data' = data
      BY <2>4 DEF KeyboardIrq, devices
    <3>2. irq1 /\ ~irq12 /\ ~irq1' /\ irq12' = irq12
      BY <1>1, <2>4 DEF KeyboardIrq, PortInv
    <3>3. PortInv' /\ ~Stuck
      BY <3>2 DEF PortInv, Stuck
    <3> QED
      BY <1>1, <2>1, <3>1, <3>2, <3>3, InStepKept
  <2>5. CASE _mouse_int
    BY <2>1, <2>5, ByteFollows
  <2> QED
    BY <1>5, <2>2, <2>3, <2>4, <2>5
<1>6. ASSUME NEW p \in Packets, MouseMoves(p),
             wx' = Wanted(p, <<wx, wy>>)[1], wy' = Wanted(p, <<wx, wy>>)[2],
             wdrawn' = WantedPixel(p, Wanted(p, <<wx, wy>>))
      PROVE  PortInv' /\ (Stuck' \/ InStep')
  <2>1. wx' = NextX(p, wx) /\ wy' = NextY(p, wy) /\ wdrawn' = NextPlace(p, wx, wy, wdrawn)
    BY <1>6, PacketAsks
  <2> QED
    BY <1>6, <2>1, PacketFollows
<1>7. PortInv' /\ (Stuck' \/ InStep')
  BY <1>2, <1>3, <1>5, <1>6 DEF Next
<1> QED
  BY <1>1, <1>4, <1>7

\* When everything is quiet for the first time, the wish is the pointer.
LEMMA SettlingStep ==
  ASSUME ~settled, Next, settled'
  PROVE  /\ pc' = Done /\ ticks' = Warmup /\ replies' = <<>>
         /\ PortInv' /\ InStep'
<1>1. Quiet' /\ pc' = Done /\ ticks' = Warmup /\ handler_cycle' = 0
  BY DEF Next, Settle
<1>2. wx' = x' /\ wy' = y' /\ wdrawn' = drawn'
  BY DEF Next, Follow
<1>3. AtRest'
  BY <1>1, <1>2 DEF AtRest, Quiet
<1> QED
  BY <1>1, <1>3 DEF Quiet, PortInv, InStep

\* However keys and packets interleave at the port, from the first quiet
\* moment on every packet arrives whole and the pointer goes, and draws, where
\* the mouse's packets say - if none moves by more than 128 to the left or down.
LEMMA FollowStep ==
  PacketsAreShort /\ TypeOK /\ FollowInv /\ [Next]_vars => FollowInv'
<1> SUFFICES ASSUME PacketsAreShort, TypeOK, FollowInv, [Next]_vars PROVE FollowInv'
  OBVIOUS
<1>1. DriverType /\ PacketType
  BY TypeParts
<1>2. CASE UNCHANGED vars
  <2>1. packet' = packet /\ UNCHANGED <<pc, ticks, replies, moved, data, wx, wy, wdrawn>>
    BY <1>2 DEF vars, driver, devices, port, history
  <2>2. obf' = obf /\ irq1' = irq1 /\ irq12' = irq12 /\ settled' = settled
    BY <1>2 DEF vars, port, history
  <2>3. InStep => InStep'
    BY <2>1, <2>2, InStepKept
  <2>4. handler_cycle' = handler_cycle
    BY <2>1 DEF packet
  <2>5. discard_packet' = discard_packet
    BY <2>1 DEF packet
  <2>6. (Stuck => Stuck') /\ (PortInv => PortInv')
    BY <2>2 DEF Stuck, PortInv
  <2> QED
    BY <2>1, <2>2, <2>3, <2>4, <2>5, <2>6 DEF FollowInv
<1>3. CASE Next
  <2>1. handler_cycle' = 0 => ~discard_packet'
    BY <1>1, <1>3, DiscardEnds
  <2>2. CASE settled
    BY <1>1, <1>3, <2>1, <2>2, SettledStep DEF FollowInv
  <2>3. CASE ~settled
    BY <1>3, <2>1, <2>3, SettlingStep DEF FollowInv
  <2> QED
    BY <2>2, <2>3
<1> QED
  BY <1>2, <1>3

\* When nothing is on its way the driver is where the user is.
LEMMA QuietIsAtRest ==
  ASSUME PacketType, FollowInv, settled, Quiet
  PROVE  AtRest
<1>1. ~irq12 /\ ~Stuck /\ moved = <<>> /\ InStep
  BY DEF Quiet, Stuck, FollowInv
<1>2. Out \in 0 .. 2
  BY <1>1 DEF Out, PacketType
<1>3. \A p \in Packets : ~OnePacket(p)
  BY <1>1, <1>2, PacketIs DEF OnePacket
<1>4. \A p, q \in Packets : ~TwoPackets(p, q)
  BY <1>2 DEF TwoPackets
<1> QED
  BY <1>1, <1>3, <1>4 DEF InStep

\* Whenever nothing is on its way any more, the pointer is where the packets
\* that were sent put it, and the pixel drawn last is the one they draw, on
\* every screen and for every packet within the driver's range: the port that
\* keyboard and mouse share loses, repeats and reorders nothing once settled.
THEOREM PointerFollowsMouseCorrect ==
  PacketsAreShort => (Spec => [](PointerFollowsMouse /\ PixelsFollowMouse))
<1> DEFINE IInv == TypeOK /\ FollowInv
<1>1. Init => IInv
  BY InitType DEF Init, FollowInv
<1>2. PacketsAreShort /\ IInv /\ [Next]_vars => IInv'
  BY TypeStep, FollowStep
<1>3. IInv => PointerFollowsMouse /\ PixelsFollowMouse
  BY QuietIsAtRest, TypeParts DEF PointerFollowsMouse, PixelsFollowMouse, AtRest
<1> SUFFICES ASSUME PacketsAreShort
             PROVE  Spec => [](PointerFollowsMouse /\ PixelsFollowMouse)
  OBVIOUS
<1> QED
  BY <1>1, <1>2, <1>3, PTL DEF Spec

\* The pixel drawn last is the one the packets draw, and none is drawn past
\* the edges of the screen.
THEOREM PixelsFollowMouseCorrect == PacketsAreShort => (Spec => []PixelsFollowMouse)
BY PointerFollowsMouseCorrect, PTL
=============================================================================
