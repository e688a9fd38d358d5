------------------------------- MODULE Mouse -------------------------------
(***************************************************************************)
(* The PS/2 mouse driver (mouse.c) and the controller it shares with the   *)
(* keyboard.  init_mouse polls the controller with interrupts enabled,     *)
(* while the keyboard and mouse handlers read the same data port, so every *)
(* reply is raced for.  Afterwards _mouse_int takes one byte per interrupt *)
(* and puts packets of three together.                                     *)
(*                                                                         *)
(* Bytes are numbers.  The controller, the keyboard and the mouse are      *)
(* external: they do what the driver relies on and no more.                *)
(***************************************************************************)
EXTENDS Integers, Sequences

CONSTANTS
  fb_width, fb_height,  \* the framebuffer's size
  Pitch,                \* and the pixels from one of its rows to the next
  Warmup,               \* the ticks below which mouse bytes are dropped (250)
  Configs,              \* configuration bytes the firmware may have left
  Scancodes,            \* bytes the keyboard sends
  Packets               \* packets the mouse sends: <<flags, x_mov, y_mov>>

ASSUME MouseAssumption ==
  /\ fb_width \in 1 .. 2^16 - 1 /\ fb_height \in 1 .. 2^16 - 1
  /\ Pitch \in Nat /\ Pitch >= fb_width
  /\ Warmup \in Nat
  /\ Configs \subseteq 0 .. 255 /\ Configs # {}
  /\ Scancodes \subseteq 0 .. 255
  /\ Packets \subseteq (0 .. 255) \X (0 .. 255) \X (0 .. 255)

VARIABLES
  pc,              \* the next operation of init_mouse, an index of Script
  status,          \* init_mouse's copy of the configuration byte
  ticks,           \* counted up to Warmup
  handler_cycle, current_packet, discard_packet,
  x, y,            \* the pointer
  drawn,           \* where mouse_int wrote into the framebuffer last, or NoPixel
  config,          \* the controller's configuration byte
  data, obf,       \* its output register, and whether that holds a new byte
  replies,         \* its own answers that wait for the register
  typed, moved,    \* bytes that wait in the keyboard and in the mouse
  reporting,       \* the mouse sends packets
  irq1, irq12,     \* the interrupts that are pending
  \* history, read by properties only:
  original,        \* the configuration byte of the firmware
  disturbed,       \* a key was pressed before init_mouse had the configuration
  settled,         \* everything was quiet once after the warm-up
  wx, wy,          \* where the packets sent since then put the pointer
  wdrawn           \* and the pixel that they draw last

driver == <<pc, status>>
packet == <<handler_cycle, current_packet, discard_packet, x, y, drawn>>
devices == <<replies, typed, moved, reporting>>
port == <<data, obf>>
history == <<original, disturbed, settled, wx, wy, wdrawn>>
vars == <<driver, ticks, packet, config, port, devices, irq1, irq12, history>>

\* What init_mouse does, in order: commands to the controller and to the
\* mouse, and mouse_read, whose result only the first time is used.
Script == <<"enable", "query", "status", "read", "configure", "read",
            "reset", "read", "defaults", "read", "report", "read">>

Done == Len(Script) + 1

Doing(op) == pc < Done /\ Script[pc] = op

Ack == 250

NoPixel == -1

Bit(v, n) == (v \div 2^n) % 2 = 1
SetBit(v, n) == IF Bit(v, n) THEN v ELSE v + 2^n
ClearBit(v, n) == IF Bit(v, n) THEN v - 2^n ELSE v

Init ==
  /\ pc = 1 /\ status = 0 /\ ticks = 0
  /\ handler_cycle = 0 /\ current_packet = <<0, 0, 0>> /\ discard_packet = FALSE
  /\ x = fb_width \div 2 /\ y = fb_height \div 2 /\ drawn = NoPixel
  /\ config \in Configs /\ original = config
  /\ data = 0 /\ obf = FALSE
  /\ replies = <<>> /\ typed = <<>> /\ moved = <<>> /\ reporting = FALSE
  /\ irq1 = FALSE /\ irq12 = FALSE
  /\ disturbed = FALSE /\ settled = FALSE
  /\ wx = x /\ wy = y /\ wdrawn = drawn

-----------------------------------------------------------------------------
(* init_mouse.  mouse_wait(1) has a timeout as well, but the controller    *)
(* takes a command within its 100000 polls.                                *)

Advance == pc' = pc + 1 /\ UNCHANGED status

\* 0xa8: the mouse's clock is switched on.
Enable ==
  /\ Doing("enable")
  /\ Advance /\ config' = ClearBit(config, 5)
  /\ UNCHANGED devices

\* 0x20: the controller answers with its configuration byte.
Query ==
  /\ Doing("query")
  /\ Advance /\ replies' = Append(replies, config)
  /\ UNCHANGED <<config, typed, moved, reporting>>

\* 0x60: bit 1 (mouse interrupt) set and bit 5 (mouse clock off) cleared.
Configure ==
  /\ Doing("configure")
  /\ Advance /\ config' = ClearBit(SetBit(status, 1), 5)
  /\ UNCHANGED devices

\* The mouse answers a command, unless there is none or it does not listen.
MouseCommand(op, answer, on) ==
  /\ Doing(op)
  /\ Advance
  /\ \/ moved' = moved \o answer /\ reporting' = on
     \/ UNCHANGED <<moved, reporting>>
  /\ UNCHANGED <<config, replies, typed>>

Command ==
  /\ \/ Enable \/ Query \/ Configure
     \/ MouseCommand("reset", <<Ack, 170, 0>>, FALSE)
     \/ MouseCommand("defaults", <<Ack>>, FALSE)
     \/ MouseCommand("report", <<Ack>>, TRUE)
  /\ UNCHANGED <<ticks, packet, port, irq1, irq12, original, disturbed>>

\* Faulty variant: the port is read without waiting for a byte.
ReadyAlways == TRUE

\* mouse_wait(0) sees a byte.
Ready == obf

\* Faulty variant: mouse_wait polls until a byte comes.
GivesUpNever == FALSE

\* mouse_wait(0) runs out of polls.  The controller's own answer and a key
\* that was pressed come faster than that; the mouse's answer may not.
GivesUp == ~obf /\ replies = <<>>

\* mouse_read: whatever the register holds, new or old, is the result.
Read ==
  /\ Doing("status") \/ Doing("read")
  /\ Ready \/ GivesUp
  /\ pc' = pc + 1
  /\ status' = IF Doing("status") THEN data ELSE status
  /\ obf' = FALSE
  /\ UNCHANGED <<ticks, packet, config, data, devices, irq1, irq12, original, disturbed>>

-----------------------------------------------------------------------------
(* The devices *)

Quiet == ~obf /\ ~irq1 /\ ~irq12 /\ replies = <<>> /\ typed = <<>> /\ moved = <<>>

\* The free output register takes the controller's own answer or else the
\* next byte of a device, and
\* the interrupt of that side is raised if the configuration says so.
Transfer ==
  /\ ~obf /\ obf' = TRUE
  /\ \/ /\ replies # <<>>
        /\ data' = Head(replies) /\ replies' = Tail(replies)
        /\ irq1' = (irq1 \/ Bit(config, 0))
        /\ UNCHANGED <<typed, moved, irq12>>
     \/ /\ replies = <<>> /\ typed # <<>> /\ ~Bit(config, 4)
        /\ data' = Head(typed) /\ typed' = Tail(typed)
        /\ irq1' = (irq1 \/ Bit(config, 0))
        /\ UNCHANGED <<replies, moved, irq12>>
     \/ /\ replies = <<>> /\ moved # <<>> /\ ~Bit(config, 5)
        /\ data' = Head(moved) /\ moved' = Tail(moved)
        /\ irq12' = (irq12 \/ Bit(config, 1))
        /\ UNCHANGED <<replies, typed, irq1>>
  /\ UNCHANGED <<driver, ticks, packet, config, reporting, original, disturbed>>

\* One key at a time waits in the keyboard.
KeyPress ==
  /\ typed = <<>>
  /\ \E v \in Scancodes : typed' = <<v>>
  /\ disturbed' = (disturbed \/ pc <= 3)
  /\ UNCHANGED <<driver, ticks, packet, config, port, replies, moved, reporting,
                 irq1, irq12, original>>

\* A mouse that reports sends a packet when it has sent the one before.
MouseMoves(p) ==
  /\ reporting /\ moved = <<>>
  /\ moved' = p
  /\ UNCHANGED <<driver, ticks, packet, config, port, replies, typed, reporting,
                 irq1, irq12, original, disturbed>>

-----------------------------------------------------------------------------
(* The handlers.  They run with interrupts off, each as one step. *)

\* clock_handler counts one tick for every ten interrupts.
Tick ==
  /\ ticks < Warmup
  /\ ticks' = ticks + 1
  /\ UNCHANGED <<driver, packet, config, port, devices, irq1, irq12, original, disturbed>>

\* _keyboard_int reads the port, whoever the byte is for.
KeyboardIrq ==
  /\ irq1
  /\ irq1' = FALSE /\ obf' = FALSE
  /\ UNCHANGED <<driver, ticks, packet, config, data, devices, irq12, original, disturbed>>

\* (int8_t)mov for a movement with its sign bit set.
Movement(negative, mov) ==
  IF negative /\ mov >= 2^7 THEN mov - 2^8 ELSE mov

\* Faulty variant: the sum is bounded at one side only.
BoundedAbove(v, limit) == IF v > limit THEN limit ELSE v

\* The pointer stays between 0 and the size, which is included.
Bounded(v, limit) ==
  CASE v > limit -> limit [] v < 0 -> 0 [] OTHER -> v

\* Faulty variant: the column past the right edge is drawn.
pixelPast(col, row, before) ==
  IF fb_width >= col /\ fb_height > row THEN row * Pitch + col ELSE before

\* pixel: nothing is drawn past the right and the lower edge.
pixel(col, row, before) ==
  IF fb_width > col /\ fb_height > row THEN row * Pitch + col ELSE before

\* mouse_int, called for a packet that moved the pointer: the left button draws.
mouse_int(flags) ==
  drawn' = IF Bit(flags, 0) THEN pixel(x', y', drawn) ELSE drawn

FlagsByte(b) ==
  /\ handler_cycle = 0 /\ handler_cycle' = 1
  /\ current_packet' = [current_packet EXCEPT ![1] = b]
  /\ discard_packet' = (discard_packet \/ Bit(b, 6) \/ Bit(b, 7) \/ ~Bit(b, 3))
  /\ UNCHANGED <<x, y, drawn>>

XByte(b) ==
  /\ handler_cycle = 1 /\ handler_cycle' = 2
  /\ current_packet' = [current_packet EXCEPT ![2] = b]
  /\ UNCHANGED <<discard_packet, x, y, drawn>>

\* Faulty variant: discard_packet is not reset.
YByteStillDiscarding(b) ==
  /\ handler_cycle = 2 /\ handler_cycle' = 0
  /\ current_packet' = [current_packet EXCEPT ![3] = b]
  /\ IF discard_packet
     THEN UNCHANGED <<x, y, drawn>>
     ELSE LET flags == current_packet[1]
          IN  /\ x' = Bounded(x + Movement(Bit(flags, 4), current_packet[2]), fb_width)
              /\ y' = Bounded(y - Movement(Bit(flags, 5), b), fb_height)
              /\ mouse_int(flags)
  /\ UNCHANGED discard_packet

\* The third byte completes a packet, which moves the pointer.
YByte(b) ==
  /\ handler_cycle = 2 /\ handler_cycle' = 0
  /\ current_packet' = [current_packet EXCEPT ![3] = b]
  /\ IF discard_packet
     THEN UNCHANGED <<x, y, drawn>>
     ELSE LET flags == current_packet[1]
          IN  /\ x' = Bounded(x + Movement(Bit(flags, 4), current_packet[2]), fb_width)
              /\ y' = Bounded(y - Movement(Bit(flags, 5), b), fb_height)
              /\ mouse_int(flags)
  /\ discard_packet' = FALSE

\* Faulty variant: the warm-up is over before the port is read.
_mouse_intUnread ==
  /\ irq12
  /\ irq12' = FALSE
  /\ IF ticks < Warmup
     THEN UNCHANGED <<packet, obf>>
     ELSE obf' = FALSE /\ (FlagsByte(data) \/ XByte(data) \/ YByte(data))
  /\ UNCHANGED <<driver, ticks, config, data, devices, irq1, original, disturbed>>

\* _mouse_int: the port is read in every case.
_mouse_int ==
  /\ irq12
  /\ irq12' = FALSE /\ obf' = FALSE
  /\ IF ticks < Warmup
     THEN UNCHANGED packet
     ELSE FlagsByte(data) \/ XByte(data) \/ YByte(data)
  /\ UNCHANGED <<driver, ticks, config, data, devices, irq1, original, disturbed>>

-----------------------------------------------------------------------------
(* History *)

\* What a packet means by the PS/2 protocol: nine bits of two's complement,
\* no movement if one of them overflowed.
Counts(negative, mov) == mov - (IF negative THEN 2^8 ELSE 0)

Wanted(p, wish) ==
  IF Bit(p[1], 6) \/ Bit(p[1], 7) THEN wish
  ELSE <<Bounded(wish[1] + Counts(Bit(p[1], 4), p[2]), fb_width),
         Bounded(wish[2] - Counts(Bit(p[1], 5), p[3]), fb_height)>>

Draws(p) == Bit(p[1], 0) /\ ~(Bit(p[1], 6) \/ Bit(p[1], 7))

WantedPixel(p, to) ==
  IF Draws(p) /\ to[1] < fb_width /\ to[2] < fb_height
  THEN to[2] * Pitch + to[1] ELSE wdrawn

Settle ==
  settled' = (settled \/ (Quiet' /\ pc' = Done /\ ticks' = Warmup /\ handler_cycle' = 0))

Follow ==
  IF settled THEN UNCHANGED <<wx, wy, wdrawn>>
  ELSE wx' = x' /\ wy' = y' /\ wdrawn' = drawn'

Next ==
  \/ /\ Command \/ Read \/ Transfer \/ KeyPress \/ Tick \/ KeyboardIrq \/ _mouse_int
     /\ Settle /\ Follow
  \/ \E p \in Packets :
       /\ MouseMoves(p)
       /\ IF settled
          THEN LET to == Wanted(p, <<wx, wy>>)
               IN  wx' = to[1] /\ wy' = to[2] /\ wdrawn' = WantedPixel(p, to)
          ELSE Follow
       /\ Settle

InitMouse == (Command \/ Read) /\ Settle /\ Follow
Serve == (Transfer \/ KeyboardIrq \/ _mouse_int) /\ Settle /\ Follow

\* _start's code goes on running whatever interrupts it, the controller
\* passes bytes on and interrupts are served.
Spec == Init /\ [][Next]_vars /\ WF_vars(InitMouse) /\ WF_vars(Serve)

-----------------------------------------------------------------------------
(* Properties *)

\* The variables have their types; the pointer is on the screen or one past
\* its right and lower edge, where pixel() draws nothing.
TypeOK ==
  /\ pc \in 1 .. Done /\ ticks \in 0 .. Warmup
  /\ {status, config, original} \subseteq 0 .. 255
  /\ handler_cycle \in 0 .. 2
  /\ current_packet \in (0 .. 255) \X (0 .. 255) \X (0 .. 255)
  /\ x \in 0 .. fb_width /\ y \in 0 .. fb_height
  /\ wx \in 0 .. fb_width /\ wy \in 0 .. fb_height
  /\ {drawn, wdrawn} \subseteq NoPixel .. (fb_height * Pitch - 1)
  /\ data \in 0 .. 255 /\ {replies, typed, moved} \subseteq Seq(0 .. 255)
  /\ {discard_packet, obf, reporting, irq1, irq12, disturbed, settled} \subseteq BOOLEAN

\* Whoever wins the race for the controller's answer, the poller or the
\* keyboard handler, init_mouse changes no bit of the configuration but the
\* two of the mouse; a key pressed before it has the answer is the exception.
ConfigKept ==
  pc > 5 /\ ~disturbed => config = ClearBit(SetBit(original, 1), 5)

\* From the moment everything was quiet after the warm-up, the pointer is
\* where the mouse's packets put it as soon as they are through, however
\* keys and packets interleave at the port the two handlers share.
PointerFollowsMouse ==
  settled /\ Quiet => x = wx /\ y = wy

\* And the pixel drawn last is the one under the pointer when a packet with the
\* left button came last; a packet that puts the pointer on the edge past the
\* screen draws none, neither there nor at the start of the row below.
PixelsFollowMouse ==
  settled /\ Quiet => drawn = wdrawn

\* After init_mouse no byte stays in the register, where it would block both
\* devices for good - provided the firmware had left the keyboard's interrupt
\* on and no key disturbed init_mouse.
PortIsServed ==
  (pc = Done /\ obf /\ Bit(original, 0) /\ ~disturbed) ~> ~obf

\* init_mouse ends, with or without a mouse, whoever takes the answers.
InitEnds == <>(pc = Done)
=============================================================================
