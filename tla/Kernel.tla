------------------------------- MODULE Kernel -------------------------------
(***************************************************************************)
(* One processor, its interrupts and what they interrupt: _start           *)
(* (kernel.c) up to its idle loop, run_elf's publication of a process and  *)
(* the clock handler that dispatches it (tasks.c), the IDT, the interrupt  *)
(* controllers, the handlers and the panic (interrupts.c, kernelasm.asm).  *)
(*                                                                         *)
(* All gates are interrupt gates: a handler runs with IF clear from the    *)
(* moment the line is accepted to its iretq, so its body is one step.      *)
(* _start runs with IF set from install_idt on, so it is cut into the      *)
(* steps between which a handler can see a difference.                     *)
(*                                                                         *)
(* A process is known by its number.  Its address space (cr3), its entry   *)
(* in processes[] and its code are all called by that number; 0 is _start. *)
(***************************************************************************)
EXTENDS Integers, Sequences, Stubs

CONSTANTS
  Lines,        \* the interrupt lines that devices raise; none is masked
  Loads,        \* how many times _start calls run_elf (1)
  TableSize,    \* entries in processes[] and processesinfo[] (100)
  EntryFlags,   \* bit 9 of the entry points that ELF files have
  None,         \* no handler is running
  Halted        \* nobody runs: the processor stays in except's hlt loop

Boot == 0
Timer == 0
Keyboard == 1
Mice == {9, 12}

\* Processes are numbered from 1, so the last table index is Loads.
ASSUME LoadsAssumption ==
  /\ TableSize \in Nat /\ Loads \in 0 .. (TableSize - 1)
  /\ {Timer, Keyboard} \subseteq Lines /\ Lines \subseteq (0 .. 15) \ {2}
  /\ EntryFlags \subseteq BOOLEAN /\ EntryFlags # {}
  /\ Unset \notin Nat /\ None \notin Nat /\ Halted \notin Nat

VARIABLES
  pc,             \* where _start is
  ctx,            \* who runs: _start, a process, or nobody after a panic
  iflag,          \* the processor's interrupt flag IF
  cr3,            \* the address space that is loaded
  regs,           \* the registers of who runs, as module Stubs names values
  gates,          \* the vectors with a gate in the IDT
  irr, isr,       \* the lines requested and the lines in service at the PICs
  handling,       \* the line whose handler runs, or None
  built,          \* process -> the parts of its memory that are ready
  processes,      \* the saved stack pointer of each process
  processesinfo,  \* the cr3 of each process
  processnum,     \* how many processes there are
  process,        \* the one dispatched last
  panicked,
  rebooted

boot == <<pc, built, processes, processesinfo>>
sched == <<processnum, process, cr3>>
vars == <<boot, sched, regs, ctx, iflag, gates, irr, isr, handling, panicked, rebooted>>

Indices == 0 .. (TableSize - 1)

Own == [r \in Registers |-> r]

Init ==
  /\ pc = "early" /\ ctx = Boot /\ iflag = FALSE /\ cr3 = Boot /\ regs = Own
  /\ gates = {} /\ irr = {} /\ isr = {} /\ handling = None
  /\ built = [k \in Indices |-> {}]
  /\ processes = [k \in Indices |-> Unset]
  /\ processesinfo = [k \in Indices |-> Unset]
  /\ processnum = 0 /\ process = 0
  /\ panicked = FALSE /\ rebooted = FALSE

-----------------------------------------------------------------------------
(* The two 8259A interrupt controllers, the second on line 2 of the first  *)

Vector(line) == IF line < 8 THEN 32 + line ELSE 40 + (line - 8)

\* Line 2 of the first controller stands for the eight lines of the second.
OnMaster(line) == IF line < 8 THEN line ELSE 2

Rank(line) == 16 * OnMaster(line) + line

\* A line gets through when nothing of its rank or above is in service.
Deliverable(line) ==
  /\ line \in irr
  /\ \A s \in isr : OnMaster(s) > OnMaster(line)
  /\ \A other \in irr : Rank(line) <= Rank(other)

\* A non-specific EOI ends the highest line in service at a controller.
EndHighest(lines, S) == S \ {l \in S \cap lines : \A m \in S \cap lines : l <= m}

Eoi1(S) == EndHighest(0 .. 7, S)
Eoi2(S) == EndHighest(8 .. 15, S)

\* Faulty variant: the second controller is not acknowledged for line 12.
pic_ackPast44(interrupt, S) == IF interrupt > 44 THEN Eoi1(Eoi2(S)) ELSE Eoi1(S)

pic_ack(interrupt, S) == IF interrupt >= 40 THEN Eoi1(Eoi2(S)) ELSE Eoi1(S)

\* A device raises its line; raising it again before it is accepted is lost.
Raise(line) ==
  /\ line \notin irr
  /\ irr' = irr \cup {line}
  /\ UNCHANGED <<boot, sched, regs, ctx, iflag, gates, isr, handling, panicked, rebooted>>

-----------------------------------------------------------------------------
(* _start *)

BootRuns == ctx = Boot /\ handling = None /\ ~panicked

\* settimer, pmm_init, vmm_init; without a framebuffer tag _start stops here.
Early ==
  /\ BootRuns /\ pc = "early"
  /\ pc' \in {"idt", "stopped"}
  /\ UNCHANGED <<built, processes, processesinfo, sched, regs, ctx, iflag, gates, irr,
                 isr, handling, panicked, rebooted>>

\* install_idt and pic_remap, which resets the controllers and ends in sti.
install_idt ==
  /\ BootRuns /\ pc = "idt"
  /\ gates' = {0, 4, 6, 8, 14, 32, 33, 41, 44, 128}
  /\ irr' = {} /\ isr' = {}
  /\ iflag' = TRUE
  /\ pc' = "mouse"
  /\ UNCHANGED <<built, processes, processesinfo, sched, regs, ctx, handling,
                 panicked, rebooted>>

init_mouse ==
  /\ BootRuns /\ pc = "mouse"
  /\ pc' = IF Loads > 0 THEN "space" ELSE "report"
  /\ UNCHANGED <<built, processes, processesinfo, sched, regs, ctx, iflag, gates, irr,
                 isr, handling, panicked, rebooted>>

\* run_elf returns one of its error codes and nothing has changed.
RejectElf ==
  /\ BootRuns /\ pc = "space"
  /\ pc' = "report"
  /\ UNCHANGED <<built, processes, processesinfo, sched, regs, ctx, iflag, gates, irr,
                 isr, handling, panicked, rebooted>>

\* What run_elf prepares, in its order: the page tables, the stack and the
\* segments mapped and filled, the first frame copied to the stack.
Parts == <<"space", "stack", "image", "frame">>

AllParts == {Parts[n] : n \in 1 .. Len(Parts)}

Build(n) ==
  /\ BootRuns /\ pc = Parts[n]
  /\ built' = [built EXCEPT ![processnum + 1] = @ \cup {Parts[n]}]
  /\ pc' = IF n < Len(Parts) THEN Parts[n + 1] ELSE "entry"
  /\ UNCHANGED <<processes, processesinfo, sched, regs, ctx, iflag, gates, irr, isr,
                 handling, panicked, rebooted>>

\* Faulty variant: the process is counted before it is described.
SetEntryCounted ==
  /\ BootRuns /\ pc = "entry"
  /\ processes' = [processes EXCEPT ![processnum + 1] = processnum + 1]
  /\ processnum' = processnum + 1
  /\ pc' = "count"
  /\ UNCHANGED <<built, processesinfo, process, cr3, regs, ctx, iflag, gates, irr,
                 isr, handling, panicked, rebooted>>

\* processes[processnum+1] = state.rsp
SetEntry ==
  /\ BootRuns /\ pc = "entry"
  /\ processes' = [processes EXCEPT ![processnum + 1] = processnum + 1]
  /\ pc' = "info"
  /\ UNCHANGED <<built, processesinfo, sched, regs, ctx, iflag, gates, irr, isr,
                 handling, panicked, rebooted>>

\* processesinfo[processnum+1] = info
SetInfo ==
  /\ BootRuns /\ pc = "info"
  /\ processesinfo' = [processesinfo EXCEPT ![processnum + 1] = processnum + 1]
  /\ pc' = "count"
  /\ UNCHANGED <<built, processes, sched, regs, ctx, iflag, gates, irr, isr, handling,
                 panicked, rebooted>>

\* processnum++ and return 0
Count ==
  /\ BootRuns /\ pc = "count"
  /\ processnum' = processnum + 1
  /\ pc' = IF processnum' < Loads THEN "space" ELSE "report"
  /\ UNCHANGED <<built, processes, processesinfo, process, cr3, regs, ctx, iflag,
                 gates, irr, isr, handling, panicked, rebooted>>

\* _start prints run_elf's result and goes to its hlt loop.
Report ==
  /\ BootRuns /\ pc = "report"
  /\ pc' = "idle"
  /\ UNCHANGED <<built, processes, processesinfo, sched, regs, ctx, iflag, gates, irr,
                 isr, handling, panicked, rebooted>>

BootStep ==
  \/ Early \/ install_idt \/ init_mouse \/ RejectElf
  \/ \E n \in 1 .. Len(Parts) : Build(n)
  \/ SetEntry \/ SetInfo \/ Count \/ Report

-----------------------------------------------------------------------------
(* Exceptions and the panic *)

\* Faulty variant: the scheduler is left running.
exceptStillScheduling ==
  /\ panicked' = TRUE
  /\ ctx' = Halted /\ iflag' = TRUE /\ handling' = None
  /\ UNCHANGED processnum

\* except: the processor stays in its hlt loop with IF clear.
except ==
  /\ panicked' = TRUE
  /\ processnum' = 0
  /\ ctx' = Halted /\ iflag' = FALSE /\ handling' = None

\* A process divides by zero, overflows, executes an undefined opcode, breaks
\* a protection rule (13) or touches an unmapped page.  A vector without a
\* gate becomes a double fault, which has one; every one of them panics.
Fault(v) ==
  /\ ctx \in 1 .. Loads /\ handling = None
  /\ v \in gates \/ 8 \in gates
  /\ except
  /\ UNCHANGED <<boot, process, cr3, regs, gates, irr, isr, rebooted>>

-----------------------------------------------------------------------------
(* Interrupts *)

\* The processor takes a line that has a gate.
Accept(line) ==
  /\ iflag /\ handling = None /\ Deliverable(line)
  /\ Vector(line) \in gates
  /\ irr' = irr \ {line} /\ isr' = isr \cup {line, OnMaster(line)}
  /\ iflag' = FALSE /\ handling' = line
  /\ UNCHANGED <<boot, sched, regs, ctx, gates, panicked, rebooted>>

\* The processor takes a line that has none: a double fault.
AcceptUnhandled(line) ==
  /\ iflag /\ handling = None /\ Deliverable(line)
  /\ Vector(line) \notin gates
  /\ irr' = irr \ {line} /\ isr' = isr \cup {line, OnMaster(line)}
  /\ except
  /\ UNCHANGED <<boot, process, cr3, regs, gates, rebooted>>

\* iretq to the context that was interrupted, which had IF set.
Iretq == iflag' = TRUE /\ handling' = None /\ UNCHANGED ctx

\* Faulty variant: the stub returns without the EOI.
ClockIdleNoEoi ==
  /\ handling = Timer /\ processnum = 0
  /\ Iretq
  /\ UNCHANGED <<boot, sched, regs, gates, irr, isr, panicked, rebooted>>

\* clock_handler with no process: the interrupted stack is returned.
ClockIdle ==
  /\ handling = Timer /\ processnum = 0
  /\ isr' = Eoi1(isr)
  /\ regs' = interrupt_handler_32(clockStack(regs))
  /\ Iretq
  /\ UNCHANGED <<boot, sched, gates, irr, panicked, rebooted>>

\* Faulty variant: the count is compared after the increment.
NextProcessLate == IF process > processnum THEN 1 ELSE process + 1

\* Faulty variant: the first process is chosen every time.
NextProcessFirst == 1

\* The process to run next.
NextProcess == IF processnum = process THEN 1 ELSE process + 1

\* The frame that run_elf writes, in the order of struct ProcessState.
FrameFields ==
  <<"r15", "r14", "r13", "r12", "r11", "r10", "r9", "r8", "rbp", "rdi", "rsi",
    "rdx", "rcx", "rbx", "rax", "intno", "ec", "rip", "cs", "rflags", "rsp", "ss">>

Frame ==
  [n \in DOMAIN FrameFields |->
     IF FrameFields[n] \in {"rip", "rbp", "rsp"} THEN FrameFields[n] ELSE Unset]

\* What a process finds in the registers.
Dispatched == interrupt_handler_32(Frame)

\* clock_handler with processes: the next one's address space is loaded and
\* its frame becomes the stack; the registers of the context that was
\* interrupted stay on the old stack, which nothing refers to any more.  The
\* EOI precedes pop_all and iretq.  A code segment that run_elf did not set
\* may fault, and flags it did not set are those of the entry point.
ClockSwitch(flags) ==
  /\ handling = Timer /\ processnum # 0
  /\ process' = NextProcess
  /\ cr3' = processesinfo[process']
  /\ isr' = Eoi1(isr)
  /\ regs' = Dispatched
  /\ \/ /\ ctx' = processes[process']
        /\ iflag' = (Dispatched["rflags"] = "rip" => flags) /\ handling' = None
        /\ UNCHANGED <<processnum, panicked>>
     \/ /\ Dispatched["cs"] = Unset
        /\ except
  /\ UNCHANGED <<boot, gates, irr, rebooted>>

\* interrupt_handler(33): after a panic any key reboots.  The keyboard's own
\* state is not part of this module.
KeyboardHandler ==
  /\ handling = Keyboard
  /\ rebooted' = panicked
  /\ isr' = pic_ack(33, isr)
  /\ regs' = Resumed(int_handler(33, regs))
  /\ Iretq
  /\ UNCHANGED <<boot, sched, gates, irr, panicked>>

\* interrupt_handler(44), the gate of vectors 44 and 41.
MouseHandler ==
  /\ handling \in Mice
  /\ isr' = pic_ack(44, isr)
  /\ regs' = Resumed(int_handler(44, regs))
  /\ Iretq
  /\ UNCHANGED <<boot, sched, gates, irr, panicked, rebooted>>

\* A process loads its registers and makes a system call.
Loaded(process_) ==
  [r \in Registers |-> IF r \in General THEN r ELSE process_[r]]

SystemCall ==
  /\ ctx \in 1 .. Loads /\ handling = None /\ 128 \in gates
  /\ regs' = Resumed(interrupt_handler_128(Loaded(regs)))
  /\ UNCHANGED <<boot, sched, ctx, iflag, gates, irr, isr, handling, panicked,
                 rebooted>>

Handler ==
  \/ ClockIdle \/ KeyboardHandler \/ MouseHandler
  \/ \E flags \in EntryFlags : ClockSwitch(flags)

Next ==
  \/ BootStep
  \/ \E line \in Lines : Raise(line) \/ Accept(line) \/ AcceptUnhandled(line)
  \/ Handler \/ SystemCall
  \/ \E v \in {0, 4, 6, 13, 14} : Fault(v)

Spec == Init /\ [][Next]_vars

(***************************************************************************)
(* _start's code and the handlers run to their end, the timer keeps        *)
(* ticking, and a line that is at the head of the queue again and again is *)
(* taken.  Nothing is assumed of the other devices or of what processes    *)
(* do.                                                                     *)
(***************************************************************************)
FairSpec ==
  /\ Spec
  /\ WF_vars(BootStep) /\ WF_vars(Handler)
  /\ WF_vars(Raise(Timer))
  /\ \A line \in Lines : SF_vars(Accept(line) \/ AcceptUnhandled(line))

-----------------------------------------------------------------------------
(* Properties *)

\* The variables have their types.
TypeOK ==
  /\ pc \in {"early", "idt", "mouse", "entry", "info", "count", "report",
             "idle", "stopped"} \cup AllParts
  /\ ctx \in 0 .. Loads \cup {Halted}
  /\ iflag \in BOOLEAN
  /\ cr3 \in 0 .. Loads
  /\ gates \subseteq 0 .. 255
  /\ irr \subseteq Lines /\ isr \subseteq Lines \cup {2}
  /\ handling \in {None} \cup Lines
  /\ built \in [Indices -> SUBSET AllParts]
  /\ processes \in [Indices -> 0 .. Loads \cup {Unset}]
  /\ processesinfo \in [Indices -> 0 .. Loads \cup {Unset}]
  /\ processnum \in 0 .. Loads /\ process \in 0 .. Loads
  /\ panicked \in BOOLEAN /\ rebooted \in BOOLEAN

\* At whatever point of run_elf the timer strikes, the clock handler loads
\* only the address space of a process that run_elf has finished, and what
\* then runs is that process.
DispatchedIsFinished ==
  cr3 # Boot => /\ cr3 \in 1 .. processnum \/ panicked
                /\ built[cr3] = AllParts
                /\ processes[cr3] = cr3 /\ processesinfo[cr3] = cr3
                /\ ctx \in {cr3, Halted}

\* Whenever the processor can be interrupted nothing is left in service, so
\* that no handler, of either controller, blocks the lines below it.
NothingLeftInService ==
  iflag /\ handling = None => isr = {}

\* Whatever interrupts it, _start has its own registers when it runs, and a
\* process those it was started with or has loaded since.
RegistersAreKept ==
  /\ ctx = Boot => regs = Own
  /\ ctx \in 1 .. Loads => regs \in {Dispatched, Loaded(Dispatched)}

\* The stubs hand the C functions what they take: interrupt_handler its vector
\* and the error code where there is one, syscall_handler the registers that
\* the process has loaded.
ArgumentsArrive ==
  /\ handling = Keyboard => int_handler(33, regs).regs["rdi"] = 33
  /\ handling \in Mice => int_handler(44, regs).regs["rdi"] = 44
  /\ ctx \in 1 .. Loads /\ handling = None =>
       /\ \A v \in {0, 4, 6} : int_handler(v, regs).regs["rdi"] = v
       /\ \A v \in HasCode :
            LET m == eint_handler(v, regs) IN m.regs["rdi"] = v /\ m.regs["rsi"] = Code
       /\ \A r \in {"rdi", "rsi", "rdx"} :
            interrupt_handler_128(Loaded(regs)).regs[r] = r

\* After a panic no process and no part of _start runs any more.
PanicIsFinal ==
  [][panicked => ctx' = ctx /\ processnum' = 0 /\ UNCHANGED <<pc, cr3>>]_vars

\* Interrupts are off for good: a panic, or a process whose flags say so, or
\* _start without a framebuffer.
Deaf == ~iflag /\ handling = None

\* Every finished process gets the processor, again and again, unless the
\* processor ends up deaf to the timer.
ProcessesTakeTurns ==
  \A k \in 1 .. Loads :
    [](processnum >= k => <>(cr3 = k \/ Deaf))

\* From some time on the clock handler is done before the next tick (10 kHz
\* against a handler of some microseconds).
TimerLeavesGaps == <>[](handling = Timer => Timer \notin irr)

\* A key press is handled, whatever the mouse and other devices do, unless the
\* processor ends up deaf or the clock handler outlasts its period.
KeysAreHandled ==
  TimerLeavesGaps => (Keyboard \in irr ~> (Keyboard \notin irr \/ Deaf))

\* A process starts at the entry point of its ELF file.
StartsAtEntryPoint ==
  ctx \in 1 .. Loads => regs["rip"] = "rip"

\* After a panic a key press restarts the machine.
AnyKeyRestarts ==
  (panicked /\ Keyboard \in irr) ~> rebooted
=============================================================================
