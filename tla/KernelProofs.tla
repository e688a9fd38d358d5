---------------------------- MODULE KernelProofs ----------------------------
(***************************************************************************)
(* Theorems about module Kernel, for every number of processes, every size *)
(* of the tables and every set of interrupt lines: the interrupt           *)
(* controllers are left clean, the clock handler dispatches only what      *)
(* run_elf has finished, a panic is final, and the stubs give whoever was  *)
(* interrupted its registers back and the C functions their arguments.     *)
(***************************************************************************)
EXTENDS Kernel, TLAPS, SequenceTheorems

(* The inductive invariant: TypeOK and the four parts below. *)

\* run_elf has written everything that belongs to process k.
Finished(k) ==
  built[k] = AllParts /\ processes[k] = k /\ processesinfo[k] = k

\* Who runs: the process dispatched last, or _start as process 0, or nobody.
RunInv ==
  /\ cr3 = process
  /\ ctx \in {process, Halted}
  /\ panicked <=> ctx = Halted
  /\ panicked => processnum = 0 /\ ~iflag /\ handling = None
  /\ ~panicked => process <= processnum

\* What the counter and the dispatcher refer to is finished.
FinishedInv ==
  /\ \A k \in 1 .. processnum : Finished(k)
  /\ process # 0 => Finished(process)

\* How far run_elf is with the process after the last one counted.
LoadInv ==
  ctx = Boot =>
    /\ pc \in {"early", "idt", "mouse"} => processnum = 0
    /\ pc \in {"space", "stack", "image", "frame", "entry", "info", "count"}
         => processnum < Loads
    /\ pc = "stack" => {"space"} \subseteq built[processnum + 1]
    /\ pc = "image" => {"space", "stack"} \subseteq built[processnum + 1]
    /\ pc = "frame" => {"space", "stack", "image"} \subseteq built[processnum + 1]
    /\ pc \in {"entry", "info", "count"} => built[processnum + 1] = AllParts
    /\ pc \in {"info", "count"} => processes[processnum + 1] = processnum + 1
    /\ pc = "count" => processesinfo[processnum + 1] = processnum + 1

\* In service is the line whose handler runs, at its own controller and at
\* the first one.
ServiceInv ==
  /\ handling = None /\ ~panicked => isr = {}
  /\ handling # None => isr = {handling, OnMaster(handling)}

IInv == TypeOK /\ RunInv /\ FinishedInv /\ LoadInv /\ ServiceInv

-----------------------------------------------------------------------------
(* Constants *)

\* What run_elf prepares, spelled out.
LEMMA PartsAre ==
  /\ Len(Parts) = 4
  /\ Parts[1] = "space" /\ Parts[2] = "stack"
  /\ Parts[3] = "image" /\ Parts[4] = "frame"
  /\ AllParts = {"space", "stack", "image", "frame"}
<1>1. /\ Len(Parts) = 4
      /\ Parts[1] = "space" /\ Parts[2] = "stack"
      /\ Parts[3] = "image" /\ Parts[4] = "frame"
  BY DEF Parts
<1>2. 1 .. Len(Parts) = {1, 2, 3, 4}
  BY <1>1
<1> QED
  BY <1>1, <1>2 DEF AllParts

\* Indices of the tables, and what is not a process.
LEMMA ConstantsAre ==
  /\ Loads \in Nat /\ 0 .. Loads \subseteq Indices
  /\ Halted \notin 0 .. Loads /\ Halted # Boot /\ Unset \notin 0 .. Loads
  /\ None \notin Lines /\ None # Timer /\ None # Keyboard /\ None \notin Mice
<1>1. Loads \in Nat /\ 0 .. Loads \subseteq Indices
  BY LoadsAssumption DEF Indices
<1>2. Halted \notin 0 .. Loads /\ Halted # Boot /\ Unset \notin 0 .. Loads
  BY <1>1, LoadsAssumption DEF Boot
<1>3. None \notin Lines
  <2>1. Lines \subseteq Nat
    BY LoadsAssumption
  <2> QED
    BY <2>1, LoadsAssumption
<1>4. None # 0 /\ None # 1 /\ None # 9 /\ None # 12
  BY LoadsAssumption
<1> QED
  BY <1>1, <1>2, <1>3, <1>4 DEF Timer, Keyboard, Mice

\* An acknowledgement only takes lines out of service.
LEMMA EoiShrinks ==
  ASSUME NEW S
  PROVE  Eoi1(S) \subseteq S /\ Eoi2(S) \subseteq S
BY DEF Eoi1, Eoi2, EndHighest

\* The clock stub's EOI ends the timer.
LEMMA TimerEnds ==
  Eoi1({Timer, OnMaster(Timer)}) = {}
<1>1. OnMaster(Timer) = Timer /\ Timer = 0
  BY DEF OnMaster, Timer
<1>2. {0} \cap (0 .. 7) = {0}
  OBVIOUS
<1> QED
  BY <1>1, <1>2 DEF Eoi1, EndHighest

\* pic_ack(33) ends the keyboard.
LEMMA KeyboardEnds ==
  pic_ack(33, {Keyboard, OnMaster(Keyboard)}) = {}
<1>1. OnMaster(Keyboard) = Keyboard /\ Keyboard = 1
  BY DEF OnMaster, Keyboard
<1>2. {1} \cap (0 .. 7) = {1}
  OBVIOUS
<1> QED
  BY <1>1, <1>2 DEF pic_ack, Eoi1, EndHighest

\* pic_ack(44) ends a mouse line at both controllers.
LEMMA MouseEnds ==
  ASSUME NEW l \in Mice
  PROVE  pic_ack(44, {l, OnMaster(l)}) = {}
<1>1. l \in 8 .. 15 /\ OnMaster(l) = 2
  BY DEF OnMaster, Mice
<1>2. l # 2 /\ 2 \notin 8 .. 15 /\ 2 \in 0 .. 7 /\ l <= l
  BY <1>1
<1>3. Eoi2({l, 2}) = {2}
  <2>1. {l, 2} \cap (8 .. 15) = {l}
    BY <1>1, <1>2
  <2> QED
    BY <1>2, <2>1 DEF Eoi2, EndHighest
<1>4. Eoi1({2}) = {}
  <2>1. {2} \cap (0 .. 7) = {2}
    BY <1>2
  <2> QED
    BY <2>1 DEF Eoi1, EndHighest
<1> QED
  BY <1>1, <1>3, <1>4 DEF pic_ack

\* A line and its place at the first controller are among the lines in service.
LEMMA InService ==
  ASSUME NEW line \in Lines
  PROVE  {line, OnMaster(line)} \subseteq Lines \cup {2}
BY DEF OnMaster

-----------------------------------------------------------------------------
(* The invariant is inductive *)

\* The kernel starts with no process and the controllers clean.
LEMMA KernelInit ==
  Init => IInv
<1> SUFFICES ASSUME Init PROVE IInv
  OBVIOUS
<1> USE ConstantsAre DEF Init
<1>1. TypeOK
  <2>1. built \in [Indices -> SUBSET AllParts]
    OBVIOUS
  <2>2. /\ processes \in [Indices -> 0 .. Loads \cup {Unset}]
        /\ processesinfo \in [Indices -> 0 .. Loads \cup {Unset}]
    OBVIOUS
  <2>3. /\ ctx \in 0 .. Loads \cup {Halted} /\ cr3 \in 0 .. Loads
        /\ processnum \in 0 .. Loads /\ process \in 0 .. Loads
    BY DEF Boot
  <2> QED
    BY <2>1, <2>2, <2>3 DEF TypeOK
<1>2. RunInv
  BY DEF RunInv, Boot
<1>3. FinishedInv
  BY DEF FinishedInv
<1>4. LoadInv
  BY DEF LoadInv
<1>5. ServiceInv
  BY DEF ServiceInv
<1> QED
  BY <1>1, <1>2, <1>3, <1>4, <1>5 DEF IInv

\* A device's request changes nothing but irr.
LEMMA RaiseStep ==
  ASSUME IInv, NEW line \in Lines, Raise(line)
  PROVE  IInv'
<1> USE DEF IInv, Raise, boot, sched
<1>1. TypeOK'
  BY DEF TypeOK
<1>2. RunInv' /\ ServiceInv'
  BY DEF RunInv, ServiceInv
<1>3. FinishedInv' /\ LoadInv'
  BY DEF FinishedInv, Finished, LoadInv
<1> QED
  BY <1>1, <1>2, <1>3

\* While _start runs, no process has been dispatched and nobody has panicked.
LEMMA BootIsZero ==
  ASSUME IInv, BootRuns
  PROVE  /\ process = 0 /\ cr3 = 0 /\ ctx = Boot /\ handling = None
         /\ isr = {} /\ ~panicked
BY ConstantsAre DEF IInv, BootRuns, TypeOK, RunInv, ServiceInv, Boot

\* The boot's steps before and after the loading of processes.
LEMMA StartStep ==
  ASSUME IInv, Early \/ install_idt \/ init_mouse \/ RejectElf \/ Report
  PROVE  IInv'
<1>1. BootRuns
  BY DEF Early, install_idt, init_mouse, RejectElf, Report
<1>2. /\ UNCHANGED <<built, processes, processesinfo, sched, regs, ctx, handling, panicked>>
      /\ pc' \in {"idt", "stopped", "mouse", "space", "report", "idle"}
      /\ pc' \in {"idt", "mouse", "space"} => processnum = 0
      /\ pc' = "space" => Loads > 0
  <2>1. /\ pc \in {"early", "idt", "mouse"} => processnum = 0
        /\ Loads \in Nat
    BY <1>1, ConstantsAre DEF IInv, LoadInv, BootRuns
  <2>2. CASE Early
    BY <2>1, <2>2 DEF Early
  <2>3. CASE install_idt
    BY <2>1, <2>3 DEF install_idt
  <2>4. CASE init_mouse
    BY <2>1, <2>4 DEF init_mouse
  <2>5. CASE RejectElf \/ Report
    BY <2>5 DEF RejectElf, Report
  <2> QED
    BY <2>2, <2>3, <2>4, <2>5
<1>3. /\ iflag' \in BOOLEAN /\ isr' \subseteq isr
      /\ gates' \subseteq 0 .. 255 /\ irr' \subseteq Lines
      /\ UNCHANGED rebooted
  <2>1. CASE install_idt
    <3>1. {0, 4, 6, 8, 14, 32, 33, 41, 44, 128} \subseteq 0 .. 255
      OBVIOUS
    <3> QED
      BY <2>1, <3>1 DEF install_idt
  <2>2. CASE Early \/ init_mouse \/ RejectElf \/ Report
    BY <2>2 DEF Early, init_mouse, RejectElf, Report, IInv, TypeOK
  <2> QED
    BY <2>1, <2>2
<1>4. TypeOK'
  BY <1>2, <1>3, PartsAre DEF IInv, TypeOK, sched
<1>5. RunInv' /\ ServiceInv'
  BY <1>1, <1>2, <1>3, BootIsZero, ConstantsAre DEF IInv, RunInv, ServiceInv, sched, Boot
<1>6. FinishedInv'
  BY <1>2 DEF IInv, FinishedInv, Finished, sched
<1>7. LoadInv'
  BY <1>2, ConstantsAre DEF LoadInv, sched
<1> QED
  BY <1>4, <1>5, <1>6, <1>7 DEF IInv

\* run_elf writes one part of the process it is loading.
LEMMA BuildStep ==
  ASSUME IInv, NEW n \in 1 .. Len(Parts), Build(n)
  PROVE  IInv'
<1> DEFINE k == processnum + 1
<1>1. BootRuns /\ n \in {1, 2, 3, 4} /\ pc = Parts[n]
  BY PartsAre DEF Build
<1>2. processnum < Loads /\ k \in 1 .. Loads /\ k \in Indices
  BY <1>1, PartsAre, ConstantsAre DEF IInv, TypeOK, LoadInv, BootRuns
<1>3. /\ built' = [built EXCEPT ![k] = @ \cup {Parts[n]}]
      /\ pc' = IF n < 4 THEN Parts[n + 1] ELSE "entry"
      /\ UNCHANGED <<processes, processesinfo, sched, regs, ctx, iflag, gates, irr,
                     isr, handling, panicked, rebooted>>
  BY PartsAre DEF Build
<1>4. /\ built' \in [Indices -> SUBSET AllParts]
      /\ built'[k] = built[k] \cup {Parts[n]}
      /\ \A j \in Indices \ {k} : built'[j] = built[j]
  BY <1>1, <1>2, <1>3, PartsAre DEF IInv, TypeOK
<1>5. TypeOK'
  BY <1>1, <1>3, <1>4, PartsAre DEF IInv, TypeOK, sched
<1>6. RunInv' /\ ServiceInv'
  BY <1>3 DEF IInv, RunInv, ServiceInv, sched
<1>7. FinishedInv'
  <2>1. \A j \in 1 .. processnum : Finished(j)'
    <3> SUFFICES ASSUME NEW j \in 1 .. processnum PROVE Finished(j)'
      OBVIOUS
    <3>1. j \in Indices \ {k} /\ Finished(j)
      BY ConstantsAre DEF IInv, TypeOK, FinishedInv
    <3> QED
      BY <1>3, <1>4, <3>1 DEF Finished
  <2> QED
    BY <1>1, <1>3, <2>1, BootIsZero DEF FinishedInv, sched
<1>8. LoadInv'
  <2>1. /\ pc = "stack" => {"space"} \subseteq built[k]
        /\ pc = "image" => {"space", "stack"} \subseteq built[k]
        /\ pc = "frame" => {"space", "stack", "image"} \subseteq built[k]
    BY <1>1 DEF IInv, LoadInv, BootRuns
  <2>2. processnum' = processnum /\ built[k] \subseteq AllParts
    BY <1>2, <1>3 DEF IInv, TypeOK, sched
  <2>3. CASE n = 1
    BY <1>2, <1>3, <1>4, <2>2, <2>3, PartsAre DEF LoadInv
  <2>4. CASE n = 2
    BY <1>1, <1>2, <1>3, <1>4, <2>1, <2>2, <2>4, PartsAre DEF LoadInv
  <2>5. CASE n = 3
    BY <1>1, <1>2, <1>3, <1>4, <2>1, <2>2, <2>5, PartsAre DEF LoadInv
  <2>6. CASE n = 4
    BY <1>1, <1>2, <1>3, <1>4, <2>1, <2>2, <2>6, PartsAre DEF LoadInv
  <2> QED
    BY <1>1, <2>3, <2>4, <2>5, <2>6
<1> QED
  BY <1>5, <1>6, <1>7, <1>8 DEF IInv

\* The three writes that publish a process, with the counter last.
LEMMA PublishStep ==
  ASSUME IInv, SetEntry \/ SetInfo \/ Count
  PROVE  IInv'
<1> DEFINE k == processnum + 1
<1>1. BootRuns /\ pc \in {"entry", "info", "count"}
  BY DEF SetEntry, SetInfo, Count
<1>2. /\ processnum < Loads /\ k \in 1 .. Loads /\ k \in Indices
      /\ processnum \in 0 .. Loads /\ Loads \in Nat
      /\ built[k] = AllParts
      /\ pc \in {"info", "count"} => processes[k] = k
      /\ pc = "count" => processesinfo[k] = k
  BY <1>1, ConstantsAre DEF IInv, TypeOK, LoadInv, BootRuns
<1>3. /\ processes \in [Indices -> 0 .. Loads \cup {Unset}]
      /\ processesinfo \in [Indices -> 0 .. Loads \cup {Unset}]
  BY DEF IInv, TypeOK
<1>4. process = 0 /\ ctx = Boot /\ handling = None /\ isr = {} /\ ~panicked /\ cr3 = 0
  BY <1>1, BootIsZero
<1>5. \A j \in 1 .. processnum : j \in Indices \ {k} /\ Finished(j)
  BY <1>2, ConstantsAre DEF IInv, FinishedInv
<1>6. ASSUME SetEntry PROVE IInv'
  <2>1. /\ processes' \in [Indices -> 0 .. Loads \cup {Unset}]
        /\ processes'[k] = k
        /\ \A j \in Indices \ {k} : processes'[j] = processes[j]
        /\ pc' = "info"
        /\ UNCHANGED <<built, processesinfo, sched, regs, ctx, iflag, gates, irr, isr,
                       handling, panicked, rebooted>>
    BY <1>2, <1>3, <1>6 DEF SetEntry
  <2>2. TypeOK'
    BY <2>1 DEF IInv, TypeOK, sched
  <2>3. RunInv' /\ ServiceInv'
    BY <2>1 DEF IInv, RunInv, ServiceInv, sched
  <2>4. FinishedInv'
    BY <1>4, <1>5, <2>1 DEF FinishedInv, Finished, sched
  <2>5. LoadInv'
    BY <1>2, <2>1 DEF LoadInv, sched
  <2> QED
    BY <2>2, <2>3, <2>4, <2>5 DEF IInv
<1>7. ASSUME SetInfo PROVE IInv'
  <2>1. /\ processesinfo' \in [Indices -> 0 .. Loads \cup {Unset}]
        /\ processesinfo'[k] = k
        /\ \A j \in Indices \ {k} : processesinfo'[j] = processesinfo[j]
        /\ pc = "info" /\ pc' = "count"
        /\ UNCHANGED <<built, processes, sched, regs, ctx, iflag, gates, irr, isr,
                       handling, panicked, rebooted>>
    BY <1>2, <1>3, <1>7 DEF SetInfo
  <2>2. TypeOK'
    BY <2>1 DEF IInv, TypeOK, sched
  <2>3. RunInv' /\ ServiceInv'
    BY <2>1 DEF IInv, RunInv, ServiceInv, sched
  <2>4. FinishedInv'
    BY <1>4, <1>5, <2>1 DEF FinishedInv, Finished, sched
  <2>5. LoadInv'
    BY <1>2, <2>1 DEF LoadInv, sched
  <2> QED
    BY <2>2, <2>3, <2>4, <2>5 DEF IInv
<1>8. ASSUME Count PROVE IInv'
  <2>1. /\ pc = "count" /\ processnum' = k
        /\ pc' \in {"space", "report"}
        /\ pc' = "space" => processnum' < Loads
        /\ UNCHANGED <<built, processes, processesinfo, process, cr3, regs, ctx,
                       iflag, gates, irr, isr, handling, panicked, rebooted>>
    BY <1>8 DEF Count
  <2>2. TypeOK'
    BY <1>2, <2>1, PartsAre DEF IInv, TypeOK
  <2>3. RunInv' /\ ServiceInv'
    BY <1>2, <1>4, <2>1, ConstantsAre DEF IInv, RunInv, ServiceInv, Boot
  <2>4. FinishedInv'
    <3>1. \A j \in 1 .. k : j = k \/ j \in 1 .. processnum
      BY <1>2
    <3>2. Finished(k)
      BY <1>2, <2>1 DEF Finished
    <3> QED
      BY <1>4, <1>5, <2>1, <3>1, <3>2 DEF FinishedInv, Finished
  <2>5. LoadInv'
    BY <2>1 DEF LoadInv
  <2> QED
    BY <2>2, <2>3, <2>4, <2>5 DEF IInv
<1> QED
  BY <1>6, <1>7, <1>8

\* A panic: whatever happened before, nothing runs and nothing is scheduled.
LEMMA PanicStep ==
  ASSUME IInv, except,
         UNCHANGED <<boot, gates, rebooted>>,
         irr' \subseteq Lines, isr' \subseteq Lines \cup {2},
         cr3' = process', process' \in 0 .. Loads,
         process' # 0 => Finished(process')
  PROVE  IInv'
<1> USE ConstantsAre DEF except, boot
<1>1. TypeOK'
  <2>1. /\ ctx' \in 0 .. Loads \cup {Halted}
        /\ iflag' \in BOOLEAN /\ panicked' \in BOOLEAN
        /\ handling' \in {None} \cup Lines
    BY Zenon
  <2>2. cr3' \in 0 .. Loads /\ processnum' \in 0 .. Loads
    BY SMT
  <2>3. UNCHANGED <<pc, built, processes, processesinfo, gates, rebooted>>
    OBVIOUS
  <2> QED
    BY ONLY <2>1, <2>2, <2>3, IInv, irr' \subseteq Lines, isr' \subseteq Lines \cup {2},
       process' \in 0 .. Loads
       DEF IInv, TypeOK
<1>2. RunInv' /\ ServiceInv'
  BY DEF RunInv, ServiceInv
<1>3. FinishedInv'
  BY DEF FinishedInv, Finished
<1>4. LoadInv'
  BY DEF LoadInv
<1> QED
  BY <1>1, <1>2, <1>3, <1>4 DEF IInv

\* An exception of a process, or a line without a gate.
LEMMA UngatedStep ==
  ASSUME IInv,
         \/ \E v \in {0, 4, 6, 13, 14} : Fault(v)
         \/ \E line \in Lines : AcceptUnhandled(line)
  PROVE  IInv'
<1>1. /\ except
      /\ UNCHANGED <<boot, process, cr3, regs, gates, rebooted>>
      /\ irr' \subseteq irr
      /\ isr' = isr \/ \E line \in Lines : isr' = isr \cup {line, OnMaster(line)}
  BY DEF Fault, AcceptUnhandled
<1>2. irr' \subseteq Lines /\ isr' \subseteq Lines \cup {2}
  BY <1>1, InService DEF IInv, TypeOK
<1>3. /\ cr3' = process' /\ process' \in 0 .. Loads
      /\ process' # 0 => Finished(process')
  BY <1>1 DEF IInv, TypeOK, RunInv, FinishedInv
<1>4. UNCHANGED <<boot, gates, rebooted>>
  BY <1>1
<1> QED
  BY <1>1, <1>2, <1>3, <1>4, PanicStep

\* A handler is entered.
LEMMA AcceptStep ==
  ASSUME IInv, NEW line \in Lines, Accept(line)
  PROVE  IInv'
<1>1. handling = None /\ iflag /\ ~panicked /\ isr = {}
  BY DEF Accept, IInv, RunInv, ServiceInv
<1>2. /\ irr' \subseteq irr /\ isr' = {line, OnMaster(line)}
      /\ ~iflag' /\ iflag' \in BOOLEAN /\ handling' = line
      /\ UNCHANGED <<boot, sched, regs, ctx, gates, panicked, rebooted>>
  BY <1>1 DEF Accept
<1>3. TypeOK'
  BY <1>2, InService DEF IInv, TypeOK, boot, sched
<1>4. RunInv'
  BY <1>1, <1>2 DEF IInv, RunInv, boot, sched
<1>5. ServiceInv'
  BY <1>2, ConstantsAre DEF ServiceInv
<1>6. FinishedInv' /\ LoadInv'
  BY <1>2 DEF IInv, FinishedInv, Finished, LoadInv, boot, sched
<1> QED
  BY <1>3, <1>4, <1>5, <1>6 DEF IInv

\* A handler that returns to the context it interrupted, with nothing left in
\* service.
LEMMA ReturnStep ==
  ASSUME IInv, handling # None, Iretq, isr' = {},
         UNCHANGED <<boot, sched, gates, irr, panicked>>,
         rebooted' \in BOOLEAN
  PROVE  IInv'
<1>1. ~panicked
  BY DEF IInv, RunInv
<1>2. iflag' \in BOOLEAN /\ handling' = None /\ UNCHANGED ctx
  BY DEF Iretq
<1>3. TypeOK'
  BY <1>2 DEF IInv, TypeOK, boot, sched
<1>4. RunInv' /\ ServiceInv'
  BY <1>1, <1>2 DEF IInv, RunInv, ServiceInv, boot, sched
<1>5. FinishedInv' /\ LoadInv'
  BY <1>2 DEF IInv, FinishedInv, Finished, LoadInv, boot, sched
<1> QED
  BY <1>3, <1>4, <1>5 DEF IInv

\* The clock handler picks one of the processes that are counted.
LEMMA NextIsCounted ==
  ASSUME IInv, handling = Timer, processnum # 0
  PROVE  /\ NextProcess \in 1 .. processnum /\ processnum \in 1 .. Loads
         /\ Finished(NextProcess)
         /\ ~panicked /\ Eoi1(isr) = {}
<1>1. handling # None /\ ~panicked
  BY ConstantsAre DEF IInv, RunInv
<1>2. processnum \in 1 .. Loads /\ process \in 0 .. processnum
  BY <1>1, ConstantsAre DEF IInv, TypeOK, RunInv
<1>3. NextProcess \in 1 .. processnum
  BY <1>2, ConstantsAre DEF NextProcess
<1>4. Eoi1(isr) = {}
  BY <1>1, TimerEnds DEF IInv, ServiceInv
<1> QED
  BY <1>1, <1>2, <1>3, <1>4 DEF IInv, FinishedInv

\* The clock handler dispatches a process that run_elf has finished.
LEMMA SwitchStep ==
  ASSUME IInv, NEW flags \in EntryFlags, ClockSwitch(flags)
  PROVE  IInv'
<1>1. handling = Timer /\ processnum # 0
  BY DEF ClockSwitch
<1>2. /\ process' \in 1 .. processnum /\ processnum \in 1 .. Loads
      /\ Finished(process') /\ ~panicked
      /\ isr' = {} /\ cr3' = processesinfo[process']
      /\ UNCHANGED <<boot, gates, irr, rebooted>>
  BY <1>1, NextIsCounted DEF ClockSwitch
<1>3. cr3' = process' /\ process' \in 0 .. Loads /\ process' # 0
  BY <1>2, ConstantsAre DEF Finished
<1>5. CASE except
  BY <1>2, <1>3, <1>5, PanicStep DEF IInv, TypeOK
<1>6. ASSUME ctx' = processes[process'], iflag' \in BOOLEAN, handling' = None,
             UNCHANGED <<processnum, panicked>>
      PROVE  IInv'
  <2>1. ctx' = process' /\ ctx' # Boot
    BY <1>2, <1>3, <1>6 DEF Finished, Boot
  <2>2. TypeOK'
    BY <1>2, <1>3, <1>6, <2>1 DEF IInv, TypeOK, boot
  <2>3. RunInv' /\ ServiceInv'
    BY <1>2, <1>3, <1>6, <2>1, ConstantsAre DEF RunInv, ServiceInv
  <2>4. FinishedInv'
    BY <1>2, <1>6 DEF IInv, FinishedInv, Finished, boot
  <2>5. LoadInv'
    BY <2>1 DEF LoadInv
  <2> QED
    BY <2>2, <2>3, <2>4, <2>5 DEF IInv
<1>7. \/ except
      \/ /\ ctx' = processes[process'] /\ iflag' \in BOOLEAN /\ handling' = None
         /\ UNCHANGED <<processnum, panicked>>
  BY DEF ClockSwitch
<1> QED
  BY <1>5, <1>6, <1>7

\* The handlers' other steps.
LEMMA HandlerStep ==
  ASSUME IInv, Handler
  PROVE  IInv'
<1>1. CASE ClockIdle
  <2>1. handling = Timer /\ handling # None
    BY <1>1, ConstantsAre DEF ClockIdle
  <2>2. isr' = {}
    BY <1>1, <2>1, TimerEnds DEF ClockIdle, IInv, ServiceInv
  <2> QED
    BY <1>1, <2>1, <2>2, ReturnStep DEF ClockIdle, IInv, TypeOK
<1>2. CASE KeyboardHandler
  <2>1. handling = Keyboard /\ handling # None
    BY <1>2, ConstantsAre DEF KeyboardHandler
  <2>2. isr' = {}
    BY <1>2, <2>1, KeyboardEnds DEF KeyboardHandler, IInv, ServiceInv
  <2> QED
    BY <1>2, <2>1, <2>2, ReturnStep DEF KeyboardHandler, IInv, TypeOK
<1>3. CASE MouseHandler
  <2>1. handling \in Mice /\ handling # None
    BY <1>3, ConstantsAre DEF MouseHandler
  <2>2. isr' = {}
    BY <1>3, <2>1, MouseEnds DEF MouseHandler, IInv, ServiceInv
  <2> QED
    BY <1>3, <2>1, <2>2, ReturnStep DEF MouseHandler, IInv, TypeOK
<1>4. CASE \E flags \in EntryFlags : ClockSwitch(flags)
  BY <1>4, SwitchStep
<1> QED
  BY <1>1, <1>2, <1>3, <1>4 DEF Handler

\* A system call changes nothing but registers.
LEMMA CallStep ==
  ASSUME IInv, SystemCall
  PROVE  IInv'
<1> USE DEF IInv, SystemCall, boot, sched
<1>1. TypeOK'
  BY DEF TypeOK
<1>2. RunInv' /\ ServiceInv'
  BY DEF RunInv, ServiceInv
<1>3. FinishedInv' /\ LoadInv'
  BY DEF FinishedInv, Finished, LoadInv
<1> QED
  BY <1>1, <1>2, <1>3

\* Every step keeps the invariant.
LEMMA KernelStep ==
  IInv /\ [Next]_vars => IInv'
<1> SUFFICES ASSUME IInv, [Next]_vars PROVE IInv'
  OBVIOUS
<1>1. CASE BootStep
  BY <1>1, StartStep, BuildStep, PublishStep DEF BootStep
<1>2. ASSUME NEW line \in Lines, Raise(line) PROVE IInv'
  BY <1>2, RaiseStep
<1>3. ASSUME NEW line \in Lines, Accept(line) PROVE IInv'
  BY <1>3, AcceptStep
<1>4. CASE \/ \E line \in Lines : AcceptUnhandled(line)
           \/ \E v \in {0, 4, 6, 13, 14} : Fault(v)
  BY <1>4, UngatedStep
<1>5. CASE Handler
  BY <1>5, HandlerStep
<1>7. CASE SystemCall
  BY <1>7, CallStep
<1>6. CASE UNCHANGED vars
  <2>1. UNCHANGED <<pc, built, processes, processesinfo, processnum, process,
                    cr3, regs, ctx, iflag, gates, irr, isr, handling, panicked,
                    rebooted>>
    BY <1>6 DEF vars, boot, sched
  <2>2. TypeOK' /\ RunInv' /\ ServiceInv'
    BY <2>1 DEF IInv, TypeOK, RunInv, ServiceInv
  <2>3. FinishedInv' /\ LoadInv'
    BY <2>1 DEF IInv, FinishedInv, Finished, LoadInv
  <2> QED
    BY <2>2, <2>3 DEF IInv
<1> QED
  BY <1>1, <1>2, <1>3, <1>4, <1>5, <1>6, <1>7 DEF Next

\* The invariant holds of every behaviour.
LEMMA KernelInvariant ==
  Spec => []IInv
BY KernelInit, KernelStep, PTL DEF Spec

-----------------------------------------------------------------------------
(* The stubs *)

\* The order in which push_all pushes is that in which pop_all pops, reversed.
LEMMA OrdersAre ==
  /\ DOMAIN PushOrder = 1 .. 15 /\ Len(PushOrder) = 15
  /\ DOMAIN PopOrder = 1 .. 15 /\ Len(PopOrder) = 15
  /\ \A n \in 1 .. 15 : PopOrder[n] = PushOrder[15 + 1 - n]
  /\ \A m, n \in 1 .. 15 : PopOrder[m] = PopOrder[n] => m = n
<1>1. /\ DOMAIN PushOrder = 1 .. 15 /\ Len(PushOrder) = 15
      /\ DOMAIN PopOrder = 1 .. 15 /\ Len(PopOrder) = 15
  BY DEF PushOrder, PopOrder
<1>2. \A n \in 1 .. 15 : PopOrder[n] = PushOrder[15 + 1 - n]
  <2>1. /\ PopOrder[1] = PushOrder[15]
        /\ PopOrder[2] = PushOrder[14]
        /\ PopOrder[3] = PushOrder[13]
        /\ PopOrder[4] = PushOrder[12]
        /\ PopOrder[5] = PushOrder[11]
        /\ PopOrder[6] = PushOrder[10]
        /\ PopOrder[7] = PushOrder[9]
        /\ PopOrder[8] = PushOrder[8]
        /\ PopOrder[9] = PushOrder[7]
        /\ PopOrder[10] = PushOrder[6]
        /\ PopOrder[11] = PushOrder[5]
        /\ PopOrder[12] = PushOrder[4]
        /\ PopOrder[13] = PushOrder[3]
        /\ PopOrder[14] = PushOrder[2]
        /\ PopOrder[15] = PushOrder[1]
    BY DEF PushOrder, PopOrder
  <2> QED
    BY <2>1
<1>3. \A m, n \in 1 .. 15 : PopOrder[m] = PopOrder[n] => m = n
  BY DEF PopOrder
<1> QED
  BY <1>1, <1>2, <1>3

\* What an interrupt pushes.
EntryOrder == <<"ss", "rsp", "rflags", "cs", "rip">>

\* The same of what an interrupt pushes and iretq pops.
LEMMA ReturnOrdersAre ==
  /\ DOMAIN EntryOrder = 1 .. 5 /\ Len(EntryOrder) = 5
  /\ DOMAIN ReturnOrder = 1 .. 5 /\ Len(ReturnOrder) = 5
  /\ \A n \in 1 .. 5 : ReturnOrder[n] = EntryOrder[5 + 1 - n]
  /\ \A m, n \in 1 .. 5 : ReturnOrder[m] = ReturnOrder[n] => m = n
<1>1. /\ DOMAIN EntryOrder = 1 .. 5 /\ Len(EntryOrder) = 5
      /\ DOMAIN ReturnOrder = 1 .. 5 /\ Len(ReturnOrder) = 5
  BY DEF EntryOrder, ReturnOrder
<1>2. \A n \in 1 .. 5 : ReturnOrder[n] = EntryOrder[5 + 1 - n]
  <2>1. /\ ReturnOrder[1] = EntryOrder[5]
        /\ ReturnOrder[2] = EntryOrder[4]
        /\ ReturnOrder[3] = EntryOrder[3]
        /\ ReturnOrder[4] = EntryOrder[2]
        /\ ReturnOrder[5] = EntryOrder[1]
    BY DEF EntryOrder, ReturnOrder
  <2> QED
    BY <2>1
<1>3. \A m, n \in 1 .. 5 : ReturnOrder[m] = ReturnOrder[n] => m = n
  BY DEF ReturnOrder
<1> QED
  BY <1>1, <1>2, <1>3

\* What lies behind the first part of a stack.
LEMMA Behind ==
  ASSUME NEW V, NEW s \in Seq(V), NEW t \in Seq(V)
  PROVE  SubSeq(s \o t, Len(s) + 1, Len(s \o t)) = t
<1>1. /\ Len(s \o t) = Len(s) + Len(t) /\ s \o t \in Seq(V)
      /\ Len(s) \in Nat /\ Len(t) \in Nat
      /\ \A i \in 1 .. Len(t) : (s \o t)[Len(s) + i] = t[i]
      /\ \A i \in 1 .. Len(s \o t) : (s \o t)[i] \in V
  OBVIOUS
<1> DEFINE u == SubSeq(s \o t, Len(s) + 1, Len(s \o t))
<1>2. /\ u \in Seq(V) /\ Len(u) = Len(t)
      /\ \A i \in 1 .. Len(t) : u[i] = (s \o t)[Len(s) + i]
  <2> DEFINE st == s \o t
             m == Len(s) + 1
             n == Len(s \o t)
  <2>1. /\ st = s \o t /\ m = Len(s) + 1 /\ n = Len(s \o t)
        /\ st \in Seq(V) /\ m \in Nat /\ n \in Nat
    BY <1>1
  <2>2. \A i \in m .. n : st[i] \in V
    BY <1>1, <2>1
  <2> HIDE DEF st, m, n
  <2>3. /\ SubSeq(st, m, n) \in Seq(V)
        /\ Len(SubSeq(st, m, n)) = IF m <= n THEN n - m + 1 ELSE 0
        /\ \A i \in 1 .. (n - m) + 1 : SubSeq(st, m, n)[i] = st[(m + i) - 1]
    BY <2>1, <2>2, SubSeqProperties
  <2>4. u = SubSeq(st, m, n)
    BY DEF st, m, n
  <2> HIDE DEF u, st, m, n
  <2>5. n = Len(s) + Len(t) /\ m = Len(s) + 1
    BY <1>1, <2>1
  <2>6. Len(u) = Len(t) /\ u \in Seq(V)
    BY <1>1, <2>3, <2>4, <2>5
  <2>7. ASSUME NEW i \in 1 .. Len(t) PROVE u[i] = (s \o t)[Len(s) + i]
    <3>1. i \in 1 .. (n - m) + 1 /\ (m + i) - 1 = Len(s) + i
      BY <1>1, <2>5
    <3> QED
      BY <2>1, <2>3, <2>4, <3>1
  <2> QED
    BY <2>6, <2>7
<1> HIDE DEF u
<1>3. u = t
  BY <1>1, <1>2
<1> QED
  BY <1>3 DEF u

\* The order back pops what was pushed in this order.
Reverses(back, order, N) ==
  /\ N \in Nat
  /\ DOMAIN order = 1 .. N /\ Len(order) = N
  /\ DOMAIN back = 1 .. N /\ Len(back) = N
  /\ \A n \in 1 .. N : back[n] = order[N + 1 - n]
  /\ \A k, n \in 1 .. N : back[k] = back[n] => k = n

\* What is on the stack, and what is pushed, are values.
Values(V, m, back, N) ==
  m.stack \in Seq(V) /\ \A n \in 1 .. N : m.regs[back[n]] \in V

\* The machine after m's registers were pushed and, from whatever the
\* registers hold by then, popped.
PoppedAgain(m, order, back, own) == Popped(Machine(own, Pushed(m, order).stack), back)

\* What has been pushed comes back when it is popped in the reversed order,
\* whatever the registers hold in between, and the stack is what it was.
LEMMA PopPushed ==
  ASSUME NEW N, NEW order, NEW back, Reverses(back, order, N),
         NEW V, NEW m, Values(V, m, back, N), NEW own
  PROVE  /\ PoppedAgain(m, order, back, own).stack = m.stack
         /\ PoppedAgain(m, order, back, own).regs =
              [r \in Registers |->
                 IF \E n \in 1 .. N : back[n] = r THEN m.regs[r] ELSE own[r]]
<1>0. /\ N \in Nat
      /\ DOMAIN order = 1 .. N /\ Len(order) = N
      /\ DOMAIN back = 1 .. N /\ Len(back) = N
      /\ \A n \in 1 .. N : back[n] = order[N + 1 - n]
      /\ \A k, n \in 1 .. N : back[k] = back[n] => k = n
      /\ m.stack \in Seq(V) /\ \A n \in 1 .. N : m.regs[back[n]] \in V
  BY DEF Reverses, Values
<1> DEFINE pushed == [n \in 1 .. N |-> m.regs[order[N + 1 - n]]]
           stack == pushed \o m.stack
           q == Popped(Machine(own, Pushed(m, order).stack), back)
<1>1. DOMAIN order = 1 .. N /\ DOMAIN back = 1 .. N
  BY <1>0
<1>2. pushed = [n \in 1 .. N |-> m.regs[back[n]]]
  BY <1>0
<1>3. pushed \in Seq(V) /\ Len(pushed) = N /\ \A n \in 1 .. N : pushed[n] = m.regs[back[n]]
  <2> HIDE DEF pushed
  <2>1. pushed \in [1 .. N -> V]
    BY <1>0, <1>2
  <2> QED
    BY <1>0, <1>2, <2>1
<1>4. Pushed(m, order).stack = stack
  BY <1>0, <1>1 DEF Pushed, Machine
<1> HIDE DEF pushed
<1>5. \A n \in 1 .. N : stack[n] = m.regs[back[n]]
  BY <1>0, <1>3
<1>6. SubSeq(stack, N + 1, Len(stack)) = m.stack
  BY <1>0, <1>3, Behind
<1> HIDE DEF stack
<1>7. q = Machine([r \in Registers |->
                     IF \E n \in DOMAIN back : back[n] = r
                     THEN stack[CHOOSE n \in DOMAIN back : back[n] = r]
                     ELSE own[r]],
                  SubSeq(stack, Len(back) + 1, Len(stack)))
  BY <1>4 DEF Popped, Machine
<1>8. q.stack = m.stack
  <2>1. Len(back) = N
    BY <1>0
  <2>2. q.stack = SubSeq(stack, Len(back) + 1, Len(stack))
    <3>1. \A f, g : Machine(f, g).stack = g
      BY DEF Machine
    <3> QED
      BY <1>7, <3>1, Zenon
  <2> QED
    BY <1>6, <2>1, <2>2
<1>9. ASSUME NEW r \in Registers
      PROVE  (IF \E n \in DOMAIN back : back[n] = r
              THEN stack[CHOOSE n \in DOMAIN back : back[n] = r] ELSE own[r])
             = IF \E n \in 1 .. N : back[n] = r THEN m.regs[r] ELSE own[r]
  <2>1. CASE \E n \in 1 .. N : back[n] = r
    <3>1. PICK k : k = CHOOSE n \in DOMAIN back : back[n] = r
      OBVIOUS
    <3>2. k \in 1 .. N /\ back[k] = r
      BY <1>1, <2>1, <3>1
    <3> QED
      BY <1>1, <1>5, <2>1, <3>1, <3>2
  <2>2. CASE ~ \E n \in 1 .. N : back[n] = r
    BY <1>1, <2>2
  <2> QED
    BY <2>1, <2>2
<1>10. q.regs = [r \in Registers |->
                   IF \E n \in 1 .. N : back[n] = r THEN m.regs[r] ELSE own[r]]
  <2> HIDE DEF q
  <2> QED
    BY <1>7, <1>9 DEF Machine
<1> QED
  BY <1>8, <1>10 DEF q, PoppedAgain

\* The registers are those that pop_all and iretq take off the stack.
LEMMA RegistersAre ==
  /\ \A r \in Registers : \/ \E n \in 1 .. 15 : PopOrder[n] = r
                          \/ \E n \in 1 .. 5 : ReturnOrder[n] = r
  /\ \A n \in 1 .. 15 : PopOrder[n] \in Registers /\ PopOrder[n] \in General
  /\ \A n \in 1 .. 5 : ReturnOrder[n] \in Registers
  /\ {"rax", "rdi", "rsi", "rdx"} \subseteq General
  /\ {"rax", "rdi", "rsi", "rdx"} \subseteq Registers
<1>1. \A n \in 1 .. 15 : 15 + 1 - n \in 1 .. 15 /\ 15 + 1 - (15 + 1 - n) = n
  OBVIOUS
<1>2. \A n \in 1 .. 15 : PushOrder[n] = PopOrder[15 + 1 - n]
  <2>1. ASSUME NEW n \in 1 .. 15 PROVE PushOrder[n] = PopOrder[15 + 1 - n]
    <3>1. PICK k \in 1 .. 15 : k = 15 + 1 - n /\ 15 + 1 - k = n
      BY <1>1
    <3>2. PopOrder[k] = PushOrder[15 + 1 - k]
      BY OrdersAre
    <3> QED
      BY <3>1, <3>2
  <2> QED
    BY <2>1
<1>3. General = {PushOrder[n] : n \in 1 .. 15}
  BY OrdersAre DEF General
<1>4. Registers = General \cup {ReturnOrder[n] : n \in 1 .. 5}
  BY ReturnOrdersAre DEF Registers
<1>5. \A r \in General : \E n \in 1 .. 15 : PopOrder[n] = r
  BY <1>1, <1>2, <1>3
<1>6. \A n \in 1 .. 15 : PopOrder[n] \in General
  BY <1>1, <1>3, OrdersAre
<1>7. {"rax", "rdi", "rsi", "rdx"} \subseteq General
  <2>1. /\ PushOrder[1] = "rax" /\ PushOrder[6] = "rdi" /\ PushOrder[5] = "rsi"
        /\ PushOrder[4] = "rdx"
    BY DEF PushOrder
  <2> QED
    BY <1>3, <2>1
<1> QED
  BY <1>4, <1>5, <1>6, <1>7

\* A register file.
IsFile(f) == f = [r \in Registers |-> f[r]]

\* An interrupt without an error code, as the processor and push_all leave it
\* on the stack, is undone by pop_all and iretq: whatever the registers hold
\* in between, all of them are what they were.
LEMMA InterruptUndone ==
  ASSUME NEW f, IsFile(f), NEW v, v \notin HasCode, NEW own
  PROVE  iretq(pop_all(Machine(own, push_all(Interrupted(v, f)).stack))).regs = f
<1> DEFINE V == {f[r] : r \in Registers}
           m1 == Machine(f, <<>>)
           m2 == Pushed(m1, EntryOrder)
           q == pop_all(Machine(own, push_all(m2).stack))
<1>1. Interrupted(v, f) = m2
  BY DEF Interrupted, EntryOrder
<1>2. m1.regs = f /\ m1.stack = <<>> /\ m1.stack \in Seq(V)
  BY DEF Machine
<1>3. m2.regs = f
  BY DEF Pushed, Machine
<1>4. m2.stack \in Seq(V)
  <2>1. m2.stack = [n \in 1 .. 5 |-> f[EntryOrder[5 + 1 - n]]] \o <<>>
    BY ReturnOrdersAre DEF Pushed, Machine
  <2>2. \A n \in 1 .. 5 : f[EntryOrder[5 + 1 - n]] \in V
    <3>1. \A n \in 1 .. 5 : f[ReturnOrder[n]] \in V
      BY RegistersAre
    <3> QED
      BY <3>1, ReturnOrdersAre
  <2> HIDE DEF V, m2
  <2>3. [n \in 1 .. 5 |-> f[EntryOrder[5 + 1 - n]]] \in Seq(V)
    BY <2>2
  <2>4. <<>> \in Seq(V)
    OBVIOUS
  <2> QED
    BY <2>1, <2>3, <2>4
<1>5. /\ \A n \in 1 .. 15 : f[PopOrder[n]] \in V
      /\ \A n \in 1 .. 5 : f[ReturnOrder[n]] \in V
  BY RegistersAre
<1> HIDE DEF V, m1, m2
<1>6. /\ q.stack = m2.stack
      /\ q.regs = [r \in Registers |->
                     IF \E n \in 1 .. 15 : PopOrder[n] = r THEN f[r] ELSE own[r]]
  <2>1. q = Popped(Machine(own, Pushed(m2, PushOrder).stack), PopOrder)
    BY DEF pop_all, push_all
  <2>2. Reverses(PopOrder, PushOrder, 15)
    BY OrdersAre DEF Reverses
  <2>3. Values(V, m2, PopOrder, 15)
    BY <1>3, <1>4, <1>5 DEF Values
  <2>4. /\ PoppedAgain(m2, PushOrder, PopOrder, own).stack = m2.stack
        /\ PoppedAgain(m2, PushOrder, PopOrder, own).regs =
             [r \in Registers |->
                IF \E n \in 1 .. 15 : PopOrder[n] = r THEN m2.regs[r] ELSE own[r]]
    BY <2>2, <2>3, PopPushed
  <2> HIDE DEF q
  <2> QED
    BY <1>3, <2>1, <2>4 DEF PoppedAgain
<1>7. q = Machine(q.regs, m2.stack)
  <2>1. q = Machine([r \in Registers |->
              IF \E n \in DOMAIN PopOrder : PopOrder[n] = r
              THEN push_all(m2).stack[CHOOSE n \in DOMAIN PopOrder : PopOrder[n] = r]
              ELSE own[r]],
            SubSeq(push_all(m2).stack, Len(PopOrder) + 1, Len(push_all(m2).stack)))
    BY DEF pop_all, Popped, Machine
  <2>2. \A g, h : Machine(g, h).regs = g /\ Machine(g, h).stack = h
    BY DEF Machine
  <2> HIDE DEF q
  <2> QED
    BY <1>6, <2>1, <2>2, Zenon
<1> HIDE DEF q
<1>8. PICK held : held = q.regs
  OBVIOUS
<1>9. iretq(q).regs = [r \in Registers |->
                         IF \E n \in 1 .. 5 : ReturnOrder[n] = r THEN f[r] ELSE held[r]]
  <2>1. iretq(q) = Popped(Machine(held, Pushed(m1, EntryOrder).stack), ReturnOrder)
    BY <1>7, <1>8, Zenon DEF iretq, m2
  <2>2. Reverses(ReturnOrder, EntryOrder, 5)
    BY ReturnOrdersAre DEF Reverses
  <2>3. Values(V, m1, ReturnOrder, 5)
    BY <1>2, <1>5 DEF Values
  <2>4. PoppedAgain(m1, EntryOrder, ReturnOrder, held).regs =
          [r \in Registers |->
             IF \E n \in 1 .. 5 : ReturnOrder[n] = r THEN m1.regs[r] ELSE held[r]]
    BY <2>2, <2>3, PopPushed
  <2> QED
    BY <1>2, <2>1, <2>4 DEF PoppedAgain
<1>10. \A r \in Registers :
         (IF \E n \in 1 .. 5 : ReturnOrder[n] = r THEN f[r] ELSE held[r]) = f[r]
  BY <1>6, <1>8, RegistersAre
<1>11. iretq(q).regs = [r \in Registers |-> f[r]]
  BY <1>9, <1>10
<1> QED
  BY <1>1, <1>11, Zenon DEF IsFile, q

\* A mov and a call change registers only.
LEMMA MovesRegister ==
  \A f, s, register, value :
    \E h : mov(Machine(f, s), register, value) = Machine(h, s)
<1> SUFFICES ASSUME NEW g, NEW stack, NEW register, NEW value
             PROVE  \E h : mov(Machine(g, stack), register, value) = Machine(h, stack)
  OBVIOUS
<1>1. Machine(g, stack).regs = g
  BY DEF Machine
<1>2. \A h : [Machine(g, stack) EXCEPT !.regs = h] = Machine(h, stack)
  BY DEF Machine
<1>3. mov(Machine(g, stack), register, value) =
        Machine([g EXCEPT ![register] = value], stack)
  BY <1>1, <1>2 DEF mov
<1> QED
  BY <1>3

\* A call of C code leaves the stack alone and loses what the callee may use.
LEMMA RegistersOnly ==
  ASSUME NEW g, NEW stack
  PROVE  call(Machine(g, stack)) =
           Machine([r \in Registers |-> IF r \in CallerSaved THEN Unset ELSE g[r]], stack)
<1>1. Machine(g, stack).regs = g
  BY DEF Machine
<1>2. \A h : [Machine(g, stack) EXCEPT !.regs = h] = Machine(h, stack)
  BY DEF Machine
<1>3. call(Machine(g, stack)) =
        Machine([r \in Registers |-> IF r \in CallerSaved THEN Unset ELSE g[r]], stack)
  BY <1>1, <1>2 DEF call
<1> QED
  BY <1>3

\* The three stubs: each hands the registers back as it found them.
LEMMA StubsUndone ==
  ASSUME NEW f, IsFile(f)
  PROVE  /\ \A v \in {33, 44} : Resumed(int_handler(v, f)) = f
         /\ Resumed(interrupt_handler_128(f)) = f
         /\ interrupt_handler_32(clockStack(f)) = f
<1>1. 33 \notin HasCode /\ 44 \notin HasCode /\ 128 \notin HasCode /\ 32 \notin HasCode
  BY DEF HasCode
<1>2. ASSUME NEW v \in {33, 44} PROVE Resumed(int_handler(v, f)) = f
  <2> DEFINE m == push_all(Interrupted(v, f))
  <2>1. m = Machine(m.regs, m.stack)
    BY DEF push_all, Pushed, Machine
  <2> HIDE DEF m
  <2>2. \E own : call(mov(m, "rdi", v)) = Machine(own, m.stack)
    <3>1. PICK g, stack : m = Machine(g, stack) /\ stack = m.stack
      BY <2>1
    <3>2. PICK h : mov(Machine(g, stack), "rdi", v) = Machine(h, stack)
      BY MovesRegister
    <3>3. mov(m, "rdi", v) = Machine(h, stack)
      BY <3>1, <3>2, Zenon
    <3>4. PICK own : own = [r \in Registers |-> IF r \in CallerSaved THEN Unset ELSE h[r]]
      OBVIOUS
    <3>5. call(Machine(h, stack)) = Machine(own, stack)
      BY <3>4, RegistersOnly, Zenon
    <3>6. call(mov(m, "rdi", v)) = Machine(own, m.stack)
      BY <3>1, <3>3, <3>5, Zenon
    <3> QED
      BY <3>6
  <2>3. int_handler(v, f) = mov(m, "rdi", v)
    BY DEF int_handler, m
  <2> QED
    BY <1>1, <2>2, <2>3, InterruptUndone DEF Resumed, m
<1>3. Resumed(interrupt_handler_128(f)) = f
  <2> DEFINE m == push_all(Interrupted(128, f))
  <2>1. m = Machine(m.regs, m.stack)
    BY DEF push_all, Pushed, Machine
  <2> HIDE DEF m
  <2>2. \E own : call(m) = Machine(own, m.stack)
    BY <2>1, RegistersOnly
  <2>3. interrupt_handler_128(f) = m
    BY DEF interrupt_handler_128, m
  <2> QED
    BY <1>1, <2>2, <2>3, InterruptUndone DEF Resumed, m
<1>4. interrupt_handler_32(clockStack(f)) = f
  <2> DEFINE stack == clockStack(f)
  <2>1. stack = push_all(Interrupted(32, f)).stack
    BY DEF clockStack
  <2> HIDE DEF stack
  <2>2. \E own : mov(Machine([r \in Registers |-> Unset], stack), "rax", 32) = Machine(own, stack)
    BY MovesRegister
  <2>3. \E own : interrupt_handler_32(stack) = iretq(pop_all(Machine(own, stack))).regs
    BY <2>2 DEF interrupt_handler_32
  <2> QED
    BY <1>1, <2>1, <2>3, InterruptUndone DEF stack
<1> QED
  BY <1>2, <1>3, <1>4

\* The stubs' arguments: interrupt_handler's vector, the error code of the
\* vectors that have one, and for a system call the registers themselves.
LEMMA StubArguments ==
  ASSUME NEW f, IsFile(f)
  PROVE  /\ \A v \in {0, 4, 6, 33, 44} : int_handler(v, f).regs["rdi"] = v
         /\ \A v \in HasCode : LET m == eint_handler(v, f)
                               IN  m.regs["rdi"] = v /\ m.regs["rsi"] = Code
         /\ interrupt_handler_128(f).regs = f
<1>1. DOMAIN f = Registers /\ "rdi" \in Registers /\ "rsi" \in Registers
  BY RegistersAre DEF IsFile
<1>2. \A m, order : Pushed(m, order).regs = m.regs
  BY DEF Pushed, Machine
<1>3. ASSUME NEW v \in {0, 4, 6, 33, 44, 128}
      PROVE  push_all(Interrupted(v, f)).regs = f
  <2>1. v \notin HasCode
    BY DEF HasCode
  <2>2. Interrupted(v, f) = Pushed(Machine(f, <<>>), EntryOrder)
    BY <2>1 DEF Interrupted, EntryOrder
  <2>3. Machine(f, <<>>).regs = f
    BY DEF Machine
  <2> QED
    BY <1>2, <2>2, <2>3 DEF push_all
<1>4. ASSUME NEW v \in {0, 4, 6, 33, 44} PROVE int_handler(v, f).regs["rdi"] = v
  <2> DEFINE m == push_all(Interrupted(v, f))
  <2>1. m.regs = f
    BY <1>3
  <2>2. m = Machine(m.regs, m.stack)
    BY DEF push_all, Pushed, Machine
  <2>3. int_handler(v, f) = mov(m, "rdi", v)
    BY DEF int_handler
  <2> HIDE DEF m
  <2>4. mov(m, "rdi", v).regs = [f EXCEPT !["rdi"] = v]
    BY <2>1, <2>2 DEF mov, Machine
  <2>5. [f EXCEPT !["rdi"] = v]["rdi"] = v
    BY <1>1
  <2> QED
    BY <2>3, <2>4, <2>5, Zenon
<1>5. ASSUME NEW v \in HasCode
      PROVE  eint_handler(v, f).regs["rdi"] = v /\ eint_handler(v, f).regs["rsi"] = Code
  <2> DEFINE entered == Pushed(Machine(f, <<>>), EntryOrder)
             popped == Popped(Interrupted(v, f), <<"rsi">>)
             m == push_all(popped)
  <2>1. Interrupted(v, f) = Machine(f, <<Code>> \o entered.stack)
    BY DEF Interrupted, EntryOrder
  <2>2. (<<Code>> \o entered.stack)[1] = Code
    <3>1. entered.stack = [n \in 1 .. 5 |-> f[EntryOrder[5 + 1 - n]]] \o <<>>
      BY ReturnOrdersAre DEF Pushed, Machine
    <3> DEFINE V == {f[EntryOrder[5 + 1 - n]] : n \in 1 .. 5} \cup {Code}
    <3>2. \A n \in 1 .. 5 : f[EntryOrder[5 + 1 - n]] \in V
      OBVIOUS
    <3>3. Code \in V
      OBVIOUS
    <3> HIDE DEF V, entered
    <3>4. [n \in 1 .. 5 |-> f[EntryOrder[5 + 1 - n]]] \in Seq(V) /\ <<>> \in Seq(V)
      BY <3>2
    <3>5. entered.stack \in Seq(V)
      BY <3>1, <3>4
    <3>6. <<Code>> \in Seq(V) /\ Len(<<Code>>) = 1 /\ <<Code>>[1] = Code
      BY <3>3
    <3> QED
      BY <3>5, <3>6
  <2>3. popped.regs["rsi"] = Code /\ DOMAIN popped.regs = Registers
    <3> DEFINE stack == <<Code>> \o entered.stack
    <3>1. Interrupted(v, f).stack = stack
      BY <2>1 DEF Machine
    <3>2. DOMAIN <<"rsi">> = {1} /\ <<"rsi">>[1] = "rsi"
      OBVIOUS
    <3>3. (CHOOSE n \in DOMAIN <<"rsi">> : <<"rsi">>[n] = "rsi") = 1
      BY <3>2
    <3>4. popped.regs = [r \in Registers |->
                           IF \E n \in DOMAIN <<"rsi">> : <<"rsi">>[n] = r
                           THEN Interrupted(v, f).stack[CHOOSE n \in DOMAIN <<"rsi">> : <<"rsi">>[n] = r]
                           ELSE Interrupted(v, f).regs[r]]
      BY DEF Popped, Machine
    <3> HIDE DEF popped, stack
    <3>5. popped.regs["rsi"] = stack[1]
      BY <1>1, <3>1, <3>2, <3>3, <3>4
    <3> QED
      BY <2>2, <3>4, <3>5 DEF stack
  <2>4. m.regs = popped.regs
    BY <1>2 DEF push_all
  <2>5. m = Machine(m.regs, m.stack)
    BY DEF push_all, Pushed, Machine
  <2>6. eint_handler(v, f) = mov(m, "rdi", v)
    BY DEF eint_handler
  <2> HIDE DEF popped, m
  <2>7. mov(m, "rdi", v).regs = [popped.regs EXCEPT !["rdi"] = v]
    BY <2>4, <2>5 DEF mov, Machine
  <2> QED
    BY <1>1, <2>3, <2>6, <2>7
<1>6. interrupt_handler_128(f).regs = f
  BY <1>3 DEF interrupt_handler_128
<1> QED
  BY <1>4, <1>5, <1>6

-----------------------------------------------------------------------------
(* Registers *)

\* The registers are always some, and those of who runs.
RegsInv ==
  /\ IsFile(regs)
  /\ RegistersAreKept

\* The first registers of a process, and what becomes of them, are some.
LEMMA FilesAre ==
  /\ IsFile(Own) /\ IsFile(Dispatched)
  /\ \A f : IsFile(Loaded(f)) /\ Loaded(Loaded(f)) = Loaded(f)
  /\ \A f : \A r \in {"rdi", "rsi", "rdx"} : Loaded(f)[r] = r
<1>1. IsFile(Own)
  BY DEF IsFile, Own
<1>2. IsFile(Dispatched)
  BY DEF IsFile, Dispatched, interrupt_handler_32, iretq, Popped, Machine
<1>3. ASSUME NEW f PROVE IsFile(Loaded(f)) /\ Loaded(Loaded(f)) = Loaded(f)
  BY DEF IsFile, Loaded
<1>4. ASSUME NEW f, NEW r \in {"rdi", "rsi", "rdx"} PROVE Loaded(f)[r] = r
  BY RegistersAre DEF Loaded
<1> QED
  BY <1>1, <1>2, <1>3, <1>4

\* A step that leaves the registers alone, and who runs, unless nobody does
\* any more.
LEMMA RegsFrame ==
  ASSUME RegsInv, regs' = regs, ctx' \in {ctx, Halted}
  PROVE  RegsInv'
<1>1. Halted # Boot /\ Halted \notin 1 .. Loads
  BY ConstantsAre
<1>2. (ctx' = Boot => ctx = Boot) /\ (ctx' \in 1 .. Loads => ctx \in 1 .. Loads)
  BY <1>1
<1> QED
  BY <1>2 DEF RegsInv, RegistersAreKept, IsFile, Dispatched

\* Every step keeps the registers.
LEMMA RegsStep ==
  ASSUME IInv, IInv', RegsInv, [Next]_vars
  PROVE  RegsInv'
<1>1. ASSUME BootStep PROVE RegsInv'
  <2>1. regs' = regs /\ ctx' = ctx
    BY <1>1 DEF BootStep, Early, install_idt, init_mouse, RejectElf, Build, SetEntry,
                SetInfo, Count, Report, boot, sched
  <2> QED
    BY <2>1, RegsFrame
<1>2. ASSUME NEW line, Raise(line) \/ Accept(line) PROVE RegsInv'
  <2>1. regs' = regs /\ ctx' = ctx
    BY <1>2 DEF Raise, Accept
  <2> QED
    BY <2>1, RegsFrame
<1>3. ASSUME NEW line, AcceptUnhandled(line) PROVE RegsInv'
  <2>1. regs' = regs /\ ctx' = Halted
    BY <1>3 DEF AcceptUnhandled, except
  <2> QED
    BY <2>1, RegsFrame
<1>4. ASSUME NEW v, Fault(v) PROVE RegsInv'
  <2>1. regs' = regs /\ ctx' = Halted
    BY <1>4 DEF Fault, except
  <2> QED
    BY <2>1, RegsFrame
<1>5. ASSUME ClockIdle PROVE RegsInv'
  <2>1. regs' = interrupt_handler_32(clockStack(regs)) /\ ctx' = ctx
    BY <1>5 DEF ClockIdle, Iretq
  <2>2. regs' = regs
    BY <2>1, StubsUndone DEF RegsInv
  <2> QED
    BY <2>1, <2>2, RegsFrame
<1>6. ASSUME KeyboardHandler \/ MouseHandler PROVE RegsInv'
  <2>1. /\ regs' = Resumed(int_handler(33, regs)) \/ regs' = Resumed(int_handler(44, regs))
        /\ ctx' = ctx
    BY <1>6 DEF KeyboardHandler, MouseHandler, Iretq
  <2>2. \A v \in {33, 44} : Resumed(int_handler(v, regs)) = regs
    BY StubsUndone DEF RegsInv
  <2>3. regs' = regs
    BY <2>1, <2>2
  <2> QED
    BY <2>1, <2>3, RegsFrame
<1>7. ASSUME NEW flags, ClockSwitch(flags) PROVE RegsInv'
  <2>1. regs' = Dispatched
    BY <1>7 DEF ClockSwitch
  <2>2. ctx' # Boot
    <3>1. process' = NextProcess /\ NextProcess # 0
      <4>1. processnum # 0 /\ ~panicked
        BY <1>7, ConstantsAre DEF ClockSwitch, IInv, RunInv
      <4>2. process' = NextProcess
        BY <1>7 DEF ClockSwitch
      <4> QED
        BY <4>2, ConstantsAre DEF NextProcess, IInv, TypeOK
    <3>2. ctx' \in {process', Halted}
      BY DEF IInv, RunInv
    <3> QED
      BY <3>1, <3>2, ConstantsAre DEF Boot
  <2> QED
    BY <2>1, <2>2, FilesAre DEF RegsInv, RegistersAreKept, IsFile, Dispatched
<1>8. ASSUME SystemCall PROVE RegsInv'
  <2>1. /\ regs' = Resumed(interrupt_handler_128(Loaded(regs))) /\ ctx' = ctx
        /\ ctx \in 1 .. Loads
    BY <1>8 DEF SystemCall
  <2>2. regs' = Loaded(regs)
    BY <2>1, FilesAre, StubsUndone
  <2>3. regs \in {Dispatched, Loaded(Dispatched)} /\ ctx # Boot
    BY <2>1, ConstantsAre DEF RegsInv, RegistersAreKept, Boot
  <2>4. regs' = Loaded(Dispatched)
    BY <2>2, <2>3, FilesAre
  <2> QED
    BY <2>1, <2>3, <2>4, FilesAre DEF RegsInv, RegistersAreKept, Dispatched, Loaded, IsFile
<1>9. ASSUME UNCHANGED vars PROVE RegsInv'
  <2>1. regs' = regs /\ ctx' = ctx
    BY <1>9 DEF vars
  <2> QED
    BY <2>1, RegsFrame
<1>10. ASSUME Handler PROVE RegsInv'
  BY <1>5, <1>6, <1>7, <1>10 DEF Handler
<1> QED
  BY <1>1, <1>2, <1>3, <1>4, <1>8, <1>9, <1>10 DEF Next

\* Both invariants hold of every behaviour.
LEMMA RegsInvariant ==
  Spec => [](IInv /\ RegsInv)
<1>1. Init => RegsInv
  <2> SUFFICES ASSUME Init PROVE RegsInv
    OBVIOUS
  <2>1. ctx = Boot /\ regs = Own /\ Boot \notin 1 .. Loads
    BY ConstantsAre DEF Init, Boot
  <2> QED
    BY <2>1, FilesAre DEF RegsInv, RegistersAreKept
<1>2. Init => IInv
  BY KernelInit
<1>3. (IInv /\ RegsInv) /\ [Next]_vars => (IInv /\ RegsInv)'
  BY KernelStep, RegsStep
<1> QED
  BY <1>1, <1>2, <1>3, PTL DEF Spec

-----------------------------------------------------------------------------
(* Theorems *)

\* The variables of the kernel have their types: the scheduler's index and
\* the tables of run_elf stay within their bounds.
THEOREM TypeCorrect == Spec => []TypeOK
<1>1. IInv => TypeOK
  BY DEF IInv
<1> QED
  BY <1>1, KernelInvariant, PTL

\* Whenever the processor can be interrupted, every line that has been
\* accepted has been acknowledged at every controller it went through.
THEOREM NothingLeftInServiceCorrect == Spec => []NothingLeftInService
<1>1. IInv => NothingLeftInService
  BY DEF IInv, RunInv, ServiceInv, NothingLeftInService
<1> QED
  BY <1>1, KernelInvariant, PTL

\* At whatever point of run_elf the timer strikes, clock_handler dispatches
\* only a process whose tables, memory and frame run_elf has finished.
THEOREM DispatchedIsFinishedCorrect == Spec => []DispatchedIsFinished
<1>1. IInv => DispatchedIsFinished
  <2> SUFFICES ASSUME IInv, cr3 # Boot PROVE DispatchedIsFinished
    BY DEF DispatchedIsFinished
  <2>1. process # 0 /\ cr3 = process /\ Finished(process)
    BY DEF IInv, RunInv, FinishedInv, Boot
  <2>2. cr3 \in 1 .. processnum \/ panicked
    BY <2>1, ConstantsAre DEF IInv, TypeOK, RunInv
  <2> QED
    BY <2>1, <2>2 DEF IInv, RunInv, Finished, DispatchedIsFinished
<1> QED
  BY <1>1, KernelInvariant, PTL

\* After a panic neither a process nor _start nor a handler takes a step.
THEOREM PanicIsFinalCorrect == Spec => PanicIsFinal
<1> DEFINE Frozen == ctx' = ctx /\ processnum' = 0 /\ UNCHANGED <<pc, cr3>>
<1>1. IInv /\ panicked /\ [Next]_vars => Frozen
  <2> SUFFICES ASSUME IInv, panicked, [Next]_vars PROVE Frozen
    OBVIOUS
  <2>1. /\ processnum = 0 /\ ~iflag /\ handling = None
        /\ ctx = Halted /\ ctx \notin 1 .. Loads
    BY ConstantsAre DEF IInv, RunInv
  <2>2. ~BootStep
    BY DEF BootStep, BootRuns, Early, install_idt, init_mouse, RejectElf, Build,
           SetEntry, SetInfo, Count, Report
  <2>3. ~Handler
    BY <2>1, ConstantsAre
       DEF Handler, ClockIdle, ClockSwitch, KeyboardHandler, MouseHandler
  <2>4. ~(\E line \in Lines : Accept(line) \/ AcceptUnhandled(line))
    BY <2>1 DEF Accept, AcceptUnhandled
  <2>5. ~(\E v \in {0, 4, 6, 13, 14} : Fault(v))
    BY <2>1 DEF Fault
  <2>6. (\E line \in Lines : Raise(line)) \/ UNCHANGED vars
    BY <2>1, <2>2, <2>3, <2>4, <2>5 DEF Next, SystemCall
  <2>7. UNCHANGED <<ctx, processnum, pc, cr3>>
    BY <2>6 DEF Raise, vars, boot, sched
  <2> QED
    BY <2>1, <2>7
<1>2. IInv /\ [Next]_vars => [panicked => Frozen]_vars
  BY <1>1
<1> QED
  BY <1>2, KernelInvariant, PTL DEF Spec, PanicIsFinal

\* Whatever interrupts it, _start has its own registers when it runs, and a
\* process those it was started with or has loaded since: each stub undoes
\* what the interrupt and push_all have put on the stack.
THEOREM RegistersAreKeptCorrect == Spec => []RegistersAreKept
<1>1. RegsInv => RegistersAreKept
  BY DEF RegsInv
<1> QED
  BY <1>1, RegsInvariant, PTL

\* interrupt_handler gets its vector and the error code where there is one,
\* syscall_handler the registers that the process has loaded.
THEOREM ArgumentsArriveCorrect == Spec => []ArgumentsArrive
<1>1. RegsInv => ArgumentsArrive
  <2> SUFFICES ASSUME RegsInv PROVE ArgumentsArrive
    OBVIOUS
  <2>1. /\ \A v \in {0, 4, 6, 33, 44} : int_handler(v, regs).regs["rdi"] = v
        /\ \A v \in HasCode : LET m == eint_handler(v, regs)
                              IN  m.regs["rdi"] = v /\ m.regs["rsi"] = Code
    BY StubArguments DEF RegsInv
  <2>2. interrupt_handler_128(Loaded(regs)).regs = Loaded(regs)
    BY FilesAre, StubArguments
  <2>3. \A r \in {"rdi", "rsi", "rdx"} : interrupt_handler_128(Loaded(regs)).regs[r] = r
    BY <2>2, FilesAre
  <2> QED
    BY <2>1, <2>3 DEF ArgumentsArrive
<1> QED
  BY <1>1, RegsInvariant, PTL
=============================================================================
