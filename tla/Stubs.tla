------------------------------- MODULE Stubs --------------------------------
(***************************************************************************)
(* The interrupt stubs of kernelasm.asm, instruction by instruction, on    *)
(* symbolic values: a register holds the name of the register or field its *)
(* value was in when the context last ran, a number, or Unset.  The stack  *)
(* is a sequence, its top first.                                           *)
(***************************************************************************)
EXTENDS Integers, Sequences

CONSTANT Unset   \* what nobody has written, or a C function has left behind

Machine(regs, stack) == [regs |-> regs, stack |-> stack]

PushOrder ==
  <<"rax", "rbx", "rcx", "rdx", "rsi", "rdi", "rbp", "r8", "r9", "r10", "r11",
    "r12", "r13", "r14", "r15">>

\* Faulty variant: rdi and rsi come off in the order they went on.
PopOrderSwapped ==
  <<"r15", "r14", "r13", "r12", "r11", "r10", "r9", "r8", "rbp", "rsi", "rdi",
    "rdx", "rcx", "rbx", "rax">>

PopOrder ==
  <<"r15", "r14", "r13", "r12", "r11", "r10", "r9", "r8", "rbp", "rdi", "rsi",
    "rdx", "rcx", "rbx", "rax">>

\* What iretq takes off the stack, where the processor puts it.
ReturnOrder == <<"rip", "cs", "rflags", "rsp", "ss">>

General == {PushOrder[n] : n \in DOMAIN PushOrder}
Registers == General \cup {ReturnOrder[n] : n \in DOMAIN ReturnOrder}

\* The registers in order, the first of them pushed first.
Pushed(m, order) ==
  Machine(m.regs,
          [n \in DOMAIN order |-> m.regs[order[Len(order) + 1 - n]]] \o m.stack)

\* The registers in order, the first of them popped first.
Popped(m, order) ==
  Machine([r \in Registers |->
             IF \E n \in DOMAIN order : order[n] = r
             THEN m.stack[CHOOSE n \in DOMAIN order : order[n] = r]
             ELSE m.regs[r]],
          SubSeq(m.stack, Len(order) + 1, Len(m.stack)))

push_all(m) == Pushed(m, PushOrder)
pop_all(m) == Popped(m, PopOrder)
iretq(m) == Popped(m, ReturnOrder)
mov(m, register, value) == [m EXCEPT !.regs[register] = value]

\* An interrupt, with an error code for the vectors that have one.
Code == "code"
HasCode == {8, 14}

Interrupted(v, regs) ==
  LET m == Pushed(Machine(regs, <<>>), <<"ss", "rsp", "rflags", "cs", "rip">>)
  IN  IF v \in HasCode THEN Machine(regs, <<Code>> \o m.stack) ELSE m

\* A call returns with the registers lost that the convention lets it use.
CallerSaved == {"rax", "rcx", "rdx", "rsi", "rdi", "r8", "r9", "r10", "r11"}

call(m) ==
  [m EXCEPT !.regs = [r \in Registers |-> IF r \in CallerSaved THEN Unset ELSE @[r]]]

\* The stubs up to their call, in which rdi, rsi and rdx are the arguments.
int_handler(v, regs) == mov(push_all(Interrupted(v, regs)), "rdi", v)

\* Faulty variant: the error code is not taken off the stack.
eint_handlerNoPop(v, regs) == mov(push_all(Interrupted(v, regs)), "rdi", v)

eint_handler(v, regs) ==
  mov(push_all(Popped(Interrupted(v, regs), <<"rsi">>)), "rdi", v)

interrupt_handler_128(regs) == push_all(Interrupted(128, regs))

\* And behind it, to the context that was interrupted.
Resumed(m) == iretq(pop_all(call(m))).regs

\* interrupt_handler_32 goes on with the stack that clock_handler returns.
clockStack(regs) == push_all(Interrupted(32, regs)).stack

interrupt_handler_32(stack) ==
  LET called == [r \in Registers |-> Unset]
  IN  iretq(pop_all(mov(Machine(called, stack), "rax", 32))).regs
=============================================================================
