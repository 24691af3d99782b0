----------------------------- MODULE TrapFrame ------------------------------
(***************************************************************************)
(* The way through an interrupt (src/src/isr.S, isr_table.c, idt.h): what  *)
(* the processor pushes, the stub of the vector, isr_common, the frame     *)
(* isr_handler sees, and the way back.                                     *)
(*                                                                         *)
(* The state of the processor is [regs, rip, cs, rflags, rsp, ss]; what is *)
(* in a register is a value of its own.  A stack is a sequence of words,   *)
(* the last one pushed at its end.                                         *)
(***************************************************************************)
EXTENDS Integers, SequencesExt

Regs == {"rax", "rbx", "rcx", "rdx", "rsi", "rdi", "rbp", "r8", "r9", "r10", "r11",
         "r12", "r13", "r14", "r15"}

Anything == "anything"

-----------------------------------------------------------------------------
(* The processor *)

\* The exceptions for which it pushes an error code.
WithCode == {8, 10, 11, 12, 13, 14, 17, 21, 29, 30}

Entered(cpu, n, code) ==
  <<cpu.ss, cpu.rsp, cpu.rflags, cpu.cs, cpu.rip>> \o (IF n \in WithCode THEN <<code>> ELSE <<>>)

\* iretq takes five words.
iretq(stack, regs) ==
  LET top(k) == stack[Len(stack) + 1 - k]
  IN  [regs |-> regs, rip |-> top(1), cs |-> top(2), rflags |-> top(3), rsp |-> top(4),
       ss |-> top(5)]

-----------------------------------------------------------------------------
(* isr.S *)

\* Mutant of ISR_ERR.
ISR_ERR_Without17 == {8, 10, 11, 12, 13, 14, 21, 29, 30}

\* The vectors whose stubs leave the error code to the processor.
ISR_ERR == {8, 10, 11, 12, 13, 14, 17, 21, 29, 30}

\* The entry of isr_table for vector n: 0 for the missing code, then n.
isr_table(n) == IF n \in ISR_ERR THEN <<n>> ELSE <<"0", n>>

Pushed ==
  <<"r15", "r14", "r13", "r12", "r11", "r10", "r9", "r8", "rbp", "rdi", "rsi", "rdx", "rcx",
    "rbx", "rax">>

Popped ==
  <<"rax", "rbx", "rcx", "rdx", "rsi", "rdi", "rbp", "r8", "r9", "r10", "r11", "r12", "r13",
    "r14", "r15">>

\* What the C function may leave in the registers it need not keep.
Clobbered(regs) ==
  [r \in Regs |-> IF r \in {"rbx", "rbp", "r12", "r13", "r14", "r15"} THEN regs[r] ELSE Anything]

\* The stack when isr_handler is called.
Frame(cpu, n, code) ==
  Entered(cpu, n, code) \o isr_table(n) \o [k \in DOMAIN Pushed |-> cpu.regs[Pushed[k]]]

\* isr_common after the call: pops, and 16 bytes dropped.
Resumed(cpu, n, code) ==
  LET stack == Frame(cpu, n, code)
      at(k) == stack[Len(stack) + 1 - k]
      regs == [r \in Regs |-> IF \E k \in DOMAIN Popped : Popped[k] = r
                              THEN at(CHOOSE k \in DOMAIN Popped : Popped[k] = r)
                              ELSE Clobbered(cpu.regs)[r]]
  IN  iretq(SubSeq(stack, 1, Len(stack) - Len(Popped) - 2), regs)

-----------------------------------------------------------------------------
(* idt.h *)

\* isr_frame_t, from the lowest address up.
isr_frame_t ==
  <<"r15", "r14", "r13", "r12", "r11", "r10", "r9", "r8", "rbp", "rdi", "rsi", "rdx", "rcx",
    "rbx", "rax", "int_no", "err_code", "rip", "cs", "rflags", "rsp", "ss">>

\* The field of the frame at the end of the stack.
Field(stack, name) ==
  stack[Len(stack) + 1 - (CHOOSE k \in DOMAIN isr_frame_t : isr_frame_t[k] = name)]
=============================================================================
