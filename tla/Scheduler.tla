----------------------------- MODULE Scheduler ------------------------------
(***************************************************************************)
(* Tasks, context switches and the crossings between the kernel and ring 3 *)
(* (src/src/task.c, sched.S, syscall_asm.S, the end of program.c).         *)
(*                                                                         *)
(* A task is its id; a kernel stack or an address space is named by the    *)
(* task it belongs to, None standing for the address 0.  The boot task     *)
(* runs the main loop and, for every `run` command, program_run.  Kernel   *)
(* tasks are what task_create_kernel offers; nothing in the repository     *)
(* creates one, so MaxKernelTasks is 0 for the program as it is.  No       *)
(* interrupt handler calls the scheduler (timer_set_callback has no        *)
(* caller), so each of its functions is one step.                          *)
(***************************************************************************)
EXTENDS Integers, Sequences

CONSTANTS
  MaxTasks,        \* bound: ids given out before the run of the model ends
  MaxKernelTasks   \* bound: kernel tasks created

ASSUME BoundsAssumption == MaxTasks \in Nat \ {0} /\ MaxKernelTasks \in Nat

None == 0
Boot == 1          \* boot_task.id
Task == Boot .. MaxTasks

VARIABLES
  ring,      \* ready_head and the next pointers: the circular list from Boot on
  kind,      \* task -> "boot", "kernel" or "user" (is_user)
  state,     \* task -> TASK_READY, TASK_RUNNING or TASK_DEAD
  saved,     \* task -> the stack, RFLAGS.IF and place that context_switch left
  current,   \* the scheduler's idea of who runs
  cpu,       \* what the processor does: see CPU below
  traps,     \* the stacks used on entry to the kernel: syscall_kstack, tss.rsp0
  waiting,   \* the task program_run has started and not returned from, or None
  halted     \* "no", "exception" or "no more tasks"

vars == <<ring, kind, state, saved, current, cpu, traps, waiting, halted>>

\* Where a task is: boot_task in the main loop, about to call sched_yield in
\* program_run or back from it; a kernel task in its function; a user task on
\* its way to ring 3, in ring 3, or in a system call.
Place == {"main", "yield", "return", "fn", "enter_user", "user", "syscall"}

Created == DOMAIN state

Context == [stack : Task, intr : BOOLEAN, at : Place]

\* cs is the selector ring 3 runs with: 0x1B or whatever sysret loads; r11 is
\* the IF flag of the user's RFLAGS that a system call keeps.
CPU == [stack : Task \cup {None}, intr : BOOLEAN, at : Place, cr3 : Task,
        cs : {"user", "tss"}, r11 : BOOLEAN]

AddressSpace(t) == IF kind[t] = "user" THEN t ELSE Boot

Init ==
  /\ ring = <<Boot>>
  /\ kind = [t \in {Boot} |-> "boot"]
  /\ state = [t \in {Boot} |-> "RUNNING"]
  /\ saved = [t \in {Boot} |-> [stack |-> Boot, intr |-> FALSE, at |-> "main"]]
  /\ current = Boot
  /\ cpu = [stack |-> Boot, intr |-> TRUE, at |-> "main", cr3 |-> Boot,
            cs |-> "user", r11 |-> FALSE]
  /\ traps = [syscall_kstack |-> None, rsp0 |-> None]
  /\ waiting = None
  /\ halted = "no"

Running(t, place) == halted = "no" /\ current = t /\ cpu.at = place

-----------------------------------------------------------------------------
(* The list of tasks: they are never removed from it *)

\* Mutant of list_add.
list_add_HeadLost(t) == <<t>> \o Tail(ring)

\* A new task goes right behind the head, which is always the boot task.
list_add(t) == <<ring[1], t>> \o Tail(ring)

\* The list is circular: behind the last place comes the first.
At(i) == IF i <= Len(ring) THEN ring[i] ELSE ring[i - Len(ring)]

\* Mutant of Runnable.
Runnable_Any(t) == state[t] \in {"READY", "RUNNING", "DEAD"}

Runnable(t) == state[t] \in {"READY", "RUNNING"}

\* pick_next(from) answers t: the first runnable task behind `from`, or `from`
\* itself, whatever its state, when there is no other.
pick_next(from, t) ==
  \/ \E p \in DOMAIN ring, k \in 1 .. (Len(ring) - 1) :
       /\ ring[p] = from
       /\ t = At(p + k) /\ Runnable(t)
       /\ \A j \in 1 .. (k - 1) : ~Runnable(At(p + j))
  \/ t = from /\ \A i \in DOMAIN ring : ring[i] = from \/ ~Runnable(ring[i])

-----------------------------------------------------------------------------
(* Creating tasks: both functions fail, without a trace in the scheduler,   *)
(* when the heap or the frame allocator has nothing left.                   *)

task_create(t, type, place) ==
  /\ t = Len(ring) + 1
  /\ t <= MaxTasks
  /\ ring' = list_add(t)
  /\ kind' = [u \in Created \cup {t} |-> IF u = t THEN type ELSE kind[u]]
  /\ state' = [u \in Created \cup {t} |-> IF u = t THEN "READY" ELSE state[u]]
  /\ saved' = [u \in Created \cup {t} |->
                 IF u = t THEN [stack |-> t, intr |-> TRUE, at |-> place]
                          ELSE saved[u]]

task_create_kernel(t) ==
  /\ Running(Boot, "main")
  /\ t <= MaxKernelTasks + 1
  /\ task_create(t, "kernel", "fn")
  /\ UNCHANGED <<current, cpu, traps, waiting, halted>>

\* program_run up to the call of sched_yield.
task_create_user(t) ==
  /\ Running(Boot, "main")
  /\ task_create(t, "user", "enter_user")
  /\ cpu' = [cpu EXCEPT !.at = "yield"]
  /\ waiting' = t
  /\ UNCHANGED <<current, traps, halted>>

-----------------------------------------------------------------------------
(* Switching *)

\* The registers of sched.S: stack pointer, flags and return address are
\* swapped, then the address space of the next task is loaded.
context_switch(prev, next, resume) ==
  /\ saved' = [saved EXCEPT ![prev] =
                 [stack |-> cpu.stack, intr |-> cpu.intr, at |-> resume]]
  /\ cpu' = [cpu EXCEPT !.stack = saved[next].stack, !.intr = saved[next].intr,
                        !.at = saved[next].at, !.cr3 = AddressSpace(next)]

\* Mutant of set_kernel_stack.
set_kernel_stack_TssOnly(next) ==
  traps' = IF kind[next] = "user" THEN [traps EXCEPT !.rsp0 = next] ELSE traps

\* The kernel stack that the next task's system calls and faults will use.
set_kernel_stack(next) ==
  traps' = IF kind[next] = "user"
           THEN [syscall_kstack |-> next, rsp0 |-> next]
           ELSE traps

\* Mutant of After.
After_YieldAgain(place) == place

\* What the caller of sched_yield does once it runs again.
After(place) == IF place = "yield" THEN "return" ELSE place

sched_yield(prev) ==
  /\ Running(prev, "yield") \/ Running(prev, "fn")
  /\ UNCHANGED <<ring, kind, waiting, halted>>
  /\ \E next \in Created :
       /\ pick_next(prev, next)
       /\ IF next = prev
          THEN /\ cpu' = [cpu EXCEPT !.at = After(cpu.at)]
               /\ UNCHANGED <<state, saved, current, traps>>
          ELSE /\ state' = [state EXCEPT ![prev] = "READY", ![next] = "RUNNING"]
               /\ current' = next
               /\ set_kernel_stack(next)
               /\ context_switch(prev, next, After(cpu.at))

\* Mutant of sched_exit.
sched_exit_StaysReady(prev) ==
  /\ Running(prev, "syscall") \/ Running(prev, "fn")
  /\ UNCHANGED <<ring, kind, waiting, halted>>
  /\ \E next \in Created \ {prev} :
       /\ pick_next(prev, next)
       /\ state' = [state EXCEPT ![prev] = "READY", ![next] = "RUNNING"]
       /\ current' = next
       /\ set_kernel_stack(next)
       /\ context_switch(prev, next, cpu.at)

\* Called by the exit system calls and open to kernel tasks.
sched_exit(prev) ==
  /\ Running(prev, "syscall") \/ Running(prev, "fn")
  /\ UNCHANGED <<ring, kind, waiting>>
  /\ \E next \in Created :
       /\ pick_next(prev, next)
       /\ IF next = prev
          THEN /\ state' = [state EXCEPT ![prev] = "DEAD"]
               /\ halted' = "no more tasks"
               /\ UNCHANGED <<saved, current, cpu, traps>>
          ELSE /\ state' = [state EXCEPT ![prev] = "DEAD", ![next] = "RUNNING"]
               /\ current' = next
               /\ set_kernel_stack(next)
               /\ context_switch(prev, next, cpu.at)
               /\ UNCHANGED halted

\* program_run returns to the shell.
program_return ==
  /\ Running(Boot, "return")
  /\ cpu' = [cpu EXCEPT !.at = "main"]
  /\ waiting' = None
  /\ UNCHANGED <<ring, kind, state, saved, current, traps, halted>>

-----------------------------------------------------------------------------
(* Crossings between ring 0 and ring 3 *)

\* cli; iretq to the frame task_create_user built: IF clear, user selectors.
task_enter_user(t) ==
  /\ Running(t, "enter_user")
  /\ cpu' = [cpu EXCEPT !.at = "user", !.intr = FALSE, !.cs = "user"]
  /\ UNCHANGED <<ring, kind, state, saved, current, traps, waiting, halted>>

\* SFMASK clears IF; the entry code takes its stack from syscall_kstack.
syscall_entry(t) ==
  /\ Running(t, "user")
  /\ cpu' = [cpu EXCEPT !.at = "syscall", !.intr = FALSE,
                        !.r11 = cpu.intr, !.stack = traps.syscall_kstack]
  /\ UNCHANGED <<ring, kind, state, saved, current, traps, waiting, halted>>

\* sysretq restores the user's flags and loads STAR[63:48] + 16, the TSS's slot.
sysret(t) ==
  /\ Running(t, "syscall")
  /\ cpu' = [cpu EXCEPT !.at = "user", !.intr = cpu.r11, !.cs = "tss"]
  /\ UNCHANGED <<ring, kind, state, saved, current, traps, waiting, halted>>

\* An exception in ring 3 enters on tss.rsp0, prints the registers and halts.
\* int 0x80 ends the same way when the iretq finds a CS that is no code segment.
isr_handler(t) ==
  /\ Running(t, "user")
  /\ halted' = "exception"
  /\ cpu' = [cpu EXCEPT !.stack = traps.rsp0, !.intr = FALSE]
  /\ UNCHANGED <<ring, kind, state, saved, current, traps, waiting>>

-----------------------------------------------------------------------------
Step(t) ==
  \/ sched_yield(t) \/ sched_exit(t)
  \/ task_enter_user(t) \/ syscall_entry(t) \/ sysret(t)
  \/ isr_handler(t)

Next ==
  \/ \E t \in Task : task_create_kernel(t) \/ task_create_user(t)
  \/ program_return
  \/ \E t \in Created : Step(t)



\* The kernel always goes on and kernel tasks yield; a program goes on making
\* system calls and, of all those it may make, in the end makes one that exits.
Fairness ==
  /\ WF_vars(program_return)
  /\ \A t \in Task :
       /\ WF_vars(task_enter_user(t)) /\ WF_vars(syscall_entry(t))
       /\ WF_vars(sysret(t)) /\ WF_vars(sched_yield(t))
       /\ SF_vars(Running(t, "syscall") /\ sched_exit(t))

Spec == Init /\ [][Next]_vars

FairSpec == Spec /\ Fairness

-----------------------------------------------------------------------------
(* Properties *)

\* Every task ever created is in the circular list exactly once, and all its
\* fields have been filled in.
TypeOK ==
  /\ Len(ring) \in 1 .. MaxTasks
  /\ ring \in Seq(1 .. Len(ring))
  /\ ring[1] = Boot
  /\ \A t \in 1 .. Len(ring) : \E i \in 1 .. Len(ring) : ring[i] = t
  /\ kind \in [1 .. Len(ring) -> {"boot", "kernel", "user"}]
  /\ state \in [1 .. Len(ring) -> {"READY", "RUNNING", "DEAD"}]
  /\ saved \in [1 .. Len(ring) -> Context]
  /\ current \in 1 .. Len(ring)
  /\ cpu \in CPU
  /\ traps \in [syscall_kstack : Task \cup {None}, rsp0 : Task \cup {None}]
  /\ waiting \in {None} \cup 1 .. Len(ring)
  /\ halted \in {"no", "exception", "no more tasks"}

\* One task is TASK_RUNNING, and it is the one whose address space and stack
\* the processor uses, through every mixture of yields, exits and traps.
CurrentOnCpu ==
  halted # "no more tasks" =>
    /\ \A t \in Created : state[t] = "RUNNING" <=> t = current
    /\ cpu.cr3 = AddressSpace(current)
    /\ cpu.stack = current

\* A task in ring 3 enters the kernel on a stack of its own, whether by system
\* call or by fault, and every task that waits to run resumes on its own.
StacksSeparate ==
  /\ cpu.at \in {"enter_user", "user", "syscall"} =>
       traps = [syscall_kstack |-> current, rsp0 |-> current]
  /\ \A t \in Created : t # current /\ state[t] # "DEAD" => saved[t].stack = t

\* docs/STATUS.md: "user programs run with interrupts disabled (IF clear) to
\* avoid a timer/iretq interaction"; their system calls do too.
UserUninterruptible == cpu.at \in {"user", "syscall"} => ~cpu.intr

\* docs/STATUS.md: "RFLAGS are saved/restored across context switches so the
\* boot task resumes with interrupts enabled".
BootInterruptible == current = Boot /\ halted = "no" => cpu.intr

\* src/src/program.h:9, program_run "returns when it exits": when the shell
\* gets control back its program is dead, not merely waiting for its turn.
ReturnsWhenItExits ==
  current = Boot /\ cpu.at = "return" => waiting # None /\ state[waiting] = "DEAD"

\* The last task never exits: sched_exit always finds the boot task.
NeverOutOfTasks == halted # "no more tasks"

\* A dead task never runs again, though it stays in the list for good.
DeadStaysDead ==
  [][\A t \in Created : state[t] = "DEAD" =>
        state'[t] = "DEAD" /\ current' # t]_vars

\* Every `run` command gives the desktop back, unless the program faults.
ProgramRunReturns == (waiting # None) ~> (waiting = None \/ halted # "no")

-----------------------------------------------------------------------------
(* What a comment says and the code does not do *)

\* src/src/syscall.c:14, "user CS in bits 63:48": sysret returns to ring 3 with
\* the user code segment.
UserCodeSegment == cpu.at = "user" => cpu.cs = "user"
=============================================================================
