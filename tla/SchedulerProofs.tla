-------------------------- MODULE SchedulerProofs ---------------------------
(***************************************************************************)
(* The scheduler's safety, for any number of tasks.  The inductive         *)
(* invariant says where each kind of task can be while it does not run:    *)
(* the boot task inside program_run, with interrupts on; a kernel task in  *)
(* its function; a program not yet in ring 3, for a program that has been  *)
(* there leaves the processor only by exiting.  With the boot task always  *)
(* runnable, sched_exit never runs out of tasks; with a new program always *)
(* next behind the boot task, program_run's yield always reaches it.       *)
(***************************************************************************)
EXTENDS Scheduler, TLAPS

PlacesOf(type) == CASE type = "boot"   -> {"main", "yield", "return"}
                    [] type = "kernel" -> {"fn"}
                    [] type = "user"   -> {"enter_user", "user", "syscall"}

ResumesAt(type) == CASE type = "boot"   -> "return"
                     [] type = "kernel" -> "fn"
                     [] type = "user"   -> "enter_user"

\* No task is twice in the list, and the boot task is the only one of its kind.
Shape ==
  /\ \A i, j \in 1 .. Len(ring) : ring[i] = ring[j] => i = j
  /\ \A t \in 1 .. Len(ring) : kind[t] = "boot" <=> t = Boot
  /\ cpu.at \in PlacesOf(kind[current])

Suspended ==
  \A t \in 1 .. Len(ring) : t # current /\ state[t] # "DEAD" =>
    saved[t].stack = t /\ saved[t].at = ResumesAt(kind[t])

BootWaits ==
  /\ state[Boot] # "DEAD"
  /\ current # Boot => state[Boot] = "READY" /\ saved[Boot].intr

ProgramRuns ==
  /\ waiting # None => kind[waiting] = "user"
  /\ cpu.at = "yield" => /\ Len(ring) >= 2 /\ ring[2] = waiting
                         /\ waiting # None /\ state[waiting] = "READY"
                         /\ kind[waiting] = "user"
  /\ current # Boot => waiting # None
  /\ current # Boot => waiting = current \/ state[waiting] = "DEAD"

UserFlags == cpu.at = "syscall" => ~cpu.r11

IInv ==
  /\ TypeOK /\ CurrentOnCpu /\ StacksSeparate /\ UserUninterruptible
  /\ BootInterruptible /\ ReturnsWhenItExits /\ NeverOutOfTasks
  /\ Shape /\ Suspended /\ BootWaits /\ ProgramRuns /\ UserFlags

\* What list_add does to a sequence: all but the first element move up one.
LEMMA ListAddShifts ==
  ASSUME NEW n \in Nat, NEW r \in Seq(1 .. n), Len(r) = n, n > 0
  PROVE  LET q == <<r[1], n + 1>> \o Tail(r)
         IN  /\ q \in Seq(1 .. n + 1)
             /\ Len(q) = n + 1
             /\ q[1] = r[1] /\ q[2] = n + 1
             /\ \A i \in 3 .. n + 1 : q[i] = r[i - 1]
<1> DEFINE q == <<r[1], n + 1>> \o Tail(r)
<1>1. Tail(r) \in Seq(1 .. n + 1) /\ Len(Tail(r)) = n - 1
      /\ \A i \in 1 .. n - 1 : Tail(r)[i] = r[i + 1]
  OBVIOUS
<1>2. r[1] \in 1 .. n /\ <<r[1], n + 1>> \in Seq(1 .. n + 1)
  OBVIOUS
<1>3. q \in Seq(1 .. n + 1) /\ Len(q) = n + 1
  BY <1>1, <1>2
<1>4. q[1] = r[1] /\ q[2] = n + 1
  BY <1>1, <1>2
<1>5. ASSUME NEW i \in 3 .. n + 1 PROVE q[i] = r[i - 1]
  <2>1. q[i] = Tail(r)[i - 2]
    BY <1>1, <1>2
  <2> QED
    BY <1>1, <2>1
<1> QED
  BY <1>3, <1>4, <1>5

\* The list as a sequence without repetitions that starts with the boot task.
LEMMA RingFacts ==
  ASSUME IInv
  PROVE  /\ Len(ring) \in Nat \ {0} /\ Len(ring) <= MaxTasks
         /\ DOMAIN ring = 1 .. Len(ring) /\ DOMAIN state = 1 .. Len(ring)
         /\ ring[1] = Boot
         /\ \A i \in 1 .. Len(ring) : ring[i] \in 1 .. Len(ring)
         /\ \A i, j \in 1 .. Len(ring) : ring[i] = ring[j] => i = j
         /\ \A u \in 1 .. Len(ring) : \E i \in 1 .. Len(ring) : ring[i] = u
<1>1. Len(ring) \in 1 .. MaxTasks /\ ring \in Seq(1 .. Len(ring)) /\ ring[1] = Boot
      /\ DOMAIN state = 1 .. Len(ring)
      /\ \A u \in 1 .. Len(ring) : \E i \in 1 .. Len(ring) : ring[i] = u
  BY DEF IInv, TypeOK
<1>2. \A i, j \in 1 .. Len(ring) : ring[i] = ring[j] => i = j
  BY DEF IInv, Shape
<1>3. ASSUME NEW S, NEW r \in Seq(S)
      PROVE  DOMAIN r = 1 .. Len(r) /\ \A i \in 1 .. Len(r) : r[i] \in S
  OBVIOUS
<1>4. DOMAIN ring = 1 .. Len(ring)
      /\ \A i \in 1 .. Len(ring) : ring[i] \in 1 .. Len(ring)
  BY <1>1, <1>3
<1> QED
  BY <1>1, <1>2, <1>4, BoundsAssumption

\* Creating a task appends to every table and leaves the rest of them alone.
LEMMA CreateFacts ==
  ASSUME IInv, NEW t, NEW type \in {"kernel", "user"}, NEW place \in Place,
         task_create(t, type, place)
  PROVE  /\ t = Len(ring) + 1 /\ t \in Task /\ t # Boot
         /\ Len(ring') = t /\ ring' \in Seq(1 .. t)
         /\ ring'[1] = Boot /\ ring'[2] = t
         /\ \A u \in 1 .. t : \E i \in 1 .. t : ring'[i] = u
         /\ \A i, j \in 1 .. t : ring'[i] = ring'[j] => i = j
         /\ kind' = [u \in 1 .. t |-> IF u = t THEN type ELSE kind[u]]
         /\ state' = [u \in 1 .. t |-> IF u = t THEN "READY" ELSE state[u]]
         /\ saved' = [u \in 1 .. t |->
               IF u = t THEN [stack |-> t, intr |-> TRUE, at |-> place]
                        ELSE saved[u]]
<1> DEFINE n == Len(ring)
<1>1. /\ n \in Nat \ {0} /\ MaxTasks \in Nat /\ ring \in Seq(1 .. n)
      /\ ring[1] = 1 /\ DOMAIN state = 1 .. n
      /\ \A u \in 1 .. n : \E i \in 1 .. n : ring[i] = u
      /\ \A i, j \in 1 .. n : ring[i] = ring[j] => i = j
      /\ \A i \in 1 .. n : ring[i] \in 1 .. n
  BY RingFacts, BoundsAssumption DEF IInv, TypeOK, Boot
<1>2. /\ t = n + 1 /\ t <= MaxTasks /\ ring' = <<ring[1], t>> \o Tail(ring)
      /\ Created \cup {t} = 1 .. t
  BY <1>1 DEF task_create, list_add, Created
<1>3. /\ ring' \in Seq(1 .. t) /\ Len(ring') = t
      /\ ring'[1] = 1 /\ ring'[2] = t
      /\ \A i \in 3 .. t : ring'[i] = ring[i - 1]
  <2> HIDE DEF n
  <2> QED
    BY <1>1, <1>2, ListAddShifts DEF n
<1>4. ASSUME NEW u \in 1 .. t PROVE \E i \in 1 .. t : ring'[i] = u
  <2>1. CASE u = t
    BY <1>1, <1>2, <1>3, <2>1
  <2>2. CASE u # t
    <3>1. u \in 1 .. n
      BY <1>1, <1>2, <2>2
    <3>2. PICK i \in 1 .. n : ring[i] = u
      BY <1>1, <3>1
    <3>3. CASE i = 1
      <4>1. 1 \in 1 .. t /\ ring'[1] = u
        BY <1>1, <1>2, <1>3, <3>2, <3>3
      <4> QED
        BY <4>1
    <3>4. CASE i # 1
      <4>1. i + 1 \in 3 .. t /\ i + 1 \in 1 .. t /\ (i + 1) - 1 = i
        BY <1>1, <1>2, <3>4
      <4>2. ring'[i + 1] = ring[(i + 1) - 1]
        BY <1>3, <4>1
      <4> QED
        BY <3>2, <4>1, <4>2
    <3> QED
      BY <3>3, <3>4
  <2> QED
    BY <2>1, <2>2
<1>5. ASSUME NEW i \in 1 .. t, NEW j \in 1 .. t, ring'[i] = ring'[j] PROVE i = j
  <2> DEFINE Back(k) == IF k = 1 THEN 1 ELSE k - 1
  <2>1. \A k \in 1 .. t : k # 2 => Back(k) \in 1 .. n /\ ring'[k] = ring[Back(k)]
                                  /\ ring'[k] # t
    <3> SUFFICES ASSUME NEW k \in 1 .. t, k # 2
                 PROVE  Back(k) \in 1 .. n /\ ring'[k] = ring[Back(k)]
                        /\ ring'[k] # t
      OBVIOUS
    <3>1. Back(k) \in 1 .. n
      BY <1>1, <1>2
    <3>2. ASSUME k = 1 PROVE ring'[k] = ring[Back(k)]
      BY <1>1, <1>3, <3>1, <3>2
    <3>3. ASSUME k # 1 PROVE ring'[k] = ring[Back(k)]
      <4>1. k \in 3 .. t /\ Back(k) = k - 1
        BY <1>1, <1>2, <3>3
      <4> QED
        BY <1>3, <4>1
    <3>4. ring'[k] = ring[Back(k)]
      BY <3>2, <3>3
    <3>5. ring[Back(k)] \in 1 .. n
      BY <1>1, <3>1
    <3>6. t \notin 1 .. n
      BY <1>1, <1>2
    <3> QED
      BY <3>1, <3>4, <3>5, <3>6
  <2>2. CASE i = 2 \/ j = 2
    BY <1>3, <1>5, <2>1, <2>2
  <2>3. CASE i # 2 /\ j # 2
    <3>1. Back(i) \in 1 .. n /\ Back(j) \in 1 .. n /\ ring[Back(i)] = ring[Back(j)]
      BY <1>5, <2>1, <2>3
    <3>2. Back(i) = Back(j)
      BY <1>1, <3>1
    <3>3. i \in Nat /\ j \in Nat /\ i > 0 /\ j > 0
      BY <1>1, <1>2
    <3> QED
      BY <2>3, <3>2, <3>3
  <2> QED
    BY <2>2, <2>3
<1>6. t \in Task /\ t # Boot
  BY <1>1, <1>2 DEF Task, Boot
<1>7. /\ kind' = [u \in 1 .. t |-> IF u = t THEN type ELSE kind[u]]
      /\ state' = [u \in 1 .. t |-> IF u = t THEN "READY" ELSE state[u]]
      /\ saved' = [u \in 1 .. t |->
            IF u = t THEN [stack |-> t, intr |-> TRUE, at |-> place]
                     ELSE saved[u]]
  BY <1>2 DEF task_create
<1> HIDE DEF n
<1> QED
  BY <1>2, <1>3, <1>4, <1>5, <1>6, <1>7 DEF Boot, n

\* Whatever pick_next answers is in the list; it is runnable unless it is the
\* task that asked; and a task right behind the boot task is always its choice.
LEMMA PickFacts ==
  ASSUME IInv, NEW from \in Created, NEW t \in Created, pick_next(from, t)
  PROVE  /\ t # from => Runnable(t)
         /\ from # Boot => t # from
         /\ from = Boot /\ Len(ring) >= 2 /\ Runnable(ring[2]) => t = ring[2]
<1>1. from # Boot => Runnable(Boot)
  <2>1. state[Boot] # "DEAD" /\ state[Boot] \in {"READY", "RUNNING", "DEAD"}
    BY RingFacts DEF IInv, BootWaits, TypeOK, Boot
  <2> QED
    BY <2>1 DEF Runnable
<1>2. CASE t = from /\ \A i \in DOMAIN ring : ring[i] = from \/ ~Runnable(ring[i])
  <2>1. from = Boot
    BY <1>1, <1>2, RingFacts
  <2>2. ASSUME Len(ring) >= 2, Runnable(ring[2]) PROVE FALSE
    <3>1. 1 \in DOMAIN ring /\ 2 \in DOMAIN ring /\ ring[2] # ring[1]
      BY <2>2, RingFacts, SMTT(60)
    <3> QED
      BY <1>2, <2>1, <2>2, <3>1, RingFacts
  <2> QED
    BY <1>2, <2>1, <2>2
<1>3. ASSUME NEW p \in DOMAIN ring, NEW k \in 1 .. (Len(ring) - 1),
             ring[p] = from, t = At(p + k), Runnable(t),
             \A j \in 1 .. (k - 1) : ~Runnable(At(p + j))
      PROVE  /\ t # from
             /\ from = Boot /\ Len(ring) >= 2 /\ Runnable(ring[2]) => t = ring[2]
  <2>1. p \in 1 .. Len(ring) /\ Len(ring) \in Nat \ {0} /\ k \in Nat /\ k > 0
    BY <1>3, RingFacts
  <2>2. PICK q \in 1 .. Len(ring) : At(p + k) = ring[q] /\ q # p
    <3>1. CASE p + k <= Len(ring)
      BY <1>3, <2>1, <3>1 DEF At
    <3>2. CASE ~(p + k <= Len(ring))
      <4>1. p + k - Len(ring) \in 1 .. Len(ring) /\ p + k - Len(ring) # p
        BY <1>3, <2>1, <3>2
      <4> QED
        BY <3>2, <4>1 DEF At
    <3> QED
      BY <3>1, <3>2
  <2>3. t # from
    BY <1>3, <2>1, <2>2, RingFacts
  <2>4. ASSUME from = Boot, Len(ring) >= 2, Runnable(ring[2]) PROVE t = ring[2]
    <3>1. p = 1
      <4>1. 1 \in 1 .. Len(ring) /\ ring[1] = ring[p]
        BY <1>3, <2>1, <2>4, RingFacts
      <4> QED
        BY <2>1, <4>1, RingFacts
    <3>2. At(p + 1) = ring[2]
      BY <2>4, <3>1 DEF At
    <3>3. k = 1
      <4> SUFFICES ASSUME k # 1 PROVE FALSE
        OBVIOUS
      <4>1. 1 \in 1 .. (k - 1)
        BY <2>1
      <4> QED
        BY <1>3, <2>4, <3>2, <4>1
    <3> QED
      BY <1>3, <3>2, <3>3
  <2> QED
    BY <2>3, <2>4
<1> QED
  BY <1>2, <1>3 DEF pick_next

-----------------------------------------------------------------------------
LEMMA InitInvariant == Init => IInv
<1> SUFFICES ASSUME Init PROVE IInv
  OBVIOUS
<1> USE BoundsAssumption DEF Init, Boot, None
<1>1. Len(ring) = 1 /\ ring \in Seq(1 .. 1) /\ ring[1] = 1 /\ DOMAIN state = 1 .. 1
  OBVIOUS
<1>2. TypeOK
  <2>1. kind \in [1 .. 1 -> {"boot", "kernel", "user"}]
        /\ state \in [1 .. 1 -> {"READY", "RUNNING", "DEAD"}]
        /\ saved \in [1 .. 1 -> Context]
    BY DEF Context, Place, Task
  <2>2. cpu \in CPU /\ traps \in [syscall_kstack : Task \cup {None}, rsp0 : Task \cup {None}]
    BY DEF CPU, Place, Task
  <2>3. Len(ring) \in 1 .. MaxTasks /\ current \in 1 .. Len(ring)
        /\ \A t \in 1 .. Len(ring) : \E i \in 1 .. Len(ring) : ring[i] = t
    BY <1>1
  <2> QED
    BY <1>1, <2>1, <2>2, <2>3 DEF TypeOK
<1>3. CurrentOnCpu /\ StacksSeparate /\ UserUninterruptible
      /\ BootInterruptible /\ ReturnsWhenItExits /\ NeverOutOfTasks
  BY <1>1 DEF CurrentOnCpu, StacksSeparate, UserUninterruptible, Created,
       BootInterruptible, ReturnsWhenItExits, NeverOutOfTasks, AddressSpace
<1>4. Shape /\ Suspended /\ BootWaits /\ ProgramRuns /\ UserFlags
  BY <1>1 DEF Shape, Suspended, BootWaits, ProgramRuns, UserFlags, PlacesOf
<1> QED
  BY <1>2, <1>3, <1>4 DEF IInv

\* A step that moves the processor between places of the same task and keeps
\* the tables as they are.
LEMMA MoveInvariant ==
  ASSUME IInv, NEW t \in Created,
         task_enter_user(t) \/ syscall_entry(t) \/ sysret(t) \/ isr_handler(t)
           \/ program_return
  PROVE  IInv'
<1> USE DEF Running
<1>1. UNCHANGED <<ring, kind, state, saved, current, traps>>
      /\ halted' \in {halted, "exception"} /\ waiting' \in {waiting, None}
      /\ halted = "no"
  BY DEF task_enter_user, syscall_entry, sysret, isr_handler, program_return
<1>2. Created = 1 .. Len(ring) /\ current \in 1 .. Len(ring) /\ None # Boot
  <2>1. current \in 1 .. Len(ring)
    BY DEF IInv, TypeOK
  <2> QED
    BY <2>1, RingFacts DEF Created, None, Boot
<1>3. cpu \in CPU /\ traps.syscall_kstack \in Task \cup {None}
      /\ traps.rsp0 \in Task \cup {None}
  BY DEF IInv, TypeOK
<1>4. kind[current] \in {"boot", "kernel", "user"}
      /\ (kind[current] = "boot" <=> current = Boot)
      /\ cpu.at \in PlacesOf(kind[current])
  BY <1>2 DEF IInv, TypeOK, Shape
<1>5. cpu' \in CPU
  BY <1>1, <1>3 DEF task_enter_user, syscall_entry, sysret, isr_handler,
       program_return, CPU, Place
<1>6. TypeOK'
  BY <1>1, <1>5 DEF IInv, TypeOK
<1>7. cpu'.cr3 = cpu.cr3 /\ cpu'.stack = current
  <2>1. cpu.stack = current
    BY <1>1 DEF IInv, CurrentOnCpu
  <2>2. cpu.at = "user" => traps.syscall_kstack = current /\ traps.rsp0 = current
    BY DEF IInv, StacksSeparate
  <2>3. CASE task_enter_user(t) \/ sysret(t) \/ program_return
    BY <1>3, <2>1, <2>3 DEF task_enter_user, sysret, program_return, CPU
  <2>4. CASE syscall_entry(t) \/ isr_handler(t)
    BY <1>3, <2>2, <2>4 DEF syscall_entry, isr_handler, CPU
  <2> QED
    BY <2>3, <2>4
<1>8. CurrentOnCpu'
  BY <1>1, <1>7 DEF IInv, CurrentOnCpu, Created, AddressSpace
<1>9. CASE program_return
  <2>1. current = Boot /\ cpu'.at = "main" /\ cpu'.intr = cpu.intr /\ waiting' = None
        /\ halted' = "no"
    BY <1>3, <1>9 DEF program_return, CPU
  <2> QED
    BY <1>1, <1>2, <1>4, <1>6, <1>8, <2>1 DEF IInv, StacksSeparate, UserUninterruptible,
         BootInterruptible, ReturnsWhenItExits, NeverOutOfTasks, Shape, Suspended,
         BootWaits, ProgramRuns, UserFlags, PlacesOf, Created
<1>10. CASE task_enter_user(t) \/ syscall_entry(t) \/ sysret(t) \/ isr_handler(t)
  <2>1. /\ cpu.at \in {"enter_user", "user", "syscall"} /\ cpu'.at \in {"user", "syscall"}
        /\ ~cpu'.intr /\ (cpu'.at = "syscall" => ~cpu'.r11)
        /\ waiting' = waiting /\ halted' # "no more tasks"
    BY <1>3, <1>10 DEF task_enter_user, syscall_entry, sysret, isr_handler, CPU, IInv,
         UserUninterruptible, UserFlags
  <2>2. current # Boot /\ kind[current] = "user"
    BY <1>4, <2>1 DEF PlacesOf
  <2>3. StacksSeparate' /\ UserUninterruptible' /\ BootInterruptible'
        /\ ReturnsWhenItExits' /\ NeverOutOfTasks'
    BY <1>1, <2>1, <2>2 DEF IInv, StacksSeparate, UserUninterruptible, Created,
         BootInterruptible, ReturnsWhenItExits, NeverOutOfTasks
  <2>4. Shape' /\ Suspended' /\ BootWaits' /\ ProgramRuns' /\ UserFlags'
    BY <1>1, <2>1, <2>2 DEF IInv, Shape, Suspended, BootWaits, ProgramRuns,
         UserFlags, PlacesOf
  <2> QED
    BY <1>6, <1>8, <2>3, <2>4 DEF IInv
<1> QED
  BY <1>9, <1>10

\* Creating a kernel task, or a program that program_run is about to yield to.
LEMMA CreateInvariant ==
  ASSUME IInv, NEW t, task_create_kernel(t) \/ task_create_user(t)
  PROVE  IInv'
<1>1. /\ halted = "no" /\ current = Boot /\ cpu.at = "main"
      /\ UNCHANGED <<current, traps, halted>>
  BY DEF task_create_kernel, task_create_user, Running
<1>2. PICK type \in {"kernel", "user"}, place \in Place :
         /\ task_create(t, type, place)
         /\ place = ResumesAt(type)
         /\ type = "kernel" => UNCHANGED <<cpu, waiting>>
         /\ type = "user" => cpu' = [cpu EXCEPT !.at = "yield"] /\ waiting' = t
  BY DEF task_create_kernel, task_create_user, ResumesAt, Place
<1> DEFINE n == Len(ring)
<1>3. /\ n \in Nat \ {0} /\ Created = 1 .. n
      /\ kind \in [1 .. n -> {"boot", "kernel", "user"}]
      /\ state \in [1 .. n -> {"READY", "RUNNING", "DEAD"}]
      /\ saved \in [1 .. n -> Context] /\ cpu \in CPU
      /\ waiting \in {None} \cup 1 .. n /\ current \in 1 .. n
  BY RingFacts DEF IInv, TypeOK, Created
<1>4. /\ t = n + 1 /\ t \in Task /\ t # Boot /\ t \notin 1 .. n
      /\ Len(ring') = t /\ ring' \in Seq(1 .. t)
      /\ ring'[1] = Boot /\ ring'[2] = t
      /\ \A u \in 1 .. t : \E i \in 1 .. t : ring'[i] = u
      /\ \A i, j \in 1 .. t : ring'[i] = ring'[j] => i = j
      /\ kind' = [u \in 1 .. t |-> IF u = t THEN type ELSE kind[u]]
      /\ state' = [u \in 1 .. t |-> IF u = t THEN "READY" ELSE state[u]]
      /\ saved' = [u \in 1 .. t |->
            IF u = t THEN [stack |-> t, intr |-> TRUE, at |-> place]
                     ELSE saved[u]]
      /\ 1 .. t = 1 .. n \cup {t}
  <2>1. t = n + 1
    BY <1>2, CreateFacts
  <2>2. t \notin 1 .. n /\ 1 .. t = 1 .. n \cup {t}
    BY <1>3, <2>1
  <2>3. /\ t \in Task /\ t # Boot /\ Len(ring') = t /\ ring' \in Seq(1 .. t)
        /\ ring'[1] = Boot /\ ring'[2] = t
        /\ \A u \in 1 .. t : \E i \in 1 .. t : ring'[i] = u
        /\ \A i, j \in 1 .. t : ring'[i] = ring'[j] => i = j
    <3> HIDE DEF n
    <3> QED
      BY <1>2, CreateFacts, ZenonT(60)
  <2>4. /\ kind' = [u \in 1 .. t |-> IF u = t THEN type ELSE kind[u]]
        /\ state' = [u \in 1 .. t |-> IF u = t THEN "READY" ELSE state[u]]
        /\ saved' = [u \in 1 .. t |->
              IF u = t THEN [stack |-> t, intr |-> TRUE, at |-> place]
                       ELSE saved[u]]
    <3>1. Created \cup {t} = 1 .. t
      BY <1>3, <2>2
    <3> HIDE DEF n
    <3> QED
      BY <1>2, <3>1 DEF task_create
  <2> HIDE DEF n
  <2> QED
    BY <2>1, <2>2, <2>3, <2>4
<1> HIDE DEF n
<1>5. t \in 1 .. MaxTasks
  BY <1>4 DEF Task, Boot
<1>6. cpu' \in CPU /\ cpu'.at \in {"main", "yield"} /\ cpu'.stack = cpu.stack
      /\ cpu'.cr3 = cpu.cr3 /\ cpu'.intr = cpu.intr
      /\ (cpu'.at = "yield" => waiting' = t /\ type = "user")
  BY <1>1, <1>2, <1>3 DEF CPU, Place
<1>7. TypeOK'
  <2>1. [stack |-> t, intr |-> TRUE, at |-> place] \in Context
    BY <1>2, <1>4 DEF Context
  <2>2. kind' \in [1 .. t -> {"boot", "kernel", "user"}]
        /\ state' \in [1 .. t -> {"READY", "RUNNING", "DEAD"}]
        /\ saved' \in [1 .. t -> Context]
    BY <1>3, <1>4, <2>1
  <2>3. waiting' \in {None} \cup 1 .. t /\ current' \in 1 .. t
    <3>1. waiting' \in {waiting, t} /\ current' = current /\ t \in 1 .. t
      BY <1>1, <1>2, <1>4
    <3> QED
      BY <1>3, <1>4, <3>1
  <2>4. traps' \in [syscall_kstack : Task \cup {None}, rsp0 : Task \cup {None}]
        /\ halted' \in {"no", "exception", "no more tasks"}
    BY <1>1 DEF IInv, TypeOK
  <2> QED
    BY <1>4, <1>5, <1>6, <2>2, <2>3, <2>4, ZenonT(60) DEF TypeOK
<1>8. /\ current \in 1 .. n /\ current # t
      /\ \A u \in 1 .. n : u # t /\ kind'[u] = kind[u] /\ state'[u] = state[u]
                                /\ saved'[u] = saved[u]
      /\ kind'[t] = type /\ state'[t] = "READY" /\ saved'[t].stack = t
      /\ saved'[t].at = ResumesAt(type) /\ DOMAIN state' = 1 .. t
  BY <1>2, <1>3, <1>4
<1>9. CurrentOnCpu'
  BY <1>1, <1>3, <1>4, <1>6, <1>8, ZenonT(60) DEF IInv, CurrentOnCpu, Created, AddressSpace
<1>10. StacksSeparate' /\ UserUninterruptible' /\ BootInterruptible'
  BY <1>1, <1>3, <1>4, <1>6, <1>8 DEF IInv, StacksSeparate, UserUninterruptible,
       Created, BootInterruptible
<1>11. ReturnsWhenItExits' /\ NeverOutOfTasks'
  BY <1>1, <1>6 DEF ReturnsWhenItExits, NeverOutOfTasks
<1>12. Shape'
  <2>1. cpu'.at \in PlacesOf(kind'[current'])
    BY <1>1, <1>6, <1>8 DEF IInv, Shape, PlacesOf, n
  <2>2. \A u \in 1 .. t : kind'[u] = "boot" <=> u = Boot
    BY <1>2, <1>4, <1>8 DEF IInv, Shape, n
  <2> QED
    BY <1>4, <2>1, <2>2 DEF Shape
<1>13. Suspended'
  <2> SUFFICES ASSUME NEW u \in 1 .. t, u # current, state'[u] # "DEAD"
               PROVE  saved'[u].stack = u /\ saved'[u].at = ResumesAt(kind'[u])
    BY <1>1, <1>4 DEF Suspended
  <2>1. CASE u = t
    BY <1>8, <2>1
  <2>2. CASE u \in 1 .. n
    BY <1>8, <2>2 DEF IInv, Suspended, n
  <2> QED
    BY <1>4, <2>1, <2>2
<1>14. BootWaits'
  BY <1>1, <1>8 DEF IInv, BootWaits
<1>15. ProgramRuns' /\ UserFlags'
  <2>1. cpu'.at = "yield" => Len(ring') >= 2 /\ ring'[2] = waiting' /\ waiting' # None
                             /\ state'[waiting'] = "READY" /\ kind'[waiting'] = "user"
    <3>1. t >= 2 /\ t # None
      BY <1>3, <1>4 DEF None
    <3> QED
      BY <1>4, <1>6, <1>8, <3>1
  <2>2. waiting' # None => kind'[waiting'] = "user"
    <3>1. CASE type = "user"
      BY <1>2, <1>8, <3>1
    <3>2. CASE type = "kernel"
      <4>1. waiting' = waiting /\ (waiting # None => waiting \in 1 .. n)
        BY <1>2, <1>3, <3>2
      <4> QED
        BY <1>8, <4>1 DEF IInv, ProgramRuns
    <3> QED
      BY <3>1, <3>2
  <2> QED
    BY <1>1, <1>6, <2>1, <2>2 DEF ProgramRuns, UserFlags
<1> QED
  BY <1>7, <1>9, <1>10, <1>11, <1>12, <1>13, <1>14, <1>15 DEF IInv

-----------------------------------------------------------------------------
\* What sched_yield and sched_exit do: the running task leaves the processor
\* for another runnable one.  `left` is the state it is left in.
Switch(prev, next, left, resume) ==
  /\ next # prev /\ Runnable(next)
  /\ state' = [state EXCEPT ![prev] = left, ![next] = "RUNNING"]
  /\ current' = next
  /\ set_kernel_stack(next)
  /\ context_switch(prev, next, resume)

\* The boot task leaves only from program_run, to the program it started; a
\* program leaves only to exit.
LEMMA SwitchFacts ==
  ASSUME IInv, NEW t \in Created, sched_yield(t) \/ sched_exit(t)
  PROVE  \E next \in Created, left \in {"READY", "DEAD"} :
           /\ Switch(t, next, left, After(cpu.at))
           /\ kind[t] = "user" => left = "DEAD"
           /\ t = Boot => left = "READY" /\ next = waiting /\ cpu.at = "yield"
           /\ t = current /\ halted = "no"
           /\ UNCHANGED <<ring, kind, waiting, halted>>
<1>1. t = current /\ halted = "no" /\ cpu.at \in {"yield", "fn", "syscall"}
      /\ (sched_yield(t) => cpu.at \in {"yield", "fn"})
      /\ (sched_exit(t) => cpu.at \in {"syscall", "fn"})
      /\ UNCHANGED <<ring, kind, waiting>>
  BY DEF sched_yield, sched_exit, Running
<1>2. kind[t] \in {"boot", "kernel", "user"} /\ (kind[t] = "boot" <=> t = Boot)
      /\ cpu.at \in PlacesOf(kind[t])
  BY <1>1, RingFacts DEF IInv, TypeOK, Shape, Created
<1>3. ASSUME t = Boot PROVE sched_yield(t) /\ cpu.at = "yield"
  BY <1>1, <1>2, <1>3 DEF PlacesOf
<1>4. ASSUME NEW next \in Created, pick_next(t, next)
      PROVE  next # t /\ Runnable(next) /\ (t = Boot => next = waiting)
  <2>1. CASE t = Boot
    <3>1. Len(ring) >= 2 /\ ring[2] = waiting /\ state[waiting] = "READY"
      BY <1>3, <2>1 DEF IInv, ProgramRuns
    <3>2. next = waiting
      BY <1>4, <2>1, <3>1, PickFacts DEF Runnable
    <3>3. 1 \in 1 .. Len(ring) /\ 2 \in 1 .. Len(ring)
      BY <3>1, RingFacts
    <3>4. ring[2] # ring[1]
      BY <3>3, RingFacts
    <3> QED
      BY <2>1, <3>1, <3>2, <3>4, RingFacts DEF Runnable
  <2>2. CASE t # Boot
    BY <1>4, <2>2, PickFacts
  <2> QED
    BY <2>1, <2>2
<1>5. CASE sched_yield(t)
  <2>1. PICK next \in Created : Switch(t, next, "READY", After(cpu.at))
                                /\ pick_next(t, next) /\ halted' = halted
    BY <1>4, <1>5 DEF sched_yield, Switch
  <2>2. kind[t] # "user"
    BY <1>1, <1>2, <1>5 DEF PlacesOf
  <2> QED
    BY <1>1, <1>3, <1>4, <2>1, <2>2
<1>6. CASE sched_exit(t)
  <2>1. After(cpu.at) = cpu.at
    BY <1>1, <1>6 DEF After
  <2>2. PICK next \in Created : Switch(t, next, "DEAD", cpu.at)
                                /\ pick_next(t, next) /\ halted' = halted
    BY <1>4, <1>6 DEF sched_exit, Switch
  <2>3. t # Boot
    BY <1>1, <1>3, <1>6
  <2> QED
    BY <1>1, <1>4, <2>1, <2>2, <2>3
<1> QED
  BY <1>5, <1>6

LEMMA SwitchInvariant ==
  ASSUME IInv, NEW t \in Created, sched_yield(t) \/ sched_exit(t)
  PROVE  IInv'
<1> DEFINE n == Len(ring)
<1>1. PICK next \in Created, left \in {"READY", "DEAD"} :
           /\ Switch(t, next, left, After(cpu.at))
           /\ kind[t] = "user" => left = "DEAD"
           /\ t = Boot => left = "READY" /\ next = waiting /\ cpu.at = "yield"
           /\ t = current /\ halted = "no"
           /\ UNCHANGED <<ring, kind, waiting, halted>>
  BY SwitchFacts
<1>2. /\ Created = 1 .. n /\ n \in Nat \ {0} /\ t \in 1 .. n /\ next \in 1 .. n
      /\ Boot \in 1 .. n /\ next # t /\ DOMAIN state = 1 .. n /\ n <= MaxTasks
      /\ 1 .. n \subseteq Task
  <2>1. n \in Nat \ {0} /\ n <= MaxTasks /\ DOMAIN state = 1 .. n /\ Created = 1 .. n
    BY RingFacts DEF Created
  <2>2. Boot \in 1 .. n /\ 1 .. n \subseteq Task
    BY <2>1, BoundsAssumption DEF Boot, Task
  <2>3. next # t
    BY <1>1 DEF Switch
  <2> HIDE DEF n
  <2> QED
    BY <2>1, <2>2, <2>3
<1>3. /\ kind \in [1 .. n -> {"boot", "kernel", "user"}]
      /\ state \in [1 .. n -> {"READY", "RUNNING", "DEAD"}]
      /\ saved \in [1 .. n -> Context] /\ cpu \in CPU
      /\ traps \in [syscall_kstack : Task \cup {None}, rsp0 : Task \cup {None}]
  BY DEF IInv, TypeOK
<1> HIDE DEF n
<1>4. /\ state'[t] = left /\ state'[next] = "RUNNING"
      /\ \A u \in 1 .. n : u # t /\ u # next => state'[u] = state[u]
      /\ state' \in [1 .. n -> {"READY", "RUNNING", "DEAD"}]
      /\ DOMAIN state' = 1 .. n
  BY <1>1, <1>2, <1>3 DEF Switch
<1>5. /\ saved'[t].stack = cpu.stack /\ saved'[t].intr = cpu.intr
      /\ saved'[t].at = After(cpu.at)
      /\ \A u \in 1 .. n : u # t => saved'[u] = saved[u]
      /\ saved' \in [1 .. n -> Context]
  <2>1. cpu.stack = current /\ cpu.stack \in Task
    BY <1>1, <1>2 DEF IInv, CurrentOnCpu
  <2>2. [stack |-> cpu.stack, intr |-> cpu.intr, at |-> After(cpu.at)] \in Context
    BY <1>3, <2>1 DEF Context, CPU, After, Place
  <2> QED
    BY <1>1, <1>2, <1>3, <2>2 DEF Switch, context_switch
<1>6. saved[next] \in Context /\ AddressSpace(next) \in Task
  BY <1>2, <1>3 DEF AddressSpace
<1>7. /\ cpu' \in CPU /\ cpu'.stack = saved[next].stack
      /\ cpu'.intr = saved[next].intr /\ cpu'.at = saved[next].at
      /\ cpu'.cr3 = AddressSpace(next)
  BY <1>1, <1>3, <1>6 DEF Switch, context_switch, CPU, Context
<1>8. state[next] = "READY"
  <2>1. state[next] # "RUNNING"
    BY <1>1, <1>2 DEF IInv, CurrentOnCpu
  <2> QED
    BY <1>1, <2>1 DEF Switch, Runnable
<1>9. saved[next].stack = next /\ saved[next].at = ResumesAt(kind[next])
  BY <1>1, <1>2, <1>8 DEF IInv, Suspended, n
<1>10. kind[next] \in {"boot", "kernel", "user"} /\ (kind[next] = "boot" <=> next = Boot)
       /\ kind[t] \in {"boot", "kernel", "user"} /\ (kind[t] = "boot" <=> t = Boot)
       /\ cpu.at \in PlacesOf(kind[t])
  BY <1>1, <1>2, <1>3 DEF IInv, Shape, n
<1>11. /\ kind[next] = "boot" => cpu'.at = "return"
       /\ kind[next] = "kernel" => cpu'.at = "fn"
       /\ kind[next] = "user" => cpu'.at = "enter_user"
  BY <1>7, <1>9 DEF ResumesAt
<1>12. traps' = IF kind[next] = "user" THEN [syscall_kstack |-> next, rsp0 |-> next]
                ELSE traps
  BY <1>1 DEF Switch, set_kernel_stack
<1>13. TypeOK'
  <2>1. traps' \in [syscall_kstack : Task \cup {None}, rsp0 : Task \cup {None}]
    BY <1>2, <1>3, <1>12
  <2> QED
    BY <1>1, <1>2, <1>4, <1>5, <1>7, <2>1 DEF IInv, TypeOK, Switch, n
<1>14. CurrentOnCpu'
  <2>1. \A u \in 1 .. n : state'[u] = "RUNNING" <=> u = next
    BY <1>1, <1>2, <1>4 DEF IInv, CurrentOnCpu
  <2>2. current' = next /\ cpu'.cr3 = AddressSpace(next)' /\ cpu'.stack = next
    BY <1>1, <1>7, <1>9 DEF Switch, AddressSpace
  <2> QED
    BY <1>4, <2>1, <2>2 DEF CurrentOnCpu, Created, AddressSpace
<1>15. \A u \in 1 .. n : u # next /\ state'[u] # "DEAD" =>
          saved'[u].stack = u /\ saved'[u].at = ResumesAt(kind[u])
  <2> SUFFICES ASSUME NEW u \in 1 .. n, u # next, state'[u] # "DEAD"
               PROVE  saved'[u].stack = u /\ saved'[u].at = ResumesAt(kind[u])
    OBVIOUS
  <2>1. CASE u = t
    <3>1. cpu.stack = t
      BY <1>1 DEF IInv, CurrentOnCpu
    <3>2. kind[t] # "user"
      BY <1>1, <1>4, <2>1
    <3>3. After(cpu.at) = ResumesAt(kind[t])
      BY <1>1, <1>10, <3>2 DEF After, ResumesAt, PlacesOf
    <3> QED
      BY <1>5, <2>1, <3>1, <3>3
  <2>2. CASE u # t
    BY <1>1, <1>4, <1>5, <2>2 DEF IInv, Suspended, n
  <2> QED
    BY <2>1, <2>2
<1>16. Suspended'
  BY <1>1, <1>15 DEF Suspended, Switch, n
<1>17. StacksSeparate'
  <2>1. cpu'.at \in {"enter_user", "user", "syscall"} => kind[next] = "user"
    BY <1>10, <1>11
  <2> QED
    BY <1>1, <1>4, <1>12, <1>15, <2>1 DEF StacksSeparate, Switch, Created
<1>18. saved[Boot].intr \/ next # Boot
  BY <1>1, <1>2 DEF IInv, BootWaits
<1>19. UserUninterruptible' /\ BootInterruptible' /\ NeverOutOfTasks'
  BY <1>1, <1>7, <1>10, <1>11, <1>18 DEF UserUninterruptible, BootInterruptible,
       NeverOutOfTasks, Switch
<1>20. Shape'
  BY <1>1, <1>10, <1>11 DEF IInv, Shape, Switch, PlacesOf
<1>21. BootWaits'
  <2>1. CASE next = Boot
    BY <1>1, <1>4, <2>1 DEF BootWaits, Switch
  <2>2. CASE t = Boot
    <3>1. cpu.intr
      BY <1>1, <2>2 DEF IInv, BootInterruptible
    <3> QED
      BY <1>1, <1>4, <1>5, <2>2, <3>1 DEF BootWaits, Switch
  <2>3. CASE next # Boot /\ t # Boot
    BY <1>1, <1>2, <1>4, <1>5, <2>3 DEF IInv, BootWaits, Switch
  <2> QED
    BY <2>1, <2>2, <2>3
<1>22. next # Boot \/ t # Boot
  BY <1>2
<1>23. waiting # None /\ waiting \in 1 .. n /\ kind[waiting] = "user"
  <2>1. waiting # None
    BY <1>1 DEF IInv, ProgramRuns
  <2> QED
    BY <2>1 DEF IInv, ProgramRuns, TypeOK, n
<1>24. next = waiting \/ state'[waiting] = "DEAD"
  <2>1. CASE t = Boot
    BY <1>1, <2>1
  <2>2. CASE t # Boot
    <3>1. waiting = t \/ state[waiting] = "DEAD"
      BY <1>1, <2>2 DEF IInv, ProgramRuns
    <3>2. CASE waiting = t
      BY <1>1, <1>4, <1>23, <3>2
    <3>3. CASE waiting # t /\ state[waiting] = "DEAD"
      BY <1>4, <1>8, <1>23, <3>3
    <3> QED
      BY <3>1, <3>2, <3>3
  <2> QED
    BY <2>1, <2>2
<1>25. ProgramRuns' /\ UserFlags'
  BY <1>1, <1>10, <1>11, <1>23, <1>24 DEF ProgramRuns, UserFlags, Switch
<1>26. ReturnsWhenItExits'
  <2>1. next = Boot => next # waiting
    BY <1>10, <1>23
  <2> QED
    BY <1>1, <1>23, <1>24, <2>1 DEF ReturnsWhenItExits, Switch
<1> QED
  BY <1>13, <1>14, <1>16, <1>17, <1>19, <1>20, <1>21, <1>25, <1>26 DEF IInv

LEMMA NextInvariant == IInv /\ [Next]_vars => IInv'
<1> SUFFICES ASSUME IInv, [Next]_vars PROVE IInv'
  OBVIOUS
<1>1. ASSUME NEW t \in Task, task_create_kernel(t) \/ task_create_user(t) PROVE IInv'
  BY <1>1, CreateInvariant
<1>2. ASSUME program_return PROVE IInv'
  <2>1. Boot \in Created
    BY RingFacts DEF Created, Boot
  <2> QED
    BY <1>2, <2>1, MoveInvariant
<1>3. ASSUME NEW t \in Created, Step(t) PROVE IInv'
  BY <1>3, MoveInvariant, SwitchInvariant DEF Step
<1>4. CASE UNCHANGED vars
  <2>1. TypeOK' /\ NeverOutOfTasks' /\ UserFlags'
    BY <1>4 DEF vars, IInv, TypeOK, NeverOutOfTasks, UserFlags
  <2>2. CurrentOnCpu' /\ StacksSeparate'
    BY <1>4 DEF vars, IInv, CurrentOnCpu, StacksSeparate, Created, AddressSpace
  <2>3. UserUninterruptible' /\ BootInterruptible' /\ ReturnsWhenItExits'
    BY <1>4 DEF vars, IInv, UserUninterruptible, BootInterruptible,
         ReturnsWhenItExits
  <2>4. Shape' /\ Suspended' /\ BootWaits' /\ ProgramRuns'
    BY <1>4 DEF vars, IInv, Shape, Suspended, BootWaits, ProgramRuns
  <2> QED
    BY <2>1, <2>2, <2>3, <2>4 DEF IInv
<1> QED
  BY <1>1, <1>2, <1>3, <1>4 DEF Next

\* Every reachable state satisfies the inductive invariant.
THEOREM Invariant == Spec => []IInv
BY InitInvariant, NextInvariant, PTL DEF Spec

\* The list holds every task once and all tables are filled in.
THEOREM TypeCorrect == Spec => []TypeOK
<1>1. IInv => TypeOK
  BY DEF IInv
<1> QED
  BY <1>1, Invariant, PTL

\* The one RUNNING task owns the stack and the address space in use.
THEOREM RunningTaskOwnsCpu == Spec => []CurrentOnCpu
<1>1. IInv => CurrentOnCpu
  BY DEF IInv
<1> QED
  BY <1>1, Invariant, PTL

\* No two tasks ever use the same kernel stack.
THEOREM StacksStaySeparate == Spec => []StacksSeparate
<1>1. IInv => StacksSeparate
  BY DEF IInv
<1> QED
  BY <1>1, Invariant, PTL

\* Interrupts are off in ring 3 and on whenever the boot task runs.
THEOREM InterruptFlag == Spec => [](UserUninterruptible /\ BootInterruptible)
<1>1. IInv => UserUninterruptible /\ BootInterruptible
  BY DEF IInv
<1> QED
  BY <1>1, Invariant, PTL

\* program_run returns only after the program it started has exited.
THEOREM RunWaitsForExit == Spec => []ReturnsWhenItExits
<1>1. IInv => ReturnsWhenItExits
  BY DEF IInv
<1> QED
  BY <1>1, Invariant, PTL

\* sched_exit always finds a task to run.
THEOREM AlwaysATask == Spec => []NeverOutOfTasks
<1>1. IInv => NeverOutOfTasks
  BY DEF IInv
<1> QED
  BY <1>1, Invariant, PTL

\* A dead task stays dead and is never switched to.
THEOREM DeadForGood == Spec => DeadStaysDead
<1>1. IInv /\ IInv' /\ [Next]_vars =>
        [\A t \in Created : state[t] = "DEAD" =>
            state'[t] = "DEAD" /\ current' # t]_vars
  <2> SUFFICES ASSUME IInv, IInv', Next, NEW t \in Created, state[t] = "DEAD"
               PROVE  state'[t] = "DEAD" /\ current' # t
    OBVIOUS
  <2>1. halted' # "no more tasks" /\ halted # "no more tasks"
    BY DEF IInv, NeverOutOfTasks
  <2>2. t # current
    BY <2>1 DEF IInv, CurrentOnCpu
  <2>3. ASSUME NEW u \in Task, task_create_kernel(u) \/ task_create_user(u)
        PROVE  state'[t] = "DEAD" /\ current' # t
    <3>1. current' = current /\ \E type, place : task_create(u, type, place)
      BY <2>3 DEF task_create_kernel, task_create_user
    <3>2. u = Len(ring) + 1 /\ Created = 1 .. Len(ring) /\ Len(ring) \in Nat
      BY <3>1, RingFacts DEF task_create, Created
    <3>3. u # t
      BY <3>2
    <3> QED
      BY <2>2, <3>1, <3>3 DEF task_create
  <2>4. ASSUME program_return PROVE state'[t] = "DEAD" /\ current' # t
    BY <2>2, <2>4 DEF program_return
  <2>5. ASSUME NEW u \in Created, Step(u) PROVE state'[t] = "DEAD" /\ current' # t
    <3>1. CASE sched_yield(u) \/ sched_exit(u)
      <4>1. PICK next \in Created, left \in {"READY", "DEAD"} :
               Switch(u, next, left, After(cpu.at)) /\ u = current
        BY <3>1, SwitchFacts
      <4>2. next # t
        BY <4>1 DEF Switch, Runnable
      <4>3. state \in [Created -> {"READY", "RUNNING", "DEAD"}]
        BY RingFacts DEF IInv, TypeOK, Created
      <4> QED
        BY <2>2, <4>1, <4>2, <4>3 DEF Switch
    <3>2. CASE task_enter_user(u) \/ syscall_entry(u) \/ sysret(u) \/ isr_handler(u)
      BY <2>2, <3>2 DEF task_enter_user, syscall_entry, sysret, isr_handler
    <3> QED
      BY <2>5, <3>1, <3>2 DEF Step
  <2> QED
    BY <2>3, <2>4, <2>5 DEF Next
<1> QED
  BY <1>1, Invariant, PTL DEF Spec, DeadStaysDead
=============================================================================
