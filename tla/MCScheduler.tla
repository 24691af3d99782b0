---------------------------- MODULE MCScheduler -----------------------------
(* Five tasks beside the boot task, up to three of them kernel tasks that    *)
(* yield and exit: every mixture of programs and kernel tasks in the list.   *)
(* With MaxKernelTasks = 0 it is the system as it is, programs only.         *)
EXTENDS Scheduler
=============================================================================
