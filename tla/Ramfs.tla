------------------------------- MODULE Ramfs --------------------------------
(***************************************************************************)
(* The in-memory file system (src/src/fs.c) behind its system calls, and   *)
(* the one program that uses it (src/programs/cat.c).  The table of        *)
(* descriptors is the kernel's, not the program's.  `cat` as it is built   *)
(* keeps its descriptor in a register, r8, that the system call entry code *)
(* does not restore: after a call it holds what the kernel left there.     *)
(***************************************************************************)
EXTENDS Integers, Sequences

CONSTANTS
  FS_MAX_FILES,   \* files that can be registered
  FS_MAX_FDS,     \* descriptors
  BootFiles,     \* the files kernel_main registers: [name, size], in order
  Path,           \* the file that cat opens
  BufSize,        \* bytes cat reads at a time
  Leftover        \* what the kernel may leave in a register

ASSUME RamfsAssumption ==
  /\ FS_MAX_FILES \in Nat /\ FS_MAX_FDS \in Nat /\ BufSize \in Nat
  /\ Len(BootFiles) \in Nat /\ DOMAIN BootFiles = 1 .. Len(BootFiles)
  /\ \A i \in DOMAIN BootFiles : BootFiles[i].size \in 0 .. BufSize

VARIABLES
  booted,    \* how many files kernel_main has registered
  files,     \* the table of files
  fds,       \* descriptor -> [file, pos]; file 0 for a free one
  pc,        \* where cat is, or "shell"
  fd, n,     \* cat's variables
  printed    \* what cat has written: [file, from, len] pieces of files

fsVars == <<booted, files, fds, pc, fd, n, printed>>

Free == [file |-> 0, pos |-> 0]
Fd == 0 .. (FS_MAX_FDS - 1)

FsInit ==
  /\ booted = 0 /\ files = <<>>
  /\ fds = [d \in Fd |-> Free]
  /\ pc = "boot" /\ fd = 0 /\ n = 0 /\ printed = <<>>

-----------------------------------------------------------------------------
(* fs.c: what a call answers and what it makes of the table *)

\* A full table refuses the file, which kernel_main does not notice.
fs_register_file(f) ==
  files' = IF Len(files) < FS_MAX_FILES THEN Append(files, f) ELSE files

\* The first file of that name, the first free descriptor; -1 without either.
NamesFile(name, i) == files[i].name = name /\ \A j \in 1 .. (i - 1) : files[j].name # name

FirstFree(d) == fds[d].file = 0 /\ \A e \in 0 .. (d - 1) : fds[e].file # 0

fs_open(name, ret) ==
  \/ \E i \in DOMAIN files, d \in Fd :
       /\ NamesFile(name, i) /\ FirstFree(d)
       /\ fds' = [fds EXCEPT ![d] = [file |-> i, pos |-> 0]]
       /\ ret = d
  \/ /\ (\A i \in DOMAIN files : files[i].name # name) \/ (\A d \in Fd : fds[d].file # 0)
     /\ UNCHANGED fds
     /\ ret = -1

Open(d) == d \in Fd /\ fds[d].file # 0

Remaining(d) == files[fds[d].file].size - fds[d].pos

Chunk(d, len) == IF len > Remaining(d) THEN Remaining(d) ELSE len

\* Mutant of fs_read.
fs_read_StaysThere(d, len, ret) ==
  /\ UNCHANGED fds
  /\ ret = IF Open(d) THEN Chunk(d, len) ELSE -1

fs_read(d, len, ret) ==
  \/ /\ Open(d)
     /\ fds' = [fds EXCEPT ![d].pos = @ + Chunk(d, len)]
     /\ ret = Chunk(d, len)
  \/ ~Open(d) /\ UNCHANGED fds /\ ret = -1

fs_close(d) == fds' = IF d \in Fd THEN [fds EXCEPT ![d] = Free] ELSE fds

-----------------------------------------------------------------------------
(* kernel_main, and cat with its system calls *)

register ==
  /\ pc = "boot" /\ booted < Len(BootFiles)
  /\ booted' = booted + 1
  /\ fs_register_file(BootFiles[booted + 1])
  /\ UNCHANGED <<fds, pc, fd, n, printed>>

boot_complete ==
  /\ pc = "boot" /\ booted = Len(BootFiles)
  /\ pc' = "shell"
  /\ UNCHANGED <<booted, files, fds, fd, n, printed>>

Goto(from, to) == pc = from /\ pc' = to /\ UNCHANGED <<booted, files>>

run_cat ==
  /\ Goto("shell", "open")
  /\ printed' = <<>>
  /\ UNCHANGED <<fds, fd, n>>

\* A system call does not restore rdi, rsi, rdx, r8, r9, r10 and rbx.
Disturbed == fd' \in {fd} \cup Leftover

cat_open ==
  /\ pc = "open"
  /\ \E ret \in Fd \cup {-1} :
       /\ fs_open(Path, ret)
       /\ fd' = ret
       /\ Goto("open", IF ret < 0 THEN "exit 1" ELSE "read")
  /\ UNCHANGED <<n, printed>>

\* Mutant of cat_read.
cat_read_UntilError ==
  /\ pc = "read"
  /\ \E ret \in -1 .. BufSize :
       /\ fs_read(fd, BufSize, ret)
       /\ n' = ret
       /\ Goto("read", IF ret >= 0 THEN "write" ELSE "close")
       /\ printed' = IF ret <= 0 THEN printed
                     ELSE Append(printed, [file |-> fds[fd].file,
                                           from |-> fds[fd].pos, len |-> ret])
  /\ Disturbed

\* The buffer holds the piece of the file that was read.
cat_read ==
  /\ pc = "read"
  /\ \E ret \in -1 .. BufSize :
       /\ fs_read(fd, BufSize, ret)
       /\ n' = ret
       /\ IF ret > 0
          THEN /\ Goto("read", "write")
               /\ printed' = Append(printed, [file |-> fds[fd].file,
                                              from |-> fds[fd].pos, len |-> ret])
          ELSE Goto("read", "close") /\ UNCHANGED printed
  /\ Disturbed

cat_write ==
  /\ Goto("write", "read")
  /\ Disturbed
  /\ UNCHANGED <<fds, n, printed>>

cat_close ==
  /\ Goto("close", "exit 0")
  /\ fs_close(fd)
  /\ Disturbed
  /\ UNCHANGED <<n, printed>>

\* exit, whatever its status, leaves the descriptors as they are.  The message
\* before exit 1 is measured from a register that open has left with anything,
\* so that cat may fault, which halts the machine.
cat_exit ==
  /\ Goto("exit 0", "shell") \/ Goto("exit 1", "shell") \/ Goto("exit 1", "fault")
  /\ UNCHANGED <<fds, fd, n, printed>>

Cat == cat_open \/ cat_read \/ cat_write \/ cat_close \/ cat_exit

FsNext == register \/ boot_complete \/ run_cat \/ Cat

FsSpec == FsInit /\ [][FsNext]_fsVars

\* A program that has been started runs on; whether `run cat` is typed is the
\* user's choice.
FsFairSpec == FsSpec /\ WF_fsVars(Cat)

-----------------------------------------------------------------------------
(* Properties *)

\* A descriptor in use belongs to a file and never stands beyond its end: the
\* unsigned difference that fs_read takes does not wrap.
WithinFiles ==
  \A d \in Fd : fds[d] = Free \/ /\ fds[d].file \in DOMAIN files
                                 /\ Remaining(d) \in 0 .. files[fds[d].file].size

\* Whatever the kernel leaves in its registers and whatever descriptors earlier
\* runs left open, a cat that ends well has printed its file, whole and once.
CatPrintsFile ==
  WithinFiles /\ (pc = "exit 0" =>
    \E i \in DOMAIN files :
      /\ NamesFile(Path, i)
      /\ printed = IF files[i].size = 0 THEN <<>>
                   ELSE <<[file |-> i, from |-> 0, len |-> files[i].size]>>)

\* cat comes to its end and gives the shell back, whichever descriptor it reads;
\* only where it is refused its file it may fault instead.
CatEnds ==
  /\ pc = "open" ~> pc \in {"shell", "fault"}
  /\ pc = "read" ~> pc = "shell"

-----------------------------------------------------------------------------
(* What the documentation says and the code does not do *)

\* docs/STATUS.md: "the `cat` user program opens, reads, and prints a file via
\* the `open`/`read`/`close` syscalls": what it opened is closed when it is done.
DescriptorsReturned == pc = "shell" => \A d \in Fd : fds[d] = Free
=============================================================================
