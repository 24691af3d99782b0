------------------------------ MODULE Programs ------------------------------
(***************************************************************************)
(* From the boot information to a program that runs: the walks over the    *)
(* multiboot tags and the registration of programs in src/src/kernel.c,    *)
(* the table of src/src/program.c, and the shell's `run` in terminal.c.    *)
(*                                                                         *)
(* Boot information is a function from addresses, those where a tag or its *)
(* padding is, to what a reader finds there: [type, size, value].  It is   *)
(* what the boot loader left there, from address 8 on, its total size at   *)
(* `total`.  A command is a sequence of words and blanks.                  *)
(***************************************************************************)
EXTENDS Integers, SequencesExt, FiniteSetsExt

CONSTANTS
  MAX_MODULES   \* names that can be registered

ASSUME ProgramsAssumption == MAX_MODULES \in Nat

END == 0
MODULE_TAG == 3
FRAMEBUFFER == 8

Blank == " "
NoImage == [addr |-> 0, size |-> 0]

-----------------------------------------------------------------------------
(* kernel.c *)

\* Mutant of NextTag.
NextTag_Unrounded(ptr, size) == ptr + size

\* The size of a tag is without the padding to 8 bytes.
NextTag(ptr, size) == ptr + ((size + 7) \div 8) * 8

\* Where the loop over the tags ends.
Ends(info, ptr) == ptr + 8 > info.total \/ info.at[ptr].type = END

\* Where the loop stands after each turn, at the latest until it ends.
Walk(info) ==
  LET ptr[k \in 0 .. (info.total \div 8)] ==
        IF k = 0 THEN 8
        ELSE LET p == ptr[k - 1]
             IN  IF Ends(info, p) THEN p ELSE NextTag(p, info.at[p].size)
  IN  ptr

\* The tags that are looked at.
Seen(info) == {p \in {Walk(info)[k] : k \in 0 .. (info.total \div 8)} : ~Ends(info, p)}

ModulesNamed(info, name) ==
  {p \in Seen(info) : info.at[p].type = MODULE_TAG /\ info.at[p].size >= 16
                        /\ info.at[p].value.cmdline = name}

\* The first module of that command line, where there is one.
find_module(info, name) == info.at[Min(ModulesNamed(info, name))].value.range

\* The fields of the first framebuffer tag, if any.
parse_framebuffer(info) ==
  LET found == {p \in Seen(info) : info.at[p].type = FRAMEBUFFER /\ info.at[p].size >= 24}
  IN  IF found = {} THEN {} ELSE {info.at[Min(found)].value}

program_register(modules, name, m) ==
  IF Len(modules) >= MAX_MODULES THEN modules
                                 ELSE Append(modules, [name |-> name, at |-> m])

\* kernel_main registers the modules of these names that it finds.
Registered(info, names) ==
  LET modules[k \in 0 .. Len(names)] ==
        IF k = 0 THEN <<>>
        ELSE IF ModulesNamed(info, names[k]) = {} THEN modules[k - 1]
        ELSE program_register(modules[k - 1], names[k], find_module(info, names[k]))
  IN  modules[Len(names)]

-----------------------------------------------------------------------------
(* terminal.c, program.c *)

\* The command behind its leading blanks.
Stripped(cmd) ==
  LET words == {k \in DOMAIN cmd : cmd[k] # Blank}
  IN  IF words = {} THEN <<>> ELSE SubSeq(cmd, Min(words), Len(cmd))

\* shell_exec and terminal_run_command: the rest of a command that begins with
\* "run" and one blank is the name; "run" alone is a name too.
NameToRun(cmd) ==
  LET c == Stripped(cmd)
  IN  IF IsPrefix(<<"run", Blank>>, c) THEN SubSeq(c, 3, Len(c)) ELSE c

IsRun(cmd) == Stripped(cmd) = <<"run">> \/ IsPrefix(<<"run", Blank>>, Stripped(cmd))

\* The module that program_run loads, or NoImage: an unknown name, or no name.
program_run(modules, name) ==
  LET i == {k \in DOMAIN modules : <<modules[k].name>> = name}
  IN  IF i = {} THEN NoImage ELSE modules[Min(i)].at

-----------------------------------------------------------------------------
(* What the boot loader left *)

\* The information made of these tags, in order, each padded to 8 bytes, with the
\* end tag behind them.  Between tags a reader finds bytes of no known type.
Laid(tags) ==
  LET place[k \in 0 .. Len(tags)] ==
        IF k = 0 THEN 8 ELSE place[k - 1] + ((tags[k].size + 7) \div 8) * 8
      end == place[Len(tags)]
      At(a) == {k \in 1 .. Len(tags) : place[k - 1] = a}
  IN  [total |-> end + 8,
       at |-> [a \in 8 .. end |->
                 IF a = end THEN [type |-> END, size |-> 8, value |-> NoImage]
                 ELSE IF At(a) # {} THEN tags[Min(At(a))]
                 ELSE [type |-> 255, size |-> 8, value |-> NoImage]]]
=============================================================================
