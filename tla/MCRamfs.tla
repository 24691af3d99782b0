------------------------------ MODULE MCRamfs -------------------------------
(* Two files, four descriptors: cat is run until it is refused.  A register  *)
(* may be left with any descriptor, with none, or with something else.       *)
EXTENDS Ramfs

File(name, size) == [name |-> name, size |-> size]

MCBootFiles == <<File("motd", 1), File("readme", 2), File("readme", 1), File("late", 1)>>
MCLeftover == {-1, 0, 1, 2, 3, 4}
=============================================================================
