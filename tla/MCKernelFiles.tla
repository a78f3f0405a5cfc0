--------------------------- MODULE MCKernelFiles ----------------------------
(***************************************************************************)
(* What programs do to files of kernel modules: the bare device of scull,  *)
(* which is loaded and used, the loading and unloading of scull and its    *)
(* files in /proc, memfile, the sequence file, mmap and the anonymous      *)
(* file.  The modules share nothing: a behaviour is one of one of them,    *)
(* the part, and the others stay where they begin.                         *)
(***************************************************************************)
EXTENDS ScullDevice, TLC

CONSTANTS
  Back, Forward,         (* How far callers of scull seek.                 *)
  NrDevs, MaxItems,      (* Of ScullModule.                                *)
  Callers, MaxEnd, Lens, (* Of Memfile.                                    *)
  MaxMax, Sizes,         (* Of SeqFile.                                    *)
  Clients, Zero, nreads  (* Of AnonInode.                                  *)

(* There is a device, positions and lengths are numbers, 0 has a digit to  *)
(* show, and the holder of a semaphore can be told from nobody.            *)
ASSUME FilesAssumption ==
  /\ NrDevs \in Nat \ {0}
  /\ MaxEnd \in Nat /\ Lens \subseteq Nat /\ "nobody" \notin Callers
  /\ Sizes \subseteq Nat
  /\ Zero \in Nat \ {0}

MCOffsets == {-Back, Forward}

(* Threads are interchangeable, and so are files, in safety properties.    *)
Symmetry == Permutations(Threads) \cup Permutations(Files)

VARIABLES
  part,
  load, held, clones, lists, items, freed, lock, reader, dev, qs,
  buf, used, filled, null, sem, call, pos, len, contents, disturbed,
  max, seq, index, spos, want, line, lines_read, changed,
  lines, fd, opened, page, refs, mapped, present, off, seen, entry,
  loaded, myval, client, shifted, reads, shown, fds

module    == <<load, held, clones, lists, items, freed, lock, reader, dev, qs>>
memfile   == <<buf, used, filled, null, sem, call, pos, len, contents, disturbed>>
seq_file  == <<max, seq, index, spos, want, line, lines_read, changed>>
mmap      == <<lines, fd, opened, page, refs, mapped, present, off, seen, entry>>
anonymous == <<loaded, myval, client, shifted, reads, shown, fds>>

Module == INSTANCE ScullModule WITH data <- lists
Mem == INSTANCE Memfile WITH size <- filled
Sequence == INSTANCE SeqFile WITH out <- lines_read
Map == INSTANCE MmapModule WITH file <- opened
Anon == INSTANCE AnonInode

FilesInit ==
  /\ part \in {"scull", "module", "memfile", "seq_file", "mmap", "anonymous"}
  /\ Init /\ (part # "scull" => scull_quantum = SCULL_QUANTUM)
  /\ Module!Init /\ Mem!Init /\ Sequence!Init /\ Map!Init /\ Anon!Init

(* The other parts stand still.                                            *)
Only(p) ==
  /\ part = p /\ UNCHANGED part
  /\ IF p = "scull" THEN TRUE ELSE UNCHANGED vars
  /\ IF p = "module" THEN TRUE ELSE UNCHANGED module
  /\ IF p = "memfile" THEN TRUE ELSE UNCHANGED memfile
  /\ IF p = "seq_file" THEN TRUE ELSE UNCHANGED seq_file
  /\ IF p = "mmap" THEN TRUE ELSE UNCHANGED mmap
  /\ IF p = "anonymous" THEN TRUE ELSE UNCHANGED anonymous

FilesNext ==
  \/ Only("scull") /\ Next
  \/ Only("module") /\ Module!Next
  \/ Only("memfile") /\ Mem!Next
  \/ Only("seq_file") /\ Sequence!Next
  \/ Only("mmap") /\ Map!Next
  \/ Only("anonymous") /\ Anon!Next

FilesVars ==
  <<part, vars, module, memfile, seq_file, mmap, anonymous>>

FilesSpec == FilesInit /\ [][FilesNext]_FilesVars

-----------------------------------------------------------------------------
(* The properties of the parts, each with its reasons in its own module.   *)

(* What kernel code took is there while somebody can reach it and is given *)
(* back when nobody can: the regions, devices and proc files of scull      *)
(* however loading fails and whoever reads them, the page of mmap.c under  *)
(* all its mappings, and the code of an open anonymous file.               *)
ReachableIsLive ==
  Module!NothingLeft /\ Module!ShowsLive /\ Map!PageLives /\ Anon!CodeStays

(* What a reader gets is what the file holds: memfile what was written to  *)
(* it and zeros in between, inside its array; seq_file every line once and *)
(* in order, and all of them; mmap.c one page through every window; and    *)
(* the anonymous file a value that still has a digit.                      *)
ReadersSeeContents ==
  /\ Mem!UsedFits /\ Mem!HoldsContents
  /\ Sequence!InOrder /\ Sequence!AllBelowMax
  /\ Map!OnePage /\ Anon!DigitSurvives
=============================================================================
