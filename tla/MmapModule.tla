----------------------------- MODULE MmapModule -----------------------------
(***************************************************************************)
(* mmap.c, a file with a page that may be mapped, and the program          *)
(* userland/kernel_modules/mmap.c, which maps it twice and compares what   *)
(* the two mappings, read and write see.  The page belongs to the open     *)
(* file; each mapping takes a reference of its own with the first access.  *)
(***************************************************************************)
EXTENDS Integers, Sequences, FiniteSets

Maps == {"address1", "address2"}

VARIABLES
  lines,      \* What the program has still to do.
  fd, file,   \* Its descriptor is open; struct file exists.
  page,       \* The contents of the page, "none" before open.
  refs,       \* The references to the page.
  mapped,     \* The mappings there are, each of which keeps the file.
  present,    \* Those with the page in the page table.
  off, seen,  \* f_pos, and the string that the last access returned.
  entry       \* Bytes of a pagemap entry still to be read.

vars == <<lines, fd, file, page, refs, mapped, present, off, seen, entry>>

(* main of the program: an operation and its operand.                      *)
Main == << <<"open", "">>, <<"mmap", "address1">>, <<"mmap", "address2">>,
           <<"load", "address1">>, <<"assert", "asdf">>,
           <<"load", "address2">>, <<"assert", "asdf">>,
           <<"store", "address1">>, <<"load", "address2">>, <<"assert", "qwer">>,
           <<"pagemap", "address1">>, <<"pagemap", "address2">>,
           <<"read", "">>, <<"assert", "qwer">>, <<"write", "">>,
           <<"load", "address1">>, <<"assert", "zxcv">>,
           <<"load", "address2">>, <<"assert", "zxcv">>,
           <<"munmap", "address1">>, <<"munmap", "address2">>, <<"close", "">> >>

Init == /\ lines = <<>> /\ fd = FALSE /\ file = FALSE /\ page = "none" /\ refs = 0
        /\ mapped = {} /\ present = {} /\ off = 0 /\ seen = "" /\ entry = 0

At(op) == lines # <<>> /\ Head(lines)[1] = op
Arg    == Head(lines)[2]
Done   == lines' = Tail(lines)

Start == /\ lines = <<>> /\ ~fd /\ mapped = {} /\ ~file
         /\ lines' = Main /\ off' = 0 /\ seen' = ""
         /\ UNCHANGED <<fd, file, page, refs, mapped, present, entry>>

Open == /\ At("open") /\ Done
        /\ fd' = TRUE /\ file' = TRUE /\ page' = "asdf" /\ refs' = 1
        /\ UNCHANGED <<mapped, present, off, seen, entry>>

Mmap == /\ At("mmap") /\ Done /\ mapped' = mapped \cup {Arg}
        /\ UNCHANGED <<fd, file, page, refs, present, off, seen, entry>>

(* Mutant: no get_page.                                                    *)
Borrows == refs
GetPage == refs + 1

(* An access faults first when the page is not in the table.               *)
VmFault == /\ (At("load") \/ At("store")) /\ Arg \notin present
           /\ present' = present \cup {Arg} /\ refs' = GetPage
           /\ UNCHANGED <<lines, fd, file, page, mapped, off, seen, entry>>

Load == /\ At("load") /\ Arg \in present /\ Done /\ seen' = page
        /\ UNCHANGED <<fd, file, page, refs, mapped, present, off, entry>>
Store == /\ At("store") /\ Arg \in present /\ Done /\ page' = "qwer"
         /\ UNCHANGED <<fd, file, refs, mapped, present, off, seen, entry>>
Assert == /\ At("assert") /\ Done
          /\ UNCHANGED <<fd, file, page, refs, mapped, present, off, seen, entry>>

(* lkmc_pagemap_get_entry reads 8 bytes, as many at a time as it is given; *)
(* on an error the assertion around it fails.                              *)
Pread == /\ At("pagemap")
         /\ \E n \in 1 .. 8 : /\ entry < 8 /\ entry + n <= 8 /\ n \in {4, 8}
                              /\ entry' = entry + n
         /\ UNCHANGED <<lines, fd, file, page, refs, mapped, present, off, seen>>
Entry == /\ At("pagemap") /\ entry = 8 /\ entry' = 0 /\ Done
         /\ UNCHANGED <<fd, file, page, refs, mapped, present, off, seen>>

(* read moves the position; write goes to the start of the page whatever   *)
(* the position is.  Mutant: write heeds the position, which is the end.   *)
AtOffset == IF off >= 4 THEN page ELSE "zxcv"
AtStart  == "zxcv"

Read == /\ At("read") /\ Done
        /\ IF off >= 4 THEN UNCHANGED <<seen, off>> ELSE seen' = page /\ off' = 4
        /\ UNCHANGED <<fd, file, page, refs, mapped, present, entry>>
Write == /\ At("write") /\ Done /\ page' = AtStart
         /\ UNCHANGED <<fd, file, refs, mapped, present, off, seen, entry>>

(* The end of a mapping, and release with the last user of the file.       *)
Unmap(m) ==
  /\ mapped' = mapped \ {m} /\ present' = present \ {m}
  /\ refs' = refs - Cardinality(present \cap {m})
  /\ UNCHANGED <<fd, file, page, off, seen, entry>>
Munmap == At("munmap") /\ Done /\ Unmap(Arg)

Close == /\ At("close") /\ Done /\ fd' = FALSE
         /\ UNCHANGED <<file, page, refs, mapped, present, off, seen, entry>>

Release == /\ file /\ ~fd /\ mapped = {}
           /\ file' = FALSE /\ page' = "none" /\ refs' = refs - 1
           /\ UNCHANGED <<lines, fd, mapped, present, off, seen, entry>>

(* A failed assertion or a kill: the kernel closes and unmaps, in any order. *)
Kill == /\ lines # <<>> /\ ~At("open") /\ lines' = <<>> /\ fd' = FALSE /\ entry' = 0
        /\ UNCHANGED <<file, page, refs, mapped, present, off, seen>>
Exit == lines = <<>> /\ UNCHANGED lines /\ \E m \in mapped : Unmap(m)

Next == \/ Start \/ Open \/ Mmap \/ VmFault \/ Load \/ Store \/ Assert \/ Pread \/ Entry
        \/ Read \/ Write \/ Munmap \/ Close \/ Release \/ Kill \/ Exit

Spec == Init /\ [][Next]_vars

-----------------------------------------------------------------------------
(* The page is there while the file or a page table refers to it, and is   *)
(* freed with the last of them.                                            *)
PageLives ==
  /\ file \/ present # {} => refs > 0
  /\ ~file /\ mapped = {} => refs = 0

(* The two mappings, read and write are windows on one page: none of the   *)
(* assertions of the program fails.                                        *)
OnePage == At("assert") => seen = Arg

(***************************************************************************)
(* The inductive invariant.  References are counted: one of the file and   *)
(* one of each page table entry.  The program is before the line k of      *)
(* Main, which says what is mapped and what is in the page.                *)
(***************************************************************************)
TypeOK ==
  /\ fd \in BOOLEAN /\ file \in BOOLEAN
  /\ mapped \subseteq Maps /\ present \subseteq mapped

RefsCount == refs = (IF file THEN 1 ELSE 0) + Cardinality(present)
UsersKeepFile == fd \/ mapped # {} => file

AtLine(k) ==
  /\ lines = SubSeq(Main, k, Len(Main))
  /\ fd <=> k \in 2 .. 22
  /\ k = 1 => ~file
  /\ k \in 4 .. 20 => mapped = Maps
  /\ k = 3 => mapped = {"address1"}
  /\ k = 21 => mapped = {"address2"}
  /\ k \in {1, 2, 22} => mapped = {}
  /\ k \in 2 .. 8 => page = "asdf"
  /\ k \in 9 .. 15 => page = "qwer"
  /\ k \in 16 .. 22 => page = "zxcv"
  /\ k \in 1 .. 13 => off = 0
  /\ k \in {5, 7} => seen = "asdf"
  /\ k \in {10, 14} => seen = "qwer"
  /\ k \in {17, 19} => seen = "zxcv"

IInv == TypeOK /\ RefsCount /\ UsersKeepFile /\ \E k \in 1 .. 23 : AtLine(k)
=============================================================================
