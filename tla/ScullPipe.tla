----------------------------- MODULE ScullPipe ------------------------------
(***************************************************************************)
(* kernel_modules/scull.c, the scullpipe device: a circular buffer under a *)
(* mutex, with two wait queues on which readers sleep while the buffer is  *)
(* empty and writers while it is full.                                     *)
(*                                                                         *)
(* Reads and writes follow the same course (side "r" or "w"):              *)
(*                                                                         *)
(*   lock -> wrap -> wake -> user     the data or the space is there       *)
(*   lock -> wait -> test -> sleep -> ...     it is not                    *)
(*   poll -> select -> poll -> ...            select() waits for either    *)
(*                                                                         *)
(* Pointers are offsets from dev->buffer.  A step ends where the mutex is  *)
(* released, and also between the advance of a pointer and its wrapping,   *)
(* because the tests before a sleep read rp and wp without the mutex.      *)
(***************************************************************************)
EXTENDS Integers, Sequences, FiniteSets

CONSTANTS
  Procs,      (* Processes, each with at most one open file.               *)
  None,       (* No process: the free mutex.                               *)
  LoadSizes,  (* Values of the module parameter scull_p_buffer.            *)
  IoctlSizes, (* Arguments that callers give to SCULL_P_IOCTSIZE.          *)
  Modes,      (* f_mode of the files that callers open.                    *)
  Nonblock,   (* Whether they have O_NONBLOCK: a set of Booleans.          *)
  AsyncUsers, (* Processes that may ask for SIGIO.                         *)
  Counts,     (* Byte counts of the calls to read() and write().           *)
  NBytes      (* Bytes are numbered modulo NBytes in the order of writing. *)

Sizes == LoadSizes \cup IoctlSizes

ASSUME ProcsAssumption == None \notin Procs /\ IsFiniteSet(Procs)
ASSUME SizesAssumption ==
  Sizes \subseteq Nat /\ LoadSizes # {} /\ \E m \in Sizes : \A n \in Sizes : n <= m
ASSUME FilesAssumption ==
  Modes \subseteq {"r", "w", "rw"} /\ Nonblock \subseteq BOOLEAN /\ AsyncUsers \subseteq Procs
ASSUME CountsAssumption ==
  Counts \subseteq Nat /\ \E m \in Counts : \A n \in Counts : n <= m
ASSUME NBytesAssumption == NBytes \in Nat \ {0}

VARIABLES
  scull_p_buffer, (* The size that the next allocation will have.          *)
  alloc,          (* Bytes allocated at dev->buffer; NULL is modelled -1.  *)
  buffersize,     (* dev->buffersize; dev->end is always buffer + that.    *)
  rp, wp,         (* Where to read, where to write.                        *)
  mem,            (* The bytes from dev->buffer on.                        *)
  nreaders, nwriters,
  lock,           (* Holder of dev->lock, or None.                         *)
  queue,          (* "r" |-> dev->inq, "w" |-> dev->outq: the sleepers.    *)
  async_queue,    (* Files that asked for SIGIO.                           *)
  mode,           (* Per process: f_mode of its open file, or "none".      *)
  nonblock,       (* Per process: O_NONBLOCK in f_flags.                   *)
  pc,             (* Per process: where it is in its system call.          *)
  side,           (* Per process: "r" in read(), "w" in write().           *)
  count,          (* Per process: the count of the call.                   *)
  next,           (* History: the next byte to be written.                 *)
  out,            (* History: what the last read returned.                 *)
  jumped          (* History: an open changed the free space under others. *)

pointers == <<buffersize, rp, wp>>
openings == <<nreaders, nwriters, mode, nonblock>>
calls    == <<pc, side, count>>
history  == <<next, out, jumped>>
vars == <<scull_p_buffer, alloc, pointers, mem, openings, lock, queue,
          async_queue, calls, history>>

NULL == -1
MaxOf(S) == CHOOSE n \in S : \A m \in S : m <= n
MinOf(S) == CHOOSE n \in S : \A m \in S : n <= m
Address == 0..(MaxOf(Sizes) - 1)

Init ==
  /\ scull_p_buffer \in LoadSizes
  /\ alloc = NULL
  /\ buffersize = 0 /\ rp = 0 /\ wp = 0
  /\ mem = [a \in Address |-> 0]
  /\ nreaders = 0 /\ nwriters = 0
  /\ lock = None
  /\ queue = [s \in {"r", "w"} |-> {}]
  /\ async_queue = {}
  /\ mode = [p \in Procs |-> "none"]
  /\ nonblock = [p \in Procs |-> FALSE]
  /\ pc = [p \in Procs |-> "user"]
  /\ side = [p \in Procs |-> "r"]
  /\ count = [p \in Procs |-> 0]
  /\ next = 0 /\ out = <<>> /\ jumped = FALSE

(* A step of p; the locals of a call are gone when it returns.             *)
Goto(p, from, to) ==
  /\ pc[p] = from
  /\ pc' = [pc EXCEPT ![p] = to]
  /\ side' = [side EXCEPT ![p] = IF to = "user" THEN "r" ELSE @]
  /\ count' = [count EXCEPT ![p] = IF to = "user" THEN 0 ELSE @]

(* How much space is free?  -1 when the size is 0.                         *)
spacefree ==
  IF rp = wp THEN buffersize - 1
  ELSE ((rp + buffersize - wp) % buffersize) - 1

(* The cast (size_t)n of the possibly negative int n.                      *)
size_t(n) == IF n < 0 THEN MaxOf(Counts) ELSE n

(* What a call waits for: something to read, space to write.               *)
Ready(s) == IF s = "r" THEN rp # wp ELSE spacefree # 0
Other(s) == IF s = "r" THEN "w" ELSE "r"

Readable(m) == m \in {"r", "rw"}
Writable(m) == m \in {"w", "rw"}
One(b) == IF b THEN 1 ELSE 0

-----------------------------------------------------------------------------
(* open, release, fasync and ioctl.                                        *)

(***************************************************************************)
(* The whole of scull_p_open, under the mutex.  The buffer is allocated    *)
(* for the first opening only; the size and both pointers are set every    *)
(* time, and nobody is woken.                                              *)
(***************************************************************************)
Open(p, m, nb) ==
  /\ pc[p] = "user" /\ mode[p] = "none" /\ lock = None
  /\ alloc' = IF alloc = NULL THEN scull_p_buffer ELSE alloc
  /\ buffersize' = scull_p_buffer
  /\ rp' = 0 /\ wp' = 0
  /\ nreaders' = nreaders + One(Readable(m))
  /\ nwriters' = nwriters + One(Writable(m))
  /\ mode' = [mode EXCEPT ![p] = m]
  /\ nonblock' = [nonblock EXCEPT ![p] = nb]
  /\ jumped' = (jumped \/ (alloc # NULL /\ spacefree' # spacefree))
  /\ UNCHANGED <<scull_p_buffer, mem, lock, queue, async_queue, calls, next, out>>

(* scull_p_release: the last one out frees the buffer.                     *)
NoReaders(readers, writers) == readers = 0
LastOut(readers, writers) == readers + writers = 0

Release(p) ==
  /\ pc[p] = "user" /\ mode[p] # "none" /\ lock = None
  /\ nreaders' = nreaders - One(Readable(mode[p]))
  /\ nwriters' = nwriters - One(Writable(mode[p]))
  /\ alloc' = IF LastOut(nreaders', nwriters') THEN NULL ELSE alloc
  /\ mode' = [mode EXCEPT ![p] = "none"]
  /\ nonblock' = [nonblock EXCEPT ![p] = FALSE]
  /\ async_queue' = async_queue \ {p}
  /\ UNCHANGED <<scull_p_buffer, pointers, mem, lock, queue, calls, history>>

(* fcntl(F_SETFL) with or without FASYNC: fasync_helper, no mutex.         *)
Fasync(p, on) ==
  /\ pc[p] = "user" /\ mode[p] # "none"
  /\ async_queue' = IF on THEN async_queue \cup {p} ELSE async_queue \ {p}
  /\ UNCHANGED <<scull_p_buffer, alloc, pointers, mem, openings, lock, queue, calls, history>>

(* SCULL_P_IOCTSIZE: sets the parameter only, without any lock.            *)
IoctlSize(p, n) ==
  /\ pc[p] = "user" /\ mode[p] # "none"
  /\ scull_p_buffer' = n
  /\ UNCHANGED <<alloc, pointers, mem, openings, lock, queue, async_queue, calls, history>>

-----------------------------------------------------------------------------
(* read and write.                                                         *)

(* The system call is made.                                                *)
Call(p, s, n) ==
  /\ IF s = "r" THEN Readable(mode[p]) ELSE Writable(mode[p])
  /\ pc[p] = "user"
  /\ pc' = [pc EXCEPT ![p] = "lock"]
  /\ side' = [side EXCEPT ![p] = s]
  /\ count' = [count EXCEPT ![p] = n]
  /\ UNCHANGED <<scull_p_buffer, alloc, pointers, mem, openings, lock, queue,
                 async_queue, history>>

(* The mutex is taken, nothing can be done, the mutex is released again.   *)
NotReady(p) ==
  /\ lock = None
  /\ ~Ready(side[p])
  /\ Goto(p, "lock", IF nonblock[p] THEN "user" ELSE "wait")
  /\ UNCHANGED <<scull_p_buffer, alloc, pointers, mem, openings, lock, queue,
                 async_queue, history>>

(* How many bytes one read takes: up to wp, or up to the end.              *)
ReadSize(n) ==
  MinOf({n, IF wp > rp THEN wp - rp ELSE buffersize - rp})

(* scull_p_read with data there, up to the advance of rp.                  *)
ReadData(p) ==
  /\ side[p] = "r"
  /\ lock = None
  /\ Ready("r")
  /\ Goto(p, "lock", "wrap")
  /\ lock' = p
  /\ LET n == ReadSize(count[p]) IN
       /\ out' = [i \in 1..n |-> mem[rp + i - 1]]
       /\ rp' = rp + n
  /\ UNCHANGED <<scull_p_buffer, alloc, buffersize, wp, mem, openings, queue,
                 async_queue, next, jumped>>

(* How many bytes one write takes: no more than the free space, and then   *)
(* up to the end of the buffer, or up to the byte before rp.               *)
WriteSizeAllFree(n) ==
  MinOf({n, IF wp >= rp THEN buffersize - wp ELSE rp - wp - 1})
WriteSizePastEnd(n) == MinOf({n, size_t(spacefree)})
WriteSize(n) ==
  MinOf({n, size_t(spacefree),
         IF wp >= rp THEN buffersize - wp ELSE rp - wp - 1})

(* scull_p_write with space there, up to the advance of wp.                *)
WriteData(p) ==
  /\ side[p] = "w"
  /\ lock = None
  /\ Ready("w")
  /\ Goto(p, "lock", "wrap")
  /\ lock' = p
  /\ LET n == WriteSize(count[p]) IN
       /\ mem' = [a \in Address |->
                   IF a \in wp..(wp + n - 1) THEN (next + a - wp) % NBytes ELSE mem[a]]
       /\ next' = (next + n) % NBytes
       /\ wp' = wp + n
  /\ UNCHANGED <<scull_p_buffer, alloc, buffersize, rp, openings, queue,
                 async_queue, out, jumped>>

(* copy_to_user or copy_from_user fails: -EFAULT, nothing has changed.     *)
Fault(p) ==
  /\ lock = None
  /\ Ready(side[p])
  /\ Goto(p, "lock", "user")
  /\ UNCHANGED <<scull_p_buffer, alloc, pointers, mem, openings, lock, queue,
                 async_queue, history>>

(* The pointer just advanced wraps at the end; the mutex is released.      *)
NotWrapped(x) == x
Wrapped(x) == IF x = buffersize THEN 0 ELSE x

Wrap(p) ==
  /\ Goto(p, "wrap", "wake")
  /\ rp' = IF side[p] = "r" THEN Wrapped(rp) ELSE rp
  /\ wp' = IF side[p] = "w" THEN Wrapped(wp) ELSE wp
  /\ lock' = None
  /\ UNCHANGED <<scull_p_buffer, alloc, buffersize, mem, openings, queue,
                 async_queue, history>>

(* wake_up_interruptible: everybody on the queue of the other side.  A     *)
(* write also sends SIGIO (kill_fasync) to the files in async_queue: to a  *)
(* process asleep in a call that is the step Interrupt.                    *)
WokenOwnSide(s) == s
WokenReaders(s) == "r"
Woken(s) == Other(s)

Wake(p) ==
  /\ Goto(p, "wake", "user")
  /\ queue' = [queue EXCEPT ![Woken(side[p])] = {}]
  /\ UNCHANGED <<scull_p_buffer, alloc, pointers, mem, openings, lock,
                 async_queue, history>>

-----------------------------------------------------------------------------
(* Sleeping: wait_event_interruptible in scull_p_read, the same thing by   *)
(* hand in scull_getwritespace.                                            *)

(* prepare_to_wait: on the queue, before the condition is tested.          *)
Prepare(p) ==
  /\ Goto(p, "wait", "test")
  /\ queue' = [queue EXCEPT ![side[p]] = @ \cup {p}]
  /\ UNCHANGED <<scull_p_buffer, alloc, pointers, mem, openings, lock,
                 async_queue, history>>

(* The condition, tested without the mutex; schedule() if it is false.     *)
Test(p) ==
  /\ Goto(p, "test", IF Ready(side[p]) THEN "lock" ELSE "sleep")
  /\ queue' = [queue EXCEPT ![side[p]] = IF Ready(side[p]) THEN @ \ {p} ELSE @]
  /\ UNCHANGED <<scull_p_buffer, alloc, pointers, mem, openings, lock,
                 async_queue, history>>

(* schedule() returns after a wake up.  wait_event tests again;            *)
(* scull_getwritespace tests again under the mutex.                        *)
WakeUp(p) ==
  /\ p \notin queue[side[p]]
  /\ Goto(p, "sleep", IF side[p] = "r" THEN "wait" ELSE "lock")
  /\ UNCHANGED <<scull_p_buffer, alloc, pointers, mem, openings, lock, queue,
                 async_queue, history>>

-----------------------------------------------------------------------------
(* scull_p_poll, as select() calls it to wait until side s is ready.       *)

Select(p, s) ==
  /\ IF s = "r" THEN Readable(mode[p]) ELSE Writable(mode[p])
  /\ pc[p] = "user"
  /\ pc' = [pc EXCEPT ![p] = "poll"]
  /\ side' = [side EXCEPT ![p] = s]
  /\ UNCHANGED <<scull_p_buffer, alloc, pointers, mem, openings, lock, queue,
                 async_queue, count, history>>

(* Under the mutex: on both queues, and the mask.                          *)
Poll(p) ==
  /\ lock = None
  /\ Goto(p, "poll", IF Ready(side[p]) THEN "user" ELSE "select")
  /\ queue' = IF Ready(side[p]) THEN queue
              ELSE [s \in {"r", "w"} |-> queue[s] \cup {p}]
  /\ UNCHANGED <<scull_p_buffer, alloc, pointers, mem, openings, lock,
                 async_queue, history>>

(* Woken through one of the queues: off the other one, and poll again.     *)
Selected(p) ==
  /\ p \notin queue["r"] \cap queue["w"]
  /\ Goto(p, "select", "poll")
  /\ queue' = [s \in {"r", "w"} |-> queue[s] \ {p}]
  /\ UNCHANGED <<scull_p_buffer, alloc, pointers, mem, openings, lock,
                 async_queue, history>>

(***************************************************************************)
(* A signal: -ERESTARTSYS from mutex_lock_interruptible or from the sleep. *)
(* wait_event_interruptible goes on if its condition holds by now.         *)
(***************************************************************************)
Interrupt(p) ==
  /\ \/ Goto(p, "lock", "user")
     \/ Goto(p, "sleep", IF side[p] = "r" /\ Ready("r") THEN "lock" ELSE "user")
     \/ Goto(p, "select", "user")
  /\ queue' = [s \in {"r", "w"} |-> queue[s] \ {p}]
  /\ UNCHANGED <<scull_p_buffer, alloc, pointers, mem, openings, lock,
                 async_queue, history>>

-----------------------------------------------------------------------------
(* What the kernel does for p once it is in a call.                        *)
Kernel(p) ==
  \/ NotReady(p) \/ ReadData(p) \/ WriteData(p) \/ Wrap(p) \/ Wake(p)
  \/ Prepare(p) \/ Test(p) \/ WakeUp(p) \/ Poll(p) \/ Selected(p)

(* What p itself or its surroundings decide.                               *)
User(p) ==
  \/ \E m \in Modes, nb \in Nonblock : Open(p, m, nb)
  \/ Release(p)
  \/ p \in AsyncUsers /\ \E on \in BOOLEAN : Fasync(p, on)
  \/ \E n \in IoctlSizes : IoctlSize(p, n)
  \/ \E s \in {"r", "w"}, n \in Counts : Call(p, s, n)
  \/ \E s \in {"r", "w"} : Select(p, s)
  \/ Fault(p)
  \/ Interrupt(p)

Next == \E p \in Procs : Kernel(p) \/ User(p)

Spec == Init /\ [][Next]_vars

(* A process that is in the kernel and can go on does so.                  *)
FairSpec == Spec /\ \A p \in Procs : WF_vars(Kernel(p))

-----------------------------------------------------------------------------
(* What should be true of it.                                              *)

InCall(p) == pc[p] # "user"
Asleep(p) ==
  \/ pc[p] = "sleep" /\ p \in queue[side[p]]
  \/ pc[p] = "select" /\ p \in queue["r"] \cap queue["w"]

(* The values every field of struct scull_pipe and every process may take. *)
TypeOK ==
  /\ scull_p_buffer \in Sizes
  /\ alloc \in Sizes \cup {NULL}
  /\ buffersize \in Sizes \cup {0}
  /\ rp \in 0..buffersize /\ wp \in 0..buffersize
  /\ mem \in [Address -> 0..(NBytes - 1)]
  /\ nreaders \in 0..Cardinality(Procs) /\ nwriters \in 0..Cardinality(Procs)
  /\ lock \in Procs \cup {None}
  /\ queue \in [{"r", "w"} -> SUBSET Procs]
  /\ async_queue \subseteq Procs
  /\ mode \in [Procs -> {"none", "r", "w", "rw"}]
  /\ nonblock \in [Procs -> BOOLEAN]
  /\ pc \in [Procs -> {"user", "lock", "wrap", "wake", "wait", "test", "sleep",
                       "poll", "select"}]
  /\ side \in [Procs -> {"r", "w"}]
  /\ count \in [Procs -> Counts \cup {0}]
  /\ next \in 0..(NBytes - 1)
  /\ jumped \in BOOLEAN

(***************************************************************************)
(* The buffer exists exactly while somebody has the device open: a reader  *)
(* or writer in a call never finds it freed, and SIGIO goes to open files. *)
(***************************************************************************)
BufferLivesWhileOpen ==
  /\ alloc # NULL <=> \E p \in Procs : mode[p] # "none"
  /\ \A p \in Procs : InCall(p) => alloc # NULL
  /\ \A p \in async_queue : mode[p] # "none"

(***************************************************************************)
(* Whenever the mutex is free both pointers designate a byte of the        *)
(* buffer, so that the copies of read and write stay between buffer and    *)
(* end; the holder of the mutex is the one whose pointer is not wrapped.   *)
(***************************************************************************)
PointersWrapped ==
  /\ lock = None => {rp, wp} \subseteq 0..MaxOf({0, buffersize - 1})
  /\ \A p \in Procs : lock = p <=> pc[p] = "wrap"

(***************************************************************************)
(* No lost wake up, although the condition is tested without the mutex:    *)
(* whoever sleeps on a queue while what it waits for is there is about to  *)
(* be woken.  Writers have this only as long as no open() changed the free *)
(* space under them: scull_p_open wakes nobody.                            *)
(***************************************************************************)
NoLostWakeup ==
  \A p \in Procs :
    Asleep(p) /\ Ready(side[p]) =>
      \/ \E q \in Procs : pc[q] \in {"wrap", "wake"} /\ side[q] = Other(side[p])
      \/ side[p] = "w" /\ jumped

(***************************************************************************)
(* A reader and a writer never wait for each other, unless the buffer has  *)
(* no room for a byte (it holds buffersize - 1) or an open() changed the   *)
(* free space under a sleeping writer.                                     *)
(***************************************************************************)
NotBothAsleep ==
  buffersize > 1 /\ ~jumped =>
    ~ \E p, q \in Procs :
        /\ Asleep(p) /\ side[p] = "r"
        /\ Asleep(q) /\ side[q] = "w"
        /\ \A x \in Procs \ {p, q} : pc[x] \in {"user", "sleep", "select"}

(* "begin of buf, end of buf": end is the end of what was allocated.       *)
EndOfBuf == alloc # NULL => buffersize = alloc

(***************************************************************************)
(* Why they hold.  The counts of readers and writers are those of the open *)
(* files, so the buffer is freed by the last of them; between the advance  *)
(* of a pointer and its wrapping the mutex is held; and what makes a       *)
(* condition true, the advance of a pointer, is done by a call that still  *)
(* has its wake up to make.                                                *)
(***************************************************************************)
Readers == {p \in Procs : Readable(mode[p])}
Writers == {p \in Procs : Writable(mode[p])}
CountsOpenings == nreaders = Cardinality(Readers) /\ nwriters = Cardinality(Writers)

CallsAreOnOpenFiles == \A p \in Procs : InCall(p) => mode[p] # "none"

OnePointerAdvances ==
  \A p \in Procs :
    pc[p] = "wrap" =>
      (IF side[p] = "r" THEN wp ELSE rp) \in 0..MaxOf({0, buffersize - 1})

IInv == /\ TypeOK /\ CountsOpenings /\ CallsAreOnOpenFiles /\ BufferLivesWhileOpen
        /\ PointersWrapped /\ OnePointerAdvances /\ NoLostWakeup

(* A sleeping reader does not sleep on with data in the buffer.            *)
ReadersAreWoken ==
  \A p \in Procs :
    Asleep(p) /\ side[p] = "r" /\ Ready("r") ~> ~(Asleep(p) /\ Ready("r"))

(* Nor a sleeping writer with space, while no open() changes the space.    *)
WritersAreWoken ==
  \A p \in Procs :
    Asleep(p) /\ side[p] = "w" /\ Ready("w") ~> ~(Asleep(p) /\ Ready("w")) \/ jumped

(* Whichever side calls wake_up_interruptible, the sleepers of the other   *)
(* go on.                                                                  *)
SleepersAreWoken == ReadersAreWoken /\ WritersAreWoken

(***************************************************************************)
(* The device is a first-in first-out stream of bytes, BytePipe: whatever  *)
(* wraps, and however reads and writes interleave, no byte is lost,        *)
(* repeated or reordered but by the opens and closes that discard them.    *)
(***************************************************************************)
Held ==
  IF buffersize = 0 THEN 0
  ELSE (Wrapped(wp) - Wrapped(rp) + buffersize) % buffersize

Contents ==
  IF alloc = NULL THEN <<>>
  ELSE [i \in 1..Held |-> mem[(Wrapped(rp) + i - 1) % buffersize]]

Stream == INSTANCE BytePipe WITH MaxCount <- MaxOf(Counts), contents <- Contents

ImplementsBytePipe == Stream!Spec
=============================================================================
