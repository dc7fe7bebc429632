---------------------------- MODULE AddressSpace ----------------------------
(***************************************************************************)
(* Physical frames and the address spaces built from them: the bitmap of   *)
(* mem/physical.c, clone_page_directory of mem/virtual.c, and the system   *)
(* calls fork, exec, exit and meminfo of interrupt_handler.c.  A task      *)
(* holds a page directory, its private page tables (entry 0 for the user,  *)
(* entry 1022 for the kernel stack), the frames those map, and a TSS.      *)
(* Page directory entries of the shared kernel are left out: every task    *)
(* has the same ones and nobody frees them.                                *)
(*                                                                         *)
(* A handler runs with the kernel lock, so it is one action up to a point  *)
(* where it may block: exec gives way to others in vfs_dir and in vfs_read.*)
(***************************************************************************)
EXTENDS Naturals, FiniteSets, Sequences, SequencesExt, TLC

CONSTANTS
  NFrames,     \* mm_limit: frames 1 .. NFrames can be allocated
  NTasks,      \* bound: number of selectors of the GDT
  Images,      \* programs: number of pages of the file, and program headers
  NUserPages,  \* bound: entries of the user page table
  VideoPage,   \* the entry that exec maps to video memory (0x200 .. 0x20F)
  MaxShm,      \* bound: shared memory regions, and places one is attached at
  MaxCalls,    \* bound: system calls made in all
  StackPage    \* the entry of the user stack of exec (1008 .. 1023)

Frame == 1 .. NFrames
Video == 0             \* the frame of video memory, never free
Top == NFrames + 1     \* the frame that address -1, a failed allocation, falls in
Task == 1 .. NTasks
UserPage == 0 .. NUserPages - 1

\* A header maps pages from .. from + n - 1 of the file at page `at', and
\* zeroed pages up to mem in all.
ASSUME AddressSpaceAssumption ==
  /\ NFrames \in Nat /\ NTasks \in Nat
  /\ {VideoPage, StackPage} \subseteq UserPage /\ VideoPage # StackPage
  /\ \A im \in Images : \A h \in Range(im.load) :
       h.n <= h.mem /\ h.from + h.n <= im.file

VARIABLES
  free,      \* mm_table
  task,      \* the tasks, by selector: [dir, tss, table, page, kstack, kpage]
  exec,      \* the tasks inside exec: [at, list, image, file]
  shm,       \* frames that meminfo allocated as shared memory
  attached,  \* <<task, page, frame>>: shared memory in an address space
  stray,     \* history: frames that fork filled with a copy of video memory
  calls,     \* number of system calls, up to MaxCalls
  panicked   \* panic stopped the machine with the kernel lock held

avars == <<free, task, exec, shm, attached, stray, calls, panicked>>

-----------------------------------------------------------------------------
(* mem/physical.c                                                           *)

\* The number of elements of S below x, and the element with k - 1 below it.
Rank(S, x) == Cardinality({y \in S : y < x})
Nth(S, k) == CHOOSE x \in S : Rank(S, x) = k - 1

\* n calls of alloc_phys_frame: the first free frames, and then failure.
Alloc(fr, n) == [k \in 1 .. n |-> IF k <= Cardinality(fr) THEN Nth(fr, k) ELSE Top]

\* What is left after n allocations.
Rest(fr, n) == fr \ Range(Alloc(fr, n))

\* free_phys_frame, BITMAP_SET; the bit of Top is beyond mm_limit.
Release(fr, frames) == (fr \cup frames) \ {Top}

-----------------------------------------------------------------------------
ReleasedWithVideo(pages) == Range(pages)

\* The pages of table 0 that exec and exit release: all but video memory.
Released(pages) == {pages[i] : i \in DOMAIN pages \ {VideoPage}}

Running == DOMAIN task \ DOMAIN exec
Without(f, x) == [y \in DOMAIN f \ {x} |-> f[y]]
With(f, x, v) == [y \in DOMAIN f \cup {x} |-> IF y = x THEN v ELSE f[y]]
Attaches(p) == \E a \in attached : a[1] = p

\* load_module: one boot module, in frames that nothing else uses.
AInit ==
  /\ task = 1 :> [dir |-> 1, table |-> 2, page |-> (0 :> 3) @@ (StackPage :> 4),
                  kstack |-> 5, kpage |-> 6, tss |-> 7]
  /\ free = Frame \ 1 .. 7
  /\ exec = <<>> /\ shm = {} /\ attached = {} /\ stray = {} /\ calls = 0 /\ panicked = FALSE

\* clone_page_table: a frame for every page that is present, in the order of
\* the entries; whether there was one is not tested.
ClonePages(pages, got) == [i \in DOMAIN pages |-> got[1 + Rank(DOMAIN pages, i)]]

\* clone_page_directory: the directory, the user table with its pages and the
\* table of the kernel stack with its page.
CloneDirectory(t, got) ==
  LET n == Cardinality(DOMAIN t.page)
  IN  [dir |-> got[1], table |-> got[2],
       page |-> ClonePages(t.page, SubSeq(got, 3, n + 2)),
       kstack |-> got[n + 3], kpage |-> got[n + 4]]

\* duplicate_TSS: a frame, not tested, and the first free selector.
DuplicateTSS(clone, frame) ==
  With(task, Nth(Task \ DOMAIN task, 1), clone @@ [tss |-> frame])

\* _fork: panics when the directory or a table has no frame, or no selector is free.
Fork(p) ==
  LET n == Cardinality(DOMAIN task[p].page)
      got == Alloc(free, n + 5)
      clone == CloneDirectory(task[p], got)
  IN  /\ p \in Running /\ ~Attaches(p)
      /\ IF Cardinality(free) < n + 3 \/ Task \subseteq DOMAIN task
         THEN panicked' = TRUE /\ UNCHANGED <<free, task, stray>>
         ELSE /\ free' = Rest(free, n + 5)
              /\ task' = DuplicateTSS(clone, got[n + 5])
              /\ stray' = stray \cup {clone.page[i] : i \in DOMAIN clone.page \cap {VideoPage}}
              /\ UNCHANGED panicked
      /\ UNCHANGED <<exec, shm, attached>>

\* _exec up to vfs_dir: a frame for the list of the frames of the file.
\* (exec does not check its allocations and would use address -1; the model
\* starts one only when there are frames enough for it.)
ExecBegin(p) ==
  /\ p \in Running /\ ~Attaches(p) /\ free # {}
  /\ exec' = With(exec, p, [at |-> "dir", list |-> Alloc(free, 1)[1], file |-> <<>>])
  /\ free' = Rest(free, 1)
  /\ UNCHANGED <<task, shm, attached, stray, panicked>>

\* There is no such file: the caller keeps its address space.
ExecNotFound(p) ==
  /\ p \in DOMAIN exec /\ exec[p].at = "dir"
  /\ free' = Release(free, {exec[p].list})
  /\ exec' = Without(exec, p)
  /\ UNCHANGED <<task, shm, attached, stray, panicked>>

\* The file is there: the old address space goes, then come a page table and
\* frames to read the file into.
ExecLoad(p, im) ==
  LET left == Release(free, Released(task[p].page) \cup {task[p].table})
      got == Alloc(left, 1 + im.file)
  IN  /\ p \in DOMAIN exec /\ exec[p].at = "dir"
      /\ Cardinality(left) > im.file
      /\ task' = [task EXCEPT ![p].table = got[1], ![p].page = <<>>]
      /\ exec' = [exec EXCEPT ![p] = [at |-> "read", list |-> @.list,
                                      file |-> Tail(got), load |-> im.load]]
      /\ free' = Rest(left, 1 + im.file)
      /\ UNCHANGED <<shm, attached, stray, panicked>>

\* The pages of a header that keep the frame the file was read into, and
\* those that get one of their own: the last one of the file and the bss.
Kept(h) == {<<h.at + j, h.from + j>> : j \in 0 .. h.n - 2}
Fresh(h) == [j \in 1 .. h.mem - h.n + 1 |-> h.at + h.n - 2 + j]

KeptPages(load) == UNION {Kept(h) : h \in Range(load)}
FreshPages(load) == FlattenSeq([k \in DOMAIN load |-> Fresh(load[k])])

\* The frames of the file that the walk over the headers did not map.
UnusedForgetsMap(e) == {e.file[k] : k \in DOMAIN e.file}

Unused(e) == {e.file[k] : k \in DOMAIN e.file \ {kp[2] + 1 : kp \in KeptPages(e.load)}}

\* The rest of _exec: walk the headers, drop the unused frames of the file,
\* map video memory and the stack, and drop the list.
ExecRun(p) ==
  LET e == exec[p]
      kept == KeptPages(e.load)
      fresh == FreshPages(e.load)
      got == Alloc(free, Len(fresh))
      left == Release(Rest(free, Len(fresh)), Unused(e))
  IN  /\ p \in DOMAIN exec /\ e.at = "read"
      /\ Cardinality(free) >= Len(fresh) /\ left # {}
      /\ task' = [task EXCEPT ![p].page =
           [i \in {kp[1] : kp \in kept} |-> e.file[1 + (CHOOSE kp \in kept : kp[1] = i)[2]]]
           @@ [i \in Range(fresh) |-> got[CHOOSE k \in DOMAIN fresh : fresh[k] = i]]
           @@ (VideoPage :> Video) @@ (StackPage :> Alloc(left, 1)[1])]
      /\ free' = Release(Rest(left, 1), {e.list})
      /\ exec' = Without(exec, p)
      /\ UNCHANGED <<shm, attached, stray, panicked>>

\* vfs_read came back short, or a header is misaligned.
ExecPanic(p) ==
  /\ p \in DOMAIN exec /\ exec[p].at = "read"
  /\ panicked' = TRUE
  /\ UNCHANGED <<free, task, exec, shm, attached, stray>>

\* __exit: everything the task holds, and its selector.
Exit(p) ==
  LET t == task[p]
  IN  /\ p \in Running /\ ~Attaches(p)
      /\ free' = Release(free, Released(t.page) \cup {t.table, t.kpage, t.kstack, t.dir, t.tss})
      /\ task' = Without(task, p)
      /\ UNCHANGED <<exec, shm, attached, stray, panicked>>

-----------------------------------------------------------------------------
(* _meminfo: shared memory is "just for testing" and is not protected, so   *)
(* the model follows the discipline of the tests: attach what is allocated, *)
(* detach before fork, exec and exit, free what nobody has attached.        *)

ShmAlloc(p) ==
  /\ p \in Running /\ free # {} /\ Cardinality(shm) < MaxShm
  /\ shm' = shm \cup {Alloc(free, 1)[1]}
  /\ free' = Rest(free, 1)
  /\ UNCHANGED <<task, exec, attached, stray, panicked>>

\* The first empty entry of table 0 but for entry 0.
ShmAttach(p, f) ==
  LET empty == UserPage \ (DOMAIN task[p].page \cup {0})
      i == Nth(empty, 1)
  IN  /\ p \in Running /\ f \in shm /\ empty # {} /\ Cardinality(attached) < MaxShm
      /\ task' = [task EXCEPT ![p].page = With(@, i, f)]
      /\ attached' = attached \cup {<<p, i, f>>}
      /\ UNCHANGED <<free, exec, shm, stray, panicked>>

ShmDetach(p) ==
  \E a \in attached :
    /\ p \in Running /\ a[1] = p
    /\ task' = [task EXCEPT ![p].page = Without(@, a[2])]
    /\ attached' = attached \ {a}
    /\ UNCHANGED <<free, exec, shm, stray, panicked>>

ShmFree(p, f) ==
  /\ p \in Running /\ f \in shm /\ \A a \in attached : a[3] # f
  /\ shm' = shm \ {f}
  /\ free' = Release(free, {f})
  /\ UNCHANGED <<task, exec, attached, stray, panicked>>

-----------------------------------------------------------------------------
\* A system call, and the rest of an exec that is under way.
Call(p) ==
  \/ Fork(p) \/ ExecBegin(p) \/ Exit(p)
  \/ ShmAlloc(p) \/ ShmDetach(p)
  \/ \E f \in shm : ShmAttach(p, f) \/ ShmFree(p, f)

Resume(p) ==
  \/ ExecNotFound(p) \/ ExecRun(p) \/ ExecPanic(p)
  \/ \E im \in Images : ExecLoad(p, im)

ANext ==
  /\ ~panicked
  /\ \E p \in Task :
       \/ calls < MaxCalls /\ Call(p) /\ calls' = calls + 1
       \/ Resume(p) /\ UNCHANGED calls

ASpec == AInit /\ [][ANext]_avars

-----------------------------------------------------------------------------
\* Type invariant.
ATypeOK ==
  /\ free \subseteq Frame /\ shm \subseteq Frame /\ stray \subseteq Frame \cup {Top}
  /\ DOMAIN task \subseteq Task /\ DOMAIN exec \subseteq DOMAIN task
  /\ \A p \in DOMAIN task : Range(task[p].page) \subseteq Frame \cup {Video, Top}
  /\ attached \subseteq (DOMAIN task) \X UserPage \X shm
  /\ panicked \in BOOLEAN

\* What frame f is used for, other than by attaching it.
TaskUses(p, f) ==
  {<<p, k>> : k \in {k \in {"dir", "table", "kstack", "kpage", "tss"} : task[p][k] = f}}
  \cup {<<p, "page", i>> : i \in {i \in DOMAIN task[p].page :
                            task[p].page[i] = f /\ <<p, i, f>> \notin attached}}

ExecUses(p, f) ==
  {<<p, "list">> : x \in {f} \cap {exec[p].list}}
  \cup {<<p, "file", k>> : k \in {k \in DOMAIN exec[p].file : exec[p].file[k] = f}}

Uses(f) ==
  UNION {TaskUses(p, f) : p \in DOMAIN task}
  \cup UNION {ExecUses(p, f) : p \in DOMAIN exec}
  \cup {<<"shm">> : x \in {f} \cap shm}

\* Whatever order tasks fork, exec (with its blocking and failing file system
\* calls), exit and share memory in, a frame is in the bitmap of free frames or
\* it serves exactly one purpose of one task; no frame is lost, but for the
\* copies of video memory that fork makes and exit and exec then skip.
FramesAccounted ==
  ~panicked => \A f \in Frame :
    IF f \in free THEN Uses(f) = {}
    ELSE Cardinality(Uses(f)) = 1 \/ (Uses(f) = {} /\ f \in stray)
=============================================================================
