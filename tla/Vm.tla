--------------------------------- MODULE Vm ---------------------------------
(***************************************************************************)
(* Physical memory and address spaces (kalloc.c, vm.c, exec.c, and the     *)
(* parts of proc.c that allocate), with the kernel of lab 5 where mmap     *)
(* only raises the size and a page fault allocates (lazy).                 *)
(*                                                                         *)
(* A process is a program, the calls it has still to make, and code, the   *)
(* work pending in its current call.  kalloc and kfree are atomic, under   *)
(* kmem.lock; between two of them any other process can run, so a step     *)
(* has at most one of each.  The free list runs through the free frames    *)
(* themselves: the first word of a free frame is the next free frame.      *)
(***************************************************************************)
EXTENDS Integers, Sequences, FiniteSets

CONSTANTS Procs,
          InitProc, \* the first process
          Worlds,   \* {[lazy: is it lab 5, frames: number of frames, runs: program]}
          NFRAMES, PGSIZE,
          NPTE,     \* entries of a page table
          NUPDE,    \* entries of a page directory that map user memory
          NKPDE,    \* entries that map the kernel
          MAXARG

VARIABLES
  freelist,   \* the first free frame, or 0
  word,       \* frame -> its first word
  table,      \* frame -> its entries, if it is a page directory or a page table
  proc,
  image,      \* process -> page -> what the process last saw there
  world,      \* the kernel and how many frames it has
  panicked, oops

vars == <<freelist, word, table, proc, image, world, panicked, oops>>

Frames == 1..NFRAMES
Pages == 0..NUPDE * NPTE - 1
KERNBASE == NUPDE * NPTE * PGSIZE
UINT == 4 * KERNBASE                      \* sizes are computed modulo UINT
Entries == 0..NUPDE + NKPDE - 1
Kernel == NUPDE..NUPDE + NKPDE - 1

PGROUNDUP(a) == ((a + PGSIZE - 1) \div PGSIZE) * PGSIZE
Page(a) == a \div PGSIZE

\* An entry: the frame, and whether user code may use it.
None == [f |-> 0, u |-> FALSE]
Junk == [f |-> -1, u |-> TRUE]
Empty == [e \in Entries |-> None]
Filled == [e \in Entries |-> Junk]

\* What user code sees of a page: a word, or that there is no page or that it may not use it.
Absent == -100
Guard == -101
Text == -1
-----------------------------------------------------------------------------
(* Page tables.  t is the memory of tables, d a page directory. *)

\* The page table for a page, 0 if there is none.
Pgtab(t, d, pg) == t[d][pg \div NPTE].f
\* walkpgdir(d, a, 0)
Pte(t, d, pg) == IF Pgtab(t, d, pg) = 0 THEN None ELSE t[Pgtab(t, d, pg)][pg % NPTE]
SetPte(t, d, pg, e) == [t EXCEPT ![Pgtab(t, d, pg)][pg % NPTE] = e]
Present(d, pg) == Pte(table, d, pg).f # 0

View(d) == [pg \in Pages |-> IF ~Present(d, pg) THEN Absent
                             ELSE IF ~Pte(table, d, pg).u THEN Guard ELSE word[Pte(table, d, pg).f]]
-----------------------------------------------------------------------------
Slot == [state |-> "UNUSED", program |-> <<>>, code |-> <<>>, op |-> "none", kstack |-> 0, pgdir |-> 0,
         sz |-> 0, parent |-> 0, child |-> 0, d |-> 0, nsz |-> 0]

\* userinit() has run: one page for the first process; the other frames are free.
Init ==
  \E w \in Worlds :
    LET taken == 3 + NKPDE + 1          \* kstack, page directory, page tables, the page
        pt == 3 + NKPDE
    IN
    /\ freelist = taken + 1
    /\ word = [f \in Frames |-> IF f \in taken + 1..w.frames - 1 THEN f + 1 ELSE IF f = taken THEN Text ELSE 0]
    /\ table = [f \in Frames |->
         IF f = 2 THEN [e \in Entries |-> IF e = 0 THEN [f |-> pt, u |-> TRUE]
                                          ELSE IF e \in Kernel THEN [f |-> 3 + e - NUPDE, u |-> TRUE] ELSE None]
         ELSE IF f = pt THEN [Empty EXCEPT ![0] = [f |-> taken, u |-> TRUE]]
         ELSE IF f <= taken THEN Empty ELSE Filled]
    /\ proc = [p \in Procs |-> IF p # InitProc THEN Slot
                               ELSE [Slot EXCEPT !.state = "RUN", !.program = w.runs, !.kstack = 1,
                                                 !.pgdir = 2, !.sz = PGSIZE]]
    /\ image = [p \in Procs |-> [pg \in Pages |-> IF p = InitProc /\ pg = 0 THEN Text ELSE Absent]]
    /\ world = [lazy |-> w.lazy, frames |-> w.frames] /\ panicked = FALSE /\ oops = FALSE

-----------------------------------------------------------------------------
(* Steps of the code. *)

Kfree(f) == freelist' = f /\ word' = [word EXCEPT ![f] = freelist]

\* The list after kalloc() took the first frame off.
AfterKalloc == IF freelist = 0 THEN 0 ELSE word[freelist]

Code(p) == proc[p].code
At(p, step) == ~panicked /\ Code(p) # <<>> /\ Head(Code(p))[1] = step
Arg(p, n) == Head(Code(p))[n + 1]
Do(p, code) == proc' = [proc EXCEPT ![p].code = code]
Done(p) == Do(p, Tail(Code(p)))
Again(p, step) == Do(p, <<step>> \o Tail(Code(p)))

\* Mutant: the page the new size ends in is freed as well.
Deallocuvm_Down(d, old, new) ==
  IF new >= old THEN <<>> ELSE << <<"dealloc", d, new \div PGSIZE, PGROUNDUP(old) \div PGSIZE>> >>

\* The work of deallocuvm().
Deallocuvm(d, old, new) ==
  IF new >= old THEN <<>> ELSE << <<"dealloc", d, PGROUNDUP(new) \div PGSIZE, PGROUNDUP(old) \div PGSIZE>> >>

Freevm(d) == Deallocuvm(d, KERNBASE, 0) \o << <<"freevm", d, 0>> >>

Setupkvm == << <<"pgdir">> >> \o [k \in 1..NKPDE |-> <<"kmap", NUPDE + k - 1>>]

\* What the caller does when a part of its work fails; d is its page directory, if any.
Bad(p, d) ==
  CASE proc[p].op = "fork" -> << <<"forkbad">> >>
    [] proc[p].op = "exec" -> (IF d = 0 THEN <<>> ELSE Freevm(d)) \o << <<"execbad">> >>
    [] proc[p].op = "sbrk" -> << <<"ret", -1>> >>
    [] proc[p].op = "fault" -> <<>>
Fail(p, cleanup, d) ==
  proc' = [proc EXCEPT ![p].code = cleanup \o Bad(p, d), ![p].d = IF proc[p].op \in {"fork", "exec"} THEN 0 ELSE @]

Least(S) == CHOOSE x \in S : \A y \in S : x <= y

\* A round of the loop of deallocuvm() that frees a page.
Dealloc(p) ==
  /\ At(p, "dealloc")
  /\ LET d == Arg(p, 1)
         left == {pg \in Arg(p, 2)..Arg(p, 3) - 1 : Present(d, pg)}
         f == Pte(table, d, Least(left)).f
     IN IF left = {} THEN Done(p) /\ UNCHANGED <<freelist, word, table>>
        ELSE /\ Kfree(f)
             /\ table' = [SetPte(table, d, Least(left), None) EXCEPT ![f] = Filled]
             /\ Again(p, <<"dealloc", d, Least(left) + 1, Arg(p, 3)>>)
  /\ UNCHANGED <<image, world, panicked, oops>>

\* freevm() after deallocuvm(): a page table, in the end the page directory.
FreeTable(p) ==
  /\ At(p, "freevm")
  /\ LET d == Arg(p, 1)
         left == {e \in Entries : e >= Arg(p, 2) /\ table[d][e].f # 0}
         f == IF left = {} THEN d ELSE table[d][Least(left)].f
     IN /\ Kfree(f)
        /\ table' = [table EXCEPT ![f] = Filled]
        /\ IF left = {} THEN Done(p) ELSE Again(p, <<"freevm", d, Least(left) + 1>>)
  /\ UNCHANGED <<image, world, panicked, oops>>

FreeFrame(p) ==
  /\ At(p, "kfree")
  /\ Kfree(Arg(p, 1))
  /\ table' = [table EXCEPT ![Arg(p, 1)] = Filled]
  /\ Done(p) /\ UNCHANGED <<image, world, panicked, oops>>

\* memset(pgtab, 0, PGSIZE)
memset(t, f) == [t EXCEPT ![f] = Empty]

\* setupkvm(): the page directory, then a page table of the kernel.
Pgdir(p) ==
  /\ At(p, "pgdir")
  /\ freelist' = AfterKalloc
  /\ IF freelist = 0 THEN Fail(p, <<>>, 0) /\ UNCHANGED <<word, table>>
     ELSE /\ proc' = [proc EXCEPT ![p].code = Tail(@), ![p].d = freelist]
          /\ word' = [word EXCEPT ![freelist] = 0] /\ table' = memset(table, freelist)
  /\ UNCHANGED <<image, world, panicked, oops>>
Kmap(p) ==
  /\ At(p, "kmap")
  /\ freelist' = AfterKalloc
  /\ IF freelist = 0 THEN Fail(p, Freevm(proc[p].d), 0) /\ UNCHANGED <<word, table>>
     ELSE /\ Done(p)
          /\ word' = [word EXCEPT ![freelist] = 0]
          /\ table' = [memset(table, freelist) EXCEPT ![proc[p].d][Arg(p, 1)] = [f |-> freelist, u |-> TRUE]]
  /\ UNCHANGED <<image, world, panicked, oops>>

\* Mutant: the page the old size ends in counts as new.
FirstNew_Down(old) == old \div PGSIZE

\* The first page allocuvm() adds.
FirstNew(old) == PGROUNDUP(old) \div PGSIZE

\* allocuvm() of the call's page directory, from the size nsz to new.
Allocuvm(p) ==
  LET new == Arg(p, 1) old == proc[p].nsz
  IN /\ At(p, "allocuvm")
     /\ IF new >= KERNBASE \/ (new = 0 /\ old = 0) THEN Fail(p, <<>>, proc[p].d)
        ELSE IF new < old THEN Done(p)
        ELSE Again(p, <<"alloc", FirstNew(old), new>>)
     /\ UNCHANGED <<freelist, word, table, image, world, panicked, oops>>

\* Mutant: the page that could not be mapped is not freed.
Unmapped_Kept(p, f, new) == Deallocuvm(proc[p].d, new, proc[p].nsz)

\* The clean-up of allocuvm() when a page table is missing; f is the page.
Unmapped(p, f, new) == Deallocuvm(proc[p].d, new, proc[p].nsz) \o << <<"kfree", f>> >>

\* The loop of allocuvm(), up to mappages().
AllocPage(p) ==
  LET pg == Arg(p, 1) new == Arg(p, 2) d == proc[p].d
  IN /\ At(p, "alloc")
     /\ IF pg * PGSIZE >= new
        THEN proc' = [proc EXCEPT ![p].code = Tail(@), ![p].nsz = new] /\ UNCHANGED <<freelist, word>>
        ELSE IF freelist = 0
        THEN Fail(p, Deallocuvm(d, new, proc[p].nsz), d) /\ UNCHANGED <<freelist, word>>
        ELSE /\ freelist' = AfterKalloc /\ word' = [word EXCEPT ![freelist] = 0]
             /\ Do(p, << <<"map", pg, freelist, TRUE, Unmapped(p, freelist, new)>>, <<"alloc", pg + 1, new>> >>
                        \o Tail(Code(p)))
     /\ UNCHANGED <<table, image, world, panicked, oops>>

\* mappages() of one page, with walkpgdir() adding the page table.
MapPage(p) ==
  LET pg == Arg(p, 1) d == proc[p].d
      e == [f |-> Arg(p, 2), u |-> Arg(p, 3)]
      needed == Pgtab(table, d, pg) = 0
  IN /\ At(p, "map")
     /\ panicked' = (~needed /\ Present(d, pg))
     /\ freelist' = IF needed THEN AfterKalloc ELSE freelist
     /\ IF needed /\ freelist = 0
        THEN Fail(p, Arg(p, 4), IF proc[p].op = "fork" THEN 0 ELSE d) /\ UNCHANGED <<word, table>>
        ELSE /\ Done(p)
             /\ word' = IF needed THEN [word EXCEPT ![freelist] = 0] ELSE word
             /\ table' = SetPte(IF needed THEN [memset(table, freelist) EXCEPT ![d][pg \div NPTE] = [f |-> freelist, u |-> TRUE]]
                                ELSE table, d, pg, e)
     /\ UNCHANGED <<image, world, oops>>

\* Mutant: the child can use what its parent cannot.
Flags_User(e) == TRUE

\* PTE_FLAGS
Flags(e) == e.u

\* The loop of copyuvm(), up to mappages(); it panics at a page that is not present.
CopyPage(p) ==
  LET pg == Arg(p, 1) d == proc[p].d
      from == Pte(table, proc[p].pgdir, pg)
      bad == << <<"kfree", freelist>> >> \o Freevm(d)
      copying == pg * PGSIZE < proc[p].sz
  IN /\ At(p, "copy")
     /\ panicked' = (copying /\ (pg \notin Pages \/ from.f = 0))
     /\ IF ~copying \/ panicked' THEN Done(p) /\ UNCHANGED <<freelist, word>>
        ELSE IF freelist = 0 THEN Fail(p, Freevm(d), 0) /\ UNCHANGED <<freelist, word>>
        ELSE /\ freelist' = AfterKalloc /\ word' = [word EXCEPT ![freelist] = word[from.f]]
             /\ Do(p, << <<"map", pg, freelist, Flags(from), bad>>, <<"copy", pg + 1>> >> \o Tail(Code(p)))
     /\ UNCHANGED <<table, image, world, oops>>

-----------------------------------------------------------------------------
(* System calls, and what user code does. *)

Running(p) == ~panicked /\ proc[p].state = "RUN" /\ Code(p) = <<>>
HasText(p) == image[p][0] # Absent
Call(p) == Head(proc[p].program)
Calls(p, op) == Running(p) /\ HasText(p) /\ proc[p].program # <<>> /\ Call(p).op = op

Start(p, w, code) == proc' = [proc EXCEPT ![p] = [w EXCEPT !.code = code]]
Returned(w) == [w EXCEPT !.code = <<>>, !.program = Tail(@), !.op = "none", !.d = 0, !.nsz = 0, !.child = 0]
Wanted(p, r) == oops' = (oops \/ r \notin Call(p).want)
Return(p, w, r) == proc' = [proc EXCEPT ![p] = Returned(w)] /\ Wanted(p, r)
Memory == <<freelist, word, table>>

\* fork() with allocproc(): a slot, and a frame for the kernel stack.
SysFork(p) ==
  LET unused == {c \in Procs : proc[c].state = "UNUSED"}
      c == CHOOSE c \in unused : TRUE
  IN /\ Calls(p, "fork")
     /\ IF unused = {} \/ freelist = 0 THEN Return(p, proc[p], -1) /\ UNCHANGED <<freelist, word>>
        ELSE /\ freelist' = AfterKalloc /\ word' = [word EXCEPT ![freelist] = 0] /\ oops' = oops
             /\ proc' = [proc EXCEPT ![c].state = "EMBRYO", ![c].kstack = freelist,
                           ![p].op = "fork", ![p].child = c, ![p].code = Setupkvm \o << <<"copy", 0>>, <<"forked">> >>]
     /\ UNCHANGED <<table, image, world, panicked>>
Forked(p) ==
  LET c == proc[p].child
  IN /\ At(p, "forked")
     /\ proc' = [proc EXCEPT ![c] = [@ EXCEPT !.state = "RUN", !.pgdir = proc[p].d, !.sz = proc[p].sz, !.parent = p,
                                             !.program = Call(p).runs],
                             ![p] = Returned(@)]
     /\ Wanted(p, 0)
     /\ image' = [image EXCEPT ![c] = image[p]]
     /\ UNCHANGED <<Memory, world, panicked>>
ForkBad(p) ==
  LET c == proc[p].child
  IN /\ At(p, "forkbad")
     /\ Kfree(proc[c].kstack) /\ table' = [table EXCEPT ![proc[c].kstack] = Filled]
     /\ proc' = [proc EXCEPT ![c].state = "UNUSED", ![c].kstack = 0, ![p] = Returned(@)]
     /\ Wanted(p, -1)
     /\ UNCHANGED <<image, world, panicked>>

\* exec() to the check of the ELF header; the inode stays locked until the segments are read.
SysExec(p) ==
  LET call == Call(p)
      load == [k \in 1..Len(call.segs) |-> <<"seg", call.segs[k]>>]
  IN /\ Calls(p, "exec")
     /\ IF ~call.elf THEN Return(p, proc[p], -1)
        ELSE /\ oops' = oops
             /\ Start(p, [proc[p] EXCEPT !.op = "exec", !.nsz = 0],
                      Setupkvm \o load \o << <<"stack">>, <<"args">>, <<"commit">> >>)
     /\ UNCHANGED <<Memory, image, world, panicked>>

\* The tests on a program header.
Segment(p) ==
  LET ph == Arg(p, 1)
  IN /\ At(p, "seg")
     /\ IF ph.memsz < ph.filesz \/ (ph.vaddr + ph.memsz) % UINT < ph.vaddr THEN Fail(p, <<>>, proc[p].d)
        ELSE Do(p, << <<"allocuvm", (ph.vaddr + ph.memsz) % UINT>>, <<"load", ph>> >> \o Tail(Code(p)))
     /\ UNCHANGED <<Memory, image, world, panicked, oops>>

\* loaduvm(): the pages of the segment get what is in the file; it panics if one is missing.
Load(p) ==
  LET ph == Arg(p, 1) d == proc[p].d
      pages == {pg \in Pages : ph.vaddr <= pg * PGSIZE /\ pg * PGSIZE < ph.vaddr + ph.filesz}
      loaded == {Pte(table, d, pg).f : pg \in pages}
  IN /\ At(p, "load")
     /\ panicked' = (ph.vaddr % PGSIZE = 0 /\ 0 \in loaded)
     /\ IF ph.vaddr % PGSIZE # 0 \/ ph.short THEN Fail(p, <<>>, d) /\ word' = word
        ELSE Done(p) /\ word' = [f \in Frames |-> IF f \in loaded THEN Text ELSE word[f]]
     /\ UNCHANGED <<freelist, table, image, world, oops>>

\* The inode is put; the guard page and the stack come after the segments.
Stack(p) ==
  LET sz == PGROUNDUP(proc[p].nsz)
  IN /\ At(p, "stack")
     /\ proc' = [proc EXCEPT ![p].nsz = sz,
                             ![p].code = << <<"allocuvm", sz + 2 * PGSIZE>> >> \o Tail(@)]
     /\ UNCHANGED <<Memory, image, world, panicked, oops>>

\* uva2ka() and copyout(): every page of the range is present and the user's.
copyout(t, d, va, len) == \A a \in va..va + len - 1 : Pte(t, d, Page(a)).f # 0 /\ Pte(t, d, Page(a)).u

clearpteu(t, d, pg) == SetPte(t, d, pg, [Pte(t, d, pg) EXCEPT !.u = FALSE])

\* The arguments are copied below the top of the stack, then ustack, of one byte.
Args(p) ==
  LET sz == proc[p].nsz
      args == Call(p).args \o <<1>>
      guarded == clearpteu(table, proc[p].d, Page(sz) - 2)
      sp[n \in 0..Len(args)] == IF n = 0 THEN sz ELSE sp[n - 1] - args[n]
      ok == Len(args) - 1 <= MAXARG /\ \A n \in 1..Len(args) : copyout(guarded, proc[p].d, sp[n], args[n])
  IN /\ At(p, "args")
     /\ table' = guarded
     /\ IF ok THEN Done(p) ELSE Fail(p, <<>>, proc[p].d)
     /\ UNCHANGED <<freelist, word, image, world, panicked, oops>>

\* What the program finds in its memory: its text, zeros, a page it cannot use, and the stack.
Image(call, sz) ==
  [pg \in Pages |->
    IF pg >= Page(sz) THEN Absent ELSE IF pg = Page(sz) - 2 THEN Guard
    ELSE IF \E k \in 1..Len(call.segs) : call.segs[k].vaddr <= pg * PGSIZE
                                         /\ pg * PGSIZE < call.segs[k].vaddr + call.segs[k].filesz
    THEN Text ELSE 0]

\* The new image replaces the old one.
Commit(p) ==
  /\ At(p, "commit")
  /\ Start(p, [proc[p] EXCEPT !.pgdir = proc[p].d, !.sz = proc[p].nsz, !.d = 0],
           Freevm(proc[p].pgdir) \o << <<"ret", 0>> >>)
  /\ image' = [image EXCEPT ![p] = Image(Call(p), proc[p].nsz)]
  /\ UNCHANGED <<Memory, world, panicked, oops>>

\* The end of a call that returns r; exec() that fails still puts the inode if it has it.
Ret(p) ==
  /\ At(p, "ret") \/ At(p, "execbad")
  /\ Return(p, proc[p], IF At(p, "ret") THEN Arg(p, 1) ELSE -1)
  /\ UNCHANGED <<Memory, image, world, panicked>>

\* sys_sbrk() and growproc(); when nothing is left, deallocuvm() returns what means an error.
SysSbrk(p) ==
  LET sz == proc[p].sz
      new == (sz + Call(p).n) % UINT
      w == [proc[p] EXCEPT !.op = "sbrk", !.d = proc[p].pgdir, !.nsz = sz]
  IN /\ Calls(p, "sbrk")
     /\ IF Call(p).n > 0 THEN Start(p, w, << <<"allocuvm", new>>, <<"grown">> >>)
        ELSE IF new >= sz THEN Start(p, w, << <<"grown">> >>)
        ELSE Start(p, [w EXCEPT !.nsz = new],
                   Deallocuvm(proc[p].pgdir, sz, new) \o (IF new = 0 THEN << <<"gone">> >> ELSE << <<"grown">> >>))
     /\ UNCHANGED <<Memory, image, world, panicked, oops>>

\* The pages up to the size are there: the new ones are zero, the ones above are gone.
Grown(p) ==
  LET pages == Page(PGROUNDUP(proc[p].nsz))
  IN /\ At(p, "grown")
     /\ image' = [image EXCEPT ![p] = [pg \in Pages |->
          IF pg >= pages THEN Absent ELSE IF @[pg] = Absent /\ pg >= Page(PGROUNDUP(proc[p].sz)) THEN 0 ELSE @[pg]]]
     /\ Return(p, [proc[p] EXCEPT !.sz = proc[p].nsz], proc[p].sz)
     /\ UNCHANGED <<Memory, world, panicked>>
Gone(p) ==
  /\ At(p, "gone")
  /\ image' = [image EXCEPT ![p] = [pg \in Pages |-> Absent]]
  /\ Return(p, proc[p], -1)
  /\ UNCHANGED <<Memory, world, panicked>>

\* exit(): the memory stays until the parent waits; children go to the first process.
Exits(p) ==
  proc' = [q \in Procs |-> IF q = p THEN [proc[p] EXCEPT !.state = "ZOMBIE", !.program = <<>>, !.op = "none"]
                           ELSE IF proc[q].parent = p THEN [proc[q] EXCEPT !.parent = InitProc] ELSE proc[q]]
SysExit(p) ==
  /\ Calls(p, "exit") /\ Exits(p)
  /\ UNCHANGED <<Memory, image, world, panicked, oops>>

\* wait(): frees the kernel stack and the address space of a zombie.
SysWait(p) ==
  LET children == {c \in Procs : proc[c].parent = p}
  IN /\ Calls(p, "wait")
     /\ \/ \E c \in children :
             /\ proc[c].state = "ZOMBIE" /\ oops' = oops
             /\ proc' = [proc EXCEPT ![c].state = "REAPED", ![p].child = c,
                           ![p].code = << <<"kfree", proc[c].kstack>> >> \o Freevm(proc[c].pgdir) \o << <<"reaped">> >>]
        \/ children = {} /\ Return(p, proc[p], -1)
     /\ UNCHANGED <<Memory, image, world, panicked>>

\* The slot can be used again; its pgdir is not reset.
Reaped(p) ==
  /\ At(p, "reaped")
  /\ proc' = [proc EXCEPT ![proc[p].child] = [Slot EXCEPT !.pgdir = proc[proc[p].child].pgdir], ![p] = Returned(@)]
  /\ Wanted(p, 0)
  /\ UNCHANGED <<Memory, image, world, panicked>>

\* User code writes a word, to the first word of a page.
Store(p) ==
  LET pg == Page(Call(p).va) e == Pte(table, proc[p].pgdir, pg)
  IN /\ Calls(p, "store")
     /\ pg \in Pages /\ e.f # 0 /\ e.u
     /\ word' = [word EXCEPT ![e.f] = Call(p).v]
     /\ image' = [image EXCEPT ![p][pg] = Call(p).v]
     /\ Return(p, proc[p], 0)
     /\ UNCHANGED <<freelist, table, world, panicked>>
Faults(p) == Calls(p, "store") /\ (Page(Call(p).va) \notin Pages \/ View(proc[p].pgdir)[Page(Call(p).va)] \in {Absent, Guard})

\* trap(): a page fault of user code, or a process without code, is killed.
FaultKill(p) ==
  /\ ~world.lazy
  /\ Faults(p) \/ (Running(p) /\ ~HasText(p))
  /\ Exits(p)
  /\ UNCHANGED <<Memory, image, world, panicked, oops>>

\* trap() of lab 5: above the size it returns, to fault again; below, it allocates the page
\* and returns to the same instruction.
FaultAgain(p) ==
  /\ world.lazy /\ Faults(p) /\ Call(p).va >= proc[p].sz
  /\ UNCHANGED vars
FaultAlloc(p) ==
  LET vadown == Page(Call(p).va) * PGSIZE
  IN /\ world.lazy /\ Faults(p) /\ Call(p).va < proc[p].sz
     /\ Start(p, [proc[p] EXCEPT !.op = "fault", !.d = proc[p].pgdir, !.nsz = vadown],
              << <<"allocuvm", vadown + PGSIZE>>, <<"faulted">> >>)
     /\ UNCHANGED <<Memory, image, world, panicked, oops>>
Faulted(p) ==
  /\ At(p, "faulted")
  /\ image' = [image EXCEPT ![p][Page(Call(p).va)] = 0]
  /\ Start(p, [proc[p] EXCEPT !.op = "none", !.d = 0, !.nsz = 0], <<>>)
  /\ UNCHANGED <<Memory, world, panicked, oops>>

\* Mutant: any positive size will do.
MmapRefuses_Negative(n) == n <= 0

MmapRefuses(n) == n <= 0 \/ n % PGSIZE # 0

\* sys_mmap() of lab 5 only raises the size.
SysMmap(p) ==
  LET n == Call(p).n
  IN /\ Calls(p, "mmap")
     /\ IF MmapRefuses(n) THEN Return(p, proc[p], 0)
        ELSE Return(p, [proc[p] EXCEPT !.sz = @ + n], proc[p].sz)
     /\ UNCHANGED <<Memory, image, world, panicked>>

\* The calls of lab 5 that look at memory: getmeminfo() and freememstat().
count_physical_pages(d, sz) ==
  Cardinality({pg \in Pages : pg * PGSIZE < sz /\ Present(d, pg)})
page_table_size(d) == 1 + Cardinality({e \in Entries : table[d][e].f # 0})

\* The list is followed from its first frame, which is not counted.  (The code reads that
\* frame before it takes the lock, and there must be one.)
count_free_pages ==
  LET r[n \in Nat] == IF n = 0 THEN freelist ELSE word[r[n - 1]]
  IN CHOOSE n \in 0..NFRAMES : word[r[n]] = 0 /\ \A k \in 0..n - 1 : word[r[k]] # 0

SysMeminfo(p) ==
  /\ Calls(p, "meminfo")
  /\ Return(p, proc[p], IF Call(p).of = "physical" THEN count_physical_pages(proc[p].pgdir, proc[p].sz)
                        ELSE IF Call(p).of = "tables" THEN page_table_size(proc[p].pgdir) ELSE count_free_pages)
  /\ UNCHANGED <<Memory, image, world, panicked>>

Next == \E p \in Procs :
  \/ Dealloc(p) \/ FreeTable(p) \/ FreeFrame(p) \/ Pgdir(p) \/ Kmap(p)
  \/ Allocuvm(p) \/ AllocPage(p) \/ MapPage(p) \/ CopyPage(p)
  \/ SysFork(p) \/ Forked(p) \/ ForkBad(p)
  \/ SysExec(p) \/ Segment(p) \/ Load(p) \/ Stack(p) \/ Args(p) \/ Commit(p) \/ Ret(p)
  \/ SysSbrk(p) \/ Grown(p) \/ Gone(p) \/ SysExit(p) \/ SysWait(p) \/ Reaped(p)
  \/ Store(p) \/ FaultKill(p) \/ FaultAgain(p) \/ FaultAlloc(p) \/ Faulted(p)
  \/ SysMmap(p) \/ SysMeminfo(p)

Spec == Init /\ [][Next]_vars

\* All programs have ended, or the kernel panicked.
Finished == panicked \/ \A p \in Procs : proc[p].state \in {"UNUSED", "ZOMBIE"} \/ (Running(p) /\ proc[p].program = <<>>)

-----------------------------------------------------------------------------
\* The places of frames: the list of free frames, ...
FreePlaces ==
  LET list[n \in 0..NFRAMES] ==
        IF n = 0 THEN freelist ELSE LET f == list[n - 1] IN IF f \in Frames THEN word[f] ELSE 0
  IN {<<"free", 0, n, list[n]>> : n \in 0..NFRAMES}
\* ... the parts of an address space, of which the page tables before entry i have been freed, ...
SpacePlaces(d, i) ==
  {<<"pgdir", d, 0, d>>}
    \cup {<<"table", d, e, table[d][e].f>> : e \in {e \in Entries : e >= i}}
    \cup {<<"page", d, pg, Pte(table, d, pg).f>> : pg \in {pg \in Pages : pg \div NPTE >= i /\ Present(d, pg)}}
\* ... and what a process has in hand.
HandPlaces(p) ==
  LET code == Code(p)
      own == proc[p].state \in {"RUN", "ZOMBIE"}
      tasks(step) == {k \in 1..Len(code) : code[k][1] = step}
  IN (IF own \/ proc[p].state = "EMBRYO" THEN {<<"kstack", p, 0, proc[p].kstack>>} ELSE {})
     \cup (IF own THEN SpacePlaces(proc[p].pgdir, 0) ELSE {})
     \cup (IF proc[p].op \in {"fork", "exec"} /\ proc[p].d # 0 THEN SpacePlaces(proc[p].d, 0) ELSE {})
     \cup {<<"hand", p, k, code[k][2]>> : k \in tasks("kfree")}
     \cup {<<"hand", p, k, code[k][3]>> : k \in tasks("map")}
     \cup UNION {SpacePlaces(code[k][2], code[k][3]) : k \in tasks("freevm")}
Places == FreePlaces \cup UNION {HandPlaces(p) : p \in Procs}

\* kalloc, kfree and every path that fails half-way: at any moment each frame is in exactly
\* one place, so none is lost, freed twice, or shared by two address spaces.
FramesOwned ==
  LET places == {x \in Places : x[4] \in Frames}
  IN panicked \/ ({x[4] : x \in places} = 1..world.frames /\ Cardinality(places) = world.frames)

\* What a process finds in its memory is what it wrote there, zeros in new memory, or what
\* its parent or the program file had: no other process's pages, no junk from kfree(), and
\* nothing is changed by a fork, exec or sbrk that fails.
MemoryIsolated ==
  \A p \in Procs : Running(p) => View(proc[p].pgdir) = image[p]

\* The pages up to the size of a process are there and no others, so that fork can copy
\* them all; with lazy allocation, no others.  A process that gave up all of its memory
\* keeps its size, but has no code left to run.
SizeExact ==
  \A p \in Procs : Running(p) /\ HasText(p) =>
    LET present == {pg \in Pages : Present(proc[p].pgdir, pg)}
        below == {pg \in Pages : pg * PGSIZE < proc[p].sz}
    IN present \subseteq below /\ (~world.lazy => present = below)

\* No call reaches a panic of vm.c: no page is mapped twice and none is missing; the kernel
\* of lab 5 panics in fork when a page that was mapped but never used is to be copied, and
\* when the page under the stack is used.
PanicsOnlyLazy ==
  panicked => /\ world.lazy
              /\ \E p \in Procs :
                   \/ proc[p].op = "fork" /\ Absent \in {image[p][pg] : pg \in {pg \in Pages : pg * PGSIZE < proc[p].sz}}
                   \/ proc[p].op = "fault" /\ image[p][Page(Call(p).va)] = Guard

\* What the tests demand of each call, they get.
ProgramsSatisfied == ~oops
=============================================================================
