-------------------------------- MODULE MCVm --------------------------------
(* Vm with the programs of usertests and of lab 5, and, in the behaviours where *)
(* nothing happens there, the allocator of the user programs.                   *)
EXTENDS Vm, MemTests

CONSTANTS Top, MinUnits, HeaderSize, Sizes

VARIABLES s, freep, break, blocks, cores

H == INSTANCE Heap
heap == <<s, freep, break, blocks, cores>>

With(lazy, frames, runs) == [lazy |-> lazy, frames |-> frames, runs |-> runs]

\* A program whose segments exec refuses, one by one, and then one it takes.
Strange ==
  << [exec(echo, <<>>, {-1}) EXCEPT !.elf = FALSE],
     exec(<< [seg(0, 1, 1) EXCEPT !.filesz = PageSize + 1] >>, <<>>, {-1}),
     exec(<< [seg(0, 1, 1) EXCEPT !.vaddr = UINT - 1] >>, <<>>, {-1}),
     exec(<< [seg(0, 1, 1) EXCEPT !.vaddr = 1] >>, <<>>, {-1}),
     exec(<< [seg(0, 1, 1) EXCEPT !.short = TRUE] >>, <<>>, {-1}),
     exec(<< seg(0, 0, 0) >>, <<>>, {-1}), exec(<< seg(0, 6, 1) >>, <<>>, {-1}),
     exec(echo, <<1, 1, 1>>, {-1}),
     exec(<< seg(0, 2, 1), seg(PageSize, 1, 1), seg(0, 1, 0) >>, <<1>>, {0}) >>

\* init has one page and echo three: its text, the page under the stack, and the stack.
\* The number of frames runs from what the first process needs, so that every allocation
\* of a test is once the one that fails.
Scarce == 7..NFRAMES
MCWorlds ==
  {With(FALSE, n, forktest(3)) : n \in Scarce}
  \cup {With(FALSE, n, << fork(<< exec(echo, <<1>>, Any), sbrk(1, Any), exit >>, Any), sbrk(2 * PageSize, Any),
                          store(PageSize, -3), reap >>) : n \in Scarce}
  \cup {With(FALSE, n, sbrkOut(PageSize, 5 * PageSize - 1)) : n \in 11..NFRAMES}
  \cup {With(FALSE, NFRAMES, t) : t \in
          {exitwait(2), bigargtest, Strange, exectest \o bsstest,
           sbrkSmall(PageSize), exectest \o sbrkBig(3 * PageSize),
           << fork(<< sbrk(-PageSize, {-1}) >>, Ok), wait, nomore >>,
           << fork(<< fork(<< exit >>, Ok), exit >>, Ok), wait, wait >>,
           << sbrk(PageSize + 1, {PageSize}), store(PageSize, -2), sbrk(-PageSize, {2 * PageSize + 1}) >>,
           << sbrk(-2 * PageSize, {PageSize}), store(0, -2) >>,
           exectest \o << fork(<< store(PageSize, -2) >>, Ok), wait >>}}
  \cup {With(TRUE, NFRAMES, exectest \o t) : t \in
          {testmmap(3), testmeminfo2(3), freememtestcase(3, 11),
           << mmap(PageSize, {3 * PageSize}), fork(<< exit >>, Any) >>,
           << mmap(PageSize, {3 * PageSize}), sbrk(1, {4 * PageSize}), sbrk(-1 - PageSize, {4 * PageSize + 1}),
              fork(<< exit >>, Ok), wait >>,
           << store(PageSize, -2) >>, << store(3 * PageSize, -2) >>}}
  \cup {With(TRUE, 16, exectest \o << mmap(2 * PageSize, {3 * PageSize}), store(3 * PageSize, -2), store(4 * PageSize, -2) >>)}
  \cup {With(FALSE, 6, <<>>)}

InHeap == world.frames = 6
MCInit == Init /\ H!Init
MCNext ==
  \/ ~InHeap /\ Next /\ UNCHANGED heap
  \/ InHeap /\ H!Next /\ UNCHANGED vars
MCSpec == MCInit /\ [][MCNext]_<<vars, heap>>

\* umalloc.c: the free list and the blocks that the program holds share out the heap, and free
\* blocks that are next to each other are one.
HeapExact == H!HeapExact
=============================================================================
