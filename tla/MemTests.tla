------------------------------ MODULE MemTests ------------------------------
(***************************************************************************)
(* The tests of memory in usertests.c and those of lab 5 as programs of    *)
(* module Vm.  A page is PageSize bytes and memory a few pages; loops that   *)
(* exhaust memory are cut to the rounds that suffice for that.             *)
(***************************************************************************)
EXTENDS Integers, Sequences

CONSTANT PageSize   \* PGSIZE

Ok == 0..99
Any == -1..99

sbrk(n, want) == [op |-> "sbrk", n |-> n, want |-> want]
mmap(n, want) == [op |-> "mmap", n |-> n, want |-> want]
store(va, v) == [op |-> "store", va |-> va, v |-> v, want |-> Ok]
fork(runs, want) == [op |-> "fork", runs |-> runs, want |-> want]
meminfo(of, want) == [op |-> "meminfo", of |-> of, want |-> want]
wait == [op |-> "wait", want |-> Ok]
nomore == [op |-> "wait", want |-> {-1}]
exit == [op |-> "exit", want |-> Any]
reap == [op |-> "wait", want |-> Any]

\* An ELF segment of a program: n pages from va on, of which the first m are in the file.
seg(va, n, m) == [vaddr |-> va, memsz |-> n * PageSize, filesz |-> m * PageSize, short |-> FALSE]
exec(segs, args, want) == [op |-> "exec", elf |-> TRUE, segs |-> segs, args |-> args, want |-> want]
echo == << seg(0, 1, 1) >>

\* Memory is used up by the processes of n forks.
forktest(n) == [k \in 1..n |-> fork(<< exit >>, Any)] \o [k \in 1..n |-> reap] \o << nomore >>

exitwait(n) == [k \in 1..2 * n |-> IF k % 2 = 1 THEN fork(<< exit >>, Ok) ELSE wait]

\* The parts of sbrktest from a size of a pages on: less than a page, with a fork; grow, give
\* back a page and take it again; and children that may not get what they
\* ask for (here they exit, where the test kills them, and come one by one).
sbrkSmall(a) ==
  << sbrk(0, {a}), sbrk(1, {a}), store(a, -2), sbrk(1, {a + 1}),
     fork(<< sbrk(1, {a + 2}), sbrk(1, {a + 3}), exit >>, Ok), sbrk(1, {a + 2}), sbrk(1, {a + 3}), wait >>
sbrkBig(a) ==
  << sbrk(2 * PageSize, {a}), store(a + PageSize, -2), sbrk(-PageSize, {a + 2 * PageSize}), sbrk(0, {a + PageSize}),
     sbrk(PageSize, {a + PageSize}), sbrk(-2 * PageSize, {a + 2 * PageSize}), store(a, -2) >>
sbrkOut(a, big) ==
  << fork(<< sbrk(big, Any), exit >>, Any), reap, fork(<< sbrk(big, Any), exit >>, Any), reap,
     sbrk(PageSize, {a}) >>

\* Zeroed memory after the text; the image is what exec leaves.
bsstest == << exec(<< seg(0, 2, 1) >>, <<1>>, {0}) >>

\* The arguments do not fit in the stack: exec fails, and the child goes on.
bigargtest == << fork(<< exec(echo, << PageSize - 1, PageSize >>, {-1}), exit >>, Ok), wait >>

exectest == << exec(echo, <<1, 1>>, {0}) >>

\* The tests of lab 5, from a size of a pages on.
testmmap(a) ==
  << meminfo("physical", {a}), mmap(-1234, {0}), mmap(1, {0}), mmap(PageSize, {a * PageSize}),
     meminfo("physical", {a}), store(a * PageSize, -2), meminfo("physical", {a + 1}),
     mmap(2 * PageSize, {(a + 1) * PageSize}), meminfo("physical", {a + 1}),
     store((a + 1) * PageSize, -2), meminfo("physical", {a + 2}),
     store((a + 2) * PageSize + 1, -2), meminfo("physical", {a + 3}) >>
testmeminfo2(a) ==
  << meminfo("physical", {a}), meminfo("tables", Ok), sbrk(2 * PageSize, {a * PageSize}),
     meminfo("physical", {a + 2}), meminfo("tables", Ok) >>
freememtestcase(a, free) ==
  << meminfo("free", {free}), sbrk(PageSize, {a * PageSize}), meminfo("free", {free - 1}) >>
=============================================================================
