----------------------------- MODULE UserTests -----------------------------
(***************************************************************************)
(* The file system tests of usertests.c as programs of module Fs.  A call  *)
(* wants a result at which the test does not complain: 0 or more, -1, one  *)
(* number, or any where the test ignores the result.  Module Fs runs the   *)
(* processes of a test in every order of their steps; the kernel runs one. *)
(* Loops are cut to the rounds the constants name, and buffers to a few    *)
(* bytes.                                                                  *)
(***************************************************************************)
EXTENDS Integers, Sequences

CONSTANTS Main, Child1, Child2,   \* the processes
          Rounds,                 \* rounds of the loops that repeat one call
          IrefRounds              \* NINODE + 1, as in the test

Ok == 0..9       \* no descriptor or count of bytes is larger
Any == -1..9

Rel(names) == [abs |-> FALSE, names |-> names]
Abs(names) == [abs |-> TRUE, names |-> names]

OnPath(sys, names) == [sys |-> sys, path |-> Rel(names), want |-> Ok]
mkdir(names) == OnPath("mkdir", names)
chdir(names) == OnPath("chdir", names)
unlink(names) == OnPath("unlink", names)
link(old, new) == [sys |-> "link", path |-> Rel(old), new |-> Rel(new), want |-> Ok]
open(names, mode) == [sys |-> "open", path |-> Rel(names), mode |-> mode, var |-> "fd", want |-> Ok]
create(names, mode) == [open(names, mode) EXCEPT !.sys = "create"]
close == [sys |-> "close", fd |-> "fd", want |-> Any]
write(bytes) == [sys |-> "write", fd |-> "fd", bytes |-> bytes, want |-> {Len(bytes)}]
read(n, want, bytes) == [sys |-> "read", fd |-> "fd", n |-> n, bytes |-> bytes, want |-> {want}]
fork(p, program) == [sys |-> "fork", child |-> p, runs |-> program, want |-> Ok]
wait == [sys |-> "wait", want |-> Any]
exit == [sys |-> "exit", want |-> Any]
fails(call) == [call EXCEPT !.want = {-1}]
try(call) == [call EXCEPT !.want = Any]
chdirRoot == [chdir(<<>>) EXCEPT !.path = Abs(<<>>)]
anyof(programs) == [sys |-> "any", of |-> programs]

\* n rounds of a program.
repeat(n, body) == [k \in 1..n * Len(body) |-> body[((k - 1) % Len(body)) + 1]]

iputtest == << mkdir(<<"iputdir">>), chdir(<<"iputdir">>), unlink(<<"..", "iputdir">>), chdirRoot >>

exitiputtest ==
  << fork(Child1, << mkdir(<<"iputdir">>), chdir(<<"iputdir">>),
                     unlink(<<"..", "iputdir">>), exit >>),
     wait >>

openiputtest ==
  << mkdir(<<"oidir">>),
     fork(Child1, << fails(open(<<"oidir">>, "rw")), exit >>),
     unlink(<<"oidir">>), wait >>

opentest == << open(<<"echo">>, "r"), close, fails(open(<<"doesnotexist">>, "r")) >>

writetest ==
  << create(<<"small">>, "rw") >> \o repeat(Rounds, << write(<<"a">>), write(<<"b">>) >>)
  \o << close, open(<<"small">>, "r"), read(2 * Rounds, 2 * Rounds, {"a", "b"}), close,
        unlink(<<"small">>) >>

createtest ==
  << try(create(<<"a0">>, "rw")), close, try(create(<<"a1">>, "rw")), close,
     try(unlink(<<"a0">>)), try(unlink(<<"a1">>)) >>

dirtest == << mkdir(<<"dir0">>), chdir(<<"dir0">>), chdir(<<"..">>), unlink(<<"dir0">>) >>

\* Both processes write through one descriptor; no byte may be lost.
sharedfd ==
  << try(unlink(<<"sharedfd">>)), create(<<"sharedfd">>, "rw"),
     fork(Child1, repeat(Rounds, << write(<<"c">>) >>) \o << exit >>) >>
  \o repeat(Rounds, << write(<<"p">>) >>)
  \o << wait, close, open(<<"sharedfd">>, "r"), read(4 * Rounds, 2 * Rounds, {"c", "p"}), close,
        try(unlink(<<"sharedfd">>)) >>

\* Processes write different files at the same time.
fourfiles ==
  LET writer(name, c) == << create(<<name>>, "rw"), write(<<c, c>>), exit >>
      reader(name, c) == << open(<<name>>, "r"), read(4, 2, {c}), close,
                            try(unlink(<<name>>)) >>
  IN << try(unlink(<<"f0">>)), fork(Child1, writer("f0", "0")),
        try(unlink(<<"f1">>)), fork(Child2, writer("f1", "1")), wait, wait >>
     \o reader("f0", "0") \o reader("f1", "1")

\* A process creates its names 0, 1 and 2 and removes name 1 (N = 3), another one
\* creates its name 0 (N = 1).
createdelete ==
  LET body(n0, n1, n2) == << create(<<n0>>, "rw"), close, create(<<n1>>, "rw"), close,
                             create(<<n2>>, "rw"), close, unlink(<<n1>>), exit >>
      there(n) == << open(<<n>>, "r"), close >>
      gone(n) == << fails(open(<<n>>, "r")) >>
  IN << fork(Child1, body("p0", "p1", "p2")),
        fork(Child2, << create(<<"q0">>, "rw"), close, exit >>), wait, wait >>
     \o there("p0") \o there("q0") \o gone("p1") \o gone("q1") \o there("p2")
     \o << try(unlink(<<"p0">>)), try(unlink(<<"q1">>)) >>

unlinkread ==
  LET fd1(call) == IF "var" \in DOMAIN call THEN [call EXCEPT !.var = "fd1"]
                   ELSE [call EXCEPT !.fd = "fd1"]
  IN << create(<<"unlinkread">>, "rw"), try(write(<<"h", "o">>)), close,
        open(<<"unlinkread">>, "rw"), unlink(<<"unlinkread">>),
        fd1(try(create(<<"unlinkread">>, "rw"))), fd1(try(write(<<"y">>))), fd1(close),
        read(4, 2, {"h", "o"}), write(<<"h", "o", "h">>), close, try(unlink(<<"unlinkread">>)) >>

linktest ==
  << try(unlink(<<"lf1">>)), try(unlink(<<"lf2">>)), create(<<"lf1">>, "rw"), write(<<"h", "o">>),
     close, link(<<"lf1">>, <<"lf2">>), try(unlink(<<"lf1">>)), fails(open(<<"lf1">>, "r")),
     open(<<"lf2">>, "r"), read(4, 2, {"h", "o"}), close, fails(link(<<"lf2">>, <<"lf2">>)),
     try(unlink(<<"lf2">>)), fails(link(<<"lf2">>, <<"lf1">>)), fails(link(<<".">>, <<"lf1">>)) >>

\* Parent and child create or link one name at the same time, then open and remove it.
\* The listing of "." finds each name once: opening works, and once unlinked, fails.
concreate ==
  LET make(n) == << create(<<n>>, "rw"), close >>
      both(n, mine, its) ==
        << try(unlink(<<n>>)), fork(Child1, its \o << exit >>) >> \o mine \o << wait >>
      linkC0(n) == << try(link(<<"C0">>, <<n>>)) >>
      opens(n) == << try(open(<<n>>, "r")), close >>
      unlinks(n) == << try(unlink(<<n>>)), try(unlink(<<n>>)) >>
      listed(n) == << open(<<n>>, "r"), close >>
      clash(n, mine, its) == << fork(Child1, its \o << exit >>) >> \o mine \o << wait >>
  IN both("C0", make("C0"), make("C0")) \o both("C1", linkC0("C1"), linkC0("C1"))
     \o listed("C0") \o listed("C1")
     \o clash("C0", unlinks("C0"), opens("C0")) \o clash("C1", opens("C1"), unlinks("C1"))
     \o << fails(open(<<"C0">>, "r")), fails(open(<<"C1">>, "r")) >>

\* The rounds take any of the three branches: the test's generator picks one of them.
linkunlink ==
  LET x == anyof({<< try(create(<<"x">>, "rw")), close >>,
                   << try(link(<<"cat">>, <<"x">>)) >>, << try(unlink(<<"x">>)) >>})
  IN << try(unlink(<<"x">>)), fork(Child1, repeat(Rounds, << x >>) \o << exit >>) >>
     \o repeat(Rounds, << x >>) \o << wait >>

bigdir ==
  << try(unlink(<<"bd">>)), create(<<"bd">>, "r"), close,
     link(<<"bd">>, <<"x0">>), link(<<"bd">>, <<"x1">>), try(unlink(<<"bd">>)),
     unlink(<<"x0">>), unlink(<<"x1">>) >>

subdir ==
  << try(unlink(<<"ff">>)), mkdir(<<"dd">>),
     create(<<"dd", "ff">>, "rw"), try(write(<<"f", "f">>)), close, fails(unlink(<<"dd">>)),
     [mkdir(<<>>) EXCEPT !.path = Abs(<<"dd", "dd">>)],
     create(<<"dd", "dd", "ff">>, "rw"), try(write(<<"F", "F">>)), close,
     open(<<"dd", "dd", "..", "ff">>, "r"), read(4, 2, {"f"}), close,
     link(<<"dd", "dd", "ff">>, <<"dd", "dd", "ffff">>), unlink(<<"dd", "dd", "ff">>),
     fails(open(<<"dd", "dd", "ff">>, "r")),
     chdir(<<"dd">>), chdir(<<"dd", "..", "..", "dd">>),
     chdir(<<"dd", "..", "..", "..", "dd">>), chdir(<<".", "..">>),
     open(<<"dd", "dd", "ffff">>, "r"), read(4, 2, {"F"}), close,
     fails(open(<<"dd", "dd", "ff">>, "r")),
     fails(create(<<"dd", "ff", "ff">>, "rw")), fails(create(<<"dd", "xx", "ff">>, "rw")),
     fails(create(<<"dd">>, "r")), fails(open(<<"dd">>, "rw")), fails(open(<<"dd">>, "w")),
     fails(link(<<"dd", "ff", "ff">>, <<"dd", "dd", "xx">>)),
     fails(link(<<"dd", "xx", "ff">>, <<"dd", "dd", "xx">>)),
     fails(link(<<"dd", "ff">>, <<"dd", "dd", "ffff">>)),
     fails(mkdir(<<"dd", "ff", "ff">>)), fails(mkdir(<<"dd", "xx", "ff">>)),
     fails(mkdir(<<"dd", "dd", "ffff">>)),
     fails(unlink(<<"dd", "xx", "ff">>)), fails(unlink(<<"dd", "ff", "ff">>)),
     fails(chdir(<<"dd", "ff">>)), fails(chdir(<<"dd", "xx">>)),
     unlink(<<"dd", "dd", "ffff">>), unlink(<<"dd", "ff">>), fails(unlink(<<"dd">>)),
     unlink(<<"dd", "dd">>), unlink(<<"dd">>) >>

\* n14 and n15 are the names of 14 and of 15 characters.
fourteen ==
  << mkdir(<<"n14">>), mkdir(<<"n14", "n15">>),
     create(<<"n15", "n15", "n15">>, "r"), close, open(<<"n14", "n14", "n14">>, "r"), close,
     fails(mkdir(<<"n14", "n14">>)), fails(mkdir(<<"n15", "n14">>)) >>

rmdot ==
  << mkdir(<<"dots">>), chdir(<<"dots">>), fails(unlink(<<".">>)), fails(unlink(<<"..">>)),
     chdirRoot, fails(unlink(<<"dots", ".">>)), fails(unlink(<<"dots", "..">>)),
     unlink(<<"dots">>) >>

dirfile ==
  << create(<<"dirfile">>, "r"), close, fails(chdir(<<"dirfile">>)),
     fails(open(<<"dirfile", "xx">>, "r")), fails(create(<<"dirfile", "xx">>, "r")),
     fails(mkdir(<<"dirfile", "xx">>)), fails(unlink(<<"dirfile", "xx">>)),
     fails(link(<<"README">>, <<"dirfile", "xx">>)), unlink(<<"dirfile">>),
     fails(open(<<".">>, "rw")), try(open(<<".">>, "r")), fails(write(<<"x">>)), close >>

\* A round goes one directory deeper: none of the calls with an empty name keeps an inode.
iref ==
  repeat(IrefRounds, << mkdir(<<"irefd">>), chdir(<<"irefd">>), try(mkdir(<<>>)),
                        try(link(<<"README">>, <<>>)), try(create(<<>>, "r")), close,
                        try(create(<<"xx">>, "r")), close, try(unlink(<<"xx">>)) >>)
  \o << chdirRoot >>
\* The tests below run on one file, the programs of module Blocks; their files are cut to
\* the blocks of that module, and what they read back is for its ReadExact.
fwrite(n, byte) == [op |-> "write", n |-> n, byte |-> byte, want |-> {n}]
reopen == [op |-> "open", want |-> Ok]
remove == [op |-> "unlink", want |-> Ok]

writetest1(maxfile, bsize) ==
  [i \in 1..maxfile |-> fwrite(bsize, i)] \o << reopen, remove >>

\* The sizes are no multiples of a block, and reach past the direct blocks.
bigwrite(sizes) ==
  LET round(sz) == << fwrite(sz, 1), fwrite(sz, 2), remove >>
  IN [k \in 1..3 * Len(sizes) |-> round(sizes[((k - 1) \div 3) + 1])[((k - 1) % 3) + 1]]

bigfile(rounds, sz) ==
  [i \in 1..rounds |-> fwrite(sz, i)] \o << reopen, remove >>

\* Writes until there are no blocks left.
fsfull(writes, n) == [i \in 1..writes |-> fwrite(n, i)]
=============================================================================
