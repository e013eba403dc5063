-------------------------------- MODULE MCFs --------------------------------
EXTENDS Fs, UserTests

\* The disk mkfs leaves: the root and three programs.
MCDisk ==
  [i \in Inums |->
    IF i = ROOTINO THEN Dir(1, 1, 1, <<Dirent("cat", 2), Dirent("README", 3), Dirent("echo", 4)>>)
    ELSE IF i \in 2..4 THEN [type |-> "file", nlink |-> 1, data |-> <<>>] ELSE Free]

MCLong == [n \in {"n15"} |-> "n14"]

Tests == {iputtest, exitiputtest, openiputtest, opentest, writetest, createtest, dirtest,
          sharedfd, fourfiles, createdelete, unlinkread, linktest, concreate,
          bigdir, subdir, fourteen, rmdot, dirfile, iref}

\* Two processes at work on a directory d that one of them may remove.
DiskWithD ==
  [MCDisk EXCEPT ![1] = Dir(1, 1, 2, <<Dirent("cat", 2), Dirent("d", 5)>>),
                 ![3] = Free, ![4] = Free, ![5] = Dir(5, 1, 1, <<>>)]
Inside == anyof({<<try(create(<<"d", "x">>, "rw"))>>, <<try(mkdir(<<"d", "y">>))>>,
                 <<try([mkdir(<<"d", "z">>) EXCEPT !.sys = "mknod"])>>,
                 <<try(link(<<"cat">>, <<"d", "x">>))>>, <<try(chdir(<<"d">>))>>,
                 <<try(open(<<"d">>, "r"))>>, <<try([close EXCEPT !.sys = "dup"])>>, <<close>>,
                 <<try([close EXCEPT !.sys = "fstat"])>>})
Outside == anyof({<<try(unlink(<<"d">>))>>, <<try(unlink(<<"cat">>))>>,
                  <<try(open(<<"d", ".">>, "r"))>>, <<try(open(<<"d", "x">>, "r"))>>,
                  <<try(link(<<"d", "x">>, <<"w">>))>>})
MCWorlds ==
  {[disk |-> MCDisk, runs |-> [p \in {Main} |-> t]] : t \in Tests}
  \cup {[disk |-> DiskWithD, runs |-> [p \in {Main, Child1} |->
            IF p = Main THEN <<Inside, Inside>> ELSE <<Outside>>]]}

\* The test that looks for deadlocks, and one that opens a directory while it is removed.
MCLinkUnlink == {[disk |-> MCDisk, runs |-> [p \in {Main} |-> linkunlink]]}
MCOpenIput == {[disk |-> MCDisk, runs |-> [p \in {Main} |-> openiputtest]]}
=============================================================================
