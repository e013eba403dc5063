------------------------------- MODULE MCFiles -------------------------------
(* Fs and Blocks side by side: in every behaviour one of them has programs to  *)
(* run and the other is idle.                                                  *)
EXTENDS MCFs

CONSTANTS NDIRECT, BSIZE, META, SIZE, BPB, MAXOPBLOCKS, UINT

VARIABLES bitmap, block, inode, contents, writer, outOfBlocks

Writers == {Main, Child1}

On(f, r, g, s) == [file |-> [p \in Writers |-> IF p = Main THEN f ELSE g],
                   runs |-> [p \in Writers |-> IF p = Main THEN r ELSE s]]
Refused(call) == [call EXCEPT !.want = {-1}]

\* The tests for large files next to another writer; two writers of one file, and a write
\* that does not fit in a file; two files that together need more blocks than there are.
Layouts ==
  { On("f", <<>>, "g", <<>>),
    On("f", writetest1(NDIRECT + BSIZE, BSIZE), "g", <<>>),
    On("f", bigwrite(<<1, 3, 2>>), "g", bigfile(2, 2)),
    On("f", bigfile(2, 3), "g", <<fwrite(1, 5), fwrite(3, 6)>>),
    On("f", <<fwrite(5, 1), reopen, fwrite(1, 2)>>, "f", <<fwrite(3, 3), fwrite(3, 4), Refused(fwrite(3, 2))>>),
    On("f", fsfull(3, 2), "g", fsfull(6, 1)) }

B == INSTANCE Blocks
bvars == <<bitmap, block, inode, contents, writer, outOfBlocks>>

NoWorld == [disk |-> MCDisk, runs |-> [p \in {} |-> <<>>]]
MCFilesWorlds == MCWorlds \cup {NoWorld}
WorldEmpty == \A p \in Procs : proc[p].program = <<>>
LayoutEmpty == \A p \in Writers : writer[p].program = <<>>

MCInit == Init /\ B!Init /\ (WorldEmpty \/ LayoutEmpty)
MCNext ==
  \/ Next /\ (LayoutEmpty \/ B!Finished) /\ UNCHANGED bvars
  \/ B!Next /\ UNCHANGED vars
MCSpec == MCInit /\ [][MCNext]_<<vars, bvars>>

\* balloc, bfree, bmap and itrunc: each block of a file is in no other place and marked in
\* use, and no block is marked that is in no file.
BitmapExact == B!BitmapExact
\* readi returns for any range what writei put there.
ReadExact == B!ReadExact
\* The kernel reaches none of its panics over names and inodes, and not log_write's "too big a
\* transaction": a chunk of filewrite writes no more blocks than a transaction may.
NeverPanics == NoPanic /\ B!ChunkFits
\* Every call of a user program returns what the program wants: those on names and links, and
\* every write of writetest1, bigwrite and bigfile, which is whole and none past MAXFILE.
AllSatisfied == ProgramsSatisfied /\ B!WritesAsExpected
=============================================================================
