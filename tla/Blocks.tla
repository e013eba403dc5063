------------------------------- MODULE Blocks -------------------------------
(***************************************************************************)
(* How the contents of a file is laid out in disk blocks (fs.c: balloc,    *)
(* bfree, bmap, itrunc, readi, writei) and written in pieces that fit a    *)
(* transaction (file.c: filewrite), by processes that write at the same    *)
(* time.  A block is BSIZE words; a word is a byte of a file, or an entry  *)
(* of an indirect block, so NINDIRECT = BSIZE.  A process runs a program   *)
(* of calls on one open file; module Fs has the names and descriptors.     *)
(***************************************************************************)
EXTENDS Integers, Sequences, FiniteSets

CONSTANTS Writers,      \* processes
          NDIRECT, BSIZE,
          META, SIZE,   \* the data blocks are META..SIZE - 1; block 0 is in no file
          BPB,          \* bits (so blocks) per bitmap block
          MAXOPBLOCKS,  \* the most blocks a transaction may write
          UINT,         \* offsets are computed modulo UINT
          Layouts       \* {[file: writer -> file, runs: writer -> program]}

NINDIRECT == BSIZE
MAXFILE == NDIRECT + NINDIRECT
Data == META..SIZE - 1
Words == 0..BSIZE - 1
FileNames == {"f", "g"}

VARIABLES bitmap,    \* the blocks marked in use
          block,     \* block -> its words
          inode,     \* file -> addrs, size, locked
          contents,  \* file -> what was written to it, as a sequence of bytes
          writer,    \* process -> its call, and the blocks its transaction wrote
          outOfBlocks

vars == <<bitmap, block, inode, contents, writer, outOfBlocks>>

Zero == [w \in Words |-> 0]
NoBlocks == [addrs |-> [a \in 0..NDIRECT |-> 0], size |-> 0, locked |-> FALSE]

Least(S) == CHOOSE b \in S : \A c \in S : b <= c
Minimum(a, b) == IF a < b THEN a ELSE b

-----------------------------------------------------------------------------
(* A file system d is a record of bitmap, block, full and logged, the blocks *)
(* written so far by the transaction; ip is an inode.                        *)

Bitmap(b) == <<"bitmap", b \div BPB>>

\* balloc(): d with the first free block taken and zeroed, and its number.
FreeBlocks(d) == Data \ d.bitmap
balloc(d) ==
  IF FreeBlocks(d) = {} THEN [d |-> [d EXCEPT !.full = TRUE], b |-> 0]
  ELSE LET b == Least(FreeBlocks(d)) IN
       [d |-> [d EXCEPT !.bitmap = @ \cup {b}, !.block[b] = Zero,
                        !.logged = @ \cup {Bitmap(b), <<"data", b>>}], b |-> b]

\* The block in entry a of the inode, allocated if there is none.
Entry(d, ip, a) ==
  IF ip.addrs[a] # 0 THEN [d |-> d, ip |-> ip, b |-> ip.addrs[a]]
  ELSE LET new == balloc(d) IN [d |-> new.d, ip |-> [ip EXCEPT !.addrs[a] = new.b], b |-> new.b]

\* bmap(): the block with number bn of the file, by way of the indirect block if need be.
bmap(d, ip, bn) ==
  IF bn < NDIRECT THEN Entry(d, ip, bn)
  ELSE LET ind == Entry(d, ip, NDIRECT)
           addr == ind.d.block[ind.b][bn - NDIRECT]
           new == balloc(ind.d)
       IN IF ind.d.full THEN ind
          ELSE IF addr # 0 THEN [ind EXCEPT !.b = addr]
          ELSE [d |-> [new.d EXCEPT !.block[ind.b][bn - NDIRECT] = new.b,
                                    !.logged = @ \cup {<<"data", ind.b>>}],
                ip |-> ind.ip, b |-> new.b]

FileSystem(logged) == [bitmap |-> bitmap, block |-> block, full |-> FALSE, logged |-> logged]

\* readi(): the bytes, -1 is written <<-1>>.
readi(ip, off, n) ==
  LET end == (off + n) % UINT
      m == IF end > ip.size THEN ip.size - off ELSE n
      at(k) == block[bmap(FileSystem({}), ip, (off + k) \div BSIZE).b][(off + k) % BSIZE]
  IN IF off > ip.size \/ end < off THEN <<-1>> ELSE [k \in 1..m |-> at(k - 1)]

\* Mutant: the last byte of the largest file is refused.
writeiRefuses_Last(ip, off, n) ==
  off > ip.size \/ (off + n) % UINT < off \/ (off + n) % UINT >= MAXFILE * BSIZE

\* The tests of writei().
writeiRefuses(ip, off, n) ==
  off > ip.size \/ (off + n) % UINT < off \/ (off + n) % UINT > MAXFILE * BSIZE

\* Mutant: no room is kept for the indirect block and its bitmap block.
max_NoSlop == ((MAXOPBLOCKS - 1 - 1) \div 2) * BSIZE

\* The bytes filewrite() puts in one transaction.
max == ((MAXOPBLOCKS - 1 - 1 - 2) \div 2) * BSIZE

\* Mutant: the indirect block itself is not freed.
itruncFrees_Direct(ip) ==
  [a \in 1..NDIRECT |-> ip.addrs[a - 1]]
    \o (IF ip.addrs[NDIRECT] = 0 THEN <<>> ELSE [w \in 1..BSIZE |-> block[ip.addrs[NDIRECT]][w - 1]])

\* The blocks itrunc() frees, in its order; 0 where there is none.
itruncFrees(ip) ==
  [a \in 1..NDIRECT |-> ip.addrs[a - 1]]
    \o (IF ip.addrs[NDIRECT] = 0 THEN <<>>
        ELSE [w \in 1..BSIZE |-> block[ip.addrs[NDIRECT]][w - 1]] \o <<ip.addrs[NDIRECT]>>)

-----------------------------------------------------------------------------
Init ==
  \E y \in Layouts :
    /\ bitmap = {} /\ block = [b \in Data |-> Zero]
    /\ inode = [f \in FileNames |-> NoBlocks]
    /\ contents = [f \in FileNames |-> <<>>]
    /\ writer = [p \in Writers |-> [file |-> y.file[p], program |-> y.runs[p], pc |-> "call",
                                    off |-> 0, i |-> 0, tot |-> 0, free |-> <<>>,
                                    logged |-> {}, oops |-> FALSE]]
    /\ outOfBlocks = FALSE

At(p, pc) == ~outOfBlocks /\ writer[p].pc = pc
File(p) == writer[p].file
Ip(p) == inode[File(p)]
Call(p) == Head(writer[p].program)
Calls(p, op) == At(p, "call") /\ writer[p].program # <<>> /\ Call(p).op = op
Return(p, w, r) ==
  writer' = [writer EXCEPT ![p] = [w EXCEPT !.pc = "call", !.program = Tail(@), !.i = 0,
                                            !.oops = r \notin Call(p).want]]
SetFile(p, ip) == inode' = [inode EXCEPT ![File(p)] = ip]

\* n1, the bytes of the chunk the loop of filewrite() is at.
Chunk(p) == Minimum(Call(p).n - writer[p].i, max)

\* open() of a file that exists: a new file structure, its offset 0.
SysOpen(p) ==
  /\ Calls(p, "open")
  /\ Return(p, [writer[p] EXCEPT !.off = 0], 0)
  /\ UNCHANGED <<bitmap, block, inode, contents, outOfBlocks>>

\* filewrite() to ilock() of a chunk, and the tests of writei(); no program writes 0 bytes.
FileWrite(p) ==
  /\ Calls(p, "write") /\ ~Ip(p).locked
  /\ IF writeiRefuses(Ip(p), writer[p].off, Chunk(p))
     THEN Return(p, writer[p], -1) /\ inode' = inode
     ELSE /\ writer' = [writer EXCEPT ![p].pc = "writei", ![p].tot = 0, ![p].logged = {}]
          /\ SetFile(p, [Ip(p) EXCEPT !.locked = TRUE])
  /\ UNCHANGED <<bitmap, block, contents, outOfBlocks>>

\* One round of the loop of writei(): the part of the chunk that is in one block.
WriteBlock(p) ==
  LET off == writer[p].off + writer[p].tot
      to == bmap(FileSystem(writer[p].logged), Ip(p), off \div BSIZE)
      at == off % BSIZE
      m == Minimum(Chunk(p) - writer[p].tot, BSIZE - at)
      moved == [w \in Words |-> IF w \in at..(at + m - 1) THEN Call(p).byte ELSE to.d.block[to.b][w]]
  IN /\ At(p, "writei") /\ writer[p].tot < Chunk(p)
     /\ bitmap' = to.d.bitmap
     /\ SetFile(p, to.ip)
     /\ outOfBlocks' = to.d.full
     /\ block' = IF to.d.full THEN to.d.block ELSE [to.d.block EXCEPT ![to.b] = moved]
     /\ writer' = [writer EXCEPT ![p].tot = @ + m, ![p].logged = to.d.logged \cup {<<"data", to.b>>}]
     /\ UNCHANGED contents

\* contents with the n bytes from off on replaced or added.
Written(s, off, n, byte) ==
  [k \in 1..IF off + n > Len(s) THEN off + n ELSE Len(s) |-> IF k > off /\ k <= off + n THEN byte ELSE s[k]]

\* Mutant: the size is that of the last write.
SizeAfter_Shrinks(ip, off) == off

\* if(n > 0 && off > ip->size) ip->size = off.
SizeAfter(ip, off) == IF off > ip.size THEN off ELSE ip.size

\* The end of writei() and of the chunk: iupdate() when the file grew, iunlock(), end_op().
ChunkDone(p) ==
  LET off == writer[p].off + Chunk(p)
      i == writer[p].i + Chunk(p)
      w == [writer[p] EXCEPT !.off = off, !.i = i, !.pc = "call",
              !.logged = IF Chunk(p) > 0 /\ off > Ip(p).size THEN @ \cup {<<"inode", File(p)>>} ELSE @]
  IN /\ At(p, "writei") /\ writer[p].tot = Chunk(p)
     /\ SetFile(p, [Ip(p) EXCEPT !.size = SizeAfter(Ip(p), off), !.locked = FALSE])
     /\ contents' = [contents EXCEPT ![File(p)] = Written(@, writer[p].off, Chunk(p), Call(p).byte)]
     /\ IF i = Call(p).n THEN Return(p, w, i) ELSE writer' = [writer EXCEPT ![p] = w]
     /\ UNCHANGED <<bitmap, block, outOfBlocks>>

\* The file is unlinked and closed: iput() calls itrunc() with the inode locked.
Unlink(p) ==
  /\ Calls(p, "unlink") /\ ~Ip(p).locked
  /\ SetFile(p, [Ip(p) EXCEPT !.locked = TRUE])
  /\ writer' = [writer EXCEPT ![p].pc = "itrunc", ![p].free = itruncFrees(Ip(p))]
  /\ UNCHANGED <<bitmap, block, contents, outOfBlocks>>

\* bfree() of the next block of the file.
Bfree(p) ==
  /\ At(p, "itrunc") /\ writer[p].free # <<>>
  /\ bitmap' = bitmap \ {Head(writer[p].free)}
  /\ writer' = [writer EXCEPT ![p].free = Tail(@)]
  /\ UNCHANGED <<block, inode, contents, outOfBlocks>>

\* The end of itrunc() and of iput(); the name is then created anew.
Truncated(p) ==
  /\ At(p, "itrunc") /\ writer[p].free = <<>>
  /\ SetFile(p, NoBlocks)
  /\ contents' = [contents EXCEPT ![File(p)] = <<>>]
  /\ Return(p, [writer[p] EXCEPT !.off = 0], 0)
  /\ UNCHANGED <<bitmap, block, outOfBlocks>>

Next == \E p \in Writers :
  \/ SysOpen(p) \/ FileWrite(p) \/ WriteBlock(p) \/ ChunkDone(p)
  \/ Unlink(p) \/ Bfree(p) \/ Truncated(p)

Spec == Init /\ [][Next]_vars

\* All programs have ended, or balloc() panicked.
Finished == outOfBlocks \/ \A p \in Writers : writer[p].pc = "call" /\ writer[p].program = <<>>

-----------------------------------------------------------------------------
Truncating(f) == \E p \in Writers : File(p) = f /\ writer[p].pc = "itrunc"

\* The places that refer to a block: entries of the inode and of its indirect block.
Places(f) ==
  LET addrs == inode[f].addrs
      entries == IF addrs[NDIRECT] = 0 THEN Zero ELSE block[addrs[NDIRECT]]
  IN {<<"addrs", a, addrs[a]>> : a \in {a \in 0..NDIRECT : addrs[a] # 0}}
       \cup {<<"indirect", w, entries[w]>> : w \in {w \in Words : entries[w] # 0}}
BlocksOf(f) == {place[3] : place \in Places(f)}

\* balloc, bfree, bmap and itrunc together: no block is in two files or twice in one, every
\* block of a file is marked in use, and unless a file is being truncated the blocks marked
\* are exactly those of the files, so none is lost.
BitmapExact ==
  LET stable == {f \in FileNames : ~Truncating(f)}
  IN /\ \A f \in stable : Cardinality(BlocksOf(f)) = Cardinality(Places(f)) /\ BlocksOf(f) \subseteq bitmap
     /\ \A f, g \in stable : f # g => BlocksOf(f) \cap BlocksOf(g) = {}
     /\ stable = FileNames => bitmap = UNION {BlocksOf(f) : f \in FileNames}

\* readi of any range of a file nobody is writing returns what the writes put there, cut at
\* the end of the file, or fails where the range starts past the end or wraps around.
ReadExact ==
  \A f \in FileNames : ~inode[f].locked =>
    \A off \in 0..Len(contents[f]) + 1 : \A n \in 0..Len(contents[f]) + 1 \cup {UINT - off - 1, (UINT - off) % UINT} :
      readi(inode[f], off, n) =
        IF off > Len(contents[f]) \/ off + n >= UINT THEN <<-1>>
        ELSE SubSeq(contents[f], off + 1, Minimum(off + n, Len(contents[f])))

\* "write a few blocks at a time to avoid exceeding the maximum log transaction size": no
\* chunk of filewrite writes more blocks than a transaction may, wherever its blocks are.
ChunkFits == \A p \in Writers : Cardinality(writer[p].logged) <= MAXOPBLOCKS

\* Every call of writetest1, bigwrite and bigfile returns what the test demands: a write is
\* whole, up to the largest file there can be and not beyond.
WritesAsExpected == \A p \in Writers : ~writer[p].oops
=============================================================================
