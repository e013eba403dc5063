--------------------------------- MODULE Fs ---------------------------------
(***************************************************************************)
(* Inodes, directories and the file system calls (fs.c, file.c,            *)
(* sysfile.c) under concurrent processes.  A process is a program, the     *)
(* sequence of its remaining system calls, and code, the kernel work       *)
(* pending in its current call.  A step of a process runs up to the next   *)
(* point where another process can get in: a sleep lock on an inode, a     *)
(* section of icache.lock or ftable.lock.  A lock taken and dropped within *)
(* one step is only tested; a lock that is kept is recorded.               *)
(*                                                                         *)
(* The data of an inode is a sequence: directory entries, or bytes.  Its   *)
(* length is the size; how it is laid out in blocks is in module Blocks.   *)
(* Log.tla shows what begin_op and end_op do: a commit, when no call is in *)
(* progress, makes the whole disk durable, and a crash brings it back.     *)
(***************************************************************************)
EXTENDS Integers, Sequences, FiniteSets

CONSTANTS Procs, NoProc,
          NINODES,    \* inodes on disk, number 0 not counted (sb.ninodes - 1)
          NINODE,     \* slots of the inode cache
          NFILE, NOFILE,
          MAXDEPTH,   \* bound: no directory is deeper
          Long        \* names longer than DIRSIZ, with the name they are cut to

ROOTINO == 1
Inums == 1..NINODES
Slots == 1..NINODE
Fds == 0..NOFILE - 1

VARIABLES
  dinode,       \* the disk, as seen through the buffer cache: type, nlink, data
  durable,      \* the disk a crash would leave: dinode at the last commit
  outstanding,  \* log.outstanding
  icache,       \* slot -> inum, ref, valid, lock, type, nlink
  ftable,       \* struct file -> ref, ip, off, readable, writable
  proc,         \* process -> state, program, code, res, cwd, ofile, vars
  panicked,     \* panic() was called; what the step did besides is of no account
  oops          \* a program got a result it did not want

disk == <<dinode, durable, outstanding>>
vars == <<dinode, durable, outstanding, icache, ftable, proc, panicked, oops>>

NoFile == [ref |-> 0, ip |-> 0, off |-> 0, readable |-> FALSE, writable |-> FALSE]
Free == [type |-> "none", nlink |-> 0, data |-> <<>>]
Dirent(n, i) == [name |-> n, inum |-> i]
Dir(self, parent, nlink, entries) == [type |-> "dir", nlink |-> nlink,
  data |-> <<Dirent(".", self), Dirent("..", parent)>> \o entries]

Vars == {"fd", "fd1"}
Unused == [state |-> "unused", parent |-> NoProc, program |-> <<>>, code |-> <<>>, res |-> 0,
           cwd |-> 0, ofile |-> [fd \in Fds |-> 0], vars |-> [v \in Vars |-> -1]]

-----------------------------------------------------------------------------
(* Processes: what is pending, and how a call ends. *)

Running(p, op) ==
  /\ ~panicked /\ proc[p].state = "run"
  /\ proc[p].code # <<>> /\ Head(proc[p].code)[1] = op

Arg(p, k) == Head(proc[p].code)[k]

\* The rest of the current call is more, and then what was pending already.
Then(p, more) == [proc[p] EXCEPT !.code = more \o Tail(@)]
Proc(p, q) == proc' = [proc EXCEPT ![p] = q]

\* The call of p returns v: the program goes on, or finds v is not what it wants.
Ret(q, v) ==
  LET call == Head(q.program) IN
  [q EXCEPT !.program = Tail(@), !.code = <<>>,
            !.vars = IF "var" \in DOMAIN call THEN [@ EXCEPT ![call.var] = v] ELSE @]

Unwanted(q, v) == v \notin Head(q.program).want

Return(p, q, v) ==
  /\ Proc(p, Ret(q, v))
  /\ oops' = (oops \/ Unwanted(q, v))

-----------------------------------------------------------------------------
(* The inode cache *)

\* iget(): the slot that holds inode i, else the first one without references, else 0.
Cached(ic, i) == {s \in Slots : ic[s].ref > 0 /\ ic[s].inum = i}
Least(S) == CHOOSE s \in S : \A t \in S : s <= t
\* Mutant: the search stops one slot early.
igetSlot_OneLess(ic, i) ==
  LET empty == {s \in Slots \ {NINODE} : ic[s].ref = 0} IN
  IF Cached(ic, i) # {} THEN Least(Cached(ic, i)) ELSE IF empty = {} THEN 0 ELSE Least(empty)

igetSlot(ic, i) ==
  LET empty == {s \in Slots : ic[s].ref = 0} IN
  IF Cached(ic, i) # {} THEN Least(Cached(ic, i)) ELSE IF empty = {} THEN 0 ELSE Least(empty)

iget(ic, i) ==
  LET s == igetSlot(ic, i) IN
  IF s = 0 THEN ic
  ELSE IF Cached(ic, i) # {} THEN [ic EXCEPT ![s].ref = @ + 1]
  ELSE [ic EXCEPT ![s].inum = i, ![s].ref = 1, ![s].valid = FALSE]

igetPanics(ic, i) ==
  panicked' = (igetSlot(ic, i) = 0)

idup(ic, s) == [ic EXCEPT ![s].ref = @ + 1]

\* ilock(), once the sleep lock is free: read the inode unless the copy is valid.
Unlocked(s) == icache[s].lock = NoProc
Load(s) ==
  IF icache[s].valid THEN icache
  ELSE [icache EXCEPT ![s].valid = TRUE, ![s].type = dinode[icache[s].inum].type,
                      ![s].nlink = dinode[icache[s].inum].nlink]
NoType(s) == ~icache[s].valid /\ dinode[icache[s].inum].type = "none"
CanLock(s) == Unlocked(s) /\ ~NoType(s)

Lock(ic, s, p) == [ic EXCEPT ![s].lock = p]

\* iupdate(): the inode of slot s goes to the disk d.
iupdate(d, ic, s) ==
  [d EXCEPT ![ic[s].inum].type = ic[s].type, ![ic[s].inum].nlink = ic[s].nlink]

\* ialloc(): the first free inode, or 0.
ialloc == LET free == {i \in Inums : dinode[i].type = "none"} IN
          IF free = {} THEN 0 ELSE Least(free)

-----------------------------------------------------------------------------
(* Directories: the entries are the data, an unused entry has inum 0. *)

\* strncmp(s, t, DIRSIZ): names are cut to DIRSIZ characters.
Cut(n) == IF n \in DOMAIN Long THEN Long[n] ELSE n

dirlookup(dp, name) ==
  LET data == dinode[icache[dp].inum].data
      hits == {k \in DOMAIN data : data[k].inum # 0 /\ data[k].name = Cut(name)}
  IN IF hits = {} THEN 0 ELSE data[Least(hits)].inum

\* dirlink(), once the name is known to be new: the first unused entry, else the end.
dirlink(data, name, inum) ==
  LET unused == {k \in DOMAIN data : data[k].inum = 0} IN
  IF unused = {} THEN Append(data, Dirent(Cut(name), inum))
  ELSE [data EXCEPT ![Least(unused)] = Dirent(Cut(name), inum)]

\* unlink's writei of a zero entry.
Erase(data, name) ==
  [k \in DOMAIN data |-> IF data[k].inum # 0 /\ data[k].name = Cut(name)
                         THEN Dirent("", 0) ELSE data[k]]

\* Mutant: the first entry after "." and ".." is skipped.
isdirempty_From4(i) == \A k \in 4..Len(dinode[i].data) : dinode[i].data[k].inum = 0

isdirempty(i) == \A k \in 3..Len(dinode[i].data) : dinode[i].data[k].inum = 0

-----------------------------------------------------------------------------
(* Path names: an absolute or relative list of elements. *)

\* namex() begins at the root or at the current directory.
Namex(p) ==
  /\ Running(p, "namex")
  /\ LET path == Arg(p, 2) IN
     \/ /\ path.abs
        /\ igetPanics(icache, ROOTINO) /\ icache' = iget(icache, ROOTINO)
        /\ Proc(p, Then(p, << <<"walk", igetSlot(icache, ROOTINO), path.names, Arg(p, 3)>> >>))
     \/ /\ ~path.abs
        /\ icache' = idup(icache, proc[p].cwd)
        /\ Proc(p, Then(p, << <<"walk", proc[p].cwd, path.names, Arg(p, 3)>> >>))
        /\ UNCHANGED panicked
  /\ UNCHANGED <<disk, ftable, oops>>

\* namex() ends with the slot s, 0 if there is none, after putting back the slots puts.
Found(p, s, puts) ==
  Proc(p, [Then(p, [k \in DOMAIN puts |-> <<"iput", puts[k]>>]) EXCEPT !.res = s])

\* One turn of namex's loop: lock, check, look up, get the next inode, unlock, put.
Walk(p) ==
  /\ Running(p, "walk")
  /\ LET s == Arg(p, 2)  names == Arg(p, 3)  parent == Arg(p, 4)  ic == Load(s)
         next == IF ic[s].type = "dir" THEN dirlookup(s, names[1]) ELSE 0
     IN
     \/ /\ names = <<>>
        /\ IF parent THEN Found(p, 0, <<s>>) ELSE Found(p, s, <<>>)
        /\ UNCHANGED <<icache, panicked>>
     \/ /\ names # <<>> /\ CanLock(s) /\ ic[s].type = "dir" /\ parent /\ Len(names) = 1
        /\ icache' = ic /\ Found(p, s, <<>>) /\ UNCHANGED panicked
     \/ /\ names # <<>> /\ CanLock(s) /\ ~(parent /\ Len(names) = 1) /\ next # 0
        /\ icache' = iget(ic, next) /\ igetPanics(ic, next)
        /\ Proc(p, Then(p, << <<"iput", s>>,
                              <<"walk", igetSlot(ic, next), Tail(names), parent>> >>))
     \/ /\ names # <<>> /\ CanLock(s)
        /\ ic[s].type # "dir" \/ (next = 0 /\ ~(parent /\ Len(names) = 1))
        /\ icache' = ic /\ Found(p, 0, <<s>>) /\ UNCHANGED panicked
  /\ UNCHANGED <<disk, ftable, oops>>

-----------------------------------------------------------------------------
(* iput, and the ends of calls *)

\* Mutant: other references are forgotten.
Unneeded_Ref(s) == icache[s].valid /\ icache[s].nlink = 0
Unneeded(s) == icache[s].valid /\ icache[s].nlink = 0 /\ icache[s].ref = 1

\* Mutant: the slot of a freed inode stays valid.
Freed_Valid(s) == [icache EXCEPT ![s].type = "none"]
Freed(s) == [icache EXCEPT ![s].type = "none", ![s].valid = FALSE]

itrunc(d, i) == [d EXCEPT ![i].data = <<>>]

\* iput() up to releasesleep: the last reference to an inode without links frees it.
Iput(p) ==
  /\ Running(p, "iput")
  /\ LET s == Arg(p, 2) IN
     /\ Unlocked(s)
     /\ IF Unneeded(s)
        THEN /\ icache' = Freed(s)
             /\ dinode' = iupdate(itrunc(dinode, icache[s].inum), icache', s)
        ELSE UNCHANGED <<dinode, icache>>
     /\ Proc(p, Then(p, << <<"deref", s>> >>))
     /\ UNCHANGED <<durable, outstanding, ftable, panicked, oops>>

\* The rest of iput(), under icache.lock.
Deref(p) ==
  /\ Running(p, "deref")
  /\ icache' = [icache EXCEPT ![Arg(p, 2)].ref = @ - 1]
  /\ Proc(p, Then(p, <<>>))
  /\ UNCHANGED <<disk, ftable, panicked, oops>>

Iunlock(p) ==
  /\ Running(p, "iunlock")
  /\ icache' = Lock(icache, Arg(p, 2), NoProc)
  /\ Proc(p, Then(p, <<>>))
  /\ UNCHANGED <<disk, ftable, panicked, oops>>

\* begin_op(), where it is not the first thing a call does.
BeginOp(p) ==
  /\ Running(p, "begin_op")
  /\ outstanding' = outstanding + 1
  /\ Proc(p, Then(p, <<>>))
  /\ UNCHANGED <<dinode, durable, icache, ftable, panicked, oops>>

\* end_op(): the last call in progress commits.
end_op ==
  /\ outstanding' = outstanding - 1
  /\ durable' = IF outstanding = 1 THEN dinode ELSE durable

EndOp(p) ==
  /\ Running(p, "end_op")
  /\ end_op /\ Proc(p, Then(p, <<>>))
  /\ UNCHANGED <<dinode, icache, ftable, panicked, oops>>

\* end_op() and the return of the call.
EndCall(p) ==
  /\ Running(p, "return")
  /\ end_op /\ Return(p, proc[p], Arg(p, 2))
  /\ UNCHANGED <<dinode, icache, ftable, panicked>>

Fail(s) == << <<"iput", s>>, <<"return", -1>> >>

-----------------------------------------------------------------------------
(* sys_link: the link count goes up first, and down again if linking fails. *)

\* Mutant: the link is not counted.
OneMore_Not(ic, s) == ic
OneMore(ic, s) == [ic EXCEPT ![s].nlink = @ + 1]

LinkOld(p) ==
  /\ Running(p, "link_old")
  /\ LET s == proc[p].res  new == Arg(p, 2)  ic == Load(s) IN
     \/ /\ s = 0
        /\ Proc(p, Then(p, << <<"return", -1>> >>)) /\ UNCHANGED <<dinode, icache>>
     \/ /\ s # 0 /\ CanLock(s) /\ ic[s].type = "dir"
        /\ icache' = ic /\ Proc(p, Then(p, Fail(s))) /\ UNCHANGED dinode
     \/ /\ s # 0 /\ CanLock(s) /\ ic[s].type # "dir"
        /\ icache' = OneMore(ic, s)
        /\ dinode' = iupdate(dinode, icache', s)
        /\ Proc(p, Then(p, << <<"namex", new, TRUE>>, <<"link_new", s, new>> >>))
  /\ UNCHANGED <<durable, outstanding, ftable, panicked, oops>>

Last(seq) == seq[Len(seq)]

\* Mutant: dirlink() keeps the inode it found.
Exists_Kept(old, dp) == << <<"iunlock", dp>>, <<"iput", dp>> >>
Exists(old, dp) == << <<"iput", old>>, <<"iunlock", dp>>, <<"iput", dp>> >>

\* ilock(dp) and dirlink(): a name that exists is got, and put back while dp is locked.
LinkNew(p) ==
  /\ Running(p, "link_new")
  /\ LET s == Arg(p, 2)  name == Last(Arg(p, 3).names)  dp == proc[p].res
         ic == Load(dp)  old == dirlookup(dp, name)
     IN
     \/ /\ dp = 0
        /\ Proc(p, Then(p, << <<"link_bad", s>> >>)) /\ UNCHANGED <<dinode, icache, panicked>>
     \/ /\ dp # 0 /\ CanLock(dp) /\ old # 0
        /\ icache' = Lock(iget(ic, old), dp, p) /\ igetPanics(ic, old)
        /\ Proc(p, Then(p, Exists(igetSlot(ic, old), dp) \o << <<"link_bad", s>> >>))
        /\ UNCHANGED dinode
     \/ /\ dp # 0 /\ CanLock(dp) /\ old = 0
        /\ icache' = ic
        /\ dinode' = [dinode EXCEPT ![ic[dp].inum].data = dirlink(@, name, ic[s].inum)]
        /\ Proc(p, Then(p, << <<"iput", dp>>, <<"iput", s>>, <<"return", 0>> >>))
        /\ UNCHANGED panicked
  /\ UNCHANGED <<durable, outstanding, ftable, oops>>

LinkBad(p) ==
  /\ Running(p, "link_bad")
  /\ LET s == Arg(p, 2) IN
     /\ CanLock(s)
     /\ icache' = [Load(s) EXCEPT ![s].nlink = @ - 1]
     /\ dinode' = iupdate(dinode, icache', s)
     /\ Proc(p, Then(p, Fail(s)))
  /\ UNCHANGED <<durable, outstanding, ftable, panicked, oops>>

-----------------------------------------------------------------------------
(* sys_unlink: dp stays locked until the entry is gone, ip until its count is down. *)

UnlinkDir(p) ==
  /\ Running(p, "unlink")
  /\ LET dp == proc[p].res  name == Last(Arg(p, 2).names)  ic == Load(dp)
         i == IF name \in {".", ".."} THEN 0 ELSE dirlookup(dp, name)
     IN
     \/ /\ dp = 0
        /\ Proc(p, Then(p, << <<"return", -1>> >>)) /\ UNCHANGED <<icache, panicked>>
     \/ /\ dp # 0 /\ CanLock(dp) /\ i = 0
        /\ icache' = ic /\ Proc(p, Then(p, Fail(dp))) /\ UNCHANGED panicked
     \/ /\ dp # 0 /\ CanLock(dp) /\ i # 0
        /\ icache' = Lock(iget(ic, i), dp, p) /\ igetPanics(ic, i)
        /\ Proc(p, Then(p, << <<"unlink_entry", dp, igetSlot(ic, i), name>> >>))
  /\ UNCHANGED <<disk, ftable, oops>>

UnlinkEntry(p) ==
  /\ Running(p, "unlink_entry")
  /\ LET dp == Arg(p, 2)  s == Arg(p, 3)  ic == Load(s)
         isdir == ic[s].type = "dir"
         full == isdir /\ ~isdirempty(ic[s].inum)
     IN
     /\ CanLock(s)
     /\ panicked' = (ic[s].nlink < 1)
     /\ \/ /\ full
           /\ icache' = ic
           /\ Proc(p, Then(p, << <<"iput", s>>, <<"iunlock", dp>> >> \o Fail(dp)))
           /\ UNCHANGED dinode
        \/ /\ ~full
           /\ icache' = [Lock(Lock(ic, dp, NoProc), s, p) EXCEPT
                            ![dp].nlink = IF isdir THEN @ - 1 ELSE @]
           /\ dinode' = [iupdate(dinode, icache', dp) EXCEPT
                            ![ic[dp].inum].data = Erase(@, Arg(p, 4))]
           /\ Proc(p, Then(p, << <<"iput", dp>>, <<"unlink_ip", s>> >>))
  /\ UNCHANGED <<durable, outstanding, ftable, oops>>

UnlinkIp(p) ==
  /\ Running(p, "unlink_ip")
  /\ LET s == Arg(p, 2) IN
     /\ icache' = [Lock(icache, s, NoProc) EXCEPT ![s].nlink = @ - 1]
     /\ dinode' = iupdate(dinode, icache', s)
     /\ Proc(p, Then(p, << <<"iput", s>>, <<"return", 0>> >>))
  /\ UNCHANGED <<durable, outstanding, ftable, panicked, oops>>

-----------------------------------------------------------------------------
(* create(): an inode of the given type, locked, in res; 0 if it cannot be. *)

CreateDir(p) ==
  /\ Running(p, "create")
  /\ LET dp == proc[p].res  name == Last(Arg(p, 2).names)  type == Arg(p, 3)
         ic == Load(dp)  old == dirlookup(dp, name)
     IN
     \/ /\ dp = 0
        /\ Found(p, 0, <<>>) /\ UNCHANGED <<dinode, icache, panicked>>
     \/ /\ dp # 0 /\ CanLock(dp) /\ old # 0
        /\ icache' = iget(ic, old) /\ igetPanics(ic, old)
        /\ Proc(p, Then(p, << <<"iput", dp>>, <<"create_old", igetSlot(ic, old), type>> >>))
        /\ UNCHANGED dinode
     \/ /\ dp # 0 /\ CanLock(dp) /\ old = 0
        /\ dinode' = [dinode EXCEPT ![ialloc] = [Free EXCEPT !.type = type]]
        /\ icache' = Lock(iget(ic, ialloc), dp, p)
        /\ panicked' = (ialloc = 0 \/ igetSlot(ic, ialloc) = 0)
        /\ Proc(p, Then(p, << <<"create_new", igetSlot(ic, ialloc), dp, name, type>> >>))
  /\ UNCHANGED <<durable, outstanding, ftable, oops>>

CreateOld(p) ==
  /\ Running(p, "create_old")
  /\ LET s == Arg(p, 2)  ic == Load(s) IN
     /\ CanLock(s)
     /\ IF Arg(p, 3) = "file" /\ ic[s].type = "file"
        THEN icache' = Lock(ic, s, p) /\ Found(p, s, <<>>)
        ELSE icache' = ic /\ Found(p, 0, <<s>>)
  /\ UNCHANGED <<disk, ftable, panicked, oops>>

CreateNew(p) ==
  /\ Running(p, "create_new")
  /\ LET s == Arg(p, 2)  dp == Arg(p, 3)  name == Arg(p, 4)  isdir == Arg(p, 5) = "dir"
         i == icache[s].inum  di == icache[dp].inum
         ic == [Lock(Lock(Load(s), dp, NoProc), s, p) EXCEPT
                  ![s].nlink = 1, ![dp].nlink = IF isdir THEN @ + 1 ELSE @]
     IN
     /\ CanLock(s)
     /\ icache' = ic
     /\ dinode' = [iupdate(iupdate(dinode, ic, s), ic, dp) EXCEPT
                     ![i].data = IF isdir THEN Dir(i, di, 1, <<>>).data ELSE @,
                     ![di].data = dirlink(@, name, i)]
     /\ Found(p, s, <<dp>>)
  /\ UNCHANGED <<durable, outstanding, ftable, panicked, oops>>

-----------------------------------------------------------------------------
(* sys_open, sys_mkdir, sys_mknod, sys_chdir *)

OpenOld(p) ==
  /\ Running(p, "open_old")
  /\ LET s == proc[p].res  ic == Load(s)
         refuse == ic[s].type = "dir" /\ Arg(p, 2) # "r"
     IN
     \/ s = 0 /\ Found(p, 0, <<>>) /\ UNCHANGED icache
     \/ s # 0 /\ CanLock(s) /\ refuse /\ icache' = ic /\ Found(p, 0, <<s>>)
     \/ s # 0 /\ CanLock(s) /\ ~refuse /\ icache' = Lock(ic, s, p) /\ Found(p, s, <<>>)
  /\ UNCHANGED <<disk, ftable, panicked, oops>>

\* filealloc() and fdalloc(): the first unused struct file and descriptor, or none.
filealloc == {f \in DOMAIN ftable : ftable[f].ref = 0}
fdalloc(p) == {fd \in Fds : proc[p].ofile[fd] = 0}

OpenFile(p) ==
  /\ Running(p, "open_file")
  /\ LET s == proc[p].res  mode == Arg(p, 2)  f == Least(filealloc)  fd == Least(fdalloc(p)) IN
     \/ /\ s = 0
        /\ Proc(p, Then(p, << <<"return", -1>> >>)) /\ UNCHANGED <<icache, ftable>>
     \/ /\ s # 0 /\ (filealloc = {} \/ fdalloc(p) = {})
        /\ icache' = Lock(icache, s, NoProc)
        /\ Proc(p, Then(p, Fail(s))) /\ UNCHANGED ftable
     \/ /\ s # 0 /\ filealloc # {} /\ fdalloc(p) # {}
        /\ icache' = Lock(icache, s, NoProc)
        /\ ftable' = [ftable EXCEPT ![f] = [ref |-> 1, ip |-> s, off |-> 0,
                        readable |-> mode # "w", writable |-> mode # "r"]]
        /\ Proc(p, [Then(p, << <<"return", fd>> >>) EXCEPT !.ofile[fd] = f])
  /\ UNCHANGED <<disk, panicked, oops>>

\* mkdir and mknod drop the inode create() made.
Made(p) ==
  /\ Running(p, "made")
  /\ LET s == proc[p].res IN
     \/ /\ s = 0
        /\ Proc(p, Then(p, << <<"return", -1>> >>)) /\ UNCHANGED icache
     \/ /\ s # 0
        /\ icache' = Lock(icache, s, NoProc)
        /\ Proc(p, Then(p, << <<"iput", s>>, <<"return", 0>> >>))
  /\ UNCHANGED <<disk, ftable, panicked, oops>>

Chdir(p) ==
  /\ Running(p, "chdir")
  /\ LET s == proc[p].res  ic == Load(s) IN
     \/ /\ s = 0
        /\ Proc(p, Then(p, << <<"return", -1>> >>)) /\ UNCHANGED icache
     \/ /\ s # 0 /\ CanLock(s) /\ ic[s].type # "dir"
        /\ icache' = ic /\ Proc(p, Then(p, Fail(s)))
     \/ /\ s # 0 /\ CanLock(s) /\ ic[s].type = "dir"
        /\ icache' = ic
        /\ Proc(p, [Then(p, << <<"iput", proc[p].cwd>>, <<"return", 0>> >>) EXCEPT !.cwd = s])
  /\ UNCHANGED <<disk, ftable, panicked, oops>>

-----------------------------------------------------------------------------
(* Entry of the calls that take a path *)

Calling(p, sys) ==
  /\ ~panicked /\ proc[p].state = "run" /\ proc[p].code = <<>>
  /\ proc[p].program # <<>> /\ Head(proc[p].program).sys = sys

Call(p) == Head(proc[p].program)

begin_op(p, code) ==
  /\ outstanding' = outstanding + 1
  /\ Proc(p, [proc[p] EXCEPT !.code = code])
  /\ UNCHANGED <<dinode, durable, icache, ftable, panicked, oops>>

SysLink(p) == Calling(p, "link") /\
  begin_op(p, << <<"namex", Call(p).path, FALSE>>, <<"link_old", Call(p).new>> >>)
SysUnlink(p) == Calling(p, "unlink") /\
  begin_op(p, << <<"namex", Call(p).path, TRUE>>, <<"unlink", Call(p).path>> >>)
SysOpen(p) == Calling(p, "open") /\
  begin_op(p, << <<"namex", Call(p).path, FALSE>>, <<"open_old", Call(p).mode>>,
                 <<"open_file", Call(p).mode>> >>)
SysCreate(p) == Calling(p, "create") /\
  begin_op(p, << <<"namex", Call(p).path, TRUE>>, <<"create", Call(p).path, "file">>,
                 <<"open_file", Call(p).mode>> >>)
SysMkdir(p) == Calling(p, "mkdir") /\
  begin_op(p, << <<"namex", Call(p).path, TRUE>>, <<"create", Call(p).path, "dir">>, <<"made">> >>)
SysMknod(p) == Calling(p, "mknod") /\
  begin_op(p, << <<"namex", Call(p).path, TRUE>>, <<"create", Call(p).path, "dev">>, <<"made">> >>)
SysChdir(p) == Calling(p, "chdir") /\
  begin_op(p, << <<"namex", Call(p).path, FALSE>>, <<"chdir">> >>)

-----------------------------------------------------------------------------
(* Calls that take a descriptor.  argfd(): the struct file, 0 if there is none. *)

argfd(p) ==
  LET fd == proc[p].vars[Call(p).fd] IN IF fd \in Fds THEN proc[p].ofile[fd] ELSE 0

SysDup(p) ==
  /\ Calling(p, "dup")
  /\ LET f == argfd(p)  fd == Least(fdalloc(p)) IN
     IF f = 0 \/ fdalloc(p) = {}
     THEN Return(p, proc[p], -1) /\ UNCHANGED ftable
     ELSE /\ ftable' = [ftable EXCEPT ![f].ref = @ + 1]
          /\ Return(p, [proc[p] EXCEPT !.ofile[fd] = f], fd)
  /\ UNCHANGED <<disk, icache, panicked>>

\* fileclose(): the last reference puts the inode, in a transaction of its own.
fileclose(f) == [ftable EXCEPT ![f] = IF @.ref > 1 THEN [@ EXCEPT !.ref = @ - 1] ELSE NoFile]

Putting(f) == IF ftable[f].ref > 1 THEN <<>>
              ELSE << <<"begin_op">>, <<"iput", ftable[f].ip>>, <<"end_op">> >>

SysClose(p) ==
  /\ Calling(p, "close")
  /\ LET f == argfd(p)  fd == proc[p].vars[Call(p).fd] IN
     IF f = 0
     THEN Return(p, proc[p], -1) /\ UNCHANGED ftable
     ELSE /\ ftable' = fileclose(f)
          /\ Proc(p, [proc[p] EXCEPT !.ofile[fd] = 0, !.code = Putting(f) \o << <<"closed", 0>> >>])
          /\ UNCHANGED oops
  /\ UNCHANGED <<disk, icache, panicked>>

\* A call returns with no transaction to end.
Closed(p) ==
  /\ Running(p, "closed")
  /\ Return(p, proc[p], Arg(p, 2))
  /\ UNCHANGED <<disk, icache, ftable, panicked>>

\* readi() and writei() on the data as a sequence (module Blocks has the blocks).
readi(data, off, n) == SubSeq(data, off + 1, IF off + n > Len(data) THEN Len(data) ELSE off + n)
writei(data, off, bytes) ==
  [k \in 1..(IF off + Len(bytes) > Len(data) THEN off + Len(bytes) ELSE Len(data)) |->
     IF k \in off + 1..off + Len(bytes) THEN bytes[k - off] ELSE data[k]]

\* fileread() of an inode: the offset moves while the inode is locked.
SysRead(p) ==
  /\ Calling(p, "read")
  /\ LET f == argfd(p)  s == ftable[f].ip
         got == readi(dinode[icache[s].inum].data, ftable[f].off, Call(p).n)
     IN
     \/ /\ f = 0 \/ ~ftable[f].readable
        /\ Return(p, proc[p], -1) /\ UNCHANGED <<icache, ftable>>
     \/ /\ f # 0 /\ ftable[f].readable /\ CanLock(s)
        /\ icache' = Load(s)
        /\ ftable' = [ftable EXCEPT ![f].off = @ + Len(got)]
        /\ Proc(p, Ret(proc[p], Len(got)))
        /\ oops' = (oops \/ Unwanted(proc[p], Len(got))
                         \/ \E k \in DOMAIN got : got[k] \notin Call(p).bytes)
  /\ UNCHANGED <<disk, panicked>>

\* filestat()
SysFstat(p) ==
  /\ Calling(p, "fstat")
  /\ LET f == argfd(p)  s == ftable[f].ip IN
     \/ f = 0 /\ Return(p, proc[p], -1) /\ UNCHANGED icache
     \/ f # 0 /\ CanLock(s) /\ icache' = Load(s) /\ Return(p, proc[p], 0)
  /\ UNCHANGED <<disk, ftable, panicked>>

\* filewrite() of no more than one transaction's worth.
SysWrite(p) ==
  /\ Calling(p, "write")
  /\ LET f == argfd(p) IN
     IF f = 0 \/ ~ftable[f].writable
     THEN Return(p, proc[p], -1) /\ UNCHANGED outstanding
     ELSE /\ outstanding' = outstanding + 1
          /\ Proc(p, [proc[p] EXCEPT !.code = << <<"write", f, Call(p).bytes>> >>])
          /\ UNCHANGED oops
  /\ UNCHANGED <<dinode, durable, icache, ftable, panicked>>

Write(p) ==
  /\ Running(p, "write")
  /\ LET f == Arg(p, 2)  bytes == Arg(p, 3)  s == ftable[f].ip IN
     /\ CanLock(s)
     /\ icache' = Load(s)
     /\ dinode' = [dinode EXCEPT ![icache[s].inum].data = writei(@, ftable[f].off, bytes)]
     /\ ftable' = [ftable EXCEPT ![f].off = @ + Len(bytes)]
     /\ Proc(p, Then(p, << <<"return", Len(bytes)>> >>))
  /\ UNCHANGED <<durable, outstanding, panicked, oops>>

-----------------------------------------------------------------------------
(* Processes: fork copies descriptors and directory, exit gives them back. *)

SysFork(p) ==
  /\ Calling(p, "fork")
  /\ LET q == Call(p).child IN
     /\ proc[q].state = "unused"
     /\ proc' = [proc EXCEPT ![p] = Ret(@, 0),
          ![q] = [proc[p] EXCEPT !.program = Call(p).runs, !.code = <<>>, !.parent = p]]
     /\ ftable' = [f \in DOMAIN ftable |-> [ftable[f] EXCEPT
                     !.ref = @ + Cardinality({fd \in Fds : proc[p].ofile[fd] = f})]]
     /\ icache' = idup(icache, proc[p].cwd)
  /\ UNCHANGED <<disk, panicked, oops>>

\* exit(): one descriptor after the other, then the directory.  As in chdir, cwd changes
\* with the iput() that precedes its assignment: no other process reads it.
SysExit(p) ==
  /\ Calling(p, "exit")
  /\ LET open == {fd \in Fds : proc[p].ofile[fd] # 0}  fd == Least(open)  f == proc[p].ofile[fd] IN
     \/ /\ open # {}
        /\ ftable' = fileclose(f)
        /\ Proc(p, [proc[p] EXCEPT !.ofile[fd] = 0, !.code = Putting(f)])
     \/ /\ open = {}
        /\ Proc(p, [proc[p] EXCEPT !.cwd = 0, !.code =
             << <<"begin_op">>, <<"iput", proc[p].cwd>>, <<"end_op">>, <<"zombie">> >>])
        /\ UNCHANGED ftable
  /\ UNCHANGED <<disk, icache, panicked, oops>>

Zombie(p) ==
  /\ Running(p, "zombie")
  /\ Proc(p, [proc[p] EXCEPT !.state = "zombie", !.program = <<>>, !.code = <<>>])
  /\ UNCHANGED <<disk, icache, ftable, panicked, oops>>

\* wait(), with at least one child: module Proc has its sleep and wakeup.
SysWait(p) ==
  /\ Calling(p, "wait")
  /\ \E q \in Procs :
       /\ proc[q].state = "zombie" /\ proc[q].parent = p
       /\ proc' = [proc EXCEPT ![p] = Ret(@, 0), ![q] = Unused]
  /\ UNCHANGED <<disk, icache, ftable, panicked, oops>>

\* A program may leave the choice of a call open.
Choose(p) ==
  /\ Calling(p, "any")
  /\ \E c \in Call(p).of : Proc(p, [proc[p] EXCEPT !.program = c \o Tail(@)])
  /\ UNCHANGED <<disk, icache, ftable, panicked, oops>>

\* The inode a process is about to lock, 0 if none; ilock() and iput() wait for it.
Wants(p) ==
  IF proc[p].state # "run" \/ proc[p].code = <<>> THEN 0
  ELSE LET op == Head(proc[p].code)[1] IN
  CASE op = "walk" -> IF Arg(p, 3) = <<>> THEN 0 ELSE Arg(p, 2)
    [] op \in {"link_bad", "create_old", "create_new", "iput"} -> Arg(p, 2)
    [] op = "unlink_entry" -> Arg(p, 3)
    [] op = "write" -> ftable[Arg(p, 2)].ip
    [] op \in {"link_old", "link_new", "unlink", "create", "open_old", "chdir"} -> proc[p].res
    [] OTHER -> 0

\* ilock() of a slot nobody has a reference to, or of an inode that is free on the disk.
IlockPanics(p) ==
  LET s == Wants(p) IN
  s # 0 /\ Head(proc[p].code)[1] # "iput" /\ (icache[s].ref < 1 \/ (Unlocked(s) /\ NoType(s)))

-----------------------------------------------------------------------------
(* The specification: a world is a disk and the programs of its first processes. *)

CONSTANT Worlds

Init ==
  \E w \in Worlds :
    /\ dinode = w.disk /\ durable = w.disk /\ outstanding = 0
    /\ icache = [s \in Slots |-> [inum |-> IF s = 1 THEN ROOTINO ELSE 0,
                                  ref |-> IF s = 1 THEN Cardinality(DOMAIN w.runs) ELSE 0,
                                  valid |-> FALSE, lock |-> NoProc, type |-> "none", nlink |-> 0]]
    /\ ftable = [f \in 1..NFILE |-> NoFile]
    /\ proc = [p \in Procs |-> IF p \in DOMAIN w.runs
                               THEN [Unused EXCEPT !.state = "run", !.program = w.runs[p], !.cwd = 1]
                               ELSE Unused]
    /\ panicked = FALSE /\ oops = FALSE

Idle(p) == proc[p].state # "run" \/ (proc[p].code = <<>> /\ proc[p].program = <<>>)
Finished == (\A p \in Procs : Idle(p)) /\ UNCHANGED vars

Next ==
  \/ \E p \in Procs :
       \/ Namex(p) \/ Walk(p) \/ Iput(p) \/ Deref(p) \/ Iunlock(p)
       \/ BeginOp(p) \/ EndOp(p) \/ EndCall(p)
       \/ LinkOld(p) \/ LinkNew(p) \/ LinkBad(p)
       \/ UnlinkDir(p) \/ UnlinkEntry(p) \/ UnlinkIp(p)
       \/ CreateDir(p) \/ CreateOld(p) \/ CreateNew(p)
       \/ OpenOld(p) \/ OpenFile(p) \/ Made(p) \/ Chdir(p)
       \/ SysLink(p) \/ SysUnlink(p) \/ SysOpen(p) \/ SysCreate(p)
       \/ SysMkdir(p) \/ SysMknod(p) \/ SysChdir(p)
       \/ SysDup(p) \/ SysClose(p) \/ Closed(p) \/ SysRead(p) \/ SysFstat(p) \/ SysWrite(p) \/ Write(p)
       \/ SysFork(p) \/ SysExit(p) \/ Zombie(p) \/ SysWait(p)
       \/ Choose(p)
  \/ Finished

Spec == Init /\ [][Next]_vars

-----------------------------------------------------------------------------
(* Properties *)

\* No call reaches a panic of fs.c and sysfile.c: no inode is locked that was freed, no
\* name is removed from an inode without links, the cache and the disk have room.
NoPanic == ~panicked /\ \A p \in Procs : ~IlockPanics(p)

\* What the programs want of each call, they get.
ProgramsSatisfied == ~oops

\* As long as a file, a current directory or a call has a reference to an inode, it is
\* not freed, even when its last name is gone.  Only iput() itself, between freeing it
\* and giving up the reference, still counts.
HeldInodesLive ==
  \A s \in Slots :
    icache[s].ref > Cardinality({p \in Procs : Running(p, "deref") /\ Arg(p, 2) = s})
      => dinode[icache[s].inum].type # "none"

\* The copy ilock() made of an inode is the inode as long as the slot is in use,
\* also across a free and a reuse of the number (iput's valid = 0).
CacheCoherent ==
  \A s \in Slots : icache[s].ref > 0 /\ icache[s].valid /\ icache[s].lock = NoProc =>
    /\ icache[s].type = dinode[icache[s].inum].type
    /\ icache[s].nlink = dinode[icache[s].inum].nlink

\* Whenever no call is in progress every reference has an owner: an open file or a
\* current directory.  Every early return has put back what it got.
RefsOwned ==
  (\A p \in Procs : proc[p].code = <<>>) =>
    \A s \in Slots : icache[s].ref =
      Cardinality({f \in 1..NFILE : ftable[f].ref > 0 /\ ftable[f].ip = s})
      + Cardinality({p \in Procs : proc[p].state = "run" /\ proc[p].cwd = s})

\* The two together, about iget, idup and iput: a reference keeps its inode, and every
\* reference is put back.
ReferencesKept == HeldInodesLive /\ RefsOwned

\* iput() frees an inode when its last name and its last reference are gone: none is
\* left behind without either.
NoInodeLeaks ==
  (\A p \in Procs : proc[p].code = <<>>) =>
    \A i \in Inums : dinode[i].type # "none" /\ dinode[i].nlink = 0 => Cached(icache, i) # {}

\* Processes wait for inode locks in no circle: p waits for the holder of what p wants.
WaitsFor(p) == IF Wants(p) = 0 THEN NoProc ELSE icache[Wants(p)].lock
NoLockCycle ==
  \A S \in SUBSET Procs : S # {} => \E p \in S : WaitsFor(p) \notin S

\* The directories of a disk d that path names from the root reach.
Entries(d, k) == {e \in {d[k].data[n] : n \in DOMAIN d[k].data} : e.inum # 0}
Reached(d) ==
  LET below(k) == {e.inum : e \in Entries(d, k)}
      within[n \in 0..MAXDEPTH] ==
        IF n = 0 THEN {ROOTINO}
        ELSE LET w == within[n - 1] IN
             w \cup {i \in UNION {below(k) : k \in w} : d[i].type = "dir"}
  IN within[MAXDEPTH]

\* The names on a disk d: the entries of its directories but each one's own ".".
Names(d) == UNION {{<<k, e>> : e \in {x \in Entries(d, k) : x.name # "."}} : k \in Reached(d)}

\* After a crash at any moment no name leads to a free inode, and no inode has more
\* names than its link count says: removing the names can never free it too early.
CrashSafe ==
  LET names == Names(durable) IN
  \A i \in {n[2].inum : n \in names} :
    /\ durable[i].type # "none"
    /\ Cardinality({n \in names : n[2].inum = i}) <= durable[i].nlink
=============================================================================
