----------------------------- MODULE PipeProofs -----------------------------
(***************************************************************************)
(* Pipe, for any number of readers and writers and any size: no wakeup is  *)
(* lost, the page is freed once, and the ring with its wrapping counters is*)
(* a bounded queue.                                                        *)
(***************************************************************************)
EXTENDS Pipe, FiniteSetTheorems, TLAPS

\* Finitely many processes; nobody has both ends; NoProc is nobody.
PipeConstants ==
  /\ IsFiniteSet(Procs)
  /\ Writers \cap Readers = {}
  /\ NoProc \notin Procs

Ends == {"w", "r"}
Labels == {"none", "idle", "write", "read", "copy", "asleep", "closing", "closed"}
\* The labels of a process whose reference to its file does not count.
Gone == {"none", "closing", "closed"}
Users(e) == {p \in Procs : End(p) = e /\ pc[p] \notin Gone}

Types ==
  /\ pc \in [Procs -> Labels] /\ killed \in [Procs -> BOOLEAN]
  /\ open \in [Ends -> BOOLEAN] /\ ref \in [Ends -> Int]
  /\ lock \in Procs \cup {NoProc}

\* Who can be where, and who has p->lock.
Places ==
  /\ \A p \in Procs : /\ pc[p] = "write" => p \in Writers
                      /\ pc[p] \in {"read", "copy"} => p \in Readers
                      /\ pc[p] = "copy" => lock = p
  /\ lock # NoProc => pc[lock] \in {"write", "read", "copy"}

\* The reference counts, and the one process that goes on to pipeclose.
Counted ==
  /\ \A e \in Ends : ref[e] = Cardinality(Users(e))
  /\ \A e \in Ends : open[e] <=> \E p \in Procs : End(p) = e /\ pc[p] \notin {"none", "closed"}
  /\ \A p \in Procs : pc[p] = "closing" =>
       \A q \in Procs : End(q) = End(p) /\ q # p => pc[q] \in {"none", "closed"}

FreedExact == freed = IF open["w"] \/ open["r"] THEN 0 ELSE 1

\* NoLostWakeup while somebody has p->lock: the writer who has it will wake the readers, and the
\* reader who copies will wake the writers.
Sleepers ==
  \A p \in Procs : pc[p] = "asleep" =>
    /\ ~killed[p]
    /\ p \in Readers => open["w"] /\ (Empty \/ (\E w \in Writers : killed[w]) \/ lock \in Writers)
    /\ p \in Writers => open["r"] /\ (Full \/ (lock \in Readers /\ pc[lock] = "copy"))

IInv == Types /\ Places /\ Counted /\ FreedExact /\ Sleepers

-----------------------------------------------------------------------------
\* After a step that leaves ref and open alone and moves nobody into Gone or out of it, the
\* counts are right.
LEMMA SameUsers ==
  ASSUME Types, Types', Counted, UNCHANGED <<ref, open>>,
         \A p \in Procs : pc'[p] # pc[p] => pc[p] \notin Gone /\ pc'[p] \notin Gone
  PROVE  Counted'
<1>1. ASSUME NEW e \in Ends PROVE Users(e)' = Users(e)
  BY Zenon DEF Users, Gone, End
<1>2. \A e \in Ends : (ref[e] = Cardinality(Users(e)))'
  BY <1>1, Zenon DEF Counted
<1>3. \A e \in Ends : (open[e] <=> \E p \in Procs : End(p) = e /\ pc[p] \notin {"none", "closed"})'
  BY Zenon DEF Counted, Gone, End
<1>4. \A p \in Procs : pc'[p] = "closing" =>
        \A q \in Procs : End(q) = End(p) /\ q # p => pc'[q] \in {"none", "closed"}
  BY Zenon DEF Counted, Gone, End
<1> QED
  BY <1>2, <1>3, <1>4, Zenon DEF Counted, End

\* p goes to l, the sleepers of the end e are woken, and nobody else moves.
Moved(p, e, l) ==
  /\ pc' \in [Procs -> Labels] /\ pc'[p] = l
  /\ \A q \in Procs : q # p =>
       pc'[q] = IF pc[q] = "asleep" /\ End(q) = e THEN IF e = "w" THEN "write" ELSE "read" ELSE pc[q]

\* wakeup makes every sleeper on the channel runnable and moves nobody else.
LEMMA WakeOthers ==
  ASSUME Types, NEW p \in Procs, NEW e \in Ends, NEW l \in Labels,
         l # "asleep" \/ End(p) # e,
         pc' = Wake([pc EXCEPT ![p] = l], e)
  PROVE  Moved(p, e, l)
<1> DEFINE f == [pc EXCEPT ![p] = l]
<1>1. f \in [Procs -> Labels] /\ f[p] = l /\ \A q \in Procs : q # p => f[q] = pc[q]
  BY Zenon DEF Types
<1>2. pc' = Wake(f, e)
  BY Zenon
<1> HIDE DEF f
<1>3. pc' \in [Procs -> Labels]
  BY <1>1, <1>2, Zenon DEF Wake, Labels
<1>4. \A q \in Procs : pc'[q] = IF f[q] = "asleep" /\ End(q) = e
                                THEN IF e = "w" THEN "write" ELSE "read" ELSE f[q]
  BY <1>2, Zenon DEF Wake
<1> QED
  BY <1>1, <1>3, <1>4, Zenon DEF Moved

\* pipealloc makes the invariant true: one user for each end.
LEMMA InitHolds ==
  ASSUME PipeConstants, Init
  PROVE  IInv
<1> PICK w \in Writers, r \in Readers :
      pc = [p \in Procs |-> IF p \in {w, r} THEN "idle" ELSE "none"]
  BY Zenon DEF Init
<1>1. Types
  BY DEF Init, Types, Ends, Labels
<1>2. Places
  BY Zenon DEF Init, Places
<1>3. End(w) = "w" /\ End(r) = "r" /\ w \in Procs /\ r \in Procs
  BY Zenon DEF PipeConstants, End, Procs
<1>4. Users("w") = {w} /\ Users("r") = {r}
  BY <1>3, Zenon DEF Users, Gone, End, PipeConstants
<1>5. Counted
  <2>1. \A e \in Ends : ref[e] = Cardinality(Users(e))
    BY <1>4, FS_Singleton, Zenon DEF Init, Ends
  <2>2. \A e \in Ends : open[e] <=> \E p \in Procs : End(p) = e /\ pc[p] \notin {"none", "closed"}
    BY <1>3, Zenon DEF Init, Ends
  <2> QED
    BY <2>1, <2>2, Zenon DEF Counted
<1>6. FreedExact /\ Sleepers
  BY Zenon DEF Init, FreedExact, Sleepers
<1> QED
  BY <1>1, <1>2, <1>5, <1>6, Zenon DEF IInv

\* A call of piperead or pipewrite only changes the caller's place.
LEMMA CallHolds ==
  ASSUME IInv, NEW p \in Procs, NEW count \in Counts, call(p, count)
  PROVE  IInv'
<1> USE DEF IInv
<1>1. Types'
  BY Zenon DEF call, Goto, Types, Labels
<1>2. Counted'
  BY <1>1, SameUsers, Zenon DEF call, Goto, Gone, Types
<1>3. Places'
  BY Zenon DEF call, Goto, Places, Types, Procs
<1>4. FreedExact' /\ Sleepers'
  BY DEF call, Goto, FreedExact, Sleepers, Types, Places, Empty, Full
<1> QED
  BY <1>1, <1>2, <1>3, <1>4, Zenon

\* acquire(&p->lock) succeeds only when nobody holds the lock.
LEMMA AcquireHolds ==
  ASSUME PipeConstants, IInv, NEW p \in Procs, acquire(p)
  PROVE  IInv'
<1> USE DEF IInv
<1>1. Types'
  BY Zenon DEF acquire, Types
<1>2. Counted'
  BY <1>1, SameUsers, Zenon DEF acquire
<1>3. Places'
  BY Zenon DEF acquire, Places, Types, PipeConstants
<1>4. FreedExact'
  BY Zenon DEF acquire, FreedExact
<1>5. NoProc \notin Writers /\ NoProc \notin Readers
  BY Zenon DEF PipeConstants, Procs
<1>6. Sleepers'
  BY <1>5, Zenon DEF acquire, Sleepers, Empty, Full
<1> QED
  BY <1>1, <1>2, <1>3, <1>4, <1>6, Zenon

\* A reader who sleeps goes on sleeping only where the pipe is empty or a writer was killed.
LEMMA ReadHolds ==
  ASSUME PipeConstants, IInv, NEW p \in Procs, piperead(p)
  PROVE  IInv'
<1> USE DEF IInv
<1>0. p \in Readers /\ p \notin Writers /\ lock = p /\ pc[p] = "read"
  BY Zenon DEF piperead, Places, PipeConstants
<1>1. Types'
  BY Zenon DEF piperead, Goto, Types, Labels
<1>2. Counted'
  BY <1>1, SameUsers, Zenon DEF piperead, Goto, Gone, Types
<1>3. Places'
  BY <1>0 DEF piperead, Goto, Places, Types, PipeConstants
<1>4. FreedExact'
  BY Zenon DEF piperead, FreedExact
<1>5. UNCHANGED <<Empty, Full, open, killed>>
  BY Zenon DEF piperead, Empty, Full
<1>6. Sleepers'
  <2> SUFFICES ASSUME NEW q \in Procs, pc'[q] = "asleep"
               PROVE  /\ ~killed[q]
                      /\ q \in Readers => open["w"] /\ (Empty \/ \E w \in Writers : killed[w])
                      /\ q \in Writers => open["r"] /\ Full
    BY <1>5, Zenon DEF Sleepers
  <2>1. CASE q = p
    BY <2>1, <1>0, Zenon DEF piperead, Goto, Types, MustWait
  <2>2. CASE q # p
    BY <2>2, <1>0, Zenon DEF piperead, Goto, Types, Sleepers
  <2> QED
    BY <2>1, <2>2, Zenon
<1> QED
  BY <1>1, <1>2, <1>3, <1>4, <1>6, Zenon

\* A reader who copies wakes the writers before it lets go of p->lock.
LEMMA CopyHolds ==
  ASSUME PipeConstants, IInv, NEW p \in Procs, copyOut(p)
  PROVE  IInv'
<1> USE DEF IInv
<1>0. p \in Readers /\ p \notin Writers /\ lock = p /\ pc[p] = "copy"
  BY Zenon DEF copyOut, Places, PipeConstants
<1>1. CASE i[p] < n[p] /\ ~Empty /\ UNCHANGED <<pc, lock>>
  <2>1. Types' /\ Places' /\ FreedExact'
    BY <1>1, Zenon DEF copyOut, Types, Places, FreedExact
  <2>2. Counted'
    BY <1>1, <2>1, SameUsers, Zenon DEF copyOut
  <2>3. Sleepers'
    BY <1>0, <1>1, Zenon DEF copyOut, Sleepers
  <2> QED
    BY <2>1, <2>2, <2>3, Zenon
<1>2. CASE AfterRead(p) /\ lock' = NoProc /\ UNCHANGED nread
  <2>1. /\ pc' \in [Procs -> Labels] /\ pc'[p] = "idle"
        /\ \A q \in Procs : q # p =>
             pc'[q] = IF pc[q] = "asleep" /\ End(q) = "w" THEN "write" ELSE pc[q]
    <3>1. "w" \in Ends /\ "idle" \in Labels /\ pc' = Wake([pc EXCEPT ![p] = "idle"], "w")
      BY <1>2, Zenon DEF Ends, Labels, AfterRead
    <3>2. Moved(p, "w", "idle")
      BY <3>1, WakeOthers, Zenon
    <3> QED
      BY <3>2, Zenon DEF Moved
  <2>2. Types'
    BY <1>2, <2>1, Zenon DEF copyOut, Types
  <2>3. Counted'
    BY <2>1, <2>2, <1>0, SameUsers, Zenon DEF copyOut, Gone
  <2>4. Places' /\ FreedExact'
    BY <1>0, <1>2, <2>1, Zenon DEF copyOut, Places, FreedExact, End, Procs
  <2>5. Sleepers'
    BY <1>0, <1>2, <2>1, Zenon DEF copyOut, Sleepers, End, Empty, Procs
  <2> QED
    BY <2>2, <2>3, <2>4, <2>5, Zenon
<1> QED
  BY <1>1, <1>2, Zenon DEF copyOut

\* A writer wakes the readers before it lets go of p->lock, unless it was killed or no reader
\* is left.
LEMMA WriteHolds ==
  ASSUME PipeConstants, IInv, NEW p \in Procs, pipewrite(p)
  PROVE  IInv'
<1> USE DEF IInv
<1>0. p \in Writers /\ p \notin Readers /\ lock = p /\ pc[p] = "write" /\ End(p) = "w"
  BY Zenon DEF pipewrite, Places, PipeConstants, End
<1>a. "r" \in Ends /\ "w" \in Ends /\ "idle" \in Labels /\ "asleep" \in Labels
  BY Zenon DEF Ends, Labels
<1>1. CASE ~Full /\ UNCHANGED <<pc, lock>>
  <2>1. Types' /\ Places' /\ FreedExact'
    BY <1>1, Zenon DEF pipewrite, Types, Places, FreedExact
  <2>2. Counted'
    BY <1>1, <2>1, SameUsers, Zenon DEF pipewrite
  <2>3. Sleepers'
    BY <1>0, <1>1, Zenon DEF pipewrite, Sleepers
  <2> QED
    BY <2>1, <2>2, <2>3, Zenon
<1>2. CASE Full /\ (~open["r"] \/ killed[p]) /\ Goto(p, "idle") /\ lock' = NoProc /\ UNCHANGED nwrite
  <2>1. Types'
    BY <1>2, <1>a, Zenon DEF pipewrite, Goto, Types
  <2>2. Counted'
    BY <1>0, <1>2, <2>1, SameUsers, Zenon DEF pipewrite, Goto, Gone, Types
  <2>3. Places' /\ FreedExact'
    BY <1>0, <1>2, Zenon DEF pipewrite, Goto, Places, FreedExact, Types
  <2>4. ASSUME NEW q \in Readers, pc[q] = "asleep" PROVE open["r"]
    <3>1. q \in Procs /\ End(q) = "r"
      BY Zenon DEF Procs, End, PipeConstants
    <3> QED
      BY <3>1, <2>4, <1>a, Zenon DEF Counted
  <2>5. Sleepers'
    BY <1>0, <1>2, <2>4, Zenon DEF pipewrite, Goto, Sleepers, Types, Empty, Full
  <2> QED
    BY <2>1, <2>2, <2>3, <2>5, Zenon
<1>3. ASSUME NEW l \in {"asleep", "idle"}, pc' = Wake([pc EXCEPT ![p] = l], "r"), lock' = NoProc,
             UNCHANGED nwrite, l = "asleep" => Full /\ open["r"] /\ ~killed[p]
      PROVE  IInv'
  <2>1. Moved(p, "r", l)
    BY <1>0, <1>3, <1>a, WakeOthers, Zenon
  <2>2. Types'
    BY <1>3, <2>1, Zenon DEF pipewrite, Types, Moved
  <2>3. Counted'
    BY <2>1, <2>2, <1>0, SameUsers, Zenon DEF pipewrite, Gone, Moved
  <2>4. Places' /\ FreedExact'
    BY <1>0, <1>3, <2>1, Zenon DEF pipewrite, Places, FreedExact, End, Procs, Moved
  <2>5. ASSUME NEW q \in Procs, pc'[q] = "asleep" PROVE q \in Writers
    BY <1>0, <2>1, <2>5, Zenon DEF Moved, End, Procs
  <2>6. UNCHANGED <<Full, open, killed>>
    BY <1>3, Zenon DEF pipewrite, Full
  <2>7. ASSUME NEW q \in Procs, pc'[q] = "asleep"
        PROVE  ~killed[q] /\ q \notin Readers /\ open["r"] /\ Full
    <3>1. q \in Writers /\ q \notin Readers
      BY <2>5, <2>7, Zenon DEF PipeConstants
    <3>2. CASE q = p
      BY <1>3, <2>1, <2>7, <3>1, <3>2, Zenon DEF Moved
    <3>3. CASE q # p
      BY <1>0, <2>1, <2>7, <3>1, <3>3, Zenon DEF Moved, Sleepers, End
    <3> QED
      BY <3>2, <3>3, Zenon
  <2>8. Sleepers'
    BY <2>6, <2>7, Zenon DEF Sleepers
  <2> QED
    BY <2>2, <2>3, <2>4, <2>8, Zenon
<1> QED
  BY <1>1, <1>2, <1>3, Zenon DEF pipewrite

\* kill marks the process and makes it runnable when it sleeps.
LEMMA KillHolds ==
  ASSUME PipeConstants, IInv, NEW p \in Procs, kill(p)
  PROVE  IInv'
<1> USE DEF IInv
<1>1. Types'
  BY Zenon DEF kill, KillWakes, Types, Labels
<1>2. Counted'
  BY <1>1, SameUsers, Zenon DEF kill, KillWakes, Gone, Types
<1>3. Places' /\ FreedExact'
  BY Zenon DEF kill, KillWakes, Places, FreedExact, Types, Procs
<1>4. UNCHANGED <<Empty, Full, open, lock>>
  BY Zenon DEF kill, Empty, Full
<1>5. /\ pc'[p] # "asleep"
      /\ \A q \in Procs : q # p => pc'[q] = pc[q] /\ killed'[q] = killed[q]
      /\ \A q \in Procs : killed[q] => killed'[q]
  BY Zenon DEF kill, KillWakes, Types
<1>6. pc[p] = "copy" => pc'[p] = "copy"
  BY Zenon DEF kill, KillWakes, Types
<1>7. Sleepers'
  BY <1>4, <1>5, <1>6, Zenon DEF Sleepers, Procs
<1> QED
  BY <1>1, <1>2, <1>3, <1>7, Zenon

\* Finitely many processes use an end, so the users can be counted.
LEMMA UsersFinite ==
  ASSUME PipeConstants, NEW e
  PROVE  IsFiniteSet(Users(e)) /\ Cardinality(Users(e)) \in Nat
<1>1. Users(e) \in SUBSET Procs
  BY Zenon DEF Users
<1> QED
  BY <1>1, FS_Subset, FS_CardinalityType, Zenon DEF PipeConstants

\* fork's filedup adds a user of the end and one to the file's ref.
LEMMA DupHolds ==
  ASSUME PipeConstants, IInv, NEW p \in Procs, NEW q \in Procs, filedup(p, q)
  PROVE  IInv'
<1> USE DEF IInv
<1>0. /\ pc[q] = "none" /\ pc'[q] = "idle" /\ \A x \in Procs : x # q => pc'[x] = pc[x]
      /\ pc[p] = "idle" /\ End(q) = End(p) /\ p # q
  BY Zenon DEF filedup, Goto, Types
<1>1. Types'
  BY DEF filedup, Goto, Types, Labels, End, Ends
<1>2. Places' /\ FreedExact'
  BY <1>0, Zenon DEF filedup, Places, FreedExact, Types
<1>3. Sleepers'
  BY <1>0, Zenon DEF filedup, Sleepers, Empty, Full, Procs
<1>4. \A e \in Ends : (ref[e] = Cardinality(Users(e)))'
  <2>1. Users(End(p))' = Users(End(p)) \cup {q} /\ q \notin Users(End(p))
    BY <1>0, Zenon DEF Users, Gone, End
  <2>2. \A e \in Ends : e # End(p) => Users(e)' = Users(e)
    BY <1>0, Zenon DEF Users, Gone, End
  <2>3. Cardinality(Users(End(p))') = Cardinality(Users(End(p))) + 1
    BY <2>1, UsersFinite, FS_AddElement, Zenon
  <2>4. End(p) \in Ends
    BY Zenon DEF End, Ends
  <2>5. ref'[End(p)] = ref[End(p)] + 1 /\ \A e \in Ends : e # End(p) => ref'[e] = ref[e]
    BY <2>4, Zenon DEF filedup, Types
  <2>6. ref'[End(p)] = Cardinality(Users(End(p))')
    BY <2>3, <2>4, <2>5, Zenon DEF Counted
  <2>7. \A e \in Ends : e # End(p) => ref'[e] = Cardinality(Users(e)')
    BY <2>2, <2>5 DEF Counted
  <2> QED
    BY <2>6, <2>7, Zenon
<1>5. Counted'
  BY <1>0, <1>4 DEF Counted, filedup, End
<1> QED
  BY <1>1, <1>2, <1>3, <1>5, Zenon

\* The last reference is the one that goes on to pipeclose.
LEMMA CloseHolds ==
  ASSUME PipeConstants, IInv, NEW p \in Procs, fileclose(p)
  PROVE  IInv'
<1> USE DEF IInv
<1> DEFINE E == End(p)
<1>0. /\ pc[p] = "idle" /\ pc'[p] = (IF ref[E] > 1 THEN "closed" ELSE "closing")
      /\ \A x \in Procs : x # p => pc'[x] = pc[x]
      /\ E \in Ends
  BY Zenon DEF fileclose, Goto, Types, End, Ends
<1>1. Types'
  BY DEF fileclose, Goto, Types, Labels, End, Ends
<1>2. Places' /\ FreedExact'
  BY <1>0, Zenon DEF fileclose, Places, FreedExact, Types
<1>3. Sleepers'
  BY <1>0, Zenon DEF fileclose, Sleepers, Empty, Full, Procs
<1>4. Users(E)' = Users(E) \ {p} /\ p \in Users(E)
  BY <1>0, Zenon DEF Users, Gone, End
<1>5. Cardinality(Users(E)') = Cardinality(Users(E)) - 1 /\ IsFiniteSet(Users(E)')
  BY <1>4, UsersFinite, FS_RemoveElement
<1>6. \A e \in Ends : (ref[e] = Cardinality(Users(e)))'
  <2>1. \A e \in Ends : e # E => Users(e)' = Users(e)
    BY <1>0, Zenon DEF Users, Gone, End
  <2>2. ref'[E] = ref[E] - 1 /\ \A e \in Ends : e # E => ref'[e] = ref[e]
    BY <1>0, Zenon DEF fileclose, Types
  <2>3. ref'[E] = Cardinality(Users(E)')
    BY <1>0, <1>5, <2>2, Zenon DEF Counted
  <2>4. \A e \in Ends : e # E => ref'[e] = Cardinality(Users(e)')
    BY <2>1, <2>2 DEF Counted
  <2> QED
    BY <2>3, <2>4, Zenon
<1>7. ref[E] = Cardinality(Users(E)) /\ ref[E] \in Int
  BY <1>0, Zenon DEF Counted, Types
<1>8. CASE ref[E] > 1
  <2>1. Users(E)' # {}
    BY <1>5, <1>7, <1>8, FS_EmptySet
  <2>2. PICK q \in Procs : End(q) = E /\ pc'[q] \notin Gone
    BY <2>1, Zenon DEF Users, End
  <2>3. Counted'
    BY <1>0, <1>6, <1>8, <2>2 DEF Counted, fileclose, End, Gone
  <2> QED
    BY <1>1, <1>2, <1>3, <2>3, Zenon
<1>9. CASE ~(ref[E] > 1)
  <2>1. Users(E)' = {}
    <3>1. Cardinality(Users(E)') \in Nat
      BY <1>5, FS_CardinalityType, Zenon
    <3> QED
      BY <3>1, <1>5, <1>7, <1>9, FS_EmptySet
  <2>2. \A q \in Procs : End(q) = E => pc'[q] \in Gone
    BY <2>1, Zenon DEF Users, End
  <2>3. \A q \in Procs : End(q) = E /\ q # p => pc'[q] \in {"none", "closed"}
    BY <1>0, <2>2, Zenon DEF Gone, Counted
  <2>4. Counted'
    BY <1>0, <1>6, <1>9, <2>3 DEF Counted, fileclose, End
  <2> QED
    BY <1>1, <1>2, <1>3, <2>4, Zenon
<1> QED
  BY <1>8, <1>9, Zenon

\* pipeclose finds no other user of its end, and wakes the sleepers of the other one.
LEMMA PipecloseHolds ==
  ASSUME PipeConstants, IInv, NEW p \in Procs, pipeclose(p)
  PROVE  IInv'
<1> USE DEF IInv
<1> DEFINE E == End(p)
           O == IF p \in Writers THEN "r" ELSE "w"
<1>0. E \in Ends /\ O \in Ends /\ E # O /\ Ends = {E, O} /\ pc[p] = "closing" /\ lock = NoProc
  BY Zenon DEF pipeclose, End, Ends
<1>1. Moved(p, O, "closed")
  BY <1>0, WakeOthers, Zenon DEF pipeclose, Labels
<1>2. open'[E] = FALSE /\ open'[O] = open[O] /\ open' \in [Ends -> BOOLEAN]
  BY <1>0, Zenon DEF pipeclose, Types
<1>3. Types'
  BY <1>1, <1>2, Zenon DEF pipeclose, Types, Moved
<1>4. Places'
  BY <1>0, <1>1, Zenon DEF pipeclose, Places, Moved, End, Procs
<1>5. \A q \in Procs : End(q) = E => pc'[q] \in {"none", "closed"}
  BY <1>0, <1>1 DEF Counted, Moved
<1>6. \A q \in Procs : /\ pc'[q] \in Gone <=> pc[q] \in Gone
                       /\ End(q) = O => (pc'[q] \in {"none", "closed"} <=> pc[q] \in {"none", "closed"})
                       /\ End(q) = O => (pc'[q] = "closing" <=> pc[q] = "closing")
  BY <1>0, <1>1, Zenon DEF Moved, Gone
<1>7. Counted'
  <2>1. \A e \in Ends : Users(e)' = Users(e)
    BY <1>6, Zenon DEF Users, End
  <2>2. \A e \in Ends : (ref[e] = Cardinality(Users(e)))'
    BY <2>1, Zenon DEF pipeclose, Counted
  <2>3. open'[E] <=> \E q \in Procs : End(q) = E /\ pc'[q] \notin {"none", "closed"}
    BY <1>2, <1>5, Zenon
  <2>4. open'[O] <=> \E q \in Procs : End(q) = O /\ pc'[q] \notin {"none", "closed"}
    <3>1. open[O] <=> \E q \in Procs : End(q) = O /\ pc[q] \notin {"none", "closed"}
      BY <1>0, Zenon DEF Counted
    <3> QED
      BY <1>2, <1>6, <3>1, Zenon
  <2>5. \A q \in Procs : End(q) \in {E, O}
    BY <1>0, Zenon DEF End, Ends
  <2>6. \A q \in Procs : pc'[q] = "closing" =>
          \A x \in Procs : End(x) = End(q) /\ x # q => pc'[x] \in {"none", "closed"}
    BY <1>0, <1>5, <1>6, <2>5 DEF Counted
  <2>7. \A e \in Ends : open'[e] <=> \E q \in Procs : End(q) = e /\ pc'[q] \notin {"none", "closed"}
    BY <1>0, <2>3, <2>4, Zenon
  <2> QED
    BY <2>2, <2>6, <2>7, Zenon DEF Counted, End
<1>8. open[E]
  BY <1>0, Zenon DEF Counted
<1>9. FreedExact'
  <2>1. freed = 0
    BY <1>0, <1>8, Zenon DEF FreedExact, Ends
  <2>2. freed' = IF \A e \in Ends : ~open'[e] THEN freed + 1 ELSE freed
    BY Zenon DEF pipeclose, Ends
  <2> QED
    BY <2>1, <2>2 DEF FreedExact, Ends
<1>10. \A q \in Procs : pc'[q] # "asleep"
  BY <1>0, <1>1, <1>5, Zenon DEF Moved, End
<1> QED
  BY <1>3, <1>4, <1>7, <1>9, <1>10, Zenon DEF Sleepers

-----------------------------------------------------------------------------
\* Every step preserves the invariant.
LEMMA NextHolds ==
  ASSUME PipeConstants, IInv, [Next]_vars
  PROVE  IInv'
<1>1. CASE UNCHANGED vars
  BY <1>1 DEF vars, IInv, Types, Places, Counted, FreedExact, Sleepers, Users, End, Empty, Full
<1>2. ASSUME NEW p \in Procs,
             \/ \E count \in Counts : call(p, count)
             \/ acquire(p) \/ pipewrite(p) \/ piperead(p) \/ copyOut(p)
             \/ \E q \in Procs : filedup(p, q)
             \/ fileclose(p) \/ pipeclose(p) \/ kill(p)
      PROVE  IInv'
  BY <1>2, CallHolds, AcquireHolds, WriteHolds, ReadHolds, CopyHolds, DupHolds, CloseHolds,
     PipecloseHolds, KillHolds, Zenon
<1> QED
  BY <1>1, <1>2, Zenon DEF Next

\* The invariant holds in every reachable state.
LEMMA Always ==
  ASSUME PipeConstants
  PROVE  Spec => []IInv
BY InitHolds, NextHolds, PTL DEF Spec

\* pipewrite, piperead, pipeclose and kill, with any number of readers and writers and a pipe of
\* any size: nobody sleeps who has something to do, but for what a killed writer leaves behind.
THEOREM PipeWakeups ==
  ASSUME PipeConstants
  PROVE  Spec => []NoLostWakeup
<1>1. IInv => NoLostWakeup
  <2>1. NoProc \notin Writers /\ NoProc \notin Readers
    BY Zenon DEF PipeConstants, Procs
  <2> QED
    BY <2>1, Zenon DEF IInv, Sleepers, NoLostWakeup
<1> QED
  BY <1>1, Always, PTL

\* filedup, fileclose and pipeclose: the page of the pipe is freed once, by the last process to
\* close an end, and not while any process has one.
THEOREM PipeFreed ==
  ASSUME PipeConstants
  PROVE  Spec => []FreedOnce
<1>1. IInv => FreedOnce
  <2> SUFFICES ASSUME IInv PROVE FreedOnce
    BY Zenon
  <2> DEFINE using == {p \in Procs : pc[p] \notin {"none", "closed"}}
  <2>1. \A p \in Procs : End(p) \in Ends
    BY Zenon DEF End, Ends
  <2>2. using # {} <=> open["w"] \/ open["r"]
    BY <2>1, Zenon DEF IInv, Counted, Ends
  <2> QED
    BY <2>2, Zenon DEF IInv, FreedExact, FreedOnce
<1> QED
  BY <1>1, Always, PTL
-----------------------------------------------------------------------------
\* The size of the pipe divides the range of its counters, as 512 does 2^32, and is below it.
RingConstants ==
  /\ PIPESIZE \in Nat \ {0} /\ UINT \in Nat /\ PIPESIZE < UINT /\ UINT % PIPESIZE = 0
  /\ Byte # {}

\* Quotient and remainder of a division.
LEMMA DivMod ==
  ASSUME NEW m \in Nat \ {0}, NEW a \in Int
  PROVE  /\ a % m \in Int /\ 0 <= a % m /\ a % m < m
         /\ a \div m \in Int /\ a = (m * (a \div m)) + (a % m)
OBVIOUS

\* The only multiple of m between -m and m is 0.
LEMMA Multiple ==
  ASSUME NEW m \in Nat \ {0}, NEW q \in Int, NEW r \in Int, r = m * q, -m < r, r < m
  PROVE  q = 0
<1>1. CASE q >= 1
  <2>1. m * q >= m
    BY <1>1
  <2> QED
    BY <2>1
<1>2. CASE q <= -1
  <2>1. m * q <= -m
    BY <1>2
  <2> QED
    BY <2>1
<1> QED
  BY <1>1, <1>2

\* Numbers that differ by a multiple of m have the same remainder.
LEMMA SameMod ==
  ASSUME NEW m \in Nat \ {0}, NEW a \in Int, NEW b \in Int, NEW k \in Int, a - b = m * k
  PROVE  a % m = b % m
<1> DEFINE qa == a \div m
           qb == b \div m
           ra == a % m
           rb == b % m
<1>1. ra \in Int /\ 0 <= ra /\ ra < m /\ qa \in Int /\ a = (m * qa) + ra
  BY DivMod
<1>2. rb \in Int /\ 0 <= rb /\ rb < m /\ qb \in Int /\ b = (m * qb) + rb
  BY DivMod
<1> HIDE DEF qa, qb, ra, rb
<1>3. ra - rb = m * (k - qa + qb)
  BY <1>1, <1>2
<1>4. k - qa + qb \in Int /\ ra - rb \in Int /\ -m < ra - rb /\ ra - rb < m
  BY <1>1, <1>2
<1>5. k - qa + qb = 0
  BY <1>3, <1>4, Multiple
<1>6. ra = rb
  BY <1>1, <1>2, <1>3, <1>5
<1> QED
  BY <1>6 DEF ra, rb

\* Numbers less than m apart do not.
LEMMA OtherMod ==
  ASSUME NEW m \in Nat \ {0}, NEW a \in Int, NEW b \in Int, a # b, -m < a - b, a - b < m
  PROVE  a % m # b % m
<1> SUFFICES ASSUME a % m = b % m PROVE FALSE
  OBVIOUS
<1> DEFINE qa == a \div m
           qb == b \div m
<1>1. a % m \in Int /\ qa \in Int /\ qb \in Int /\ a = (m * qa) + (a % m) /\ b = (m * qb) + (a % m)
  BY DivMod
<1> HIDE DEF qa, qb
<1>2. a - b = m * (qa - qb)
  BY <1>1
<1>3. qa - qb = 0
  BY <1>1, <1>2, Multiple
<1> QED
  BY <1>1, <1>3

\* A number below m is its own remainder.
LEMMA SmallMod ==
  ASSUME NEW m \in Nat \ {0}, NEW a \in Int, 0 <= a, a < m
  PROVE  a % m = a
<1> DEFINE q == a \div m
           r == a % m
<1>1. r \in Int /\ 0 <= r /\ r < m /\ q \in Int /\ a = (m * q) + r
  BY DivMod
<1> HIDE DEF q, r
<1>2. a - r = m * q
  BY <1>1
<1>3. q = 0
  BY <1>1, <1>2, Multiple
<1>4. a = r
  BY <1>1, <1>3
<1> QED
  BY <1>4 DEF r

\* Only the remainder of a summand counts.
LEMMA SumMod ==
  ASSUME NEW m \in Nat \ {0}, NEW x \in Int, NEW d \in Int
  PROVE  ((x % m) + d) % m = (x + d) % m
<1> DEFINE q == x \div m
           r == x % m
<1>1. q \in Int /\ r \in Int /\ x = (m * q) + r
  BY DivMod
<1> HIDE DEF q, r
<1>2. r + d \in Int /\ x + d \in Int /\ -q \in Int /\ (r + d) - (x + d) = m * (-q)
  BY <1>1
<1>3. (r + d) % m = (x + d) % m
  BY <1>2, SameMod, Zenon
<1> QED
  BY <1>3 DEF r

\* A counter that has wrapped points to the same byte.
LEMMA Spot ==
  ASSUME RingConstants, NEW x \in Int, NEW d \in Int
  PROVE  ((x % UINT) + d) % PIPESIZE = (x + d) % PIPESIZE
<1> DEFINE q == x \div UINT
           w == UINT \div PIPESIZE
           r == x % UINT
<1>1. UINT \in Nat \ {0} /\ PIPESIZE \in Nat \ {0}
  BY DEF RingConstants
<1>2. q \in Int /\ r \in Int /\ x = (UINT * q) + r
  BY <1>1, DivMod
<1>3. w \in Int /\ UINT = PIPESIZE * w
  BY <1>1, DivMod DEF RingConstants
<1> HIDE DEF q, w, r
<1>4. r + d \in Int /\ x + d \in Int /\ -(w * q) \in Int
  BY <1>2, <1>3
<1>5. x = ((PIPESIZE * w) * q) + r
  BY <1>2, <1>3
<1>6. (r + d) - (x + d) = PIPESIZE * (-(w * q))
  BY <1>1, <1>2, <1>3, <1>5
<1>7. (r + d) % PIPESIZE = (x + d) % PIPESIZE
  BY <1>1, <1>4, <1>6, SameMod, Zenon
<1> QED
  BY <1>7 DEF r

\* The distance of two counters, wrapped or not.
LEMMA Distance ==
  ASSUME RingConstants, NEW x \in Int, NEW y \in Int, 0 <= y - x, y - x < UINT
  PROVE  ((y % UINT) - (x % UINT)) % UINT = y - x
<1> DEFINE p == x \div UINT
           q == y \div UINT
           r == x % UINT
           s == y % UINT
<1>1. UINT \in Nat \ {0}
  BY DEF RingConstants
<1>2. p \in Int /\ r \in Int /\ x = (UINT * p) + r
  BY <1>1, DivMod
<1>3. q \in Int /\ s \in Int /\ y = (UINT * q) + s
  BY <1>1, DivMod
<1> HIDE DEF p, q, r, s
<1>4. (s - r) - (y - x) = UINT * (p - q)
  BY <1>1, <1>2, <1>3
<1>5. (s - r) % UINT = (y - x) % UINT
  <2>1. s - r \in Int /\ y - x \in Int /\ p - q \in Int
    BY <1>2, <1>3
  <2> QED
    BY <1>1, <1>4, <2>1, SameMod, Zenon
<1>6. (y - x) % UINT = y - x
  BY <1>1, SmallMod
<1> QED
  BY <1>5, <1>6 DEF r, s

Count == (nwrite - nread) % UINT

\* The counters, and how far they are apart.
Ring ==
  /\ nread \in Int /\ 0 <= nread /\ nread < UINT
  /\ Count \in Int /\ 0 <= Count /\ Count <= PIPESIZE
  /\ nwrite = (nread + Count) % UINT
  /\ data \in [0..PIPESIZE - 1 -> Byte]
  /\ Inside \in Seq(Byte) /\ Len(Inside) = Count

\* The queue that a pipe is.
Fifo == INSTANCE BoundedFifo WITH Size <- PIPESIZE, q <- Inside

\* The distance of the counters of a pipe with c bytes.
LEMMA RingCount ==
  ASSUME RingConstants, NEW r \in Int, NEW c \in Int, 0 <= r, r < UINT, 0 <= c, c <= PIPESIZE
  PROVE  (((r + c) % UINT) - r) % UINT = c
<1>1. UINT \in Nat \ {0} /\ PIPESIZE \in Nat \ {0}
  BY DEF RingConstants
<1>2. r % UINT = r
  BY <1>1, SmallMod, Zenon
<1>3. r + c \in Int /\ 0 <= (r + c) - r /\ (r + c) - r < UINT /\ (r + c) - r = c
  BY <1>1 DEF RingConstants
<1>4. (((r + c) % UINT) - (r % UINT)) % UINT = (r + c) - r
  BY <1>3, Distance, Zenon
<1> QED
  BY <1>2, <1>3, <1>4, Zenon

\* The bytes of a pipe with c of them, from place r on.
AreBytes(f, r, c) ==
  /\ [k \in 1..c |-> f[(r + k - 1) % PIPESIZE]] \in Seq(Byte)
  /\ Len([k \in 1..c |-> f[(r + k - 1) % PIPESIZE]]) = c

\* They are c bytes.
LEMMA RingBytes ==
  ASSUME RingConstants, NEW r \in Int, NEW c \in Int, 0 <= c, NEW f \in [0..PIPESIZE - 1 -> Byte]
  PROVE  AreBytes(f, r, c)
<1> DEFINE s == [k \in 1..c |-> f[(r + k - 1) % PIPESIZE]]
<1>1. PIPESIZE \in Nat \ {0}
  BY DEF RingConstants
<1>2. ASSUME NEW k \in 1..c PROVE f[(r + k - 1) % PIPESIZE] \in Byte
  <2>1. r + k - 1 \in Int
    OBVIOUS
  <2>2. (r + k - 1) % PIPESIZE \in 0..PIPESIZE - 1
    BY <1>1, <2>1, DivMod
  <2> QED
    BY <2>2, Zenon
<1>3. s \in [1..c -> Byte]
  BY <1>2, Zenon
<1>4. c \in Nat
  OBVIOUS
<1> HIDE DEF s
<1>5. s \in Seq(Byte) /\ Len(s) = c
  BY ONLY <1>3, <1>4
<1> QED
  BY <1>5, Zenon DEF s, AreBytes

\* pipealloc makes an empty pipe.
LEMMA RingInit ==
  ASSUME RingConstants, Init
  PROVE  Ring /\ Fifo!Init
<1>1. nread = 0 /\ nwrite = 0 /\ data \in [0..PIPESIZE - 1 -> Byte]
  BY DEF Init, RingConstants
<1>2. 0 % UINT = 0 /\ UINT \in Nat \ {0} /\ PIPESIZE \in Nat
  BY SmallMod DEF RingConstants
<1>3. Count = 0
  BY <1>1, <1>2 DEF Count
<1>4. Inside = <<>>
  BY <1>3 DEF Inside, Count
<1> QED
  BY <1>1, <1>2, <1>3, <1>4 DEF Ring, Fifo!Init

\* The counters, as constants.
LEMMA RingCounters ==
  ASSUME RingConstants, Ring
  PROVE  /\ UINT \in Nat \ {0} /\ PIPESIZE \in Nat \ {0} /\ PIPESIZE < UINT
         /\ \E r, c \in Int : /\ r = nread /\ 0 <= r /\ r < UINT
                              /\ c = Count /\ 0 <= c /\ c <= PIPESIZE
                              /\ nwrite = (r + c) % UINT /\ Len(Inside) = c
                              /\ Inside = [k \in 1..c |-> data[(r + k - 1) % PIPESIZE]]
<1>1. UINT \in Nat \ {0} /\ PIPESIZE \in Nat \ {0} /\ PIPESIZE < UINT
  BY DEF RingConstants
<1>2. Inside = [k \in 1..Count |-> data[(nread + k - 1) % PIPESIZE]]
  BY Zenon DEF Inside, Count
<1> QED
  BY <1>1, <1>2, Zenon DEF Ring

\* pipewrite of one byte puts it at the end of the queue.
LEMMA RingWrite ==
  ASSUME RingConstants, Ring, ~Full, NEW b \in Byte,
         data' = [data EXCEPT ![nwrite % PIPESIZE] = b], nwrite' = (nwrite + 1) % UINT, nread' = nread
  PROVE  Ring' /\ Fifo!Put
<1>0. UINT \in Nat \ {0} /\ PIPESIZE \in Nat \ {0} /\ PIPESIZE < UINT
  BY RingCounters, Zenon
<1>1. PICK r \in Int, c \in Int :
        /\ r = nread /\ 0 <= r /\ r < UINT /\ c = Count /\ 0 <= c /\ c <= PIPESIZE
        /\ nwrite = (r + c) % UINT /\ Len(Inside) = c
        /\ Inside = [k \in 1..c |-> data[(r + k - 1) % PIPESIZE]]
  BY RingCounters, Zenon
<1>2. c # PIPESIZE
  BY <1>1, Zenon DEF Full
<1>3. c < PIPESIZE /\ c + 1 <= PIPESIZE /\ r + c \in Int /\ c + 1 \in Int /\ 0 <= c + 1
  BY <1>0, <1>1, <1>2
<1> DEFINE s == (r + c) % PIPESIZE
<1>4. nwrite % PIPESIZE = s /\ s \in 0..PIPESIZE - 1
  <2>1. (((r + c) % UINT) + 0) % PIPESIZE = ((r + c) + 0) % PIPESIZE
    BY <1>3, Spot
  <2>2. (r + c) % UINT \in Int /\ s \in Int /\ 0 <= s /\ s < PIPESIZE
    BY <1>0, <1>3, DivMod, Zenon
  <2>3. ((r + c) % UINT) + 0 = (r + c) % UINT /\ (r + c) + 0 = r + c
    BY <1>3, <2>2
  <2>4. ((r + c) % UINT) % PIPESIZE = s
    BY <2>1, <2>3, Zenon
  <2>5. s \in 0..PIPESIZE - 1
    BY <1>0, <2>2
  <2> QED
    BY <1>1, <2>4, <2>5, Zenon
<1>5. nwrite' = (r + (c + 1)) % UINT
  <2>0. 1 \in Int
    OBVIOUS
  <2>1. (((r + c) % UINT) + 1) % UINT = ((r + c) + 1) % UINT
    BY <1>0, <1>3, <2>0, SumMod, Zenon
  <2>2. (r + c) + 1 = r + (c + 1)
    BY <1>1
  <2> QED
    BY <1>1, <2>1, <2>2, Zenon
<1>6. /\ data' \in [0..PIPESIZE - 1 -> Byte] /\ data'[s] = b
      /\ \A j \in 0..PIPESIZE - 1 : j # s => data'[j] = data[j]
  BY <1>4, Zenon DEF Ring
<1>7. Count' = c + 1
  BY <1>1, <1>3, <1>5, RingCount, Zenon DEF Count
<1>8. Inside' = [k \in 1..c + 1 |-> data'[(r + k - 1) % PIPESIZE]]
  BY <1>1, <1>7 DEF Inside, Count
<1>9. Inside' \in Seq(Byte) /\ Len(Inside') = c + 1
  <2>1. PICK f \in [0..PIPESIZE - 1 -> Byte] : f = data'
    BY <1>6, Zenon
  <2>2. PICK s1 : s1 = Inside'
    BY Zenon
  <2>3. s1 = [k \in 1..c + 1 |-> f[(r + k - 1) % PIPESIZE]]
    BY <1>8, <2>1, <2>2
  <2>4. AreBytes(f, r, c + 1)
    BY <1>1, <1>3, RingBytes, Zenon
  <2>5. s1 \in Seq(Byte) /\ Len(s1) = c + 1
    BY <2>3, <2>4, Zenon DEF AreBytes
  <2> QED
    BY <2>2, <2>5, Zenon
<1>10. Ring'
  BY <1>1, <1>3, <1>5, <1>6, <1>7, <1>9, Zenon DEF Ring
<1>11. ASSUME NEW k \in 1..c PROVE Inside'[k] = Inside[k]
  <2>0. r + k - 1 \in Int /\ r + k - 1 # r + c /\ -PIPESIZE < (r + k - 1) - (r + c) /\ (r + k - 1) - (r + c) < PIPESIZE
    BY <1>0, <1>1, <1>3
  <2>1. (r + k - 1) % PIPESIZE # s
    BY <1>0, <1>3, <2>0, OtherMod, Zenon
  <2>2. (r + k - 1) % PIPESIZE \in 0..PIPESIZE - 1
    BY <1>0, <2>0, DivMod
  <2>3. k \in 1..c + 1
    BY <1>1
  <2> QED
    BY <1>1, <1>6, <1>8, <2>1, <2>2, <2>3, Zenon
<1>12. Inside'[c + 1] = b
  <2>1. r + (c + 1) - 1 = r + c /\ c + 1 \in 1..c + 1
    BY <1>1
  <2> QED
    BY <1>6, <1>8, <2>1, Zenon
<1>13. Inside' = Append(Inside, b)
  <2>1. Inside \in Seq(Byte)
    BY Zenon DEF Ring
  <2> HIDE DEF Inside
  <2> QED
    BY <1>1, <1>9, <1>11, <1>12, <2>1
<1>14. Fifo!Put
  BY <1>1, <1>3, <1>13, Zenon DEF Fifo!Put
<1> QED
  BY <1>10, <1>14, Zenon

\* piperead of one byte takes it from the front.
LEMMA RingRead ==
  ASSUME RingConstants, Ring, ~Empty, nread' = (nread + 1) % UINT, UNCHANGED <<data, nwrite>>
  PROVE  Ring' /\ Fifo!Get
<1>0. UINT \in Nat \ {0} /\ PIPESIZE \in Nat \ {0} /\ PIPESIZE < UINT
  BY RingCounters, Zenon
<1>1. PICK r \in Int, c \in Int :
        /\ r = nread /\ 0 <= r /\ r < UINT /\ c = Count /\ 0 <= c /\ c <= PIPESIZE
        /\ nwrite = (r + c) % UINT /\ Len(Inside) = c
        /\ Inside = [k \in 1..c |-> data[(r + k - 1) % PIPESIZE]]
  BY RingCounters, Zenon
<1>2. c # 0
  <2>1. r % UINT = r
    BY <1>0, <1>1, SmallMod, Zenon
  <2>2. r + 0 = r
    BY <1>1
  <2> QED
    BY <1>1, <2>1, <2>2, Zenon DEF Empty
<1>3. /\ r + c \in Int /\ r + 1 \in Int /\ c - 1 \in Int /\ 0 <= c - 1 /\ c - 1 <= PIPESIZE
      /\ 0 <= (r + c) - (r + 1) /\ (r + c) - (r + 1) < UINT /\ (r + c) - (r + 1) = c - 1
  BY <1>0, <1>1, <1>2
<1>4. PICK t \in Int : t = (r + 1) % UINT /\ 0 <= t /\ t < UINT
  BY <1>0, <1>3, DivMod, Zenon
<1>5. nread' = t
  BY <1>1, <1>4, Zenon
<1>6. nwrite' = (t + (c - 1)) % UINT
  <2>1. (((r + 1) % UINT) + (c - 1)) % UINT = ((r + 1) + (c - 1)) % UINT
    BY <1>0, <1>3, SumMod, Zenon
  <2>2. (r + 1) + (c - 1) = r + c
    BY <1>1
  <2> QED
    BY <1>1, <1>4, <2>1, <2>2, Zenon
<1>7. data' \in [0..PIPESIZE - 1 -> Byte] /\ data' = data
  BY Zenon DEF Ring
<1>8. Count' = c - 1
  BY <1>3, <1>4, <1>5, <1>6, RingCount, Zenon DEF Count
<1>9. Inside' = [k \in 1..c - 1 |-> data[(t + k - 1) % PIPESIZE]]
  BY <1>5, <1>7, <1>8, Zenon DEF Inside, Count
<1>10. Inside' \in Seq(Byte) /\ Len(Inside') = c - 1
  <2>1. PICK f \in [0..PIPESIZE - 1 -> Byte] : f = data
    BY <1>7, Zenon
  <2>2. PICK s1 : s1 = Inside'
    BY Zenon
  <2>3. s1 = [k \in 1..c - 1 |-> f[(t + k - 1) % PIPESIZE]]
    BY <1>9, <2>1, <2>2, Zenon
  <2>4. AreBytes(f, t, c - 1)
    BY <1>1, <1>3, <1>4, RingBytes, Zenon
  <2>5. s1 \in Seq(Byte) /\ Len(s1) = c - 1
    BY <2>3, <2>4, Zenon DEF AreBytes
  <2> QED
    BY <2>2, <2>5, Zenon
<1>11. Ring'
  BY <1>3, <1>4, <1>5, <1>6, <1>7, <1>8, <1>10, Zenon DEF Ring
<1>12. ASSUME NEW k \in 1..c - 1 PROVE Inside'[k] = Inside[k + 1]
  <2>0. k - 1 \in Int /\ t + k - 1 = t + (k - 1) /\ r + (k + 1) - 1 = (r + 1) + (k - 1) /\ k + 1 \in 1..c
    BY <1>1, <1>4
  <2>1. (t + (k - 1)) % PIPESIZE = ((r + 1) + (k - 1)) % PIPESIZE
    BY <1>3, <1>4, <2>0, Spot, Zenon
  <2> QED
    BY <1>1, <1>9, <2>0, <2>1, Zenon
<1>13. Inside' = Tail(Inside) /\ Inside # <<>>
  <2>1. Inside \in Seq(Byte)
    BY Zenon DEF Ring
  <2>2. Len(Inside) = c /\ c \in Int /\ 0 < c
    BY <1>1, <1>2
  <2> HIDE DEF Inside
  <2>3. Inside # <<>> /\ Tail(Inside) \in Seq(Byte) /\ Len(Tail(Inside)) = c - 1
        /\ \A k \in 1..c - 1 : Tail(Inside)[k] = Inside[k + 1]
    BY ONLY <2>1, <2>2
  <2> QED
    BY ONLY <1>10, <1>12, <2>2, <2>3
<1> QED
  BY <1>11, <1>13, Zenon DEF Fifo!Get

\* Whatever does not move a counter leaves the queue as it is.
LEMMA RingSame ==
  ASSUME Ring, UNCHANGED <<data, nread, nwrite>>
  PROVE  Ring' /\ UNCHANGED Inside
<1>1. Inside' = Inside /\ Count' = Count
  BY Zenon DEF Inside, Count
<1> QED
  BY <1>1, Zenon DEF Ring

\* Every step of a pipe is one of the queue, or none.
LEMMA RingNext ==
  ASSUME RingConstants, Ring, [Next]_vars
  PROVE  Ring' /\ [Fifo!Put \/ Fifo!Get]_Inside
<1>1. CASE UNCHANGED <<data, nread, nwrite>>
  BY <1>1, RingSame, Zenon
<1>2. ASSUME NEW p \in Procs, pipewrite(p), ~UNCHANGED <<data, nread, nwrite>> PROVE Ring' /\ Fifo!Put
  <2>1. ~Full /\ nwrite' = (nwrite + 1) % UINT /\ nread' = nread
    BY <1>2, Zenon DEF pipewrite
  <2>2. PICK b \in Byte : data' = [data EXCEPT ![nwrite % PIPESIZE] = b]
    BY <1>2, Zenon DEF pipewrite
  <2> QED
    BY <2>1, <2>2, RingWrite, Zenon
<1>3. ASSUME NEW p \in Procs, copyOut(p), ~UNCHANGED <<data, nread, nwrite>> PROVE Ring' /\ Fifo!Get
  <2>1. ~Empty /\ nread' = (nread + 1) % UINT /\ UNCHANGED <<data, nwrite>>
    BY <1>3, Zenon DEF copyOut
  <2> QED
    BY <2>1, RingRead, Zenon
<1>4. CASE UNCHANGED vars
  BY <1>1, <1>4, Zenon DEF vars
<1>5. ASSUME NEW p \in Procs, NEW x,
             call(p, x) \/ acquire(p) \/ piperead(p) \/ filedup(p, x) \/ fileclose(p)
             \/ pipeclose(p) \/ kill(p)
      PROVE  UNCHANGED <<data, nread, nwrite>>
  BY <1>5, Zenon DEF call, acquire, piperead, filedup, fileclose, pipeclose, kill
<1> QED
  BY <1>1, <1>2, <1>3, <1>4, <1>5, Zenon DEF Next

\* What a pipe promises.
PipeIsFifo == Fifo!Spec

\* pipewrite and piperead, with any number of processes and any size that divides the range of
\* nread and nwrite: the bytes come out in the order in which they went in, none is lost and none
\* comes twice, also when the counters wrap.
THEOREM PipeImplementsFifo ==
  ASSUME RingConstants
  PROVE  Spec => PipeIsFifo
BY RingInit, RingNext, PTL DEF Spec, PipeIsFifo, Fifo!Spec
=============================================================================
