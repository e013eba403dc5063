-------------------------------- MODULE Heap --------------------------------
(***************************************************************************)
(* umalloc.c: malloc() and free() over a circular list of free blocks, in  *)
(* order of their addresses.  An address is a number of Headers; base is   *)
(* the static Header that the list starts from, below the heap.  Only the  *)
(* headers matter: what the program keeps in its blocks is left out.       *)
(***************************************************************************)
EXTENDS Integers, FiniteSetsExt, Functions

CONSTANTS Top,       \* sbrk() refuses to go beyond Top
          MinUnits,  \* morecore() asks for no less; 4096 in the code
          HeaderSize, Sizes

VARIABLES s,       \* the Header at each address: ptr and size
          freep,   \* static freep, 0 before the first malloc()
          break,   \* the end of the heap
          blocks,  \* the blocks the program holds: <<header, bytes>>
          cores    \* history: the units that morecore() got

vars == <<s, freep, break, blocks, cores>>

base == 1
Start == 3
Units == Start..Top

Init ==
  /\ s = [a \in {base} \cup Units |-> [ptr |-> 0, size |-> 0]]
  /\ freep = 0 /\ break = Start
  /\ blocks = {} /\ cores = {}

\* The k-th block of the list h after p.
After(h, p) == LET f[k \in 0..Top] == IF k = 0 THEN p ELSE h[f[k - 1]].ptr IN f

\* free() stops at p: bp lies between p and the next, or p is the last one.
Precedes(h, p, bp) ==
  \/ bp > p /\ bp < h[p].ptr
  \/ p >= h[p].ptr /\ (bp > p \/ bp < h[p].ptr)

\* Mutant: a block is not joined to the one below it.
Linked_Above(h, p, bp) ==
  LET q == h[p].ptr
      up == IF bp + h[bp].size = q
            THEN [h EXCEPT ![bp] = [ptr |-> h[q].ptr, size |-> @.size + h[q].size]]
            ELSE [h EXCEPT ![bp].ptr = q]
  IN [up EXCEPT ![p].ptr = bp]

\* free(): bp is linked in after p, and joined to the blocks above and below it.
Linked(h, p, bp) ==
  LET q == h[p].ptr
      up == IF bp + h[bp].size = q
            THEN [h EXCEPT ![bp] = [ptr |-> h[q].ptr, size |-> @.size + h[q].size]]
            ELSE [h EXCEPT ![bp].ptr = q]
  IN IF p + up[p].size = bp
     THEN [up EXCEPT ![p] = [ptr |-> up[bp].ptr, size |-> @.size + up[bp].size]]
     ELSE [up EXCEPT ![p].ptr = bp]

\* free(), as a function: the headers and freep after it.
Freed(h, fp, bp) ==
  LET f == After(h, fp)
      p == f[Min({k \in 0..Top : Precedes(h, f[k], bp)})]
  IN [s |-> Linked(h, p, bp), freep |-> p]

\* malloc()'s loop once round the list after fp: the first block that is large enough is
\* unlinked, or its tail is given away.
Fits(h, fp, nunits) ==
  LET f == After(h, fp)
      last == Min({k \in 1..Top : f[k] = fp})
  IN {k \in 1..last : h[f[k]].size >= nunits}

Taken(h, fp, nunits) ==
  LET f == After(h, fp)
      k == Min(Fits(h, fp, nunits))
      prevp == f[k - 1]
      p == f[k]
      rest == h[p].size - nunits
  IN IF rest = 0
     THEN [s |-> [h EXCEPT ![prevp].ptr = h[p].ptr], freep |-> prevp, p |-> p]
     ELSE [s |-> [h EXCEPT ![p].size = rest, ![p + rest].size = nunits], freep |-> prevp, p |-> p + rest]

\* The headers of the blocks there are; what is left of the others is never read.
Kept(h, fp, held) ==
  LET list == Range(After(h, fp)) IN
  [a \in DOMAIN h |-> IF a \in list THEN h[a]
                      ELSE [ptr |-> 0, size |-> IF \E b \in held : b[1] = a THEN h[a].size ELSE 0]]

Set(h, fp, held) == s' = Kept(h, fp, held) /\ freep' = fp /\ blocks' = held

\* The block r.p is the program's.
Give(r, nbytes) == Set(r.s, r.freep, blocks \cup {<<r.p, nbytes>>})

nunits(nbytes) == (nbytes + HeaderSize - 1) \div HeaderSize + 1

\* malloc(nbytes), with morecore() when the list has no block for it.  It returns 0 when
\* sbrk() refuses, the list unchanged.
malloc(nbytes) ==
  LET nu == nunits(nbytes)
      h == IF freep = 0 THEN [s EXCEPT ![base] = [ptr |-> base, size |-> 0]] ELSE s
      fp == IF freep = 0 THEN base ELSE freep
      more == IF nu < MinUnits THEN MinUnits ELSE nu
      grown == Freed([h EXCEPT ![break].size = more], fp, break)
  IN \/ /\ Fits(h, fp, nu) # {}
        /\ Give(Taken(h, fp, nu), nbytes)
        /\ UNCHANGED <<break, cores>>
     \/ /\ Fits(h, fp, nu) = {} /\ break + more <= Top
        /\ Give(Taken(grown.s, grown.freep, nu), nbytes)
        /\ break' = break + more
        /\ cores' = cores \cup break..break + more - 1
     \/ /\ Fits(h, fp, nu) = {}
        /\ s' = h /\ freep' = fp
        /\ UNCHANGED <<break, blocks, cores>>

free(b) ==
  /\ LET r == Freed(s, freep, b[1]) IN Set(r.s, r.freep, blocks \ {b})
  /\ UNCHANGED <<break, cores>>

\* The program calls sbrk() itself, so that two calls of morecore() are not next to each other.
sbrk ==
  /\ break < Top
  /\ break' = break + 1
  /\ UNCHANGED <<s, freep, blocks, cores>>

Next == (\E n \in Sizes : malloc(n)) \/ (\E b \in blocks : free(b)) \/ sbrk

-----------------------------------------------------------------------------
List == IF freep = 0 THEN {} ELSE Range(After(s, freep))
Extent(a) == a..a + s[a].size - 1

\* After any sequence of malloc() and free() the free blocks and the program's blocks share
\* out the memory that morecore() got, each unit in exactly one; the program's blocks hold the
\* bytes it asked for; and no two free blocks are next to each other.
HeapExact ==
  LET all == (List \ {base}) \cup {b[1] : b \in blocks} IN
  /\ cores = UNION {Extent(a) : a \in all}
  /\ \A a, b \in all : a # b => Extent(a) \cap Extent(b) = {}
  /\ List \cap {b[1] : b \in blocks} = {}
  /\ \A b \in blocks : (s[b[1]].size - 1) * HeaderSize >= b[2]
  /\ \A a, b \in List \ {base} : a + s[a].size # b
=============================================================================
