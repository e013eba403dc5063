----------------------------- MODULE LineDevice -----------------------------
(***************************************************************************)
(* What the console promises its readers: the line being typed can be      *)
(* edited until it is entered; what was entered is read in order, each     *)
(* byte once, no read going past the end of a line; and each control-D is  *)
(* one read of no bytes.                                                   *)
(***************************************************************************)
EXTENDS Integers, Sequences

CONSTANTS Size, Letters

VARIABLES ready,    \* what may be read
          editing,  \* the line being typed
          eof       \* the number of reads that returned nothing, modulo 2

vars == <<ready, editing, eof>>

Init == ready = <<>> /\ editing = <<>> /\ eof = 0

\* A line is entered by its end, by control-D, or because there is no room for more.
Type(c) ==
  /\ Len(ready) + Len(editing) < Size
  /\ LET line == Append(editing, c) IN
     IF c \in {"\n", "^D"} \/ Len(ready) + Len(line) = Size
     THEN ready' = ready \o line /\ editing' = <<>>
     ELSE editing' = line /\ UNCHANGED ready
  /\ UNCHANGED eof

Erase == \E k \in 0..Len(editing) : editing' = SubSeq(editing, 1, k) /\ UNCHANGED <<ready, eof>>

Read(k) ==
  /\ \A i \in 1..k : ready[i] # "^D" /\ (ready[i] = "\n" => i = k)
  /\ ready' = SubSeq(ready, k + 1, Len(ready))
  /\ UNCHANGED <<editing, eof>>

EndOfFile ==
  /\ ready # <<>> /\ Head(ready) = "^D"
  /\ ready' = Tail(ready) /\ eof' = 1 - eof
  /\ UNCHANGED editing

Next ==
  \/ \E c \in Letters \cup {"\n", "^D"} : Type(c)
  \/ Erase \/ EndOfFile
  \/ \E k \in 1..Len(ready) : Read(k)

Spec == Init /\ [][Next]_vars
=============================================================================
