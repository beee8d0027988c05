------------------------------ MODULE LogFile ------------------------------
(***************************************************************************)
(* The file of an acceptor's or a learner's log (Logger): record q holds   *)
(* slot q, records never written are zero.  A file is its number of        *)
(* records, and the number that the running process believes it has, which *)
(* is read at start-up and after each append only.                         *)
(***************************************************************************)
EXTENDS Naturals, FiniteSetsExt

CONSTANT BlockSize   \* basic_file_state_blocks, records per append

ASSUME BlockSizeAssumption == BlockSize \in Nat \ {0}

EmptyFile == [items |-> 0, known |-> 0]

(* append_learner_as_need: one block, however far away record q is.        *)
Appended(f, q) ==
  IF q >= f.known
  THEN [items |-> f.items + BlockSize, known |-> f.items + BlockSize]
  ELSE f

(* Mutant: a write does not reach past the end of the file.                *)
WrittenInside(f, q) == Appended(f, q)

(* write_learner_log: a write past the end of the file extends it.         *)
Written(f, q) ==
  LET g == Appended(f, q) IN [g EXCEPT !.items = Max({@, q + 1})]

(* The constructor reads the size of the file.                             *)
Reopened(f) == [f EXCEPT !.known = f.items]

(* recover_from_log reads the records 1 .. items - 1, of which those in    *)
(* `written' hold a slot.                                                  *)
ReadFrom(f) == 1 .. (f.items - 1)

Holes(f, written) == ReadFrom(f) \ written

(* The last of the consecutive slots from 1, which min_sequence is set to  *)
(* when a hole is met; it stays 0 in a file that is full to the last record.*)
MinSequence(f, written) ==
  IF Holes(f, written) = {} THEN 0 ELSE Min(Holes(f, written)) - 1

(* The file holds no hole: the next slot would take another block.         *)
Full(f, written) == Holes(f, written) = {}
=============================================================================
