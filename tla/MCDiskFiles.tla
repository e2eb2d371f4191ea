---------------------------- MODULE MCDiskFiles ----------------------------
(***************************************************************************)
(* DiskFiles for TLC.  Blocks are told apart by how they are linked and    *)
(* names by what they name, so both may be permuted.  What is left in      *)
(* blocks that nobody uses is never read again as long as programs leave   *)
(* unclosed files to Validate, so states that differ in it only are one.   *)
(* Nothing is promised of a spoiled disk, so all of those are one as well. *)
(***************************************************************************)
EXTENDS DiskFiles, TLC

Symmetry == Permutations(Block) \cup Permutations(Name)

View ==
  LET used == InUse
  IN IF spoiled THEN <<spoiled>>
     ELSE <<bam, saved, dir, [b \in used |-> next[b]], [b \in used |-> data[b]],
            channel, last_code, flags, sessions, files>>

=============================================================================
