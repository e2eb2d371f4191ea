---------------------------- MODULE MCFlashChip ----------------------------
(***************************************************************************)
(* FlashChip for TLC: a snapshot is written while sectors are erased, with *)
(* all sectors ordered or with the last one only, and at once after the    *)
(* last order, so that the history of the stores is empty.                 *)
(***************************************************************************)
EXTENDS FlashChip

MCSavedIn ==
  {<<"SECTOR_ERASE", [NoOrders EXCEPT !.adding = TRUE, !.ordered = o]>> :
     o \in {Sectors, {1}}}
=============================================================================
