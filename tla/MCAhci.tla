------------------------------- MODULE MCAhci -------------------------------
(***************************************************************************)
(* An instance of Ahci: a disk of three sectors, and a buffer of three     *)
(* that lies in two pages, the frame of the second one before that of the  *)
(* first.  A request may cross from one page to the other, and may be      *)
(* longer than a PRDT entry.                                               *)
(***************************************************************************)
EXTENDS Ahci

MCLba == 0 .. 2
MCBuffer == 0 .. 2
MCMemory == 0 .. 4
MCPhysical == [b \in Buffer |-> IF b < 2 THEN b + 2 ELSE 0]

=============================================================================
