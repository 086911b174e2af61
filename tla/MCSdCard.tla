------------------------------ MODULE MCSdCard ------------------------------
(***************************************************************************)
(* An instance of SdCard: a healthy standard card with blocks of 512 bytes. *)
(***************************************************************************)
EXTENDS SdCard

MCPlain == {[mult |-> 1, blocks |-> 3, hc |-> FALSE, known |-> TRUE, mbr |-> 0]}
=============================================================================
