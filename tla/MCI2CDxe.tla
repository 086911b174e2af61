------------------------------ MODULE MCI2CDxe ------------------------------
(***************************************************************************)
(* An instance of I2CDxe: a write of two bytes.                            *)
(***************************************************************************)
EXTENDS I2CDxe

MCShort == {<<[read |-> FALSE, len |-> 2]>>}
=============================================================================
