---------------------------- MODULE MCKeypadDxe ----------------------------
(***************************************************************************)
(* Instances of KeypadDxe: one key code besides the partial key, queues of *)
(* two keys, two notification nodes.                                       *)
(***************************************************************************)
EXTENDS KeypadDxe

CONSTANTS a, null

MCCodes == {a, null}
Plain(c) == [code |-> c, state |-> 0]
MCDeviceKeys == {Plain(a), Plain(null)}
MCDeviceModifiedKeys == {[Plain(a) EXCEPT !.state = 1], Plain(null)}
=============================================================================
