------------------------------- MODULE MCRelay -------------------------------
(* Relay for TLC: streams longer than the buffers between their ends.       *)
EXTENDS Relay

Long == [up |-> 4, down |-> 4]
=============================================================================
