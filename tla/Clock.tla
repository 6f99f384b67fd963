-------------------------------- MODULE Clock --------------------------------
(* Time as time.Now reads it, in whole units.  A module with time limits    *)
(* says when time may pass: a step that waits neither for a lock nor for    *)
(* the network takes none, and a network call ends by its timeout.          *)
EXTENDS Naturals

CONSTANT Horizon   \* bound: nothing is looked at after this time

VARIABLE now

ASSUME HorizonAssumption == Horizon \in Nat

Passes == /\ now < Horizon
          /\ now' = now + 1
=============================================================================
