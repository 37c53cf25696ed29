------------------------------ MODULE Devices ------------------------------
(***************************************************************************)
(* The I2C buses and the random numbers of one board, side by side.        *)
(***************************************************************************)
EXTENDS BoardI2c, RandomBytes

vars == <<board, i2cVars, rngVars>>

Init == board \in Boards /\ I2cInit /\ RngInit

Next ==
    \/ I2cNext /\ UNCHANGED <<board, rngVars>>
    \/ RngNext /\ UNCHANGED <<board, i2cVars>>

Spec == Init /\ [][Next]_vars
=============================================================================
