------------------------------ MODULE MCInput ------------------------------
(* Instances of Input.                                                       *)
EXTENDS Input
CONSTANTS serial, keyb, r1, r2
MCIdevs == <<serial, keyb>>
MCReaders == {r1, r2}
=============================================================================
