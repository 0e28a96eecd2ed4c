----------------------------- MODULE MCStation ------------------------------
(* Three bits a byte and one byte a value: frames of nine bits.  The readings   *)
(* have a negative temperature, all bits of the values set, and a checksum   *)
(* of 0.                                                                     *)
EXTENDS Station

MCReadings == {[rh |-> 2, temp |-> -1], [rh |-> 3, temp |-> 3], [rh |-> 0, temp |-> 0]}
=============================================================================
