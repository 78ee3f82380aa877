------------------------------ MODULE MCUsbRx ------------------------------
(* Instances of UsbRx for TLC.                                             *)
EXTENDS UsbRx, TLC

(* Slots and buffers are interchangeable: no definition orders them.       *)
Symmetry == Permutations(Slots) \union Permutations(Skbs)

============================================================================
