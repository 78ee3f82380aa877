------------------------------ MODULE MCUsbTx ------------------------------
(* Instances of UsbTx for TLC: the frames alternate between the endpoints. *)
EXTENDS UsbTx

OddFrames == {f \in Frames : f % 2 = 1}

OutAndIn == [f \in Frames |-> (f + 1) % Eps]

============================================================================
