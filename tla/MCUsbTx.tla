------------------------------ MODULE MCUsbTx ------------------------------
(* UsbTx with two buffers, two transfers, and a station vap beside a monitor *)
(* vap.                                                                       *)
EXTENDS UsbTx

CONSTANTS b1, b2, v1, mon

MCBufs == {b1, b2}
MCVaps == {v1, mon}
MCVapId == [v \in MCVaps |-> IF v = mon THEN NoId ELSE v1]
=============================================================================
