-------------------------- MODULE MCDeviceService ---------------------------
(* Devices on two nodes, with engineers 1 and 3 at the first, 2 at the other. *)
EXTENDS DeviceService

SucursalOf == [e \in Engineers |-> IF e = 2 THEN 2 ELSE 1]
=============================================================================
