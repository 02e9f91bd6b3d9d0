----------------------------- MODULE MCSlaveDrv -----------------------------
EXTENDS SlaveDrv

(* Room for the server and one connection more than the limit.             *)
Descriptors == 3..(MaxMasters + 4)
=============================================================================
