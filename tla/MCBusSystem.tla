---------------------------- MODULE MCBusSystem ----------------------------
(* Constants for model checking BusSystem: the clients of cmbusclient.c. *)
EXTENDS BusSystem

DemoNames == {"", "demo1", "demo2"}
DemoPairs == {<<n, n>> : n \in DemoNames} \cup ({""} \X DemoNames)
=============================================================================
