-------------------------- MODULE MCTestExecution ---------------------------
(* Hosts of TestExecution for TLC.                                         *)
EXTENDS TestExecution

Browser == {[runner |-> "browser", sharesMocks |-> FALSE]}
NativeSharing == {[runner |-> "native", sharesMocks |-> TRUE]}
HostileHosts == Browser \cup [runner : {"native"}, sharesMocks : BOOLEAN]
=============================================================================
