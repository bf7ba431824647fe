---------------------------- MODULE DeviceLease ----------------------------
(***************************************************************************)
(* What the server of audio_forwarder promises about its audio devices, in *)
(* the terms of somebody who only watches the devices: a device is open    *)
(* for at most one connection, it is closed before another connection can  *)
(* have it, and a connection opens a device at most once.                  *)
(***************************************************************************)
CONSTANTS
  Conns,    \* the connections of clients
  Devices,  \* the device ids
  NoConn    \* what holds a device nobody has open

VARIABLES
  holder,   \* holder[d]: the connection device d is open for
  served    \* the connections that have had their turn

vars == <<holder, served>>

Init ==
  /\ holder = [d \in Devices |-> NoConn]
  /\ served = {}

\* A free device is opened for a connection that has had none.
Acquire(d, c) ==
  /\ holder[d] = NoConn
  /\ c \notin served
  /\ holder' = [holder EXCEPT ![d] = c]
  /\ served' = served \cup {c}

\* An open device is closed.
Release(d) ==
  /\ holder[d] # NoConn
  /\ holder' = [holder EXCEPT ![d] = NoConn]
  /\ UNCHANGED served

Next ==
  \/ \E d \in Devices, c \in Conns : Acquire(d, c)
  \/ \E d \in Devices : Release(d)

Spec == Init /\ [][Next]_vars
=============================================================================
