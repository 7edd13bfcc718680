------------------------------- MODULE MCDhcp --------------------------------
(* Two clients.  One address and two packets underway, or two addresses    *)
(* and one packet, without a fault; or one address and one packet with two *)
(* faults, such as a write that fails and the crash behind it.             *)
EXTENDS Dhcp, TLC

MCBounds ==
  {[ips |-> 1, packets |-> 2, faults |-> 0], [ips |-> 2, packets |-> 1, faults |-> 0],
   [ips |-> 1, packets |-> 1, faults |-> 2]}

\* The clients differ in nothing but their address.
MCSymmetry == Permutations(Clients)
=============================================================================
