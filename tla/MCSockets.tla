------------------------------ MODULE MCSockets ------------------------------
(* Sockets on small instances: the connection c1 is opened by connect and     *)
(* moves more data than its rings hold, c2 is accepted.                       *)
EXTENDS Sockets, TLC
CONSTANTS c1, c2

Rx == (c1 :> 3 @@ c2 :> 0)
Tx == (c1 :> 1 @@ c2 :> 0)
=============================================================================
