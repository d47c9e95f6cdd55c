------------------------------ MODULE PortLease ------------------------------
(***************************************************************************)
(* What the tunnel service promises of the ports of the chisel server,     *)
(* whoever asks for a tunnel, loses it or is forgotten: a holder keeps the *)
(* port it got until it gives it up, and a port has one holder at a time.  *)
(***************************************************************************)
CONSTANTS Holders, Ports, NoPort

VARIABLE lease      \* the port of each holder, or NoPort

Acquire(h, p) ==
  /\ lease[h] = NoPort
  /\ \A k \in Holders : lease[k] # p
  /\ lease' = [lease EXCEPT ![h] = p]

\* One tunnel closes, or the program restarts and all do.
Release(H) == lease' = [h \in Holders |-> IF h \in H THEN NoPort ELSE lease[h]]

Init == lease = [h \in Holders |-> NoPort]

Next == \/ \E h \in Holders, p \in Ports : Acquire(h, p)
        \/ \E H \in SUBSET Holders : Release(H)

Spec == Init /\ [][Next]_lease
=============================================================================
