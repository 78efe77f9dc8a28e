------------------------------ MODULE LeaseLock ------------------------------
(***************************************************************************)
(* What LockCertificate / UnlockCertificate promise to their callers when  *)
(* the store is shared: a lock with a lease.  At most one holder has the   *)
(* lease.  Normally whoever is inside has it; once the lease is endangered *)
(* (it was not renewed in time) it may lapse while its holder is inside,   *)
(* and somebody else may enter.                                            *)
(***************************************************************************)
CONSTANTS
  Holders,  \* who may enter
  Nobody    \* the lease is free

VARIABLES
  lease,      \* the holder that has the lease, or Nobody
  inside,     \* the holders between LockCertificate and UnlockCertificate
  endangered  \* some lease was not renewed in time

leaseVars == <<lease, inside, endangered>>

LeaseInit ==
  /\ lease = Nobody
  /\ inside = {}
  /\ endangered = FALSE

Enter(h) ==
  /\ h \notin inside
  /\ lease = Nobody
  /\ lease' = h
  /\ inside' = inside \cup {h}
  /\ UNCHANGED endangered

\* Holders leave: one by Unlock, all holders of a process when it dies.
Leave(H) ==
  /\ H \subseteq inside
  /\ inside' = inside \ H
  /\ lease' = IF lease \in H THEN Nobody ELSE lease
  /\ UNCHANGED endangered

Endanger ==
  /\ endangered' = TRUE
  /\ UNCHANGED <<lease, inside>>

Lapse ==
  /\ endangered
  /\ lease' = Nobody
  /\ UNCHANGED <<inside, endangered>>

LeaseNext ==
  \/ \E h \in Holders : Enter(h)
  \/ \E H \in SUBSET Holders : Leave(H)
  \/ Endanger
  \/ Lapse

LeaseSpec == LeaseInit /\ [][LeaseNext]_leaseVars
=============================================================================
