--------------------------- MODULE MCCertRenewal ---------------------------
(***************************************************************************)
(* CertRenewal for TLC.                                                    *)
(***************************************************************************)
EXTENDS CertRenewal, TLC

WorkerSymmetry == Permutations(Workers)
WorkerAndNameSymmetry == {p @@ q : p \in Permutations(Workers), q \in Permutations(Names)}
=============================================================================
