-------------------------- MODULE MCLoadBalancer --------------------------
(***************************************************************************)
(* Instances of LoadBalancer for TLC.  Connections are interchangeable;    *)
(* the safety run uses the symmetry, the liveness run does not.            *)
(***************************************************************************)
EXTENDS LoadBalancer, TLC

ConnSymmetry == Permutations(Conn)
=============================================================================
