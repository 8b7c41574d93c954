---------------------------- MODULE MCRelayAlone ----------------------------
(***************************************************************************)
(* Instances of RelayAlone for TLC.  Connections are interchangeable.      *)
(***************************************************************************)
EXTENDS RelayAlone, TLC

CONSTANTS s1, r1, r2, c1, c2, c3

ConnSymmetry == Permutations(Conn)

=============================================================================
