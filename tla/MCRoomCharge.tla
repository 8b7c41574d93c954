---------------------------- MODULE MCRoomCharge ----------------------------
(***************************************************************************)
(* Instances of RoomCharge for TLC.  The two rooms are interchangeable:    *)
(* no definition names one, and Init admits the guest in either, so the    *)
(* safety runs use them as a symmetry set.                                 *)
(***************************************************************************)
EXTENDS RoomChargeInvariant, TLC

CONSTANTS s1, r1, r2

RoomSymmetry == Permutations({r1, r2})

=============================================================================
