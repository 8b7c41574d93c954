---------------------------- MODULE MCStayMirror ----------------------------
(* Instances of StayMirror for TLC.                                        *)
EXTENDS StayMirror, TLC

HotelSymmetry == Permutations(Reservations) \cup Permutations(Rooms)
=============================================================================
