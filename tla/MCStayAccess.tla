----------------------------- MODULE MCStayAccess -----------------------------
\* Two rooms are interchangeable.
EXTENDS StayAccess, TLC
RoomSymmetry == Permutations(Rooms)
===============================================================================
