------------------------ MODULE MCPublicationBundle ------------------------
(* A small instance of PublicationBundle for TLC: two objects, and the      *)
(* bundles of a create, of an update that adds a member and of one that     *)
(* replaces a member beside one that stays.                                 *)
EXTENDS PublicationBundle

CONSTANTS a, b, h1, h2

One == [u \in URIs |-> IF u = a THEN h1 ELSE Absent]
Two == [u \in URIs |-> h1]
Replaced == [u \in URIs |-> IF u = a THEN h2 ELSE h1]
KeepsMember == {Two, Replaced}
AddsMember == {One, Two}
=============================================================================
