------------------------------ MODULE MCIndex ------------------------------
(***************************************************************************)
(* A capability, its mirror and another capability.  The mirror is under  *)
(* a root of lower authority that is walked first, and is known by another *)
(* canonical key.  The second text of the first file declares a new        *)
(* version, hence a new URI, so that its source moves from one row to      *)
(* another.  At the start there is the mirror or the other capability.     *)
(***************************************************************************)
EXTENDS Index

CONSTANTS p1, p2, p3, c1, c2, u1, u2, u3, k1, k2, k3, k4, d1

MCPathPos == p2 :> 1 @@ p1 :> 2 @@ p3 :> 3
MCUriOrder == <<u1, u2, u3>>
MCKeyOf == (p1 :> (c1 :> k1 @@ c2 :> k2)) @@ (p2 :> (c2 :> k3))
             @@ (p3 :> (c1 :> k4 @@ c2 :> k4))
MCUriOf == (p1 :> (c1 :> u1 @@ c2 :> u2)) @@ (p2 :> (c2 :> u1))
             @@ (p3 :> (c1 :> u3 @@ c2 :> u3))
MCNameOf == [p \in Path |-> IF p = p3 THEN "other" ELSE "name"]
MCRootOf == [p \in Path |-> p]
MCRankOf == [p \in Path |-> IF p = p2 THEN 1 ELSE 2]
MCInitDisks == {p1 :> c1 @@ p2 :> c2 @@ p3 :> None, p1 :> c1 @@ p2 :> None @@ p3 :> c1}
============================================================================
