----------------------------- MODULE MCSessions -----------------------------
(* Small instances of Sessions: a login of each kind, two handlers.         *)
EXTENDS Sessions, TLC

MCFlow == [Login -> {"browser", "device", "google"}]
MCSubject == [l \in Login |-> "ann"]
=============================================================================
