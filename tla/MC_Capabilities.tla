-------------------------- MODULE MC_Capabilities ---------------------------
(* Two planes, a process for each of them and one for both. *)
EXTENDS Capabilities, TLC

CONSTANTS p1, p2, p3, f1, s1, any

TwoPlanes == {"control_plane", "workload"}
PlaneOf == (p1 :> "control_plane") @@ (p2 :> "workload") @@ (p3 :> any)
VerbsOf(s) == {"browser_navigate", "browser_install"}
=============================================================================
