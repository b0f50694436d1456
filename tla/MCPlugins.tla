----------------------------- MODULE MCPlugins -----------------------------
(* Small instances of Plugins for TLC.  In StructuresLimit turrets are limited, walls are not. *)
EXTENDS Plugins, TLC

CONSTANTS a, b, c, d, e, turret, wall, z1, z2, z3, z4

TurretsAndWalls == (a :> turret) @@ (b :> turret) @@ (c :> turret) @@ (d :> wall) @@ (e :> wall)
TwoTurrets == turret :> 2
ThreeZones == <<z1, z2, z3>>
=============================================================================
