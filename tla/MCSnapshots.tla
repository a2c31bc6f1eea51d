---------------------------- MODULE MCSnapshots ----------------------------
(* Instances of Snapshots for TLC. *)
EXTENDS Snapshots

CONSTANTS r1, r2, e1, v1, v2, v3

At(wall, counter, actor) == [wall |-> wall, counter |-> counter, actor |-> actor]

(* Two actors writing one slot in one instant, a third write of it, and     *)
(* another slot in between.                                                 *)
Contended == {Stamped(Set(e1, "x", v1), At(1, 0, 1)),
              Stamped(Set(e1, "x", v2), At(1, 0, 2)),
              Stamped(Delete(e1),       At(1, 1, 1)),
              Stamped(Set(e1, "x", v3), At(2, 0, 1))}
=============================================================================
