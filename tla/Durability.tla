----------------------------- MODULE Durability -----------------------------
(***************************************************************************)
(* What a durable board promises (ADR-0007), without a log or a snapshot:  *)
(* an operation that was acknowledged stays, and a board that is opened    *)
(* again holds exactly what was acknowledged.                              *)
(***************************************************************************)
CONSTANT Operation

VARIABLES durable,    \* operations the store acknowledged
          held        \* operations the board in memory holds

dVars == <<durable, held>>

DInit == durable = {} /\ held = {}

(* A batch of new operations is accepted and acknowledged. *)
Record == \E ops \in SUBSET (Operation \ durable) : /\ ops # {}
                                                    /\ durable' = durable \cup ops
                                                    /\ held' = held \cup ops

(* The board is gone from memory, or back with everything durable. *)
Forget == held' = {} /\ UNCHANGED durable
Reopen == held' = durable /\ UNCHANGED durable

DNext == Record \/ Forget \/ Reopen
DSpec == DInit /\ [][DNext]_dVars
=============================================================================
