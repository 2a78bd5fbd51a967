--------------------------- MODULE MCEngineStreams --------------------------
(* Instances of EngineStreams for TLC.                                     *)
EXTENDS EngineStreams, FiniteSets, TLC
(* Slots are interchangeable, and so are stream objects.                   *)
Symmetry == Permutations(Slots) \cup Permutations(DStreams)
(* The shared pool: behaviours that keep to one slot, for streams of both  *)
(* directions, and those that use several, for unidirectional streams.  A  *)
(* bound on the states, of a run that checks safety only.                  *)
UsedSlots == {s \in Slots : slot[s] /= EmptySlot}
OneSlotOrUni == Cardinality(UsedSlots) <= 1 \/ \A s \in UsedSlots : ~slot[s].bidi
=============================================================================
