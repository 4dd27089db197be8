--------------------------- MODULE LayerOptionsMC ---------------------------
(* Palettes are told apart only by being the same or not.                    *)
EXTENDS LayerOptions

T == INSTANCE TLC
Symmetry == T!Permutations(Colours)

=============================================================================
