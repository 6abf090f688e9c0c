------------------------- MODULE MCDriverConnection -------------------------
(* DriverConnection for TLC, with the values of the cells it delivers. *)
EXTENDS DriverConnection, CellValues, TLC

Symmetry == Permutations(Connections) \cup Permutations(Cursors)
              \cup Permutations(Results)

\* What a cursor has delivered are the values the cells said, whatever their fields
\* (map_field_type, the typed getters, Cursor::get_value).
ValuesFaithful == \A k \in Cursors : fetched[k] # <<>> => CellsFaithful
=============================================================================
