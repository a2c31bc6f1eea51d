----------------------------- MODULE MCHistory -----------------------------
(* Instances of History for TLC. *)
EXTENDS History

CONSTANTS v1, v2, none

(* The ids two actors can mint. *)
Minted == Replica \X (1..MaxCreated)

Keys    == {"x", "fill", "angle", DeletedKey}
Values  == Colours \cup {Assumed, TRUE, FALSE}
None    == {}

(* Move, Style with a colour, Geometry with an angle. *)
Plain   == {<<"x">>, <<"x", "angle">>}

(* Style with a fill.  With Mutations <- Styling, HistoryWalks is            *)
(* violated: the first fill of a path is not undone (board.rs:280-289).      *)
Styling == {<<"fill">>}
=============================================================================
