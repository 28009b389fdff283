--------------------------- MODULE MCHeuristicTools ---------------------------
(***************************************************************************)
(* HeuristicTools for TLC.  Its texts are a whole call with one parameter  *)
(* and a function between two words, with one or two tokens missing or     *)
(* added; two calls in a row, with and without a word between them, with a *)
(* token missing or added; and a call whose parameter contains another.    *)
(***************************************************************************)
EXTENDS HeuristicTools

Call == <<"dot", "func", "name", "par", "name", "x", "/par">>
Function == <<"x", "dot", "func", "name", "x">>
Nested == <<"dot", "func", "name", "par", "name", "dot", "func", "name", "/par", "x">>

TwoCalls == {Call \o Call}

Inserted(s) == {InsertAt(s, i, t) : i \in 1..Len(s) + 1, t \in Tokens}
Removed(s) == {RemoveAt(s, i) : i \in 1..Len(s)}

NearCall(s) == {s} \cup Inserted(s) \cup Removed(s) \cup UNION {Inserted(r) : r \in Removed(s)}
MCTexts == NearCall(Call \o <<"x">>) \cup UNION {Inserted(s) : s \in Inserted(Function)}
             \cup TwoCalls \cup Inserted(Call \o <<"x">> \o Call) \cup Removed(Call \o <<"x">> \o Call \o <<"x">>)
             \cup {Nested} \cup Inserted(Nested)
=============================================================================
