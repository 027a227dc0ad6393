------------------------------- MODULE MCGame -------------------------------
(***************************************************************************)
(* Games for Game: one that saves, and whose next version asks for a save  *)
(* of another size; one that captures the mouse; and one that does both    *)
(* and ends itself.                                                        *)
(***************************************************************************)
EXTENDS Game

Saving    == [calls |-> {"save"}, keys |-> {}, sizes |-> {1, 4, 5}]
Capturing == [calls |-> {"mouse", "running"}, keys |-> Combination, sizes |-> {0}]
Both      == [calls |-> {"save", "mouse"}, keys |-> Combination, sizes |-> {4}]

AllGames    == {Saving, Capturing, Both}
SavingGames == {Saving}

HomeLists == {<<"game">>, <<"game", "home">>}
=============================================================================
