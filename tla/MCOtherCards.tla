---------------------------- MODULE MCOtherCards ----------------------------
(* Small instances of OtherCards and its refinement for TLC. *)
EXTENDS OtherCards

MCFormats == {"n64", "vmu", "neogeo", "saturn", "ps2"}
MCSizes == [n64 |-> 3, vmu |-> 3, neogeo |-> 3, saturn |-> 4, ps2 |-> 5]

Save(system, name, data) == [system |-> system, name |-> name, data |-> data]
Game(kind, name, data) == [system |-> "vmu", name |-> name, kind |-> kind, data |-> data]
Directory(name, files) == [system |-> "ps2", name |-> name, files |-> files]

\* A save of one block and one of two, no two blocks alike; one of none where
\* a card cannot have one; a Saturn save whose list of blocks goes on in its
\* second, which reads as a save's first where it is tagged as one; and a PlayStation 2's own directory, empty.
MCGames ==
    {Save("n64", 1, <<11>>), Save("n64", 2, <<21, 22>>),
     Game("data", 1, <<11>>), Game("game", 2, <<21, 22>>), Game("data", 3, <<>>),
     Save("neogeo", 1, <<11>>), Save("neogeo", 2, <<21, 22>>), Save("neogeo", 3, <<>>),
     Save("saturn", 7, <<11>>), Save("saturn", 8, <<1, 0, 23, 24, 25>>), Save("saturn", 9, <<31, 32>>),
     Directory(1, <<[name |-> 1, data |-> <<Ps2!Datum(11)>>]>>),
     Directory(2, <<[name |-> 1, data |-> <<Ps2!Datum(21), Ps2!Datum(22)>>]>>),
     Directory(9, <<>>)}

\* A Saturn volume alone.
MCSaturnSize == [saturn |-> 4]
MCSaturnGames == {game \in MCGames : game.system = "saturn"}
=============================================================================
