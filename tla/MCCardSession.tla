--------------------------- MODULE MCCardSession ---------------------------
(* Small instances of CardSession for TLC. *)
EXTENDS CardSession

Kept(name, files) == [name |-> name, files |-> files, system |-> FALSE]
A == Kept("a", <<"a1">>)
B == Kept("b", <<"b1", "b2", "b3">>)
C == Kept("c", <<"c1">>)
D == Kept("d", <<"d1">>)

\* A console's own folder, of one file, and a save nothing was written to.
Settings == [name |-> "settings", files |-> <<"s1">>, system |-> TRUE]
Clock == [name |-> "clock", files |-> <<>>, system |-> TRUE]
Unwritten == Kept("u", <<>>)

OneSystem == [c \in {1, 2} |-> "one"]
Each(n) == [c \in {1, 2} |-> n]

\* As on a Controller Pak, whose 128 pages are counted and 123 hold notes.
Three == Each(3)
Five == Each(5)

\* Cards with saves alone on them, and with a console's folder too.
MCDisks == {<<B>>, <<A, C, D>>, <<Settings, Clock, A>>, <<A, Unwritten, Settings>>}

\* They hold no more than a card reports, and can be written as they are.
ASSUME StartAssumption == StartWithinCapacity
ASSUME WritableAssumption == \A d \in MCDisks : \A c \in Cards : Taken(d) <= Room[c]
=============================================================================
