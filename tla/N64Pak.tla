------------------------------- MODULE N64Pak -------------------------------
(***************************************************************************)
(* A Nintendo 64 Controller Pak as crates/n64-cpak reads and writes it.    *)
(* Pages are counted from the first a note's data can have, and a note's   *)
(* data is whole pages.  The index is kept twice; a note table entry names *)
(* where its note starts and nothing else of where it is.                  *)
(***************************************************************************)
EXTENDS Chains

CONSTANTS
    Size,       \* the pages for data
    MAX,        \* how many notes a pak holds
    Zeros       \* what a page in no note holds

NoNote == [name |-> 0, start |-> 0]

Blank(label) ==
    [label |-> label,
     index |-> <<Packed(<<>>, Size), Packed(<<>>, Size)>>,
     notes |-> [slot \in 1 .. MAX |-> NoNote],
     data |-> Filled(<<>>, Size, Zeros)]

plausible(link) == link \in {FREE, CHAIN_END} \cup 1 .. Size

\* Mutant: the index is the first copy, whatever is in it.
PrimaryIndex(pak) == pak.index[1]

\* The backup stands in for an index with any link that is implausible; with
\* neither there is no pak.
index_table(pak) ==
    LET usable == {copy \in 1 .. 2 : \A p \in 1 .. Size : plausible(pak.index[copy][p])}
    IN IF usable = {} THEN <<>> ELSE pak.index[Min(usable)]

NotRead == [ok |-> FALSE, saves |-> <<>>]

\* A note that starts on no data page is an empty slot.  One whose chain does
\* not end refuses the whole pak.
parse(pak) ==
    LET table == index_table(pak)
        listed == {s \in 1 .. MAX : pak.notes[s].start \in 1 .. Size}
        slots == InOrder(MAX, listed)
    IN IF table = <<>> \/ \E s \in listed : Chain(table, pak.notes[s].start) = <<>> THEN NotRead
       ELSE [ok |-> TRUE,
             saves |-> [i \in DOMAIN slots |->
               [system |-> "n64", name |-> pak.notes[slots[i]].name,
                data |-> Content(table, pak.data, pak.notes[slots[i]].start)]]]

Lengths(saves) == [k \in DOMAIN saves |-> Len(saves[k].data)]

Fits(saves) == Len(saves) <= MAX /\ Total(Lengths(saves)) <= Size

\* Notes one after the other in the order of the note table.  A note with no
\* data has the page after it all the same, which may be the next note's.
\* Of the ID area only the label is kept.
build(saves, label) ==
    LET index == Packed(Lengths(saves), Size)
    IN [ok |-> Fits(saves),
        card |->
          [label |-> label, index |-> <<index, index>>,
           notes |-> [slot \in 1 .. MAX |->
             IF slot \in DOMAIN saves
             THEN [name |-> saves[slot].name, start |-> StartsAt(Lengths(saves), slot)]
             ELSE NoNote],
           data |-> Filled(Joined([k \in DOMAIN saves |-> saves[k].data]), Size, Zeros)]]

-----------------------------------------------------------------------------
(* What a console, which is external, makes of a pak: it keeps both copies *)
(* of the index.                                                           *)

In(pak, slot, pages, game) ==
    [pak EXCEPT !.index = LET table == Given(pak.index[1], pages) IN <<table, table>>,
                !.notes[slot] = [name |-> game.name, start |-> pages[1]],
                !.data = Written(pak.data, pages, game.data)]
Saved(pak, game) ==
    {In(pak, slot, pages, game) :
       pages \in FreeRuns(pak.index[1], Len(game.data)),
       slot \in {s \in 1 .. MAX : pak.notes[s] = NoNote}}

Deleted(pak) ==
    {[pak EXCEPT !.index = LET table == Freed(pak.index[1], Chain(pak.index[1], pak.notes[slot].start))
                           IN <<table, table>>,
                 !.notes[slot] = NoNote] :
       slot \in {s \in 1 .. MAX : pak.notes[s] # NoNote}}

\* One link in one copy of the index, or one note's start, is wrong.
Damaged(pak) ==
    {[pak EXCEPT !.index[copy][p] = link] :
       copy \in 1 .. 2, p \in 1 .. Size, link \in {CHAIN_END, FREE} \cup 0 .. Size}
    \cup {[pak EXCEPT !.notes[slot].start = start] : slot \in 1 .. MAX, start \in 0 .. Size}
=============================================================================
