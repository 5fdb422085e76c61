----------------------------- MODULE NeoGeoCard -----------------------------
(***************************************************************************)
(* A Neo Geo memory card as crates/neogeo-memcard reads and writes it, as  *)
(* large as its header says it is.  A save is as long as its chain.  Of    *)
(* the two tables, which a writer makes alike, only the first is read.     *)
(***************************************************************************)
EXTENDS Chains

CONSTANTS
    Size,   \* the blocks for data
    MAX,    \* how many entries the directory holds
    Zeros   \* what a block in no save holds

NoEntry == [name |-> 0, first |-> 0]
RESERVED == -3

Blank(header) ==
    [header |-> header, fat |-> Packed(<<>>, Size), dir |-> [slot \in 1 .. MAX |-> NoEntry],
     data |-> Filled(<<>>, Size, Zeros)]

NotRead == [ok |-> FALSE, saves |-> <<>>]

\* As many blocks are marked reserved before the first for data as the
\* layout has there.  One chain that does not end refuses the whole card.
parse(card) ==
    LET listed == {s \in 1 .. MAX : card.dir[s].name # 0}
        slots == InOrder(MAX, listed)
    IN IF card.fat[1] = RESERVED \/ \E s \in listed : Chain(card.fat, card.dir[s].first) = <<>>
       THEN NotRead
       ELSE [ok |-> TRUE,
             saves |-> [i \in DOMAIN slots |->
               [system |-> "neogeo", name |-> card.dir[slots[i]].name,
                data |-> Content(card.fat, card.data, card.dir[slots[i]].first)]]]

Lengths(saves) == [k \in DOMAIN saves |-> Len(saves[k].data)]

Fits(saves) ==
    /\ Len(saves) <= MAX
    /\ \A k \in DOMAIN saves : saves[k].data # <<>>
    /\ Total(Lengths(saves)) <= Size

build(saves, header) ==
    [ok |-> Fits(saves),
     card |->
       [header |-> header, fat |-> Packed(Lengths(saves), Size),
        dir |-> [slot \in 1 .. MAX |->
          IF slot \in DOMAIN saves
          THEN [name |-> saves[slot].name, first |-> StartsAt(Lengths(saves), slot)]
          ELSE NoEntry],
        data |-> Filled(Joined([k \in DOMAIN saves |-> saves[k].data]), Size, Zeros)]]

-----------------------------------------------------------------------------
(* What a console, which is external, makes of a card.                     *)

In(card, slot, blocks, game) ==
    [card EXCEPT !.fat = Given(@, blocks),
                 !.dir[slot] = [name |-> game.name, first |-> blocks[1]],
                 !.data = Written(@, blocks, game.data)]
Saved(card, game) ==
    {In(card, slot, blocks, game) :
       blocks \in FreeRuns(card.fat, Len(game.data)),
       slot \in {s \in 1 .. MAX : card.dir[s] = NoEntry}}

Deleted(card) ==
    {[card EXCEPT !.fat = Freed(@, Chain(card.fat, card.dir[slot].first)), !.dir[slot] = NoEntry] :
       slot \in {s \in 1 .. MAX : card.dir[s] # NoEntry}}

\* One link of the table, or one entry's start, is wrong.
Damaged(card) ==
    {[card EXCEPT !.fat[b] = link] :
       b \in 1 .. Size, link \in {CHAIN_END, FREE, RESERVED} \cup 0 .. Size}
    \cup {[card EXCEPT !.dir[slot].first = first] : slot \in 1 .. MAX, first \in 0 .. Size}
=============================================================================
