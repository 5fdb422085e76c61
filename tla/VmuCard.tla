------------------------------ MODULE VmuCard ------------------------------
(***************************************************************************)
(* A Dreamcast VMU as crates/dreamcast-vmu reads and writes it.  An entry  *)
(* says where its save starts and in how many blocks, and whether it is a  *)
(* mini-game, which runs from where it lies: in one piece from the first   *)
(* block.  A save's data is whole blocks.                                  *)
(***************************************************************************)
EXTENDS Chains

CONSTANTS
    Size,   \* the blocks for saves
    MAX,    \* how many entries the directory holds
    Zeros   \* what a block in no save holds

NoEntry == [kind |-> "none", name |-> 0, first |-> 0, count |-> 0]

Blank(root) ==
    [root |-> root, fat |-> Packed(<<>>, Size), dir |-> [slot \in 1 .. MAX |-> NoEntry],
     data |-> Filled(<<>>, Size, Zeros)]

\* Exactly as many blocks as the entry claims.
follow_chain(fat, entry) ==
    /\ entry.first \in DOMAIN fat /\ entry.count > 0
    /\ Len(Chain(fat, entry.first)) = entry.count

NotRead == [ok |-> FALSE, saves |-> <<>>]

\* An entry of neither kind is an empty slot.
parse(vmu) ==
    LET listed == {s \in 1 .. MAX : vmu.dir[s].kind # "none"}
        slots == InOrder(MAX, listed)
    IN IF \E s \in listed : ~follow_chain(vmu.fat, vmu.dir[s]) THEN NotRead
       ELSE [ok |-> TRUE,
             saves |-> [i \in DOMAIN slots |->
               [system |-> "vmu", name |-> vmu.dir[slots[i]].name, kind |-> vmu.dir[slots[i]].kind,
                data |-> Content(vmu.fat, vmu.data, vmu.dir[slots[i]].first)]]]

\* Mutant: the order they come in.
AsTheyCome(saves) == [k \in DOMAIN saves |-> k]

\* The order saves are placed in: mini-games, and then the rest.
Placed(saves) ==
    LET games == {k \in DOMAIN saves : saves[k].kind = "game"}
    IN InOrder(Len(saves), games) \o InOrder(Len(saves), DOMAIN saves \ games)

Lengths(saves, order) == [i \in DOMAIN order |-> Len(saves[order[i]].data)]

Fits(saves) ==
    /\ Len(saves) <= MAX
    /\ \A k \in DOMAIN saves : saves[k].data # <<>>
    /\ Total(Lengths(saves, Placed(saves))) <= Size

\* The directory keeps the order the saves come in, wherever they are placed.
build(saves, root) ==
    LET order == Placed(saves)
        lengths == Lengths(saves, order)
        place(k) == CHOOSE i \in DOMAIN order : order[i] = k
    IN [ok |-> Fits(saves),
        card |->
          [root |-> root, fat |-> Packed(lengths, Size),
           dir |-> [slot \in 1 .. MAX |->
             IF slot \in DOMAIN saves
             THEN [kind |-> saves[slot].kind, name |-> saves[slot].name,
                   first |-> StartsAt(lengths, place(slot)), count |-> Len(saves[slot].data)]
             ELSE NoEntry],
           data |-> Filled(Joined([i \in DOMAIN order |-> saves[order[i]].data]), Size, Zeros)]]

-----------------------------------------------------------------------------
(* What a console, which is external, makes of a VMU: a save in any free   *)
(* blocks, a mini-game in the first ones, if it can have those.            *)

In(vmu, slot, blocks, game) ==
    [vmu EXCEPT !.fat = Given(@, blocks),
                !.dir[slot] = [kind |-> game.kind, name |-> game.name,
                               first |-> blocks[1], count |-> Len(game.data)],
                !.data = Written(@, blocks, game.data)]
Saved(vmu, game) ==
    {In(vmu, slot, blocks, game) :
       blocks \in {choice \in FreeRuns(vmu.fat, Len(game.data)) :
                     game.kind = "game" => \A i \in DOMAIN choice : choice[i] = i},
       slot \in {s \in 1 .. MAX : vmu.dir[s] = NoEntry}}

Deleted(vmu) ==
    {[vmu EXCEPT !.fat = Freed(@, Chain(vmu.fat, vmu.dir[slot].first)), !.dir[slot] = NoEntry] :
       slot \in {s \in 1 .. MAX : vmu.dir[s] # NoEntry}}

\* One link of the table, or one entry's kind, start or length, is wrong.
Damaged(vmu) ==
    {[vmu EXCEPT !.fat[b] = link] : b \in 1 .. Size, link \in {CHAIN_END, FREE} \cup 0 .. Size}
    \cup {[vmu EXCEPT !.dir[slot].kind = kind] : slot \in 1 .. MAX, kind \in {"none", "data", "game"}}
    \cup {[vmu EXCEPT !.dir[slot].first = first] : slot \in 1 .. MAX, first \in 0 .. Size}
    \cup {[vmu EXCEPT !.dir[slot].count = count] : slot \in 1 .. MAX, count \in 0 .. Size}

\* A mini-game there is one of lies in one piece from the first block.
GamesOf(vmu) == {s \in 1 .. MAX : vmu.dir[s].kind = "game"}
RunsInPlace(vmu) ==
    \A s \in 1 .. MAX : GamesOf(vmu) = {s} =>
      Chain(vmu.fat, vmu.dir[s].first) = [i \in 1 .. vmu.dir[s].count |-> i]
=============================================================================
