---------------------------- MODULE SaturnVolume ----------------------------
(***************************************************************************)
(* A Saturn backup volume as crates/saturn-backup reads and writes it.     *)
(* There is no directory and no table.  A block is tagged as the head of a *)
(* save or is not, and the rest of it is content.  The content of a save's *)
(* blocks in turn is one stream: its entry, the numbers of its blocks past *)
(* the first, 0, and its data to the byte - so that the list of blocks     *)
(* goes on in the blocks it lists.                                         *)
(*                                                                         *)
(* Content is counted in units of one block number.  An entry is two: the  *)
(* save's name, and its length.                                            *)
(***************************************************************************)
EXTENDS Chains

CONSTANTS
    Size,       \* the blocks for saves
    CONTENT,    \* units in a block, after its tag
    LongNames   \* the names that, read as text, are too long for an entry

ENTRY == 2

Blank(area) ==
    [area |-> area, tag |-> [b \in 1 .. Size |-> FALSE],
     content |-> [b \in 1 .. Size |-> [unit \in 1 .. CONTENT |-> 0]]]

-----------------------------------------------------------------------------
(* Reading: BackupRam::parse and read_save.                                *)

\* What follows the entry in a run of blocks.
Stream(volume, blocks) ==
    SubSeq(Joined([i \in DOMAIN blocks |-> volume.content[blocks[i]]]),
           ENTRY + 1, Len(blocks) * CONTENT)

\* The blocks of the save in block `first`, each joining the stream the list
\* is read from as it is listed, to the first number that is of no block.
Listed(volume, first) ==
    LET list[n \in 0 .. Size] ==
          IF n = 0 THEN <<first>>
          ELSE LET before == list[n - 1]
                   next == Stream(volume, before)[n]
               IN IF Len(before) = n /\ next \in 1 .. Size THEN Append(before, next) ELSE before
    IN list[Size]

\* The list ends with 0, names no block twice, and leaves as much as the
\* entry states.
read_save(volume, first) ==
    LET blocks == Listed(volume, first)
        stream == Stream(volume, blocks)
        listed == Len(blocks)
        rest == SubSeq(stream, listed + 1, Len(stream))
        size == volume.content[first][2]
    IN [ok |-> IsInjective(blocks) /\ stream[listed] = 0 /\ size <= Len(rest),
        blocks |-> blocks,
        save |-> [system |-> "saturn", name |-> volume.content[first][1],
                  data |-> SubSeq(rest, 1, Min({size, Len(rest)}))]]

NotRead == [ok |-> FALSE, saves |-> <<>>]
Heads(volume) == InOrder(Size, {b \in 1 .. Size : volume.tag[b]})

\* Mutant: each save has the volume to itself.
WalkEach(reads) == \A i \in DOMAIN reads : Len(reads[i].blocks) <= Size

\* The saves in the order of their first blocks.  Blocks may be shared, as
\* long as they come to no more than the volume's, each counted once for
\* every save it is in.
Walk(reads) == Total([i \in DOMAIN reads |-> Len(reads[i].blocks)]) <= Size

parse(volume) ==
    LET heads == Heads(volume)
        reads == [i \in DOMAIN heads |-> read_save(volume, heads[i])]
    IN IF Walk(reads) /\ \A i \in DOMAIN reads : reads[i].ok
       THEN [ok |-> TRUE, saves |-> [i \in DOMAIN reads |-> reads[i].save]]
       ELSE NotRead

-----------------------------------------------------------------------------
(* Building: BackupBuilder::build, no save placed by its caller.           *)

\* The entry and the list are in the same run as the data: the list has every
\* block but the first, and the 0 that closes it.
blocks_for(length) ==
    Min({n \in 1 .. ENTRY + length + 1 : n * CONTENT >= ENTRY + n + length})

Needed(saves) == [k \in DOMAIN saves |-> blocks_for(Len(saves[k].data))]

Fits(saves) ==
    /\ \A k \in DOMAIN saves : saves[k].data # <<>> /\ saves[k].name \notin LongNames
    /\ Total(Needed(saves)) <= Size

\* What a save's run of blocks holds, to the end of the run.
write_save(save, blocks) ==
    LET stream == <<save.name, Len(save.data)>> \o Tail(blocks) \o <<0>> \o save.data
    IN [unit \in 1 .. Len(blocks) * CONTENT |-> IF unit \in DOMAIN stream THEN stream[unit] ELSE 0]

Laid(volume, save, blocks) ==
    LET stream == write_save(save, blocks)
        used == ToSet(blocks)
        nth(b) == CHOOSE i \in DOMAIN blocks : blocks[i] = b
    IN [volume EXCEPT
          !.tag = [b \in 1 .. Size |-> IF b \in used THEN b = blocks[1] ELSE @[b]],
          !.content = [b \in 1 .. Size |->
             IF b \in used THEN SubSeq(stream, (nth(b) - 1) * CONTENT + 1, nth(b) * CONTENT)
             ELSE @[b]]]

\* Runs of blocks, in the order of the saves.
Placed(saves, area) ==
    LET run(k) == [i \in 1 .. Needed(saves)[k] |-> StartsAt(Needed(saves), k) + i - 1]
        placed[k \in 0 .. Len(saves)] ==
          IF k = 0 THEN Blank(area) ELSE Laid(placed[k - 1], saves[k], run(k))
    IN placed

build(saves, area) ==
    IF Fits(saves)
    THEN [ok |-> TRUE, card |-> Placed(saves, area)[Len(saves)]]
    ELSE [ok |-> FALSE, card |-> Blank(area)]

-----------------------------------------------------------------------------
(* What a console, which is external, makes of a volume.  It leaves a free *)
(* block zero.                                                             *)

Free(volume) ==
    1 .. Size \ UNION {ToSet(Listed(volume, b)) : b \in {head \in 1 .. Size : volume.tag[head]}}

Saved(volume, game) ==
    {Laid(volume, game, blocks) :
       blocks \in {run \in [1 .. blocks_for(Len(game.data)) -> Free(volume)] : IsInjective(run)}}

Deleted(volume) ==
    {LET gone == ToSet(Listed(volume, head))
     IN [volume EXCEPT !.tag = [b \in 1 .. Size |-> @[b] /\ b \notin gone],
                       !.content = [b \in 1 .. Size |-> IF b \in gone THEN Blank("").content[b] ELSE @[b]]] :
       head \in {b \in 1 .. Size : volume.tag[b]}}

\* One tag, or one unit, is wrong.
Damaged(volume) ==
    {[volume EXCEPT !.tag[b] = ~@] : b \in 1 .. Size}
    \cup {[volume EXCEPT !.content[b][unit] = value] :
            b \in 1 .. Size, unit \in 1 .. CONTENT, value \in 0 .. Size}
=============================================================================
