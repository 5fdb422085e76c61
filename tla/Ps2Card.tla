------------------------------ MODULE Ps2Card ------------------------------
(***************************************************************************)
(* A PlayStation 2 memory card as crates/ps2-memcard reads and writes it,  *)
(* with crates/one-saves-convert/src/card/ps2.rs around it.  A save is a   *)
(* directory of files in the root.  Directories and files are chains of    *)
(* clusters.  A chain says what follows what, and whoever names it says    *)
(* how long it is.                                                         *)
(*                                                                         *)
(* A cluster holds so many units, each a directory entry or as much data.  *)
(* Clusters are counted from the root's.                                   *)
(***************************************************************************)
EXTENDS Chains

CONSTANTS
    Size,     \* clusters that may be allocated: alloc_end
    UNITS,    \* units in a cluster
    Folders   \* the names of directories that are the console's own

Entry(mode, name, length, cluster) ==
    [mode |-> mode, name |-> name, length |-> length, cluster |-> cluster]
\* A directory naming itself or its parent, an entry deleted, data, and what
\* nothing was written to, which read as an entry is anything, and endless.
Dot(length) == Entry("dot", 0, length, 1)
Gone == Entry("gone", 0, 0, 0)
Datum(value) == Entry("data", value, 0, 0)
Erased == Entry("erased", 0, Size * UNITS + 1, 0)
IsDirectory(entry) == entry.mode \in {"dir", "erased"}
IsFile(entry) == entry.mode \in {"file", "erased"}

ClustersFor(units) == Max({1, (units + UNITS - 1) \div UNITS})

-----------------------------------------------------------------------------
(* Reading: MemoryCard::saves, and then the adapter.                       *)

NotRead == [ok |-> FALSE, units |-> <<>>]

\* So many units of the chain from a cluster: as many clusters as those take,
\* none of them twice, each allocated.
Units(card, path, length) ==
    IF /\ \A i \in DOMAIN path : path[i] \in 1 .. Size /\ card.fat[path[i]] # FREE
       /\ IsInjective(path)
    THEN [ok |-> TRUE,
          units |-> SubSeq(FlattenSeq([i \in DOMAIN path |-> card.clusters[path[i]]]), 1, length)]
    ELSE NotRead
read_chain(card, start, length) ==
    Units(card, Path(card.fat, start, (length + UNITS - 1) \div UNITS), length)

\* Entries that exist, of a directory with no more than the card has clusters.
Existing(read) ==
    [read EXCEPT !.units = SelectSeq(@, LAMBDA entry : entry.mode # "gone")]
read_directory(card, start, count) ==
    IF count > Size THEN NotRead ELSE Existing(read_chain(card, start, count))

\* A save's directory, whose length is what the root says it is.
Files(card, entry, ok, files, reads) ==
    [ok |-> ok /\ \A f \in DOMAIN reads : reads[f].ok,
     units |-> entry.length + Total([f \in DOMAIN files |-> files[f].length]),
     save |-> [system |-> "ps2", name |-> entry.name,
               files |-> [f \in DOMAIN files |-> [name |-> files[f].name, data |-> reads[f].units]]]]
read_save(card, entry) ==
    LET directory == read_directory(card, entry.cluster, entry.length)
        files == SelectSeq(directory.units, IsFile)
    IN Files(card, entry, directory.ok, files,
             [f \in DOMAIN files |-> read_chain(card, files[f].cluster, files[f].length)])

\* What is read, a byte once each time it is read, comes to no more than
\* the card has.
Budget(count, reads) ==
    count + Total([i \in DOMAIN reads |-> reads[i].units]) <= Size * UNITS

\* A directory that is not the console's own and has no files is passed over.
Saves(count, ok, reads) ==
    IF ok /\ (\A i \in DOMAIN reads : reads[i].ok) /\ Budget(count, reads)
    THEN [ok |-> TRUE,
          saves |-> SelectSeq([i \in DOMAIN reads |-> reads[i].save],
                              LAMBDA save : save.files # <<>> \/ save.name \in Folders)]
    ELSE [ok |-> FALSE, saves |-> <<>>]
Listed(card, count, root) ==
    LET listed == SelectSeq(root.units, IsDirectory)
    IN Saves(count, root.ok, [i \in DOMAIN listed |-> read_save(card, listed[i])])
parse(card) ==
    LET dot == read_chain(card, 1, 1)
        count == IF dot.ok THEN dot.units[1].length ELSE 0
    IN IF dot.ok THEN Listed(card, count, read_directory(card, 1, count))
       ELSE [ok |-> FALSE, saves |-> <<>>]

-----------------------------------------------------------------------------
(* Building: CardBuilder::build.                                           *)

\* The root, and then each save's directory and its files: the units of each,
\* named so many entries, and where in the card they are.
Pieces(saves) ==
    <<2 + Len(saves)>> \o FlattenSeq([k \in DOMAIN saves |->
        <<2 + Len(saves[k].files)>> \o [f \in DOMAIN saves[k].files |-> Len(saves[k].files[f].data)]])
\* Mutant: a save's directory is not counted.
PieceOfFiles(saves, k) == 2 + Total([j \in 1 .. k - 1 |-> Len(saves[j].files)])
PieceOf(saves, k) == 2 + Total([j \in 1 .. k - 1 |-> 1 + Len(saves[j].files)])
Clusters(saves) == LET pieces == Pieces(saves) IN [p \in DOMAIN pieces |-> ClustersFor(pieces[p])]

Fits(saves) == Total(Clusters(saves)) <= Size

\* Units cut up over so many clusters.
Cut(units, clusters) ==
    [c \in 1 .. clusters |-> [u \in 1 .. UNITS |->
       LET at == (c - 1) * UNITS + u IN IF at \in DOMAIN units THEN units[at] ELSE Erased]]

Directory(own, entries) == <<Dot(own), Dot(0)>> \o entries

build(saves) ==
    LET clusters == Clusters(saves)
        start(piece) == StartsAt(clusters, piece)
        root == [k \in DOMAIN saves |->
          Entry("dir", saves[k].name, 2 + Len(saves[k].files), start(PieceOf(saves, k)))]
        files(k) == [f \in DOMAIN saves[k].files |->
          LET file == saves[k].files[f]
          IN Entry("file", file.name, Len(file.data), start(PieceOf(saves, k) + f))]
        pieces == <<Directory(2 + Len(saves), root)>> \o FlattenSeq([k \in DOMAIN saves |->
          <<Directory(0, files(k))>> \o [f \in DOMAIN saves[k].files |-> saves[k].files[f].data]])
        laid == FlattenSeq([p \in DOMAIN pieces |-> Cut(pieces[p], clusters[p])])
    IN [ok |-> Fits(saves),
        card |-> [fat |-> Packed(clusters, Size),
                  clusters |-> Filled(laid, Size, [u \in 1 .. UNITS |-> Erased])]]

Blank == build(<<>>).card

-----------------------------------------------------------------------------
(* What a console, which is external, makes of a card: it has the first    *)
(* free clusters and the first free entry of the root, which it makes      *)
(* longer where there is none and never shorter.                           *)

Laid(card, clusters, units) ==
    [fat |-> Given(card.fat, clusters),
     clusters |-> Written(card.clusters, clusters, Cut(units, Len(clusters)))]

Root(card) == FlattenSeq([i \in DOMAIN Chain(card.fat, 1) |-> card.clusters[Chain(card.fat, 1)[i]]])
Listing(card) == SubSeq(Root(card), 1, card.clusters[1][1].length)

Saved(card, game) ==
    LET root == Listing(card)
        slot == Min({s \in DOMAIN root : root[s] = Gone} \cup {Len(root) + 1})
        grown == IF slot > Len(Root(card)) THEN 1 ELSE 0
        sizes == <<grown>> \o Tail(Clusters(<<game>>))
        free == SetToSortSeq({c \in 1 .. Size : card.fat[c] = FREE}, <)
        run(p) == SubSeq(free, StartsAt(sizes, p), StartsAt(sizes, p + 1) - 1)
        files == [f \in DOMAIN game.files |->
          Entry("file", game.files[f].name, Len(game.files[f].data), run(2 + f)[1])]
        entry == Entry("dir", game.name, 2 + Len(game.files), run(2)[1])
        longer == [s \in 1 .. Max({slot, Len(root)}) |->
          IF s = slot THEN entry ELSE IF s = 1 THEN Dot(Max({slot, Len(root)})) ELSE root[s]]
        named == Laid(Laid(card, run(2), Directory(0, files)), Chain(card.fat, 1) \o run(1), longer)
    IN IF Total(sizes) > Len(free) THEN {}
       ELSE {FoldLeft(LAMBDA laid, f : Laid(laid, run(2 + f), game.files[f].data),
                      named, [f \in DOMAIN game.files |-> f])}

Deleted(card) ==
    LET root == Listing(card)
    IN {LET entries == SelectSeq(read_directory(card, root[s].cluster, root[s].length).units, IsFile)
            gone == UNION {ToSet(Chain(card.fat, first)) :
                      first \in {root[s].cluster} \cup {entries[f].cluster : f \in DOMAIN entries}}
        IN [Laid(card, Chain(card.fat, 1), [root EXCEPT ![s] = Gone]) EXCEPT
              !.fat = Freed(@, SetToSeq(gone))] :
        s \in {t \in DOMAIN root : root[t].mode = "dir"}}

\* One link, or the length or the start one entry states, is wrong.
Damaged(card) ==
    {[card EXCEPT !.fat[c] = link] : c \in 1 .. Size, link \in {CHAIN_END, FREE} \cup 0 .. Size}
    \cup UNION {
      LET now == card.clusters[at[1]][at[2]]
      IN {[card EXCEPT !.clusters[at[1]][at[2]].length = length] :
            length \in (0 .. Size) \cap {now.length + off : off \in {-1, 1, 2}}}
         \cup {[card EXCEPT !.clusters[at[1]][at[2]].cluster = start] : start \in 0 .. Size} :
      at \in {place \in (1 .. Size) \X (1 .. UNITS) :
               card.clusters[place[1]][place[2]].mode \in {"dir", "file", "dot"}}}
=============================================================================
