------------------------------- MODULE Chains -------------------------------
(***************************************************************************)
(* Lists as the code goes through them, and chains of blocks.  What a      *)
(* filter keeps and what a count comes to is a function of how much of the *)
(* list has been gone through, the form they are proved about in.          *)
(*                                                                         *)
(* Chains are linked by an allocation table, as the Controller Pak, VMU    *)
(* and Neo Geo crates have them.  The table is a sequence: each block's    *)
(* link is the next block of its save, or CHAIN_END, or FREE where it is   *)
(* in no save, or 0 for any number that is neither.  Blocks are counted    *)
(* from the first a save may have.                                         *)
(***************************************************************************)
EXTENDS Integers, Sequences, SequencesExt, FiniteSetsExt

\* The elements of one of the kinds, in order.
Those(s, kinds) ==
    LET kept[n \in 0 .. Len(s)] ==
          IF n = 0 THEN <<>>
          ELSE IF s[n].kind \in kinds THEN Append(kept[n - 1], s[n]) ELSE kept[n - 1]
    IN kept[Len(s)]

\* The numbers of a set, of those up to n, in order.
Picked(n, numbers) ==
    LET kept[k \in 0 .. n] ==
          IF k = 0 THEN <<>> ELSE IF k \in numbers THEN Append(kept[k - 1], k) ELSE kept[k - 1]
    IN kept
InOrder(n, numbers) == Picked(n, numbers)[n]

\* What the first so many of a list of numbers come to, and what all do.
Summed(s) ==
    LET sum[n \in 0 .. Len(s)] == IF n = 0 THEN 0 ELSE sum[n - 1] + s[n]
    IN sum
Total(s) == Summed(s)[Len(s)]

\* The first so many lists end to end, and all of them.
Laced(s) ==
    LET all[n \in 0 .. Len(s)] == IF n = 0 THEN <<>> ELSE all[n - 1] \o s[n]
    IN all
Joined(s) == Laced(s)[Len(s)]

-----------------------------------------------------------------------------
CHAIN_END == -1
FREE == -2

\* Where so many links from `first` lead, which past the table is nowhere.
Walked(table, first, n) ==
    LET block[i \in 0 .. n] ==
          IF i = 0 THEN first
          ELSE IF block[i - 1] \in DOMAIN table THEN table[block[i - 1]] ELSE 0
    IN block

\* The first n blocks from `first` on, as far as the links lead.
Path(table, first, n) == LET block == Walked(table, first, n) IN [i \in 1 .. n |-> block[i - 1]]

\* The blocks from `first` to a CHAIN_END, or none if they lead out of the
\* table.  A chain that loops never ends; one that ends is no longer than the
\* table.
Chain(table, first) ==
    LET path == Path(table, first, Len(table))
        ends == {n \in 1 .. Len(table) : path[n] \in DOMAIN table /\ table[path[n]] = CHAIN_END}
    IN IF ends = {} THEN <<>> ELSE [i \in 1 .. Min(ends) |-> path[i]]

\* What is in the blocks of a chain.
Content(table, data, first) ==
    LET chain == Chain(table, first) IN [j \in DOMAIN chain |-> data[chain[j]]]

\* The table in which the saves have their blocks one after the other, each
\* as many as `lengths` gives it, and the block each starts at.
StartsAt(lengths, k) == 1 + Summed(lengths)[k - 1]
Packed(lengths, size) ==
    LET lasts == {StartsAt(lengths, k + 1) - 1 : k \in {j \in DOMAIN lengths : lengths[j] > 0}}
    IN [b \in 1 .. size |-> IF b > Total(lengths) THEN FREE
                            ELSE IF b \in lasts THEN CHAIN_END ELSE b + 1]

\* What blocks hold, the bytes laid down from the first.
Filled(bytes, size, zero) == [b \in 1 .. size |-> IF b \in DOMAIN bytes THEN bytes[b] ELSE zero]

\* Every way to give n free blocks to a save, and the table and the blocks
\* once it has them: what a console that goes by such a table may do.
FreeRuns(table, n) ==
    {blocks \in [1 .. n -> {b \in DOMAIN table : table[b] = FREE}] : n > 0 /\ IsInjective(blocks)}
Given(table, blocks) ==
    [b \in DOMAIN table |->
       IF \A i \in DOMAIN blocks : blocks[i] # b THEN table[b]
       ELSE LET at == CHOOSE i \in DOMAIN blocks : blocks[i] = b
            IN IF at = Len(blocks) THEN CHAIN_END ELSE blocks[at + 1]]
Written(data, blocks, bytes) ==
    [b \in DOMAIN data |->
       IF \A i \in DOMAIN blocks : blocks[i] # b THEN data[b]
       ELSE bytes[CHOOSE i \in DOMAIN blocks : blocks[i] = b]]
Freed(table, blocks) ==
    [b \in DOMAIN table |-> IF \E i \in DOMAIN blocks : blocks[i] = b THEN FREE ELSE table[b]]
=============================================================================
