---------------------------- MODULE GcCardProofs ----------------------------
(***************************************************************************)
(* Proofs about GcCard, for a card of any size, any saves and any even     *)
(* number of counters from 4.                                              *)
(*                                                                         *)
(* Of the two copies of each region, the counters say which is the newer   *)
(* only while the two are one apart: GInv says that what a console has     *)
(* still to write is one ahead of the copy trusted, which it leaves alone. *)
(*                                                                         *)
(* CardInv adds what the copies are of.  The directory and the table       *)
(* trusted fit each other while no damage was done, and so do those that   *)
(* any of what is to be written would leave, where the saves are the same, *)
(* one more or one fewer.  A card built of saves that fit is such a card   *)
(* too, and what is read of any card at all fits: so a GameCube card does  *)
(* what CardContents says.                                                 *)
(***************************************************************************)
EXTENDS GcCard, ChainProofs

IsCopy(c) ==
    /\ DOMAIN c = {"counter", "valid", "map"}
    /\ c.counter \in 0 .. COUNTERS - 1 /\ c.valid \in BOOLEAN
IsPair(p) == DOMAIN p = {1, 2} /\ IsCopy(p[1]) /\ IsCopy(p[2])

Standing(card) ==
    /\ DOMAIN card = {"size", "header", "dirs", "tables", "data"}
    /\ \A r \in Regions : IsPair(card[r]) /\ pick_mirror(card[r]) # 0

\* A copy still to be written is one ahead of the one trusted.
IsNext(entry) ==
    /\ entry.region \in Regions
    /\ IsCopy(entry.copy) /\ entry.copy.valid
    /\ LET pair == disk[entry.region]
       IN entry.copy.counter = (pair[pick_mirror(pair)].counter + 1) % COUNTERS

\* At most one of each region, and nobody else at the card meanwhile.
Writing ==
    \/ job = <<>>
    \/ /\ pc = "closed" /\ damage = 0
       /\ \/ \E entry : job = <<entry>> /\ IsNext(entry)
          \/ \E first, second : /\ job = <<first, second>> /\ first.region # second.region
                                /\ IsNext(first) /\ IsNext(second)

\* A card's image in the bundle is the card in the file.
KeptIsTheCard == kept # <<>> => kept = <<disk>> /\ pc # "closed"

GInv ==
    /\ damage \in Nat
    /\ damage = 0 => Standing(disk)
    /\ Writing
    /\ KeptIsTheCard

-----------------------------------------------------------------------------
(* Counters that wrap, and the copy they choose.                           *)

LEMMA Ahead ==
  ASSUME CountersWrap, NEW a \in 0 .. COUNTERS - 1
  PROVE  LET b == (a + 1) % COUNTERS
             half == COUNTERS \div 2
         IN /\ b \in 0 .. COUNTERS - 1
            /\ (b - a) % COUNTERS < half /\ (b - a) % COUNTERS # 0
            /\ ~((a - b) % COUNTERS < half)
<1>1. COUNTERS \div 2 >= 2 /\ COUNTERS - 1 >= COUNTERS \div 2 /\ COUNTERS \div 2 \in Nat
  BY DEF CountersWrap
<1>2. CASE a = COUNTERS - 1
  <2>1. (a + 1) % COUNTERS = 0
    BY <1>2 DEF CountersWrap
  <2>2. (0 - a) % COUNTERS = 1 /\ (a - 0) % COUNTERS = COUNTERS - 1
    BY <1>2 DEF CountersWrap
  <2> QED
    BY <1>1, <2>1, <2>2 DEF CountersWrap
<1>3. CASE a # COUNTERS - 1
  <2>1. (a + 1) % COUNTERS = a + 1 /\ a + 1 \in 0 .. COUNTERS - 1
    BY <1>3 DEF CountersWrap
  <2>2. (a + 1 - a) % COUNTERS = 1 /\ (a - (a + 1)) % COUNTERS = COUNTERS - 1
    BY <1>3 DEF CountersWrap
  <2> QED
    BY <1>1, <2>1, <2>2 DEF CountersWrap
<1> QED
  BY <1>2, <1>3

LEMMA Picks ==
  ASSUME NEW p, IsPair(p), pick_mirror(p) # 0
  PROVE  /\ pick_mirror(p) \in {1, 2} /\ p[pick_mirror(p)].valid
         /\ Stale(p) = 3 - pick_mirror(p) /\ Stale(p) \in {1, 2}
BY DEF IsPair, IsCopy, pick_mirror, Stale

\* With the copy not trusted erased, the other is trusted still.
LEMMA ErasedPair ==
  ASSUME NEW p, IsPair(p), pick_mirror(p) # 0,
         NEW q, q = [p EXCEPT ![Stale(p)].valid = FALSE]
  PROVE  /\ IsPair(q) /\ pick_mirror(q) = pick_mirror(p)
         /\ q[pick_mirror(q)] = p[pick_mirror(p)]
<1>1. /\ pick_mirror(p) \in {1, 2} /\ p[pick_mirror(p)].valid
      /\ Stale(p) = 3 - pick_mirror(p)
  BY Picks
<1>2. CASE pick_mirror(p) = 1
  <2>1. q[1] = p[1] /\ q[2] = [p[2] EXCEPT !.valid = FALSE] /\ DOMAIN q = {1, 2}
    BY <1>1, <1>2 DEF IsPair
  <2>2. IsPair(q) /\ ~q[2].valid /\ q[1].valid
    BY <1>1, <1>2, <2>1 DEF IsPair, IsCopy
  <2>3. pick_mirror(q) = 1
    BY <2>2 DEF pick_mirror
  <2> QED
    BY <1>2, <2>1, <2>2, <2>3
<1>3. CASE pick_mirror(p) = 2
  <2>1. q[2] = p[2] /\ q[1] = [p[1] EXCEPT !.valid = FALSE] /\ DOMAIN q = {1, 2}
    BY <1>1, <1>3 DEF IsPair
  <2>2. IsPair(q) /\ ~q[1].valid /\ q[2].valid
    BY <1>1, <1>3, <2>1 DEF IsPair, IsCopy
  <2>3. pick_mirror(q) = 2
    BY <2>2 DEF pick_mirror
  <2> QED
    BY <1>3, <2>1, <2>2, <2>3
<1> QED
  BY <1>1, <1>2, <1>3

WithCopy(p, c) == [p EXCEPT ![Stale(p)] = c]

\* A copy one ahead of the trusted one, in place of the other, is trusted.
LEMMA WrittenPair ==
  ASSUME CountersWrap,
         NEW p, IsPair(p), pick_mirror(p) # 0, p[Stale(p)].valid = FALSE,
         NEW c, IsCopy(c), c.valid = TRUE, c.counter = (p[pick_mirror(p)].counter + 1) % COUNTERS
  PROVE  LET q == WithCopy(p, c)
         IN IsPair(q) /\ pick_mirror(q) # 0 /\ q[pick_mirror(q)] = c
<1> DEFINE q == WithCopy(p, c)
<1>1. /\ pick_mirror(p) \in {1, 2} /\ p[pick_mirror(p)].valid
      /\ Stale(p) = 3 - pick_mirror(p)
  BY Picks
<1>2. CASE pick_mirror(p) = 1
  <2>1. q[1] = p[1] /\ q[2] = c /\ DOMAIN q = {1, 2}
    BY <1>1, <1>2 DEF IsPair, WithCopy
  <2> HIDE DEF q
  <2>2. IsPair(q) /\ q[1].valid /\ q[2].valid /\ q[1].counter \in 0 .. COUNTERS - 1
    BY <1>1, <1>2, <2>1 DEF IsPair, IsCopy
  <2>3. q[2].counter = (q[1].counter + 1) % COUNTERS
    BY <1>2, <2>1
  <2>4. /\ (q[2].counter - q[1].counter) % COUNTERS < COUNTERS \div 2
        /\ (q[2].counter - q[1].counter) % COUNTERS # 0
    BY <2>2, <2>3, Ahead
  <2>5. pick_mirror(q) = 2
    BY <2>2, <2>4 DEF pick_mirror
  <2> QED
    BY <2>1, <2>2, <2>5 DEF q
<1>3. CASE pick_mirror(p) = 2
  <2>1. q[2] = p[2] /\ q[1] = c /\ DOMAIN q = {1, 2}
    BY <1>1, <1>3 DEF IsPair, WithCopy
  <2> HIDE DEF q
  <2>2. IsPair(q) /\ q[1].valid /\ q[2].valid /\ q[2].counter \in 0 .. COUNTERS - 1
    BY <1>1, <1>3, <2>1 DEF IsPair, IsCopy
  <2>3. q[1].counter = (q[2].counter + 1) % COUNTERS
    BY <1>3, <2>1
  <2>4. ~((q[2].counter - q[1].counter) % COUNTERS < COUNTERS \div 2)
    BY <2>2, <2>3, Ahead
  <2>5. pick_mirror(q) = 1
    BY <2>2, <2>4 DEF pick_mirror
  <2> QED
    BY <2>1, <2>2, <2>5 DEF q
<1> QED
  BY <1>1, <1>2, <1>3

LEMMA TwicePair ==
  ASSUME CountersWrap, NEW map
  PROVE  IsPair(Twice(map)) /\ pick_mirror(Twice(map)) = 1
<1>1. (0 - 0) % COUNTERS = 0
  BY DEF CountersWrap
<1> DEFINE copy == [counter |-> 0, valid |-> TRUE, map |-> map]
<1>2. IsCopy(copy)
  BY DEF CountersWrap, IsCopy
<1>3. Twice(map)[1] = copy /\ Twice(map)[2] = copy /\ DOMAIN Twice(map) = {1, 2}
  BY DEF Twice
<1>4. copy.valid /\ copy.counter = 0
  OBVIOUS
<1> HIDE DEF copy
<1> QED
  BY <1>1, <1>2, <1>3, <1>4 DEF IsPair, pick_mirror

LEMMA MadeCardsStand ==
  ASSUME CountersWrap
  PROVE  /\ \A header : Standing(Blank(header))
         /\ \A saves, header, capacity : Standing(build(saves, header, capacity).card)
<1>1. ASSUME NEW card, NEW dir, NEW table, DOMAIN card = {"size", "header", "dirs", "tables", "data"},
             card.dirs = Twice(dir), card.tables = Twice(table)
      PROVE  Standing(card)
  BY <1>1, TwicePair DEF Standing, Regions
<1>2. ASSUME NEW header PROVE Standing(Blank(header))
  BY <1>1 DEF Blank
<1>3. ASSUME NEW saves, NEW header, NEW capacity
      PROVE  Standing(build(saves, header, capacity).card)
  BY <1>1 DEF build
<1> QED
  BY <1>2, <1>3

-----------------------------------------------------------------------------
(* The console, switched off or not.                                       *)

\* A copy made of a card that stands is one ahead of the one trusted.
LEMMA CopyIsNext ==
  ASSUME CountersWrap, Standing(disk), NEW r \in Regions, NEW map, disk'[r] = disk[r],
         NEW entry, entry = Copy(r, map)
  PROVE  IsNext(entry)' /\ entry.region = r
<1> DEFINE trusted == disk[r][pick_mirror(disk[r])]
<1>1. /\ entry.region = r /\ entry.copy.valid = TRUE
      /\ entry.copy.counter = (trusted.counter + 1) % COUNTERS
      /\ DOMAIN entry.copy = {"counter", "valid", "map"}
  BY DEF Copy
<1>2. trusted.counter \in 0 .. COUNTERS - 1
  BY Picks DEF Standing, IsPair, IsCopy
<1>3. IsCopy(entry.copy)
  BY <1>1, <1>2, Ahead DEF IsCopy
<1>4. disk'[r][pick_mirror(disk'[r])] = trusted
  OBVIOUS
<1> QED
  BY <1>1, <1>3, <1>4 DEF IsNext

\* What is still to be written stays one ahead while what is trusted stays.
LEMMA NextStays ==
  ASSUME NEW entry, IsNext(entry),
         LET r == entry.region IN disk'[r][pick_mirror(disk'[r])] = disk[r][pick_mirror(disk[r])]
  PROVE  IsNext(entry)'
BY DEF IsNext

LEMMA ConsoleStarts ==
  ASSUME CountersWrap, GInv, (\E game \in Games : ConsoleSave(game)) \/ (\E slot \in Slots : ConsoleDelete(slot))
  PROVE  GInv' /\ \A r \in Regions : disk'[r] = disk[r]
<1>1. /\ Idle /\ Standing(disk) /\ kept = <<>> /\ UNCHANGED <<damage, toolVars>>
      /\ DOMAIN disk' = DOMAIN disk /\ disk'.dirs = disk.dirs /\ disk'.tables = disk.tables
  BY DEF ConsoleSave, ConsoleDelete, Idle, GInv, KeptIsTheCard, Standing
<1>2. \A r \in Regions : disk'[r] = disk[r]
  BY <1>1 DEF Regions
<1>3. \E first, second :
        /\ job' = <<first, second>>
        /\ \E r, q \in Regions : \E map, other :
             r # q /\ first = Copy(r, map) /\ second = Copy(q, other)
  <2>1. PICK dir, table : \/ job' = <<Copy("tables", table), Copy("dirs", dir)>>
                          \/ job' = <<Copy("dirs", dir), Copy("tables", table)>>
    BY DEF ConsoleSave, ConsoleDelete
  <2> QED
    BY <2>1, Zenon DEF Regions
<1>4. Writing'
  <2>1. PICK first, second :
        /\ job' = <<first, second>>
        /\ \E r, q \in Regions : \E map, other :
             r # q /\ first = Copy(r, map) /\ second = Copy(q, other)
    BY <1>3
  <2>2. IsNext(first)' /\ IsNext(second)' /\ first.region # second.region
    BY <1>1, <1>2, <2>1, CopyIsNext
  <2>3. pc' = "closed" /\ damage' = 0
    BY <1>1 DEF Idle, toolVars
  <2> QED
    BY <2>1, <2>2, <2>3 DEF Writing
<1>5. Standing(disk)'
  BY <1>1, <1>2 DEF Standing
<1> QED
  BY <1>1, <1>2, <1>4, <1>5 DEF GInv, KeptIsTheCard, toolVars

LEMMA ConsoleSwitchedOff == GInv /\ SwitchedOff => GInv' /\ disk' = disk
<1> SUFFICES ASSUME GInv, SwitchedOff PROVE GInv' /\ disk' = disk
  OBVIOUS
<1>1. job' = <<>> /\ disk' = disk /\ UNCHANGED <<damage, kept, pc>>
  BY DEF SwitchedOff, toolVars
<1> QED
  BY <1>1 DEF GInv, Writing, KeptIsTheCard, Standing

\* What is to be written, and the region it is first to be written to.
LEMMA ToWrite ==
  ASSUME GInv, job # <<>>
  PROVE  /\ pc = "closed" /\ damage = 0 /\ Standing(disk) /\ kept = <<>>
         /\ IsNext(Head(job))
         /\ \/ Tail(job) = <<>>
            \/ \E second : /\ Tail(job) = <<second>> /\ IsNext(second)
                           /\ Head(job).region # second.region
<1>1. pc = "closed" /\ damage = 0 /\ Standing(disk) /\ kept = <<>>
  BY DEF GInv, Writing, KeptIsTheCard
<1>2. ASSUME NEW entry, job = <<entry>>
      PROVE  Head(job) = entry /\ Tail(job) = <<>>
  BY <1>2
<1>3. ASSUME NEW first, NEW second, job = <<first, second>>
      PROVE  Head(job) = first /\ Tail(job) = <<second>>
  BY <1>3
<1>4. CASE \E entry : job = <<entry>> /\ IsNext(entry)
  BY <1>1, <1>2, <1>4
<1>5. CASE \E first, second : /\ job = <<first, second>> /\ first.region # second.region
                              /\ IsNext(first) /\ IsNext(second)
  BY <1>1, <1>3, <1>5
<1> QED
  BY <1>4, <1>5 DEF GInv, Writing

LEMMA ConsoleErasesOne ==
  ASSUME GInv, ConsoleErases
  PROVE  GInv' /\ \A r \in Regions : Trusted(disk'[r]) = Trusted(disk[r])
<1> DEFINE r == Head(job).region
           p == disk[r]
           q == [p EXCEPT ![Stale(p)].valid = FALSE]
<1>1. /\ pc = "closed" /\ damage = 0 /\ Standing(disk) /\ kept = <<>> /\ r \in Regions
      /\ UNCHANGED <<job, damage, pc, kept>>
      /\ DOMAIN disk' = DOMAIN disk /\ disk' = [disk EXCEPT ![r] = q]
  BY ToWrite DEF ConsoleErases, toolVars, IsNext
<1>2. disk'[r] = q /\ \A o \in Regions : o # r => disk'[o] = disk[o]
  BY <1>1 DEF Standing, Regions
<1>3. IsPair(q) /\ pick_mirror(q) = pick_mirror(p) /\ q[pick_mirror(q)] = p[pick_mirror(p)]
  BY <1>1, ErasedPair DEF Standing
<1> HIDE DEF r, p, q
<1>4. \A o \in Regions : disk'[o][pick_mirror(disk'[o])] = disk[o][pick_mirror(disk[o])]
  BY <1>2, <1>3 DEF p
<1>5. Standing(disk)'
  BY <1>1, <1>2, <1>3 DEF Standing, p
<1>6. Writing'
  <2>1. \A entry : IsNext(entry) => IsNext(entry)'
    BY <1>4, NextStays DEF IsNext
  <2> QED
    BY <1>1, <2>1 DEF GInv, Writing
<1>7. \A o \in Regions : Trusted(disk'[o]) = Trusted(disk[o])
  BY <1>4 DEF Trusted
<1> QED
  BY <1>1, <1>5, <1>6, <1>7 DEF GInv, KeptIsTheCard

LEMMA ConsoleWritesOne ==
  ASSUME CountersWrap, GInv, ConsoleWrites
  PROVE  /\ GInv' /\ \A r \in Regions : MovesOn(r)
         /\ Trusted(disk'[Head(job).region]) = Head(job).copy.map
         /\ \A r \in Regions : r # Head(job).region => disk'[r] = disk[r]
<1> DEFINE r == Head(job).region
           c == Head(job).copy
           p == disk[r]
           q == WithCopy(p, c)
<1>1. /\ pc = "closed" /\ damage = 0 /\ Standing(disk) /\ kept = <<>> /\ r \in Regions
      /\ job # <<>> /\ job' = Tail(job) /\ UNCHANGED <<damage, pc, kept>>
      /\ ~p[Stale(p)].valid
      /\ DOMAIN disk' = DOMAIN disk /\ disk' = [disk EXCEPT ![r] = q]
  BY ToWrite DEF ConsoleWrites, WithCopy, toolVars, IsNext
<1>2. disk'[r] = q /\ \A o \in Regions : o # r => disk'[o] = disk[o]
  BY <1>1 DEF Standing, Regions
<1>3. IsPair(q) /\ pick_mirror(q) # 0 /\ q[pick_mirror(q)] = c
  <2>1. IsCopy(c) /\ c.valid = TRUE /\ c.counter = (p[pick_mirror(p)].counter + 1) % COUNTERS
    BY <1>1, ToWrite DEF IsNext, IsCopy
  <2>2. IsPair(p) /\ pick_mirror(p) # 0 /\ p[Stale(p)].valid = FALSE
    BY <1>1, Picks DEF Standing, IsPair, IsCopy
  <2> HIDE DEF p, c
  <2> QED
    BY <2>1, <2>2, WrittenPair
<1> HIDE DEF q
<1>4. Standing(disk)'
  BY <1>1, <1>2, <1>3 DEF Standing
<1>5. Writing'
  <2>1. CASE Tail(job) = <<>>
    BY <1>1, <2>1 DEF Writing
  <2>2. ASSUME NEW second, Tail(job) = <<second>>, IsNext(second), r # second.region
        PROVE  Writing'
    <3>1. disk'[second.region] = disk[second.region]
      BY <1>2, <2>2 DEF IsNext
    <3>2. IsNext(second)'
      BY <2>2, <3>1, NextStays
    <3> QED
      BY <1>1, <2>2, <3>2 DEF Writing
  <2> QED
    BY <1>1, <2>1, <2>2, ToWrite
<1>6. ASSUME NEW o \in Regions PROVE MovesOn(o)
  <2>1. CASE o = r
    BY <1>1, <1>2, <1>3, <2>1 DEF MovesOn, Trusted
  <2>2. CASE o # r
    BY <1>2, <2>2 DEF MovesOn
  <2> QED
    BY <2>1, <2>2
<1>7. Trusted(disk'[r]) = c.map
  BY <1>2, <1>3 DEF Trusted
<1> QED
  BY <1>1, <1>2, <1>4, <1>5, <1>6, <1>7 DEF GInv, KeptIsTheCard

-----------------------------------------------------------------------------
(* The tool, and damage: neither is at a card the console is writing.      *)

LEMMA NothingToWrite == GInv /\ (pc # "closed" \/ damage # 0) => job = <<>>
BY DEF GInv, Writing

LEMMA DamageCounts == GInv /\ Damaged => GInv' /\ damage' # 0
<1> SUFFICES ASSUME GInv, Damaged PROVE GInv' /\ damage' # 0
  OBVIOUS
<1>1. job' = <<>> /\ kept' = <<>> /\ damage' \in Nat /\ damage' # 0
  <2>1. pc = "closed" /\ job = <<>> /\ damage' = damage + 1 /\ UNCHANGED <<job, toolVars>>
    BY DEF Damaged
  <2>2. damage \in Nat /\ (kept # <<>> => pc # "closed")
    BY DEF GInv, KeptIsTheCard
  <2> QED
    BY <2>1, <2>2 DEF toolVars
<1> QED
  BY <1>1 DEF GInv, Writing, KeptIsTheCard

LEMMA ToolSteps ==
  ASSUME CountersWrap, GInv, Tool
  PROVE  GInv' /\ \A r \in Regions : disk'[r] # disk[r] => pc' # pc
<1>1. CASE Open
  <2>1. job' = <<>> /\ pc' = "editing" /\ UNCHANGED <<disk, damage>> /\ kept' \in {<<>>, <<disk'>>}
    BY <1>1 DEF Open
  <2> QED
    BY <2>1 DEF GInv, Writing, KeptIsTheCard, Standing
<1>2. CASE RemoveSave \/ AddSave
  <2>1. UNCHANGED <<disk, job, damage>> /\ pc = "editing" /\ kept' = <<>>
    BY <1>2 DEF RemoveSave, AddSave, Edited
  <2>2. job = <<>>
    BY <2>1, NothingToWrite
  <2> QED
    BY <2>1, <2>2 DEF GInv, Writing, KeptIsTheCard, Standing
<1>3. CASE Write
  <2>1. pc = "editing" /\ UNCHANGED <<job, damage>> /\ job = <<>> /\ pc' # pc
    BY <1>3, NothingToWrite DEF Write, PutAway
  <2>2. \/ kept' = <<>> /\ disk' = Rebuilt.card
        \/ pc' = "refused" /\ UNCHANGED <<disk, kept>>
    BY <1>3 DEF Write, PutAway
  <2>3. kept # <<>> => Rebuilt.card = disk
    BY DEF Rebuilt, GInv, KeptIsTheCard
  <2>4. kept = <<>> => Standing(Rebuilt.card)
    BY MadeCardsStand DEF Rebuilt
  <2>5. damage = 0 => Standing(disk')
    BY <2>2, <2>3, <2>4 DEF GInv
  <2>6. KeptIsTheCard'
    BY <2>1, <2>2 DEF GInv, KeptIsTheCard
  <2> QED
    BY <2>1, <2>5, <2>6 DEF GInv, Writing, Standing
<1>4. CASE Resume \/ Close
  <2>1. /\ pc # "closed" /\ UNCHANGED <<disk, job, damage>>
        /\ \/ kept' = <<>>
           \/ kept' = kept /\ pc' # "closed"
    BY <1>4 DEF Resume, Close, PutAway
  <2>2. job = <<>>
    BY <2>1, NothingToWrite
  <2> QED
    BY <2>1, <2>2 DEF GInv, Writing, KeptIsTheCard, Standing
<1> QED
  BY <1>1, <1>2, <1>3, <1>4 DEF Tool

-----------------------------------------------------------------------------
LEMMA GInvStep ==
  ASSUME CountersWrap, GInv, [Next]_vars
  PROVE  GInv' /\ \A r \in Regions : MovesOn(r)
<1>2. CASE Console
  <2>1. CASE (\E game \in Games : ConsoleSave(game)) \/ (\E slot \in Slots : ConsoleDelete(slot))
    BY <2>1, ConsoleStarts DEF MovesOn
  <2>2. CASE ConsoleErases
    BY <2>2, ConsoleErasesOne DEF MovesOn
  <2>3. CASE ConsoleWrites
    BY <2>3, ConsoleWritesOne
  <2>4. CASE SwitchedOff
    BY <2>4, ConsoleSwitchedOff DEF MovesOn
  <2>5. CASE Damaged
    BY <2>5, DamageCounts DEF MovesOn
  <2> QED
    BY <1>2, <2>1, <2>2, <2>3, <2>4, <2>5 DEF Console
<1>3. CASE Tool
  BY <1>3, ToolSteps DEF MovesOn
<1>4. CASE UNCHANGED vars
  BY <1>4 DEF vars, toolVars, GInv, Writing, IsNext, Standing, KeptIsTheCard, MovesOn
<1> QED
  BY <1>2, <1>3, <1>4 DEF Next

LEMMA GInvStarts == CountersWrap /\ Init => GInv
BY MadeCardsStand DEF Init, GInv, Writing, KeptIsTheCard

LEMMA InductiveCopies ==
  ASSUME CountersWrap
  PROVE  Spec => []GInv
<1>1. Init => GInv
  BY GInvStarts
<1>2. GInv /\ [Next]_vars => GInv'
  BY GInvStep
<1> QED
  BY <1>1, <1>2, PTL DEF Spec

\* Wherever in its writing a console was switched off, and however often the
\* counters have wrapped, pick_mirror finds a copy to trust of each region of a
\* card that was not damaged.
THEOREM CopiesStand ==
  ASSUME CountersWrap
  PROVE  Spec => []ACopyStands
<1>1. GInv => ACopyStands
  BY DEF GInv, Standing, ACopyStands
<1> QED
  BY <1>1, InductiveCopies, PTL

\* The copy pick_mirror trusts is never an older one than before nor one half
\* written: it changes as the console finishes a copy, and to that copy, or with
\* the whole card.
THEOREM CopiesMoveOn ==
  ASSUME CountersWrap
  PROVE  Spec => TrustedMovesOn
<1>1. GInv /\ [Next]_vars => [\A r \in Regions : MovesOn(r)]_vars
  BY GInvStep
<1> QED
  BY <1>1, InductiveCopies, PTL DEF Spec, TrustedMovesOn

-----------------------------------------------------------------------------
(* What a directory, a table and the blocks are read as.                   *)

Data == Contents \cup {Zeros}

\* Where each save starts, what it is read as, and what all of them are.
FirstOf(dir) == [s \in Slots |-> dir[s].first]
SaveOf(dir, table, data) ==
    [s \in Slots |-> [name |-> dir[s].name, data |-> Content(table, data, dir[s].first)]]
Reading(dir, table, data) == Listing(MAX_ENTRIES, Used(dir), SaveOf(dir, table, data))

\* What the reader wants of a directory and a table.
ClaimsOf(dir) == LET slots == InOrder(MAX_ENTRIES, Used(dir)) IN [i \in DOMAIN slots |-> dir[slots[i]].count]
Readable(dir, table) ==
    WithinCard(ClaimsOf(dir), Size) /\ \A s \in Used(dir) : follow_chain(table, dir[s])
PairsPicked(card) == pick_mirror(card.dirs) # 0 /\ pick_mirror(card.tables) # 0

\* The slots in use are gone through in order, each once.
LEMMA UsedIs ==
  ASSUME CardIsPossible, NEW dir
  PROVE  /\ MAX_ENTRIES \in Nat /\ Size \in Nat /\ Size > 0
         /\ Used(dir) \in SUBSET (1 .. MAX_ENTRIES) /\ Slots = 1 .. MAX_ENTRIES
         /\ InOrder(MAX_ENTRIES, Used(dir)) \in Seq(Used(dir))
         /\ \A i, j \in 1 .. Len(InOrder(MAX_ENTRIES, Used(dir))) :
              InOrder(MAX_ENTRIES, Used(dir))[i] = InOrder(MAX_ENTRIES, Used(dir))[j] => i = j
<1>1. MAX_ENTRIES \in Nat /\ Size \in Nat /\ Size > 0
  BY DEF CardIsPossible
<1>2. Used(dir) \in SUBSET (1 .. MAX_ENTRIES) /\ Slots = 1 .. MAX_ENTRIES
  BY DEF Used, Slots
<1> DEFINE S == Used(dir)
           c == InOrder(MAX_ENTRIES, S)
<1>3. Of(Listing(MAX_ENTRIES, S, [s \in S |-> s]), c, MAX_ENTRIES, S, [s \in S |-> s], S)
  <2> HIDE DEF c
  <2>1. \A s \in S : [x \in S |-> x][s] \in S
    OBVIOUS
  <2> QED BY <1>1, <1>2, <2>1, ListingIs DEF c
<1> HIDE DEF S, c
<1>4. c \in Seq(S) /\ \A i, j \in 1 .. Len(c) : c[i] = c[j] => i = j
  BY <1>3 DEF Of
<1> QED BY <1>1, <1>2, <1>4 DEF S, c

\* The reader, in those words.
LEMMA ParseIs ==
  ASSUME CardIsPossible, NEW card, card.size = Size,
         NEW dir, dir = Trusted(card.dirs), NEW table, table = Trusted(card.tables)
  PROVE  parse(card) = IF PairsPicked(card) /\ Readable(dir, table)
                       THEN [ok |-> TRUE, saves |-> Reading(dir, table, card.data)]
                       ELSE NotRead
<1> DEFINE slots == InOrder(MAX_ENTRIES, Used(dir))
           Save(s) == [name |-> dir[s].name, data |-> Content(table, card.data, dir[s].first)]
<1>1. parse(card) = IF PairsPicked(card) /\ Readable(dir, table)
                    THEN [ok |-> TRUE, saves |-> [i \in DOMAIN slots |-> Save(slots[i])]]
                    ELSE NotRead
  BY DEF parse, PairsPicked, Readable, ClaimsOf
<1>2. slots \in Seq(Used(dir)) /\ Used(dir) \in SUBSET Slots
  BY UsedIs
<1>3. Reading(dir, table, card.data) = [i \in DOMAIN slots |-> SaveOf(dir, table, card.data)[slots[i]]]
  BY DEF Reading, Listing
<1> HIDE DEF slots
<1>4. \A i \in DOMAIN slots : SaveOf(dir, table, card.data)[slots[i]] = Save(slots[i])
  BY <1>2 DEF SaveOf
<1> QED BY <1>1, <1>3, <1>4

\* A slot with no save is no entry.
LEMMA ErasedIsNone == ASSUME CardIsPossible PROVE Erased \notin Entries
BY DEF CardIsPossible, Entries

\* An entry in use is one.
LEMMA EntryIs ==
  ASSUME CardIsPossible, NEW dir \in Dirs, NEW s \in Used(dir)
  PROVE  /\ s \in Slots /\ dir[s] \in Entries /\ dir[s].name \in Names
         /\ dir[s].first \in 0 .. Size /\ dir[s].count \in 0 .. Size
         /\ dir[s].first \in Int /\ dir[s].count \in Nat
         /\ dir[s] = [name |-> dir[s].name, first |-> dir[s].first, count |-> dir[s].count]
         /\ FirstOf(dir)[s] = dir[s].first
<1>1. s \in Slots /\ dir[s] \in Entries /\ Size \in Nat
  BY DEF Used, Dirs, CardIsPossible
<1>2. dir[s].first \in 0 .. Size /\ dir[s].count \in 0 .. Size
  BY <1>1 DEF Entries
<1> QED BY <1>1, <1>2 DEF Entries, FirstOf

\* A table is one of links and ends.
LEMMA TableIsLinks ==
  ASSUME CardIsPossible
  PROVE  Tables = [1 .. Size -> Links(Size)] /\ \A t \in Tables : t \in [1 .. Size -> Int]
BY DEF CardIsPossible, Tables, Links, CHAIN_END, FREE

\* What is read of any card are saves that go on one.
LEMMA ReadingIs ==
  ASSUME CardIsPossible, NEW dir \in Dirs, NEW table \in Tables, NEW data \in [1 .. Size -> Data],
         Readable(dir, table)
  PROVE  Reading(dir, table, data) \in Seq(Saves) /\ CardFits(Reading(dir, table, data))
<1> DEFINE S == Used(dir)
           c == InOrder(MAX_ENTRIES, S)
           rec == SaveOf(dir, table, data)
           l == Reading(dir, table, data)
<1>1. MAX_ENTRIES \in Nat /\ Size \in Nat /\ S \in SUBSET (1 .. MAX_ENTRIES)
  BY UsedIs
<1>2. table \in [1 .. Size -> Int]
  BY TableIsLinks
<1>3. ASSUME NEW s \in S
      PROVE  /\ rec[s] \in Saves /\ rec[s].data # <<>> /\ Len(rec[s].data) = dir[s].count
             /\ dir[s].count \in Nat
  <2>1. s \in Slots /\ dir[s].name \in Names /\ dir[s].first \in Int /\ dir[s].count \in Nat
    BY EntryIs
  <2>2. Chain(table, dir[s].first) # <<>> /\ Len(Chain(table, dir[s].first)) = dir[s].count
    BY DEF Readable, follow_chain
  <2> DEFINE f == dir[s].first
             b == Content(table, data, dir[s].first)
  <2>3. b \in Seq(Data) /\ b # <<>> /\ Len(b) = dir[s].count
    <3>1. f \in Int /\ Chain(table, f) # <<>>
      BY <2>1, <2>2
    <3> HIDE DEF f
    <3>2. There(table, data, f, Data)
      BY <3>1, <1>1, <1>2, ChainThere
    <3> QED BY <3>2, <2>2 DEF There, f
  <2>4. rec[s] = [name |-> dir[s].name, data |-> b]
    BY <2>1 DEF SaveOf
  <2> HIDE DEF b, rec
  <2> QED BY <2>1, <2>3, <2>4 DEF Saves, Data
<1>r. l = Listing(MAX_ENTRIES, S, rec) /\ ClaimsOf(dir) = [i \in DOMAIN c |-> dir[c[i]].count]
  BY DEF Reading, ClaimsOf
<1>w. Total(ClaimsOf(dir)) <= Size
  BY DEF Readable, WithinCard
<1> HIDE DEF S, c, rec, l
<1>4. Of(l, c, MAX_ENTRIES, S, rec, Saves)
  BY <1>1, <1>3, <1>r, ListingIs DEF c
<1>5. /\ l \in Seq(Saves) /\ Len(l) = Len(c) /\ Len(l) <= MAX_ENTRIES /\ c \in Seq(S)
      /\ \A i \in 1 .. Len(l) : l[i] = rec[c[i]]
  BY <1>4 DEF Of
<1>6. DOMAIN l = 1 .. Len(l) /\ DOMAIN c = 1 .. Len(l) /\ \A i \in 1 .. Len(l) : c[i] \in S
  BY <1>5
<1>7. Lengths(l) = ClaimsOf(dir)
  <2>1. \A i \in 1 .. Len(l) : Len(l[i].data) = dir[c[i]].count
    BY <1>3, <1>5, <1>6
  <2> QED BY <2>1, <1>6, <1>r DEF Lengths
<1>8. \A i \in DOMAIN l : l[i].data # <<>>
  BY <1>3, <1>5, <1>6
<1> QED BY <1>5, <1>7, <1>8, <1>w DEF CardFits, Count, l

-----------------------------------------------------------------------------
\* A directory and a table no damage was done to: every entry is a save in
\* blocks of its own, as many as it says.
Whole(dir, table) ==
    /\ dir \in Dirs /\ table \in Tables
    /\ LaidOut(Size, table, Used(dir), FirstOf(dir))
    /\ \A s \in Used(dir) : dir[s].count = Len(Chain(table, FirstOf(dir)[s]))

\* Such a card reads: its chains come to no more than its blocks, as none is in
\* two.
LEMMA WholeReads ==
  ASSUME CardIsPossible, NEW dir, NEW table, Whole(dir, table)
  PROVE  Readable(dir, table)
<1> DEFINE S == Used(dir)
           first == FirstOf(dir)
           c == InOrder(MAX_ENTRIES, S)
<1>1. /\ MAX_ENTRIES \in Nat /\ Size \in Nat /\ c \in Seq(S)
      /\ \A i, j \in 1 .. Len(c) : c[i] = c[j] => i = j
  BY UsedIs
<1>2. LaidOut(Size, table, S, first) /\ dir \in Dirs /\ table \in Tables
  BY DEF Whole
<1>3. ASSUME NEW s \in S
      PROVE  follow_chain(table, dir[s]) /\ dir[s].count = Len(Chain(table, first[s]))
  <2>1. first[s] = dir[s].first /\ first[s] \in 1 .. Size /\ Len(Chain(table, first[s])) \in 1 .. Size
    BY <1>1, <1>2, LaidOutIs, EntryIs
  <2>2. DOMAIN table = 1 .. Size
    BY <1>2 DEF Tables
  <2>3. dir[s].count = Len(Chain(table, first[s]))
    BY DEF Whole
  <2> QED BY <1>1, <2>1, <2>2, <2>3 DEF follow_chain
<1>c. ClaimsOf(dir) = [i \in DOMAIN c |-> dir[c[i]].count]
  BY DEF ClaimsOf
<1>d. S = Used(dir)
  OBVIOUS
<1> HIDE DEF S, first, c
<1>4. Total(ChainsOf(table, first, c)) <= Size
  BY <1>1, <1>2, LaidFits
<1>5. ChainsOf(table, first, c) = ClaimsOf(dir)
  <2>1. \A i \in DOMAIN c : c[i] \in S
    BY <1>1
  <2> QED BY <2>1, <1>3, <1>c DEF ChainsOf
<1> QED BY <1>3, <1>4, <1>5, <1>d DEF Readable, WithinCard

\* ... and what it reads as goes on a card.
LEMMA WholeTakes ==
  ASSUME CardIsPossible, NEW dir, NEW table, Whole(dir, table), NEW data \in [1 .. Size -> Data]
  PROVE  Reading(dir, table, data) \in Seq(Saves) /\ CardFits(Reading(dir, table, data))
BY WholeReads, ReadingIs DEF Whole

\* What an entry in use of a whole card is read as.
LEMMA WholeSave ==
  ASSUME CardIsPossible, NEW dir, NEW table, Whole(dir, table), NEW data \in [1 .. Size -> Data],
         NEW s \in Used(dir)
  PROVE  SaveOf(dir, table, data)[s] \in Saves
<1>1. /\ Size \in Nat /\ LaidOut(Size, table, Used(dir), FirstOf(dir)) /\ dir \in Dirs
  BY UsedIs DEF Whole
<1>2. s \in Slots /\ dir[s].name \in Names /\ FirstOf(dir)[s] = dir[s].first
  BY <1>1, EntryIs
<1> DEFINE b == Content(table, data, dir[s].first)
<1>3. b \in Seq(Data)
  BY <1>1, <1>2, ContentIs
<1>4. SaveOf(dir, table, data)[s] = [name |-> dir[s].name, data |-> b]
  BY <1>2 DEF SaveOf
<1> HIDE DEF b
<1> QED BY <1>2, <1>3, <1>4 DEF Saves, Data

\* The same in the blocks of every entry in use is the same read.
LEMMA SameReading ==
  ASSUME CardIsPossible, NEW dir, NEW table, NEW data, NEW other, NEW after,
         \A s \in Used(dir) : Content(other, after, dir[s].first) = Content(table, data, dir[s].first)
  PROVE  Reading(dir, other, after) = Reading(dir, table, data)
<1> DEFINE c == InOrder(MAX_ENTRIES, Used(dir))
<1>1. c \in Seq(Used(dir)) /\ Used(dir) \in SUBSET Slots
  BY UsedIs
<1>2. \A s \in Used(dir) : SaveOf(dir, other, after)[s] = SaveOf(dir, table, data)[s]
  BY <1>1 DEF SaveOf
<1>3. /\ Reading(dir, other, after) = [i \in DOMAIN c |-> SaveOf(dir, other, after)[c[i]]]
      /\ Reading(dir, table, data) = [i \in DOMAIN c |-> SaveOf(dir, table, data)[c[i]]]
  BY DEF Reading, Listing
<1> HIDE DEF c
<1>4. \A i \in DOMAIN c : c[i] \in Used(dir)
  BY <1>1
<1> QED BY <1>2, <1>3, <1>4

-----------------------------------------------------------------------------
(* A console's save and its deletion, on the maps it goes by.              *)

\* One save more, as it is seen of a card.
OneMore(more, fewer, save) == \E i \in Nat : Inserted(more, fewer, save, i)
OneFewer(more, fewer) == \E save : OneMore(more, fewer, save)

\* A directory with a save more or fewer.
Listed(dir, slot, entry) == [dir EXCEPT ![slot] = entry]

\* Used, with an entry more and with one fewer.
LEMMA MoreUsed ==
  ASSUME CardIsPossible, NEW dir \in Dirs, NEW slot \in Slots \ Used(dir), NEW entry \in Entries,
         NEW more, more = Listed(dir, slot, entry)
  PROVE  /\ more \in Dirs /\ Used(more) = Used(dir) \cup {slot} /\ more[slot] = entry
         /\ \A s \in Used(dir) : s # slot /\ more[s] = dir[s]
<1>1. entry # Erased
  BY ErasedIsNone
<1>2. more \in Dirs /\ more[slot] = entry /\ \A s \in Slots : s # slot => more[s] = dir[s]
  BY DEF Dirs, Listed
<1> QED BY <1>1, <1>2 DEF Used

LEMMA FewerUsed ==
  ASSUME CardIsPossible, NEW dir \in Dirs, NEW slot \in Used(dir),
         NEW fewer, fewer = Listed(dir, slot, Erased)
  PROVE  /\ fewer \in Dirs /\ Used(fewer) = Used(dir) \ {slot}
         /\ \A s \in Used(fewer) : fewer[s] = dir[s]
<1>2. fewer \in Dirs /\ fewer[slot] = Erased /\ \A s \in Slots : s # slot => fewer[s] = dir[s]
  BY DEF Dirs, Used, Listed
<1> QED BY <1>2 DEF Used

\* The blocks a save more is given, once the table is written: nothing that was
\* there is another's, and once its entry is the save is there.
SaveSteps(dir, table, data, more, given, after, game) ==
    /\ after \in [1 .. Size -> Data]
    /\ Whole(dir, given) /\ Whole(more, given)
    /\ Reading(dir, table, after) = Reading(dir, table, data)
    /\ Reading(dir, given, after) = Reading(dir, table, after)
    /\ OneMore(Reading(more, given, after), Reading(dir, given, after), game)

\* A console's save is so: its blocks are taken from those free, written first
\* and given to it before its entry is.
LEMMA SaveStarts ==
  ASSUME CardIsPossible, NEW dir, NEW table, Whole(dir, table), NEW data \in [1 .. Size -> Data],
         NEW game \in Games, NEW blocks \in FreeRuns(table, Len(game.data)),
         NEW slot \in Slots \ Used(dir),
         NEW more, more = Listed(dir, slot,
           [name |-> game.name, first |-> blocks[1], count |-> Len(game.data)])
  PROVE  SaveSteps(dir, table, data, more, Given(table, blocks), Written(data, blocks, game.data), game)
<1> DEFINE n == Len(game.data)
           u == Given(table, blocks)
           w == Written(data, blocks, game.data)
           S == Used(dir)
           first == FirstOf(dir)
           then == FirstOf(more)
           entry == [name |-> game.name, first |-> blocks[1], count |-> n]
<1>0. /\ MAX_ENTRIES \in Nat /\ Size \in Nat /\ S \in SUBSET (1 .. MAX_ENTRIES) /\ Slots = 1 .. MAX_ENTRIES
  BY UsedIs
<1>1. /\ dir \in Dirs /\ table \in Tables /\ LaidOut(Size, table, S, first)
      /\ \A s \in S : dir[s].count = Len(Chain(table, first[s]))
      /\ table \in [1 .. Size -> Links(Size)]
  BY TableIsLinks DEF Whole
<1>g. /\ game.name \in Names /\ game.data \in Seq(Data) /\ n \in Nat
      /\ game = [name |-> game.name, data |-> game.data]
  <2>1. game \in Saves
    BY DEF CardIsPossible
  <2> QED BY <2>1 DEF Saves, Data
<1>2. u \in [1 .. Size -> Links(Size)] /\ w \in [1 .. Size -> Data] /\ blocks[1] \in 1 .. Size
  BY <1>0, <1>1, <1>g, GivenLinks
<1>3. /\ blocks \in Seq(1 .. Size) /\ Len(blocks) = n /\ n > 0 /\ n <= Size
      /\ \A i \in 1 .. n : table[blocks[i]] = FREE
      /\ table \in Seq(Int) /\ Len(table) = Size
  <2>1. table \in Seq(Int) /\ Len(table) = Size
    BY <1>0, <1>1, TableIs
  <2> HIDE DEF n
  <2> QED BY <2>1, <1>g, FreeRunIs DEF n
<1>4. entry \in Entries
  <2>1. blocks[1] \in 0 .. Size /\ n \in 0 .. Size
    BY <1>0, <1>2, <1>3, <1>g
  <2> QED BY <2>1, <1>g DEF Entries
<1>5. /\ more \in Dirs /\ Used(more) = S \cup {slot} /\ more[slot] = entry
      /\ \A s \in S : s # slot /\ more[s] = dir[s]
  <2>1. dir \in Dirs /\ more = Listed(dir, slot, entry)
    BY <1>1
  <2> HIDE DEF entry
  <2>2. /\ more \in Dirs /\ Used(more) = Used(dir) \cup {slot} /\ more[slot] = entry
        /\ \A s \in Used(dir) : s # slot /\ more[s] = dir[s]
    <3>1. slot \in Slots \ Used(dir)
      OBVIOUS
    <3> QED BY ONLY CardIsPossible, <3>1, <2>1, <1>4, MoreUsed
  <2> QED BY <2>2
<1>6. \A s \in Slots : then[s] = more[s].first /\ first[s] = dir[s].first
  BY DEF FirstOf
<1>7. Joins(then, first, S, slot, blocks[1])
  <2>1. more[slot].first = blocks[1] /\ slot \in Slots
    BY <1>5
  <2>2. \A s \in S : more[s] = dir[s]
    BY <1>5
  <2> HIDE DEF S, first, then
  <2>3. then[slot] = blocks[1]
    BY <2>1, <1>6
  <2>4. ASSUME NEW s \in S PROVE then[s] = first[s]
    <3>1. s \in Slots /\ more[s] = dir[s]
      BY <1>0, <2>2
    <3> QED BY <3>1, <1>6
  <2>5. slot \notin S
    BY DEF S
  <2> QED BY <2>3, <2>4, <2>5 DEF Joins
<1>n. slot \notin S
  OBVIOUS
<1>d. S = Used(dir) /\ u = Given(table, blocks) /\ w = Written(data, blocks, game.data)
      /\ first = FirstOf(dir) /\ then = FirstOf(more)
  OBVIOUS
<1> HIDE DEF u, w, S, first, then, entry
<1>8. Gains(Size, u, S, then, table, first, slot, blocks)
  <2> HIDE DEF n
  <2> QED BY <1>0, <1>1, <1>7, <1>d, <1>g, LaidGiven DEF n
<1>9. Holding(Size, u, w, S, then, table, data, first, slot, game.data, Data)
  <2> HIDE DEF n
  <2> QED BY <1>0, <1>1, <1>7, <1>d, <1>g, GivenContent DEF n
<1>10. /\ LaidOut(Size, u, S \cup {slot}, then) /\ Chain(u, then[slot]) = blocks
       /\ \A s \in S : Chain(u, then[s]) = Chain(table, first[s])
  BY <1>8 DEF Gains
<1>11. /\ Content(u, w, then[slot]) = game.data
       /\ \A s \in S : Content(u, w, then[s]) = Content(table, data, first[s])
  BY <1>9 DEF Holding
<1>12. \A s \in S : then[s] = first[s]
  BY <1>7 DEF Joins
<1>13. Whole(dir, u)
  <2>1. LaidOut(Size, u, S, first)
    BY <1>10, <1>12 DEF LaidOut
  <2>2. \A s \in S : dir[s].count = Len(Chain(u, first[s]))
    BY <1>1, <1>10, <1>12
  <2>3. u \in Tables
    BY <1>2, TableIsLinks
  <2> QED BY <2>1, <2>2, <2>3, <1>1, <1>d DEF Whole
<1>14. Whole(more, u)
  <2>1. \A s \in S : more[s].count = Len(Chain(u, then[s]))
    BY <1>1, <1>5, <1>10
  <2>2. more[slot].count = Len(Chain(u, then[slot]))
    BY <1>3, <1>5, <1>10 DEF entry
  <2>3. u \in Tables
    BY <1>2, TableIsLinks
  <2> QED BY <2>1, <2>2, <2>3, <1>5, <1>10, <1>d DEF Whole
\* What was free is all that is written.
<1>15. ASSUME NEW s \in S PROVE Content(table, w, first[s]) = Content(table, data, first[s])
  <2> DEFINE c == Chain(table, first[s])
  <2>1. c \in Seq(1 .. Size) /\ \A i \in 1 .. Len(c) : c[i] \in 1 .. Size /\ table[c[i]] # FREE
    BY <1>0, <1>1, LaidOutIs
  <2>2. Distinct(table, blocks)
    <3>1. Len(game.data) \in Nat
      BY <1>g
    <3>2. /\ blocks \in Seq(1 .. Len(table)) /\ Len(blocks) = Len(game.data)
          /\ \A i, j \in 1 .. Len(game.data) : blocks[i] = blocks[j] => i = j
      BY <3>1, <1>3, FreeRunIs
    <3>3. Len(blocks) > 0 /\ Len(blocks) <= Len(table)
      <4> HIDE DEF n
      <4> QED BY <1>3
    <3>4. \A i \in 1 .. Len(blocks) : blocks[i] \in 1 .. Len(table)
      BY <3>2
    <3> QED BY <1>3, <3>2, <3>3, <3>4 DEF Distinct
  <2>3. Bears(w, data, table, blocks, game.data, Data)
    BY <2>2, <1>3, <1>g, <1>d, WrittenIs
  <2>4. \A i \in 1 .. Len(c) : w[c[i]] = data[c[i]]
    <3> SUFFICES ASSUME NEW i \in 1 .. Len(c) PROVE w[c[i]] = data[c[i]]
      OBVIOUS
    <3>1. c[i] \in 1 .. Len(table) /\ \A j \in 1 .. Len(blocks) : blocks[j] # c[i]
      BY <2>1, <1>3
    <3> QED BY <3>1, <2>3 DEF Bears
  <2>5. c \in Seq(Nat)
    <3> HIDE DEF c
    <3>1. \A x \in 1 .. Size : x \in Nat
      BY <1>0
    <3> QED BY <2>1, <3>1
  <2>6. KeptIn(Chain(table, first[s]), data, w)
    BY <2>4, <2>5 DEF KeptIn
  <2> QED BY ONLY <2>6, ContentKept
<1>16. ASSUME NEW s \in S PROVE first[s] = dir[s].first
  BY <1>0, <1>6
<1>17. Reading(dir, table, w) = Reading(dir, table, data)
  BY <1>15, <1>16, <1>d, SameReading
<1>18. Reading(dir, u, w) = Reading(dir, table, w)
  <2>1. ASSUME NEW s \in S PROVE Content(u, w, dir[s].first) = Content(table, w, dir[s].first)
    <3>1. then[s] = dir[s].first /\ first[s] = dir[s].first
      BY <1>12, <1>16
    <3> QED BY <3>1, <1>11, <1>15
  <2> QED BY <2>1, <1>d, SameReading
<1> DEFINE rec == SaveOf(dir, u, w)
           rec2 == SaveOf(more, u, w)
<1>19. /\ rec2[slot] = game /\ \A s \in S : rec2[s] = rec[s]
  <2>1. \A s \in Slots : /\ rec[s] = [name |-> dir[s].name, data |-> Content(u, w, dir[s].first)]
                         /\ rec2[s] = [name |-> more[s].name, data |-> Content(u, w, more[s].first)]
    BY DEF SaveOf
  <2> HIDE DEF rec, rec2
  <2>2. rec2[slot] = [name |-> game.name, data |-> game.data]
    <3>1. more[slot].name = game.name /\ Content(u, w, more[slot].first) = game.data
      BY <1>5, <1>6, <1>11 DEF entry
    <3> QED BY <2>1, <3>1
  <2>3. ASSUME NEW s \in S PROVE rec2[s] = rec[s]
    <3>1. s \in Slots /\ more[s] = dir[s]
      BY <1>0, <1>5
    <3> QED BY <2>1, <3>1
  <2> QED BY <2>2, <2>3, <1>g
<1>20. Joins(rec2, rec, S, slot, game)
  BY <1>19, <1>n DEF Joins
<1>21. ASSUME NEW s \in S PROVE rec[s] \in Saves
  BY <1>2, <1>13, <1>d, WholeSave
<1>22. game \in Saves
  BY DEF CardIsPossible
<1>23. Reading(more, u, w) = Listing(MAX_ENTRIES, S \cup {slot}, rec2)
       /\ Reading(dir, u, w) = Listing(MAX_ENTRIES, S, rec)
  BY <1>5, <1>d DEF Reading
<1> HIDE DEF rec, rec2
<1>24. \E i \in Nat : Inserted(Listing(MAX_ENTRIES, S \cup {slot}, rec2), Listing(MAX_ENTRIES, S, rec), game, i)
  <2>1. slot \in 1 .. MAX_ENTRIES
    BY <1>0
  <2> QED BY <2>1, <1>0, <1>20, <1>21, <1>22, ListingMore
<1>25. OneMore(Reading(more, u, w), Reading(dir, u, w), game)
  BY <1>23, <1>24 DEF OneMore
<1> QED BY <1>2, <1>13, <1>14, <1>17, <1>18, <1>25, <1>d DEF SaveSteps

\* A save's name is taken off first, and then its blocks are free.
DeleteSteps(dir, table, data, fewer, freed) ==
    /\ Whole(fewer, table) /\ Whole(fewer, freed)
    /\ OneFewer(Reading(dir, table, data), Reading(fewer, table, data))
    /\ Reading(fewer, freed, data) = Reading(fewer, table, data)

\* A console's deletion is so.
LEMMA DeleteStarts ==
  ASSUME CardIsPossible, NEW dir, NEW table, Whole(dir, table), NEW data \in [1 .. Size -> Data],
         NEW slot \in Used(dir), NEW fewer, fewer = Listed(dir, slot, Erased)
  PROVE  DeleteSteps(dir, table, data, fewer, Freed(table, Chain(table, dir[slot].first)))
<1> DEFINE u == Freed(table, Chain(table, dir[slot].first))
           S == Used(dir)
           T == Used(fewer)
           first == FirstOf(dir)
           then == FirstOf(fewer)
<1>0. /\ MAX_ENTRIES \in Nat /\ Size \in Nat /\ S \in SUBSET (1 .. MAX_ENTRIES) /\ Slots = 1 .. MAX_ENTRIES
  BY UsedIs
<1>1. /\ dir \in Dirs /\ table \in Tables /\ LaidOut(Size, table, S, first)
      /\ \A s \in S : dir[s].count = Len(Chain(table, first[s]))
      /\ table \in [1 .. Size -> Links(Size)]
  BY TableIsLinks DEF Whole
<1>2. fewer \in Dirs /\ T = S \ {slot} /\ \A s \in T : fewer[s] = dir[s]
  <2>1. dir \in Dirs
    BY <1>1
  <2>2. /\ fewer \in Dirs /\ Used(fewer) = Used(dir) \ {slot}
        /\ \A s \in Used(fewer) : fewer[s] = dir[s]
    BY ONLY <2>1, FewerUsed, CardIsPossible, slot \in Used(dir), fewer = Listed(dir, slot, Erased)
  <2> QED BY <2>2
<1>3. \A s \in Slots : then[s] = fewer[s].first /\ first[s] = dir[s].first
  BY DEF FirstOf
<1>4. \A s \in S \ {slot} : then[s] = first[s]
  <2> HIDE DEF then, first
  <2> QED BY <1>0, <1>2, <1>3
<1>5. u = Freed(table, Chain(table, first[slot]))
  BY <1>0, <1>3
<1>6. u \in [1 .. Size -> Links(Size)]
  BY <1>0, <1>1, FreedLinks
<1>d. S = Used(dir) /\ T = Used(fewer) /\ first = FirstOf(dir) /\ then = FirstOf(fewer)
      /\ u = Freed(table, Chain(table, dir[slot].first)) /\ slot \in S
  OBVIOUS
<1> HIDE DEF u, S, T, first, then
<1>7. Loses(Size, u, S \ {slot}, then, table, first)
  <2>1. slot \in S /\ Size \in Nat
    BY <1>0, <1>d
  <2>2. LaidOut(Size, table, S, first)
    BY <1>1
  <2> QED BY <2>1, <2>2, <1>4, <1>5, LaidFreed
<1>8. /\ LaidOut(Size, u, T, then)
      /\ \A s \in T : Chain(u, then[s]) = Chain(table, first[s])
      /\ \A s \in T : Content(u, data, then[s]) = Content(table, data, first[s])
  BY <1>2, <1>7 DEF Loses
<1>9. Whole(fewer, table)
  <2>1. LaidOut(Size, table, T, then)
    BY <1>1, <1>2, <1>4 DEF LaidOut
  <2>2. \A s \in T : fewer[s].count = Len(Chain(table, then[s]))
    BY <1>1, <1>2, <1>4
  <2> QED BY <2>1, <2>2, <1>1, <1>2, <1>d DEF Whole
<1>10. Whole(fewer, u)
  <2>1. u \in Tables
    BY <1>6, TableIsLinks
  <2>2. \A s \in T : fewer[s].count = Len(Chain(u, then[s]))
    BY <1>1, <1>2, <1>8
  <2> QED BY <2>1, <2>2, <1>2, <1>8, <1>d DEF Whole
<1>11. Reading(fewer, u, data) = Reading(fewer, table, data)
  <2>1. \A s \in T : then[s] = fewer[s].first /\ then[s] = first[s]
    BY <1>0, <1>2, <1>3, <1>4
  <2>2. \A s \in T : Content(u, data, fewer[s].first) = Content(table, data, fewer[s].first)
    BY <2>1, <1>8
  <2>3. \A s \in Used(fewer) : Content(u, data, fewer[s].first) = Content(table, data, fewer[s].first)
    BY <2>2, <1>d
  <2> QED BY ONLY CardIsPossible, <2>3, SameReading
<1> DEFINE rec == SaveOf(dir, table, data)
           rec2 == SaveOf(fewer, table, data)
<1>12. \A s \in T : rec[s] = rec2[s]
  <2>1. \A s \in Slots : /\ rec[s] = [name |-> dir[s].name, data |-> Content(table, data, dir[s].first)]
                         /\ rec2[s] = [name |-> fewer[s].name, data |-> Content(table, data, fewer[s].first)]
    BY DEF SaveOf
  <2> HIDE DEF rec, rec2
  <2>2. ASSUME NEW s \in T PROVE rec[s] = rec2[s]
    <3>1. s \in Slots /\ fewer[s] = dir[s]
      BY <1>0, <1>2
    <3> QED BY <2>1, <3>1
  <2> QED BY <2>2
<1>13. Joins(rec, rec2, T, slot, rec[slot])
  BY <1>2, <1>12 DEF Joins
<1>14. rec[slot] \in Saves /\ \A s \in T : rec2[s] \in Saves
  <2>1. rec[slot] \in Saves
    BY <1>d, WholeSave
  <2>2. ASSUME NEW s \in T PROVE rec2[s] \in Saves
    BY <1>9, <1>d, WholeSave
  <2> QED BY <2>1, <2>2
<1>15. /\ Reading(dir, table, data) = Listing(MAX_ENTRIES, T \cup {slot}, rec)
       /\ Reading(fewer, table, data) = Listing(MAX_ENTRIES, T, rec2)
  <2>1. T \cup {slot} = S
    BY <1>2, <1>d
  <2> QED BY <2>1, <1>d DEF Reading
<1> HIDE DEF rec, rec2
<1>16. \E i \in Nat : Inserted(Listing(MAX_ENTRIES, T \cup {slot}, rec), Listing(MAX_ENTRIES, T, rec2), rec[slot], i)
  <2>1. slot \in 1 .. MAX_ENTRIES /\ T \in SUBSET (1 .. MAX_ENTRIES)
    BY <1>0, <1>2, <1>d
  <2> QED BY <2>1, <1>0, <1>13, <1>14, ListingMore
<1>17. OneFewer(Reading(dir, table, data), Reading(fewer, table, data))
  BY <1>15, <1>16 DEF OneFewer, OneMore
<1> QED BY <1>9, <1>10, <1>11, <1>17, <1>d DEF DeleteSteps

-----------------------------------------------------------------------------
(* A card built.                                                           *)

\* A card asked for at its own size is of that size.
LEMMA CardSizeIs ==
  ASSUME CardIsPossible, NEW needed
  PROVE  card_size(Size * BLOCK, needed) = Size
<1>1. Size \in KNOWN_SIZES /\ Size \in Nat /\ BLOCK \in Nat /\ BLOCK > 0
  BY DEF CardIsPossible
<1>2. (Size * BLOCK) \div BLOCK = Size
  BY <1>1
<1> QED BY <1>1, <1>2 DEF card_size

\* Two copies alike, each as it is.
LEMMA TwiceIs ==
  ASSUME CardIsPossible, NEW M, NEW map \in M
  PROVE  Twice(map) \in Pairs(M) /\ pick_mirror(Twice(map)) = 1 /\ Trusted(Twice(map)) = map
<1>1. COUNTERS \in Nat /\ COUNTERS >= 4 /\ CountersWrap
  BY DEF CardIsPossible, CountersWrap
<1>2. pick_mirror(Twice(map)) = 1
  BY <1>1, TwicePair
<1> DEFINE copy == [counter |-> 0, valid |-> TRUE, map |-> map]
<1>3. copy \in Copies(M) /\ copy.map = map
  BY <1>1 DEF Copies
<1>4. Twice(map) = <<copy, copy>>
  BY DEF Twice
<1> HIDE DEF copy
<1>5. Twice(map) \in Pairs(M) /\ Twice(map)[1] = copy
  BY <1>3, <1>4 DEF Pairs
<1> QED BY <1>2, <1>3, <1>5 DEF Trusted

\* What a card is made of, and reads as.
MadeOf(card, saves, header) ==
    /\ card \in Cards /\ card.header = header /\ PairsPicked(card)
    /\ Whole(Trusted(card.dirs), Trusted(card.tables))
    /\ parse(card) = [ok |-> TRUE, saves |-> saves]

\* The directory a builder writes.
DirectoryOf(saves) ==
    [s \in Slots |-> IF s \in DOMAIN saves THEN directory_entry(saves, s) ELSE Erased]

\* What a builder makes, at the card's own size.
LEMMA BuiltAs ==
  ASSUME CardIsPossible, NEW saves, NEW header
  PROVE  /\ build(saves, header, Size * BLOCK).ok = (Len(saves) <= MAX_ENTRIES /\ Count(saves) <= Size)
         /\ build(saves, header, Size * BLOCK).card =
              [size |-> Size, header |-> header, dirs |-> Twice(DirectoryOf(saves)),
               tables |-> Twice(Packed(Lengths(saves), Size)),
               data |-> Filled(Joined([k \in DOMAIN saves |-> saves[k].data]), Size, Zeros)]
<1> DEFINE size == card_size(Size * BLOCK, Count(saves))
           built == build(saves, header, Size * BLOCK)
<1>1. size = Size
  BY CardSizeIs
<1>2. built.ok = (Len(saves) <= MAX_ENTRIES /\ Count(saves) <= size)
  BY DEF build
<1>3. built.card = [size |-> size, header |-> header, dirs |-> Twice(DirectoryOf(saves)),
                    tables |-> Twice(Packed(Lengths(saves), size)),
                    data |-> Filled(Joined([k \in DOMAIN saves |-> saves[k].data]), size, Zeros)]
  BY DEF build, DirectoryOf
<1> HIDE DEF size, built
<1> QED BY <1>1, <1>2, <1>3 DEF built

\* What is built of saves that fit has each in blocks of its own, and reads back
\* as those saves in that order.
LEMMA BuildIs ==
  ASSUME CardIsPossible, NEW saves \in Seq(Saves), CardFits(saves), NEW header \in Headers
  PROVE  /\ build(saves, header, Size * BLOCK).ok
         /\ MadeOf(build(saves, header, Size * BLOCK).card, saves, header)
<1> DEFINE n == Len(saves)
           lengths == LengthsIn(saves)
           order == InTurn(saves)
           built == build(saves, header, Size * BLOCK)
           card == built.card
           dir == DirectoryOf(saves)
           t == Packed(lengths, Size)
           d == Filled(Joined(DataOf(saves, order)), Size, Zeros)
           first == FirstOf(dir)
<1>0. /\ MAX_ENTRIES \in Nat /\ Size \in Nat /\ Slots = 1 .. MAX_ENTRIES /\ Zeros \in Data /\ Erased \notin Entries
  BY ErasedIsNone DEF CardIsPossible, Slots, Data
<1>1. n \in Nat /\ DOMAIN saves = 1 .. n
  OBVIOUS
<1>s. \A k \in 1 .. n : /\ saves[k] = [name |-> saves[k].name, data |-> saves[k].data]
                        /\ saves[k].data \in Seq(Data) /\ saves[k].data # <<>> /\ saves[k].name \in Names
                        /\ Len(saves[k].data) \in Nat
  <2> SUFFICES ASSUME NEW k \in 1 .. n
               PROVE  /\ saves[k] = [name |-> saves[k].name, data |-> saves[k].data]
                      /\ saves[k].data \in Seq(Data) /\ saves[k].data # <<>> /\ saves[k].name \in Names
                      /\ Len(saves[k].data) \in Nat
    OBVIOUS
  <2>1. saves[k] \in Saves
    BY <1>1
  <2>2. saves[k].data # <<>>
    BY <1>1 DEF CardFits
  <2>3. saves[k].data \in Seq(Data)
    BY <2>1 DEF Saves, Data
  <2> QED BY <2>1, <2>2, <2>3 DEF Saves
<1>2. /\ Ordered(order, saves, order)
      /\ lengths = LengthsOf(DataOf(saves, order))
      /\ DataOf(saves, order) = [k \in DOMAIN saves |-> saves[k].data]
  BY InTurnIs
<1>l. Lengths(saves) = lengths
  BY DEF Lengths, LengthsIn
<1>3. n <= MAX_ENTRIES /\ Total(lengths) <= Size /\ Count(saves) = Total(lengths)
  BY <1>l DEF CardFits, Count
<1>4. /\ built.ok
      /\ card = [size |-> Size, header |-> header, dirs |-> Twice(dir), tables |-> Twice(t), data |-> d]
  <2>1. d = Filled(Joined([k \in DOMAIN saves |-> saves[k].data]), Size, Zeros)
    BY <1>2
  <2>2. t = Packed(Lengths(saves), Size)
    BY <1>l
  <2>3. Len(saves) <= MAX_ENTRIES /\ Count(saves) <= Size
    BY DEF CardFits
  <2> HIDE DEF d, t
  <2> QED BY <2>1, <2>2, <2>3, BuiltAs
<1>e. dir = [s \in Slots |-> IF s \in 1 .. n
                             THEN [name |-> saves[s].name, first |-> StartsAt(lengths, s), count |-> Len(saves[s].data)]
                             ELSE Erased]
  BY <1>1, <1>l DEF DirectoryOf, directory_entry
<1>p. card = build(saves, header, Size * BLOCK).card /\ first = FirstOf(dir)
      /\ built.ok = build(saves, header, Size * BLOCK).ok
  OBVIOUS
<1> HIDE DEF n, lengths, order, built, dir, t, d, first
<1>5. \A k \in 1 .. n : /\ k \in Slots /\ order[k] = k /\ first[k] = StartsAt(lengths, k)
                        /\ dir[k].name = saves[k].name
                        /\ dir[k] = [name |-> saves[k].name, first |-> first[k], count |-> Len(saves[k].data)]
  BY <1>0, <1>1, <1>3, <1>e, <1>p DEF FirstOf, InTurn, order
<1>f. \A k \in 1 .. n : dir[k].name = saves[k].name /\ dir[k].first = first[k] /\ dir[k].count = Len(saves[k].data)
  <2> SUFFICES ASSUME NEW k \in 1 .. n
               PROVE dir[k].name = saves[k].name /\ dir[k].first = first[k] /\ dir[k].count = Len(saves[k].data)
    OBVIOUS
  <2>1. dir[k] = [name |-> saves[k].name, first |-> first[k], count |-> Len(saves[k].data)]
    BY <1>5
  <2> QED BY ONLY <2>1
<1>6. Anew(Size, Data, saves, lengths, order, Packed(lengths, Size),
           Filled(Joined(DataOf(saves, order)), Size, Zeros), first)
  <2>1. \A k \in 1 .. n : first[k] = StartsAt(lengths, order[k])
    BY <1>5
  <2> QED BY <2>1, <1>0, <1>1, <1>2, <1>3, <1>s, AnewIs DEF n
<1>7. /\ LaidOut(Size, t, 1 .. n, first) /\ d \in [1 .. Size -> Data]
      /\ \A k \in 1 .. n : Content(t, d, first[k]) = saves[k].data /\ Len(Chain(t, first[k])) = Len(saves[k].data)
  BY <1>6 DEF Anew, n, t, d
<1>8. ASSUME NEW k \in 1 .. n PROVE dir[k] \in Entries
  <2>1. first[k] \in 1 .. Size /\ Len(Chain(t, first[k])) \in 1 .. Size
    BY <1>0, <1>7, LaidOutIs
  <2>2. first[k] \in 0 .. Size /\ Len(saves[k].data) \in 0 .. Size /\ saves[k].name \in Names
    <3>1. Len(saves[k].data) = Len(Chain(t, first[k])) /\ saves[k].name \in Names
      BY <1>7, <1>s
    <3>2. \A b \in 1 .. Size : b \in 0 .. Size
      BY <1>0
    <3> QED BY ONLY <3>1, <3>2, <2>1
  <2>3. dir[k] = [name |-> saves[k].name, first |-> first[k], count |-> Len(saves[k].data)]
    BY <1>5
  <2> QED BY ONLY <2>2, <2>3 DEF Entries
<1>9. dir \in Dirs /\ Used(dir) = 1 .. n
  <2>1. \A s \in Slots : dir[s] = IF s \in 1 .. n THEN dir[s] ELSE Erased
    BY <1>e
  <2>2. dir \in Dirs
    BY <1>8, <1>e, <2>1 DEF Dirs
  <2>3. 1 .. n \subseteq Slots
    BY <1>5
  <2>4. \A s \in 1 .. n : dir[s] # Erased
    BY <1>0, <1>8
  <2> QED BY <2>1, <2>2, <2>3, <2>4 DEF Used
<1>10. t \in Tables
  BY <1>7, TableIsLinks DEF LaidOut
<1>11. Whole(dir, t)
  <2>1. \A k \in 1 .. n : dir[k].count = Len(Chain(t, first[k]))
    BY <1>f, <1>7
  <2> QED BY <2>1, <1>7, <1>9, <1>10, <1>p DEF Whole
<1>12. /\ Twice(dir) \in Pairs(Dirs) /\ pick_mirror(Twice(dir)) = 1 /\ Trusted(Twice(dir)) = dir
       /\ Twice(t) \in Pairs(Tables) /\ pick_mirror(Twice(t)) = 1 /\ Trusted(Twice(t)) = t
  BY <1>9, <1>10, TwiceIs
<1>13. /\ card.size = Size /\ card.header = header /\ card.data = d
       /\ card.dirs = Twice(dir) /\ card.tables = Twice(t)
  BY <1>4
<1>14. card \in Cards
  BY <1>4, <1>7, <1>12 DEF Cards, Data
<1>15. PairsPicked(card) /\ Trusted(card.dirs) = dir /\ Trusted(card.tables) = t
  BY <1>12, <1>13 DEF PairsPicked
<1>16. Readable(dir, t)
  BY <1>11, WholeReads
<1> DEFINE rec == SaveOf(dir, t, d)
<1>17. ASSUME NEW k \in 1 .. n PROVE rec[k] = saves[k]
  <2>1. rec[k] = [name |-> dir[k].name, data |-> Content(t, d, dir[k].first)]
    BY <1>5 DEF SaveOf
  <2> HIDE DEF rec
  <2>2. dir[k].first = first[k] /\ dir[k].name = saves[k].name
    BY <1>f
  <2>3. Content(t, d, first[k]) = saves[k].data
    BY <1>7
  <2> QED BY <2>1, <2>2, <2>3, <1>s
<1>18. Reading(dir, t, d) = saves
  <2>1. Reading(dir, t, d) = Listing(MAX_ENTRIES, 1 .. n, rec)
    BY <1>9 DEF Reading
  <2> HIDE DEF rec
  <2>2. Listing(MAX_ENTRIES, 1 .. n, rec) = saves
    BY <1>0, <1>3, <1>17, ListedAnew DEF n
  <2> QED BY <2>1, <2>2
<1>19. parse(card) = [ok |-> TRUE, saves |-> saves]
  BY <1>13, <1>15, <1>16, <1>18, ParseIs
<1> QED BY <1>4, <1>11, <1>13, <1>14, <1>15, <1>19, <1>p DEF MadeOf

\* What is built of a save of no bytes does not read back.
LEMMA BuildRefused ==
  ASSUME CardIsPossible, NEW saves \in Seq(Saves), NEW header,
         NEW card, card = build(saves, header, Size * BLOCK).card,
         build(saves, header, Size * BLOCK).ok, parse(card).ok
  PROVE  CardFits(saves)
<1> DEFINE dir == DirectoryOf(saves)
           t == Packed(Lengths(saves), Size)
           n == Len(saves)
<1>1. /\ n <= MAX_ENTRIES /\ Count(saves) <= Size /\ n \in Nat /\ DOMAIN saves = 1 .. n
      /\ card.size = Size /\ card.dirs = Twice(dir) /\ card.tables = Twice(t)
  <2> DEFINE d == Filled(Joined([k \in DOMAIN saves |-> saves[k].data]), Size, Zeros)
  <2>1. card = [size |-> Size, header |-> header, dirs |-> Twice(dir), tables |-> Twice(t), data |-> d]
    BY BuiltAs
  <2>2. Len(saves) <= MAX_ENTRIES /\ Count(saves) <= Size
    BY BuiltAs
  <2> HIDE DEF dir, t, d
  <2> QED BY <2>1, <2>2
<1>2. Trusted(card.dirs) = dir /\ Trusted(card.tables) = t
  <2>1. dir \in {dir} /\ t \in {t}
    OBVIOUS
  <2> HIDE DEF dir, t
  <2> QED BY <2>1, <1>1, TwiceIs
<1>3. dir = [s \in Slots |-> IF s \in 1 .. n THEN directory_entry(saves, s) ELSE Erased]
  BY <1>1 DEF DirectoryOf
<1> HIDE DEF dir, t
<1>4. Readable(dir, t)
  <2>1. parse(card) = IF PairsPicked(card) /\ Readable(dir, t)
                      THEN [ok |-> TRUE, saves |-> Reading(dir, t, card.data)]
                      ELSE NotRead
    <3>1. card.size = Size /\ dir = Trusted(card.dirs) /\ t = Trusted(card.tables)
      BY <1>1, <1>2
    <3> HIDE DEF n
    <3> QED BY ZenonT(60), <3>1, ParseIs
  <2>2. CASE ~Readable(dir, t)
    <3>1. parse(card) = NotRead
      BY <2>1, <2>2
    <3> QED BY <3>1 DEF NotRead
  <2> QED BY <2>2
<1>5. ASSUME NEW k \in 1 .. n PROVE saves[k].data # <<>>
  <2>1. saves[k] \in Saves
    BY <1>1
  <2>2. saves[k].name \in Names /\ saves[k].data \in Seq(Data) /\ Len(saves[k].data) \in Nat
    BY <2>1 DEF Saves, Data
  <2>3. StartsAt(Lengths(saves), k) \in Nat
    <3>1. \A i \in 1 .. n : Len(saves[i].data) \in Nat
      <4> SUFFICES ASSUME NEW i \in 1 .. n PROVE Len(saves[i].data) \in Nat
        OBVIOUS
      <4>1. saves[i] \in Saves
        BY <1>1
      <4> QED BY <4>1 DEF Saves
    <3>2. Lengths(saves) \in Seq(Nat) /\ Len(Lengths(saves)) = n
      BY <1>1, <3>1 DEF Lengths
    <3>3. Summed(Lengths(saves)) \in [0 .. n -> Nat]
      BY <3>2, SummedIsThere
    <3>4. k - 1 \in 0 .. n
      BY <1>1
    <3> QED BY <3>3, <3>4 DEF StartsAt
  <2> DEFINE e == directory_entry(saves, k)
  <2>4. e \in [name : Names, first : Nat, count : Nat] /\ e.count = Len(saves[k].data)
    BY <2>2, <2>3 DEF directory_entry
  <2>5. k \in Slots
    BY <1>1 DEF Slots, CardIsPossible
  <2> HIDE DEF e
  <2>6. dir[k] = e
    BY <1>3, <2>5 DEF e
  <2>7. k \in Used(dir)
    BY <2>4, <2>5, <2>6 DEF Used, CardIsPossible
  <2>8. e.count > 0
    BY <1>4, <2>6, <2>7 DEF Readable, follow_chain
  <2> QED BY <2>4, <2>8
<1> QED BY <1>1, <1>5 DEF CardFits

\* A card no save is on is what a builder makes of none.
LEMMA NoneFit == ASSUME CardIsPossible PROVE <<>> \in Seq(Saves) /\ CardFits(<<>>)
<1>1. Lengths(<<>>) = <<>>
  BY DEF Lengths
<1>2. Count(<<>>) = 0
  BY <1>1, TotalEmpty DEF Count
<1>3. MAX_ENTRIES \in Nat /\ Size \in Nat
  BY DEF CardIsPossible
<1> QED BY <1>2, <1>3, ListOfNone DEF CardFits

\* ... and so it reads as none.
LEMMA BlankIs ==
  ASSUME CardIsPossible, NEW header \in Headers
  PROVE  MadeOf(Blank(header), <<>>, header)
<1>1. build(<<>>, header, Size * BLOCK).card =
              [size |-> Size, header |-> header, dirs |-> Twice(DirectoryOf(<<>>)),
               tables |-> Twice(Packed(Lengths(<<>>), Size)),
               data |-> Filled(Joined([k \in DOMAIN <<>> |-> <<>>[k].data]), Size, Zeros)]
  BY BuiltAs
<1>2. Lengths(<<>>) = <<>> /\ [k \in DOMAIN <<>> |-> <<>>[k].data] = <<>>
  <2>1. ASSUME NEW s, s = <<>> PROVE [k \in DOMAIN s |-> s[k].data] = <<>>
    BY <2>1
  <2>2. Lengths(<<>>) = <<>>
    BY DEF Lengths
  <2> QED BY <2>1, <2>2
<1>3. DirectoryOf(<<>>) = [s \in Slots |-> Erased]
  BY DEF DirectoryOf
<1>4. Blank(header) = build(<<>>, header, Size * BLOCK).card
  BY <1>1, <1>2, <1>3, JoinedEmpty DEF Blank
<1> QED BY <1>4, BuildIs, NoneFit

-----------------------------------------------------------------------------
(* A card no damage was done to, while a console writes it.                *)

Dir == Trusted(disk.dirs)
Table == Trusted(disk.tables)

\* A write still to come is of a copy of its region.
IsWrite(entry) ==
    \/ entry.region = "dirs" /\ entry.copy \in Copies(Dirs)
    \/ entry.region = "tables" /\ entry.copy \in Copies(Tables)
DirAfter(entry, dir) == IF entry.region = "dirs" THEN entry.copy.map ELSE dir
TableAfter(entry, table) == IF entry.region = "tables" THEN entry.copy.map ELSE table

\* What is read of a card goes on by one save more or one fewer, or stays.
Goes(from, to) ==
    \/ from = to
    \/ \E game \in Games : OneMore(to, from, game)
    \/ OneFewer(from, to)

\* With the next write there the card is whole.
LeadsOn(entry, dir, table, data) ==
    /\ IsWrite(entry)
    /\ Whole(DirAfter(entry, dir), TableAfter(entry, table))
    /\ Goes(Reading(dir, table, data), Reading(DirAfter(entry, dir), TableAfter(entry, table), data))

\* ... and with the one after it.
Leads(jobs, dir, table, data) ==
    \/ jobs = <<>>
    \/ \E a : jobs = <<a>> /\ LeadsOn(a, dir, table, data)
    \/ \E a, b : /\ jobs = <<a, b>> /\ LeadsOn(a, dir, table, data)
                 /\ LeadsOn(b, DirAfter(a, dir), TableAfter(a, table), data)

\* A card no damage was done to.
CardStands(card) ==
    /\ card \in Cards /\ PairsPicked(card)
    /\ Whole(Trusted(card.dirs), Trusted(card.tables))

ReadingOf(card) == Reading(Trusted(card.dirs), Trusted(card.tables), card.data)

\* The inductive invariant of it all.
CardInv ==
    /\ GInv
    /\ disk \in Cards
    /\ damage = 0 => CardStands(disk)
    /\ Leads(job, Dir, Table, disk.data)
    /\ damage \in 0 .. MaxDamage
    /\ pc \in {"closed", "editing", "refused"}
    /\ held \in Seq(Saves) /\ area \in Headers
    /\ pc # "closed" => area = disk.header
    /\ kept # <<>> => held = <<>> /\ parse(disk) = [ok |-> TRUE, saves |-> <<>>]

\* The parts of a card, and of a pair.
LEMMA CardIs ==
  ASSUME CardIsPossible, NEW card \in Cards
  PROVE  /\ card.size = Size /\ card.header \in Headers /\ card.data \in [1 .. Size -> Data]
         /\ card.dirs \in Pairs(Dirs) /\ card.tables \in Pairs(Tables)
         /\ card = [size |-> card.size, header |-> card.header, dirs |-> card.dirs,
                    tables |-> card.tables, data |-> card.data]
BY DEF Cards, Data

LEMMA PairIs ==
  ASSUME NEW M, NEW p \in Pairs(M), pick_mirror(p) # 0
  PROVE  Trusted(p) \in M /\ p[pick_mirror(p)] \in Copies(M) /\ pick_mirror(p) \in {1, 2}
<1>1. pick_mirror(p) \in {1, 2}
  BY DEF pick_mirror
<1>2. p[pick_mirror(p)] \in Copies(M)
  BY <1>1 DEF Pairs
<1> QED BY <1>1, <1>2 DEF Trusted, Copies

\* A card that stands reads, and one that reads is of saves that go on it.
LEMMA StandsReads ==
  ASSUME CardIsPossible, NEW card, CardStands(card)
  PROVE  /\ parse(card) = [ok |-> TRUE, saves |-> ReadingOf(card)]
         /\ ReadingOf(card) \in Seq(Saves)
<1>1. /\ card \in Cards /\ PairsPicked(card) /\ Whole(Trusted(card.dirs), Trusted(card.tables))
      /\ card.size = Size /\ card.data \in [1 .. Size -> Data]
  BY CardIs DEF CardStands
<1>2. Readable(Trusted(card.dirs), Trusted(card.tables))
  BY <1>1, WholeReads
<1>3. parse(card) = [ok |-> TRUE, saves |-> ReadingOf(card)]
  BY <1>1, <1>2, ParseIs DEF ReadingOf
<1> QED BY <1>1, <1>3, WholeTakes DEF ReadingOf

\* So does one that reads whatever was done to it.
LEMMA ReadFits ==
  ASSUME CardIsPossible, NEW card \in Cards, parse(card).ok
  PROVE  /\ parse(card).saves \in Seq(Saves) /\ CardFits(parse(card).saves)
         /\ parse(card) = [ok |-> TRUE, saves |-> parse(card).saves]
<1> DEFINE dir == Trusted(card.dirs)
           table == Trusted(card.tables)
<1>1. card.size = Size /\ card.data \in [1 .. Size -> Data] /\ card.dirs \in Pairs(Dirs) /\ card.tables \in Pairs(Tables)
  BY CardIs
<1>d. dir = Trusted(card.dirs) /\ table = Trusted(card.tables)
  OBVIOUS
<1> HIDE DEF dir, table
<1>2. parse(card) = IF PairsPicked(card) /\ Readable(dir, table)
                    THEN [ok |-> TRUE, saves |-> Reading(dir, table, card.data)]
                    ELSE NotRead
  BY <1>1, <1>d, ParseIs
<1>3. NotRead.ok = FALSE
  BY DEF NotRead
<1>4. PairsPicked(card) /\ Readable(dir, table)
  <2>1. CASE ~(PairsPicked(card) /\ Readable(dir, table))
    <3>1. parse(card) = NotRead
      BY <1>2, <2>1
    <3> QED BY <3>1, <1>3
  <2> QED BY <2>1
<1>5. parse(card) = [ok |-> TRUE, saves |-> Reading(dir, table, card.data)]
  BY <1>2, <1>4
<1>6. dir \in Dirs /\ table \in Tables
  BY <1>1, <1>4, <1>d, PairIs DEF PairsPicked
<1>7. Reading(dir, table, card.data) \in Seq(Saves) /\ CardFits(Reading(dir, table, card.data))
  BY <1>1, <1>4, <1>6, ReadingIs
<1> QED BY <1>5, <1>7

\* A copy one ahead of one that stands is of its region.
LEMMA CopyIs ==
  ASSUME CardIsPossible, NEW r, NEW M, disk[r] \in Pairs(M), pick_mirror(disk[r]) # 0, NEW map \in M
  PROVE  Copy(r, map).region = r /\ Copy(r, map).copy \in Copies(M) /\ Copy(r, map).copy.map = map
<1> DEFINE c == disk[r][pick_mirror(disk[r])].counter
<1>1. c \in 0 .. COUNTERS - 1
  BY PairIs DEF Copies
<1>2. (c + 1) % COUNTERS \in 0 .. COUNTERS - 1
  <2> HIDE DEF c
  <2> QED BY <1>1, Ahead DEF CardIsPossible
<1>3. Copy(r, map) = [region |-> r, copy |-> [counter |-> (c + 1) % COUNTERS, valid |-> TRUE, map |-> map]]
  BY DEF Copy
<1> HIDE DEF c
<1> QED BY <1>2, <1>3 DEF Copies

\* The same pairs in a card with the same of all else but what blocks hold.
LEMMA SamePairs ==
  ASSUME CardIsPossible, NEW card, CardStands(card), NEW data \in [1 .. Size -> Data],
         NEW other, other = [card EXCEPT !.data = data]
  PROVE  /\ CardStands(other) /\ other.dirs = card.dirs /\ other.tables = card.tables
         /\ other.header = card.header /\ other.data = data
<1>1. card \in Cards /\ PairsPicked(card) /\ Whole(Trusted(card.dirs), Trusted(card.tables))
  BY DEF CardStands
<1>2. /\ other \in Cards /\ other.dirs = card.dirs /\ other.tables = card.tables
      /\ other.header = card.header /\ other.data = data
  BY <1>1 DEF Cards, Data
<1> QED BY <1>1, <1>2 DEF CardStands, PairsPicked

-----------------------------------------------------------------------------

\* What is known of a card no damage was done to.
LEMMA CardInvStands ==
  ASSUME CardIsPossible, CardInv, damage = 0
  PROVE  /\ CardStands(disk) /\ Whole(Dir, Table) /\ disk \in Cards
         /\ parse(disk) = [ok |-> TRUE, saves |-> Reading(Dir, Table, disk.data)]
         /\ Reading(Dir, Table, disk.data) \in Seq(Saves)
         /\ disk.data \in [1 .. Size -> Data]
         /\ disk["dirs"] = disk.dirs /\ disk["tables"] = disk.tables
         /\ disk.dirs \in Pairs(Dirs) /\ disk.tables \in Pairs(Tables)
         /\ pick_mirror(disk.dirs) # 0 /\ pick_mirror(disk.tables) # 0
<1>1. CardStands(disk)
  BY DEF CardInv
<1>2. disk \in Cards /\ PairsPicked(disk) /\ Whole(Dir, Table)
  BY <1>1 DEF CardStands, Dir, Table
<1>3. parse(disk) = [ok |-> TRUE, saves |-> Reading(Dir, Table, disk.data)]
      /\ Reading(Dir, Table, disk.data) \in Seq(Saves)
  BY <1>1, StandsReads DEF ReadingOf, Dir, Table
<1> QED BY <1>1, <1>2, <1>3, CardIs DEF PairsPicked

\* What a step of the console comes to: the card reads, before and after, and
\* what is read of it goes on.
Onward ==
    /\ CardInv'
    /\ pc = "closed" /\ UNCHANGED <<damage, toolVars>> /\ disk'.header = disk.header
    /\ parse(disk).ok /\ parse(disk').ok
    /\ Goes(parse(disk).saves, parse(disk').saves)

\* A save begun changes nothing read, and leads on by one more.
LEMMA SaveOnward ==
  ASSUME CardIsPossible, CardInv, NEW game \in Games, ConsoleSave(game)
  PROVE  Onward
<1>1. /\ pc = "closed" /\ job = <<>> /\ damage = 0 /\ UNCHANGED <<damage, toolVars>>
  BY DEF ConsoleSave, Idle
<1>2. PICK blocks \in FreeRuns(Table, Len(game.data)), slot \in Slots \ Used(Dir) :
        LET entry == [name |-> game.name, first |-> blocks[1], count |-> Len(game.data)]
        IN /\ disk' = [disk EXCEPT !.data = Written(@, blocks, game.data)]
           /\ job' = <<Copy("tables", Given(Table, blocks)), Copy("dirs", Listed(Dir, slot, entry))>>
  BY DEF ConsoleSave, Dir, Table, Listed
<1> DEFINE after == Written(disk.data, blocks, game.data)
           given == Given(Table, blocks)
           more == Listed(Dir, slot, [name |-> game.name, first |-> blocks[1], count |-> Len(game.data)])
           a == Copy("tables", given)
           b == Copy("dirs", more)
<1>3. disk' = [disk EXCEPT !.data = after] /\ job' = <<a, b>>
  BY <1>2
<1>4. /\ CardStands(disk) /\ Whole(Dir, Table) /\ disk \in Cards /\ disk.data \in [1 .. Size -> Data]
      /\ parse(disk) = [ok |-> TRUE, saves |-> Reading(Dir, Table, disk.data)]
      /\ disk["dirs"] \in Pairs(Dirs) /\ disk["tables"] \in Pairs(Tables)
      /\ pick_mirror(disk["dirs"]) # 0 /\ pick_mirror(disk["tables"]) # 0
  BY <1>1, CardInvStands
<1>5. SaveSteps(Dir, Table, disk.data, more, given, after, game)
  BY <1>2, <1>4, SaveStarts
<1> HIDE DEF after, given, more, a, b
<1>6. /\ after \in [1 .. Size -> Data]
      /\ Whole(Dir, given) /\ Whole(more, given)
      /\ Reading(Dir, Table, after) = Reading(Dir, Table, disk.data)
      /\ Reading(Dir, given, after) = Reading(Dir, Table, after)
      /\ OneMore(Reading(more, given, after), Reading(Dir, given, after), game)
  BY <1>5 DEF SaveSteps
<1>7. /\ CardStands(disk') /\ disk'.dirs = disk.dirs /\ disk'.tables = disk.tables
      /\ disk'.header = disk.header /\ disk'.data = after
  BY <1>3, <1>4, <1>6, SamePairs
<1>8. Dir' = Dir /\ Table' = Table /\ disk' \in Cards
  BY <1>7 DEF Dir, Table, CardStands
<1>9. /\ a.region = "tables" /\ a.copy \in Copies(Tables) /\ a.copy.map = given
      /\ b.region = "dirs" /\ b.copy \in Copies(Dirs) /\ b.copy.map = more
  <2>1. given \in Tables /\ more \in Dirs
    BY <1>6 DEF Whole
  <2> QED BY <2>1, <1>4, CopyIs DEF a, b
<1>10. /\ DirAfter(a, Dir) = Dir /\ TableAfter(a, Table) = given
       /\ DirAfter(b, Dir) = more /\ TableAfter(b, given) = given
  BY <1>9 DEF DirAfter, TableAfter
<1>11. LeadsOn(a, Dir, Table, after) /\ LeadsOn(b, Dir, given, after)
  BY <1>6, <1>9, <1>10 DEF LeadsOn, IsWrite, Goes
<1>12. Leads(job', Dir', Table', disk'.data)
  BY <1>3, <1>7, <1>8, <1>10, <1>11 DEF Leads
<1>13. GInv'
  BY ConsoleStarts DEF CardInv, CardIsPossible
<1>14. UNCHANGED <<damage, pc, held, kept, area>> /\ kept = <<>>
  BY <1>1 DEF toolVars, CardInv, GInv, KeptIsTheCard
<1>15. CardInv'
  BY <1>7, <1>8, <1>12, <1>13, <1>14 DEF CardInv
<1>16. parse(disk') = [ok |-> TRUE, saves |-> Reading(Dir, Table, after)]
  BY <1>7, <1>8, StandsReads DEF ReadingOf, Dir, Table
<1>17. Goes(parse(disk).saves, parse(disk').saves)
  BY <1>4, <1>6, <1>16 DEF Goes
<1> QED BY <1>1, <1>4, <1>7, <1>15, <1>16, <1>17 DEF Onward

\* A deletion begun leads on by one fewer.
LEMMA DeleteOnward ==
  ASSUME CardIsPossible, CardInv, NEW slot \in Slots, ConsoleDelete(slot)
  PROVE  Onward
<1>1. /\ pc = "closed" /\ job = <<>> /\ damage = 0 /\ UNCHANGED <<disk, damage, toolVars>>
      /\ slot \in Used(Dir)
  BY DEF ConsoleDelete, Idle, Dir
<1> DEFINE freed == Freed(Table, Chain(Table, Dir[slot].first))
           fewer == Listed(Dir, slot, Erased)
           a == Copy("dirs", fewer)
           b == Copy("tables", freed)
<1>3. job' = <<a, b>>
  BY DEF ConsoleDelete, Listed, Dir, Table
<1>4. /\ CardStands(disk) /\ Whole(Dir, Table) /\ disk \in Cards /\ disk.data \in [1 .. Size -> Data]
      /\ parse(disk) = [ok |-> TRUE, saves |-> Reading(Dir, Table, disk.data)]
      /\ disk["dirs"] \in Pairs(Dirs) /\ disk["tables"] \in Pairs(Tables)
      /\ pick_mirror(disk["dirs"]) # 0 /\ pick_mirror(disk["tables"]) # 0
  BY <1>1, CardInvStands
<1>5. DeleteSteps(Dir, Table, disk.data, fewer, freed)
  BY <1>1, <1>4, DeleteStarts
<1> HIDE DEF freed, fewer, a, b
<1>6. /\ Whole(fewer, Table) /\ Whole(fewer, freed)
      /\ OneFewer(Reading(Dir, Table, disk.data), Reading(fewer, Table, disk.data))
      /\ Reading(fewer, freed, disk.data) = Reading(fewer, Table, disk.data)
  BY <1>5 DEF DeleteSteps
<1>8. Dir' = Dir /\ Table' = Table /\ disk' = disk
  BY <1>1 DEF Dir, Table
<1>9. /\ b.region = "tables" /\ b.copy \in Copies(Tables) /\ b.copy.map = freed
      /\ a.region = "dirs" /\ a.copy \in Copies(Dirs) /\ a.copy.map = fewer
  <2>1. freed \in Tables /\ fewer \in Dirs
    BY <1>6 DEF Whole
  <2> QED BY <2>1, <1>4, CopyIs DEF a, b
<1>10. /\ DirAfter(a, Dir) = fewer /\ TableAfter(a, Table) = Table
       /\ DirAfter(b, fewer) = fewer /\ TableAfter(b, Table) = freed
  BY <1>9 DEF DirAfter, TableAfter
<1>11. LeadsOn(a, Dir, Table, disk.data) /\ LeadsOn(b, fewer, Table, disk.data)
  BY <1>6, <1>9, <1>10 DEF LeadsOn, IsWrite, Goes
<1>12. Leads(job', Dir', Table', disk'.data)
  BY <1>3, <1>8, <1>10, <1>11 DEF Leads
<1>13. GInv'
  BY ConsoleStarts DEF CardInv, CardIsPossible
<1>14. UNCHANGED <<damage, pc, held, kept, area>> /\ kept = <<>>
  BY <1>1 DEF toolVars, CardInv, GInv, KeptIsTheCard
<1>15. CardInv'
  BY <1>4, <1>8, <1>12, <1>13, <1>14 DEF CardInv
<1> QED BY <1>1, <1>4, <1>8, <1>15 DEF Onward, Goes

\* What is trusted of a card of other pairs.
LEMMA ErasedCard ==
  ASSUME NEW M, NEW p \in Pairs(M), NEW i \in {1, 2}
  PROVE  [p EXCEPT ![i].valid = FALSE] \in Pairs(M)
<1> DEFINE c == [p[i] EXCEPT !.valid = FALSE]
<1>1. i \in 1 .. 2 /\ p[i] \in Copies(M)
  BY DEF Pairs
<1>2. c \in Copies(M)
  BY <1>1 DEF Copies
<1>3. [p EXCEPT ![i].valid = FALSE] = [p EXCEPT ![i] = c]
  BY <1>1 DEF Pairs, Copies
<1> HIDE DEF c
<1> QED BY <1>1, <1>2, <1>3 DEF Pairs

\* One pair of a card made another.
WithPair(card, r, q) == [card EXCEPT ![r] = q]

LEMMA OtherPair ==
  ASSUME CardIsPossible, NEW card \in Cards, NEW r \in Regions, NEW q,
         NEW other, other = WithPair(card, r, q),
         r = "dirs" => q \in Pairs(Dirs), r = "tables" => q \in Pairs(Tables)
  PROVE  /\ other \in Cards /\ other.header = card.header /\ other.data = card.data
         /\ other.dirs = (IF r = "dirs" THEN q ELSE card.dirs)
         /\ other.tables = (IF r = "tables" THEN q ELSE card.tables)
<1>1. CASE r = "dirs"
  <2>1. other = [card EXCEPT !.dirs = q]
    BY <1>1 DEF WithPair
  <2> QED BY <1>1, <2>1 DEF Cards
<1>2. CASE r = "tables"
  <2>1. other = [card EXCEPT !.tables = q]
    BY <1>2 DEF WithPair
  <2> QED BY <1>2, <2>1 DEF Cards
<1> QED BY <1>1, <1>2 DEF Regions

\* A console switched off leaves what was trusted.
LEMMA SwitchedOffOnward ==
  ASSUME CardIsPossible, CardInv, SwitchedOff
  PROVE  CardInv' /\ UNCHANGED <<disk, damage, toolVars>>
<1>1. job' = <<>> /\ UNCHANGED <<disk, damage, toolVars>>
  BY DEF SwitchedOff
<1>2. GInv'
  BY ConsoleSwitchedOff DEF CardInv
<1>3. UNCHANGED <<damage, pc, held, kept, area>>
  BY <1>1 DEF toolVars
<1> QED BY <1>1, <1>2, <1>3 DEF CardInv, Leads

\* A console with something to write is at a card that stands.
LEMMA WritingOnward ==
  ASSUME CardIsPossible, CardInv, job # <<>>
  PROVE  /\ damage = 0 /\ pc = "closed" /\ kept = <<>> /\ Head(job).region \in Regions
         /\ LeadsOn(Head(job), Dir, Table, disk.data)
         /\ Leads(Tail(job), DirAfter(Head(job), Dir), TableAfter(Head(job), Table), disk.data)
<1>1. damage = 0 /\ pc = "closed" /\ kept = <<>> /\ Head(job).region \in Regions
  BY ToWrite DEF CardInv, IsNext
<1>2. CASE \E a : job = <<a>> /\ LeadsOn(a, Dir, Table, disk.data)
  <2>1. PICK a : job = <<a>> /\ LeadsOn(a, Dir, Table, disk.data)
    BY <1>2
  <2>2. Head(job) = a /\ Tail(job) = <<>>
    BY <2>1
  <2> QED BY <1>1, <2>1, <2>2 DEF Leads
<1>3. CASE \E a, b : /\ job = <<a, b>> /\ LeadsOn(a, Dir, Table, disk.data)
                     /\ LeadsOn(b, DirAfter(a, Dir), TableAfter(a, Table), disk.data)
  <2>1. PICK a, b : /\ job = <<a, b>> /\ LeadsOn(a, Dir, Table, disk.data)
                    /\ LeadsOn(b, DirAfter(a, Dir), TableAfter(a, Table), disk.data)
    BY <1>3
  <2>2. Head(job) = a /\ Tail(job) = <<b>>
    BY <2>1
  <2> QED BY <1>1, <2>1, <2>2 DEF Leads
<1> QED BY <1>2, <1>3 DEF CardInv, Leads

\* A copy erased is not the one trusted.
LEMMA ErasesOnward ==
  ASSUME CardIsPossible, CardInv, ConsoleErases
  PROVE  Onward
<1> DEFINE r == Head(job).region
           q == [disk[r] EXCEPT ![Stale(disk[r])].valid = FALSE]
<1>1. /\ job # <<>> /\ UNCHANGED <<job, damage, toolVars>>
      /\ disk' = [disk EXCEPT ![r][Stale(disk[r])].valid = FALSE]
  BY DEF ConsoleErases
<1>2. damage = 0 /\ pc = "closed" /\ kept = <<>> /\ r \in Regions
  BY <1>1, WritingOnward
<1>3. /\ CardStands(disk) /\ disk \in Cards
      /\ disk["dirs"] = disk.dirs /\ disk["tables"] = disk.tables
      /\ disk.dirs \in Pairs(Dirs) /\ disk.tables \in Pairs(Tables)
  BY <1>2, CardInvStands
<1>4. GInv' /\ \A o \in Regions : Trusted(disk'[o]) = Trusted(disk[o])
  BY <1>1, ConsoleErasesOne DEF CardInv
<1>5. disk' = WithPair(disk, r, q)
  BY <1>1, <1>2, <1>3 DEF Cards, Regions, WithPair
<1>6. Stale(disk[r]) \in {1, 2}
  BY DEF Stale
<1>7. (r = "dirs" => q \in Pairs(Dirs)) /\ (r = "tables" => q \in Pairs(Tables))
  BY <1>3, <1>6, ErasedCard
<1> HIDE DEF r, q
<1>8. disk' \in Cards /\ disk'.header = disk.header /\ disk'.data = disk.data
  BY <1>2, <1>3, <1>5, <1>7, OtherPair
<1>9. Dir' = Dir /\ Table' = Table
  BY <1>4 DEF Dir, Table, Regions
<1>10. damage' = 0 /\ UNCHANGED <<pc, held, kept, area, job>>
  BY <1>1, <1>2 DEF toolVars
<1>11. CardStands(disk')
  <2>1. PairsPicked(disk')
    BY <1>4, <1>10 DEF GInv, Standing, Regions, PairsPicked
  <2>2. Whole(Trusted(disk'.dirs), Trusted(disk'.tables))
    BY <1>3, <1>9 DEF CardStands, Dir, Table
  <2> QED BY <2>1, <2>2, <1>8 DEF CardStands
<1>12. Leads(job', Dir', Table', disk'.data)
  BY <1>8, <1>9, <1>10 DEF CardInv
<1>13. CardInv'
  BY <1>2, <1>4, <1>8, <1>10, <1>11, <1>12 DEF CardInv
<1>14. parse(disk) = [ok |-> TRUE, saves |-> Reading(Dir, Table, disk.data)]
       /\ parse(disk') = [ok |-> TRUE, saves |-> Reading(Dir, Table, disk.data)]
  BY <1>3, <1>8, <1>9, <1>11, StandsReads DEF ReadingOf, Dir, Table
<1> QED BY <1>1, <1>2, <1>8, <1>13, <1>14 DEF Onward, Goes

\* A copy written is the one trusted from there, and leads on as it was to.
LEMMA WritesOnward ==
  ASSUME CardIsPossible, CardInv, ConsoleWrites
  PROVE  Onward
<1> DEFINE entry == Head(job)
           r == entry.region
           q == WithCopy(disk[r], entry.copy)
<1>1. /\ job # <<>> /\ job' = Tail(job) /\ UNCHANGED <<damage, toolVars>>
      /\ disk' = [disk EXCEPT ![r][Stale(disk[r])] = entry.copy]
  BY DEF ConsoleWrites
<1>2. /\ damage = 0 /\ pc = "closed" /\ kept = <<>> /\ r \in Regions
      /\ LeadsOn(entry, Dir, Table, disk.data)
      /\ Leads(Tail(job), DirAfter(entry, Dir), TableAfter(entry, Table), disk.data)
  BY <1>1, WritingOnward
<1>3. /\ CardStands(disk) /\ disk \in Cards
      /\ disk["dirs"] = disk.dirs /\ disk["tables"] = disk.tables
      /\ disk.dirs \in Pairs(Dirs) /\ disk.tables \in Pairs(Tables)
      /\ parse(disk) = [ok |-> TRUE, saves |-> Reading(Dir, Table, disk.data)]
  BY <1>2, CardInvStands
<1>4. /\ GInv' /\ Trusted(disk'[r]) = entry.copy.map
      /\ \A o \in Regions : o # r => disk'[o] = disk[o]
  BY ConsoleWritesOne DEF CardInv, CardIsPossible
<1>5. disk' = WithPair(disk, r, q)
  BY <1>1, <1>2, <1>3 DEF Cards, Regions, WithCopy, WithPair
<1>6. Stale(disk[r]) \in 1 .. 2
  BY DEF Stale
<1>7. (r = "dirs" => q \in Pairs(Dirs)) /\ (r = "tables" => q \in Pairs(Tables))
  <2>1. (r = "dirs" => entry.copy \in Copies(Dirs)) /\ (r = "tables" => entry.copy \in Copies(Tables))
    BY <1>2 DEF LeadsOn, IsWrite
  <2> QED BY <2>1, <1>3, <1>6 DEF WithCopy, Pairs
<1> HIDE DEF entry, r, q
<1>8. disk' \in Cards /\ disk'.header = disk.header /\ disk'.data = disk.data
  BY <1>2, <1>3, <1>5, <1>7, OtherPair
<1>9. Dir' = DirAfter(entry, Dir) /\ Table' = TableAfter(entry, Table)
  <2>1. CASE r = "dirs"
    BY <1>3, <1>4, <2>1 DEF Dir, Table, Regions, DirAfter, TableAfter, r
  <2>2. CASE r = "tables"
    BY <1>3, <1>4, <2>2 DEF Dir, Table, Regions, DirAfter, TableAfter, r
  <2> QED BY <1>2, <2>1, <2>2 DEF Regions
<1>10. damage' = 0 /\ UNCHANGED <<pc, held, kept, area>>
  BY <1>1, <1>2 DEF toolVars
<1>11. CardStands(disk')
  <2>1. PairsPicked(disk')
    BY <1>4, <1>10 DEF GInv, Standing, Regions, PairsPicked
  <2>2. Whole(Trusted(disk'.dirs), Trusted(disk'.tables))
    BY <1>2, <1>9 DEF LeadsOn, Dir, Table
  <2> QED BY <2>1, <2>2, <1>8 DEF CardStands
<1>12. Leads(job', Dir', Table', disk'.data)
  BY <1>1, <1>2, <1>8, <1>9
<1>13. CardInv'
  BY <1>2, <1>4, <1>8, <1>10, <1>11, <1>12 DEF CardInv
<1>14. parse(disk') = [ok |-> TRUE, saves |-> Reading(DirAfter(entry, Dir), TableAfter(entry, Table), disk.data)]
  BY <1>8, <1>9, <1>11, StandsReads DEF ReadingOf, Dir, Table
<1>15. Goes(parse(disk).saves, parse(disk').saves)
  BY <1>2, <1>3, <1>14 DEF LeadsOn
<1> QED BY <1>1, <1>2, <1>3, <1>8, <1>13, <1>14, <1>15 DEF Onward

\* A card with one of its pairs made another is a card, with the same header.
LEMMA DamagedPair ==
  ASSUME CardIsPossible, NEW card \in Cards, NEW q, NEW other
  PROVE  /\ q \in Pairs(Dirs) /\ other = WithPair(card, "dirs", q)
              => other \in Cards /\ other.header = card.header
         /\ q \in Pairs(Tables) /\ other = WithPair(card, "tables", q)
              => other \in Cards /\ other.header = card.header
<1>1. ASSUME q \in Pairs(Dirs), other = WithPair(card, "dirs", q)
      PROVE  other \in Cards /\ other.header = card.header
  <2>1. "dirs" \in Regions /\ "dirs" # "tables"
    BY DEF Regions
  <2> QED BY <2>1, <1>1, OtherPair
<1>2. ASSUME q \in Pairs(Tables), other = WithPair(card, "tables", q)
      PROVE  other \in Cards /\ other.header = card.header
  <2>1. "tables" \in Regions /\ "dirs" # "tables"
    BY DEF Regions
  <2> QED BY <2>1, <1>2, OtherPair
<1> QED BY <1>1, <1>2

\* A damaged card is a card still.
LEMMA DamagedIs ==
  ASSUME CardIsPossible, CardInv, Damaged
  PROVE  /\ CardInv' /\ pc = "closed" /\ damage' = damage + 1 /\ damage \in Nat /\ UNCHANGED toolVars
         /\ disk'.header = disk.header
<1>1. /\ pc = "closed" /\ job = <<>> /\ job' = <<>> /\ damage < MaxDamage /\ damage' = damage + 1
      /\ pick_mirror(disk.dirs) # 0 /\ pick_mirror(disk.tables) # 0
      /\ UNCHANGED <<pc, held, kept, area>>
  BY DEF Damaged, toolVars
<1>2. /\ disk \in Cards /\ damage \in 0 .. MaxDamage /\ MaxDamage \in Nat
      /\ disk.dirs \in Pairs(Dirs) /\ disk.tables \in Pairs(Tables)
  BY CardIs DEF CardInv, CardIsPossible
<1> DEFINE dir == pick_mirror(disk.dirs)
           table == pick_mirror(disk.tables)
<1>3. dir \in {1, 2} /\ table \in {1, 2} /\ dir \in 1 .. 2 /\ table \in 1 .. 2
  BY <1>1 DEF pick_mirror
<1>4. disk.dirs[dir] \in Copies(Dirs) /\ disk.tables[table] \in Copies(Tables)
  BY <1>2, <1>3 DEF Pairs
<1>5. disk' \in Cards /\ disk'.header = disk.header
  <2>1. CASE disk' = [disk EXCEPT !.dirs[dir].valid = FALSE]
    <3> DEFINE q == [disk.dirs EXCEPT ![dir].valid = FALSE]
    <3>1. q \in Pairs(Dirs)
      BY <1>2, <1>3, ErasedCard
    <3>2. disk' = WithPair(disk, "dirs", q)
      BY <1>2, <2>1 DEF Cards, WithPair
    <3> HIDE DEF q
    <3> QED BY <1>2, <3>1, <3>2, DamagedPair
  <2>2. CASE disk' = [disk EXCEPT !.tables[table].valid = FALSE]
    <3> DEFINE q == [disk.tables EXCEPT ![table].valid = FALSE]
    <3>1. q \in Pairs(Tables)
      BY <1>2, <1>3, ErasedCard
    <3>2. disk' = WithPair(disk, "tables", q)
      BY <1>2, <2>2 DEF Cards, WithPair
    <3> HIDE DEF q
    <3> QED BY <1>2, <3>1, <3>2, DamagedPair
  <2>3. ASSUME NEW b \in 1 .. Size, NEW link \in {CHAIN_END, FREE} \cup 1 .. Size,
               disk' = [disk EXCEPT !.tables[table].map[b] = link]
        PROVE  disk' \in Cards /\ disk'.header = disk.header
    <3> DEFINE m == [disk.tables[table].map EXCEPT ![b] = link]
               c == [disk.tables[table] EXCEPT !.map = m]
               q == [disk.tables EXCEPT ![table] = c]
    <3>1. disk.tables[table].map \in Tables
      BY <1>4 DEF Copies
    <3>2. m \in Tables
      BY <3>1, <2>3 DEF Tables
    <3>3. disk' = WithPair(disk, "tables", q)
      BY <2>3 DEF WithPair
    <3> HIDE DEF m
    <3>4. c \in Copies(Tables)
      BY <3>2, <1>4 DEF Copies
    <3> HIDE DEF c
    <3>5. q \in Pairs(Tables)
      BY <3>4, <1>2, <1>3 DEF Pairs
    <3> HIDE DEF q
    <3> QED BY <1>2, <3>3, <3>5, DamagedPair
  <2>4. ASSUME NEW s \in Slots, NEW listed \in Slots, NEW first \in 0 .. Size, NEW count \in 0 .. Size,
               listed \in Used(disk.dirs[dir].map),
               disk' = [disk EXCEPT !.dirs[dir].map[s] =
                          [disk.dirs[dir].map[listed] EXCEPT !.first = first, !.count = count]]
        PROVE  disk' \in Cards /\ disk'.header = disk.header
    <3> DEFINE e == [disk.dirs[dir].map[listed] EXCEPT !.first = first, !.count = count]
               m == [disk.dirs[dir].map EXCEPT ![s] = e]
               c == [disk.dirs[dir] EXCEPT !.map = m]
               q == [disk.dirs EXCEPT ![dir] = c]
    <3>1. disk.dirs[dir].map \in Dirs
      BY <1>4 DEF Copies
    <3>2. disk.dirs[dir].map[listed] \in Entries
      BY <3>1, <2>4 DEF Dirs, Used
    <3>3. e \in Entries
      BY <3>2, <2>4 DEF Entries
    <3>4. disk' = WithPair(disk, "dirs", q)
      BY <2>4 DEF WithPair
    <3> HIDE DEF e
    <3>5. m \in Dirs
      BY <3>1, <3>3, <2>4 DEF Dirs
    <3> HIDE DEF m
    <3>6. c \in Copies(Dirs)
      BY <3>5, <1>4 DEF Copies
    <3> HIDE DEF c
    <3>7. q \in Pairs(Dirs)
      BY <3>6, <1>2, <1>3 DEF Pairs
    <3> HIDE DEF q
    <3> QED BY <1>2, <3>4, <3>7, DamagedPair
  <2> QED BY <2>1, <2>2, <2>3, <2>4 DEF Damaged
<1>6. GInv' /\ damage' # 0
  BY DamageCounts DEF CardInv
<1>7. kept = <<>>
  BY <1>1 DEF CardInv, GInv, KeptIsTheCard
<1>8. damage' \in 0 .. MaxDamage /\ damage \in Nat
  BY <1>1, <1>2
<1>9. CardInv'
  BY <1>1, <1>5, <1>6, <1>7, <1>8 DEF CardInv, Leads
<1> QED BY <1>1, <1>5, <1>8, <1>9 DEF toolVars

\* A list with a save more, as CardContents has it.
LEMMA OneMoreIs ==
  ASSUME NEW S, NEW more \in Seq(S), NEW fewer \in Seq(S), NEW save, OneMore(more, fewer, save)
  PROVE  /\ Len(more) = Len(fewer) + 1 /\ more # fewer
         /\ \E i \in DOMAIN more : more[i] = save /\ fewer = Promise!Without(more, i)
<1>1. PICK i \in Nat : Inserted(more, fewer, save, i)
  BY DEF OneMore
<1>2. /\ i \in 1 .. Len(more) /\ Len(more) = Len(fewer) + 1 /\ more[i] = save
      /\ \A j \in 1 .. Len(fewer) : fewer[j] = IF j < i THEN more[j] ELSE more[j + 1]
  BY <1>1 DEF Inserted
<1>3. /\ Len(fewer) \in Nat /\ fewer = [j \in 1 .. Len(fewer) |-> fewer[j]]
      /\ i \in DOMAIN more
  BY <1>2
<1>4. Len(more) - 1 = Len(fewer) /\ Len(more) # Len(fewer)
  <2> DEFINE m == Len(more)
             n == Len(fewer)
  <2>1. n \in Nat /\ m = n + 1
    BY <1>2, <1>3
  <2> HIDE DEF m, n
  <2>2. m - 1 = n /\ m # n
    BY <2>1
  <2> QED BY <2>2 DEF m, n
<1>5. fewer = [j \in 1 .. Len(more) - 1 |-> IF j < i THEN more[j] ELSE more[j + 1]]
  BY <1>2, <1>3, <1>4
<1>6. fewer = Promise!Without(more, i)
  BY <1>5 DEF Promise!Without
<1> QED BY <1>2, <1>3, <1>4, <1>6

\* One save taken off a list.
LEMMA OneLess ==
  ASSUME NEW saves \in Seq(Saves), NEW i \in DOMAIN saves
  PROVE  RemoveAt(saves, i) \in Seq(Saves) /\ RemoveAt(saves, i) = Promise!Without(saves, i)
<1> DEFINE r == RemoveAt(saves, i)
<1>1. saves \in Seq(Saves) /\ i \in 1 .. Len(saves) /\ Len(saves) \in Nat
  OBVIOUS
<1>2. r = SubSeq(saves, 1, i - 1) \o SubSeq(saves, i + 1, Len(saves))
  BY DEF RemoveAt
<1> HIDE DEF r
<1>3. /\ r \in Seq(Saves) /\ Len(r) = Len(saves) - 1
      /\ \A j \in 1 .. Len(saves) - 1 : r[j] = IF j < i THEN saves[j] ELSE saves[j + 1]
  BY <1>1, <1>2, WithoutIsSeq
<1>4. r = [j \in 1 .. Len(r) |-> r[j]]
  BY <1>3
<1>5. r = [j \in 1 .. Len(saves) - 1 |-> IF j < i THEN saves[j] ELSE saves[j + 1]]
  BY <1>3, <1>4
<1> QED BY <1>3, <1>5 DEF Promise!Without, r

-----------------------------------------------------------------------------
(* The tool's steps.                                                       *)

\* While the tool has the card the console has nothing to write.
LEMMA AtTheCard ==
  ASSUME CardIsPossible, CardInv, pc # "closed"
  PROVE  /\ job = <<>> /\ area = disk.header /\ held \in Seq(Saves) /\ area \in Headers
         /\ disk \in Cards /\ damage \in 0 .. MaxDamage
         /\ kept # <<>> => /\ kept = <<disk>> /\ held = <<>>
                           /\ parse(disk) = [ok |-> TRUE, saves |-> <<>>]
BY NothingToWrite DEF CardInv, GInv, KeptIsTheCard

\* CardInv through the tool's steps.
LEMMA OpenStep ==
  ASSUME CardIsPossible, CardInv, GInv', Open
  PROVE  CardInv'
<1>1. /\ pc' = "editing" /\ job = <<>> /\ UNCHANGED <<disk, job, damage>> /\ parse(disk).ok
      /\ held' = parse(disk).saves /\ area' = disk.header
      /\ kept' = IF held' = <<>> THEN <<disk>> ELSE <<>>
  BY DEF Open
<1>2. /\ held' \in Seq(Saves) /\ area' \in Headers
      /\ parse(disk) = [ok |-> TRUE, saves |-> held']
  BY <1>1, ReadFits, CardIs DEF CardInv
<1>3. kept' # <<>> => held' = <<>>
  BY <1>1
<1>4. parse(disk)' = parse(disk) /\ Leads(job', Dir', Table', disk'.data)
  BY <1>1 DEF Leads
<1> QED BY <1>1, <1>2, <1>3, <1>4 DEF CardInv

LEMMA EditStep ==
  ASSUME CardIsPossible, CardInv, GInv', NEW saves \in Seq(Saves), Edited(saves)
  PROVE  CardInv'
<1>1. pc = "editing" /\ held' = saves /\ kept' = <<>> /\ UNCHANGED <<disk, job, damage, pc, area>>
  BY DEF Edited
<1>2. Leads(job', Dir', Table', disk'.data)
  BY <1>1, AtTheCard DEF Leads
<1> QED BY <1>1, <1>2 DEF CardInv

\* Every edit is of saves a card can hold.
LEMMA EditsAre ==
  ASSUME CardIsPossible, CardInv, RemoveSave \/ AddSave
  PROVE  \E saves \in Seq(Saves) : Edited(saves)
<1>1. held \in Seq(Saves)
  BY DEF CardInv
<1>2. CASE RemoveSave
  BY <1>1, <1>2, OneLess DEF RemoveSave
<1>3. CASE AddSave
  <2>1. PICK game \in Games : Edited(Append(held, game))
    BY <1>3 DEF AddSave
  <2>2. game \in Saves
    BY DEF CardIsPossible
  <2>3. Append(held, game) \in Seq(Saves)
    BY <1>1, <2>2
  <2> QED BY <2>1, <2>3
<1> QED BY <1>2, <1>3

\* What a write comes to: the list the tool holds on the card, or nothing.
Wrote(saves) ==
    /\ CardStands(disk') \/ disk' = disk
    /\ disk' \in Cards /\ disk'.header = area
    /\ parse(disk') = [ok |-> TRUE, saves |-> saves]
    /\ PutAway
Declined == pc' = "refused" /\ UNCHANGED <<disk, held, kept, area>>

\* It is the list just where that fits: what does not is refused by the builder,
\* or by the reader of what was built.
LEMMA WriteIs ==
  ASSUME CardIsPossible, CardInv, Write
  PROVE  /\ pc = "editing" /\ UNCHANGED <<job, damage>>
         /\ CardFits(held) => Wrote(held)
         /\ ~CardFits(held) => Declined
<1>1. pc = "editing" /\ UNCHANGED <<job, damage>>
  BY DEF Write
<1>2. /\ area = disk.header /\ held \in Seq(Saves) /\ area \in Headers /\ disk \in Cards
      /\ kept # <<>> => /\ kept = <<disk>> /\ held = <<>>
                        /\ parse(disk) = [ok |-> TRUE, saves |-> <<>>]
  BY <1>1, AtTheCard
<1>3. /\ ReadsBack(Rebuilt) => disk' = Rebuilt.card /\ PutAway
      /\ ~ReadsBack(Rebuilt) => Declined
  BY DEF Write, Declined
<1>4. CASE kept # <<>>
  <2>1. Rebuilt = [ok |-> TRUE, card |-> disk]
    <3>1. kept[1] = disk
      BY <1>2, <1>4
    <3> QED BY <3>1, <1>4 DEF Rebuilt
  <2>2. CardFits(held)
    BY <1>2, <1>4, NoneFit
  <2>3. ReadsBack(Rebuilt)
    <3>1. Rebuilt.ok = TRUE /\ Rebuilt.card = disk
      BY <2>1
    <3>2. parse(disk).ok = TRUE /\ Len(parse(disk).saves) = Len(held)
      BY <1>2, <1>4
    <3> QED BY <3>1, <3>2 DEF ReadsBack
  <2>4. disk' = disk /\ PutAway
    BY <1>3, <2>1, <2>3
  <2> QED BY <1>1, <1>2, <1>4, <2>2, <2>4 DEF Wrote
<1>5. CASE kept = <<>>
  <2> DEFINE built == build(held, area, Size * BLOCK)
  <2>1. Rebuilt = built
    BY <1>5 DEF Rebuilt
  <2>2. CASE CardFits(held)
    <3>1. built.ok /\ MadeOf(built.card, held, area)
      BY <1>2, <2>2, BuildIs
    <3> HIDE DEF built
    <3>2. /\ built.card \in Cards /\ built.card.header = area /\ CardStands(built.card)
          /\ parse(built.card) = [ok |-> TRUE, saves |-> held]
      BY <3>1 DEF MadeOf, CardStands
    <3>3. ReadsBack(built)
      <4>1. parse(built.card).ok = TRUE /\ Len(parse(built.card).saves) = Len(held)
        BY <3>2
      <4> QED BY <3>1, <4>1 DEF ReadsBack
    <3>4. disk' = built.card /\ PutAway
      BY <1>3, <2>1, <3>3
    <3> QED BY <1>1, <2>2, <3>2, <3>4 DEF Wrote
  <2>3. CASE ~CardFits(held)
    <3>1. ~(built.ok /\ parse(built.card).ok)
      <4> SUFFICES ASSUME built.ok, parse(built.card).ok PROVE FALSE
        OBVIOUS
      <4>1. CardFits(held)
        BY <1>2, BuildRefused
      <4> QED BY <4>1, <2>3
    <3> HIDE DEF built
    <3>2. ~ReadsBack(built)
      BY <3>1 DEF ReadsBack
    <3> QED BY <1>1, <1>3, <2>1, <2>3, <3>2
  <2> QED BY <2>2, <2>3
<1> QED BY <1>4, <1>5

LEMMA WriteStep ==
  ASSUME CardIsPossible, CardInv, GInv', Write
  PROVE  CardInv'
<1>1. /\ pc = "editing" /\ UNCHANGED <<job, damage>>
      /\ Wrote(held) \/ Declined
  BY WriteIs
<1>2. job = <<>> /\ damage \in 0 .. MaxDamage
  BY <1>1, AtTheCard
<1>3. Leads(job', Dir', Table', disk'.data)
  BY <1>1, <1>2 DEF Leads
<1>4. CASE Wrote(held)
  <2>1. /\ pc' = "closed" /\ held' = <<>> /\ kept' = <<>> /\ area' = Formatted /\ disk' \in Cards
        /\ CardStands(disk') \/ disk' = disk
    BY <1>4 DEF Wrote, PutAway
  <2>2. damage' = 0 => CardStands(disk')
    BY <1>1, <2>1 DEF CardInv
  <2>3. held' \in Seq(Saves) /\ area' \in Headers
    BY <2>1, ListOfNone DEF CardIsPossible
  <2> QED BY <1>1, <1>2, <1>3, <2>1, <2>2, <2>3 DEF CardInv
<1>5. CASE Declined
  <2>1. pc' = "refused" /\ UNCHANGED <<disk, held, kept, area>>
    BY <1>5 DEF Declined
  <2> QED BY <1>1, <1>3, <2>1 DEF CardInv
<1> QED BY <1>1, <1>4, <1>5

LEMMA LeaveStep ==
  ASSUME CardIsPossible, CardInv, GInv', Resume \/ Close
  PROVE  CardInv'
<1>1. pc \in {"editing", "refused"} /\ UNCHANGED <<disk, job, damage>>
  BY DEF Resume, Close
<1>2. Leads(job', Dir', Table', disk'.data)
  BY <1>1, AtTheCard DEF Leads
<1>3. CASE Resume
  BY <1>1, <1>2, <1>3 DEF Resume, CardInv
<1>4. CASE Close
  <2>1. pc' = "closed" /\ held' = <<>> /\ kept' = <<>> /\ area' = Formatted
    BY <1>4 DEF Close, PutAway
  <2>2. held' \in Seq(Saves) /\ area' \in Headers
    BY <2>1, ListOfNone DEF CardIsPossible
  <2> QED BY <1>1, <1>2, <2>1, <2>2 DEF CardInv
<1> QED BY <1>3, <1>4

-----------------------------------------------------------------------------

\* CardInv is inductive.
LEMMA CardInvStarts == ASSUME CardIsPossible, Init PROVE CardInv
<1>1. /\ job = <<>> /\ damage = 0 /\ pc = "closed" /\ held = <<>> /\ kept = <<>> /\ area = Formatted
  BY DEF Init
<1>2. PICK header \in Headers : disk = Blank(header)
  BY DEF Init
<1>3. CardStands(disk) /\ disk \in Cards
  BY <1>2, BlankIs DEF MadeOf, CardStands
<1>4. GInv
  BY GInvStarts DEF CardIsPossible
<1>5. held \in Seq(Saves) /\ area \in Headers /\ damage \in 0 .. MaxDamage
  BY <1>1, ListOfNone DEF CardIsPossible
<1> QED BY <1>1, <1>3, <1>4, <1>5 DEF CardInv, Leads

LEMMA CardInvStep ==
  ASSUME CardIsPossible, CardInv, [Next]_vars
  PROVE  CardInv'
<1>1. GInv'
  BY GInvStep DEF CardInv, CardIsPossible
<1>2. ASSUME NEW game \in Games, ConsoleSave(game) PROVE CardInv'
  BY <1>2, SaveOnward DEF Onward
<1>3. ASSUME NEW slot \in Slots, ConsoleDelete(slot) PROVE CardInv'
  BY <1>3, DeleteOnward DEF Onward
<1>4. CASE ConsoleErases
  BY <1>4, ErasesOnward DEF Onward
<1>5. CASE ConsoleWrites
  BY <1>5, WritesOnward DEF Onward
<1>6. CASE SwitchedOff
  BY <1>6, SwitchedOffOnward
<1>7. CASE Damaged
  BY <1>7, DamagedIs
<1>8. CASE Open
  BY <1>1, <1>8, OpenStep
<1>9. CASE RemoveSave \/ AddSave
  BY <1>1, <1>9, EditsAre, EditStep
<1>10. CASE Write
  BY <1>1, <1>10, WriteStep
<1>11. CASE Resume \/ Close
  BY <1>1, <1>11, LeaveStep
<1>12. CASE UNCHANGED vars
  BY <1>1, <1>12 DEF vars, toolVars, CardInv, Dir, Table
<1> QED BY <1>2, <1>3, <1>4, <1>5, <1>6, <1>7, <1>8, <1>9, <1>10, <1>11, <1>12 DEF Next, Console, Tool

LEMMA InductiveCard ==
  ASSUME CardIsPossible
  PROVE  Spec => []CardInv
<1>1. Init => CardInv
  BY CardInvStarts
<1>2. CardInv /\ [Next]_vars => CardInv'
  BY CardInvStep
<1> QED
  BY <1>1, <1>2, PTL DEF Spec

\* The card file is a card whatever is done to it, and the tool holds saves
\* that one can hold.
THEOREM CardTypes ==
  ASSUME CardIsPossible
  PROVE  Spec => []TypeOK
<1>1. CardInv => TypeOK
  <2> SUFFICES ASSUME CardInv PROVE TypeOK
    OBVIOUS
  <2>1. \A i \in DOMAIN job : job[i].region \in {"dirs", "tables"}
    <3>1. CASE job = <<>>
      BY <3>1
    <3>2. CASE \E entry : job = <<entry>> /\ IsNext(entry)
      BY <3>2 DEF IsNext, Regions
    <3>3. CASE \E first, second : job = <<first, second>> /\ IsNext(first) /\ IsNext(second)
      BY <3>3 DEF IsNext, Regions
    <3> QED BY <3>1, <3>2, <3>3 DEF CardInv, GInv, Writing
  <2>2. kept \in {<<>>, <<disk>>}
    BY DEF CardInv, GInv, KeptIsTheCard
  <2> QED BY <2>1, <2>2 DEF CardInv, TypeOK
<1> QED
  BY <1>1, InductiveCard, PTL

\* Whatever a console, being switched off and damage made of a card, if parse
\* reads it then build takes what was read and parse reads the same from it:
\* what the entries claim is held to the blocks there are, one shared by two
\* entries counted for each.
THEOREM ReadIsWritable ==
  ASSUME CardIsPossible
  PROVE  Spec => []ReadableIsWritable
<1>1. CardInv => ReadableIsWritable
  <2> SUFFICES ASSUME CardInv, parse(disk).ok
               PROVE  LET read == parse(disk)
                          rebuilt == build(read.saves, disk.header, disk.size * BLOCK)
                      IN rebuilt.ok /\ parse(rebuilt.card) = read
    BY DEF ReadableIsWritable
  <2>1. disk \in Cards /\ disk.size = Size /\ disk.header \in Headers
    BY CardIs DEF CardInv
  <2> DEFINE saves == parse(disk).saves
             rebuilt == build(saves, disk.header, Size * BLOCK)
  <2>2. saves \in Seq(Saves) /\ CardFits(saves) /\ parse(disk) = [ok |-> TRUE, saves |-> saves]
    BY <2>1, ReadFits
  <2> HIDE DEF saves
  <2>3. rebuilt.ok /\ MadeOf(rebuilt.card, saves, disk.header)
    BY <2>1, <2>2, BuildIs
  <2>4. parse(rebuilt.card) = [ok |-> TRUE, saves |-> saves]
    BY <2>3 DEF MadeOf
  <2> QED BY <2>1, <2>2, <2>3, <2>4 DEF saves
<1> QED
  BY <1>1, InductiveCard, PTL

-----------------------------------------------------------------------------
(* A GameCube card is a CardContents.                                      *)

\* What reads is not what CardContents has for a card that does not.
LEMMA HoldsIs ==
  ASSUME CardIsPossible, NEW card \in Cards, parse(card).ok
  PROVE  parse(card).saves \in Seq(Saves) /\ parse(card).saves # Unreadable
BY ReadFits DEF CardIsPossible

\* A console's step goes on by one, or is none that CardContents sees.
LEMMA OnwardIsConsole ==
  ASSUME CardIsPossible, CardInv, Onward
  PROVE  Promise!Console \/ UNCHANGED Promise!vars
<1>1. /\ CardInv' /\ pc = "closed" /\ UNCHANGED <<damage, pc, held, kept, area>>
      /\ disk'.header = disk.header /\ parse(disk).ok /\ parse(disk').ok
      /\ Goes(parse(disk).saves, parse(disk').saves)
  BY DEF Onward, toolVars
<1>2. disk \in Cards /\ disk' \in Cards
  BY <1>1 DEF CardInv
<1>3. Holds = parse(disk).saves /\ Holds' = parse(disk').saves
  BY <1>1 DEF Holds
<1>4. /\ Holds \in Seq(Saves) /\ Holds' \in Seq(Saves) /\ Unreadable \notin {Holds, Holds'}
  BY <1>1, <1>2, <1>3, HoldsIs
<1>5. CASE Holds = Holds'
  BY <1>1, <1>5 DEF Promise!vars
<1>6. CASE \E game \in Games : OneMore(Holds', Holds, game)
  <2>1. PICK game \in Games : OneMore(Holds', Holds, game)
    BY <1>6
  <2>2. /\ Len(Holds') = Len(Holds) + 1 /\ Holds' # Holds
        /\ \E i \in DOMAIN Holds' : Holds'[i] = game /\ Holds = Promise!Without(Holds', i)
    BY <1>4, <2>1, OneMoreIs
  <2> QED BY <1>1, <1>4, <2>2 DEF Promise!Console
<1>7. CASE OneFewer(Holds, Holds')
  <2>1. PICK save : OneMore(Holds, Holds', save)
    BY <1>7 DEF OneFewer
  <2>2. /\ Holds' # Holds
        /\ \E i \in DOMAIN Holds : Holds' = Promise!Without(Holds, i)
    BY <1>4, <2>1, OneMoreIs
  <2> QED BY <1>1, <1>4, <2>2 DEF Promise!Console
<1> QED BY <1>1, <1>3, <1>5, <1>6, <1>7 DEF Goes

\* Every step is one of CardContents, or none that it sees.
LEMMA CardIsContents ==
  ASSUME CardIsPossible, CardInv, [Next]_vars
  PROVE  Promise!Next \/ UNCHANGED Promise!vars
<1>0. CardInv' /\ disk \in Cards /\ damage \in 0 .. MaxDamage /\ MaxDamage \in Nat
  BY CardInvStep DEF CardInv, CardIsPossible
<1>1. CASE Onward
  BY <1>1, OnwardIsConsole DEF Promise!Next
<1>2. ASSUME NEW game \in Games, ConsoleSave(game) PROVE Onward
  BY <1>2, SaveOnward
<1>3. ASSUME NEW slot \in Slots, ConsoleDelete(slot) PROVE Onward
  BY <1>3, DeleteOnward
<1>4. ConsoleErases \/ ConsoleWrites => Onward
  BY ErasesOnward, WritesOnward
<1>5. CASE SwitchedOff
  <2>1. UNCHANGED <<disk, damage, pc, held, kept, area>>
    BY <1>5, SwitchedOffOnward DEF toolVars
  <2> QED BY <2>1 DEF Promise!vars, Holds
<1>6. CASE Damaged
  <2>1. pc = "closed" /\ damage' = damage + 1 /\ damage \in Nat /\ UNCHANGED <<pc, held, kept, area>>
        /\ disk'.header = disk.header
    BY <1>6, DamagedIs DEF toolVars
  <2>2. damage' \in {damage, damage + 1} /\ damage' > 0
    BY <2>1
  <2>3. Promise!Damage
    BY <2>1, <2>2 DEF Promise!Damage
  <2> QED BY <2>3 DEF Promise!Next
<1>7. CASE Open
  <2>1. /\ pc = "closed" /\ parse(disk).ok /\ held' = parse(disk).saves /\ area' = disk.header
        /\ pc' = "editing" /\ UNCHANGED <<disk, damage>>
    BY <1>7 DEF Open
  <2>2. Holds = parse(disk).saves /\ Holds # Unreadable /\ Holds' = Holds
    BY <1>0, <2>1, HoldsIs DEF Holds
  <2>3. Promise!Open
    BY <2>1, <2>2 DEF Promise!Open
  <2> QED BY <2>3 DEF Promise!Next
<1>8. ASSUME NEW saves, Edited(saves)
      PROVE  /\ pc = "editing" /\ pc' = pc /\ held' = saves /\ Holds' = Holds
             /\ UNCHANGED <<damage, disk, area>>
  BY <1>8 DEF Edited, Holds
<1>9. CASE RemoveSave
  <2>1. PICK i \in DOMAIN held : Edited(RemoveAt(held, i))
    BY <1>9 DEF RemoveSave
  <2>2. RemoveAt(held, i) = Promise!Without(held, i)
    BY OneLess DEF CardInv
  <2>3. /\ pc = "editing" /\ pc' = pc /\ held' = Promise!Without(held, i) /\ Holds' = Holds
        /\ UNCHANGED <<damage, disk, area>>
    BY <1>8, <2>1, <2>2
  <2>4. Promise!Remove
    BY <2>3 DEF Promise!Remove
  <2> QED BY <2>4 DEF Promise!Next
<1>10. CASE AddSave
  <2>1. PICK game \in Games : Edited(Append(held, game))
    BY <1>10 DEF AddSave
  <2>2. /\ pc = "editing" /\ pc' = pc /\ held' = Append(held, game) /\ Holds' = Holds
        /\ UNCHANGED <<damage, disk, area>>
    BY <1>8, <2>1
  <2>3. Promise!Add
    BY <2>2 DEF Promise!Add
  <2> QED BY <2>3 DEF Promise!Next
<1>11. CASE Write
  <2>1. /\ pc = "editing" /\ damage' = damage
        /\ CardFits(held) => Wrote(held)
        /\ ~CardFits(held) => Declined
    BY <1>11, WriteIs
  <2>2. CASE CardFits(held)
    <3>1. /\ disk'.header = area /\ parse(disk') = [ok |-> TRUE, saves |-> held]
          /\ pc' = "closed" /\ held' = <<>>
      BY <2>1, <2>2 DEF Wrote, PutAway
    <3>2. Holds' = held
      BY <3>1 DEF Holds
    <3>3. Promise!PutAway
      BY <3>1 DEF Promise!PutAway
    <3>4. Promise!Write
      BY <2>1, <2>2, <3>1, <3>2, <3>3 DEF Promise!Write, DirectoryOrder
    <3> QED BY <3>4 DEF Promise!Next
  <2>3. CASE ~CardFits(held)
    <3>1. pc' = "refused" /\ UNCHANGED <<disk, held, kept, area>>
      BY <2>1, <2>3 DEF Declined
    <3>2. Holds' = Holds
      BY <3>1 DEF Holds
    <3>3. Promise!Refuse
      BY <2>1, <2>3, <3>1, <3>2 DEF Promise!Refuse
    <3> QED BY <3>3 DEF Promise!Next
  <2> QED BY <2>2, <2>3
<1>12. CASE Resume
  <2>1. pc = "refused" /\ pc' = "editing" /\ UNCHANGED <<disk, damage, held, area>> /\ Holds' = Holds
    BY <1>12 DEF Resume, Holds
  <2>2. Promise!Resume
    BY <2>1 DEF Promise!Resume
  <2> QED BY <2>2 DEF Promise!Next
<1>13. CASE Close
  <2>1. pc = "editing" /\ pc' = "closed" /\ held' = <<>> /\ UNCHANGED <<disk, damage>> /\ Holds' = Holds
    BY <1>13 DEF Close, PutAway, Holds
  <2>2. Promise!Close
    BY <2>1 DEF Promise!Close, Promise!PutAway
  <2> QED BY <2>2 DEF Promise!Next
<1>14. CASE UNCHANGED vars
  BY <1>14 DEF vars, toolVars, Promise!vars, Holds
<1> QED BY <1>1, <1>2, <1>3, <1>4, <1>5, <1>6, <1>7, <1>9, <1>10, <1>11, <1>12, <1>13, <1>14 DEF Next, Console, Tool

\* ... from a card with nothing on it.
LEMMA BlankIsContents ==
  ASSUME CardIsPossible, Init
  PROVE  Promise!Init
<1>1. /\ damage = 0 /\ pc = "closed" /\ held = <<>>
  BY DEF Init
<1>2. PICK header \in Headers : disk = Blank(header)
  BY DEF Init
<1>3. parse(disk) = [ok |-> TRUE, saves |-> <<>>] /\ disk.header = header
  BY <1>2, BlankIs DEF MadeOf
<1>4. Holds = <<>>
  BY <1>3 DEF Holds
<1> QED BY <1>1, <1>2, <1>3, <1>4 DEF Promise!Init

\* Wherever in its writing a console was switched off and however it laid its
\* saves out, the tool reads the saves there were before or after, every one
\* whole; what it writes is the list it was given, with the header block it
\* came with, or nothing, where that list does not fit.
THEOREM GameCubeKeepsItsPromise ==
  ASSUME CardIsPossible
  PROVE  Spec => KeepsItsPromise
<1>1. Init => Promise!Init
  BY BlankIsContents
<1>2. CardInv /\ [Next]_vars => [Promise!Next]_(Promise!vars)
  BY CardIsContents
<1> QED
  BY <1>1, <1>2, InductiveCard, PTL DEF Spec, KeepsItsPromise, Promise!Spec
=============================================================================
