---------------------------- MODULE LinkedProofs ----------------------------
(***************************************************************************)
(* The three formats that keep a save in a chain of blocks of a table: a   *)
(* Controller Pak, a Neo Geo card and a VMU, of any size and with any      *)
(* saves.  For each, what reading it, a console's save, its delete and a   *)
(* rebuild come to.                                                        *)
(***************************************************************************)
EXTENDS OtherCards, ChainProofs

-----------------------------------------------------------------------------
(* The Controller Pak.                                                     *)

\* Its module's lists and chains are those above.
LEMMA N64Chains ==
  /\ N64!CHAIN_END = CHAIN_END /\ N64!FREE = FREE
  /\ \A t, first : N64!Chain(t, first) = Chain(t, first)
  /\ \A t, d, first : N64!Content(t, d, first) = Content(t, d, first)
  /\ \A n, S : N64!InOrder(n, S) = InOrder(n, S)
  /\ \A l, n : N64!Packed(l, n) = Packed(l, n)
  /\ \A l : N64!Total(l) = Total(l) /\ N64!Joined(l) = Joined(l)
  /\ \A l, k : N64!StartsAt(l, k) = StartsAt(l, k)
  /\ \A b, n, z : N64!Filled(b, n, z) = Filled(b, n, z)
  /\ \A t, n : N64!FreeRuns(t, n) = FreeRuns(t, n)
  /\ \A t, b : N64!Given(t, b) = Given(t, b) /\ N64!Freed(t, b) = Freed(t, b)
  /\ \A d, b, y : N64!Written(d, b, y) = Written(d, b, y)
<1>1. N64!CHAIN_END = CHAIN_END /\ N64!FREE = FREE
  BY DEF N64!CHAIN_END, CHAIN_END, N64!FREE, FREE
<1>2. ASSUME NEW t, NEW first PROVE N64!Chain(t, first) = Chain(t, first)
  BY DEF N64!Chain, Chain, N64!Path, Path, N64!Walked, Walked, N64!CHAIN_END, CHAIN_END,
         N64!Min, Min
<1>3. ASSUME NEW t, NEW d, NEW first PROVE N64!Content(t, d, first) = Content(t, d, first)
  BY DEF N64!Content, Content, N64!Chain, Chain, N64!Path, Path, N64!Walked, Walked,
         N64!CHAIN_END, CHAIN_END, N64!Min, Min
<1>4. ASSUME NEW n, NEW S PROVE N64!InOrder(n, S) = InOrder(n, S)
  BY DEF N64!InOrder, InOrder, N64!Picked, Picked
<1>5. ASSUME NEW l, NEW n PROVE N64!Packed(l, n) = Packed(l, n)
  BY DEF N64!Packed, Packed, N64!StartsAt, StartsAt, N64!Total, Total, N64!Summed, Summed,
         N64!CHAIN_END, CHAIN_END, N64!FREE, FREE
<1>6. ASSUME NEW l PROVE N64!Total(l) = Total(l) /\ N64!Joined(l) = Joined(l)
  BY DEF N64!Total, Total, N64!Summed, Summed, N64!Joined, Joined, N64!Laced, Laced
<1>7. ASSUME NEW l, NEW k PROVE N64!StartsAt(l, k) = StartsAt(l, k)
  BY DEF N64!StartsAt, StartsAt, N64!Summed, Summed
<1>8. ASSUME NEW b, NEW n, NEW z PROVE N64!Filled(b, n, z) = Filled(b, n, z)
  BY DEF N64!Filled, Filled
<1>9. ASSUME NEW t, NEW n PROVE N64!FreeRuns(t, n) = FreeRuns(t, n)
  BY DEF N64!FreeRuns, FreeRuns, N64!FREE, FREE, N64!IsInjective, IsInjective
<1>10. ASSUME NEW t, NEW b PROVE N64!Given(t, b) = Given(t, b) /\ N64!Freed(t, b) = Freed(t, b)
  BY DEF N64!Given, Given, N64!Freed, Freed, N64!CHAIN_END, CHAIN_END, N64!FREE, FREE
<1>11. ASSUME NEW d, NEW b, NEW y PROVE N64!Written(d, b, y) = Written(d, b, y)
  BY DEF N64!Written, Written
<1> QED BY <1>1, <1>2, <1>3, <1>4, <1>5, <1>6, <1>7, <1>8, <1>9, <1>10, <1>11

\* A pak as it can be, whatever became of it.
Pages == Sizes["n64"]
N64Typed(pak) ==
    pak \in [label : {"own"}, index : [1 .. 2 -> [1 .. Pages -> Int]],
             notes : [1 .. MAX -> [name : Nat, start : Int]], data : [1 .. Pages -> Nat]]

\* The slots in use, where each starts, and what it is read as.
N64Used(pak) == {s \in 1 .. MAX : pak.notes[s].start \in 1 .. Pages}
N64First(pak) == [s \in 1 .. MAX |-> pak.notes[s].start]
N64Note(pak, t) ==
    [s \in 1 .. MAX |-> [system |-> "n64", name |-> pak.notes[s].name,
                         data |-> Content(t, pak.data, pak.notes[s].start)]]

LEMMA N64Reads ==
  ASSUME NEW pak, NEW t, t = N64!index_table(pak)
  PROVE  /\ (t = <<>> \/ \E s \in N64Used(pak) : Chain(t, N64First(pak)[s]) = <<>>)
              => N64!parse(pak) = N64!NotRead
         /\ ~(t = <<>> \/ \E s \in N64Used(pak) : Chain(t, N64First(pak)[s]) = <<>>)
              => N64!parse(pak) = [ok |-> TRUE, saves |-> Listing(MAX, N64Used(pak), N64Note(pak, t))]
<1> DEFINE slots == InOrder(MAX, N64Used(pak))
           Note(s) == [system |-> "n64", name |-> pak.notes[s].name,
                       data |-> Content(t, pak.data, pak.notes[s].start)]
           bad == t = <<>> \/ \E s \in N64Used(pak) : Chain(t, pak.notes[s].start) = <<>>
<1>1. N64!parse(pak) =
        IF bad THEN N64!NotRead
        ELSE [ok |-> TRUE, saves |-> [i \in DOMAIN slots |-> Note(slots[i])]]
  BY N64Chains DEF N64!parse, N64Used, Pages
<1>2. \A s \in N64Used(pak) : N64First(pak)[s] = pak.notes[s].start
  BY DEF N64Used, N64First
<1>3. MAX \in Nat
  BY SizesAssumption
<1>4. \A i \in DOMAIN slots : slots[i] \in 1 .. MAX
  <2> DEFINE S == 1 .. MAX
  <2>1. slots \in Seq(S)
    BY <1>3, InOrderIs DEF Ascends
  <2> HIDE DEF S, slots
  <2>2. \A i \in DOMAIN slots : slots[i] \in S
    BY <2>1
  <2> QED BY <2>2 DEF S
<1>5. \A i \in DOMAIN slots : N64Note(pak, t)[slots[i]] = Note(slots[i])
  <2> HIDE DEF slots
  <2> QED BY <1>4 DEF N64Note
<1>6. Listing(MAX, N64Used(pak), N64Note(pak, t)) = [i \in DOMAIN slots |-> Note(slots[i])]
  <2>1. Listing(MAX, N64Used(pak), N64Note(pak, t)) = [i \in DOMAIN slots |-> N64Note(pak, t)[slots[i]]]
    BY DEF Listing
  <2> HIDE DEF slots, Note
  <2> QED BY <2>1, <1>5
<1> QED BY <1>1, <1>2, <1>6
\* A pak no damage has been done to: its two copies of the index are one, and
\* have no link in them that could be none.
N64Plain(pak) ==
    /\ N64Typed(pak)
    /\ pak.index[1] = pak.index[2] /\ pak.index[1] \in [1 .. Pages -> Links(Pages)]

\* One whose notes are all there, each in pages of its own.
N64Whole(pak) ==
    /\ N64Plain(pak)
    /\ \A s \in 1 .. MAX : pak.notes[s] = N64!NoNote \/ s \in N64Used(pak)
    /\ LaidOut(Pages, pak.index[1], N64Used(pak), N64First(pak))

LEMMA PagesAre == ASSUME "n64" \in Formats PROVE Pages \in Nat /\ Pages > 0
BY SizesAssumption DEF Pages

\* With one copy of the index as it was, a reader has it.
LEMMA N64Index ==
  ASSUME NEW pak, NEW t \in [1 .. Pages -> Links(Pages)], "n64" \in Formats,
         NEW copy \in 1 .. 2, pak.index[copy] = t,
         \/ pak.index[3 - copy] = t
         \/ \E p \in 1 .. Pages : pak.index[3 - copy][p] \notin Links(Pages)
  PROVE  N64!index_table(pak) = t /\ t # <<>>
<1> DEFINE usable == {c \in 1 .. 2 : \A p \in 1 .. Pages : pak.index[c][p] \in Links(Pages)}
<1>0. Pages \in Nat /\ Pages > 0
  BY PagesAre
<1>1. N64!index_table(pak) = IF usable = {} THEN <<>> ELSE pak.index[N64!Min(usable)]
  <2>1. \A link : N64!plausible(link) <=> link \in Links(Pages)
    BY N64Chains DEF N64!plausible, Links, Pages
  <2> QED BY <2>1 DEF N64!index_table, Pages
<1>2. copy \in usable
  OBVIOUS
<1>3. \A c \in usable : pak.index[c] = t
  <2> SUFFICES ASSUME NEW c \in usable, c # copy PROVE pak.index[c] = t
    OBVIOUS
  <2>1. c = 3 - copy
    OBVIOUS
  <2> QED BY <2>1
<1>4. N64!Min(usable) \in usable
  <2>1. usable \subseteq 1 .. 2
    OBVIOUS
  <2>2. \E m \in usable : \A n \in usable : m <= n
    <3>1. usable \subseteq Nat
      BY <2>1
    <3> HIDE DEF usable
    <3> QED BY <3>1, <1>2, LeastNat
  <2> HIDE DEF usable
  <2> QED BY <2>2 DEF N64!Min
<1>5. t # <<>>
  <2>1. t \in Seq(Int) /\ Len(t) = Pages
    BY <1>0, TableIs
  <2> QED BY <2>1, <1>0
<1> HIDE DEF usable
<1> QED BY <1>1, <1>2, <1>3, <1>4, <1>5

\* One bad link in a copy of the index, and it reads as it did.
LEMMA N64Backup ==
  ASSUME NEW pak, N64Plain(pak), "n64" \in Formats, NEW copy \in 1 .. 2, NEW page \in 1 .. Pages
  PROVE  N64!parse([pak EXCEPT !.index[copy][page] = 0]) = N64!parse(pak)
<1> DEFINE t == pak.index[1]
           bad == [pak EXCEPT !.index[copy][page] = 0]
<1>1. /\ pak \in [label : {"own"}, index : [1 .. 2 -> [1 .. Pages -> Int]],
                  notes : [1 .. MAX -> [name : Nat, start : Int]], data : [1 .. Pages -> Nat]]
      /\ pak.index[1] = t /\ pak.index[2] = t /\ t \in [1 .. Pages -> Links(Pages)]
  BY DEF N64Plain, N64Typed
<1>2. bad.notes = pak.notes /\ bad.data = pak.data /\ bad.index = [pak.index EXCEPT ![copy][page] = 0]
  BY <1>1
<1>3. pak.index \in [1 .. 2 -> [1 .. Pages -> Int]]
  BY <1>1
<1>4. copy = 1 \/ copy = 2
  OBVIOUS
<1>5. bad.index[3 - copy] = t /\ bad.index[copy][page] = 0 /\ 3 - copy \in 1 .. 2 /\ 3 - (3 - copy) = copy
  <2>1. 3 - copy \in 1 .. 2 /\ 3 - (3 - copy) = copy /\ 3 - copy # copy
    BY <1>4
  <2>2. pak.index[3 - copy] = t
    <3>1. 3 - copy = 1 \/ 3 - copy = 2
      BY <1>4
    <3> QED BY <3>1, <1>1
  <2> DEFINE x == pak.index
             o == 3 - copy
             y == [x EXCEPT ![copy][page] = 0]
  <2>3. x \in [1 .. 2 -> [1 .. Pages -> Int]] /\ x[o] = t /\ o \in 1 .. 2 /\ o # copy
    BY <2>1, <2>2, <1>3
  <2>4. bad.index = y
    BY <1>2
  <2> HIDE DEF x, o, bad, t
  <2>5. y[o] = x[o] /\ y[copy][page] = 0
    BY <2>3
  <2> QED BY <2>1, <2>3, <2>4, <2>5 DEF o
<1>6. 0 \notin Links(Pages)
  BY DEF Links, CHAIN_END, FREE
<1> HIDE DEF t, bad
<1>7. N64!index_table(pak) = t /\ t # <<>>
  <2>1. pak.index[1] = t /\ pak.index[3 - 1] = t /\ 1 \in 1 .. 2
    BY <1>1
  <2> QED BY <2>1, <1>1, N64Index
<1>8. N64!index_table(bad) = t
  <2> DEFINE other == 3 - copy
  <2>1. other \in 1 .. 2 /\ bad.index[other] = t /\ bad.index[3 - other][page] \notin Links(Pages)
    BY <1>5, <1>6
  <2> HIDE DEF other
  <2> QED BY <2>1, <1>1, N64Index
<1>9. /\ N64Used(bad) = N64Used(pak) /\ N64First(bad) = N64First(pak)
      /\ N64Note(bad, t) = N64Note(pak, t)
  BY <1>2 DEF N64Used, N64First, N64Note
<1> DEFINE bar(p) == t = <<>> \/ \E s \in N64Used(p) : Chain(t, N64First(p)[s]) = <<>>
<1>10. (bar(pak) => N64!parse(pak) = N64!NotRead)
       /\ (~bar(pak) => N64!parse(pak) = [ok |-> TRUE, saves |-> Listing(MAX, N64Used(pak), N64Note(pak, t))])
  BY <1>7, N64Reads
<1>11. (bar(bad) => N64!parse(bad) = N64!NotRead)
       /\ (~bar(bad) => N64!parse(bad) = [ok |-> TRUE, saves |-> Listing(MAX, N64Used(bad), N64Note(bad, t))])
  BY <1>8, N64Reads
<1>12. bar(bad) <=> bar(pak)
  BY <1>9
<1> QED BY <1>9, <1>10, <1>11, <1>12 DEF bad

\* What is read of a pak, whatever became of it, are notes with pages.
N64Notes(saves) == saves \in Seq(SavesOf("n64")) /\ \A k \in DOMAIN saves : saves[k].data # <<>>

LEMMA N64ReadsNotes ==
  ASSUME NEW pak, N64Typed(pak), "n64" \in Formats, N64!parse(pak).ok
  PROVE  N64Notes(N64!parse(pak).saves)
<1> DEFINE t == N64!index_table(pak)
           S == N64Used(pak)
           rec == N64Note(pak, t)
           l == Listing(MAX, S, rec)
<1>1. ~(t = <<>> \/ \E s \in S : Chain(t, N64First(pak)[s]) = <<>>) /\ N64!parse(pak).saves = l
  <2>1. N64!NotRead.ok = FALSE
    BY DEF N64!NotRead
  <2> QED BY <2>1, N64Reads
<1>2. t \in [1 .. Pages -> Int]
  <2> DEFINE usable == {c \in 1 .. 2 : \A p \in 1 .. Pages : pak.index[c][p] \in Links(Pages)}
  <2>1. t = IF usable = {} THEN <<>> ELSE pak.index[N64!Min(usable)]
    <3>1. \A link : N64!plausible(link) <=> link \in Links(Pages)
      BY N64Chains DEF N64!plausible, Links, Pages
    <3> QED BY <3>1 DEF N64!index_table, Pages
  <2>2. usable # {}
    BY <2>1, <1>1
  <2>3. N64!Min(usable) \in 1 .. 2
    <3>1. usable \subseteq Nat /\ usable \subseteq 1 .. 2
      OBVIOUS
    <3> HIDE DEF usable
    <3>2. \E m \in usable : \A n \in usable : m <= n
      BY <2>2, <3>1, LeastNat
    <3>3. N64!Min(usable) \in usable
      BY <3>2 DEF N64!Min
    <3> QED BY <3>1, <3>3
  <2>4. pak.index \in [1 .. 2 -> [1 .. Pages -> Int]]
    BY DEF N64Typed
  <2> HIDE DEF usable, t
  <2> QED BY <2>1, <2>2, <2>3, <2>4
<1> HIDE DEF t
<1>3. Pages \in Nat /\ MAX \in Nat
  BY PagesAre, SizesAssumption
<1>4. \A s \in 1 .. MAX : pak.notes[s].start \in Int /\ pak.notes[s].name \in Nat
  BY DEF N64Typed
<1>5. pak.data \in [1 .. Pages -> Nat]
  BY DEF N64Typed
<1> DEFINE D == {r \in SavesOf("n64") : r.data # <<>>}
<1>6. ASSUME NEW s \in S PROVE rec[s] \in D
  <2>1. s \in 1 .. MAX /\ Chain(t, pak.notes[s].start) # <<>>
    BY <1>1 DEF N64Used, N64First
  <2> DEFINE b == Content(t, pak.data, pak.notes[s].start)
  <2>2. b \in Seq(Nat) /\ b # <<>>
    BY <2>1, <1>2, <1>3, <1>4, <1>5, ChainContent
  <2>3. rec[s] = [system |-> "n64", name |-> pak.notes[s].name, data |-> b]
    BY <2>1 DEF N64Note
  <2> HIDE DEF b
  <2> QED BY <2>1, <2>2, <2>3, <1>4 DEF SavesOf
<1>7. S \in SUBSET (1 .. MAX)
  BY DEF N64Used
<1> HIDE DEF S, rec, D
<1>8. Of(l, InOrder(MAX, S), MAX, S, rec, D)
  BY <1>3, <1>6, <1>7, ListingIs
<1> HIDE DEF l
<1>9. l \in Seq(D)
  BY <1>8 DEF Of
<1>10. l \in Seq(SavesOf("n64")) /\ \A k \in DOMAIN l : l[k].data # <<>>
  <2>1. \A r \in D : r \in SavesOf("n64") /\ r.data # <<>>
    BY DEF D
  <2>2. \A k \in DOMAIN l : l[k] \in D
    BY <1>9
  <2>3. l \in Seq(SavesOf("n64"))
    BY <1>9, <2>1
  <2> QED BY <2>1, <2>2, <2>3
<1> QED BY <1>1, <1>10 DEF N64Notes

\* What a console that saves makes of a pak.
LEMMA N64SavedIs ==
  ASSUME NEW pak, N64Plain(pak), "n64" \in Formats, NEW game \in SavesOf("n64"),
         NEW new \in N64!Saved(pak, game)
  PROVE  \E pages \in FreeRuns(pak.index[1], Len(game.data)), slot \in 1 .. MAX :
           /\ pak.notes[slot] = N64!NoNote /\ pages[1] \in 1 .. Pages
           /\ new.index[1] = Given(pak.index[1], pages) /\ new.index[2] = new.index[1]
           /\ new.notes = [pak.notes EXCEPT ![slot] = [name |-> game.name, start |-> pages[1]]]
           /\ new.data = Written(pak.data, pages, game.data)
           /\ N64Plain(new)
<1> DEFINE t == pak.index[1]
<1>1. /\ pak \in [label : {"own"}, index : [1 .. 2 -> [1 .. Pages -> Int]],
                  notes : [1 .. MAX -> [name : Nat, start : Int]], data : [1 .. Pages -> Nat]]
      /\ t \in [1 .. Pages -> Links(Pages)]
  BY DEF N64Plain, N64Typed
<1>2. Pages \in Nat
  BY PagesAre
<1>3. game.name \in Nat /\ game.data \in Seq(Nat) /\ Len(game.data) \in Nat
  BY DEF SavesOf
<1>4. PICK pages \in FreeRuns(t, Len(game.data)), slot \in {s \in 1 .. MAX : pak.notes[s] = N64!NoNote} :
        new = [pak EXCEPT !.index = <<Given(t, pages), Given(t, pages)>>,
                          !.notes[slot] = [name |-> game.name, start |-> pages[1]],
                          !.data = Written(pak.data, pages, game.data)]
  <2>1. PICK pages \in N64!FreeRuns(t, Len(game.data)), slot \in {s \in 1 .. MAX : pak.notes[s] = N64!NoNote} :
          new = N64!In(pak, slot, pages, game)
    BY DEF N64!Saved
  <2>2. /\ N64!FreeRuns(t, Len(game.data)) = FreeRuns(t, Len(game.data))
        /\ N64!Given(t, pages) = Given(t, pages)
        /\ N64!Written(pak.data, pages, game.data) = Written(pak.data, pages, game.data)
    BY N64Chains, Zenon
  <2>3. new = [pak EXCEPT !.index = <<N64!Given(t, pages), N64!Given(t, pages)>>,
                          !.notes[slot] = [name |-> game.name, start |-> pages[1]],
                          !.data = N64!Written(pak.data, pages, game.data)]
    BY <2>1 DEF N64!In
  <2> QED BY <2>2, <2>3, Zenon
<1> HIDE DEF t
<1> DEFINE g == Given(t, pages)
           w == Written(pak.data, pages, game.data)
           note == [name |-> game.name, start |-> pages[1]]
<1>5. g \in [1 .. Pages -> Links(Pages)] /\ w \in [1 .. Pages -> Nat] /\ pages[1] \in 1 .. Pages
  <2>1. pak.data \in [1 .. Pages -> Nat]
    BY <1>1
  <2> QED BY <2>1, <1>1, <1>2, <1>3, GivenLinks
<1>6. note \in [name : Nat, start : Int]
  BY <1>3, <1>5
<1>7. Links(Pages) \subseteq Int
  BY <1>2 DEF Links, CHAIN_END, FREE
<1>n. new = [pak EXCEPT !.index = <<g, g>>, !.notes[slot] = note, !.data = w]
  BY <1>4
<1>w. w = Written(pak.data, pages, game.data)
  OBVIOUS
<1> HIDE DEF g, w, note
<1>8. /\ new.index = <<g, g>> /\ new.notes = [pak.notes EXCEPT ![slot] = note] /\ new.data = w
      /\ new.label = pak.label
      /\ new = [label |-> new.label, index |-> new.index, notes |-> new.notes, data |-> new.data]
  BY <1>1, <1>n
<1>9. new.index \in [1 .. 2 -> [1 .. Pages -> Int]] /\ new.index[1] = g /\ new.index[2] = g
  <2>1. g \in [1 .. Pages -> Int]
    BY <1>5, <1>7
  <2> QED BY <2>1, <1>8
<1>10. new.notes \in [1 .. MAX -> [name : Nat, start : Int]]
  <2>1. pak.notes \in [1 .. MAX -> [name : Nat, start : Int]]
    BY <1>1
  <2> QED BY <2>1, <1>6, <1>8
<1>11. N64Typed(new)
  <2>1. new.label \in {"own"}
    BY <1>1, <1>8
  <2> QED BY <2>1, <1>5, <1>8, <1>9, <1>10 DEF N64Typed
<1>12. N64Plain(new)
  BY <1>5, <1>9, <1>11 DEF N64Plain
<1> QED BY <1>4, <1>5, <1>8, <1>9, <1>12, <1>w DEF g, note, t

\* And one that deletes.
LEMMA N64DeletedIs ==
  ASSUME NEW pak, N64Plain(pak), "n64" \in Formats, NEW new \in N64!Deleted(pak)
  PROVE  \E slot \in 1 .. MAX :
           /\ pak.notes[slot] # N64!NoNote
           /\ new.index[1] = Freed(pak.index[1], Chain(pak.index[1], pak.notes[slot].start))
           /\ new.index[2] = new.index[1]
           /\ new.notes = [pak.notes EXCEPT ![slot] = N64!NoNote]
           /\ new.data = pak.data
           /\ N64Plain(new)
<1> DEFINE t == pak.index[1]
<1>1. /\ pak \in [label : {"own"}, index : [1 .. 2 -> [1 .. Pages -> Int]],
                  notes : [1 .. MAX -> [name : Nat, start : Int]], data : [1 .. Pages -> Nat]]
      /\ t \in [1 .. Pages -> Links(Pages)]
  BY DEF N64Plain, N64Typed
<1>2. Pages \in Nat
  BY PagesAre
<1>4. PICK slot \in {s \in 1 .. MAX : pak.notes[s] # N64!NoNote} :
        new = [pak EXCEPT !.index = <<Freed(t, Chain(t, pak.notes[slot].start)),
                                      Freed(t, Chain(t, pak.notes[slot].start))>>,
                          !.notes[slot] = N64!NoNote]
  BY N64Chains DEF N64!Deleted
<1> HIDE DEF t
<1> DEFINE g == Freed(t, Chain(t, pak.notes[slot].start))
           note == N64!NoNote
<1>5. g \in [1 .. Pages -> Links(Pages)]
  BY <1>1, <1>2, FreedLinks
<1>6. note \in [name : Nat, start : Int]
  BY DEF N64!NoNote
<1>7. Links(Pages) \subseteq Int
  BY <1>2 DEF Links, CHAIN_END, FREE
<1>n. new = [pak EXCEPT !.index = <<g, g>>, !.notes[slot] = note]
  BY <1>4
<1> HIDE DEF g, note
<1>8. /\ new.index = <<g, g>> /\ new.notes = [pak.notes EXCEPT ![slot] = note] /\ new.data = pak.data
      /\ new.label = pak.label
      /\ new = [label |-> new.label, index |-> new.index, notes |-> new.notes, data |-> new.data]
  BY <1>1, <1>n
<1>9. new.index \in [1 .. 2 -> [1 .. Pages -> Int]] /\ new.index[1] = g /\ new.index[2] = g
  <2>1. g \in [1 .. Pages -> Int]
    BY <1>5, <1>7
  <2> QED BY <2>1, <1>8
<1>10. new.notes \in [1 .. MAX -> [name : Nat, start : Int]]
  <2>1. pak.notes \in [1 .. MAX -> [name : Nat, start : Int]]
    BY <1>1
  <2> QED BY <2>1, <1>6, <1>8
<1>11. N64Typed(new)
  <2>1. new.label \in {"own"} /\ new.data \in [1 .. Pages -> Nat]
    BY <1>1, <1>8
  <2> QED BY <2>1, <1>5, <1>8, <1>9, <1>10 DEF N64Typed
<1>12. N64Plain(new)
  BY <1>5, <1>9, <1>11 DEF N64Plain
<1> QED BY <1>4, <1>5, <1>8, <1>9, <1>12 DEF g, note, t

\* Damage leaves a pak a pak.
LEMMA N64DamagedIs ==
  ASSUME NEW pak, N64Typed(pak), "n64" \in Formats, NEW new \in N64!Damaged(pak)
  PROVE  N64Typed(new)
<1>1. pak \in [label : {"own"}, index : [1 .. 2 -> [1 .. Pages -> Int]],
               notes : [1 .. MAX -> [name : Nat, start : Int]], data : [1 .. Pages -> Nat]]
  BY DEF N64Typed
<1>2. Pages \in Nat /\ Sizes["n64"] = Pages
  BY PagesAre DEF Pages
<1>3. CASE \E copy \in 1 .. 2, p \in 1 .. Pages, link \in {CHAIN_END, FREE} \cup 0 .. Pages :
             new = [pak EXCEPT !.index[copy][p] = link]
  <2>1. PICK copy \in 1 .. 2, p \in 1 .. Pages, link \in {CHAIN_END, FREE} \cup 0 .. Pages :
             new = [pak EXCEPT !.index[copy][p] = link]
    BY <1>3
  <2>2. link \in Int
    BY <1>2 DEF CHAIN_END, FREE
  <2>3. [pak.index EXCEPT ![copy][p] = link] \in [1 .. 2 -> [1 .. Pages -> Int]]
    BY <1>1, <2>2
  <2> QED BY <1>1, <2>1, <2>3 DEF N64Typed
<1>4. CASE \E slot \in 1 .. MAX, start \in 0 .. Pages : new = [pak EXCEPT !.notes[slot].start = start]
  <2>1. PICK slot \in 1 .. MAX, start \in 0 .. Pages : new = [pak EXCEPT !.notes[slot].start = start]
    BY <1>4
  <2>2. [pak.notes EXCEPT ![slot].start = start] \in [1 .. MAX -> [name : Nat, start : Int]]
    <3>1. pak.notes \in [1 .. MAX -> [name : Nat, start : Int]] /\ start \in Int
      BY <1>1, <1>2
    <3>2. [pak.notes[slot] EXCEPT !.start = start] \in [name : Nat, start : Int]
      BY <3>1
    <3> QED BY <3>1, <3>2
  <2> QED BY <1>1, <2>1, <2>2 DEF N64Typed
<1> QED BY <1>2, <1>3, <1>4, N64Chains DEF N64!Damaged
\* What is read of a whole pak, and that it goes on one.
LEMMA N64WholeIs ==
  ASSUME NEW pak, N64Whole(pak), "n64" \in Formats
  PROVE  /\ N64!parse(pak) = [ok |-> TRUE, saves |-> Listing(MAX, N64Used(pak), N64Note(pak, pak.index[1]))]
         /\ N64!Fits(N64!parse(pak).saves)
         /\ \A s \in N64Used(pak) : N64Note(pak, pak.index[1])[s] \in SavesOf("n64")
<1> DEFINE t == pak.index[1]
           S == N64Used(pak)
           first == N64First(pak)
           rec == N64Note(pak, t)
           l == Listing(MAX, S, rec)
<1>1. /\ LaidOut(Pages, t, S, first) /\ t \in [1 .. Pages -> Links(Pages)]
      /\ pak.index[1] = t /\ pak.index[2] = t /\ pak.data \in [1 .. Pages -> Nat]
      /\ \A s \in 1 .. MAX : pak.notes[s].name \in Nat
  BY DEF N64Whole, N64Plain, N64Typed
<1>2. Pages \in Nat /\ Pages > 0 /\ MAX \in Nat /\ S \in SUBSET (1 .. MAX)
  BY PagesAre, SizesAssumption DEF N64Used
<1>3. \A s \in S : /\ s \in 1 .. MAX /\ first[s] = pak.notes[s].start
                   /\ rec[s] = [system |-> "n64", name |-> pak.notes[s].name,
                                data |-> Content(t, pak.data, first[s])]
  BY DEF N64Used, N64First, N64Note
<1>r. rec = N64Note(pak, t) /\ first = N64First(pak) /\ S = N64Used(pak)
  OBVIOUS
<1> HIDE DEF t, S, first, rec
<1>4. N64!index_table(pak) = t /\ t # <<>>
  <2>1. pak.index[3 - 1] = t /\ 1 \in 1 .. 2
    BY <1>1
  <2> QED BY <2>1, <1>1, N64Index
<1>5. ~(t = <<>> \/ \E s \in S : Chain(t, first[s]) = <<>>)
  BY <1>1, <1>4 DEF LaidOut
<1>6. N64!parse(pak) = [ok |-> TRUE, saves |-> l]
  BY <1>4, <1>5, <1>r, N64Reads
<1>7. \A s \in S : rec[s] \in SavesOf("n64")
  <2> SUFFICES ASSUME NEW s \in S PROVE rec[s] \in SavesOf("n64")
    OBVIOUS
  <2> DEFINE b == Content(t, pak.data, first[s])
  <2>1. b \in Seq(Nat)
    BY <1>1, <1>2, ContentIs
  <2>2. rec[s] = [system |-> "n64", name |-> pak.notes[s].name, data |-> b] /\ pak.notes[s].name \in Nat
    BY <1>1, <1>3
  <2> HIDE DEF b
  <2> QED BY <2>1, <2>2 DEF SavesOf
<1>8. N64!Fits(l)
  <2> DEFINE lengths == LengthsIn(l)
  <2>1. Total(lengths) <= Pages
    <3>1. \A s \in S : rec[s].data = Content(t, pak.data, first[s])
      <4> SUFFICES ASSUME NEW s \in S PROVE rec[s].data = Content(t, pak.data, first[s])
        OBVIOUS
      <4>1. rec[s] = [system |-> "n64", name |-> pak.notes[s].name, data |-> Content(t, pak.data, first[s])]
        BY <1>3
      <4> QED BY <4>1
    <3>2. FitIn(l, Pages, Nat)
      BY <3>1, <1>1, <1>2, ListingFits, SMTT(30)
    <3> QED BY <3>2 DEF FitIn
  <2>2. Len(l) <= MAX
    <3>1. Of(l, InOrder(MAX, S), MAX, S, rec, SavesOf("n64"))
      BY <1>2, <1>7, ListingIs
    <3> QED BY <3>1 DEF Of
  <2>3. N64!Lengths(l) = lengths
    BY DEF N64!Lengths, LengthsIn
  <2>4. N64!Total(lengths) = Total(lengths) /\ Sizes["n64"] = Pages
    BY N64Chains DEF Pages
  <2> HIDE DEF l, lengths
  <2> QED BY <2>1, <2>2, <2>3, <2>4 DEF N64!Fits
<1>9. N64!parse(pak).saves = l
  BY <1>6
<1> QED BY <1>6, <1>7, <1>8, <1>9, <1>r DEF t

\* A console's save on a whole pak leaves it whole, and is one note more.
LEMMA N64SaveWhole ==
  ASSUME NEW pak, N64Whole(pak), "n64" \in Formats, NEW game \in SavesOf("n64"),
         NEW new \in N64!Saved(pak, game)
  PROVE  /\ N64Whole(new)
         /\ \E i \in Nat : Inserted(N64!parse(new).saves, N64!parse(pak).saves, game, i)
<1> DEFINE t == pak.index[1]
           S == N64Used(pak)
           first == N64First(pak)
           more == N64First(new)
<1>0. N64Plain(pak) /\ Pages \in Nat /\ MAX \in Nat
  BY PagesAre, SizesAssumption DEF N64Whole
<1>1. PICK pages \in FreeRuns(t, Len(game.data)), slot \in 1 .. MAX :
           /\ pak.notes[slot] = N64!NoNote /\ pages[1] \in 1 .. Pages
           /\ new.index[1] = Given(t, pages) /\ new.index[2] = new.index[1]
           /\ new.notes = [pak.notes EXCEPT ![slot] = [name |-> game.name, start |-> pages[1]]]
           /\ new.data = Written(pak.data, pages, game.data)
           /\ N64Plain(new)
  BY <1>0, N64SavedIs
<1> DEFINE u == Given(t, pages)
           w == Written(pak.data, pages, game.data)
<1>2. /\ pak.notes \in [1 .. MAX -> [name : Nat, start : Int]] /\ pak.data \in [1 .. Pages -> Nat]
      /\ \A s \in 1 .. MAX : pak.notes[s] = N64!NoNote \/ s \in S
      /\ LaidOut(Pages, t, S, first) /\ S \in SUBSET (1 .. MAX)
  BY DEF N64Whole, N64Plain, N64Typed, N64Used
<1>3. /\ new.notes[slot] = [name |-> game.name, start |-> pages[1]]
      /\ \A s \in 1 .. MAX : s # slot => new.notes[s] = pak.notes[s]
  BY <1>1, <1>2
<1>4. slot \notin S
  BY <1>1, <1>0 DEF N64!NoNote, N64Used
<1>5. N64Used(new) = S \cup {slot}
  BY <1>1, <1>2, <1>3 DEF N64Used
<1>6. /\ \A s \in 1 .. MAX : more[s] = new.notes[s].start /\ first[s] = pak.notes[s].start
  BY DEF N64First
<1>7. Joins(more, first, S, slot, pages[1])
  BY SMTT(30), <1>2, <1>3, <1>4, <1>6 DEF Joins
<1>8. game.name \in Nat /\ game.data \in Seq(Nat) /\ Len(game.data) \in Nat
      /\ game = [system |-> "n64", name |-> game.name, data |-> game.data]
  BY DEF SavesOf
<1>t. t = pak.index[1] /\ u = new.index[1] /\ w = new.data
  BY <1>1
<1>u. u = Given(t, pages) /\ w = Written(pak.data, pages, game.data) /\ S = N64Used(pak) /\ more = N64First(new)
  OBVIOUS
<1> HIDE DEF t, u, w, S, first, more
<1>9. Gains(Pages, u, S, more, t, first, slot, pages)
  BY <1>0, <1>2, <1>7, <1>8, <1>u, LaidGiven
<1>h. Holding(Pages, u, w, S, more, t, pak.data, first, slot, game.data, Nat)
  BY <1>0, <1>2, <1>7, <1>8, <1>u, GivenContent
<1>10. /\ Content(u, w, more[slot]) = game.data
       /\ \A s \in S : Content(u, w, more[s]) = Content(t, pak.data, first[s])
  BY <1>h DEF Holding
<1>11. N64Whole(new)
  <2>1. \A s \in 1 .. MAX : new.notes[s] = N64!NoNote \/ s \in N64Used(new)
    BY <1>2, <1>3, <1>5
  <2>2. LaidOut(Pages, u, S \cup {slot}, more)
    BY <1>9 DEF Gains
  <2> QED BY <2>1, <2>2, <1>1, <1>5, <1>t, <1>u DEF N64Whole
<1> DEFINE rec == N64Note(pak, t)
           rec2 == N64Note(new, u)
<1>12. \A s \in 1 .. MAX :
         /\ rec[s] = [system |-> "n64", name |-> pak.notes[s].name, data |-> Content(t, pak.data, first[s])]
         /\ rec2[s] = [system |-> "n64", name |-> new.notes[s].name, data |-> Content(u, w, more[s])]
  BY <1>6, <1>t DEF N64Note
<1>13. Joins(rec2, rec, S, slot, game)
  <2> HIDE DEF rec, rec2
  <2>1. rec2[slot] = game
    <3>1. rec2[slot] = [system |-> "n64", name |-> new.notes[slot].name, data |-> Content(u, w, more[slot])]
      BY <1>12
    <3>2. new.notes[slot].name = game.name
      BY <1>3
    <3> QED BY <3>1, <3>2, <1>8, <1>10
  <2>2. ASSUME NEW s \in S PROVE rec2[s] = rec[s]
    <3>1. s \in 1 .. MAX /\ s # slot
      BY <1>2, <1>4
    <3>2. /\ rec[s] = [system |-> "n64", name |-> pak.notes[s].name, data |-> Content(t, pak.data, first[s])]
          /\ rec2[s] = [system |-> "n64", name |-> new.notes[s].name, data |-> Content(u, w, more[s])]
      BY <3>1, <1>12
    <3>3. new.notes[s] = pak.notes[s] /\ Content(u, w, more[s]) = Content(t, pak.data, first[s])
      BY <3>1, <1>3, <1>10
    <3> QED BY <3>2, <3>3
  <2> QED BY <2>1, <2>2, <1>4 DEF Joins
<1>14. /\ N64!parse(pak).saves = Listing(MAX, S, rec)
       /\ \A s \in S : rec[s] \in SavesOf("n64")
  BY <1>t, <1>u, N64WholeIs
<1>15. N64!parse(new).saves = Listing(MAX, S \cup {slot}, rec2)
  <2>1. N64!parse(new).saves = Listing(MAX, N64Used(new), N64Note(new, new.index[1]))
    <3>1. N64!parse(new) = [ok |-> TRUE, saves |-> Listing(MAX, N64Used(new), N64Note(new, new.index[1]))]
      BY <1>11, N64WholeIs
    <3> QED BY <3>1
  <2> QED BY <2>1, <1>5, <1>t
<1> HIDE DEF rec, rec2
<1>16. \E i \in Nat : Inserted(Listing(MAX, S \cup {slot}, rec2), Listing(MAX, S, rec), game, i)
  BY <1>0, <1>2, <1>13, <1>14, ListingMore
<1> QED BY <1>11, <1>14, <1>15, <1>16

\* And one that deletes leaves it whole, with one note fewer.
LEMMA N64DeleteWhole ==
  ASSUME NEW pak, N64Whole(pak), "n64" \in Formats, NEW new \in N64!Deleted(pak)
  PROVE  /\ N64Whole(new)
         /\ \E i \in Nat : \E e : Inserted(N64!parse(pak).saves, N64!parse(new).saves, e, i)
<1> DEFINE t == pak.index[1]
           S == N64Used(pak)
           first == N64First(pak)
           fewer == N64First(new)
<1>0. N64Plain(pak) /\ Pages \in Nat /\ MAX \in Nat
  BY PagesAre, SizesAssumption DEF N64Whole
<1>1. PICK slot \in 1 .. MAX :
           /\ pak.notes[slot] # N64!NoNote
           /\ new.index[1] = Freed(t, Chain(t, pak.notes[slot].start))
           /\ new.index[2] = new.index[1]
           /\ new.notes = [pak.notes EXCEPT ![slot] = N64!NoNote]
           /\ new.data = pak.data
           /\ N64Plain(new)
  BY <1>0, N64DeletedIs
<1> DEFINE u == Freed(t, Chain(t, pak.notes[slot].start))
           T == S \ {slot}
<1>2. /\ pak.notes \in [1 .. MAX -> [name : Nat, start : Int]] /\ pak.data \in [1 .. Pages -> Nat]
      /\ \A s \in 1 .. MAX : pak.notes[s] = N64!NoNote \/ s \in S
      /\ LaidOut(Pages, t, S, first) /\ S \in SUBSET (1 .. MAX)
  BY DEF N64Whole, N64Plain, N64Typed, N64Used
<1>3. /\ new.notes[slot] = N64!NoNote
      /\ \A s \in 1 .. MAX : s # slot => new.notes[s] = pak.notes[s]
  BY <1>1, <1>2
<1>4. slot \in S
  BY <1>1, <1>2
<1>5. N64Used(new) = T
  <2>1. N64!NoNote.start \notin 1 .. Pages
    BY <1>0 DEF N64!NoNote
  <2> QED BY <2>1, <1>2, <1>3 DEF N64Used
<1>6. \A s \in 1 .. MAX : fewer[s] = new.notes[s].start /\ first[s] = pak.notes[s].start
  BY DEF N64First
<1>7. \A s \in S \ {slot} : fewer[s] = first[s]
  BY <1>2, <1>3, <1>6
<1>t. t = pak.index[1] /\ u = new.index[1]
  BY <1>1
<1>u. u = Freed(t, Chain(t, first[slot])) /\ S = N64Used(pak) /\ fewer = N64First(new) /\ T = S \ {slot}
  BY <1>6
<1> HIDE DEF t, u, S, first, fewer, T
<1>l. Loses(Pages, u, S \ {slot}, fewer, t, first)
  BY <1>0, <1>2, <1>4, <1>7, <1>u, LaidFreed
<1>8. LaidOut(Pages, u, T, fewer)
  BY <1>l, <1>u DEF Loses
<1>9. \A s \in T : Content(u, pak.data, fewer[s]) = Content(t, pak.data, first[s])
  BY <1>l, <1>u DEF Loses
<1>11. N64Whole(new)
  <2>1. \A s \in 1 .. MAX : new.notes[s] = N64!NoNote \/ s \in N64Used(new)
    BY <1>2, <1>3, <1>5, <1>u
  <2> QED BY <2>1, <1>1, <1>5, <1>8, <1>t, <1>u DEF N64Whole
<1> DEFINE rec == N64Note(pak, t)
           rec2 == N64Note(new, u)
<1>12. \A s \in 1 .. MAX :
         /\ rec[s] = [system |-> "n64", name |-> pak.notes[s].name, data |-> Content(t, pak.data, first[s])]
         /\ rec2[s] = [system |-> "n64", name |-> new.notes[s].name, data |-> Content(u, pak.data, fewer[s])]
  BY <1>1, <1>6 DEF N64Note
<1>13. Joins(rec, rec2, T, slot, rec[slot])
  <2> HIDE DEF rec, rec2
  <2>2. ASSUME NEW s \in T PROVE rec[s] = rec2[s]
    <3>1. s \in 1 .. MAX /\ s # slot
      BY <1>2, <1>u
    <3>2. /\ rec[s] = [system |-> "n64", name |-> pak.notes[s].name, data |-> Content(t, pak.data, first[s])]
          /\ rec2[s] = [system |-> "n64", name |-> new.notes[s].name, data |-> Content(u, pak.data, fewer[s])]
      BY <3>1, <1>12
    <3>3. new.notes[s] = pak.notes[s] /\ Content(u, pak.data, fewer[s]) = Content(t, pak.data, first[s])
      BY <3>1, <1>3, <1>9
    <3> QED BY <3>2, <3>3
  <2>3. slot \notin T
    BY <1>u
  <2> QED BY <2>2, <2>3 DEF Joins
<1>14. /\ N64!parse(pak).saves = Listing(MAX, S, rec)
       /\ \A s \in S : rec[s] \in SavesOf("n64")
  BY <1>t, <1>u, N64WholeIs
<1>15. N64!parse(new).saves = Listing(MAX, T, rec2) /\ \A s \in T : rec2[s] \in SavesOf("n64")
  <2>1. /\ N64!parse(new).saves = Listing(MAX, N64Used(new), N64Note(new, new.index[1]))
        /\ \A s \in N64Used(new) : N64Note(new, new.index[1])[s] \in SavesOf("n64")
    <3>1. /\ N64!parse(new) = [ok |-> TRUE, saves |-> Listing(MAX, N64Used(new), N64Note(new, new.index[1]))]
          /\ \A s \in N64Used(new) : N64Note(new, new.index[1])[s] \in SavesOf("n64")
      BY <1>11, N64WholeIs
    <3> QED BY <3>1
  <2> QED BY <2>1, <1>5, <1>t
<1> HIDE DEF rec, rec2
<1>16. T \in SUBSET (1 .. MAX) /\ T \cup {slot} = S /\ rec[slot] \in SavesOf("n64")
  BY <1>2, <1>4, <1>14, <1>u
<1>17. \E i \in Nat : Inserted(Listing(MAX, T \cup {slot}, rec), Listing(MAX, T, rec2), rec[slot], i)
  BY <1>0, <1>13, <1>15, <1>16, ListingMore
<1> QED BY <1>11, <1>14, <1>15, <1>16, <1>17
\* What the crate builds of notes that fit.
LEMMA N64BuildFits ==
  ASSUME "n64" \in Formats, NEW saves \in Seq(SavesOf("n64")), N64!Fits(saves)
  PROVE  N64!build(saves, "own").ok /\ N64Plain(N64!build(saves, "own").card)
<1> DEFINE lengths == LengthsIn(saves)
           parts == [k \in DOMAIN saves |-> saves[k].data]
           pak == N64!build(saves, "own").card
           t == Packed(lengths, Pages)
           d == Filled(Joined(parts), Pages, 0)
<1>0. Pages \in Nat /\ MAX \in Nat /\ Sizes["n64"] = Pages
  BY PagesAre, SizesAssumption DEF Pages
<1>1. ASSUME NEW k \in 1 .. Len(saves) PROVE saves[k].name \in Nat /\ saves[k].data \in Seq(Nat)
  <2>1. saves[k] \in SavesOf("n64")
    OBVIOUS
  <2> QED BY <2>1 DEF SavesOf
<1>2. /\ lengths = LengthsOf(DataOf(saves, InTurn(saves))) /\ lengths = LengthsOf(parts)
  BY InTurnIs
<1>3. parts \in Seq(Seq(Nat)) /\ Len(parts) = Len(saves)
  <2> DEFINE Q == Seq(Nat)
  <2>1. \A k \in 1 .. Len(saves) : saves[k].data \in Q
    BY <1>1
  <2>2. parts \in [1 .. Len(saves) -> Q]
    <3> HIDE DEF Q
    <3> QED BY <2>1
  <2> HIDE DEF Q, parts
  <2>3. parts \in Seq(Q) /\ Len(parts) = Len(saves)
    BY <2>2, ListOf
  <2> QED BY <2>3 DEF Q
<1>4. Len(saves) <= MAX /\ Total(lengths) <= Pages
  <2>1. N64!Lengths(saves) = lengths
    BY DEF N64!Lengths, LengthsIn
  <2>2. N64!Total(N64!Lengths(saves)) = Total(lengths)
    BY <2>1, N64Chains
  <2> QED BY <2>2, <1>0 DEF N64!Fits
<1>5. pak = [label |-> "own", index |-> <<t, t>>,
             notes |-> [slot \in 1 .. MAX |->
               IF slot \in DOMAIN saves
               THEN [name |-> saves[slot].name, start |-> StartsAt(lengths, slot)]
               ELSE N64!NoNote],
             data |-> d]
  <2>1. N64!Lengths(saves) = lengths
    BY DEF N64!Lengths, LengthsIn
  <2> QED BY <2>1, <1>0, N64Chains DEF N64!build
<1> HIDE DEF lengths, parts
<1>6. lengths \in Seq(Nat) /\ Len(lengths) = Len(saves) /\ Joined(parts) \in Seq(Nat)
  BY <1>2, <1>3, LacedAt
<1>7. t \in [1 .. Pages -> Links(Pages)] /\ d \in [1 .. Pages -> Nat]
  <2>1. t \in [1 .. Pages -> Links(Pages)]
    BY <1>0, <1>4, <1>6, PackedIs
  <2>2. d \in [1 .. Pages -> Nat]
    BY <1>0, <1>6, FilledIs
  <2> QED BY <2>1, <2>2
<1>8. \A k \in 1 .. Len(saves) : StartsAt(lengths, k) \in Nat
  <2> SUFFICES ASSUME NEW k \in 1 .. Len(saves) PROVE StartsAt(lengths, k) \in Nat
    OBVIOUS
  <2>1. StartsAt(lengths, k) = 1 + Summed(lengths)[k - 1] /\ Summed(lengths)[k - 1] \in Nat
    BY <1>6, PiecesLie
  <2> QED BY <2>1
<1>9. Links(Pages) \subseteq Int
  BY <1>0 DEF Links, CHAIN_END, FREE
<1> HIDE DEF t, d, pak
<1>10. pak.notes \in [1 .. MAX -> [name : Nat, start : Int]]
  <2>1. N64!NoNote \in [name : Nat, start : Int]
    BY DEF N64!NoNote
  <2>2. \A k \in DOMAIN saves : [name |-> saves[k].name, start |-> StartsAt(lengths, k)] \in [name : Nat, start : Int]
    BY <1>1, <1>8
  <2> QED BY <2>1, <2>2, <1>5
<1>11. t \in [1 .. Pages -> Int]
  BY <1>7, <1>9
<1>12. N64Typed(pak) /\ pak.index[1] = t /\ pak.index[2] = t
  BY <1>5, <1>7, <1>10, <1>11 DEF N64Typed
<1> QED BY <1>7, <1>12 DEF N64Plain, N64!build, pak

\* And of notes all of which have pages.
LEMMA N64BuildIs ==
  ASSUME "n64" \in Formats, NEW saves, N64Notes(saves), N64!Fits(saves)
  PROVE  /\ N64Whole(N64!build(saves, "own").card)
         /\ N64!parse(N64!build(saves, "own").card) = [ok |-> TRUE, saves |-> saves]
<1> DEFINE n == Len(saves)
           lengths == LengthsIn(saves)
           order == InTurn(saves)
           pak == N64!build(saves, "own").card
           t == Packed(lengths, Pages)
           d == Filled(Joined(DataOf(saves, order)), Pages, 0)
           first == N64First(pak)
<1>0. Pages \in Nat /\ MAX \in Nat /\ Sizes["n64"] = Pages
  BY PagesAre, SizesAssumption DEF Pages
<1>1. saves \in Seq(SavesOf("n64")) /\ n \in Nat /\ DOMAIN saves = 1 .. n
  BY DEF N64Notes
<1>s. \A k \in 1 .. n : /\ saves[k] = [system |-> "n64", name |-> saves[k].name, data |-> saves[k].data]
                        /\ saves[k].data \in Seq(Nat) /\ saves[k].data # <<>>
  <2> SUFFICES ASSUME NEW k \in 1 .. n
               PROVE  /\ saves[k] = [system |-> "n64", name |-> saves[k].name, data |-> saves[k].data]
                      /\ saves[k].data \in Seq(Nat) /\ saves[k].data # <<>>
    OBVIOUS
  <2>1. saves[k] \in SavesOf("n64") /\ saves[k].data # <<>>
    BY <1>1 DEF N64Notes
  <2> QED BY <2>1 DEF SavesOf
<1>2. /\ Ordered(order, saves, order)
      /\ lengths = LengthsOf(DataOf(saves, order))
      /\ DataOf(saves, order) = [k \in DOMAIN saves |-> saves[k].data]
  BY <1>1, InTurnIs
<1>3. n <= MAX /\ Total(lengths) <= Pages
  <2>1. N64!Lengths(saves) = lengths
    BY DEF N64!Lengths, LengthsIn
  <2>2. N64!Total(N64!Lengths(saves)) = Total(lengths)
    BY <2>1, N64Chains
  <2> QED BY <2>2, <1>0 DEF N64!Fits
<1>4. pak = [label |-> "own", index |-> <<t, t>>,
             notes |-> [slot \in 1 .. MAX |->
               IF slot \in 1 .. n
               THEN [name |-> saves[slot].name, start |-> StartsAt(lengths, slot)]
               ELSE N64!NoNote],
             data |-> d]
  <2>1. N64!Lengths(saves) = lengths
    BY DEF N64!Lengths, LengthsIn
  <2>2. d = Filled(Joined([k \in DOMAIN saves |-> saves[k].data]), Pages, 0)
    BY <1>2
  <2> HIDE DEF d, t, lengths
  <2>3. t = N64!Packed(lengths, Sizes["n64"])
        /\ d = N64!Filled(N64!Joined([k \in DOMAIN saves |-> saves[k].data]), Sizes["n64"], 0)
        /\ \A k : N64!StartsAt(lengths, k) = StartsAt(lengths, k)
    BY <2>2, <1>0, N64Chains DEF t
  <2> QED BY <2>1, <2>3, <1>1 DEF N64!build
<1>5. N64Plain(pak)
  BY <1>1, N64BuildFits
<1>p. pak = N64!build(saves, "own").card /\ first = N64First(pak)
  OBVIOUS
<1> HIDE DEF n, lengths, order, pak, t, d, first
<1>6. \A k \in 1 .. n : k \in 1 .. MAX /\ first[k] = StartsAt(lengths, k) /\ pak.notes[k].name = saves[k].name
                        /\ pak.notes[k].start = first[k] /\ order[k] = k
  BY <1>0, <1>1, <1>3, <1>4, <1>p DEF N64First, InTurn, order
<1>7. Anew(Pages, Nat, saves, lengths, order, Packed(lengths, Pages),
           Filled(Joined(DataOf(saves, order)), Pages, 0), first)
  <2>1. \A k \in 1 .. n : first[k] = StartsAt(lengths, order[k])
    BY <1>6
  <2> QED BY <2>1, <1>0, <1>1, <1>2, <1>3, <1>s, AnewIs DEF n
<1>8. /\ LaidOut(Pages, t, 1 .. n, first)
      /\ \A k \in 1 .. n : Content(t, d, first[k]) = saves[k].data
  BY <1>7 DEF Anew, n, t, d
<1>9. N64Used(pak) = 1 .. n
  <2>1. \A k \in 1 .. n : pak.notes[k].start \in 1 .. Pages
    BY <1>6, <1>8 DEF LaidOut
  <2>2. ASSUME NEW k \in 1 .. MAX, k \notin 1 .. n PROVE pak.notes[k].start \notin 1 .. Pages
    <3>1. pak.notes[k] = N64!NoNote
      BY <2>2, <1>4
    <3> QED BY <3>1, <1>0 DEF N64!NoNote
  <2> QED BY <2>1, <2>2, <1>6 DEF N64Used
<1>10. N64Whole(pak)
  <2>1. \A s \in 1 .. MAX : pak.notes[s] = N64!NoNote \/ s \in N64Used(pak)
    BY <1>4, <1>9
  <2>2. pak.index[1] = t
    BY <1>4
  <2> QED BY <2>1, <2>2, <1>5, <1>8, <1>9, <1>p DEF N64Whole
<1> DEFINE rec == N64Note(pak, t)
<1>11. N64!parse(pak) = [ok |-> TRUE, saves |-> Listing(MAX, 1 .. n, rec)]
  <2>1. N64!parse(pak) = [ok |-> TRUE, saves |-> Listing(MAX, N64Used(pak), N64Note(pak, pak.index[1]))]
    BY <1>10, N64WholeIs
  <2>2. pak.index[1] = t
    BY <1>4
  <2> QED BY <2>1, <2>2, <1>9
<1>12. ASSUME NEW k \in 1 .. n PROVE rec[k] = saves[k]
  <2>1. rec[k] = [system |-> "n64", name |-> pak.notes[k].name, data |-> Content(t, pak.data, pak.notes[k].start)]
    BY <1>6 DEF N64Note
  <2>2. pak.data = d
    BY <1>4
  <2> HIDE DEF rec
  <2> QED BY <2>1, <2>2, <1>6, <1>8, <1>s
<1> HIDE DEF rec
<1>13. Listing(MAX, 1 .. n, rec) = saves
  BY <1>0, <1>1, <1>3, <1>12, ListedAnew DEF n
<1> QED BY <1>10, <1>11, <1>13, <1>p DEF n

LEMMA N64BlankIs ==
  ASSUME "n64" \in Formats
  PROVE  /\ N64Notes(<<>>) /\ N64!Fits(<<>>)
         /\ N64!Blank("own") = N64!build(<<>>, "own").card
<1> DEFINE none == [k \in DOMAIN <<>> |-> <<>>]
<1>1. N64!Lengths(<<>>) = <<>> /\ DOMAIN <<>> = {}
  BY DEF N64!Lengths
<1>2. Total(<<>>) = 0 /\ Joined(<<>>) = <<>>
  BY TotalEmpty, JoinedEmpty
<1>3. Sizes["n64"] \in Nat /\ MAX \in Nat
  BY SizesAssumption
<1>4. N64!Fits(<<>>)
  BY <1>1, <1>2, <1>3, N64Chains DEF N64!Fits
<1>5. N64!Joined([k \in DOMAIN <<>> |-> <<>>[k].data]) = <<>>
  <2>1. [k \in DOMAIN <<>> |-> <<>>[k].data] = <<>>
    BY <1>1
  <2> QED BY <2>1, <1>2, N64Chains
<1>6. [slot \in 1 .. MAX |-> IF slot \in DOMAIN <<>> THEN [name |-> <<>>[slot].name, start |-> N64!StartsAt(<<>>, slot)]
                             ELSE N64!NoNote]
        = [slot \in 1 .. MAX |-> N64!NoNote]
  BY <1>1
<1>7. N64Notes(<<>>)
  BY <1>1 DEF N64Notes
<1>8. N64!build(<<>>, "own").card =
        [label |-> "own",
         index |-> <<N64!Packed(<<>>, Sizes["n64"]), N64!Packed(<<>>, Sizes["n64"])>>,
         notes |-> [slot \in 1 .. MAX |-> N64!NoNote],
         data |-> N64!Filled(<<>>, Sizes["n64"], 0)]
  BY <1>1, <1>5, <1>6 DEF N64!build
<1> QED BY <1>4, <1>7, <1>8 DEF N64!Blank
-----------------------------------------------------------------------------
(* The Neo Geo card.                                                       *)

LEMMA NeoChains ==
  /\ NeoGeo!CHAIN_END = CHAIN_END /\ NeoGeo!FREE = FREE
  /\ \A t, first : NeoGeo!Chain(t, first) = Chain(t, first)
  /\ \A t, d, first : NeoGeo!Content(t, d, first) = Content(t, d, first)
  /\ \A n, S : NeoGeo!InOrder(n, S) = InOrder(n, S)
  /\ \A l, n : NeoGeo!Packed(l, n) = Packed(l, n)
  /\ \A l : NeoGeo!Total(l) = Total(l) /\ NeoGeo!Joined(l) = Joined(l)
  /\ \A l, k : NeoGeo!StartsAt(l, k) = StartsAt(l, k)
  /\ \A b, n, z : NeoGeo!Filled(b, n, z) = Filled(b, n, z)
  /\ \A t, n : NeoGeo!FreeRuns(t, n) = FreeRuns(t, n)
  /\ \A t, b : NeoGeo!Given(t, b) = Given(t, b) /\ NeoGeo!Freed(t, b) = Freed(t, b)
  /\ \A d, b, y : NeoGeo!Written(d, b, y) = Written(d, b, y)
<1>1. NeoGeo!CHAIN_END = CHAIN_END /\ NeoGeo!FREE = FREE
  BY DEF NeoGeo!CHAIN_END, CHAIN_END, NeoGeo!FREE, FREE
<1>2. ASSUME NEW t, NEW first PROVE NeoGeo!Chain(t, first) = Chain(t, first)
  BY DEF NeoGeo!Chain, Chain, NeoGeo!Path, Path, NeoGeo!Walked, Walked, NeoGeo!CHAIN_END, CHAIN_END,
         NeoGeo!Min, Min
<1>3. ASSUME NEW t, NEW d, NEW first PROVE NeoGeo!Content(t, d, first) = Content(t, d, first)
  BY DEF NeoGeo!Content, Content, NeoGeo!Chain, Chain, NeoGeo!Path, Path, NeoGeo!Walked, Walked,
         NeoGeo!CHAIN_END, CHAIN_END, NeoGeo!Min, Min
<1>4. ASSUME NEW n, NEW S PROVE NeoGeo!InOrder(n, S) = InOrder(n, S)
  BY DEF NeoGeo!InOrder, InOrder, NeoGeo!Picked, Picked
<1>5. ASSUME NEW l, NEW n PROVE NeoGeo!Packed(l, n) = Packed(l, n)
  BY DEF NeoGeo!Packed, Packed, NeoGeo!StartsAt, StartsAt, NeoGeo!Total, Total, NeoGeo!Summed, Summed,
         NeoGeo!CHAIN_END, CHAIN_END, NeoGeo!FREE, FREE
<1>6. ASSUME NEW l PROVE NeoGeo!Total(l) = Total(l) /\ NeoGeo!Joined(l) = Joined(l)
  BY DEF NeoGeo!Total, Total, NeoGeo!Summed, Summed, NeoGeo!Joined, Joined, NeoGeo!Laced, Laced
<1>7. ASSUME NEW l, NEW k PROVE NeoGeo!StartsAt(l, k) = StartsAt(l, k)
  BY DEF NeoGeo!StartsAt, StartsAt, NeoGeo!Summed, Summed
<1>8. ASSUME NEW b, NEW n, NEW z PROVE NeoGeo!Filled(b, n, z) = Filled(b, n, z)
  BY DEF NeoGeo!Filled, Filled
<1>9. ASSUME NEW t, NEW n PROVE NeoGeo!FreeRuns(t, n) = FreeRuns(t, n)
  BY DEF NeoGeo!FreeRuns, FreeRuns, NeoGeo!FREE, FREE, NeoGeo!IsInjective, IsInjective
<1>10. ASSUME NEW t, NEW b PROVE NeoGeo!Given(t, b) = Given(t, b) /\ NeoGeo!Freed(t, b) = Freed(t, b)
  BY DEF NeoGeo!Given, Given, NeoGeo!Freed, Freed, NeoGeo!CHAIN_END, CHAIN_END, NeoGeo!FREE, FREE
<1>11. ASSUME NEW d, NEW b, NEW y PROVE NeoGeo!Written(d, b, y) = Written(d, b, y)
  BY DEF NeoGeo!Written, Written
<1> QED BY <1>1, <1>2, <1>3, <1>4, <1>5, <1>6, <1>7, <1>8, <1>9, <1>10, <1>11

\* A card as it can be, whatever became of it.
NeoBlocks == Sizes["neogeo"]
NeoEntries == [name : Nat, first : Int]
NeoTyped(card) ==
    card \in [header : {"own"}, fat : [1 .. NeoBlocks -> Int],
              dir : [1 .. MAX -> NeoEntries], data : [1 .. NeoBlocks -> Nat]]

\* The slots in use, where each starts, and what it is read as.
NeoUsed(card) == {s \in 1 .. MAX : card.dir[s].name # 0}
NeoFirst(card) == [s \in 1 .. MAX |-> card.dir[s].first]
NeoSave(card) ==
    [s \in 1 .. MAX |-> [system |-> "neogeo", name |-> card.dir[s].name,
                         data |-> Content(card.fat, card.data, card.dir[s].first)]]
NeoReadable(card) ==
    /\ card.fat[1] # NeoGeo!RESERVED
    /\ \A s \in NeoUsed(card) : Chain(card.fat, NeoFirst(card)[s]) # <<>>

LEMMA NeoBlocksAre == ASSUME "neogeo" \in Formats
                      PROVE NeoBlocks \in Nat /\ NeoBlocks > 0 /\ Sizes["neogeo"] = NeoBlocks /\ MAX \in Nat
BY SizesAssumption DEF NeoBlocks

LEMMA NeoReads ==
  ASSUME NEW card
  PROVE  NeoGeo!parse(card) = IF NeoReadable(card)
                              THEN [ok |-> TRUE, saves |-> Listing(MAX, NeoUsed(card), NeoSave(card))]
                              ELSE NeoGeo!NotRead
<1> DEFINE slots == InOrder(MAX, NeoUsed(card))
           Save(s) == [system |-> "neogeo", name |-> card.dir[s].name,
                       data |-> Content(card.fat, card.data, card.dir[s].first)]
           bad == card.fat[1] = NeoGeo!RESERVED
                  \/ \E s \in NeoUsed(card) : Chain(card.fat, card.dir[s].first) = <<>>
<1>1. NeoGeo!parse(card) =
        IF bad THEN NeoGeo!NotRead
        ELSE [ok |-> TRUE, saves |-> [i \in DOMAIN slots |-> Save(slots[i])]]
  BY NeoChains DEF NeoGeo!parse, NeoUsed
<1>2. NeoReadable(card) <=> ~bad
  <2>1. \A s \in NeoUsed(card) : NeoFirst(card)[s] = card.dir[s].first
    BY DEF NeoUsed, NeoFirst
  <2> QED BY <2>1 DEF NeoReadable
<1>3. MAX \in Nat
  BY SizesAssumption
<1>4. \A i \in DOMAIN slots : slots[i] \in 1 .. MAX
  <2> DEFINE S == 1 .. MAX
  <2>1. slots \in Seq(S)
    BY <1>3, InOrderIs DEF Ascends
  <2> HIDE DEF S, slots
  <2>2. \A i \in DOMAIN slots : slots[i] \in S
    BY <2>1
  <2> QED BY <2>2 DEF S
<1>5. \A i \in DOMAIN slots : NeoSave(card)[slots[i]] = Save(slots[i])
  <2> HIDE DEF slots
  <2> QED BY <1>4 DEF NeoSave
<1>6. Listing(MAX, NeoUsed(card), NeoSave(card)) = [i \in DOMAIN slots |-> Save(slots[i])]
  <2>1. Listing(MAX, NeoUsed(card), NeoSave(card)) = [i \in DOMAIN slots |-> NeoSave(card)[slots[i]]]
    BY DEF Listing
  <2> HIDE DEF slots, Save
  <2> QED BY <2>1, <1>5
<1> HIDE DEF bad
<1> QED BY <1>1, <1>2, <1>6

\* A card no damage has been done to: every entry is a save in blocks of its own.
NeoWhole(card) ==
    /\ NeoTyped(card)
    /\ \A s \in 1 .. MAX : card.dir[s] = NeoGeo!NoEntry \/ s \in NeoUsed(card)
    /\ LaidOut(NeoBlocks, card.fat, NeoUsed(card), NeoFirst(card))

\* What is read of a card, whatever became of it, are saves.
LEMMA NeoReadsSaves ==
  ASSUME NEW card, NeoTyped(card), "neogeo" \in Formats, NeoReadable(card)
  PROVE  Listing(MAX, NeoUsed(card), NeoSave(card)) \in Seq(SavesOf("neogeo"))
<1> DEFINE S == NeoUsed(card)
           rec == NeoSave(card)
           l == Listing(MAX, S, rec)
<1>1. /\ card.fat \in [1 .. NeoBlocks -> Int] /\ card.data \in [1 .. NeoBlocks -> Nat]
      /\ \A s \in 1 .. MAX : card.dir[s].first \in Int /\ card.dir[s].name \in Nat
  BY DEF NeoTyped, NeoEntries
<1>2. NeoBlocks \in Nat /\ MAX \in Nat
  BY NeoBlocksAre
<1>3. ASSUME NEW s \in S PROVE rec[s] \in SavesOf("neogeo")
  <2>1. s \in 1 .. MAX /\ card.dir[s].name \in Nat \ {0} /\ Chain(card.fat, card.dir[s].first) # <<>>
    BY <1>1 DEF NeoUsed, NeoFirst, NeoReadable
  <2> DEFINE b == Content(card.fat, card.data, card.dir[s].first)
  <2>2. b \in Seq(Nat)
    BY <2>1, <1>1, <1>2, ChainContent
  <2>3. rec[s] = [system |-> "neogeo", name |-> card.dir[s].name, data |-> b]
    BY <2>1 DEF NeoSave
  <2> HIDE DEF b
  <2> QED BY <2>1, <2>2, <2>3 DEF SavesOf
<1>4. S \in SUBSET (1 .. MAX)
  BY DEF NeoUsed
<1> HIDE DEF S, rec
<1>5. Of(l, InOrder(MAX, S), MAX, S, rec, SavesOf("neogeo"))
  BY <1>2, <1>3, <1>4, ListingIs
<1> QED BY <1>5 DEF Of, S, rec

\* What is read of a whole card, and that it goes on one.
LEMMA NeoWholeIs ==
  ASSUME NEW card, NeoWhole(card), "neogeo" \in Formats
  PROVE  /\ NeoGeo!parse(card) = [ok |-> TRUE, saves |-> Listing(MAX, NeoUsed(card), NeoSave(card))]
         /\ NeoGeo!Fits(NeoGeo!parse(card).saves)
         /\ \A s \in NeoUsed(card) : NeoSave(card)[s] \in SavesOf("neogeo")
<1> DEFINE t == card.fat
           S == NeoUsed(card)
           first == NeoFirst(card)
           rec == NeoSave(card)
           l == Listing(MAX, S, rec)
<1>1. /\ LaidOut(NeoBlocks, t, S, first) /\ t \in [1 .. NeoBlocks -> Links(NeoBlocks)]
      /\ card.data \in [1 .. NeoBlocks -> Nat]
      /\ \A s \in 1 .. MAX : card.dir[s].name \in Nat
  BY DEF NeoWhole, NeoTyped, NeoEntries, LaidOut
<1>2. NeoBlocks \in Nat /\ NeoBlocks > 0 /\ MAX \in Nat /\ S \in SUBSET (1 .. MAX)
  BY NeoBlocksAre DEF NeoUsed
<1>3. \A s \in S : /\ s \in 1 .. MAX /\ first[s] = card.dir[s].first /\ card.dir[s].name # 0
                   /\ rec[s] = [system |-> "neogeo", name |-> card.dir[s].name,
                                data |-> Content(t, card.data, first[s])]
  BY DEF NeoUsed, NeoFirst, NeoSave
<1>r. rec = NeoSave(card) /\ first = NeoFirst(card) /\ S = NeoUsed(card) /\ t = card.fat
  OBVIOUS
<1> HIDE DEF t, S, first, rec
<1>4. NeoReadable(card)
  <2>1. t[1] \in Links(NeoBlocks)
    BY <1>1, <1>2
  <2>2. NeoGeo!RESERVED \notin Links(NeoBlocks)
    BY <1>2 DEF NeoGeo!RESERVED, Links, CHAIN_END, FREE
  <2>3. \A s \in S : Chain(t, first[s]) # <<>>
    BY <1>1 DEF LaidOut
  <2> QED BY <2>1, <2>2, <2>3, <1>r DEF NeoReadable
<1>6. NeoGeo!parse(card) = [ok |-> TRUE, saves |-> l]
  BY <1>4, <1>r, NeoReads
<1>7. ASSUME NEW s \in S PROVE rec[s] \in SavesOf("neogeo")
  <2> DEFINE b == Content(t, card.data, first[s])
  <2>1. b \in Seq(Nat)
    BY <1>1, <1>2, ContentIs
  <2>2. rec[s] = [system |-> "neogeo", name |-> card.dir[s].name, data |-> b] /\ card.dir[s].name \in Nat \ {0}
    BY <1>1, <1>3
  <2> HIDE DEF b
  <2> QED BY <2>1, <2>2 DEF SavesOf
<1>8. NeoGeo!Fits(l)
  <2> DEFINE lengths == LengthsIn(l)
  <2>1. Total(lengths) <= NeoBlocks /\ \A k \in DOMAIN l : l[k].data # <<>>
    <3>1. \A s \in S : rec[s].data = Content(t, card.data, first[s])
      <4> SUFFICES ASSUME NEW s \in S PROVE rec[s].data = Content(t, card.data, first[s])
        OBVIOUS
      <4>1. rec[s] = [system |-> "neogeo", name |-> card.dir[s].name, data |-> Content(t, card.data, first[s])]
        BY <1>3
      <4> QED BY <4>1
    <3>2. FitIn(l, NeoBlocks, Nat)
      BY <3>1, <1>1, <1>2, ListingFits, SMTT(30)
    <3> QED BY <3>2 DEF FitIn
  <2>2. Len(l) <= MAX
    <3>1. Of(l, InOrder(MAX, S), MAX, S, rec, SavesOf("neogeo"))
      BY <1>2, <1>7, ListingIs
    <3> QED BY <3>1 DEF Of
  <2>3. NeoGeo!Lengths(l) = lengths
    BY DEF NeoGeo!Lengths, LengthsIn
  <2>4. NeoGeo!Total(lengths) = Total(lengths) /\ Sizes["neogeo"] = NeoBlocks
    BY NeoChains DEF NeoBlocks
  <2> HIDE DEF l, lengths
  <2> QED BY <2>1, <2>2, <2>3, <2>4 DEF NeoGeo!Fits
<1>9. NeoGeo!parse(card).saves = l
  BY <1>6
<1> QED BY <1>6, <1>7, <1>8, <1>9, <1>r
\* What a console that saves makes of a card, and one that deletes.
NeoAfterSave(card, game, new, slot, blocks) ==
    /\ card.dir[slot] = NeoGeo!NoEntry
    /\ new.fat = Given(card.fat, blocks)
    /\ new.dir = [card.dir EXCEPT ![slot] = [name |-> game.name, first |-> blocks[1]]]
    /\ new.data = Written(card.data, blocks, game.data)
    /\ NeoTyped(new)
NeoAfterDelete(card, new, slot) ==
    /\ card.dir[slot] # NeoGeo!NoEntry
    /\ new.fat = Freed(card.fat, Chain(card.fat, card.dir[slot].first))
    /\ new.dir = [card.dir EXCEPT ![slot] = NeoGeo!NoEntry]
    /\ new.data = card.data
    /\ NeoTyped(new)

LEMMA NeoSavedIs ==
  ASSUME NEW card, NeoTyped(card), card.fat \in [1 .. NeoBlocks -> Links(NeoBlocks)], "neogeo" \in Formats,
         NEW game \in SavesOf("neogeo"), NEW new \in NeoGeo!Saved(card, game)
  PROVE  \E blocks \in FreeRuns(card.fat, Len(game.data)), slot \in 1 .. MAX :
           NeoAfterSave(card, game, new, slot, blocks)
<1> DEFINE t == card.fat
<1>1. card \in [header : {"own"}, fat : [1 .. NeoBlocks -> Int],
                dir : [1 .. MAX -> NeoEntries], data : [1 .. NeoBlocks -> Nat]]
  BY DEF NeoTyped
<1>2. NeoBlocks \in Nat
  BY NeoBlocksAre
<1>3. game.name \in Nat /\ game.data \in Seq(Nat) /\ Len(game.data) \in Nat
  BY DEF SavesOf
<1>4. PICK blocks \in FreeRuns(t, Len(game.data)), slot \in {s \in 1 .. MAX : card.dir[s] = NeoGeo!NoEntry} :
        new = [card EXCEPT !.fat = Given(t, blocks),
                           !.dir[slot] = [name |-> game.name, first |-> blocks[1]],
                           !.data = Written(card.data, blocks, game.data)]
  <2>1. PICK blocks \in NeoGeo!FreeRuns(t, Len(game.data)), slot \in {s \in 1 .. MAX : card.dir[s] = NeoGeo!NoEntry} :
          new = NeoGeo!In(card, slot, blocks, game)
    BY DEF NeoGeo!Saved
  <2>2. /\ NeoGeo!FreeRuns(t, Len(game.data)) = FreeRuns(t, Len(game.data))
        /\ NeoGeo!Given(t, blocks) = Given(t, blocks)
        /\ NeoGeo!Written(card.data, blocks, game.data) = Written(card.data, blocks, game.data)
    BY NeoChains, Zenon
  <2>3. new = [card EXCEPT !.fat = NeoGeo!Given(t, blocks),
                           !.dir[slot] = [name |-> game.name, first |-> blocks[1]],
                           !.data = NeoGeo!Written(card.data, blocks, game.data)]
    BY <2>1 DEF NeoGeo!In
  <2> QED BY <2>2, <2>3, Zenon
<1>t. t = card.fat /\ t \in [1 .. NeoBlocks -> Links(NeoBlocks)]
  OBVIOUS
<1> HIDE DEF t
<1> DEFINE g == Given(t, blocks)
           w == Written(card.data, blocks, game.data)
           entry == [name |-> game.name, first |-> blocks[1]]
<1>5. g \in [1 .. NeoBlocks -> Links(NeoBlocks)] /\ w \in [1 .. NeoBlocks -> Nat] /\ blocks[1] \in 1 .. NeoBlocks
  <2>1. card.data \in [1 .. NeoBlocks -> Nat]
    BY <1>1
  <2> QED BY <2>1, <1>t, <1>2, <1>3, GivenLinks
<1>6. entry \in NeoEntries
  BY <1>3, <1>5 DEF NeoEntries
<1>7. g \in [1 .. NeoBlocks -> Int]
  BY <1>2, <1>5 DEF Links, CHAIN_END, FREE
<1>n. new = [card EXCEPT !.fat = g, !.dir[slot] = entry, !.data = w]
  BY <1>4
<1> HIDE DEF g, w, entry
<1>8. /\ new.fat = g /\ new.dir = [card.dir EXCEPT ![slot] = entry] /\ new.data = w
      /\ new.header = card.header
      /\ new = [header |-> new.header, fat |-> new.fat, dir |-> new.dir, data |-> new.data]
  BY <1>1, <1>n
<1>9. new.dir \in [1 .. MAX -> NeoEntries] /\ new.header \in {"own"}
  <2>1. card.dir \in [1 .. MAX -> NeoEntries] /\ card.header \in {"own"}
    BY <1>1
  <2> QED BY <2>1, <1>6, <1>8
<1>10. NeoTyped(new)
  BY <1>5, <1>7, <1>8, <1>9 DEF NeoTyped
<1>11. NeoAfterSave(card, game, new, slot, blocks)
  BY <1>4, <1>8, <1>10, <1>t DEF NeoAfterSave, g, w, entry
<1> QED BY <1>4, <1>11, <1>t

LEMMA NeoDeletedIs ==
  ASSUME NEW card, NeoTyped(card), card.fat \in [1 .. NeoBlocks -> Links(NeoBlocks)], "neogeo" \in Formats,
         NEW new \in NeoGeo!Deleted(card)
  PROVE  \E slot \in 1 .. MAX : NeoAfterDelete(card, new, slot)
<1> DEFINE t == card.fat
<1>1. card \in [header : {"own"}, fat : [1 .. NeoBlocks -> Int],
                dir : [1 .. MAX -> NeoEntries], data : [1 .. NeoBlocks -> Nat]]
  BY DEF NeoTyped
<1>2. NeoBlocks \in Nat
  BY NeoBlocksAre
<1>4. PICK slot \in {s \in 1 .. MAX : card.dir[s] # NeoGeo!NoEntry} :
        new = [card EXCEPT !.fat = Freed(t, Chain(t, card.dir[slot].first)), !.dir[slot] = NeoGeo!NoEntry]
  BY NeoChains DEF NeoGeo!Deleted
<1>t. t = card.fat /\ t \in [1 .. NeoBlocks -> Links(NeoBlocks)]
  OBVIOUS
<1> HIDE DEF t
<1> DEFINE g == Freed(t, Chain(t, card.dir[slot].first))
           entry == NeoGeo!NoEntry
<1>5. g \in [1 .. NeoBlocks -> Links(NeoBlocks)]
  BY <1>t, <1>2, FreedLinks
<1>6. entry \in NeoEntries
  BY DEF NeoGeo!NoEntry, NeoEntries
<1>7. g \in [1 .. NeoBlocks -> Int]
  BY <1>2, <1>5 DEF Links, CHAIN_END, FREE
<1>n. new = [card EXCEPT !.fat = g, !.dir[slot] = entry]
  BY <1>4
<1> HIDE DEF g, entry
<1>8. /\ new.fat = g /\ new.dir = [card.dir EXCEPT ![slot] = entry] /\ new.data = card.data
      /\ new.header = card.header
      /\ new = [header |-> new.header, fat |-> new.fat, dir |-> new.dir, data |-> new.data]
  BY <1>1, <1>n
<1>9. new.dir \in [1 .. MAX -> NeoEntries] /\ new.header \in {"own"} /\ new.data \in [1 .. NeoBlocks -> Nat]
  <2>1. card.dir \in [1 .. MAX -> NeoEntries] /\ card.header \in {"own"} /\ card.data \in [1 .. NeoBlocks -> Nat]
    BY <1>1
  <2> QED BY <2>1, <1>6, <1>8
<1>10. NeoTyped(new)
  BY <1>7, <1>8, <1>9 DEF NeoTyped
<1>11. NeoAfterDelete(card, new, slot)
  BY <1>4, <1>8, <1>10, <1>t DEF NeoAfterDelete, g, entry
<1> QED BY <1>4, <1>11

\* A console's save on a whole card leaves it whole, and is one save more.
LEMMA NeoSaveWhole ==
  ASSUME NEW card, NeoWhole(card), "neogeo" \in Formats, NEW game \in SavesOf("neogeo"),
         NEW new \in NeoGeo!Saved(card, game)
  PROVE  /\ NeoWhole(new)
         /\ \E i \in Nat : Inserted(NeoGeo!parse(new).saves, NeoGeo!parse(card).saves, game, i)
<1> DEFINE t == card.fat
           S == NeoUsed(card)
           first == NeoFirst(card)
           more == NeoFirst(new)
<1>0. NeoTyped(card) /\ NeoBlocks \in Nat /\ MAX \in Nat /\ t \in [1 .. NeoBlocks -> Links(NeoBlocks)]
  BY NeoBlocksAre DEF NeoWhole, LaidOut
<1>1. PICK blocks \in FreeRuns(t, Len(game.data)), slot \in 1 .. MAX :
           NeoAfterSave(card, game, new, slot, blocks)
  BY <1>0, NeoSavedIs
<1>b. /\ card.dir[slot] = NeoGeo!NoEntry
      /\ new.fat = Given(t, blocks)
      /\ new.dir = [card.dir EXCEPT ![slot] = [name |-> game.name, first |-> blocks[1]]]
      /\ new.data = Written(card.data, blocks, game.data)
      /\ NeoTyped(new)
  BY <1>1 DEF NeoAfterSave
<1> DEFINE u == Given(t, blocks)
           w == Written(card.data, blocks, game.data)
<1>2. /\ card.dir \in [1 .. MAX -> NeoEntries] /\ card.data \in [1 .. NeoBlocks -> Nat]
      /\ \A s \in 1 .. MAX : card.dir[s] = NeoGeo!NoEntry \/ s \in S
      /\ LaidOut(NeoBlocks, t, S, first) /\ S \in SUBSET (1 .. MAX)
  BY DEF NeoWhole, NeoTyped, NeoUsed
<1>3. /\ new.dir[slot] = [name |-> game.name, first |-> blocks[1]]
      /\ \A s \in 1 .. MAX : s # slot => new.dir[s] = card.dir[s]
  BY <1>b, <1>2
<1>4. slot \notin S
  BY <1>b DEF NeoGeo!NoEntry, NeoUsed
<1>8. game.name \in Nat /\ game.name # 0 /\ game.data \in Seq(Nat) /\ Len(game.data) \in Nat
      /\ game = [system |-> "neogeo", name |-> game.name, data |-> game.data]
  BY DEF SavesOf
<1>5. NeoUsed(new) = S \cup {slot}
  BY <1>1, <1>2, <1>3, <1>8 DEF NeoUsed
<1>6. /\ \A s \in 1 .. MAX : more[s] = new.dir[s].first /\ first[s] = card.dir[s].first
  BY DEF NeoFirst
<1>7. Joins(more, first, S, slot, blocks[1])
  BY <1>2, <1>3, <1>4, <1>6 DEF Joins
<1>t. t = card.fat /\ u = new.fat /\ w = new.data
  BY <1>b
<1>u. u = Given(t, blocks) /\ w = Written(card.data, blocks, game.data) /\ S = NeoUsed(card) /\ more = NeoFirst(new)
  OBVIOUS
<1> HIDE DEF t, u, w, S, first, more
<1>9. Gains(NeoBlocks, u, S, more, t, first, slot, blocks)
  BY <1>0, <1>2, <1>7, <1>8, <1>u, LaidGiven
<1>h. Holding(NeoBlocks, u, w, S, more, t, card.data, first, slot, game.data, Nat)
  BY <1>0, <1>2, <1>7, <1>8, <1>u, GivenContent
<1>10. /\ Content(u, w, more[slot]) = game.data
       /\ \A s \in S : Content(u, w, more[s]) = Content(t, card.data, first[s])
  BY <1>h DEF Holding
<1>11. NeoWhole(new)
  <2>1. \A s \in 1 .. MAX : new.dir[s] = NeoGeo!NoEntry \/ s \in NeoUsed(new)
    BY <1>2, <1>3, <1>5
  <2>2. LaidOut(NeoBlocks, u, S \cup {slot}, more)
    BY <1>9 DEF Gains
  <2> QED BY <2>1, <2>2, <1>b, <1>5, <1>t, <1>u DEF NeoWhole
<1> DEFINE rec == NeoSave(card)
           rec2 == NeoSave(new)
<1>12. \A s \in 1 .. MAX :
         /\ rec[s] = [system |-> "neogeo", name |-> card.dir[s].name, data |-> Content(t, card.data, first[s])]
         /\ rec2[s] = [system |-> "neogeo", name |-> new.dir[s].name, data |-> Content(u, w, more[s])]
  BY <1>6, <1>t DEF NeoSave
<1>13. Joins(rec2, rec, S, slot, game)
  <2> HIDE DEF rec, rec2
  <2>1. rec2[slot] = game
    <3>1. rec2[slot] = [system |-> "neogeo", name |-> new.dir[slot].name, data |-> Content(u, w, more[slot])]
      BY <1>12
    <3>2. new.dir[slot].name = game.name
      BY <1>3
    <3> QED BY <3>1, <3>2, <1>8, <1>10
  <2>2. ASSUME NEW s \in S PROVE rec2[s] = rec[s]
    <3>1. s \in 1 .. MAX /\ s # slot
      BY <1>2, <1>4
    <3>2. /\ rec[s] = [system |-> "neogeo", name |-> card.dir[s].name, data |-> Content(t, card.data, first[s])]
          /\ rec2[s] = [system |-> "neogeo", name |-> new.dir[s].name, data |-> Content(u, w, more[s])]
      BY <3>1, <1>12
    <3>3. new.dir[s] = card.dir[s] /\ Content(u, w, more[s]) = Content(t, card.data, first[s])
      BY <3>1, <1>3, <1>10
    <3> QED BY <3>2, <3>3
  <2> QED BY <2>1, <2>2, <1>4 DEF Joins
<1>14. /\ NeoGeo!parse(card).saves = Listing(MAX, S, rec)
       /\ \A s \in S : rec[s] \in SavesOf("neogeo")
  <2>1. /\ NeoGeo!parse(card) = [ok |-> TRUE, saves |-> Listing(MAX, NeoUsed(card), NeoSave(card))]
        /\ \A s \in NeoUsed(card) : NeoSave(card)[s] \in SavesOf("neogeo")
    BY NeoWholeIs
  <2> QED BY <2>1, <1>u
<1>15. NeoGeo!parse(new).saves = Listing(MAX, S \cup {slot}, rec2)
  <2>1. NeoGeo!parse(new) = [ok |-> TRUE, saves |-> Listing(MAX, NeoUsed(new), NeoSave(new))]
    BY <1>11, NeoWholeIs
  <2> QED BY <2>1, <1>5
<1> HIDE DEF rec, rec2
<1>16. \E i \in Nat : Inserted(Listing(MAX, S \cup {slot}, rec2), Listing(MAX, S, rec), game, i)
  BY <1>0, <1>2, <1>13, <1>14, ListingMore
<1> QED BY <1>11, <1>14, <1>15, <1>16

\* And one that deletes leaves it whole, with one save fewer.
LEMMA NeoDeleteWhole ==
  ASSUME NEW card, NeoWhole(card), "neogeo" \in Formats, NEW new \in NeoGeo!Deleted(card)
  PROVE  /\ NeoWhole(new)
         /\ \E i \in Nat : \E e : Inserted(NeoGeo!parse(card).saves, NeoGeo!parse(new).saves, e, i)
<1> DEFINE t == card.fat
           S == NeoUsed(card)
           first == NeoFirst(card)
           fewer == NeoFirst(new)
<1>0. NeoTyped(card) /\ NeoBlocks \in Nat /\ MAX \in Nat /\ t \in [1 .. NeoBlocks -> Links(NeoBlocks)]
  BY NeoBlocksAre DEF NeoWhole, LaidOut
<1>1. PICK slot \in 1 .. MAX : NeoAfterDelete(card, new, slot)
  BY <1>0, NeoDeletedIs
<1>b. /\ card.dir[slot] # NeoGeo!NoEntry
      /\ new.fat = Freed(t, Chain(t, card.dir[slot].first))
      /\ new.dir = [card.dir EXCEPT ![slot] = NeoGeo!NoEntry]
      /\ new.data = card.data
      /\ NeoTyped(new)
  BY <1>1 DEF NeoAfterDelete
<1> DEFINE u == Freed(t, Chain(t, card.dir[slot].first))
           T == S \ {slot}
<1>2. /\ card.dir \in [1 .. MAX -> NeoEntries] /\ card.data \in [1 .. NeoBlocks -> Nat]
      /\ \A s \in 1 .. MAX : card.dir[s] = NeoGeo!NoEntry \/ s \in S
      /\ LaidOut(NeoBlocks, t, S, first) /\ S \in SUBSET (1 .. MAX)
  BY DEF NeoWhole, NeoTyped, NeoUsed
<1>3. /\ new.dir[slot] = NeoGeo!NoEntry
      /\ \A s \in 1 .. MAX : s # slot => new.dir[s] = card.dir[s]
  BY <1>b, <1>2
<1>4. slot \in S
  BY <1>b, <1>2
<1>5. NeoUsed(new) = T
  <2>1. NeoGeo!NoEntry.name = 0
    BY DEF NeoGeo!NoEntry
  <2> QED BY <2>1, <1>2, <1>3 DEF NeoUsed
<1>6. \A s \in 1 .. MAX : fewer[s] = new.dir[s].first /\ first[s] = card.dir[s].first
  BY DEF NeoFirst
<1>7. \A s \in S \ {slot} : fewer[s] = first[s]
  BY <1>2, <1>3, <1>6
<1>t. t = card.fat /\ u = new.fat
  BY <1>b
<1>u. u = Freed(t, Chain(t, first[slot])) /\ S = NeoUsed(card) /\ fewer = NeoFirst(new) /\ T = S \ {slot}
  BY <1>6
<1> HIDE DEF t, u, S, first, fewer, T
<1>l. Loses(NeoBlocks, u, S \ {slot}, fewer, t, first)
  BY <1>0, <1>2, <1>4, <1>7, <1>u, LaidFreed
<1>8. LaidOut(NeoBlocks, u, T, fewer)
  BY <1>l, <1>u DEF Loses
<1>9. \A s \in T : Content(u, card.data, fewer[s]) = Content(t, card.data, first[s])
  BY <1>l, <1>u DEF Loses
<1>11. NeoWhole(new)
  <2>1. \A s \in 1 .. MAX : new.dir[s] = NeoGeo!NoEntry \/ s \in NeoUsed(new)
    BY <1>2, <1>3, <1>5, <1>u
  <2> QED BY <2>1, <1>b, <1>5, <1>8, <1>t, <1>u DEF NeoWhole
<1> DEFINE rec == NeoSave(card)
           rec2 == NeoSave(new)
<1>12. \A s \in 1 .. MAX :
         /\ rec[s] = [system |-> "neogeo", name |-> card.dir[s].name, data |-> Content(t, card.data, first[s])]
         /\ rec2[s] = [system |-> "neogeo", name |-> new.dir[s].name, data |-> Content(u, card.data, fewer[s])]
  BY <1>b, <1>6, <1>t DEF NeoSave
<1>13. Joins(rec, rec2, T, slot, rec[slot])
  <2> HIDE DEF rec, rec2
  <2>2. ASSUME NEW s \in T PROVE rec[s] = rec2[s]
    <3>1. s \in 1 .. MAX /\ s # slot
      BY <1>2, <1>u
    <3>2. /\ rec[s] = [system |-> "neogeo", name |-> card.dir[s].name, data |-> Content(t, card.data, first[s])]
          /\ rec2[s] = [system |-> "neogeo", name |-> new.dir[s].name, data |-> Content(u, card.data, fewer[s])]
      BY <3>1, <1>12
    <3>3. new.dir[s] = card.dir[s] /\ Content(u, card.data, fewer[s]) = Content(t, card.data, first[s])
      BY <3>1, <1>3, <1>9
    <3> QED BY <3>2, <3>3
  <2>3. slot \notin T
    BY <1>u
  <2> QED BY <2>2, <2>3 DEF Joins
<1>14. /\ NeoGeo!parse(card).saves = Listing(MAX, S, rec)
       /\ \A s \in S : rec[s] \in SavesOf("neogeo")
  <2>1. /\ NeoGeo!parse(card) = [ok |-> TRUE, saves |-> Listing(MAX, NeoUsed(card), NeoSave(card))]
        /\ \A s \in NeoUsed(card) : NeoSave(card)[s] \in SavesOf("neogeo")
    BY NeoWholeIs
  <2> QED BY <2>1, <1>u
<1>15. NeoGeo!parse(new).saves = Listing(MAX, T, rec2) /\ \A s \in T : rec2[s] \in SavesOf("neogeo")
  <2>1. /\ NeoGeo!parse(new) = [ok |-> TRUE, saves |-> Listing(MAX, NeoUsed(new), NeoSave(new))]
        /\ \A s \in NeoUsed(new) : NeoSave(new)[s] \in SavesOf("neogeo")
    BY <1>11, NeoWholeIs
  <2> QED BY <2>1, <1>5
<1> HIDE DEF rec, rec2
<1>16. T \in SUBSET (1 .. MAX) /\ T \cup {slot} = S /\ rec[slot] \in SavesOf("neogeo")
  BY <1>2, <1>4, <1>14, <1>u
<1>17. \E i \in Nat : Inserted(Listing(MAX, T \cup {slot}, rec), Listing(MAX, T, rec2), rec[slot], i)
  BY <1>0, <1>13, <1>15, <1>16, ListingMore
<1> QED BY <1>11, <1>14, <1>15, <1>16, <1>17

\* Damage leaves a card a card.
LEMMA NeoDamagedIs ==
  ASSUME NEW card, NeoTyped(card), "neogeo" \in Formats, NEW new \in NeoGeo!Damaged(card)
  PROVE  NeoTyped(new)
<1>1. card \in [header : {"own"}, fat : [1 .. NeoBlocks -> Int],
                dir : [1 .. MAX -> NeoEntries], data : [1 .. NeoBlocks -> Nat]]
  BY DEF NeoTyped
<1>2. NeoBlocks \in Nat /\ Sizes["neogeo"] = NeoBlocks
  BY NeoBlocksAre
<1>3. CASE \E b \in 1 .. NeoBlocks, link \in {CHAIN_END, FREE, NeoGeo!RESERVED} \cup 0 .. NeoBlocks :
             new = [card EXCEPT !.fat[b] = link]
  <2>1. PICK b \in 1 .. NeoBlocks, link \in {CHAIN_END, FREE, NeoGeo!RESERVED} \cup 0 .. NeoBlocks :
             new = [card EXCEPT !.fat[b] = link]
    BY <1>3
  <2>2. link \in Int
    BY <1>2 DEF CHAIN_END, FREE, NeoGeo!RESERVED
  <2>3. [card.fat EXCEPT ![b] = link] \in [1 .. NeoBlocks -> Int]
    BY <1>1, <2>2
  <2> QED BY <1>1, <2>1, <2>3 DEF NeoTyped
<1>4. CASE \E slot \in 1 .. MAX, first \in 0 .. NeoBlocks : new = [card EXCEPT !.dir[slot].first = first]
  <2>1. PICK slot \in 1 .. MAX, first \in 0 .. NeoBlocks : new = [card EXCEPT !.dir[slot].first = first]
    BY <1>4
  <2>2. [card.dir EXCEPT ![slot].first = first] \in [1 .. MAX -> NeoEntries]
    <3>1. card.dir \in [1 .. MAX -> NeoEntries] /\ first \in Int
      BY <1>1, <1>2
    <3>2. [card.dir[slot] EXCEPT !.first = first] \in NeoEntries
      BY <3>1 DEF NeoEntries
    <3> QED BY <3>1, <3>2
  <2> QED BY <1>1, <2>1, <2>2 DEF NeoTyped
<1> QED BY <1>2, <1>3, <1>4, NeoChains DEF NeoGeo!Damaged

\* What the crate builds of saves that fit.
LEMMA NeoBuildIs ==
  ASSUME "neogeo" \in Formats, NEW saves \in Seq(SavesOf("neogeo")), NeoGeo!Fits(saves)
  PROVE  /\ NeoWhole(NeoGeo!build(saves, "own").card)
         /\ NeoGeo!parse(NeoGeo!build(saves, "own").card) = [ok |-> TRUE, saves |-> saves]
<1> DEFINE n == Len(saves)
           lengths == LengthsIn(saves)
           order == InTurn(saves)
           card == NeoGeo!build(saves, "own").card
           t == Packed(lengths, NeoBlocks)
           d == Filled(Joined(DataOf(saves, order)), NeoBlocks, 0)
           first == NeoFirst(card)
<1>0. NeoBlocks \in Nat /\ MAX \in Nat /\ Sizes["neogeo"] = NeoBlocks
  BY NeoBlocksAre
<1>1. n \in Nat /\ DOMAIN saves = 1 .. n
  OBVIOUS
<1>s. \A k \in 1 .. n : /\ saves[k] = [system |-> "neogeo", name |-> saves[k].name, data |-> saves[k].data]
                        /\ saves[k].data \in Seq(Nat) /\ saves[k].data # <<>> /\ saves[k].name \in Nat \ {0}
  <2> SUFFICES ASSUME NEW k \in 1 .. n
               PROVE  /\ saves[k] = [system |-> "neogeo", name |-> saves[k].name, data |-> saves[k].data]
                      /\ saves[k].data \in Seq(Nat) /\ saves[k].data # <<>> /\ saves[k].name \in Nat \ {0}
    OBVIOUS
  <2>1. saves[k] \in SavesOf("neogeo")
    BY <1>1
  <2>2. saves[k].data # <<>>
    BY <1>1 DEF NeoGeo!Fits
  <2> QED BY <2>1, <2>2 DEF SavesOf
<1>2. /\ Ordered(order, saves, order)
      /\ lengths = LengthsOf(DataOf(saves, order))
      /\ DataOf(saves, order) = [k \in DOMAIN saves |-> saves[k].data]
  BY InTurnIs
<1>3. n <= MAX /\ Total(lengths) <= NeoBlocks
  <2>1. NeoGeo!Lengths(saves) = lengths
    BY DEF NeoGeo!Lengths, LengthsIn
  <2>2. NeoGeo!Total(NeoGeo!Lengths(saves)) = Total(lengths)
    BY <2>1, NeoChains
  <2> QED BY <2>2, <1>0 DEF NeoGeo!Fits
<1>4. card = [header |-> "own", fat |-> t,
              dir |-> [slot \in 1 .. MAX |->
                IF slot \in 1 .. n
                THEN [name |-> saves[slot].name, first |-> StartsAt(lengths, slot)]
                ELSE NeoGeo!NoEntry],
              data |-> d]
  <2>1. NeoGeo!Lengths(saves) = lengths
    BY DEF NeoGeo!Lengths, LengthsIn
  <2>2. d = Filled(Joined([k \in DOMAIN saves |-> saves[k].data]), NeoBlocks, 0)
    BY <1>2
  <2> HIDE DEF d, t, lengths
  <2>3. t = NeoGeo!Packed(lengths, Sizes["neogeo"])
        /\ d = NeoGeo!Filled(NeoGeo!Joined([k \in DOMAIN saves |-> saves[k].data]), Sizes["neogeo"], 0)
        /\ \A k : NeoGeo!StartsAt(lengths, k) = StartsAt(lengths, k)
    BY <2>2, <1>0, NeoChains DEF t
  <2> QED BY <2>1, <2>3, <1>1 DEF NeoGeo!build
<1>p. card = NeoGeo!build(saves, "own").card /\ first = NeoFirst(card)
  OBVIOUS
<1> HIDE DEF n, lengths, order, card, t, d, first
<1>6. \A k \in 1 .. n : k \in 1 .. MAX /\ first[k] = StartsAt(lengths, k) /\ card.dir[k].name = saves[k].name
                        /\ card.dir[k].first = first[k] /\ order[k] = k
  BY <1>0, <1>1, <1>3, <1>4, <1>p DEF NeoFirst, InTurn, order
<1>7. Anew(NeoBlocks, Nat, saves, lengths, order, Packed(lengths, NeoBlocks),
           Filled(Joined(DataOf(saves, order)), NeoBlocks, 0), first)
  <2>1. \A k \in 1 .. n : first[k] = StartsAt(lengths, order[k])
    BY <1>6
  <2> QED BY <2>1, <1>0, <1>1, <1>2, <1>3, <1>s, AnewIs DEF n
<1>8. /\ LaidOut(NeoBlocks, t, 1 .. n, first) /\ d \in [1 .. NeoBlocks -> Nat]
      /\ \A k \in 1 .. n : Content(t, d, first[k]) = saves[k].data
  BY <1>7 DEF Anew, n, t, d
<1>t. t \in [1 .. NeoBlocks -> Int]
  <2>1. t \in [1 .. NeoBlocks -> Links(NeoBlocks)]
    BY <1>8 DEF LaidOut
  <2> QED BY <2>1, <1>0 DEF Links, CHAIN_END, FREE
<1>e. card.dir \in [1 .. MAX -> NeoEntries]
  <2>1. NeoGeo!NoEntry \in NeoEntries
    BY DEF NeoGeo!NoEntry, NeoEntries
  <2>2. ASSUME NEW k \in 1 .. n PROVE [name |-> saves[k].name, first |-> StartsAt(lengths, k)] \in NeoEntries
    <3>1. first[k] \in 1 .. NeoBlocks
      BY <1>8 DEF LaidOut
    <3>2. first[k] \in Int
      BY <3>1, <1>0
    <3>4. saves[k].name \in Nat
      BY <1>s
    <3>3. StartsAt(lengths, k) = first[k]
      BY <1>6
    <3> QED BY <3>2, <3>3, <3>4 DEF NeoEntries
  <2> QED BY <2>1, <2>2, <1>4
<1>5. NeoTyped(card)
  BY <1>4, <1>8, <1>t, <1>e DEF NeoTyped
<1>9. NeoUsed(card) = 1 .. n
  <2>1. \A k \in 1 .. n : card.dir[k].name # 0
    BY <1>6, <1>s
  <2>2. ASSUME NEW k \in 1 .. MAX, k \notin 1 .. n PROVE card.dir[k].name = 0
    <3>1. card.dir[k] = NeoGeo!NoEntry
      BY <2>2, <1>4
    <3> QED BY <3>1 DEF NeoGeo!NoEntry
  <2> QED BY <2>1, <2>2, <1>6 DEF NeoUsed
<1>10. NeoWhole(card)
  <2>1. \A s \in 1 .. MAX : card.dir[s] = NeoGeo!NoEntry \/ s \in NeoUsed(card)
    BY <1>4, <1>9
  <2>2. card.fat = t
    BY <1>4
  <2> QED BY <2>1, <2>2, <1>5, <1>8, <1>9, <1>p DEF NeoWhole
<1> DEFINE rec == NeoSave(card)
<1>11. NeoGeo!parse(card) = [ok |-> TRUE, saves |-> Listing(MAX, 1 .. n, rec)]
  <2>1. NeoGeo!parse(card) = [ok |-> TRUE, saves |-> Listing(MAX, NeoUsed(card), NeoSave(card))]
    BY <1>10, NeoWholeIs
  <2> QED BY <2>1, <1>9
<1>12. ASSUME NEW k \in 1 .. n PROVE rec[k] = saves[k]
  <2>1. rec[k] = [system |-> "neogeo", name |-> card.dir[k].name, data |-> Content(card.fat, card.data, card.dir[k].first)]
    BY <1>6 DEF NeoSave
  <2>2. card.data = d /\ card.fat = t
    BY <1>4
  <2> HIDE DEF rec
  <2> QED BY <2>1, <2>2, <1>6, <1>8, <1>s
<1> HIDE DEF rec
<1>13. Listing(MAX, 1 .. n, rec) = saves
  BY <1>0, <1>1, <1>3, <1>12, ListedAnew DEF n
<1> QED BY <1>10, <1>11, <1>13, <1>p DEF n

LEMMA NeoBlankIs ==
  ASSUME "neogeo" \in Formats
  PROVE  NeoGeo!Fits(<<>>) /\ NeoGeo!Blank("own") = NeoGeo!build(<<>>, "own").card
<1>1. NeoGeo!Lengths(<<>>) = <<>> /\ DOMAIN <<>> = {}
  BY DEF NeoGeo!Lengths
<1>2. Total(<<>>) = 0 /\ Joined(<<>>) = <<>>
  BY TotalEmpty, JoinedEmpty
<1>3. Sizes["neogeo"] \in Nat /\ MAX \in Nat
  BY SizesAssumption
<1>4. NeoGeo!Fits(<<>>)
  BY <1>1, <1>2, <1>3, NeoChains DEF NeoGeo!Fits
<1>5. NeoGeo!Joined([k \in DOMAIN <<>> |-> <<>>[k].data]) = <<>>
  <2>1. [k \in DOMAIN <<>> |-> <<>>[k].data] = <<>>
    BY <1>1
  <2> QED BY <2>1, <1>2, NeoChains
<1>6. [slot \in 1 .. MAX |-> IF slot \in DOMAIN <<>> THEN [name |-> <<>>[slot].name, first |-> NeoGeo!StartsAt(<<>>, slot)]
                             ELSE NeoGeo!NoEntry]
        = [slot \in 1 .. MAX |-> NeoGeo!NoEntry]
  BY <1>1
<1>8. NeoGeo!build(<<>>, "own").card =
        [header |-> "own",
         fat |-> NeoGeo!Packed(<<>>, Sizes["neogeo"]),
         dir |-> [slot \in 1 .. MAX |-> NeoGeo!NoEntry],
         data |-> NeoGeo!Filled(<<>>, Sizes["neogeo"], 0)]
  BY <1>1, <1>5, <1>6 DEF NeoGeo!build
<1> QED BY <1>4, <1>8 DEF NeoGeo!Blank
-----------------------------------------------------------------------------
(* The VMU.                                                                *)

LEMMA VmuChains ==
  /\ Vmu!CHAIN_END = CHAIN_END /\ Vmu!FREE = FREE
  /\ \A t, first : Vmu!Chain(t, first) = Chain(t, first)
  /\ \A t, d, first : Vmu!Content(t, d, first) = Content(t, d, first)
  /\ \A n, S : Vmu!InOrder(n, S) = InOrder(n, S)
  /\ \A l, n : Vmu!Packed(l, n) = Packed(l, n)
  /\ \A l : Vmu!Total(l) = Total(l) /\ Vmu!Joined(l) = Joined(l)
  /\ \A l, k : Vmu!StartsAt(l, k) = StartsAt(l, k)
  /\ \A b, n, z : Vmu!Filled(b, n, z) = Filled(b, n, z)
  /\ \A t, n : Vmu!FreeRuns(t, n) = FreeRuns(t, n)
  /\ \A t, b : Vmu!Given(t, b) = Given(t, b) /\ Vmu!Freed(t, b) = Freed(t, b)
  /\ \A d, b, y : Vmu!Written(d, b, y) = Written(d, b, y)
<1>1. Vmu!CHAIN_END = CHAIN_END /\ Vmu!FREE = FREE
  BY DEF Vmu!CHAIN_END, CHAIN_END, Vmu!FREE, FREE
<1>2. ASSUME NEW t, NEW first PROVE Vmu!Chain(t, first) = Chain(t, first)
  BY DEF Vmu!Chain, Chain, Vmu!Path, Path, Vmu!Walked, Walked, Vmu!CHAIN_END, CHAIN_END,
         Vmu!Min, Min
<1>3. ASSUME NEW t, NEW d, NEW first PROVE Vmu!Content(t, d, first) = Content(t, d, first)
  BY DEF Vmu!Content, Content, Vmu!Chain, Chain, Vmu!Path, Path, Vmu!Walked, Walked,
         Vmu!CHAIN_END, CHAIN_END, Vmu!Min, Min
<1>4. ASSUME NEW n, NEW S PROVE Vmu!InOrder(n, S) = InOrder(n, S)
  BY DEF Vmu!InOrder, InOrder, Vmu!Picked, Picked
<1>5. ASSUME NEW l, NEW n PROVE Vmu!Packed(l, n) = Packed(l, n)
  BY DEF Vmu!Packed, Packed, Vmu!StartsAt, StartsAt, Vmu!Total, Total, Vmu!Summed, Summed,
         Vmu!CHAIN_END, CHAIN_END, Vmu!FREE, FREE
<1>6. ASSUME NEW l PROVE Vmu!Total(l) = Total(l) /\ Vmu!Joined(l) = Joined(l)
  BY DEF Vmu!Total, Total, Vmu!Summed, Summed, Vmu!Joined, Joined, Vmu!Laced, Laced
<1>7. ASSUME NEW l, NEW k PROVE Vmu!StartsAt(l, k) = StartsAt(l, k)
  BY DEF Vmu!StartsAt, StartsAt, Vmu!Summed, Summed
<1>8. ASSUME NEW b, NEW n, NEW z PROVE Vmu!Filled(b, n, z) = Filled(b, n, z)
  BY DEF Vmu!Filled, Filled
<1>9. ASSUME NEW t, NEW n PROVE Vmu!FreeRuns(t, n) = FreeRuns(t, n)
  BY DEF Vmu!FreeRuns, FreeRuns, Vmu!FREE, FREE, Vmu!IsInjective, IsInjective
<1>10. ASSUME NEW t, NEW b PROVE Vmu!Given(t, b) = Given(t, b) /\ Vmu!Freed(t, b) = Freed(t, b)
  BY DEF Vmu!Given, Given, Vmu!Freed, Freed, Vmu!CHAIN_END, CHAIN_END, Vmu!FREE, FREE
<1>11. ASSUME NEW d, NEW b, NEW y PROVE Vmu!Written(d, b, y) = Written(d, b, y)
  BY DEF Vmu!Written, Written
<1> QED BY <1>1, <1>2, <1>3, <1>4, <1>5, <1>6, <1>7, <1>8, <1>9, <1>10, <1>11

\* A VMU as it can be, whatever became of it.
VmuBlocks == Sizes["vmu"]
VmuKinds == {"data", "game"}
VmuEntries == [kind : {"none"} \cup VmuKinds, name : Nat, first : Int, count : Int]
VmuTyped(vmu) ==
    vmu \in [root : {"own"}, fat : [1 .. VmuBlocks -> Int],
             dir : [1 .. MAX -> VmuEntries], data : [1 .. VmuBlocks -> Nat]]

\* The slots in use, where each starts, and what it is read as.
VmuUsed(vmu) == {s \in 1 .. MAX : vmu.dir[s].kind # "none"}
VmuFirst(vmu) == [s \in 1 .. MAX |-> vmu.dir[s].first]
VmuSave(vmu) ==
    [s \in 1 .. MAX |-> [system |-> "vmu", name |-> vmu.dir[s].name, kind |-> vmu.dir[s].kind,
                         data |-> Content(vmu.fat, vmu.data, vmu.dir[s].first)]]
VmuReadable(vmu) ==
    \A s \in VmuUsed(vmu) :
      /\ vmu.dir[s].first \in DOMAIN vmu.fat /\ vmu.dir[s].count > 0
      /\ Len(Chain(vmu.fat, vmu.dir[s].first)) = vmu.dir[s].count

LEMMA VmuBlocksAre == ASSUME "vmu" \in Formats
                      PROVE VmuBlocks \in Nat /\ VmuBlocks > 0 /\ Sizes["vmu"] = VmuBlocks /\ MAX \in Nat
BY SizesAssumption DEF VmuBlocks

LEMMA VmuReads ==
  ASSUME NEW vmu
  PROVE  Vmu!parse(vmu) = IF VmuReadable(vmu)
                          THEN [ok |-> TRUE, saves |-> Listing(MAX, VmuUsed(vmu), VmuSave(vmu))]
                          ELSE Vmu!NotRead
<1> DEFINE slots == InOrder(MAX, VmuUsed(vmu))
           Save(s) == [system |-> "vmu", name |-> vmu.dir[s].name, kind |-> vmu.dir[s].kind,
                       data |-> Content(vmu.fat, vmu.data, vmu.dir[s].first)]
           bad == \E s \in VmuUsed(vmu) : ~Vmu!follow_chain(vmu.fat, vmu.dir[s])
<1>1. Vmu!parse(vmu) =
        IF bad THEN Vmu!NotRead
        ELSE [ok |-> TRUE, saves |-> [i \in DOMAIN slots |-> Save(slots[i])]]
  BY VmuChains DEF Vmu!parse, VmuUsed
<1>2. VmuReadable(vmu) <=> ~bad
  <2>1. ASSUME NEW s \in VmuUsed(vmu)
        PROVE  Vmu!follow_chain(vmu.fat, vmu.dir[s]) <=>
                 /\ vmu.dir[s].first \in DOMAIN vmu.fat /\ vmu.dir[s].count > 0
                 /\ Len(Chain(vmu.fat, vmu.dir[s].first)) = vmu.dir[s].count
    BY VmuChains DEF Vmu!follow_chain
  <2> QED BY <2>1 DEF VmuReadable
<1>3. MAX \in Nat
  BY SizesAssumption
<1>4. \A i \in DOMAIN slots : slots[i] \in 1 .. MAX
  <2> DEFINE S == 1 .. MAX
  <2>1. slots \in Seq(S)
    BY <1>3, InOrderIs DEF Ascends
  <2> HIDE DEF S, slots
  <2>2. \A i \in DOMAIN slots : slots[i] \in S
    BY <2>1
  <2> QED BY <2>2 DEF S
<1>5. \A i \in DOMAIN slots : VmuSave(vmu)[slots[i]] = Save(slots[i])
  <2> HIDE DEF slots
  <2> QED BY <1>4 DEF VmuSave
<1>6. Listing(MAX, VmuUsed(vmu), VmuSave(vmu)) = [i \in DOMAIN slots |-> Save(slots[i])]
  <2>1. Listing(MAX, VmuUsed(vmu), VmuSave(vmu)) = [i \in DOMAIN slots |-> VmuSave(vmu)[slots[i]]]
    BY DEF Listing
  <2> HIDE DEF slots, Save
  <2> QED BY <2>1, <1>5
<1> HIDE DEF bad
<1> QED BY <1>1, <1>2, <1>6

\* A VMU no damage has been done to: every entry is a save in blocks of its own,
\* as many as it says.
VmuWhole(vmu) ==
    /\ VmuTyped(vmu)
    /\ \A s \in 1 .. MAX : vmu.dir[s] = Vmu!NoEntry \/ s \in VmuUsed(vmu)
    /\ LaidOut(VmuBlocks, vmu.fat, VmuUsed(vmu), VmuFirst(vmu))
    /\ \A s \in VmuUsed(vmu) : vmu.dir[s].count = Len(Chain(vmu.fat, VmuFirst(vmu)[s]))

\* What is read of a VMU, whatever became of it, are saves.
LEMMA VmuReadsSaves ==
  ASSUME NEW vmu, VmuTyped(vmu), "vmu" \in Formats, VmuReadable(vmu)
  PROVE  Listing(MAX, VmuUsed(vmu), VmuSave(vmu)) \in Seq(SavesOf("vmu"))
<1> DEFINE S == VmuUsed(vmu)
           rec == VmuSave(vmu)
           l == Listing(MAX, S, rec)
<1>1. /\ vmu.fat \in [1 .. VmuBlocks -> Int] /\ vmu.data \in [1 .. VmuBlocks -> Nat]
      /\ \A s \in 1 .. MAX : /\ vmu.dir[s].first \in Int /\ vmu.dir[s].name \in Nat
                             /\ vmu.dir[s].kind \in {"none"} \cup VmuKinds
  BY DEF VmuTyped, VmuEntries
<1>2. VmuBlocks \in Nat /\ MAX \in Nat
  BY VmuBlocksAre
<1>3. ASSUME NEW s \in S PROVE rec[s] \in SavesOf("vmu")
  <2>0. s \in 1 .. MAX /\ vmu.dir[s].kind # "none"
    BY DEF VmuUsed
  <2>1. vmu.dir[s].name \in Nat /\ vmu.dir[s].kind \in VmuKinds /\ vmu.dir[s].first \in Int
    BY <2>0, <1>1
  <2>c. Chain(vmu.fat, vmu.dir[s].first) # <<>>
    <3>1. Len(Chain(vmu.fat, vmu.dir[s].first)) > 0
      BY DEF VmuReadable
    <3> QED BY <3>1
  <2> DEFINE b == Content(vmu.fat, vmu.data, vmu.dir[s].first)
  <2>2. b \in Seq(Nat)
    BY <2>1, <2>c, <1>1, <1>2, ChainContent
  <2>3. rec[s] = [system |-> "vmu", name |-> vmu.dir[s].name, kind |-> vmu.dir[s].kind, data |-> b]
    BY <2>0 DEF VmuSave
  <2> HIDE DEF b
  <2> QED BY <2>1, <2>2, <2>3 DEF SavesOf, VmuKinds
<1>4. S \in SUBSET (1 .. MAX)
  BY DEF VmuUsed
<1> HIDE DEF S, rec
<1>5. Of(l, InOrder(MAX, S), MAX, S, rec, SavesOf("vmu"))
  BY <1>2, <1>3, <1>4, ListingIs
<1> QED BY <1>5 DEF Of, S, rec

\* The crate counts the blocks of the saves in the order it places them: games,
\* and then the rest.
LEMMA PlacedIs ==
  ASSUME NEW T, NEW saves \in Seq(T)
  PROVE  /\ Vmu!Placed(saves) \in Seq(1 .. Len(saves))
         /\ \A k \in 1 .. Len(saves) : \E i \in 1 .. Len(Vmu!Placed(saves)) : Vmu!Placed(saves)[i] = k
         /\ \A i, j \in 1 .. Len(Vmu!Placed(saves)) : Vmu!Placed(saves)[i] = Vmu!Placed(saves)[j] => i = j
<1> DEFINE n == Len(saves)
           games == {k \in 1 .. n : saves[k].kind = "game"}
           rest == 1 .. n \ games
           a == InOrder(n, games)
           b == InOrder(n, rest)
           order == Vmu!Placed(saves)
<1>0. n \in Nat /\ DOMAIN saves = 1 .. n
  OBVIOUS
<1>1. order = a \o b
  BY <1>0, VmuChains DEF Vmu!Placed
<1>2. Ascends(a, n, games) /\ Ascends(b, n, rest)
  BY <1>0, InOrderIs
<1>r. (\A k \in 1 .. n : k \notin games => k \in rest) /\ \A k \in rest : k \notin games
  OBVIOUS
<1>n. n = Len(saves)
  OBVIOUS
<1> HIDE DEF n, games, rest, a, b, order
<1>3. ASSUME NEW c, NEW N, Ascends(c, n, N)
      PROVE  \A i, j \in 1 .. Len(c) : c[i] = c[j] => i = j
  <2> SUFFICES ASSUME NEW i \in 1 .. Len(c), NEW j \in 1 .. Len(c), c[i] = c[j], i # j PROVE FALSE
    OBVIOUS
  <2>0. c \in Seq(1 .. n) /\ Len(c) \in Nat /\ \A x, y \in 1 .. Len(c) : x < y => c[x] < c[y]
    BY <1>3 DEF Ascends
  <2>1. c[i] \in 1 .. n /\ c[j] \in 1 .. n
    <3> DEFINE S == 1 .. n
    <3>1. c \in Seq(S)
      BY <2>0
    <3> HIDE DEF S
    <3>2. c[i] \in S /\ c[j] \in S
      BY <3>1
    <3> QED BY <3>2 DEF S
  <2>2. i < j \/ j < i
    BY <2>0
  <2>3. c[i] < c[j] \/ c[j] < c[i]
    BY <2>2, <2>0
  <2> QED BY <2>1, <2>3, <1>0
<1>4. /\ a \in Seq(1 .. n) /\ b \in Seq(1 .. n) /\ Len(a) \in Nat /\ Len(b) \in Nat
      /\ \A i \in 1 .. Len(a) : a[i] \in games
      /\ \A i \in 1 .. Len(b) : b[i] \in rest
      /\ \A k \in 1 .. n : k \in games => \E i \in 1 .. Len(a) : a[i] = k
      /\ \A k \in 1 .. n : k \in rest => \E i \in 1 .. Len(b) : b[i] = k
  BY <1>2 DEF Ascends
<1>5. /\ order \in Seq(1 .. n) /\ Len(order) = Len(a) + Len(b)
      /\ \A i \in 1 .. Len(a) : order[i] = a[i]
      /\ \A i \in 1 .. Len(b) : order[Len(a) + i] = b[i]
  <2> DEFINE S == 1 .. n
  <2>1. a \in Seq(S) /\ b \in Seq(S)
    BY <1>4
  <2> HIDE DEF S
  <2>2. /\ a \o b \in Seq(S) /\ Len(a \o b) = Len(a) + Len(b)
        /\ \A i \in 1 .. Len(a) : (a \o b)[i] = a[i]
        /\ \A i \in 1 .. Len(b) : (a \o b)[Len(a) + i] = b[i]
    BY <2>1
  <2> QED BY <2>2, <1>1 DEF S
<1>6. ASSUME NEW k \in 1 .. n PROVE \E i \in 1 .. Len(order) : order[i] = k
  <2>1. CASE k \in games
    <3>1. PICK i \in 1 .. Len(a) : a[i] = k
      BY <2>1, <1>4
    <3>2. i \in 1 .. Len(order) /\ order[i] = k
      BY <3>1, <1>4, <1>5
    <3> QED BY <3>2
  <2>2. CASE k \notin games
    <3>1. PICK i \in 1 .. Len(b) : b[i] = k
      BY <2>2, <1>4, <1>r
    <3>2. Len(a) + i \in 1 .. Len(order) /\ order[Len(a) + i] = k
      BY <3>1, <1>4, <1>5
    <3> QED BY <3>2
  <2> QED BY <2>1, <2>2
<1>7. ASSUME NEW i \in 1 .. Len(order)
      PROVE  \/ i \in 1 .. Len(a) /\ order[i] = a[i] /\ order[i] \in games
             \/ /\ i - Len(a) \in 1 .. Len(b) /\ order[i] = b[i - Len(a)] /\ order[i] \notin games
                /\ i \notin 1 .. Len(a)
  <2>1. CASE i \in 1 .. Len(a)
    BY <2>1, <1>4, <1>5
  <2>2. CASE i \notin 1 .. Len(a)
    <3> DEFINE j == i - Len(a)
    <3>1. j \in 1 .. Len(b) /\ Len(a) + j = i
      BY <2>2, <1>4, <1>5
    <3> HIDE DEF j
    <3>2. order[i] = b[j] /\ b[j] \in rest
      BY <3>1, <1>4, <1>5
    <3> QED BY <2>2, <3>1, <3>2, <1>r DEF j
  <2> QED BY <2>1, <2>2
<1>8. ASSUME NEW i \in 1 .. Len(order), NEW j \in 1 .. Len(order), order[i] = order[j] PROVE i = j
  <2>1. /\ \A x, y \in 1 .. Len(a) : a[x] = a[y] => x = y
        /\ \A x, y \in 1 .. Len(b) : b[x] = b[y] => x = y
    BY <1>2, <1>3
  <2>2. CASE order[i] \in games
    <3>1. i \in 1 .. Len(a) /\ order[i] = a[i] /\ j \in 1 .. Len(a) /\ order[j] = a[j]
      BY <2>2, <1>7, <1>8
    <3> QED BY <3>1, <2>1, <1>8
  <2>3. CASE order[i] \notin games
    <3>1. i - Len(a) \in 1 .. Len(b) /\ order[i] = b[i - Len(a)]
          /\ j - Len(a) \in 1 .. Len(b) /\ order[j] = b[j - Len(a)]
      BY <2>3, <1>7, <1>8
    <3>2. i - Len(a) = j - Len(a)
      BY <3>1, <2>1, <1>8
    <3>3. i \in Int /\ j \in Int
      BY <1>4, <1>5
    <3> QED BY <3>2, <3>3, <1>4
  <2> QED BY <2>2, <2>3
<1> QED BY <1>5, <1>6, <1>8, <1>n DEF order
\* What is read of a whole VMU, and that it goes on one.
LEMMA VmuWholeIs ==
  ASSUME NEW vmu, VmuWhole(vmu), "vmu" \in Formats
  PROVE  /\ Vmu!parse(vmu) = [ok |-> TRUE, saves |-> Listing(MAX, VmuUsed(vmu), VmuSave(vmu))]
         /\ Vmu!Fits(Vmu!parse(vmu).saves)
         /\ \A s \in VmuUsed(vmu) : VmuSave(vmu)[s] \in SavesOf("vmu")
<1> DEFINE t == vmu.fat
           S == VmuUsed(vmu)
           first == VmuFirst(vmu)
           rec == VmuSave(vmu)
           l == Listing(MAX, S, rec)
<1>1. /\ LaidOut(VmuBlocks, t, S, first) /\ t \in [1 .. VmuBlocks -> Int]
      /\ vmu.data \in [1 .. VmuBlocks -> Nat]
      /\ \A s \in 1 .. MAX : vmu.dir[s].name \in Nat /\ vmu.dir[s].kind \in {"none"} \cup VmuKinds
      /\ \A s \in S : vmu.dir[s].count = Len(Chain(t, first[s]))
  BY DEF VmuWhole, VmuTyped, VmuEntries
<1>2. VmuBlocks \in Nat /\ VmuBlocks > 0 /\ MAX \in Nat /\ S \in SUBSET (1 .. MAX)
  BY VmuBlocksAre DEF VmuUsed
<1>3. \A s \in S : /\ s \in 1 .. MAX /\ first[s] = vmu.dir[s].first /\ vmu.dir[s].kind # "none"
                   /\ rec[s] = [system |-> "vmu", name |-> vmu.dir[s].name, kind |-> vmu.dir[s].kind,
                                data |-> Content(t, vmu.data, first[s])]
  BY DEF VmuUsed, VmuFirst, VmuSave
<1>r. rec = VmuSave(vmu) /\ first = VmuFirst(vmu) /\ S = VmuUsed(vmu) /\ t = vmu.fat
  OBVIOUS
<1> HIDE DEF t, S, first, rec
<1>d. ASSUME NEW s \in S
      PROVE  /\ Content(t, vmu.data, first[s]) \in Seq(Nat) /\ Content(t, vmu.data, first[s]) # <<>>
             /\ Len(Content(t, vmu.data, first[s])) = Len(Chain(t, first[s]))
  <2>1. There(t, vmu.data, first[s], Nat)
    BY <1>1, <1>2, ContentThere
  <2> QED BY <2>1 DEF There
<1>4. VmuReadable(vmu)
  <2> SUFFICES ASSUME NEW s \in S
               PROVE  /\ vmu.dir[s].first \in DOMAIN t /\ vmu.dir[s].count > 0
                      /\ Len(Chain(t, vmu.dir[s].first)) = vmu.dir[s].count
    BY <1>r DEF VmuReadable
  <2>1. first[s] \in 1 .. VmuBlocks /\ Len(Chain(t, first[s])) \in 1 .. VmuBlocks
    BY <1>1, <1>2, LaidOutIs
  <2>2. first[s] = vmu.dir[s].first /\ vmu.dir[s].count = Len(Chain(t, first[s]))
    BY <1>1, <1>3
  <2>3. DOMAIN t = 1 .. VmuBlocks
    BY <1>1
  <2> QED BY <2>1, <2>2, <2>3, <1>2
<1>6. Vmu!parse(vmu) = [ok |-> TRUE, saves |-> l]
  BY <1>4, <1>r, VmuReads
<1>7. ASSUME NEW s \in S PROVE rec[s] \in SavesOf("vmu")
  <2> DEFINE b == Content(t, vmu.data, first[s])
  <2>1. b \in Seq(Nat)
    BY <1>1, <1>2, ContentIs
  <2>2. /\ rec[s] = [system |-> "vmu", name |-> vmu.dir[s].name, kind |-> vmu.dir[s].kind, data |-> b]
        /\ vmu.dir[s].name \in Nat /\ vmu.dir[s].kind \in VmuKinds
    BY <1>1, <1>3
  <2> HIDE DEF b
  <2> QED BY <2>1, <2>2 DEF SavesOf, VmuKinds
<1> DEFINE c == InOrder(MAX, S)
           order == Vmu!Placed(l)
           places == [i \in 1 .. Len(order) |-> c[order[i]]]
<1>8. /\ l \in Seq(SavesOf("vmu")) /\ Len(l) = Len(c) /\ Len(l) <= MAX /\ c \in Seq(S) /\ Len(l) \in Nat
      /\ \A i \in 1 .. Len(l) : l[i] = rec[c[i]]
      /\ \A i, j \in 1 .. Len(c) : c[i] = c[j] => i = j
  <2>1. Of(l, c, MAX, S, rec, SavesOf("vmu"))
    BY <1>2, <1>7, ListingIs
  <2> HIDE DEF c, l
  <2>2. l \in Seq(SavesOf("vmu"))
    BY <2>1 DEF Of
  <2>3. Len(l) \in Nat
    BY <2>2
  <2> QED BY <2>1, <2>3 DEF Of
<1>9. /\ order \in Seq(1 .. Len(l)) /\ Len(order) \in Nat /\ DOMAIN order = 1 .. Len(order)
      /\ \A i \in 1 .. Len(order) : order[i] \in 1 .. Len(l)
      /\ \A i, j \in 1 .. Len(order) : order[i] = order[j] => i = j
  <2>1. order \in Seq(1 .. Len(l)) /\ \A i, j \in 1 .. Len(order) : order[i] = order[j] => i = j
    BY <1>8, PlacedIs
  <2> DEFINE D == 1 .. Len(l)
  <2>2. order \in Seq(D)
    BY <2>1
  <2> HIDE DEF D, order
  <2>3. Len(order) \in Nat /\ DOMAIN order = 1 .. Len(order) /\ \A i \in 1 .. Len(order) : order[i] \in D
    BY <2>2
  <2> QED BY <2>1, <2>3 DEF D
<1>o. order = Vmu!Placed(l)
  OBVIOUS
<1> HIDE DEF l, c, order
<1>10. ASSUME NEW i \in 1 .. Len(order)
       PROVE  /\ places[i] \in S /\ l[order[i]] = rec[places[i]] /\ places[i] = c[order[i]]
              /\ Len(l[order[i]].data) = Len(Chain(t, first[places[i]]))
  <2>1. order[i] \in 1 .. Len(l) /\ order[i] \in 1 .. Len(c)
    BY <1>8, <1>9
  <2> DEFINE k == order[i]
  <2>2. k \in 1 .. Len(c) /\ k \in 1 .. Len(l)
    BY <2>1
  <2> HIDE DEF k
  <2>3. c[k] \in S /\ l[k] = rec[c[k]]
    BY <2>2, <1>8
  <2>4. rec[c[k]].data = Content(t, vmu.data, first[c[k]])
    <3>1. rec[c[k]] = [system |-> "vmu", name |-> vmu.dir[c[k]].name, kind |-> vmu.dir[c[k]].kind,
                       data |-> Content(t, vmu.data, first[c[k]])]
      BY <2>3, <1>3
    <3> QED BY <3>1
  <2>5. Len(Content(t, vmu.data, first[c[k]])) = Len(Chain(t, first[c[k]]))
    BY <2>3, <1>d
  <2>6. places[i] = c[k]
    BY DEF k
  <2> HIDE DEF places
  <2> QED BY <2>3, <2>4, <2>5, <2>6 DEF k
<1>11. places \in Seq(S) /\ Len(places) = Len(order)
  <2>1. places \in [1 .. Len(order) -> S]
    BY <1>10
  <2> HIDE DEF places
  <2> QED BY <2>1, <1>9, ListOf
<1>12. \A i, j \in 1 .. Len(places) : places[i] = places[j] => i = j
  <2> SUFFICES ASSUME NEW i \in 1 .. Len(order), NEW j \in 1 .. Len(order), places[i] = places[j] PROVE i = j
    BY <1>11
  <2>1. c[order[i]] = c[order[j]] /\ order[i] \in 1 .. Len(c) /\ order[j] \in 1 .. Len(c)
    BY <1>8, <1>9, <1>10
  <2>2. order[i] = order[j]
    BY <2>1, <1>8
  <2> QED BY <2>2, <1>9
<1>s. places = [i \in 1 .. Len(order) |-> c[order[i]]]
  OBVIOUS
<1> HIDE DEF places
<1>13. Total(ChainsOf(t, first, places)) <= VmuBlocks
  BY <1>1, <1>2, <1>11, <1>12, LaidFits
<1>14. Vmu!Lengths(l, order) = ChainsOf(t, first, places)
  <2>1. DOMAIN places = 1 .. Len(order)
    BY <1>s
  <2>2. Vmu!Lengths(l, order) = [i \in 1 .. Len(order) |-> Len(l[order[i]].data)]
    BY <1>9 DEF Vmu!Lengths
  <2>3. ChainsOf(t, first, places) = [i \in 1 .. Len(order) |-> Len(Chain(t, first[places[i]]))]
    BY <2>1 DEF ChainsOf
  <2> QED BY <2>2, <2>3, <1>10
<1>15. ASSUME NEW k \in DOMAIN l PROVE l[k].data # <<>>
  <2>1. k \in 1 .. Len(l) /\ k \in 1 .. Len(c)
    BY <1>8
  <2>2. c[k] \in S /\ l[k] = rec[c[k]]
    BY <2>1, <1>8
  <2>3. rec[c[k]] = [system |-> "vmu", name |-> vmu.dir[c[k]].name, kind |-> vmu.dir[c[k]].kind,
                     data |-> Content(t, vmu.data, first[c[k]])]
    BY <2>2, <1>3
  <2>4. Content(t, vmu.data, first[c[k]]) # <<>>
    BY <2>2, <1>d
  <2> QED BY <2>2, <2>3, <2>4
<1>16. Vmu!Fits(l)
  <2>1. Vmu!Total(Vmu!Lengths(l, order)) <= Sizes["vmu"]
    BY <1>13, <1>14, VmuChains DEF VmuBlocks
  <2> QED BY <2>1, <1>8, <1>15, <1>o DEF Vmu!Fits
<1>17. Vmu!parse(vmu).saves = l
  BY <1>6
<1> QED BY <1>6, <1>7, <1>16, <1>17, <1>r DEF l
\* What a console that saves makes of a VMU, and one that deletes.
VmuEntry(game, blocks) ==
    [kind |-> game.kind, name |-> game.name, first |-> blocks[1], count |-> Len(game.data)]
VmuAfterSave(vmu, game, new, slot, blocks) ==
    /\ game.kind = "game" => \A i \in DOMAIN blocks : blocks[i] = i
    /\ vmu.dir[slot] = Vmu!NoEntry
    /\ new.fat = Given(vmu.fat, blocks)
    /\ new.dir = [vmu.dir EXCEPT ![slot] = VmuEntry(game, blocks)]
    /\ new.data = Written(vmu.data, blocks, game.data)
    /\ VmuTyped(new)
VmuAfterDelete(vmu, new, slot) ==
    /\ vmu.dir[slot] # Vmu!NoEntry
    /\ new.fat = Freed(vmu.fat, Chain(vmu.fat, vmu.dir[slot].first))
    /\ new.dir = [vmu.dir EXCEPT ![slot] = Vmu!NoEntry]
    /\ new.data = vmu.data
    /\ VmuTyped(new)

LEMMA VmuSavedIs ==
  ASSUME NEW vmu, VmuTyped(vmu), vmu.fat \in [1 .. VmuBlocks -> Links(VmuBlocks)], "vmu" \in Formats,
         NEW game \in SavesOf("vmu"), NEW new \in Vmu!Saved(vmu, game)
  PROVE  \E blocks \in FreeRuns(vmu.fat, Len(game.data)), slot \in 1 .. MAX :
           VmuAfterSave(vmu, game, new, slot, blocks)
<1> DEFINE t == vmu.fat
<1>1. vmu \in [root : {"own"}, fat : [1 .. VmuBlocks -> Int],
                dir : [1 .. MAX -> VmuEntries], data : [1 .. VmuBlocks -> Nat]]
  BY DEF VmuTyped
<1>2. VmuBlocks \in Nat
  BY VmuBlocksAre
<1>3. game.name \in Nat /\ game.data \in Seq(Nat) /\ Len(game.data) \in Nat /\ game.kind \in VmuKinds
  BY DEF SavesOf, VmuKinds
<1>4. PICK blocks \in FreeRuns(t, Len(game.data)), slot \in {s \in 1 .. MAX : vmu.dir[s] = Vmu!NoEntry} :
        /\ game.kind = "game" => \A i \in DOMAIN blocks : blocks[i] = i
        /\ new = [vmu EXCEPT !.fat = Given(t, blocks),
                           !.dir[slot] = VmuEntry(game, blocks),
                           !.data = Written(vmu.data, blocks, game.data)]
  <2>0. PICK blocks \in {choice \in Vmu!FreeRuns(t, Len(game.data)) :
                           game.kind = "game" => \A i \in DOMAIN choice : choice[i] = i},
             slot \in {s \in 1 .. MAX : vmu.dir[s] = Vmu!NoEntry} :
          new = Vmu!In(vmu, slot, blocks, game)
    BY DEF Vmu!Saved
  <2>1. /\ blocks \in Vmu!FreeRuns(t, Len(game.data)) /\ new = Vmu!In(vmu, slot, blocks, game)
        /\ game.kind = "game" => \A i \in DOMAIN blocks : blocks[i] = i
    BY <2>0
  <2>2. /\ Vmu!FreeRuns(t, Len(game.data)) = FreeRuns(t, Len(game.data))
        /\ Vmu!Given(t, blocks) = Given(t, blocks)
        /\ Vmu!Written(vmu.data, blocks, game.data) = Written(vmu.data, blocks, game.data)
    BY VmuChains, Zenon
  <2>3. new = [vmu EXCEPT !.fat = Vmu!Given(t, blocks),
                           !.dir[slot] = VmuEntry(game, blocks),
                           !.data = Vmu!Written(vmu.data, blocks, game.data)]
    BY <2>1 DEF Vmu!In, VmuEntry
  <2>4. blocks \in FreeRuns(t, Len(game.data))
    BY <2>1, <2>2
  <2>5. new = [vmu EXCEPT !.fat = Given(t, blocks),
                           !.dir[slot] = VmuEntry(game, blocks),
                           !.data = Written(vmu.data, blocks, game.data)]
    BY <2>2, <2>3, Zenon
  <2> QED BY <2>1, <2>4, <2>5
<1>t. t = vmu.fat /\ t \in [1 .. VmuBlocks -> Links(VmuBlocks)]
  OBVIOUS
<1> HIDE DEF t
<1> DEFINE g == Given(t, blocks)
           w == Written(vmu.data, blocks, game.data)
           entry == VmuEntry(game, blocks)
<1>5. g \in [1 .. VmuBlocks -> Links(VmuBlocks)] /\ w \in [1 .. VmuBlocks -> Nat] /\ blocks[1] \in 1 .. VmuBlocks
  <2>1. vmu.data \in [1 .. VmuBlocks -> Nat]
    BY <1>1
  <2> QED BY <2>1, <1>t, <1>2, <1>3, GivenLinks
<1>6. entry \in VmuEntries
  BY <1>2, <1>3, <1>5 DEF VmuEntries, VmuEntry
<1>7. g \in [1 .. VmuBlocks -> Int]
  BY <1>2, <1>5 DEF Links, CHAIN_END, FREE
<1>n. new = [vmu EXCEPT !.fat = g, !.dir[slot] = entry, !.data = w]
  BY <1>4
<1> HIDE DEF g, w, entry
<1>8. /\ new.fat = g /\ new.dir = [vmu.dir EXCEPT ![slot] = entry] /\ new.data = w
      /\ new.root = vmu.root
      /\ new = [root |-> new.root, fat |-> new.fat, dir |-> new.dir, data |-> new.data]
  BY <1>1, <1>n
<1>9. new.dir \in [1 .. MAX -> VmuEntries] /\ new.root \in {"own"}
  <2>1. vmu.dir \in [1 .. MAX -> VmuEntries] /\ vmu.root \in {"own"}
    BY <1>1
  <2> QED BY <2>1, <1>6, <1>8
<1>10. VmuTyped(new)
  BY <1>5, <1>7, <1>8, <1>9 DEF VmuTyped
<1>11. VmuAfterSave(vmu, game, new, slot, blocks)
  <2>1. g = Given(vmu.fat, blocks)
    BY <1>t DEF g
  <2> QED BY <2>1, <1>4, <1>8, <1>10 DEF VmuAfterSave, w, entry
<1> QED BY <1>4, <1>11, <1>t

LEMMA VmuDeletedIs ==
  ASSUME NEW vmu, VmuTyped(vmu), vmu.fat \in [1 .. VmuBlocks -> Links(VmuBlocks)], "vmu" \in Formats,
         NEW new \in Vmu!Deleted(vmu)
  PROVE  \E slot \in 1 .. MAX : VmuAfterDelete(vmu, new, slot)
<1> DEFINE t == vmu.fat
<1>1. vmu \in [root : {"own"}, fat : [1 .. VmuBlocks -> Int],
                dir : [1 .. MAX -> VmuEntries], data : [1 .. VmuBlocks -> Nat]]
  BY DEF VmuTyped
<1>2. VmuBlocks \in Nat
  BY VmuBlocksAre
<1>4. PICK slot \in {s \in 1 .. MAX : vmu.dir[s] # Vmu!NoEntry} :
        new = [vmu EXCEPT !.fat = Freed(t, Chain(t, vmu.dir[slot].first)), !.dir[slot] = Vmu!NoEntry]
  BY VmuChains DEF Vmu!Deleted
<1>t. t = vmu.fat /\ t \in [1 .. VmuBlocks -> Links(VmuBlocks)]
  OBVIOUS
<1> HIDE DEF t
<1> DEFINE g == Freed(t, Chain(t, vmu.dir[slot].first))
           entry == Vmu!NoEntry
<1>5. g \in [1 .. VmuBlocks -> Links(VmuBlocks)]
  BY <1>t, <1>2, FreedLinks
<1>6. entry \in VmuEntries
  BY DEF Vmu!NoEntry, VmuEntries
<1>7. g \in [1 .. VmuBlocks -> Int]
  BY <1>2, <1>5 DEF Links, CHAIN_END, FREE
<1>n. new = [vmu EXCEPT !.fat = g, !.dir[slot] = entry]
  BY <1>4
<1> HIDE DEF g, entry
<1>8. /\ new.fat = g /\ new.dir = [vmu.dir EXCEPT ![slot] = entry] /\ new.data = vmu.data
      /\ new.root = vmu.root
      /\ new = [root |-> new.root, fat |-> new.fat, dir |-> new.dir, data |-> new.data]
  BY <1>1, <1>n
<1>9. new.dir \in [1 .. MAX -> VmuEntries] /\ new.root \in {"own"} /\ new.data \in [1 .. VmuBlocks -> Nat]
  <2>1. vmu.dir \in [1 .. MAX -> VmuEntries] /\ vmu.root \in {"own"} /\ vmu.data \in [1 .. VmuBlocks -> Nat]
    BY <1>1
  <2> QED BY <2>1, <1>6, <1>8
<1>10. VmuTyped(new)
  BY <1>7, <1>8, <1>9 DEF VmuTyped
<1>11. VmuAfterDelete(vmu, new, slot)
  BY <1>4, <1>8, <1>10, <1>t DEF VmuAfterDelete, g, entry
<1> QED BY <1>4, <1>11

\* A mini-game there is one of, and in place, is yet.
StaysInPlace(vmu, new) ==
    (\E s \in 1 .. MAX : Vmu!GamesOf(vmu) \subseteq {s}) =>
      (Vmu!RunsInPlace(vmu) => Vmu!RunsInPlace(new))

\* A console's save on a whole VMU leaves it whole, and is one save more.
LEMMA VmuSaveWhole ==
  ASSUME NEW vmu, VmuWhole(vmu), "vmu" \in Formats, NEW game \in SavesOf("vmu"),
         NEW new \in Vmu!Saved(vmu, game)
  PROVE  /\ VmuWhole(new) /\ StaysInPlace(vmu, new)
         /\ \E i \in Nat : Inserted(Vmu!parse(new).saves, Vmu!parse(vmu).saves, game, i)
<1> DEFINE t == vmu.fat
           S == VmuUsed(vmu)
           first == VmuFirst(vmu)
           more == VmuFirst(new)
<1>0. VmuTyped(vmu) /\ VmuBlocks \in Nat /\ MAX \in Nat /\ t \in [1 .. VmuBlocks -> Links(VmuBlocks)]
  BY VmuBlocksAre DEF VmuWhole, LaidOut
<1>1. PICK blocks \in FreeRuns(t, Len(game.data)), slot \in 1 .. MAX :
           VmuAfterSave(vmu, game, new, slot, blocks)
  BY <1>0, VmuSavedIs
<1>b. /\ vmu.dir[slot] = Vmu!NoEntry
      /\ game.kind = "game" => \A i \in DOMAIN blocks : blocks[i] = i
      /\ new.fat = Given(t, blocks)
      /\ new.dir = [vmu.dir EXCEPT ![slot] = VmuEntry(game, blocks)]
      /\ new.data = Written(vmu.data, blocks, game.data)
      /\ VmuTyped(new)
  BY <1>1 DEF VmuAfterSave
<1> DEFINE u == Given(t, blocks)
           w == Written(vmu.data, blocks, game.data)
<1>2. /\ vmu.dir \in [1 .. MAX -> VmuEntries] /\ vmu.data \in [1 .. VmuBlocks -> Nat]
      /\ \A s \in 1 .. MAX : vmu.dir[s] = Vmu!NoEntry \/ s \in S
      /\ \A s \in S : vmu.dir[s].count = Len(Chain(t, first[s]))
      /\ LaidOut(VmuBlocks, t, S, first) /\ S \in SUBSET (1 .. MAX)
  BY DEF VmuWhole, VmuTyped, VmuUsed
<1>3. /\ new.dir[slot] = VmuEntry(game, blocks)
      /\ \A s \in 1 .. MAX : s # slot => new.dir[s] = vmu.dir[s]
  BY <1>b, <1>2
<1>4. slot \notin S /\ vmu.dir[slot].kind = "none"
  BY <1>b DEF Vmu!NoEntry, VmuUsed
<1>8. game.kind \in VmuKinds /\ game.data \in Seq(Nat) /\ Len(game.data) \in Nat
      /\ game = [system |-> "vmu", name |-> game.name, kind |-> game.kind, data |-> game.data]
  BY DEF SavesOf, VmuKinds
<1>e. new.dir[slot].kind = game.kind /\ new.dir[slot].name = game.name /\ new.dir[slot].first = blocks[1]
      /\ new.dir[slot].count = Len(game.data)
  BY <1>3 DEF VmuEntry
<1>5. VmuUsed(new) = S \cup {slot}
  BY <1>1, <1>2, <1>3, <1>8, <1>e DEF VmuUsed, VmuKinds
<1>6. /\ \A s \in 1 .. MAX : more[s] = new.dir[s].first /\ first[s] = vmu.dir[s].first
  BY DEF VmuFirst
<1>7. Joins(more, first, S, slot, blocks[1])
  BY <1>2, <1>3, <1>4, <1>6, <1>e DEF Joins
<1>t. t = vmu.fat /\ u = new.fat /\ w = new.data
  BY <1>b
<1>u. u = Given(t, blocks) /\ w = Written(vmu.data, blocks, game.data) /\ S = VmuUsed(vmu) /\ more = VmuFirst(new)
  OBVIOUS
<1> HIDE DEF t, u, w, S, first, more
<1>9. Gains(VmuBlocks, u, S, more, t, first, slot, blocks)
  BY <1>0, <1>2, <1>7, <1>8, <1>u, LaidGiven
<1>k. Len(blocks) = Len(game.data) /\ blocks \in Seq(1 .. VmuBlocks)
  <2>1. t \in Seq(Int) /\ Len(t) = VmuBlocks
    BY <1>0, TableIs
  <2>2. Len(blocks) = Len(game.data) /\ blocks \in Seq(1 .. Len(t))
    BY <2>1, <1>8, FreeRunIs
  <2> QED BY <2>1, <2>2
<1>h. Holding(VmuBlocks, u, w, S, more, t, vmu.data, first, slot, game.data, Nat)
  BY <1>0, <1>2, <1>7, <1>8, <1>u, GivenContent
<1>10. /\ Content(u, w, more[slot]) = game.data
       /\ \A s \in S : Content(u, w, more[s]) = Content(t, vmu.data, first[s])
  BY <1>h DEF Holding
<1>11. VmuWhole(new)
  <2>1. \A s \in 1 .. MAX : new.dir[s] = Vmu!NoEntry \/ s \in VmuUsed(new)
    BY <1>2, <1>3, <1>5
  <2>2. LaidOut(VmuBlocks, u, S \cup {slot}, more)
    BY <1>9 DEF Gains
  <2>3. ASSUME NEW s \in S \cup {slot} PROVE new.dir[s].count = Len(Chain(u, more[s]))
    <3>1. CASE s = slot
      BY <3>1, <1>e, <1>k, <1>9 DEF Gains
    <3>2. CASE s \in S
      <4>1. s # slot /\ s \in 1 .. MAX
        BY <3>2, <1>2, <1>4
      <4>2. new.dir[s].count = vmu.dir[s].count /\ vmu.dir[s].count = Len(Chain(t, first[s]))
        BY <3>2, <4>1, <1>2, <1>3
      <4> QED BY <4>2, <3>2, <1>9 DEF Gains
    <3> QED BY <3>1, <3>2
  <2> QED BY <2>1, <2>2, <2>3, <1>b, <1>5, <1>t, <1>u DEF VmuWhole
<1> DEFINE rec == VmuSave(vmu)
           rec2 == VmuSave(new)
<1>12. \A s \in 1 .. MAX :
         /\ rec[s] = [system |-> "vmu", name |-> vmu.dir[s].name, kind |-> vmu.dir[s].kind, data |-> Content(t, vmu.data, first[s])]
         /\ rec2[s] = [system |-> "vmu", name |-> new.dir[s].name, kind |-> new.dir[s].kind, data |-> Content(u, w, more[s])]
  BY <1>6, <1>t DEF VmuSave
<1>13. Joins(rec2, rec, S, slot, game)
  <2> HIDE DEF rec, rec2
  <2>1. rec2[slot] = game
    <3>1. rec2[slot] = [system |-> "vmu", name |-> new.dir[slot].name, kind |-> new.dir[slot].kind, data |-> Content(u, w, more[slot])]
      BY <1>12
    <3>2. new.dir[slot].name = game.name /\ new.dir[slot].kind = game.kind
      BY <1>e
    <3> QED BY <3>1, <3>2, <1>8, <1>10
  <2>2. ASSUME NEW s \in S PROVE rec2[s] = rec[s]
    <3>1. s \in 1 .. MAX /\ s # slot
      BY <1>2, <1>4
    <3>2. /\ rec[s] = [system |-> "vmu", name |-> vmu.dir[s].name, kind |-> vmu.dir[s].kind, data |-> Content(t, vmu.data, first[s])]
          /\ rec2[s] = [system |-> "vmu", name |-> new.dir[s].name, kind |-> new.dir[s].kind, data |-> Content(u, w, more[s])]
      BY <3>1, <1>12
    <3>3. new.dir[s] = vmu.dir[s] /\ Content(u, w, more[s]) = Content(t, vmu.data, first[s])
      BY <3>1, <1>3, <1>10
    <3> QED BY <3>2, <3>3
  <2> QED BY <2>1, <2>2, <1>4 DEF Joins
<1>14. /\ Vmu!parse(vmu).saves = Listing(MAX, S, rec)
       /\ \A s \in S : rec[s] \in SavesOf("vmu")
  <2>1. /\ Vmu!parse(vmu) = [ok |-> TRUE, saves |-> Listing(MAX, VmuUsed(vmu), VmuSave(vmu))]
        /\ \A s \in VmuUsed(vmu) : VmuSave(vmu)[s] \in SavesOf("vmu")
    BY VmuWholeIs
  <2> QED BY <2>1, <1>u
<1>15. Vmu!parse(new).saves = Listing(MAX, S \cup {slot}, rec2)
  <2>1. Vmu!parse(new) = [ok |-> TRUE, saves |-> Listing(MAX, VmuUsed(new), VmuSave(new))]
    BY <1>11, VmuWholeIs
  <2> QED BY <2>1, <1>5
<1> HIDE DEF rec, rec2
<1>16. \E i \in Nat : Inserted(Listing(MAX, S \cup {slot}, rec2), Listing(MAX, S, rec), game, i)
  BY <1>0, <1>2, <1>13, <1>14, ListingMore
<1>17. StaysInPlace(vmu, new)
  <2> SUFFICES ASSUME NEW x \in 1 .. MAX, Vmu!GamesOf(vmu) \subseteq {x}, Vmu!RunsInPlace(vmu),
                      NEW r \in 1 .. MAX, Vmu!GamesOf(new) = {r}
               PROVE  Chain(u, more[r]) = [i \in 1 .. new.dir[r].count |-> i]
    BY <1>6, <1>t, VmuChains DEF StaysInPlace, Vmu!RunsInPlace
  <2>1. new.dir[r].kind = "game"
    BY DEF Vmu!GamesOf
  <2>2. CASE r = slot
    <3>1. game.kind = "game" /\ new.dir[r].count = Len(blocks)
      BY <2>1, <2>2, <1>e, <1>k
    <3>2. Chain(u, more[r]) = blocks
      BY <2>2, <1>9 DEF Gains
    <3>3. DOMAIN blocks = 1 .. Len(blocks) /\ blocks = [i \in 1 .. Len(blocks) |-> blocks[i]]
      BY <1>k
    <3>4. \A i \in 1 .. Len(blocks) : blocks[i] = i
      BY <3>1, <3>3, <1>b
    <3> QED BY <3>1, <3>2, <3>3, <3>4
  <2>3. CASE r # slot
    <3>1. new.dir[r] = vmu.dir[r]
      BY <2>3, <1>3
    <3>2. r \in S
      BY <2>1, <3>1, <1>u DEF VmuUsed
    <3>3. Vmu!GamesOf(vmu) = {r}
      BY <2>1, <3>1 DEF Vmu!GamesOf
    <3>4. Chain(t, first[r]) = [i \in 1 .. vmu.dir[r].count |-> i]
      BY <3>3, <1>6, <1>t, VmuChains DEF Vmu!RunsInPlace
    <3> QED BY <3>1, <3>2, <3>4, <1>9 DEF Gains
  <2> QED BY <2>2, <2>3
<1> QED BY <1>11, <1>14, <1>15, <1>16, <1>17

\* And one that deletes leaves it whole, with one save fewer.
LEMMA VmuDeleteWhole ==
  ASSUME NEW vmu, VmuWhole(vmu), "vmu" \in Formats, NEW new \in Vmu!Deleted(vmu)
  PROVE  /\ VmuWhole(new) /\ StaysInPlace(vmu, new)
         /\ \E i \in Nat : \E e : Inserted(Vmu!parse(vmu).saves, Vmu!parse(new).saves, e, i)
<1> DEFINE t == vmu.fat
           S == VmuUsed(vmu)
           first == VmuFirst(vmu)
           fewer == VmuFirst(new)
<1>0. VmuTyped(vmu) /\ VmuBlocks \in Nat /\ MAX \in Nat /\ t \in [1 .. VmuBlocks -> Links(VmuBlocks)]
  BY VmuBlocksAre DEF VmuWhole, LaidOut
<1>1. PICK slot \in 1 .. MAX : VmuAfterDelete(vmu, new, slot)
  BY <1>0, VmuDeletedIs
<1>b. /\ vmu.dir[slot] # Vmu!NoEntry
      /\ new.fat = Freed(t, Chain(t, vmu.dir[slot].first))
      /\ new.dir = [vmu.dir EXCEPT ![slot] = Vmu!NoEntry]
      /\ new.data = vmu.data
      /\ VmuTyped(new)
  BY <1>1 DEF VmuAfterDelete
<1> DEFINE u == Freed(t, Chain(t, vmu.dir[slot].first))
           T == S \ {slot}
<1>2. /\ vmu.dir \in [1 .. MAX -> VmuEntries] /\ vmu.data \in [1 .. VmuBlocks -> Nat]
      /\ \A s \in 1 .. MAX : vmu.dir[s] = Vmu!NoEntry \/ s \in S
      /\ \A s \in S : vmu.dir[s].count = Len(Chain(t, first[s]))
      /\ LaidOut(VmuBlocks, t, S, first) /\ S \in SUBSET (1 .. MAX)
  BY DEF VmuWhole, VmuTyped, VmuUsed
<1>3. /\ new.dir[slot] = Vmu!NoEntry
      /\ \A s \in 1 .. MAX : s # slot => new.dir[s] = vmu.dir[s]
  BY <1>b, <1>2
<1>4. slot \in S
  BY <1>b, <1>2
<1>5. VmuUsed(new) = T
  <2>1. Vmu!NoEntry.kind = "none"
    BY DEF Vmu!NoEntry
  <2> QED BY <2>1, <1>2, <1>3 DEF VmuUsed
<1>6. \A s \in 1 .. MAX : fewer[s] = new.dir[s].first /\ first[s] = vmu.dir[s].first
  BY DEF VmuFirst
<1>7. \A s \in S \ {slot} : fewer[s] = first[s]
  BY <1>2, <1>3, <1>6
<1>t. t = vmu.fat /\ u = new.fat
  BY <1>b
<1>u. u = Freed(t, Chain(t, first[slot])) /\ S = VmuUsed(vmu) /\ fewer = VmuFirst(new) /\ T = S \ {slot}
  BY <1>6
<1> HIDE DEF t, u, S, first, fewer, T
<1>l. Loses(VmuBlocks, u, S \ {slot}, fewer, t, first)
  BY <1>0, <1>2, <1>4, <1>7, <1>u, LaidFreed
<1>8. LaidOut(VmuBlocks, u, T, fewer)
  BY <1>l, <1>u DEF Loses
<1>9. \A s \in T : Content(u, vmu.data, fewer[s]) = Content(t, vmu.data, first[s])
  BY <1>l, <1>u DEF Loses
<1>11. VmuWhole(new)
  <2>1. \A s \in 1 .. MAX : new.dir[s] = Vmu!NoEntry \/ s \in VmuUsed(new)
    BY <1>2, <1>3, <1>5, <1>u
  <2>2. ASSUME NEW s \in T PROVE new.dir[s].count = Len(Chain(u, fewer[s]))
    <3>1. s # slot /\ s \in S /\ s \in 1 .. MAX
      BY <1>2, <1>u
    <3>2. new.dir[s].count = vmu.dir[s].count /\ vmu.dir[s].count = Len(Chain(t, first[s]))
      BY <3>1, <1>2, <1>3
    <3> QED BY <3>2, <1>l, <1>u DEF Loses
  <2> QED BY <2>1, <2>2, <1>b, <1>5, <1>8, <1>t, <1>u DEF VmuWhole
<1> DEFINE rec == VmuSave(vmu)
           rec2 == VmuSave(new)
<1>12. \A s \in 1 .. MAX :
         /\ rec[s] = [system |-> "vmu", name |-> vmu.dir[s].name, kind |-> vmu.dir[s].kind, data |-> Content(t, vmu.data, first[s])]
         /\ rec2[s] = [system |-> "vmu", name |-> new.dir[s].name, kind |-> new.dir[s].kind, data |-> Content(u, vmu.data, fewer[s])]
  BY <1>b, <1>6, <1>t DEF VmuSave
<1>13. Joins(rec, rec2, T, slot, rec[slot])
  <2> HIDE DEF rec, rec2
  <2>2. ASSUME NEW s \in T PROVE rec[s] = rec2[s]
    <3>1. s \in 1 .. MAX /\ s # slot
      BY <1>2, <1>u
    <3>2. /\ rec[s] = [system |-> "vmu", name |-> vmu.dir[s].name, kind |-> vmu.dir[s].kind, data |-> Content(t, vmu.data, first[s])]
          /\ rec2[s] = [system |-> "vmu", name |-> new.dir[s].name, kind |-> new.dir[s].kind, data |-> Content(u, vmu.data, fewer[s])]
      BY <3>1, <1>12
    <3>3. new.dir[s] = vmu.dir[s] /\ Content(u, vmu.data, fewer[s]) = Content(t, vmu.data, first[s])
      BY <3>1, <1>3, <1>9
    <3> QED BY <3>2, <3>3
  <2>3. slot \notin T
    BY <1>u
  <2> QED BY <2>2, <2>3 DEF Joins
<1>14. /\ Vmu!parse(vmu).saves = Listing(MAX, S, rec)
       /\ \A s \in S : rec[s] \in SavesOf("vmu")
  <2>1. /\ Vmu!parse(vmu) = [ok |-> TRUE, saves |-> Listing(MAX, VmuUsed(vmu), VmuSave(vmu))]
        /\ \A s \in VmuUsed(vmu) : VmuSave(vmu)[s] \in SavesOf("vmu")
    BY VmuWholeIs
  <2> QED BY <2>1, <1>u
<1>15. Vmu!parse(new).saves = Listing(MAX, T, rec2) /\ \A s \in T : rec2[s] \in SavesOf("vmu")
  <2>1. /\ Vmu!parse(new) = [ok |-> TRUE, saves |-> Listing(MAX, VmuUsed(new), VmuSave(new))]
        /\ \A s \in VmuUsed(new) : VmuSave(new)[s] \in SavesOf("vmu")
    BY <1>11, VmuWholeIs
  <2> QED BY <2>1, <1>5
<1> HIDE DEF rec, rec2
<1>16. T \in SUBSET (1 .. MAX) /\ T \cup {slot} = S /\ rec[slot] \in SavesOf("vmu")
  BY <1>2, <1>4, <1>14, <1>u
<1>17. \E i \in Nat : Inserted(Listing(MAX, T \cup {slot}, rec), Listing(MAX, T, rec2), rec[slot], i)
  BY <1>0, <1>13, <1>15, <1>16, ListingMore
<1>18. StaysInPlace(vmu, new)
  <2> SUFFICES ASSUME NEW x \in 1 .. MAX, Vmu!GamesOf(vmu) \subseteq {x}, Vmu!RunsInPlace(vmu),
                      NEW r \in 1 .. MAX, Vmu!GamesOf(new) = {r}
               PROVE  Chain(u, fewer[r]) = [i \in 1 .. new.dir[r].count |-> i]
    BY <1>6, <1>t, VmuChains DEF StaysInPlace, Vmu!RunsInPlace
  <2>1. new.dir[r].kind = "game"
    BY DEF Vmu!GamesOf
  <2>2. r # slot
    BY <2>1, <1>3 DEF Vmu!NoEntry
  <2>3. new.dir[r] = vmu.dir[r]
    BY <2>2, <1>3
  <2>4. r \in T
    BY <2>1, <2>2, <2>3, <1>u DEF VmuUsed
  <2>5. Vmu!GamesOf(vmu) = {r}
    BY <2>1, <2>3 DEF Vmu!GamesOf
  <2>6. Chain(t, first[r]) = [i \in 1 .. vmu.dir[r].count |-> i]
    BY <2>5, <1>6, <1>t, VmuChains DEF Vmu!RunsInPlace
  <2> QED BY <2>3, <2>4, <2>6, <1>l, <1>u DEF Loses
<1> QED BY <1>11, <1>14, <1>15, <1>16, <1>17, <1>18

\* Damage leaves a VMU a VMU.
LEMMA VmuDamagedIs ==
  ASSUME NEW vmu, VmuTyped(vmu), "vmu" \in Formats, NEW new \in Vmu!Damaged(vmu)
  PROVE  VmuTyped(new)
<1>1. vmu \in [root : {"own"}, fat : [1 .. VmuBlocks -> Int],
                dir : [1 .. MAX -> VmuEntries], data : [1 .. VmuBlocks -> Nat]]
  BY DEF VmuTyped
<1>2. VmuBlocks \in Nat /\ Sizes["vmu"] = VmuBlocks
  BY VmuBlocksAre
<1>k. vmu.dir \in [1 .. MAX -> VmuEntries]
  BY <1>1
<1>3. ASSUME NEW b \in 1 .. VmuBlocks, NEW link \in {CHAIN_END, FREE} \cup 0 .. VmuBlocks,
             new = [vmu EXCEPT !.fat[b] = link]
      PROVE  VmuTyped(new)
  <2>2. link \in Int
    BY <1>2 DEF CHAIN_END, FREE
  <2>3. [vmu.fat EXCEPT ![b] = link] \in [1 .. VmuBlocks -> Int]
    BY <1>1, <2>2
  <2> QED BY <1>1, <1>3, <2>3 DEF VmuTyped
<1>4. ASSUME NEW slot \in 1 .. MAX, NEW entry \in VmuEntries, new = [vmu EXCEPT !.dir[slot] = entry]
      PROVE  VmuTyped(new)
  <2>1. [vmu.dir EXCEPT ![slot] = entry] \in [1 .. MAX -> VmuEntries]
    BY <1>k
  <2> QED BY <1>1, <1>4, <2>1 DEF VmuTyped
<1>5. ASSUME NEW slot \in 1 .. MAX
      PROVE  /\ \A kind \in {"none", "data", "game"} : [vmu.dir[slot] EXCEPT !.kind = kind] \in VmuEntries
             /\ \A first \in 0 .. VmuBlocks : [vmu.dir[slot] EXCEPT !.first = first] \in VmuEntries
             /\ \A count \in 0 .. VmuBlocks : [vmu.dir[slot] EXCEPT !.count = count] \in VmuEntries
  <2>1. vmu.dir[slot] \in VmuEntries
    BY <1>k
  <2>2. \A n \in 0 .. VmuBlocks : n \in Int
    BY <1>2
  <2> QED BY <2>1, <2>2 DEF VmuEntries, VmuKinds
<1>6. ASSUME NEW slot \in 1 .. MAX, NEW kind \in {"none", "data", "game"}, new = [vmu EXCEPT !.dir[slot].kind = kind]
      PROVE  VmuTyped(new)
  <2>1. new = [vmu EXCEPT !.dir[slot] = [vmu.dir[slot] EXCEPT !.kind = kind]]
    BY <1>6
  <2> QED BY <2>1, <1>4, <1>5
<1>7. ASSUME NEW slot \in 1 .. MAX, NEW first \in 0 .. VmuBlocks, new = [vmu EXCEPT !.dir[slot].first = first]
      PROVE  VmuTyped(new)
  <2>1. new = [vmu EXCEPT !.dir[slot] = [vmu.dir[slot] EXCEPT !.first = first]]
    BY <1>7
  <2> QED BY <2>1, <1>4, <1>5
<1>8. ASSUME NEW slot \in 1 .. MAX, NEW count \in 0 .. VmuBlocks, new = [vmu EXCEPT !.dir[slot].count = count]
      PROVE  VmuTyped(new)
  <2>1. new = [vmu EXCEPT !.dir[slot] = [vmu.dir[slot] EXCEPT !.count = count]]
    BY <1>8
  <2> QED BY <2>1, <1>4, <1>5
<1> QED BY <1>2, <1>3, <1>6, <1>7, <1>8, VmuChains DEF Vmu!Damaged
\* What the crate builds of saves that fit, with a mini-game there is one of in
\* the first blocks.
LEMMA VmuBuildIs ==
  ASSUME "vmu" \in Formats, NEW saves \in Seq(SavesOf("vmu")), Vmu!Fits(saves)
  PROVE  /\ VmuWhole(Vmu!build(saves, "own").card)
         /\ Vmu!parse(Vmu!build(saves, "own").card) = [ok |-> TRUE, saves |-> saves]
         /\ Vmu!RunsInPlace(Vmu!build(saves, "own").card)
<1> DEFINE n == Len(saves)
           order == Vmu!Placed(saves)
           lengths == Vmu!Lengths(saves, order)
           place == [k \in 1 .. n |-> CHOOSE i \in DOMAIN order : order[i] = k]
           vmu == Vmu!build(saves, "own").card
           t == Packed(lengths, VmuBlocks)
           d == Filled(Joined(DataOf(saves, order)), VmuBlocks, 0)
           first == VmuFirst(vmu)
<1>0. VmuBlocks \in Nat /\ MAX \in Nat /\ Sizes["vmu"] = VmuBlocks
  BY VmuBlocksAre
<1>1. n \in Nat /\ DOMAIN saves = 1 .. n
  OBVIOUS
<1>s. \A k \in 1 .. n : /\ saves[k] = [system |-> "vmu", name |-> saves[k].name, kind |-> saves[k].kind,
                                       data |-> saves[k].data]
                        /\ saves[k].data \in Seq(Nat) /\ saves[k].data # <<>>
                        /\ saves[k].name \in Nat /\ saves[k].kind \in VmuKinds
  <2> SUFFICES ASSUME NEW k \in 1 .. n
               PROVE  /\ saves[k] = [system |-> "vmu", name |-> saves[k].name, kind |-> saves[k].kind,
                                     data |-> saves[k].data]
                      /\ saves[k].data \in Seq(Nat) /\ saves[k].data # <<>>
                      /\ saves[k].name \in Nat /\ saves[k].kind \in VmuKinds
    OBVIOUS
  <2>1. saves[k] \in SavesOf("vmu")
    BY <1>1
  <2>2. saves[k].data # <<>>
    BY <1>1 DEF Vmu!Fits
  <2> QED BY <2>1, <2>2 DEF SavesOf, VmuKinds
<1>2. /\ order \in Seq(1 .. n) /\ DOMAIN order = 1 .. Len(order)
      /\ \A k \in 1 .. n : \E i \in 1 .. Len(order) : order[i] = k
      /\ \A i, j \in 1 .. Len(order) : order[i] = order[j] => i = j
  <2>1. order \in Seq(1 .. n)
    BY PlacedIs
  <2> DEFINE D == 1 .. n
  <2>2. order \in Seq(D)
    BY <2>1
  <2> HIDE DEF D, order
  <2>3. DOMAIN order = 1 .. Len(order)
    BY <2>2
  <2> QED BY <2>1, <2>3, PlacedIs DEF order
<1>3. lengths = LengthsOf(DataOf(saves, order)) /\ DataOf(saves, order) = [i \in DOMAIN order |-> saves[order[i]].data]
  <2>1. DataOf(saves, order) = [i \in DOMAIN order |-> saves[order[i]].data]
    BY DEF DataOf
  <2>2. lengths = [i \in DOMAIN order |-> Len(saves[order[i]].data)]
    BY DEF Vmu!Lengths
  <2> HIDE DEF order, lengths
  <2> QED BY <2>1, <2>2 DEF LengthsOf
<1>4. n <= MAX /\ Total(lengths) <= VmuBlocks
  BY <1>0, VmuChains DEF Vmu!Fits
<1>5. vmu = [root |-> "own", fat |-> t,
             dir |-> [slot \in 1 .. MAX |->
               IF slot \in 1 .. n
               THEN [kind |-> saves[slot].kind, name |-> saves[slot].name,
                     first |-> StartsAt(lengths, place[slot]), count |-> Len(saves[slot].data)]
               ELSE Vmu!NoEntry],
             data |-> d]
  <2>1. vmu = [root |-> "own", fat |-> Vmu!Packed(lengths, Sizes["vmu"]),
               dir |-> [slot \in 1 .. MAX |->
                 IF slot \in DOMAIN saves
                 THEN [kind |-> saves[slot].kind, name |-> saves[slot].name,
                       first |-> Vmu!StartsAt(lengths, CHOOSE i \in DOMAIN order : order[i] = slot),
                       count |-> Len(saves[slot].data)]
                 ELSE Vmu!NoEntry],
               data |-> Vmu!Filled(Vmu!Joined([i \in DOMAIN order |-> saves[order[i]].data]), Sizes["vmu"], 0)]
    BY DEF Vmu!build
  <2>2. t = Vmu!Packed(lengths, Sizes["vmu"])
    BY <1>0, VmuChains
  <2>3. d = Vmu!Filled(Vmu!Joined([i \in DOMAIN order |-> saves[order[i]].data]), Sizes["vmu"], 0)
    BY <1>0, <1>3, VmuChains
  <2>4. \A slot \in 1 .. n : place[slot] = CHOOSE i \in DOMAIN order : order[i] = slot
    OBVIOUS
  <2> HIDE DEF t, d, lengths, place, order, vmu, n
  <2>5. \A slot \in 1 .. n : Vmu!StartsAt(lengths, CHOOSE i \in DOMAIN order : order[i] = slot)
                               = StartsAt(lengths, place[slot])
    BY <2>4, VmuChains
  <2> QED BY <2>1, <2>2, <2>3, <2>5, <1>1
<1>6. ASSUME NEW k \in 1 .. n PROVE place[k] \in 1 .. Len(order) /\ order[place[k]] = k
  <2>1. \E i \in DOMAIN order : order[i] = k
    BY <1>2
  <2> HIDE DEF order
  <2> QED BY <2>1, <1>2
<1>p. vmu = Vmu!build(saves, "own").card /\ first = VmuFirst(vmu) /\ n = Len(saves) /\ order = Vmu!Placed(saves)
  OBVIOUS
<1>t. t = Packed(lengths, VmuBlocks) /\ d = Filled(Joined(DataOf(saves, order)), VmuBlocks, 0)
  OBVIOUS
<1> HIDE DEF n, lengths, order, place, vmu, t, d, first
<1>7. \A k \in 1 .. n : k \in 1 .. MAX
  BY <1>0, <1>1, <1>4
<1>8. ASSUME NEW k \in 1 .. n
      PROVE  /\ first[k] = StartsAt(lengths, place[k]) /\ vmu.dir[k].first = first[k]
             /\ vmu.dir[k].name = saves[k].name /\ vmu.dir[k].kind = saves[k].kind
             /\ vmu.dir[k].count = Len(saves[k].data)
  <2>1. vmu.dir[k] = [kind |-> saves[k].kind, name |-> saves[k].name,
                      first |-> StartsAt(lengths, place[k]), count |-> Len(saves[k].data)]
    BY <1>5, <1>7
  <2>2. first[k] = vmu.dir[k].first
    BY <1>7, <1>p DEF VmuFirst
  <2> QED BY <2>1, <2>2
<1>9. Ordered(order, saves, place)
  BY <1>2, <1>6, <1>p DEF Ordered
<1>10. Anew(VmuBlocks, Nat, saves, lengths, place, t, d, first)
  <2>1. \A k \in 1 .. n : saves[k].data \in Seq(Nat) /\ saves[k].data # <<>>
    BY <1>s
  <2>2. \A k \in 1 .. n : first[k] = StartsAt(lengths, place[k])
    BY <1>8
  <2>3. Anew(VmuBlocks, Nat, saves, lengths, place, Packed(lengths, VmuBlocks),
             Filled(Joined(DataOf(saves, order)), VmuBlocks, 0), first)
    BY ZenonT(60), <2>1, <2>2, <1>0, <1>1, <1>3, <1>4, <1>9, <1>p, AnewIs
  <2> QED BY <2>3, <1>t
<1>11. /\ LaidOut(VmuBlocks, t, 1 .. n, first) /\ d \in [1 .. VmuBlocks -> Nat]
       /\ \A k \in 1 .. n : /\ Content(t, d, first[k]) = saves[k].data
                            /\ Len(Chain(t, first[k])) = Len(saves[k].data)
                            /\ Chain(t, first[k]) = Piece(lengths, place[k])
  BY <1>10, <1>p DEF Anew
<1>12. t \in [1 .. VmuBlocks -> Int]
  <2>1. t \in [1 .. VmuBlocks -> Links(VmuBlocks)]
    BY <1>11 DEF LaidOut
  <2> QED BY <2>1, <1>0 DEF Links, CHAIN_END, FREE
<1>13. vmu.dir \in [1 .. MAX -> VmuEntries]
  <2>1. Vmu!NoEntry \in VmuEntries
    BY DEF Vmu!NoEntry, VmuEntries
  <2>2. ASSUME NEW k \in 1 .. n
        PROVE  [kind |-> saves[k].kind, name |-> saves[k].name,
                first |-> StartsAt(lengths, place[k]), count |-> Len(saves[k].data)] \in VmuEntries
    <3>1. first[k] \in 1 .. VmuBlocks
      BY <1>11 DEF LaidOut
    <3>2. first[k] \in Int
      BY <3>1, <1>0
    <3>3. saves[k].data \in Seq(Nat) /\ saves[k].name \in Nat /\ saves[k].kind \in VmuKinds
      BY <1>s
    <3>4. StartsAt(lengths, place[k]) = first[k] /\ Len(saves[k].data) \in Int
      BY <3>3, <1>8
    <3> QED BY <3>2, <3>3, <3>4 DEF VmuEntries
  <2> QED BY <2>1, <2>2, <1>5
<1>14. VmuTyped(vmu) /\ vmu.fat = t /\ vmu.data = d
  BY <1>5, <1>11, <1>12, <1>13 DEF VmuTyped
<1>15. VmuUsed(vmu) = 1 .. n /\ \A s \in 1 .. MAX : vmu.dir[s] = Vmu!NoEntry \/ s \in 1 .. n
  <2>1. \A k \in 1 .. n : vmu.dir[k].kind # "none"
    BY <1>8, <1>s DEF VmuKinds
  <2>2. ASSUME NEW k \in 1 .. MAX, k \notin 1 .. n PROVE vmu.dir[k] = Vmu!NoEntry
    BY <2>2, <1>5
  <2>3. Vmu!NoEntry.kind = "none"
    BY DEF Vmu!NoEntry
  <2> QED BY <2>1, <2>2, <2>3, <1>7 DEF VmuUsed
<1>16. VmuWhole(vmu)
  <2>1. \A s \in 1 .. n : vmu.dir[s].count = Len(Chain(t, first[s]))
    BY <1>8, <1>11
  <2> QED BY <2>1, <1>11, <1>14, <1>15, <1>p DEF VmuWhole
<1> DEFINE rec == VmuSave(vmu)
<1>17. Vmu!parse(vmu) = [ok |-> TRUE, saves |-> Listing(MAX, 1 .. n, rec)]
  <2>1. Vmu!parse(vmu) = [ok |-> TRUE, saves |-> Listing(MAX, VmuUsed(vmu), VmuSave(vmu))]
    BY <1>16, VmuWholeIs
  <2> QED BY <2>1, <1>15
<1>18. ASSUME NEW k \in 1 .. n PROVE rec[k] = saves[k]
  <2>1. rec[k] = [system |-> "vmu", name |-> vmu.dir[k].name, kind |-> vmu.dir[k].kind,
                  data |-> Content(vmu.fat, vmu.data, vmu.dir[k].first)]
    BY <1>7 DEF VmuSave
  <2>2. Content(vmu.fat, vmu.data, vmu.dir[k].first) = saves[k].data
    BY <1>8, <1>11, <1>14
  <2> HIDE DEF rec
  <2> QED BY <2>1, <2>2, <1>8, <1>s
<1> HIDE DEF rec
<1>19. Listing(MAX, 1 .. n, rec) = saves
  BY <1>0, <1>1, <1>4, <1>18, <1>p, ListedAnew
<1>20. Vmu!RunsInPlace(vmu)
  <2> SUFFICES ASSUME NEW s \in 1 .. MAX, Vmu!GamesOf(vmu) = {s}
               PROVE  Chain(t, vmu.dir[s].first) = [i \in 1 .. vmu.dir[s].count |-> i]
    BY <1>14, VmuChains DEF Vmu!RunsInPlace
  <2> DEFINE games == {k \in 1 .. n : saves[k].kind = "game"}
             a == InOrder(n, games)
  <2>1. s \in 1 .. n
    <3>1. vmu.dir[s].kind = "game"
      BY DEF Vmu!GamesOf
    <3> QED BY <3>1, <1>15 DEF Vmu!NoEntry
  <2>2. games = {s}
    <3>1. \A k \in 1 .. n : k \in Vmu!GamesOf(vmu) <=> saves[k].kind = "game"
      BY <1>7, <1>8 DEF Vmu!GamesOf
    <3> QED BY <2>1, <3>1
  <2>3. Ascends(a, n, games)
    BY <1>1, InOrderIs
  <2>4. order = a \o InOrder(n, 1 .. n \ games)
    BY <1>1, <1>p, VmuChains DEF Vmu!Placed
  <2>5. Ascends(InOrder(n, 1 .. n \ games), n, 1 .. n \ games)
    BY <1>1, InOrderIs
  <2> HIDE DEF a, games
  <2>6. order[1] = s /\ 1 \in 1 .. Len(order)
    <3> DEFINE D == 1 .. n
    <3>1. a \in Seq(D) /\ InOrder(n, 1 .. n \ games) \in Seq(D)
      BY <2>3, <2>5 DEF Ascends
    <3>2. PICK i \in 1 .. Len(a) : a[i] = s
      BY <2>1, <2>2, <2>3 DEF Ascends
    <3> HIDE DEF D
    <3>3. 1 \in 1 .. Len(a)
      BY <3>1
    <3>4. a[1] = s
      BY <3>3, <2>2, <2>3 DEF Ascends
    <3> QED BY <3>1, <3>3, <3>4, <2>4
  <2>7. place[s] = 1
    BY <2>1, <2>6, <1>2, <1>6
  <2>8. lengths[1] = Len(saves[s].data) /\ lengths \in Seq(Nat) /\ 1 \in 1 .. Len(lengths)
    <3>1. lengths = [i \in 1 .. Len(order) |-> Len(saves[order[i]].data)]
      BY <1>2, <1>3 DEF LengthsOf
    <3>2. ASSUME NEW i \in 1 .. Len(order) PROVE Len(saves[order[i]].data) \in Nat
      <4> DEFINE D == 1 .. n
      <4>1. order \in Seq(D)
        BY <1>2
      <4> HIDE DEF D
      <4>2. order[i] \in D
        BY <4>1
      <4>3. saves[order[i]].data \in Seq(Nat)
        BY <4>2, <1>s DEF D
      <4> QED BY <4>3
    <3>3. Len(order) \in Nat
      BY <1>2
    <3>4. lengths \in [1 .. Len(order) -> Nat]
      BY <3>1, <3>2
    <3>5. lengths \in Seq(Nat) /\ Len(lengths) = Len(order)
      BY <3>3, <3>4, ListOf
    <3> QED BY <3>1, <3>5, <2>6
  <2>9. StartsAt(lengths, 1) = 1
    <3>1. Summed(lengths)[0] = 0
      BY <2>8, SummedIsThere
    <3> QED BY <3>1 DEF StartsAt
  <2>10. Chain(t, first[s]) = [i \in 1 .. lengths[1] |-> StartsAt(lengths, 1) + i - 1]
    BY <2>1, <2>7, <1>11 DEF Piece
  <2>11. \A i \in 1 .. lengths[1] : StartsAt(lengths, 1) + i - 1 = i
    <3> DEFINE m == lengths[1]
               b == StartsAt(lengths, 1)
    <3>1. m \in Nat /\ b = 1
      BY <2>8, <2>9
    <3> HIDE DEF m, b
    <3>2. \A i \in 1 .. m : b + i - 1 = i
      BY <3>1
    <3> QED BY <3>2, Zenon DEF m, b
  <2>12. vmu.dir[s].first = first[s] /\ vmu.dir[s].count = lengths[1]
    BY <2>1, <2>8, <1>8
  <2> DEFINE m == lengths[1]
             b == StartsAt(lengths, 1)
  <2>13. Chain(t, first[s]) = [i \in 1 .. m |-> b + i - 1] /\ \A i \in 1 .. m : b + i - 1 = i
    BY <2>10, <2>11
  <2>14. vmu.dir[s].count = m
    BY <2>12
  <2> HIDE DEF m, b
  <2>15. Chain(t, first[s]) = [i \in 1 .. m |-> i]
    BY <2>13
  <2> QED BY <2>12, <2>14, <2>15
<1> QED BY <1>16, <1>17, <1>19, <1>20, <1>p

LEMMA VmuBlankIs ==
  ASSUME "vmu" \in Formats
  PROVE  Vmu!Fits(<<>>) /\ Vmu!Blank("own") = Vmu!build(<<>>, "own").card
<1> DEFINE order == Vmu!Placed(<<>>)
<1>1. order = <<>> /\ DOMAIN <<>> = {} /\ Len(<<>>) = 0
  <2>1. order \in Seq(1 .. 0)
    <3>1. <<>> \in Seq({}) /\ Len(<<>>) = 0
      OBVIOUS
    <3> QED BY <3>1, PlacedIs
  <2>2. order = <<>>
    <3> HIDE DEF order
    <3>1. \A i \in 1 .. Len(order) : order[i] \in 1 .. 0
      BY <2>1
    <3>2. Len(order) \in Nat /\ ~(1 \in 1 .. Len(order))
      BY <2>1, <3>1
    <3> QED BY <2>1, <3>2
  <2> QED BY <2>2
<1> HIDE DEF order
<1>2. Vmu!Lengths(<<>>, order) = <<>>
  BY <1>1 DEF Vmu!Lengths
<1>3. Total(<<>>) = 0 /\ Joined(<<>>) = <<>>
  BY TotalEmpty, JoinedEmpty
<1>4. Sizes["vmu"] \in Nat /\ MAX \in Nat
  BY SizesAssumption
<1>5. Vmu!Fits(<<>>)
  BY <1>1, <1>2, <1>3, <1>4, VmuChains DEF Vmu!Fits, order
<1>6. [i \in DOMAIN order |-> <<>>[order[i]].data] = <<>>
  BY <1>1
<1>7. Vmu!build(<<>>, "own").card =
        [root |-> "own",
         fat |-> Vmu!Packed(Vmu!Lengths(<<>>, order), Sizes["vmu"]),
         dir |-> [slot \in 1 .. MAX |->
           IF slot \in DOMAIN <<>>
           THEN [kind |-> <<>>[slot].kind, name |-> <<>>[slot].name,
                 first |-> Vmu!StartsAt(Vmu!Lengths(<<>>, order), CHOOSE i \in DOMAIN order : order[i] = slot),
                 count |-> Len(<<>>[slot].data)]
           ELSE Vmu!NoEntry],
         data |-> Vmu!Filled(Vmu!Joined([i \in DOMAIN order |-> <<>>[order[i]].data]), Sizes["vmu"], 0)]
  BY DEF Vmu!build, order
<1>8. Vmu!Joined([i \in DOMAIN order |-> <<>>[order[i]].data]) = <<>>
  BY <1>3, <1>6, VmuChains
<1> HIDE DEF order
<1>9. Vmu!build(<<>>, "own").card =
        [root |-> "own", fat |-> Vmu!Packed(<<>>, Sizes["vmu"]),
         dir |-> [slot \in 1 .. MAX |-> Vmu!NoEntry],
         data |-> Vmu!Filled(<<>>, Sizes["vmu"], 0)]
  BY <1>1, <1>2, <1>7, <1>8
<1> QED BY <1>5, <1>9 DEF Vmu!Blank
=============================================================================
