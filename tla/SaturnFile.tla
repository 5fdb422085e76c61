------------------------------ MODULE SaturnFile ------------------------------
(***************************************************************************)
(* A Saturn volume in the file it came in (crates/saturn-backup and        *)
(* one-saves-convert/src/card/saturn.rs): packed, or each byte behind a    *)
(* filler, and either of them in a gzip member. And the file of the        *)
(* console's clock beside it. SaturnVolume has a volume's blocks; here one *)
(* is its size, its block and how long its saves are, in bytes.            *)
(***************************************************************************)
EXTENDS Integers, Sequences, FiniteSets, SequencesExt

CONSTANTS
    Odd,           \* volumes of sizes the backup library does not lay out
    Data,          \* how long saves are
    MaxSaves

None == << >>
Refused == <<"refused", "">>
VARIABLES
    dump,          \* the file: [gzip, wide, size, block, saves]
    stated,        \* the socket the caller says it is from, or "none"
    bundle,        \* what it was read into
    volume,        \* the file that was written back as
    smpc           \* the clock's file: [valid, year, month, day, second]

saturnVars == <<dump, stated, bundle, volume, smpc>>

-----------------------------------------------------------------------------
FIRST_DATA_BLOCK == 2
MIN_BLOCK == 64
BLOCK_SIZES == {64, 128, 256, 512, 1024, 2048}
GEOMETRIES == {<<32768, 64>>, <<524288, 512>>, <<1048576, 512>>, <<2097152, 512>>, <<4194304, 1024>>}
INTERNAL == <<32768, 64>>
MAX_INFLATED == 2 * 4194304

IsLaidOut(size, block) == block >= MIN_BLOCK /\ size % block = 0 /\ size \div block > FIRST_DATA_BLOCK
data_capacity(size, block) == size - FIRST_DATA_BLOCK * block
IsPowerOfTwo(n) == \E e \in 0 .. 23 : n = 2 ^ e
for_data_capacity(bytes) ==
    LET found == {block \in BLOCK_SIZES :
                    bytes > 0 /\ bytes % block = 0 /\ IsPowerOfTwo(bytes + FIRST_DATA_BLOCK * block)}
    IN IF Cardinality(found) # 1 THEN None
       ELSE LET block == CHOOSE b \in found : TRUE IN <<bytes + FIRST_DATA_BLOCK * block, block>>

(* The entry, the list of blocks with the zero that ends it, and the save. *)
blocks_for(block, data) ==
    CHOOSE n \in 1 .. 1 + (30 + data) \div (block - 6) :
        n * (block - 4) >= 30 + 2 * n + data /\ (n = 1 \/ (n - 1) * (block - 4) < 30 + 2 * (n - 1) + data)
Used(block, saves) == FoldLeft(LAMBDA sum, data : sum + blocks_for(block, data), 0, saves)

(* A member is inflated, no further than any volume goes, and then the filler goes. *)
Stored(found) == IF found.wide THEN 2 * found.size ELSE found.size
inflate(found) == ~found.gzip \/ Stored(found) <= MAX_INFLATED
parse(found) ==
    IF inflate(found) /\ IsLaidOut(found.size, found.block) THEN <<[found EXCEPT !.gzip = FALSE, !.wide = FALSE]>> ELSE Refused
detect(found) == parse(found) # Refused

(* Which memory it is shows in its layout; a caller who names the socket wins. *)
role(found) ==
    IF stated # "none" THEN stated ELSE IF <<found.size, found.block>> = INTERNAL THEN "internal" ELSE "ram-cart"
card_image(found) == found
read(found) ==
    LET card == parse(found)
    IN IF card = Refused THEN Refused
       ELSE <<[role |-> role(found), capacity |-> data_capacity(found.size, found.block), area |-> <<found.block>>,
               saves |-> found.saves, image |-> IF found.saves = << >> THEN <<card_image(found)>> ELSE None]>>

(* The reserved region says how large a block is; without one, the capacity has to. *)
Geometry(card) ==
    LET laid == IF card.area = None THEN for_data_capacity(card.capacity)
                ELSE <<card.capacity + FIRST_DATA_BLOCK * card.area[1], card.area[1]>>
    IN IF laid \in GEOMETRIES THEN laid ELSE None
build(size, block, saves) ==
    IF Used(block, saves) > size \div block - FIRST_DATA_BLOCK THEN Refused
    ELSE <<[gzip |-> FALSE, wide |-> FALSE, size |-> size, block |-> block, saves |-> saves]>>
write(card) ==
    IF card.image # None THEN card.image
    ELSE IF Geometry(card) = None THEN Refused
    ELSE build(Geometry(card)[1], Geometry(card)[2], card.saves)

-----------------------------------------------------------------------------
(* The clock's file: twelve bytes, BCD, kept as they are and decoded on asking. *)

bcd(byte) == (byte \div 16) * 10 + (byte % 16)
Coded(n) == (n \div 10) * 16 + (n % 10)
days_from_civil(year, month, day) ==
    LET counted == IF month <= 2 THEN year - 1 ELSE year
        era == counted \div 400
        year_of_era == counted - era * 400
        day_of_year == (153 * (month + (IF month > 2 THEN -3 ELSE 9)) + 2) \div 5 + day - 1
    IN era * 146097 + year_of_era * 365 + year_of_era \div 4 - year_of_era \div 100 + day_of_year - 719468
(* The day, and the second of it. *)
read_at(file) ==
    LET month == file.month % 16
        day == bcd(file.day)
    IN IF ~file.valid \/ month \notin 1 .. 12 \/ day \notin 1 .. 31 THEN None
       ELSE <<days_from_civil(100 * bcd(file.century) + bcd(file.year), month, day), file.second>>

-----------------------------------------------------------------------------
(* What the emulators keep (external): any volume they make, in any of the   *)
(* forms, or a clock that runs, which has nothing to do with the volume.     *)

Volumes == GEOMETRIES \cup Odd
Fits(size, block, saves) == Used(block, saves) <= size \div block - FIRST_DATA_BLOCK
Clock(valid, year, month, day, second) ==
    [valid |-> valid, century |-> Coded(year \div 100), year |-> Coded(year % 100), month |-> month, day |-> Coded(day),
     second |-> second]
SaturnInit ==
    /\ dump \in {[gzip |-> gzip, wide |-> wide, size |-> v[1], block |-> v[2], saves |-> << >>] :
                   gzip \in BOOLEAN, wide \in BOOLEAN, v \in Volumes}
    /\ stated \in {"none", "ram-cart"}
    /\ bundle = None /\ volume = None
    /\ smpc \in {Clock(FALSE, 1994, 1, 1, 0)} \cup {Clock(TRUE, year, 2, 28, 0) : year \in {1996, 1999, 2000, 2100}}
    /\ smpc.valid => dump.wide /\ dump.gzip /\ <<dump.size, dump.block>> = INTERNAL
Save ==
    /\ bundle = None /\ Len(dump.saves) < MaxSaves /\ ~smpc.valid
    /\ \E data \in Data :
         /\ Fits(dump.size, dump.block, Append(dump.saves, data))
         /\ dump' = [dump EXCEPT !.saves = Append(@, data)]
    /\ UNCHANGED <<stated, bundle, volume, smpc>>
Convert == bundle = None /\ ~smpc.valid /\ bundle' = read(dump) /\ UNCHANGED <<dump, stated, volume, smpc>>
(* Another producer's bundle, which keeps no reserved region. *)
Elsewhere ==
    /\ bundle \notin {None, Refused} /\ volume = None
    /\ bundle' = <<[bundle[1] EXCEPT !.area = None]>>
    /\ UNCHANGED <<dump, stated, volume, smpc>>
Extract ==
    /\ bundle \notin {None, Refused} /\ volume = None
    /\ volume' = write(bundle[1])
    /\ UNCHANGED <<dump, stated, bundle, smpc>>
DaysIn(year, month) ==
    IF month = 2 THEN IF year % 4 = 0 /\ (year % 100 # 0 \/ year % 400 = 0) THEN 29 ELSE 28
    ELSE IF month \in {4, 6, 9, 11} THEN 30 ELSE 31
Tick ==
    /\ smpc.valid
    /\ LET year == 100 * bcd(smpc.century) + bcd(smpc.year)
           day == bcd(smpc.day)
           last == day = DaysIn(year, smpc.month)
       IN /\ year \notin {1998, 2003, 2102}
          /\ smpc' = IF smpc.second = 0 THEN [smpc EXCEPT !.second = 86399]
                     ELSE IF ~last THEN Clock(TRUE, year, smpc.month, day + 1, 0)
                     ELSE IF smpc.month < 12 THEN Clock(TRUE, year, smpc.month + 1, 1, 0)
                     ELSE Clock(TRUE, year + 1, 1, 1, 0)
    /\ UNCHANGED <<dump, stated, bundle, volume>>
SaturnNext == Save \/ Convert \/ Elsewhere \/ Extract \/ Tick
SaturnSpec == SaturnInit /\ [][SaturnNext]_saturnVars

-----------------------------------------------------------------------------
SaturnTypeOK == Len(bundle) <= 2 /\ Len(volume) <= 2 /\ dump.block \in BLOCK_SIZES

(* Every volume an emulator keeps is read, in every form, and what is written is  *)
(* it again: of the sizes the backup library lays out, with the same blocks and   *)
(* saves, whether or not the bundle kept the reserved region; and one of no saves *)
(* is the file it came in.                                                        *)
VolumeComesBack ==
    /\ ~detect(dump) => bundle \in {None, Refused}
    /\ bundle # None /\ <<dump.size, dump.block>> \in GEOMETRIES => bundle # Refused
    /\ volume # None =>
         IF dump.saves = << >> THEN volume = <<dump>>
         ELSE <<dump.size, dump.block>> \in GEOMETRIES => volume = parse(dump)

(* Of a step: the clock read off its file goes on as the console's calendar     *)
(* does, through the turn of a month, a leap day and a century.                 *)
ClockGoesOn ==
    smpc' # smpc =>
        LET before == read_at(smpc)
            after == read_at(smpc')
        IN 86400 * (after[1] - before[1]) + after[2] - before[2] = IF smpc.second = 0 THEN 86399 ELSE 1
================================================================================
