------------------------------ MODULE ChipClocks ------------------------------
(***************************************************************************)
(* The clocks cartridges keep, as a bundle's x.1sav.rtc keys say them      *)
(* (crates/one-saves/src/extension/rtc.rs and rtc/*.rs): each chip's       *)
(* registers, what they are written as in CBOR, what is read back, and the *)
(* instant they stand for.                                                 *)
(*                                                                         *)
(* An instant is its day since 1970 and its second of the day.             *)
(***************************************************************************)
EXTENDS ExtensionTypes

CONSTANTS
    Shown,      \* what each chip may show when the model starts
    WINDOW      \* the addresses of a HuC-3, 256 of them

VARIABLES
    chip,       \* which chip it is
    shown,      \* what its hardware shows: a date, or what it has counted
    style,      \* how it counts hours
    holds,      \* its registers
    taken,      \* what it showed when a producer took them
    wire,       \* the CBOR of the chip's key
    read,       \* what reading it gave: << >> when it is not what the key's schema says
    step        \* how far the key is: none, taken, written by another, or read

chipVars == <<chip, shown, style, holds, taken, wire, read, step>>

(* The registers of each chip. *)
Bytes8 == 0 .. 255
Nybbles == 0 .. 15
Instants == Int \X (0 .. 86399)
RtcMbc3 == [live : [1 .. 5 -> Nat], latched : Maybe([1 .. 5 -> Nat]), at : Instants, width : Maybe({4, 8})]
RtcHuc3 == [memory : [1 .. WINDOW -> Maybe(Nybbles)], at : Maybe(Instants), seconds : Maybe(0 .. 59)]
RtcS3511a == [components : [1 .. 7 -> Bytes8], control : Bytes8, at : Maybe(Instants), alarm : Maybe(Maybe([1 .. 2 -> Bytes8]))]
RtcJoybus == [control : [1 .. 8 -> Bytes8], ram : [1 .. 8 -> Bytes8], time : [1 .. 8 -> Bytes8], at : Maybe(Instants)]
RtcSrtc == [registers : [1 .. 13 -> Nybbles], at : Maybe(Instants)]
RtcRtc4513 == [registers : [1 .. 16 -> Nybbles], at : Maybe(Instants)]
RtcTc8521 == [blocks : [1 .. 4 -> [1 .. 13 -> Maybe(Nybbles)]], mode : Maybe(Nybbles), at : Maybe(Instants)]
RtcTpp1 == [live : [1 .. 4 -> Bytes8], latched : Maybe([1 .. 4 -> Bytes8]), status : {0, 4, 8, 12}, at : Maybe(Instants)]
Registers ==
    CASE chip = "mbc3" -> RtcMbc3 [] chip = "huc3" -> RtcHuc3 [] chip = "s3511a" -> RtcS3511a [] chip = "joybus" -> RtcJoybus
      [] chip = "srtc" -> RtcSrtc [] chip = "rtc4513" -> RtcRtc4513 [] chip = "tc8521" -> RtcTc8521 [] chip = "tpp1" -> RtcTpp1

Chips == {"mbc3", "huc3", "s3511a", "joybus", "srtc", "rtc4513", "tc8521", "tpp1"}
Counting == {"mbc3", "huc3", "tpp1"}

-----------------------------------------------------------------------------
(* Digits, bits and dates. *)
Low(n, bits) == n % 2 ^ bits
Bit(n, k) == (n \div 2 ^ k) % 2 = 1
On(bit, k) == IF bit THEN 2 ^ k ELSE 0

digits(tens, ones) == IF tens <= 9 /\ ones <= 9 THEN <<10 * tens + ones>> ELSE None
from_bcd(byte) == digits(byte \div 16, byte % 16)
hour_from_12(hour, pm) == IF hour <= 12 THEN <<(hour % 12) + (IF pm THEN 12 ELSE 0)>> ELSE None

Leap(year) == year % 4 = 0 /\ (year % 100 # 0 \/ year % 400 = 0)
days_in_month(leap, month) ==
    CASE month = 2 -> IF leap THEN 29 ELSE 28
      [] month \in {4, 6, 9, 11} -> 30
      [] OTHER -> 31
days_from_civil(of, month, day) ==
    LET year == IF month <= 2 THEN of - 1 ELSE of
        era == year \div 400
        year_of_era == year - era * 400
        day_of_year == (153 * (IF month > 2 THEN month - 3 ELSE month + 9) + 2) \div 5 + day - 1
    IN era * 146097 + year_of_era * 365 + year_of_era \div 4 - year_of_era \div 100 + day_of_year - 719468
civil_from_days(since) ==
    LET days == since + 719468
        era == days \div 146097
        day_of_era == days - era * 146097
        year_of_era == (day_of_era - day_of_era \div 1460 + day_of_era \div 36524 - day_of_era \div 146096) \div 365
        day_of_year == day_of_era - (365 * year_of_era + year_of_era \div 4 - year_of_era \div 100)
        index == (5 * day_of_year + 2) \div 153
        month == IF index < 10 THEN index + 3 ELSE index - 9
    IN <<year_of_era + era * 400 + (IF month <= 2 THEN 1 ELSE 0), month, day_of_year - (153 * index + 2) \div 5 + 1>>

elapsed(days, hours, minutes, seconds) == <<days, hours * 3600 + minutes * 60 + seconds>>
utc(year, month, day, hour, minute, second) ==
    IF /\ month \in 1 .. 12 /\ day \in 1 .. days_in_month(Leap(year), month)
       /\ hour <= 23 /\ minute <= 59 /\ second <= 59
    THEN <<elapsed(days_from_civil(year, month, day), hour, minute, second)>> ELSE None
(* Of what the registers spell, none of it missing: year, month, day, hour, minute and second. *)
Dated(century, spelled) ==
    IF All(spelled)
    THEN utc(century + spelled[1][1], spelled[2][1], spelled[3][1], spelled[4][1], spelled[5][1], spelled[6][1]) ELSE None

-----------------------------------------------------------------------------
(* What each key keeps of a chip's registers, as a map of its key and back. *)
want_second(value) == want_uint(value, 59)
Read5(value) == want_array(value, 5, LAMBDA item : want_uint(item, 2147483647))
want_width(value) == IF value \in {Uint(4), Uint(8)} THEN <<value[2]>> ELSE None
ReadBlock(value) == want_array(value, 13, LAMBDA register : nullable(register, want_nybble))
ReadAlarm(value) == nullable(value, LAMBDA alarm : want_bytes(alarm, 2))
WriteMbc3(x) ==
    (0 :> array(x.live, Uint)) @@ (1 :> or_null(x.latched, LAMBDA live : array(live, Uint))) @@ (2 :> epoch(x.at)) @@ Optional(3, x.width, Uint)
ReadMbc3(map) ==
    IF ~only_keys(map, 0 .. 3) THEN None
    ELSE Parsed([live |-> Wanted(field(map, 0), Read5), latched |-> Wanted(field(map, 1), LAMBDA value : nullable(value, Read5)),
                 at |-> Wanted(field(map, 2), want_epoch), width |-> Perhaps(map, 3, want_width)])
WriteHuc3(x) == (0 :> array(x.memory, nybble_or_null)) @@ Optional(1, x.at, epoch) @@ (2 :> or_null(x.seconds, Uint))
ReadHuc3(map) ==
    IF ~only_keys(map, 0 .. 2) THEN None
    ELSE Parsed([memory |-> Wanted(field(map, 0), LAMBDA value : want_array(value, WINDOW, LAMBDA item : nullable(item, want_nybble))),
                 at |-> optional_epoch(map, 1), seconds |-> Wanted(field(map, 2), LAMBDA value : nullable(value, want_second))])
WriteS3511a(x) ==
    (0 :> Bytes(x.components)) @@ (1 :> Uint(x.control)) @@ Optional(2, x.at, epoch)
        @@ Optional(3, x.alarm, LAMBDA alarm : or_null(alarm, Bytes))
ReadS3511a(map) ==
    IF ~only_keys(map, 0 .. 3) THEN None
    ELSE Parsed([components |-> Wanted(field(map, 0), LAMBDA value : want_bytes(value, 7)), control |-> Wanted(field(map, 1), want_byte),
                 at |-> optional_epoch(map, 2), alarm |-> Perhaps(map, 3, ReadAlarm)])
WriteJoybus(x) == (0 :> Bytes(x.control)) @@ (1 :> Bytes(x.ram)) @@ (2 :> Bytes(x.time)) @@ Optional(3, x.at, epoch)
ReadJoybus(map) ==
    LET block(key) == Wanted(field(map, key), LAMBDA value : want_bytes(value, 8))
    IN IF ~only_keys(map, 0 .. 3) THEN None
       ELSE Parsed([control |-> block(0), ram |-> block(1), time |-> block(2), at |-> optional_epoch(map, 3)])
WriteRegisters(x) == (0 :> array(x.registers, Uint)) @@ Optional(1, x.at, epoch)
ReadRegisters(map, n) ==
    IF ~only_keys(map, 0 .. 1) THEN None
    ELSE Parsed([registers |-> Wanted(field(map, 0), LAMBDA value : want_array(value, n, want_nybble)), at |-> optional_epoch(map, 1)])
WriteTc8521(x) ==
    (0 :> array(x.blocks, LAMBDA block : array(block, nybble_or_null))) @@ (1 :> nybble_or_null(x.mode)) @@ Optional(2, x.at, epoch)
ReadTc8521(map) ==
    IF ~only_keys(map, 0 .. 2) THEN None
    ELSE Parsed([blocks |-> Wanted(field(map, 0), LAMBDA value : want_array(value, 4, ReadBlock)),
                 mode |-> Wanted(field(map, 1), LAMBDA value : nullable(value, want_nybble)), at |-> optional_epoch(map, 2)])
want_status(value) == LET status == want_byte(value) IN IF status # None /\ status[1] \notin {0, 4, 8, 12} THEN None ELSE status
WriteTpp1(x) == (0 :> Bytes(x.live)) @@ (1 :> or_null(x.latched, Bytes)) @@ (2 :> Uint(x.status)) @@ Optional(3, x.at, epoch)
ReadTpp1(map) ==
    LET registers(value) == want_bytes(value, 4)
    IN IF ~only_keys(map, 0 .. 3) THEN None
       ELSE Parsed([live |-> Wanted(field(map, 0), registers), latched |-> Wanted(field(map, 1), LAMBDA value : nullable(value, registers)),
                    status |-> Wanted(field(map, 2), want_status), at |-> optional_epoch(map, 3)])

to_cbor(x) ==
    CASE chip = "mbc3" -> WriteMbc3(x) [] chip = "huc3" -> WriteHuc3(x) [] chip = "s3511a" -> WriteS3511a(x)
      [] chip = "joybus" -> WriteJoybus(x) [] chip \in {"srtc", "rtc4513"} -> WriteRegisters(x)
      [] chip = "tc8521" -> WriteTc8521(x) [] chip = "tpp1" -> WriteTpp1(x)
try_from(map) ==
    CASE chip = "mbc3" -> ReadMbc3(map) [] chip = "huc3" -> ReadHuc3(map) [] chip = "s3511a" -> ReadS3511a(map)
      [] chip = "joybus" -> ReadJoybus(map) [] chip = "srtc" -> ReadRegisters(map, 13) [] chip = "rtc4513" -> ReadRegisters(map, 16)
      [] chip = "tc8521" -> ReadTc8521(map) [] chip = "tpp1" -> ReadTpp1(map)

-----------------------------------------------------------------------------
(* The instant the registers stand for, and what a line shown of them says: the *)
(* date or the count in the digits they spell. A caller supplies a century.     *)
MINUTES == 17
DAYS == 20
Value(memory, from, length) ==
    LET some == SubSeq(memory, from, from + length - 1)
        sum[i \in 0 .. length] == IF i = 0 THEN 0 ELSE sum[i - 1] + some[i][1] * 16 ^ (i - 1)
    IN IF All(some) THEN <<sum[length]>> ELSE None
Mbc3Days(x) == x.live[4] + 256 * (x.live[5] % 2)
Spelled4513(x) ==
    LET r == x.registers
    IN <<digits(r[12], r[11]), digits(r[10] % 2, r[9]), digits(Low(r[8], 2), r[7]), digits(Low(r[6], 2), r[5]),
         digits(Low(r[4], 3), r[3]), digits(Low(r[2], 3), r[1])>>
Hour24Of4513(x) == Bit(x.registers[16], 2)
calendar(x) == Bit(x.registers[14], 1)
SpelledSrtc(x) ==
    LET r == x.registers
        year == digits(r[11], r[10])
    IN <<IF year = None THEN None ELSE <<1000 + 100 * r[12] + year[1]>>, <<r[9]>>, digits(r[8], r[7]), digits(r[6], r[5]),
         digits(r[4], r[3]), digits(r[2], r[1])>>
Century1900(year, century) == IF century = None \/ year = None THEN None ELSE <<1900 + 100 * century[1] + year[1]>>
SpelledJoybus(x) ==
    LET byte == [i \in 1 .. 8 |-> from_bcd(IF i = 3 THEN Low(x.time[3], 7) ELSE x.time[i])]
    IN <<Century1900(byte[7], byte[8]), byte[6], byte[4], byte[3], byte[2], byte[1]>>
Hour24OfS3511a(x) == Bit(x.control, 6)
SpelledS3511a(x) ==
    LET byte == [i \in 1 .. 7 |-> from_bcd(IF i = 5 THEN Low(x.components[5], 6) ELSE x.components[i])]
    IN <<byte[1], byte[2], byte[3], byte[5], byte[6], byte[7]>>
(* Twelve hours and a flag that says which; a chip counts them from 0 or from 1. *)
AfterNoon(hour, pm) == IF hour # None /\ pm THEN <<(hour[1] % 12) + 12>> ELSE hour
On24(hour, hour24, pm) == IF hour24 \/ hour = None THEN hour ELSE hour_from_12(hour[1], pm)
HOUR24 == 11
LEAP_YEAR == 12
Hour24OfTc8521(x) == x.blocks[2][HOUR24] = None \/ Bit(x.blocks[2][HOUR24][1], 0)
SpelledTc8521(x) ==
    LET time == x.blocks[1]
        Both(tens, ones) == IF time[tens] = None \/ time[ones] = None THEN None ELSE digits(time[tens][1], time[ones][1])
        hours == IF time[6] = None \/ time[5] = None THEN None
                 ELSE digits(IF Hour24OfTc8521(x) THEN time[6][1] ELSE time[6][1] % 2, time[5][1])
    IN <<Both(13, 12), Both(11, 10), Both(9, 8), hours, Both(4, 3), Both(2, 1)>>
PmOfTc8521(x) == x.blocks[1][6] # None /\ Bit(x.blocks[1][6][1], 1)
At24(spelled, hour) == [spelled EXCEPT ![4] = hour]

ReadingMbc3(x) == <<elapsed(Mbc3Days(x), x.live[3], x.live[2], x.live[1])>>
Huc3Days(x) == Value(x.memory, DAYS, 4)
Huc3Minutes(x) == Value(x.memory, MINUTES, 3)
ReadingHuc3(x) ==
    IF Huc3Days(x) = None \/ Huc3Minutes(x) = None THEN None ELSE <<elapsed(Huc3Days(x)[1], 0, Huc3Minutes(x)[1], 0)>>
ReadingTpp1(x) == <<elapsed(x.live[1] * 7 + x.live[2] \div 32, Low(x.live[2], 5), x.live[3], x.live[4])>>
ReadingS3511a(x) ==
    LET spelled == SpelledS3511a(x)
    IN Dated(2000, At24(spelled, AfterNoon(spelled[4], ~Hour24OfS3511a(x) /\ Bit(x.components[5], 7))))
Reading4513(x, century) ==
    LET spelled == Spelled4513(x)
    IN IF calendar(x) THEN Dated(century, At24(spelled, On24(spelled[4], Hour24Of4513(x), Bit(x.registers[6], 2)))) ELSE None
ReadingTc8521(x, century) ==
    LET spelled == SpelledTc8521(x)
    IN Dated(century, At24(spelled, On24(spelled[4], Hour24OfTc8521(x), PmOfTc8521(x))))
reading(x, century) ==
    CASE chip = "mbc3" -> ReadingMbc3(x) [] chip = "huc3" -> ReadingHuc3(x) [] chip = "tpp1" -> ReadingTpp1(x)
      [] chip = "s3511a" -> ReadingS3511a(x) [] chip = "joybus" -> Dated(0, SpelledJoybus(x)) [] chip = "srtc" -> Dated(0, SpelledSrtc(x))
      [] chip = "rtc4513" -> Reading4513(x, century) [] chip = "tc8521" -> ReadingTc8521(x, century)

Digits(spelled, century) == IF All(spelled) THEN <<[i \in 1 .. 6 |-> spelled[i][1] + (IF i = 1 THEN century ELSE 0)]>> ELSE None
ShowMbc3(x) == <<<<Mbc3Days(x), x.live[3], x.live[2], x.live[1]>>>>
ShowHuc3(x) ==
    IF Huc3Days(x) = None \/ Huc3Minutes(x) = None THEN None
    ELSE <<<<Huc3Days(x)[1], Huc3Minutes(x)[1] \div 60, Huc3Minutes(x)[1] % 60>> \o x.seconds>>
ShowTpp1(x) == <<<<x.live[1], x.live[2] \div 32, Low(x.live[2], 5), x.live[3], x.live[4]>>>>
ShowS3511a(x) == IF from_bcd(x.components[4]) = None THEN None ELSE Digits(SpelledS3511a(x), 2000)
ShowJoybus(x) == Digits(SpelledJoybus(x), 0)
ShowSrtc(x) == Digits(SpelledSrtc(x), 0)
Show4513(x) ==
    LET spelled == Spelled4513(x)
    IN Digits(IF calendar(x) /\ All(SubSeq(spelled, 1, 3)) THEN spelled ELSE <<<<0>>, <<0>>, <<0>>>> \o SubSeq(spelled, 4, 6), 0)
ShowTc8521(x) == Digits(SpelledTc8521(x), 0)
fmt(x) ==
    CASE chip = "mbc3" -> ShowMbc3(x) [] chip = "huc3" -> ShowHuc3(x) [] chip = "tpp1" -> ShowTpp1(x) [] chip = "s3511a" -> ShowS3511a(x)
      [] chip = "joybus" -> ShowJoybus(x) [] chip = "srtc" -> ShowSrtc(x) [] chip = "rtc4513" -> Show4513(x) [] chip = "tc8521" -> ShowTc8521(x)

(* What a producer rebuilding its file puts back where its key kept nothing. *)
latched_or_live(x) == IF x.latched = None THEN <<x.live>> ELSE x.latched
POWER_ON_ALARM == <<0, 128>>
DEFAULT_MODE == 8
Or(value, other) == IF value = None THEN <<other>> ELSE value
FilledTc8521(x) ==
    LET zeros == [b \in 1 .. 4 |-> [r \in 1 .. 13 |-> Or(x.blocks[b][r], 0)]]
        time == x.blocks[1]
        year == IF time[13] = None \/ time[12] = None THEN 0 ELSE 10 * time[13][1] + time[12][1]
    IN [x EXCEPT !.blocks = [zeros EXCEPT ![2][HOUR24] = Or(x.blocks[2][HOUR24], 1), ![2][LEAP_YEAR] = Or(x.blocks[2][LEAP_YEAR], year % 4)],
                 !.mode = Or(x.mode, DEFAULT_MODE)]
FilledMbc3(x) == [x EXCEPT !.latched = latched_or_live(x), !.width = Or(@, 8)]
FilledTpp1(x) == [x EXCEPT !.latched = latched_or_live(x)]
FilledHuc3(x) == [x EXCEPT !.memory = [i \in DOMAIN @ |-> Or(@[i], 0)], !.seconds = Or(@, 0)]
alarm_or_power_on(x) == [x EXCEPT !.alarm = IF @ = None \/ @ = <<None>> THEN <<<<POWER_ON_ALARM>>>> ELSE @]
filled(x) ==
    CASE chip = "mbc3" -> FilledMbc3(x) [] chip = "tpp1" -> FilledTpp1(x) [] chip = "huc3" -> FilledHuc3(x)
      [] chip = "s3511a" -> alarm_or_power_on(x) [] chip = "tc8521" -> FilledTc8521(x)
      [] OTHER -> x

(* x.1sav.rtc, the reading any consumer wants, and what the MiSTer cores keep of a HuC-3. *)
WriteRtc(rtc) == (0 :> epoch(rtc.reading)) @@ Optional(1, rtc.accuracy, Uint)
ReadRtc(map) ==
    IF ~only_keys(map, 0 .. 1) THEN None
    ELSE Parsed([reading |-> Wanted(field(map, 0), want_epoch), accuracy |-> Perhaps(map, 1, LAMBDA value : want_uint(value, 2147483647))])
extensions(x, century) ==
    LET at == reading(x, century)
    IN [chip |-> to_cbor(x), rtc |-> IF at = None THEN None ELSE WriteRtc([reading |-> at[1], accuracy |-> None])]
Huc3Clock(x) ==
    [seconds |-> Or(x.seconds, 0)[1], minutes |-> Huc3Minutes(filled(x))[1], days |-> Huc3Days(filled(x))[1], at |-> x.at]
FromHuc3Clock(clock) ==
    [memory |-> [i \in 1 .. WINDOW |->
        CASE i \in MINUTES .. MINUTES + 2 -> <<(clock.minutes \div 16 ^ (i - MINUTES)) % 16>>
          [] i \in DAYS .. DAYS + 3 -> <<(clock.days \div 16 ^ (i - DAYS)) % 16>>
          [] OTHER -> None],
     at |-> clock.at, seconds |-> <<clock.seconds>>]

-----------------------------------------------------------------------------
(* The chips (external): how each spells what it shows, and what comes a     *)
(* second later.  None knows of a century that is no leap year.              *)
Bcd(n) == 16 * (n \div 10) + (n % 10)
Hour(h, way) == CASE way = "24" -> h [] way = "1 to 12" -> ((h + 11) % 12) + 1 [] OTHER -> h % 12
Spell(x, s) ==
    LET h == Hour(s[4], style)
        pm == s[4] >= 12
    IN CASE chip = "mbc3" -> [x EXCEPT !.live = <<s[4], s[3], s[2], s[1] % 256, s[1] \div 256 + 64 * (@[5] \div 64)>>]
         [] chip = "huc3" ->
              LET minutes == 60 * s[2] + s[3]
              IN [x EXCEPT !.memory = FromHuc3Clock([minutes |-> minutes, days |-> s[1], at |-> None, seconds |-> 0]).memory, !.seconds = <<s[4]>>]
         [] chip = "tpp1" -> [x EXCEPT !.live = <<s[1] \div 7, 32 * (s[1] % 7) + s[2], s[3], s[4]>>]
         [] chip = "s3511a" -> [x EXCEPT !.components = <<Bcd(s[1] % 100), Bcd(s[2]), Bcd(s[3]), @[4], Bcd(h) + On(pm, 7), Bcd(s[5]), Bcd(s[6])>>]
         [] chip = "joybus" ->
              [x EXCEPT !.time = <<Bcd(s[6]), Bcd(s[5]), Bcd(h) + 128, Bcd(s[3]), @[5], Bcd(s[2]), Bcd(s[1] % 100), Bcd((s[1] - 1900) \div 100)>>]
         [] chip = "srtc" ->
              [x EXCEPT !.registers = <<s[6] % 10, s[6] \div 10, s[5] % 10, s[5] \div 10, h % 10, h \div 10, s[3] % 10, s[3] \div 10,
                                        s[2], s[1] % 10, (s[1] % 100) \div 10, (s[1] - 1000) \div 100, @[13]>>]
         [] chip = "rtc4513" ->
              [x EXCEPT !.registers = <<s[6] % 10, s[6] \div 10 + 8 * (@[2] \div 8), s[5] % 10, s[5] \div 10, h % 10,
                                        h \div 10 + On(style # "24" /\ pm, 2), s[3] % 10, s[3] \div 10, s[2] % 10, s[2] \div 10,
                                        s[1] % 10, (s[1] % 100) \div 10, @[13], @[14], @[15], @[16]>>]
         [] chip = "tc8521" ->
              [x EXCEPT !.blocks[1] = <<<<s[6] % 10>>, <<s[6] \div 10>>, <<s[5] % 10>>, <<s[5] \div 10>>, <<h % 10>>,
                                        <<h \div 10 + On(style # "24" /\ pm, 1)>>, @[7], <<s[3] % 10>>, <<s[3] \div 10>>, <<s[2] % 10>>,
                                        <<s[2] \div 10>>, <<s[1] % 10>>, <<(s[1] % 100) \div 10>>>>]
(* A chip that was set: the rest of its registers. *)
Fresh ==
    CASE chip = "mbc3" -> [live |-> <<0, 0, 0, 0, 0>>, latched |-> <<<<59, 59, 23, 255, 1>>>>, at |-> <<-1, 1>>, width |-> <<8>>]
      [] chip = "huc3" -> [memory |-> [i \in 1 .. WINDOW |-> <<0>>], at |-> <<<<-1, 1>>>>, seconds |-> <<0>>]
      [] chip = "tpp1" -> [live |-> <<0, 0, 0, 0>>, latched |-> <<<<1, 2, 3, 4>>>>, status |-> 12, at |-> <<<<3, 1>>>>]
      [] chip = "s3511a" -> [components |-> <<0, 1, 1, 6, 0, 0, 0>>, control |-> On(style = "24", 6), at |-> <<<<3, 1>>>>, alarm |-> <<<<<<7, 48>>>>>>]
      [] chip = "joybus" ->
           [control |-> <<3, 0, 0, 0, 1, 2, 0, 0>>, ram |-> <<1, 2, 3, 4, 5, 6, 7, 8>>, time |-> <<0, 0, 128, 1, 0, 1, 0, 1>>, at |-> <<<<3, 1>>>>]
      [] chip = "srtc" -> [registers |-> [i \in 1 .. 13 |-> 1], at |-> <<<<3, 1>>>>]
      [] chip = "rtc4513" ->
           [registers |-> [i \in 1 .. 16 |-> IF i = 14 THEN 2 ELSE IF i = 16 THEN On(style = "24", 2) ELSE 0], at |-> <<<<3, 1>>>>]
      [] chip = "tc8521" ->
           [blocks |-> [b \in 1 .. 4 |-> [r \in 1 .. 13 |->
                IF b = 2 /\ r = HOUR24 THEN <<On(style = "24", 0)>>
                ELSE IF b = 2 /\ r = LEAP_YEAR THEN <<shown[1] % 4>> ELSE <<b>>]],
            mode |-> <<9>>, at |-> <<<<3, 1>>>>]

LeapShown == IF chip = "tc8521" THEN holds.blocks[2][LEAP_YEAR][1] = 0 ELSE shown[1] % 4 = 0
Carry(s, limits, starts) ==
    LET n == Len(s)
        Over(i) == \A j \in i .. n : s[j] = limits[j]
    IN [i \in 1 .. n |-> IF Over(i) THEN starts[i] ELSE IF i = n \/ Over(i + 1) THEN s[i] + 1 ELSE s[i]]
Days == [mbc3 |-> 512, huc3 |-> 65536, tpp1 |-> 1792]
Century(s) == 100 * (s[1] \div 100)
Later(s) ==
    IF chip \in Counting THEN Carry(s, <<Days[chip] - 1, 23, 59, 59>>, <<0, 0, 0, 0>>)
    ELSE Carry(s, <<Century(s) + 99, 12, days_in_month(LeapShown, s[2]), 23, 59, 59>>, <<Century(s), 1, 1, 0, 0, 0>>)
Counted(x) ==
    CASE chip = "tc8521" /\ Later(shown)[1] # shown[1] -> [x EXCEPT !.blocks[2][LEAP_YEAR] = <<(@[1] + 1) % 4>>]
      [] chip = "mbc3" /\ Later(shown)[1] < shown[1] -> [x EXCEPT !.live[5] = (@ % 128) + 128]
      [] OTHER -> x

(* What the producers' files keep of the registers (external), or null. *)
Anchored(x) == {x, [x EXCEPT !.at = None]}
Only(memory, kept) == [i \in DOMAIN memory |-> IF i \in kept THEN memory[i] ELSE None]
Sources(x) ==
    CASE chip = "mbc3" -> {[x EXCEPT !.latched = latched, !.width = width] : latched \in {None, x.latched}, width \in {None, <<4>>, <<8>>}}
      [] chip = "huc3" ->
           {[x EXCEPT !.memory = Only(@, kept), !.seconds = seconds] :
               kept \in {DOMAIN x.memory, MINUTES .. DAYS + 3, MINUTES .. DAYS + 2}, seconds \in {None, x.seconds}}
      [] chip = "tpp1" -> {[x EXCEPT !.latched = latched] : latched \in {None, x.latched}}
      [] chip = "s3511a" -> {[y EXCEPT !.alarm = alarm] : y \in Anchored(x), alarm \in {None, <<None>>, x.alarm}}
      [] chip = "rtc4513" -> Anchored(x) \cup {[x EXCEPT !.registers[14] = 0], [x EXCEPT !.registers[2] = (@ % 8) + 8]}
      [] chip = "tc8521" ->
           Anchored(x) \cup {[x EXCEPT !.mode = None]}
           \cup {[x EXCEPT !.blocks = [b \in 1 .. 4 |-> Only(@[b], IF b = 1 THEN 1 .. 13 \ {7} ELSE IF b = 2 THEN settings ELSE {})]] :
                   settings \in {{HOUR24, LEAP_YEAR}} \cup (IF style = "24" THEN {{}} ELSE {{HOUR24}})}
           \cup {[x EXCEPT !.blocks[1][12] = None]}
      [] OTHER -> Anchored(x)
(* What a later version, or a producer that keeps less or more, may have under the key. *)
Values == {Null, Uint(2), Uint(16), Uint(300), Bytes(<<1, 2>>), Array(<<Uint(16)>>), <<"epoch", "unsigned", LastDay + 1, 0>>}
Amended(map) ==
    {map @@ (4 :> Uint(0))} \cup {[key \in DOMAIN map \ {gone} |-> map[key]] : gone \in DOMAIN map \ {0}}
        \cup {[map EXCEPT ![key] = value] : key \in DOMAIN map, value \in Values}

ChipInit ==
    /\ chip \in Chips
    /\ shown \in Shown[chip]
    /\ style \in CASE chip \in {"rtc4513", "tc8521"} -> {"24", "0 to 11", "1 to 12"} [] chip = "s3511a" -> {"24", "0 to 11"} [] OTHER -> {"24"}
    /\ holds = Spell(Fresh, shown)
    /\ taken = shown /\ wire = None /\ read = None /\ step = "none"
Tick ==
    /\ shown \in Shown[chip] /\ step = "none"
    /\ shown' = Later(shown)
    /\ holds' = Spell(Counted(holds), Later(shown))
    /\ UNCHANGED <<chip, style, taken, wire, read, step>>
Take ==
    /\ step = "none"
    /\ \E kept \in Sources(holds) : wire' = extensions(kept, Century(shown)).chip /\ holds' = kept
    /\ taken' = shown /\ step' = "taken"
    /\ UNCHANGED <<chip, shown, style, read>>
Amend ==
    /\ step = "taken" /\ wire' \in Amended(wire) /\ step' = "amended"
    /\ UNCHANGED <<chip, shown, style, holds, taken, read>>
Read ==
    /\ step \in {"taken", "amended"}
    /\ read' = try_from(wire)
    /\ step' = "read"
    /\ UNCHANGED <<chip, shown, style, holds, taken, wire>>
(* A producer's file is made of the key again, what it lacked filled in, and the clock goes on. *)
Load ==
    /\ step = "read" /\ wire = to_cbor(holds) /\ reading(read[1], Century(taken)) # None
    /\ holds' = filled(read[1])
    /\ shown' = IF chip = "huc3" THEN [taken EXCEPT ![4] = Or(read[1].seconds, 0)[1]] ELSE taken
    /\ step' = "none" /\ wire' = None /\ read' = None
    /\ UNCHANGED <<chip, style, taken>>
ChipNext == Tick \/ Take \/ Amend \/ Read \/ Load
ChipSpec == ChipInit /\ [][ChipNext]_chipVars

-----------------------------------------------------------------------------
ChipTypeOK ==
    /\ chip \in Chips /\ style \in {"24", "0 to 11", "1 to 12"} /\ step \in {"none", "taken", "amended", "read"}
    /\ holds \in Registers /\ read \in Maybe(Registers)
    /\ Len(shown) = (IF chip \in Counting THEN 4 ELSE 6)
    /\ wire = None <=> step = "none"
    /\ read # None => step = "read"

(* A key is read only as what it says: written again it is the same, whatever  *)
(* another program put there (try_from, to_cbor), and one a program of this    *)
(* version wrote is read as the registers it was written of; so is the reading *)
(* beside it.                                                                  *)
ReadAsWritten ==
    step = "read" =>
        /\ read # None => to_cbor(read[1]) = wire
        /\ wire = to_cbor(holds) => read = <<holds>>
        /\ \A accuracy \in {None, <<0>>, <<60>>} :
               LET rtc == [reading |-> <<taken[1] - 2000, 86399>>, accuracy |-> accuracy]
               IN ReadRtc(WriteRtc(rtc)) = <<rtc>>

(* The calendar, by the lengths of years and months. *)
Before == <<0, 31, 59, 90, 120, 151, 181, 212, 243, 273, 304, 334>>
LeapsTo(year) == year \div 4 - year \div 100 + year \div 400
DayNumber(s) ==
    365 * (s[1] - 1970) + LeapsTo(s[1] - 1) - LeapsTo(1969) + Before[s[2]] + (IF s[2] > 2 /\ Leap(s[1]) THEN 1 ELSE 0) + s[3] - 1
Civil(s) == chip \in Counting \/ s[3] <= days_in_month(Leap(s[1]), s[2])
Stands(s) ==
    CASE chip = "huc3" -> <<s[1], 3600 * s[2] + 60 * s[3]>>
      [] chip \in Counting -> <<s[1], 3600 * s[2] + 60 * s[3] + s[4]>>
      [] OTHER -> <<DayNumber(s), 3600 * s[4] + 60 * s[5] + s[6]>>
Whole(x) ==
    CASE chip = "huc3" -> All(SubSeq(x.memory, MINUTES, DAYS + 3))
      [] chip = "tc8521" -> \A r \in 1 .. 13 \ {7} : x.blocks[1][r] # None
      [] chip = "rtc4513" -> calendar(x)
      [] OTHER -> TRUE
(* What the registers stand for is the moment the chip showed when they were   *)
(* taken, by the calendar and not by the arithmetic of time.rs, and nothing at *)
(* all when the chip showed no day there is or a file kept too little: of any  *)
(* chip, in any style of hours, over midnights, noons, months, leap days and   *)
(* centuries. A file made of them again stands for the same.                   *)
StandsForWhatItShowed ==
    step \in {"taken", "amended", "read"} =>
        /\ reading(holds, Century(taken)) = IF Whole(holds) /\ Civil(taken) THEN <<Stands(taken)>> ELSE None
        /\ Whole(holds) => reading(filled(holds), Century(taken)) = reading(holds, Century(taken))
        /\ chip \notin Counting /\ Civil(taken) => civil_from_days(DayNumber(taken)) = <<taken[1], taken[2], taken[3]>>
        /\ chip = "huc3" /\ Whole(holds) =>
               LET clock == Huc3Clock(holds)
               IN Huc3Clock(FromHuc3Clock(clock)) = clock /\ reading(FromHuc3Clock(clock), 0) = reading(holds, 0)

(* A line shown of the registers gives the digits on the clock's own face.     *)
Face(s, x) ==
    CASE chip = "huc3" -> <<s[1], s[2], s[3]>> \o x.seconds
      [] chip = "tpp1" -> <<s[1] \div 7, s[1] % 7>> \o Tail(s)
      [] chip \in {"mbc3", "joybus", "srtc", "s3511a"} -> [s EXCEPT ![4] = IF Len(s) = 4 THEN @ ELSE Hour(@, style)]
      [] OTHER -> [s EXCEPT ![1] = @ % 100, ![4] = Hour(@, style)]
ShowsItsFace == step = "taken" /\ Whole(holds) => fmt(holds) = <<Face(taken, holds)>>
=============================================================================
