-------------------------------- MODULE Clocks --------------------------------
(***************************************************************************)
(* A cartridge's clock as emulators keep it, on the end of the save or in  *)
(* a file beside it, and what crates/one-saves-convert makes of it: rtc.rs,*)
(* and wrap and unwrap in raw.rs. A save is played, converted, extracted   *)
(* for another core and played again, while time passes.                   *)
(*                                                                         *)
(* A count is a time since the counters were zero. Bytes are records of    *)
(* their fields; a packed register word is the number it is.               *)
(***************************************************************************)
EXTENDS Integers, Sequences

CONSTANTS
    Day,         \* seconds in a day
    DayRadix,    \* what the packed seconds, minutes and hours have room for
    Days,        \* days an MBC3 counts before it carries
    HucDays,     \* days a HuC-3 counts
    Century,     \* what a Seiko calendar covers
    First,       \* when the model starts
    Top,         \* the first instant four bytes cannot hold
    Until        \* when the model ends

VARIABLES
    now,
    chip,        \* the cartridge's
    count,       \* what its clock reads, or would if it were asked now
    halted,      \* whether the game has stopped it
    core,        \* the core the files are for
    file,        \* the save's file: the clock on its end
    rtc,         \* the file beside it, or None
    bundle       \* the bundle made of them, or None: [payload, clock, core, read]

clockVars == <<now, chip, count, halted, core, file, rtc, bundle>>

None == << >>

(* How long each chip counts before it comes round. *)
Span == [mbc3 |-> Days * Day, huc3 |-> HucDays * Day, s3511a |-> Century]

-----------------------------------------------------------------------------
(* The cores of the registry that keep each chip's clock, by layout. *)

Cores ==
    [sameboy  |-> [chips |-> {"mbc3"}, layout |-> "appended", size |-> 8],
     bgb      |-> [chips |-> {"mbc3"}, layout |-> "appended", size |-> 4],
     mister   |-> [chips |-> {"mbc3", "huc3"}, layout |-> "packed", size |-> 512],
     pocket   |-> [chips |-> {"mbc3", "huc3"}, layout |-> "packed", size |-> 16],
     gambatte |-> [chips |-> {"mbc3"}, layout |-> "sidecar", size |-> 0],
     mgba     |-> [chips |-> {"s3511a"}, layout |-> "appended", size |-> 8],
     mincer   |-> [chips |-> {"s3511a"}, layout |-> "sidecar", size |-> 0],
     gbamister|-> [chips |-> {"s3511a"}, layout |-> "packed", size |-> 512]]
CoresOf(c) == {k \in DOMAIN Cores : c \in Cores[k].chips}
System(c) == IF c = "s3511a" THEN "gba" ELSE "gb"

Short(at) == IF at \in 0 .. Top - 1 THEN at ELSE 0      \* an instant, in four bytes

(* An MBC3's registers; what counts as one when read off a file. *)
Registers(tod, days, carry, stop) == [tod |-> tod, days |-> days, carry |-> carry, stop |-> stop]
elapsed(live) == live.days * Day + live.tod

-----------------------------------------------------------------------------
(* Reading a clock into the header of a bundle, or None. *)

Mbc3(live, latched, at, width) ==
    [chip |-> "mbc3", live |-> live, latched |-> latched, at |-> at, width |-> width]

parse_mbc3(footer) ==
    IF footer.live.tod < Day /\ footer.latched.tod < Day
    THEN Mbc3(footer.live, <<footer.latched>>, footer.at, <<footer.width>>) ELSE None

(* The tenth bit of the days is not kept. *)
parse_packed(footer) ==
    LET tod == footer.bits % DayRadix
        days == (footer.bits \div DayRadix) % (2 * Days)
        flags == footer.bits \div (DayRadix * 2 * Days)
    IN IF tod < Day /\ flags < 4
       THEN Mbc3(Registers(tod, days % Days, flags % 2 = 1, flags \div 2 = 1), None, footer.at, <<4>>)
       ELSE None

parse_packed_huc3(footer) ==
    LET days == footer.bits \div (2 * DayRadix)
    IN IF days < HucDays
       THEN [chip |-> "huc3", tod |-> footer.bits % (2 * DayRadix), days |-> days, at |-> footer.at] ELSE None

LowDays(days) == days % Days
(* An origin says what the clock reads only at an instant it is read at. *)
GambatteAnchoredNow(side, captured_at) ==
    LET ran == captured_at - side.base
    IN IF ran < 0 THEN None
       ELSE Mbc3(Registers(ran % Day, LowDays(ran \div Day), ran \div Day >= Days, FALSE), None, now, None)
parse_gambatte_sidecar(side, captured_at) ==
    LET ran == captured_at - side.base
    IN IF ran < 0 THEN None
       ELSE Mbc3(Registers(ran % Day, LowDays(ran \div Day), ran \div Day >= Days, FALSE), None, captured_at, None)

S3511a(components, control, at) == [chip |-> "s3511a", components |-> components, control |-> control, at |-> at]
parse_s3511a(footer) == S3511a(footer.components, footer.control, footer.at)
(* Packed, a calendar is a date of 24 hours or it is no clock. *)
parse_s3511a_packed(record) ==
    IF record.components.style = "24" THEN S3511a(record.components, "24", record.at) ELSE None
parse_mincer_sidecar(side) ==
    IF side.at \in {0, Top - 1} THEN None ELSE parse_s3511a_packed(side)

(* Which of two footers of one length a save ends with is for its system to say, and which of
   two chips packed it for its ROM. *)
split_for(footer, system, rom) ==
    IF footer = None THEN None
    ELSE CASE rom = "huc3" -> IF footer.kind = "packed" THEN parse_packed_huc3(footer) ELSE None
           [] footer.kind = "mbc3" /\ system # "gba" -> parse_mbc3(footer)
           [] footer.kind = "s3511a" /\ system = "gba" -> parse_s3511a(footer)
           [] footer.kind = "s3511a packed" /\ system # "gb" -> parse_s3511a_packed(footer)
           [] footer.kind = "packed" /\ system # "gba" -> parse_packed(footer)
           [] OTHER -> None
parse_sidecar(side, captured_at) ==
    IF side.kind = "gambatte" THEN parse_gambatte_sidecar(side, captured_at) ELSE parse_mincer_sidecar(side)

-----------------------------------------------------------------------------
(* Writing it back, in the form a core keeps it in: <<form, size>>. *)

form_for(clock, layout, size) ==
    CASE clock.chip = "huc3" /\ layout \in {"packed", "none"} ->
           <<"huc3 packed", IF layout = "none" THEN 512 ELSE size>>
      [] clock.chip = "s3511a" ->
           CASE layout = "sidecar" -> <<"s3511a sidecar", 0>>
             [] layout = "packed" -> <<"s3511a packed", size>>
             [] OTHER -> <<"s3511a", 0>>
      [] layout = "sidecar" -> <<"sidecar", 0>>
      [] layout = "packed" -> <<"packed", size>>
      [] layout = "appended" -> <<"mbc3", size>>
      [] OTHER -> <<"mbc3", IF clock.chip = "mbc3" /\ clock.width # None THEN clock.width[1] ELSE 8>>

form_by_core(b) ==
    IF b.core = "unnamed" THEN form_for(b.clock, "none", 0)
    ELSE form_for(b.clock, Cores[b.core].layout, Cores[b.core].size)
form_of(b) ==
    LET form == form_by_core(b)
    IN IF form[1] = "mbc3" /\ b.clock.chip = "mbc3" /\ b.clock.width # None THEN <<"mbc3", b.clock.width[1]>> ELSE form

latched_or_live(clock) == IF clock.latched = None THEN clock.live ELSE clock.latched[1]
build_mbc3(clock, width) ==
    [kind |-> "mbc3", width |-> width, live |-> clock.live, latched |-> latched_or_live(clock),
     at |-> IF width = 8 THEN clock.at ELSE Short(clock.at)]
Flag(b) == IF b THEN 1 ELSE 0
build_packed(clock, reserved) ==
    [kind |-> "packed", reserved |-> reserved, at |-> Short(clock.at),
     bits |-> clock.live.tod + DayRadix * (clock.live.days + 2 * Days * (Flag(clock.live.carry) + 2 * Flag(clock.live.stop)))]
build_packed_huc3(clock, reserved) ==
    [kind |-> "packed", reserved |-> reserved, at |-> Short(clock.at), bits |-> clock.tod + 2 * DayRadix * clock.days]
build_gambatte_sidecar(clock) == [kind |-> "gambatte", base |-> Short(clock.at - elapsed(clock.live))]
build_s3511a(clock) ==
    [kind |-> "s3511a", components |-> clock.components, control |-> clock.control, at |-> clock.at]
(* A clock of 12 hours is packed as one of 24. *)
pack_calendar(clock) ==
    IF clock.components.style = "12" THEN [clock.components EXCEPT !.style = "24"] ELSE clock.components
build_s3511a_packed(clock, reserved) ==
    [kind |-> "s3511a packed", reserved |-> reserved, components |-> pack_calendar(clock), at |-> Short(clock.at)]
build_mincer_sidecar(clock) ==
    [kind |-> "mincer", components |-> pack_calendar(clock), at |-> Short(clock.at)]

footer_of_form(clock, form) ==
    CASE form[1] \in {"sidecar", "s3511a sidecar"} -> None
      [] form[1] = "s3511a packed" -> build_s3511a_packed(clock, form[2])
      [] form[1] = "huc3 packed" -> build_packed_huc3(clock, form[2])
      [] clock.chip = "s3511a" -> build_s3511a(clock)
      [] clock.chip = "huc3" -> None
      [] form[1] = "packed" -> build_packed(clock, form[2])
      [] OTHER -> build_mbc3(clock, form[2])
sidecar_of(clock) ==
    CASE clock.chip = "s3511a" -> build_mincer_sidecar(clock)
      [] clock.chip = "mbc3" -> build_gambatte_sidecar(clock)
      [] OTHER -> None

-----------------------------------------------------------------------------
(* What a core makes of its own files (external): the time since the instant *)
(* they name counts, unless the clock is halted.                             *)

Reads(clock, at) ==
    CASE clock.chip = "mbc3" ->
           IF clock.live.stop THEN elapsed(clock.live) ELSE (elapsed(clock.live) + at - clock.at) % Span.mbc3
      [] clock.chip = "huc3" -> (clock.days * Day + clock.tod + at - clock.at) % Span.huc3
      [] clock.chip = "s3511a" -> (clock.components.count + at - clock.at) % Span.s3511a

(* The clock as a core of it has it in memory, and writes it. *)
Kept(c, cnt, stop, carry, style) ==
    CASE c = "mbc3" ->
           LET live == Registers(cnt % Day, (cnt \div Day) % Days, carry, stop)
           IN Mbc3(live, <<[live EXCEPT !.carry = FALSE]>>, now, None)
      [] c = "huc3" -> [chip |-> c, tod |-> cnt % Day, days |-> cnt \div Day, at |-> now]
      [] c = "s3511a" -> S3511a([count |-> cnt, style |-> style], style, now)
KeptBy(k, clock) ==
    LET layout == Cores[k].layout
        form == form_for(clock, layout, Cores[k].size)
    IN <<footer_of_form(clock, form), IF layout = "sidecar" THEN sidecar_of(clock) ELSE None>>

(* A producer's older build may have written its instant narrower. *)
Older(footer) ==
    IF footer # None /\ footer.kind = "mbc3" THEN [footer EXCEPT !.width = 4, !.at = Short(@)] ELSE footer
Halts == IF chip = "mbc3" /\ core # "gambatte" THEN BOOLEAN ELSE {FALSE}
Styles == IF core = "mgba" THEN {"24", "12", "odd"} ELSE {"24"}

ClockInit ==
    /\ chip \in {"mbc3", "huc3", "s3511a"}
    /\ core \in CoresOf(chip)
    /\ now = First
    /\ count \in 0 .. Span[chip] - 1
    /\ halted \in Halts
    /\ \E carry \in Halts, style \in Styles, older \in BOOLEAN :
         LET kept == KeptBy(core, Kept(chip, count, halted, carry, style))
         IN file = (IF older THEN Older(kept[1]) ELSE kept[1]) /\ rtc = kept[2]
    /\ bundle = None

Pass ==
    /\ now < Until
    /\ now' = now + 1
    /\ count' = IF halted THEN count ELSE (count + 1) % Span[chip]
    /\ UNCHANGED <<chip, halted, core, file, rtc, bundle>>

(* The core plays the save, the game halting its clock or starting it, and   *)
(* writes it; a bundle made before is of an older save. Gambatte writes its  *)
(* origin only when the game sets the clock, so its file may be older than   *)
(* the counters go back.                                                     *)
Play ==
    /\ core # "gambatte"
    /\ \E stop \in Halts, carry \in Halts, style \in Styles :
         LET kept == KeptBy(core, Kept(chip, count, stop, carry, style))
         IN halted' = stop /\ file' = kept[1] /\ rtc' = kept[2]
    /\ bundle' = None
    /\ UNCHANGED <<now, chip, count, core>>

(* 1saves convert, naming the core or not, the system or not, and the ROM or *)
(* not. Unless --rtc-captured-at says when, an origin is read now.           *)
Convert ==
    /\ \E named \in {core, "unnamed"}, system \in {System(chip), "unstated"}, rom \in {chip, "unread"},
          captured_at \in IF rtc = None THEN {now} ELSE {now, now - 1} :
         LET split == split_for(file, system, rom)
             clock == IF split # None \/ rtc = None THEN split ELSE parse_sidecar(rtc, captured_at)
         IN /\ split = None /\ rtc # None => clock # None
            /\ bundle' = [payload |-> IF split = None THEN file ELSE None, clock |-> clock, core |-> named,
                          read |-> <<file, rtc>>, system |-> system, rom |-> rom]
    /\ UNCHANGED <<now, chip, count, halted, core, file, rtc>>

(* Written for a core that keeps this chip. Gambatte's file has no halt: a   *)
(* clock that was stopped runs on in it.                                     *)
Extract(k) ==
    /\ bundle # None /\ bundle.clock # None /\ bundle.clock.chip = chip
    /\ LET form == form_for(bundle.clock, Cores[k].layout, Cores[k].size)
       IN /\ file' = footer_of_form(bundle.clock, form)
          /\ rtc' = IF Cores[k].layout = "sidecar" THEN sidecar_of(bundle.clock) ELSE None
    /\ core' = k
    /\ IF halted /\ k = "gambatte"
       THEN /\ halted' = FALSE /\ bundle' = None
            /\ count' = Reads([bundle.clock EXCEPT !.live.stop = FALSE], now)
       ELSE UNCHANGED <<halted, count, bundle>>
    /\ UNCHANGED <<now, chip>>

(* 1saves extract with nothing said, and --rtc-file for a clock kept in a file of its own. *)
Written(b) ==
    IF b.clock = None THEN <<b.payload, None>>
    ELSE LET footer == footer_of_form(b.clock, form_of(b))
         IN IF b.read[2] # None THEN <<b.payload, sidecar_of(b.clock)>>
            ELSE <<IF footer = None THEN b.payload ELSE footer, None>>

ClockNext == Pass \/ Play \/ Convert \/ \E k \in CoresOf(chip) : Extract(k)
ClockSpec == ClockInit /\ [][ClockNext]_clockVars

-----------------------------------------------------------------------------
Odd(clock) == "components" \in DOMAIN clock /\ clock.components.style = "odd"
Dated(clock) == clock # None /\ ~Odd(clock)

(* Whatever was read, a bundle's registers are ones the chip could hold: an    *)
(* origin any time ago, or a packed word with a bit no core sets, included.    *)
ClockTypeOK ==
    /\ now \in First .. Until /\ count \in 0 .. Span[chip] - 1
    /\ chip \in {"mbc3", "huc3", "s3511a"} /\ core \in CoresOf(chip) /\ halted \in Halts
    /\ bundle # None /\ bundle.clock # None =>
         CASE bundle.clock.chip = "mbc3" -> bundle.clock.live.tod < Day /\ bundle.clock.live.days < Days
           [] bundle.clock.chip = "huc3" -> bundle.clock.days < HucDays
           [] OTHER -> bundle.clock.components.count < Century

(* A clock goes on from where it was: however often a save is converted, for   *)
(* whatever core it is then extracted, and however much later it is loaded,    *)
(* the core that loads it reads the time it would have read had the cartridge  *)
(* been left alone. Likewise the bundle. (Until four bytes run out, and        *)
(* except for a calendar that is no date, which nothing can put forward.)      *)
KeepsTime ==
    now < Top - 1 =>
        LET own == IF file # None THEN split_for(file, System(chip), chip) ELSE parse_sidecar(rtc, now)
            held == IF bundle = None THEN None ELSE bundle.clock
        IN /\ ~(own = None /\ \E x \in {file, rtc} : x # None /\ Odd(x)) => own # None
           /\ Dated(own) => Reads(own, now) = count
           /\ Dated(held) /\ held.chip = chip => Reads(held, now) = count

(* With its system stated, and its ROM read where two chips pack alike, no     *)
(* producer's clock is left in the save: what the bundle holds is what the     *)
(* cartridge held, whichever core kept it.                                     *)
SaveAlone ==
    bundle # None /\ bundle.system = System(chip) /\ (chip = "huc3" => bundle.rom = chip) =>
        bundle.payload = None \/ Odd(bundle.payload)

(* Extracting gives the files back as they were read, byte for byte, however   *)
(* much later: wherever the bundle says what core they are for, or they are in *)
(* the form a bundle naming nobody is written in. An origin further back than  *)
(* the day counter reaches comes back forward by whole turns of the counter,   *)
(* and no more: the latest from which a core reads the same.                   *)
SaysItsForm(b) ==
    \/ b.core # "unnamed" \/ b.read[2] # None \/ b.clock = None
    \/ b.read[1].kind \in {"mbc3", "s3511a"} \/ (b.clock.chip = "huc3" /\ b.read[1].reserved = 512)
Misread(b) == b.clock # None /\ b.clock.chip # chip
IsOrigin(side) == side # None /\ side.kind = "gambatte"
Turned(side, at) == [side EXCEPT !.base = Short(@ + Span.mbc3 * ((at - @) \div Span.mbc3))]
ComesBack ==
    bundle # None /\ SaysItsForm(bundle) /\ ~Misread(bundle) =>
        LET side == bundle.read[2]
        IN Written(bundle) = <<bundle.read[1], IF IsOrigin(side) THEN Turned(side, bundle.clock.at) ELSE side>>

(* rtc.rs of parse_gambatte_sidecar: "Whatever `captured_at` is, the round     *)
(* trip is exact: writing the sidecar back computes `captured_at - elapsed`,   *)
(* which returns the original base however the instant was chosen."            *)
OriginComesBack ==
    bundle # None /\ IsOrigin(bundle.read[2]) /\ ~Misread(bundle) => Written(bundle)[2] = bundle.read[2]
=============================================================================
