------------------------------- MODULE Bundle -------------------------------
(* One .1saves file and the programs that handle it: what the tools made from a *)
(* save, what this version or a later one wrote, read, looked into, copied,     *)
(* described, compressed, written again, nested in another or taken out of it.  *)
EXTENDS BundleFormat

CONSTANTS
  Files,      \* bytes a file may be found to hold
  Types,      \* the types a program may ask for a producer's value as
  Roles       \* the roles a caller may name when it wraps a save

VARIABLES
  file,       \* the bytes on disk
  mem,        \* the bundle in memory, << >> or <<b>>
  was,        \* the bytes it was read from
  edited,     \* whether it has been changed since, or was never read
  told        \* what the last step that touched the file said of it

vars == <<file, mem, was, edited, told>>

Init == file \in Files /\ mem = << >> /\ was = file /\ edited = FALSE /\ told = "found"

-----------------------------------------------------------------------------
Read(strict) ==
  /\ mem = << >>
  /\ IF Accepts(file, strict)
     THEN mem' = <<from_cbor(file)>> /\ was' = file /\ edited' = FALSE /\ told' = "read"
     ELSE told' = "refused" /\ UNCHANGED <<mem, was, edited>>
  /\ UNCHANGED file

(* A value is read as the first type asked for, and by no other after that. A  *)
(* value off the type's schema has no reading, and that sticks as well.        *)
Reading(type, value) == IF value = "odd" THEN "none" ELSE type
typed(entry, type) == IF entry.typed = << >> THEN [entry EXCEPT !.typed = <<Reading(type, entry.value)>>] ELSE entry
Get(name, type) ==
  /\ mem # << >> /\ name \in DOMAIN mem[1].header.ext
  /\ mem' = [mem EXCEPT ![1].header.ext[name] = typed(@, type)]
  /\ UNCHANGED <<file, was, edited, told>>

(* The copy has every value as it was written, and no reading of any. *)
cloned(map) == [map EXCEPT !.ext = [n \in DOMAIN @ |-> Raw(@[n].value)]]
Clone ==
  /\ mem # << >>
  /\ mem' = <<[header |-> cloned(mem[1].header),
               parts |-> [i \in DOMAIN mem[1].parts |-> cloned(mem[1].parts[i])]]>>
  /\ UNCHANGED <<file, was, edited, told>>

Describe ==
  /\ mem # << >>
  /\ mem' = [mem EXCEPT ![1].header.known = [description |-> "a note"] @@ @]
  /\ edited' = TRUE /\ UNCHANGED <<file, was, told>>

(* A producer compresses a part it writes, stating what it inflates to. *)
Compress(i) ==
  /\ mem # << >> /\ i \in DOMAIN mem[1].parts /\ ~Compressed(mem[1].parts[i])
  /\ mem' = [mem EXCEPT ![1].parts[i].known =
               [encoding |-> "zstd", size |-> SizeOf(@.payload), payload |-> [zstd |-> @.payload]] @@ @]
  /\ edited' = TRUE /\ UNCHANGED <<file, was, told>>

Normalize ==
  /\ mem # << >> /\ Normalizes(mem[1])
  /\ mem' = <<normalized(mem[1])>>
  /\ edited' = TRUE /\ UNCHANGED <<file, was, told>>

to_vec ==
  /\ mem # << >>
  /\ IF validate(mem[1])
     THEN file' = to_cbor(mem[1]) /\ told' = "written"
     ELSE told' = "not written" /\ UNCHANGED file
  /\ mem' = << >> /\ was' = file' /\ edited' = FALSE

(* One part's bytes are taken out, every digest having been checked. *)
Extract(i) ==
  /\ mem # << >> /\ i \in DOMAIN mem[1].parts
  /\ validate(mem[1]) /\ Verifies(mem[1])
  /\ file' = bytes_of(mem[1].parts[i])
  /\ told' = IF Kind(mem[1].parts[i]) = "bundle" THEN "extracted" ELSE "dumped"
  /\ mem' = << >> /\ was' = file' /\ edited' = FALSE

(* What the tools make: a save of a flat file's bytes, and what holds a bundle they have. *)
Plain(known) == [known |-> known, unknown |-> << >>, ext |-> << >>]
Wrap(role) ==
  /\ mem = << >> /\ DOMAIN file = {"raw"}
  /\ mem' = <<[header |-> Plain([shape |-> "save", system |-> "nes"]),
               parts |-> <<Plain([id |-> 0, role |-> role, sha256 |-> sha256_of(file), payload |-> file])>>]>>
  /\ edited' = TRUE /\ UNCHANGED <<file, was, told>>

Holder(shape) ==
  CASE shape = "card" -> Plain([shape |-> "card", card |-> Plain([format |-> "ps1", capacity |-> 15])])
    [] shape = "device" -> Plain([shape |-> "device", system |-> "neogeo"])
Nest(shape) ==
  /\ mem = << >> /\ Accepts(file, FALSE) /\ Holds(shape, file.header.ints[0])
  /\ mem' = <<[header |-> Holder(shape),
               parts |-> <<Plain([id |-> 0, kind |-> "bundle", role |-> "memcard", sha256 |-> sha256_of(file),
                                  payload |-> file])>>]>>
  /\ edited' = TRUE /\ UNCHANGED <<file, was, told>>

Next ==
  \/ \E strict \in BOOLEAN : Read(strict)
  \/ \E name \in {<<"org", "emu", "clock">>, RtcKey}, type \in Types : Get(name, type)
  \/ Clone \/ Describe \/ Normalize \/ to_vec
  \/ \E i \in 1 .. 2 : Compress(i) \/ Extract(i)
  \/ \E role \in Roles : Wrap(role)
  \/ \E shape \in {"card", "device"} : Nest(shape)

Spec == Init /\ [][Next]_vars

-----------------------------------------------------------------------------
(* What is in memory is a bundle, each map split into what this version knows,  *)
(* what a later one wrote and what producers did.                               *)
SplitMap(map, kind) ==
  /\ DOMAIN map = {"known", "unknown", "ext"}
  /\ DOMAIN map.known \subseteq DOMAIN Keys[kind]
  /\ DOMAIN map.unknown \cap Range(Keys[kind]) = {}
BundleTypeOK ==
  /\ edited \in BOOLEAN
  /\ told \in {"found", "read", "refused", "written", "not written", "extracted", "dumped"}
  /\ mem # << >> => /\ SplitMap(mem[1].header, "header")
                    /\ \A i \in DOMAIN mem[1].parts : SplitMap(mem[1].parts[i], "part")

(* What was read and not changed is written back byte for byte, whoever wrote  *)
(* it: a later version's keys in every map, and a producer's values as they    *)
(* were, whatever they have been read as or however often copied since.        *)
ReadIsWrittenBack == mem # << >> /\ ~edited => to_cbor(mem[1]) = was

(* No file goes out, written or taken out of another, that would not be read   *)
(* again: the rules that only reading applies hold of all that is written.     *)
WrittenReads == told \in {"written", "extracted"} => Accepts(file, FALSE)

(* However deep a bundle that validates nests others, whole and of shapes this *)
(* version knows, each is a bundle of its own whose two hashes are the one     *)
(* its part names, so taking one out is a copy.                                *)
RECURSIVE StandsAlone(_)
StandsAlone(bundle) ==
  \A i \in Positions(bundle.parts, "bundle") :
    LET part == bundle.parts[i]
        inner == from_cbor(part.known.payload)
    IN ~Compressed(part) /\ Shape(bundle) \in Known /\ Shape(inner) \in Known =>
         /\ validate(inner)
         /\ content_hash(inner) = <<part.known.sha256>>
         /\ StandsAlone(inner)
NestedStandAlone == mem # << >> /\ validate(mem[1]) => StandsAlone(mem[1])

claimed_inflation(bundle) ==
  FoldLeft(LAMBDA total, part : total + Field(part, "size", 0), 0, bundle.parts)

(* A bundle passes `1saves verify` exactly when every digest beneath it is of   *)
(* the bytes it names and every bundle in it reads, as long as its shapes are   *)
(* known, its nested bundles whole and its claims within what is inflated: then *)
(* the bound on depth is never met.                                             *)
RECURSIVE Intact(_), Plainly(_)
Intact(bundle) ==
  \A i \in DOMAIN bundle.parts :
    LET part == bundle.parts[i]
    IN /\ inflates(part) /\ part.known.sha256 = sha256_of(bytes_of(part))
       /\ Kind(part) = "bundle" => Accepts(bytes_of(part), FALSE) /\ Intact(from_cbor(bytes_of(part)))
Plainly(bundle) ==
  /\ Shape(bundle) \in Known
  /\ \A i \in Positions(bundle.parts, "bundle") :
       ~Compressed(bundle.parts[i]) /\ Plainly(from_cbor(bundle.parts[i].known.payload))
VerifiedMeansIntact ==
  mem # << >> /\ validate(mem[1]) =>
    /\ Verifies(mem[1]) => Intact(mem[1])
    /\ Plainly(mem[1]) /\ claimed_inflation(mem[1]) <= MaxInflated => (Intact(mem[1]) <=> Verifies(mem[1]))

(* No reading, copying or compressing changes what a bundle is known by: only   *)
(* what it says does.                                                           *)
ContentHashIsOfContent ==
  [][mem # << >> /\ mem' # << >> /\ mem'[1].header.known = mem[1].header.known
       => content_hash(mem'[1]) = content_hash(mem[1])]_vars

(* What a later version wrote is never lost from a bundle an older one edits.   *)
LaterKeys(bundle) ==
  UNION {{<<-1, k, bundle.header.unknown[k]>> : k \in DOMAIN bundle.header.unknown},
         UNION {{<<bundle.parts[i].known.id, k, bundle.parts[i].unknown[k]>> :
                   k \in DOMAIN bundle.parts[i].unknown} : i \in DOMAIN bundle.parts}}
LaterKeysSurvive ==
  [][/\ mem # << >> /\ mem' # << >> => LaterKeys(mem'[1]) = LaterKeys(mem[1])
     /\ mem # << >> /\ mem' = << >> /\ told' = "written" => LaterKeys(from_cbor(file')) = LaterKeys(mem[1])]_vars
=============================================================================
