---------------------------- MODULE BundleFormat ----------------------------
(* A .1saves bundle, as crates/one-saves reads, checks, writes and hashes it.  *)
(*                                                                             *)
(* Bytes are what they say: [raw |-> x] opaque data, [zstd |-> b] a compressed *)
(* b, [header, parts] the one deterministic encoding of a bundle. A map on the *)
(* wire is [ints, texts], its two namespaces of keys; in memory it is          *)
(* [known, unknown, ext]: fields by name, a later version's integer keys, and  *)
(* a producer's text keys. A name is its labels, a path its segments, a dirent *)
(* or a system area its length, an entry of taken_with << >> for null.         *)
EXTENDS Integers, Sequences, SequencesExt, FiniteSets, Functions, TLC

CONSTANTS
  MaxPath,      \* the longest path there may be, in segments
  MaxDepth,     \* how many bundles deep digests are checked
  MaxInflated   \* how much one command inflates, in units of data

ASSUME BundleAssumption == MaxPath \in Nat /\ MaxDepth \in Nat /\ MaxInflated \in Nat

-----------------------------------------------------------------------------
(* The maps of a bundle, and the integer each field of one is written under. *)

Keys ==
  [header |-> [shape |-> 0, system |-> 1, game |-> 2, source |-> 3, card |-> 4, description |-> 5,
               bundled_at |-> 6, taken_at |-> 7, taken_with |-> 8, origin |-> 9],
   part |-> [id |-> 0, kind |-> 1, role |-> 2, path |-> 3, slot |-> 4, dirent |-> 5,
             content_type |-> 6, encoding |-> 7, size |-> 8, sha256 |-> 9, source |-> 10,
             game |-> 11, system |-> 12, binding |-> 13, payload |-> -1],
   game |-> [game_id |-> 0, rom_hashes |-> 1, rom_filename |-> 2, serial |-> 3, title |-> 4,
             system |-> 5],
   source |-> [device_kind |-> 0, fingerprint |-> 1, app |-> 2, app_version |-> 3, core |-> 4,
               core_version |-> 5, platform |-> 6, platform_version |-> 7],
   card |-> [format |-> 0, capacity |-> 1, system_area |-> 2],
   taken_with |-> [byte_order |-> 0, word_size |-> 1, firmware |-> 2, language |-> 3,
                   options |-> 4, format_version |-> 5]]

Nested == {"game", "source", "card", "taken_with"}    \* the fields that are maps themselves
FieldAt(map, key) == CHOOSE f \in DOMAIN Keys[map] : Keys[map][f] = key
Has(map, field) == field \in DOMAIN map.known
Field(map, field, absent) == IF Has(map, field) THEN map.known[field] ELSE absent

(* One value under a producer's key: as it is written, and the reading of it   *)
(* that the first caller to ask took and every later one gets.                 *)
Raw(value) == [value |-> value, typed |-> << >>]

(* A later version's keys go out as they came in, over this version's own, and *)
(* so do a producer's, whatever reading was taken of them.                     *)
FinishAsRead(fields, map) ==
  [ints |-> map.unknown @@ fields,
   texts |-> [n \in {m \in DOMAIN map.ext : map.ext[m].typed # <<"none">>} |-> map.ext[n].value]]
finish(fields, map) ==
  [ints |-> map.unknown @@ fields, texts |-> [n \in DOMAIN map.ext |-> map.ext[n].value]]

RECURSIVE Encoded(_, _)
Encoded(kind, map) ==
  LET Value(f) == IF f \in Nested THEN Encoded(f, map.known[f]) ELSE map.known[f]
  IN finish([k \in {Keys[kind][f] : f \in DOMAIN map.known} |-> Value(FieldAt(kind, k))], map)

to_cbor(bundle) ==
  [header |-> Encoded("header", bundle.header),
   parts |-> [i \in DOMAIN bundle.parts |-> Encoded("part", bundle.parts[i])]]

RECURSIVE Decoded(_, _)
DecodedKeeping(kind, wire) ==
  [known |-> [f \in {FieldAt(kind, k) : k \in DOMAIN wire.ints \cap Range(Keys[kind])} |->
                LET v == wire.ints[Keys[kind][f]] IN IF f \in Nested THEN Decoded(f, v) ELSE v],
   unknown |-> wire.ints,
   ext |-> [n \in DOMAIN wire.texts |-> Raw(wire.texts[n])]]
Decoded(kind, wire) ==
  LET ours == DOMAIN wire.ints \cap Range(Keys[kind])
      Value(f) == LET v == wire.ints[Keys[kind][f]] IN IF f \in Nested THEN Decoded(f, v) ELSE v
  IN [known |-> [f \in {FieldAt(kind, k) : k \in ours} |-> Value(f)],
      unknown |-> Restrict(wire.ints, DOMAIN wire.ints \ ours),
      ext |-> [n \in DOMAIN wire.texts |-> Raw(wire.texts[n])]]

from_cbor(bytes) ==
  [header |-> Decoded("header", bytes.header),
   parts |-> [i \in DOMAIN bytes.parts |-> Decoded("part", bytes.parts[i])]]

-----------------------------------------------------------------------------
(* What reading refuses, of each map. *)

IsReverseDns(name) == Len(name) >= 2 /\ \A i \in DOMAIN name : name[i] # ""
IsUnder(name, root) == IsPrefix(root, name)

(* Only the header, a part, a game and taken_with admit a producer's keys; only the schema
   refuses a key this version does not define. *)
KeysDecode(kind, wire, strict) ==
  /\ \A n \in DOMAIN wire.texts : IsReverseDns(n) /\ kind \notin {"source", "card"}
  /\ strict => DOMAIN wire.ints \subseteq Range(Keys[kind])

IsEmptyMap(map) == map.known = << >> /\ map.unknown = << >> /\ map.ext = << >>

check_path(path) ==
  /\ path # << >> /\ Len(path) <= MaxPath
  /\ Head(path) # "" /\ \A i \in DOMAIN path : path[i] # ".."

(* The encodings of an absent field that are refused, there being one of each. *)
SpelledOut(map) ==
  \/ Field(map, "kind", "") = "save"
  \/ Field(map, "role", "") = "primary"
  \/ Field(map, "encoding", "") = "none"
  \/ Has(map, "path") /\ map.known.path = << >>

(* Each map's own rules, of a map that has been split into its fields. *)
MapDecodes(kind, map, strict) ==
  CASE kind = "header" ->
         /\ Has(map, "shape")
         /\ strict => map.known.shape \in {"save", "state", "screenshot", "card", "device", "collection"}
         /\ \A f \in {"bundled_at", "taken_at"} : Has(map, f) => "seconds" \in DOMAIN map.known[f]
    [] kind = "game" ->
         ~IsEmptyMap(map) /\ Field(map, "rom_hashes", <<"x">>) # << >> /\ Field(map, "game_id", <<"x">>) # << >>
    [] kind = "card" -> Has(map, "format") /\ Has(map, "capacity")
    [] kind = "part" ->
         /\ Has(map, "id") /\ Has(map, "sha256") /\ Has(map, "payload")
         /\ ~SpelledOut(map)
         /\ Has(map, "path") => check_path(map.known.path)
         /\ Field(map, "encoding", "zstd") = "zstd" /\ (Has(map, "encoding") <=> Has(map, "size"))
         /\ map.known.sha256.alg = "sha256"
    [] OTHER -> TRUE

RECURSIVE Decodes(_, _, _)
Decodes(kind, wire, strict) ==
  /\ KeysDecode(kind, wire, strict)
  /\ \A f \in DOMAIN Keys[kind] \cap Nested :
       Keys[kind][f] \in DOMAIN wire.ints => Decodes(f, wire.ints[Keys[kind][f]], strict)
  /\ MapDecodes(kind, Decoded(kind, wire), strict)

BundleDecodes(bytes, strict) ==
  /\ DOMAIN bytes = {"header", "parts"}
  /\ Decodes("header", bytes.header, strict)
  /\ bytes.parts # << >>
  /\ \A i \in DOMAIN bytes.parts : Decodes("part", bytes.parts[i], strict)

-----------------------------------------------------------------------------
(* What validation refuses, on the way in and on the way out: which keys and   *)
(* parts a shape admits, and how the two relate.                               *)

Known == {"save", "state", "screenshot", "card", "device", "collection"}
Shape(bundle) == bundle.header.known.shape
Kind(part) == Field(part, "kind", "save")

Forbidden(shape) ==
  CASE shape = "save"       -> {"card", "taken_at", "taken_with", "origin"}
    [] shape = "state"      -> {"card"}
    [] shape = "screenshot" -> {"card", "taken_with", "origin"}
    [] shape = "card"       -> {"taken_at", "taken_with", "origin"}
    [] shape = "device"     -> {"game", "card", "taken_at", "taken_with", "origin"}
    [] shape = "collection" -> {"system", "game", "card", "taken_at", "taken_with", "origin"}
    [] OTHER -> {}
Required(shape) ==
  CASE shape = "card" -> {"card"} [] shape = "device" -> {"system"} [] shape = "state" -> {"source"}
    [] OTHER -> {}

(* A producer's key that is placed: every clock on a save's or a state's header, *)
(* mGBA's cheats on a state part. Labels are compared whole.                      *)
RtcKey == <<"x", "1sav", "rtc">>
CheatsKey == <<"x", "1sav", "cheats", "mgba">>
AdmitsRtc(place) == place \in {"save header", "state header", "unknown header"}
KeysPlaced(map, place) ==
  \A n \in DOMAIN map.ext :
    /\ IsUnder(n, RtcKey) => AdmitsRtc(place)
    /\ IsUnder(n, CheatsKey) => place = "state part"

(* Digests in ascending order of algorithm, none twice. *)
Tag == [sha256 |-> 18540, sha1 |-> 18542, crc32 |-> 46010, md5 |-> 46011]
check_hashes(hashes) == \A i \in 1 .. Len(hashes) - 1 : Tag[hashes[i]] < Tag[hashes[i + 1]]

check_game(game) == check_hashes(Field(game, "rom_hashes", << >>)) /\ KeysPlaced(game, "elsewhere")

(* A language tag is its subtags, each the kind it is spelled as: a language, then a script or
   a region or both, in that order, and nothing past the region. *)
is_canonical_language(tag) ==
  \E script \in {<< >>, <<"Script">>}, region \in {<< >>, <<"REGION">>} : tag = <<"language">> \o script \o region

(* An entry of taken_with is << >> for a value the producer does not know. *)
check_taken_with(taken) ==
  /\ ~IsEmptyMap(taken)
  /\ \A firmware \in Range(Field(taken, "firmware", << >>)) :
       /\ firmware # << >>
       /\ \A file \in DOMAIN firmware :
            check_path(file) /\ firmware[file] # << >> /\ check_hashes(firmware[file])
  /\ \A language \in Range(Field(taken, "language", << >>)) : is_canonical_language(language)
  /\ \A options \in Range(Field(taken, "options", << >>)) : options # << >>
  /\ KeysPlaced(taken, "elsewhere")

check_header(header) ==
  LET shape == header.known.shape
  IN /\ DOMAIN header.known \cap Forbidden(shape) = {}
     /\ Required(shape) \subseteq DOMAIN header.known
     /\ shape = "state" => Has(header.known.source, "core") \/ Has(header.known.source, "app")
     /\ KeysPlaced(header, (IF shape \in Known THEN shape ELSE "unknown") \o " header")
     /\ Has(header, "game") => check_game(header.known.game)
     /\ Has(header, "taken_with") => check_taken_with(header.known.taken_with)

check_part_order(parts) == \A i \in 1 .. Len(parts) - 1 : parts[i].known.id < parts[i + 1].known.id

Positions(parts, kind) == {i \in DOMAIN parts : Kind(parts[i]) = kind}
check_parts_against_shape(shape, parts) ==
  CASE shape = "state" ->
         /\ Cardinality(Positions(parts, "state")) = 1 /\ Cardinality(Positions(parts, "screenshot")) <= 1
         /\ Positions(parts, "bundle") = {} /\ Positions(parts, "system") = {}
    [] shape = "screenshot" -> Len(parts) = 1 /\ Kind(parts[1]) = "screenshot"
    [] shape \in {"save", "card", "device", "collection"} ->
         /\ Positions(parts, "state") = {} /\ Positions(parts, "screenshot") = {}
         /\ shape = "save" => Positions(parts, "bundle") = {}
         /\ shape # "card" => Positions(parts, "system") = {}
         /\ shape = "device" => \A i \in DOMAIN parts : Has(parts[i], "role")
    [] OTHER -> TRUE

Absent == << >>
Address(part) ==
  <<Kind(part), Field(part, "role", "primary"), Field(part, "path", Absent), Field(part, "slot", -1)>>
check_part_addresses(parts) == IsInjective([i \in DOMAIN parts |-> Address(parts[i])])

(* An entry of the console's own sits in a directory that comes before it. *)
check_system_entries(parts) ==
  \A i \in Positions(parts, "system") :
    LET path == Field(parts[i], "path", Absent)
    IN Len(path) > 1 => \E j \in Positions(parts, "system") :
                          j < i /\ Field(parts[j], "path", Absent) = Front(path)

DirentLen == [ps1 |-> 128, ps2 |-> 512, n64 |-> 32, vmu |-> 32, gc |-> 64, neogeo |-> 4, saturn |-> 30]
check_dirent(part, format) ==
  Has(part, "dirent") /\ format \in DOMAIN DirentLen => part.known.dirent = DirentLen[format]
(* Only on a Neo Geo card is the system area's length fixed, and there and on an N64 pak a save's
   name is not free text: the game's number, or characters of the pak's table, which has the slash
   and the dot, up to 16 of them and up to 4 more after a dot. *)
is_neogeo_save_name(path) == Len(path) = 1 /\ path[1] \in {"0201-0", "0201-1"}
Spelled(length, dots) == [length |-> length, dots |-> dots]
N64_CHARACTERS ==    \* what is spelled in them: how many there are, and the dots among them
  "0201-0" :> Spelled(6, {}) @@ "BASLUS" :> Spelled(6, {}) @@ "DIR" :> Spelled(3, {}) @@ "FILE" :> Spelled(4, {})
    @@ "A.NAME.OF.16.ON." :> Spelled(16, {1, 6, 9, 12, 15}) @@ "SIXTEEN UP TO IT.EXT" :> Spelled(20, {16})
    @@ "SIXTEEN UP TO IT.LONG." :> Spelled(22, {16, 21})
is_n64_note_name(path) ==
  /\ Range(path) \subseteq DOMAIN N64_CHARACTERS
  /\ LET Start(i) == FoldLeft(LAMBDA sum, text : sum + N64_CHARACTERS[text].length + 1, 0, SubSeq(path, 1, i - 1))
         length == Start(Len(path) + 1) - 1
     IN \/ length <= 16
        \/ \E i \in DOMAIN path : \E dot \in N64_CHARACTERS[path[i]].dots :
              Start(i) + dot <= 16 /\ length - (Start(i) + dot) - 1 \in 1 .. 4
check_spelling(path, format) ==
  /\ format = "neogeo" => is_neogeo_save_name(path)
  /\ format = "n64" => is_n64_note_name(path)
check_card_format(header, parts) ==
  header.known.shape = "card" =>
    LET card == header.known.card
        format == card.known.format
    IN /\ Field(card, "system_area", 64) # 64 => format # "neogeo"
       /\ \A i \in DOMAIN parts :
            /\ check_dirent(parts[i], format)
            /\ Kind(parts[i]) = "bundle" /\ Has(parts[i], "path") => check_spelling(parts[i].known.path, format)

check_part_kind(part) ==
  CASE Kind(part) \in {"state", "screenshot"} ->
         /\ DOMAIN part.known \cap {"role", "path", "dirent", "source", "game", "system", "binding"} = {}
         /\ IF Kind(part) = "screenshot"
            THEN ~Has(part, "slot") /\ Field(part, "content_type", "none") \in {"image/png", "image/jpeg"}
            ELSE ~Has(part, "content_type")
    [] Kind(part) = "system" -> Has(part, "path") /\ ~Has(part, "game") /\ ~Has(part, "system")
    [] OTHER -> TRUE

(* A digest is of all the bytes and of nothing else. *)
sha256_of(bytes) == [alg |-> "sha256", of |-> bytes]

Holds(outer, inner) ==
  CASE outer = "card" -> inner = "save"
    [] outer = "device" -> inner \in {"card", "save"}
    [] outer = "collection" -> inner # "collection"
    [] OTHER -> FALSE

Compressed(part) == Has(part, "encoding")

(* A nested bundle is opened and held to all of this, unless it is compressed  *)
(* or one of the two shapes is a later version's.                              *)
RECURSIVE validate(_)
check_nested(part, header) ==
  \/ Compressed(part)
  \/ LET payload == part.known.payload
         inner == from_cbor(payload)
         outer == header.known.shape
     IN /\ BundleDecodes(payload, FALSE)
        /\ \A i \in DOMAIN inner.parts : ~Compressed(inner.parts[i])
        /\ part.known.sha256 = sha256_of(payload)
        /\ outer \in Known /\ Shape(inner) \in Known =>
             /\ Holds(outer, Shape(inner))
             /\ outer = "card" =>
                  \A i \in DOMAIN inner.parts : check_dirent(inner.parts[i], header.known.card.known.format)
             /\ validate(inner)
validate(bundle) ==
  LET header == bundle.header
      parts == bundle.parts
  IN /\ parts # << >>
     /\ check_part_order(parts)
     /\ check_header(header)
     /\ check_parts_against_shape(header.known.shape, parts)
     /\ check_part_addresses(parts)
     /\ check_system_entries(parts)
     /\ check_card_format(header, parts)
     /\ \A i \in DOMAIN parts :
          /\ check_part_kind(parts[i])
          /\ Has(parts[i], "game") => check_game(parts[i].known.game)
          /\ KeysPlaced(parts[i], Kind(parts[i]) \o " part")
          /\ Kind(parts[i]) = "bundle" => check_nested(parts[i], header)

(* from_slice_with takes what decodes and validates; to_vec writes what validates. *)
Accepts(bytes, strict) == BundleDecodes(bytes, strict) /\ validate(from_cbor(bytes))

-----------------------------------------------------------------------------
(* Identity: a part's bytes, and the form its content hash is taken over. *)

SizeOf(bytes) == IF DOMAIN bytes = {"raw"} THEN 1 ELSE 2
inflates(part) ==
  Compressed(part) => /\ DOMAIN part.known.payload = {"zstd"}
                      /\ part.known.size = SizeOf(part.known.payload.zstd)
bytes_of(part) == IF Compressed(part) THEN part.known.payload.zstd ELSE part.known.payload
NormalizedSized(part) ==
  [part EXCEPT !.known = [f \in DOMAIN @ \ {"encoding"} |-> IF f = "payload" THEN bytes_of(part) ELSE @[f]]]
normalized_part(part) ==
  [part EXCEPT !.known = [f \in DOMAIN @ \ {"encoding", "size"} |->
                            IF f = "payload" THEN bytes_of(part) ELSE @[f]]]
Normalizes(bundle) == \A i \in DOMAIN bundle.parts : inflates(bundle.parts[i])
normalized(bundle) == [bundle EXCEPT !.parts = [i \in DOMAIN @ |-> normalized_part(@[i])]]

(* The content hash is << >> where the bundle has none: a part does not inflate, or the
   whole does not validate once it has. *)
HashAsHeld(bundle) == <<sha256_of(to_cbor(bundle))>>
content_hash(bundle) ==
  IF Normalizes(bundle) /\ validate(normalized(bundle))
  THEN <<sha256_of(to_cbor(normalized(bundle)))>> ELSE << >>

(* Whether every digest beneath a bundle is of the bytes it names, opening at most MaxDepth
   bundles and inflating at most what is left: <<whether a problem was found, what is left>>. *)
RECURSIVE check_digests(_, _, _)
check_part_digest(part, depth, left) ==
  LET inflated == left - Field(part, "size", 0)
  IN CASE inflated < 0 -> <<FALSE, left>>
       [] ~inflates(part) \/ sha256_of(bytes_of(part)) # part.known.sha256 -> <<FALSE, inflated>>
       [] Kind(part) # "bundle" -> <<TRUE, inflated>>
       [] depth >= MaxDepth \/ ~Accepts(bytes_of(part), FALSE) -> <<FALSE, inflated>>
       [] OTHER -> check_digests(from_cbor(bytes_of(part)).parts, depth + 1, inflated)
check_digests(parts, depth, left) ==
  FoldLeft(LAMBDA so_far, part :
             LET found == check_part_digest(part, depth, so_far[2])
             IN <<so_far[1] /\ found[1], found[2]>>, <<TRUE, left>>, parts)
Verifies(bundle) == check_digests(bundle.parts, 0, MaxInflated)[1]
=============================================================================
