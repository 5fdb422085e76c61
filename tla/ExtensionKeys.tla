---------------------------- MODULE ExtensionKeys ----------------------------
(***************************************************************************)
(* The extension keys of one map of a bundle (one-saves/src/extension.rs). *)
(* A value put there typed is encoded when it is written; one read off the *)
(* wire is kept as it is, and what it was first read as is remembered      *)
(* beside it.                                                              *)
(***************************************************************************)
EXTENDS ExtensionTypes, FiniteSets

CONSTANTS
    Values,         \* what a producer may put under a key: its type and the value
    Unfit,          \* those of them beyond the limits of their schema
    Wired,          \* what may be read under each key off the wire
    MaxKeys         \* how many keys the map has at most

VARIABLES
    entries,    \* the map: each key's value, typed or raw
    put,        \* the CBOR of what was last put under each key
    asked,      \* the last question: of which key, and as which type
    answer      \* what it was told

extensionVars == <<entries, put, asked, answer>>

-----------------------------------------------------------------------------
(* One key's value. What a raw one reads as is found out once. *)
Typed(typed) == [kind |-> "typed", read |-> TRUE, typed |-> <<typed>>, value |-> None]
Raw(value) == [kind |-> "raw", read |-> FALSE, typed |-> None, value |-> <<value>>]
to_cbor(entry) == IF entry.kind = "typed" THEN Encode(entry.typed[1]) ELSE entry.value[1]
ReadAs(type, entry) ==
    IF entry.read THEN entry ELSE [entry EXCEPT !.read = TRUE, !.typed = decode(type, entry.value[1])]
(* This crate has one type for each key of its own, and none for a producer's. *)
Recognised(key, entry) == IF key = "own" THEN entry ELSE ReadAs(key, entry)
cloned(entry) == IF entry.kind = "typed" THEN entry ELSE Raw(entry.value[1])

-----------------------------------------------------------------------------
Asks(question, told) == asked' = question /\ answer' = told
Unasked == Asks(None, None)
Held(f, key, value) == (key :> value) @@ f
Without(f, key) == [other \in DOMAIN f \ {key} |-> f[other]]

ExtensionInit == entries = None /\ put = None /\ asked = None /\ answer = None

(* A producer puts a value there of the key's type, or as CBOR. *)
Puts(key, entry) ==
    /\ Cardinality(DOMAIN entries \cup {key}) <= MaxKeys
    /\ entries' = Held(entries, key, entry)
    /\ put' = Held(put, key, to_cbor(entry))
    /\ Unasked
insert(typed) == Puts(KEY(typed.type), Typed(typed))
insert_cbor(key, value) == Puts(key, Raw(value))

remove(key) ==
    /\ key \in DOMAIN entries
    /\ Asks(<<"remove", key, put[key]>>, <<to_cbor(entries[key])>>)
    /\ entries' = Without(entries, key) /\ put' = Without(put, key)

(* The first reading sticks: asked for another type, there is none. *)
get(type) ==
    LET key == KEY(type)
        entry == ReadAs(type, entries[key])
    IN /\ key \in DOMAIN entries
       /\ entries' = [entries EXCEPT ![key] = entry]
       /\ Asks(<<"get", key, type>>, IF entry.typed # None /\ entry.typed[1].type = type THEN entry.typed ELSE None)
       /\ UNCHANGED put

(* Shown by its type if it has a reading, and as its CBOR if not. *)
display(key) ==
    LET entry == Recognised(key, entries[key])
    IN /\ key \in DOMAIN entries
       /\ entries' = [entries EXCEPT ![key] = entry]
       /\ Asks(<<"display", key>>, entry.typed)
       /\ UNCHANGED put

clone == entries # None /\ entries' = [key \in DOMAIN entries |-> cloned(entries[key])] /\ Unasked /\ UNCHANGED put

(* Written and read again, every value is raw. *)
Reload == entries # None /\ entries' = [key \in DOMAIN entries |-> Raw(to_cbor(entries[key]))] /\ Unasked /\ UNCHANGED put

ExtensionNext ==
    \/ \E typed \in Values : insert(typed)
    \/ \E key \in DOMAIN Wired : \E value \in Wired[key] : insert_cbor(key, value)
    \/ \E key \in DOMAIN Wired : remove(key) \/ display(key)
    \/ \E type \in Registered : get(type)
    \/ clone
    \/ Reload
ExtensionSpec == ExtensionInit /\ [][ExtensionNext]_extensionVars

-----------------------------------------------------------------------------
(* The map and what was put there have the same keys, a reading is of its      *)
(* key's type, and there is one question at a time.                            *)
ExtensionTypeOK ==
    /\ DOMAIN entries = DOMAIN put /\ DOMAIN entries \subseteq DOMAIN Wired
    /\ \A key \in DOMAIN entries :
          /\ entries[key].kind \in {"typed", "raw"} /\ entries[key].read \in BOOLEAN
          /\ entries[key].typed # None => entries[key].typed[1].type \in Registered /\ KEY(entries[key].typed[1].type) = key
          /\ entries[key].typed # None => IsA(entries[key].typed[1].type, entries[key].typed[1].of)
    /\ asked # None => asked[1] \in {"remove", "get", "display"} /\ asked[2] \in DOMAIN Wired

(* Whatever is asked of a key, as whichever type, what is written of it is     *)
(* what was put there: no reading, listing or copy changes the wire.           *)
WireIsKept ==
    /\ \A key \in DOMAIN entries : to_cbor(entries[key]) = put[key]
    /\ asked # None /\ asked[1] = "remove" => answer = <<asked[3]>>

(* A key of this crate's answers with what its CBOR says however it is held,   *)
(* and is listed so; a producer's own is never told as another type's value,   *)
(* and is nothing only once it was read as another type or does not read.      *)
AnswersAreHonest ==
    asked # None /\ asked[1] # "remove" =>
        LET key == asked[2]
            type == IF asked[1] = "get" THEN asked[3] ELSE key
        IN IF entries[key].kind = "typed"
           THEN answer = (IF asked[1] = "display" \/ entries[key].typed[1].type = type THEN entries[key].typed ELSE None)
           ELSE IF key # "own" THEN answer = decode(type, put[key])
           ELSE /\ answer # None => answer = decode(answer[1].type, put[key])
                /\ asked[1] = "get" /\ answer = None =>
                       decode(type, put[key]) = None \/ \E other \in Registered \ {type} : KEY(other) = key /\ entries[key].typed = decode(other, put[key])

(* What a type reads it writes just so, there being no second spelling of any  *)
(* value; and a value within its schema's limits reads back as itself, one     *)
(* beyond them not at all.                                                     *)
OneSpelling ==
    \A key \in DOMAIN entries :
        /\ \A type \in Registered : LET some == decode(type, put[key]) IN KEY(type) = key /\ some # None => Encode(some[1]) = put[key]
        /\ entries[key].kind = "typed" =>
              LET typed == entries[key].typed[1] IN decode(typed.type, put[key]) = IF typed \in Unfit THEN None ELSE <<typed>>
=============================================================================
