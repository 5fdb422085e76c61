---------------------------- MODULE CardContents ----------------------------
(***************************************************************************)
(* What every memory card crate and its adapter promise together, with no  *)
(* blocks in it: a card is a list of saves and an area that belongs to     *)
(* none of them.  A console changes the list one save at a time.  A tool   *)
(* takes the list off, edits it and puts it back whole - or is refused,    *)
(* where the saves do not fit, and the card stays as it was.               *)
(*                                                                         *)
(* Of a card that has been damaged nothing is promised of what it holds,   *)
(* which may be nothing that reads; but what is read of it is kept whole.  *)
(***************************************************************************)
EXTENDS Integers, Sequences

CONSTANTS
    Games,        \* the saves a console may write or an edit may add
    Areas,        \* what the area can be
    Unreadable,   \* what a card no tool can read holds
    Fits(_),      \* whether a list of saves goes on the card
    Arranged(_)   \* the order the card's directory lists them in

VARIABLES contents, area, held, heldArea, phase, damage

vars == <<contents, area, held, heldArea, phase, damage>>

Init ==
    /\ contents = <<>>
    /\ area \in Areas
    /\ held = <<>>
    /\ heldArea = area
    /\ phase = "closed"
    /\ damage = 0

Without(s, i) == [j \in 1 .. Len(s) - 1 |-> IF j < i THEN s[j] ELSE s[j + 1]]

\* A save more, wherever in the list the console's allocator has it turn up,
\* or one fewer.
Console ==
    /\ phase = "closed"
    /\ contents' # contents
    /\ Unreadable \notin {contents, contents'}
    /\ \/ /\ Len(contents') = Len(contents) + 1
          /\ \E i \in DOMAIN contents' : contents'[i] \in Games /\ contents = Without(contents', i)
       \/ \E i \in DOMAIN contents : contents' = Without(contents, i)
    /\ UNCHANGED <<area, held, heldArea, phase, damage>>

\* What a console makes of a damaged card is between the two of them.
Damage ==
    /\ phase = "closed"
    /\ damage' \in {damage, damage + 1} /\ damage' > 0
    /\ UNCHANGED <<area, held, heldArea, phase>>

Open ==
    /\ phase = "closed"
    /\ contents # Unreadable
    /\ held' = contents /\ heldArea' = area
    /\ phase' = "open"
    /\ UNCHANGED <<contents, area, damage>>

Remove ==
    /\ phase = "open"
    /\ \E i \in DOMAIN held : held' = Without(held, i)
    /\ UNCHANGED <<contents, area, heldArea, phase, damage>>

Add ==
    /\ phase = "open"
    /\ \E game \in Games : held' = Append(held, game)
    /\ UNCHANGED <<contents, area, heldArea, phase, damage>>

PutAway == held' = <<>> /\ heldArea' = area' /\ phase' = "closed"

\* All of the saves, each whole, and the area they came with.
Write ==
    /\ phase = "open"
    /\ PutAway
    /\ Fits(held)
    /\ contents' = Arranged(held) /\ area' = heldArea
    /\ UNCHANGED damage

Refuse ==
    /\ phase = "open"
    /\ phase' = "refused"
    /\ ~Fits(held)
    /\ UNCHANGED <<contents, area, held, heldArea, damage>>

Resume ==
    /\ phase = "refused"
    /\ phase' = "open"
    /\ UNCHANGED <<contents, area, held, heldArea, damage>>

Close == phase = "open" /\ PutAway /\ UNCHANGED <<contents, area, damage>>

Next == Console \/ Damage \/ Open \/ Remove \/ Add \/ Write \/ Refuse
        \/ Resume \/ Close

Spec == Init /\ [][Next]_vars
=============================================================================
