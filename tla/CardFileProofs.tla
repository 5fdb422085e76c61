--------------------------- MODULE CardFileProofs ---------------------------
(***************************************************************************)
(* Proofs about CardFile, for any number of writers and any file system    *)
(* behaviour CardFile allows.  The invariant is about who owns what: a     *)
(* writer part-way owns the file it opened, one that replaces a card has   *)
(* it at the temporary's name, and it is not yet the card's in either view *)
(* of the directory.                                                       *)
(* That is so until the person clears a name a writer part-way is at, as   *)
(* another writer's message tells them to: after that only the file it     *)
(* opened is the writer's, not what its name leads to.                     *)
(***************************************************************************)
EXTENDS CardFile, TLAPS

Owns(w) ==
    Saving(w) =>
      /\ file[w] \in Files
      /\ \A v \in Writers : Saving(v) /\ file[v] = file[w] => v = w
      /\ pc[w] \in {"written", "synced"} => data[file[w]] = w
      /\ pc[w] = "synced" => durable[file[w]] = w

Replaces(w) ==
    Saving(w) /\ ~new[w] =>
      /\ dir["temporary"] = file[w]
      /\ file[w] \notin {dir["card"], settled["card"]}

Standing ==
    existing => /\ Whole(dir["card"]) /\ Whole(settled["card"])
                /\ \A w \in Writers : ~new[w]

\* What holds as long as nothing that was being written was moved aside, and
\* what holds after that too.
Calm ==
    /\ TypeOK
    /\ \A w \in Writers : Owns(w) /\ Replaces(w)
    /\ Standing

Named == existing => /\ dir["card"] # NoFile /\ settled["card"] # NoFile
                     /\ \A w \in Writers : ~new[w]

IInv ==
    /\ TypeOK
    /\ \A w \in Writers : Owns(w)
    /\ Named
    /\ ~disturbed => Calm

LEMMA InitIInv == Init => IInv
<1> SUFFICES ASSUME Init PROVE IInv
  OBVIOUS
<1>1. TypeOK
  BY FilesAssumption DEF Init, TypeOK, Contents, Names
<1>2. \A w \in Writers : Owns(w) /\ Replaces(w)
  BY DEF Init, Owns, Replaces, Saving
<1>3. Standing /\ Named
  BY FilesAssumption, ContentsAssumption DEF Init, Standing, Named, Whole, Names
<1> QED
  BY <1>1, <1>2, <1>3 DEF IInv, Calm

LEMMA TypeStep == TypeOK /\ [Next]_vars => TypeOK'
<1> SUFFICES ASSUME TypeOK, [Next]_vars PROVE TypeOK'
  OBVIOUS
<1>0. existing' = existing /\ disturbed' \in BOOLEAN
  BY DEF Next, Steps, MoveAside, vars, TypeOK
<1> USE <1>0 DEF TypeOK
<1>1. ASSUME NEW w \in Writers, Open(w) PROVE TypeOK'
  BY <1>1 DEF Open, At, fsVars
<1>2. ASSUME NEW w \in Writers, Create(w) PROVE TypeOK'
  <2>1. Target(w) \in Names
    BY DEF Target, Names
  <2> QED
    BY <1>2, <2>1 DEF Create, At, Link, Contents
<1>3. ASSUME NEW w \in Writers, WriteAll(w) PROVE TypeOK'
  BY <1>3 DEF WriteAll, At, Contents
<1>4. ASSUME NEW w \in Writers, SyncAll(w) PROVE TypeOK'
  <2>1. pc[w] = "written" /\ durable' = [durable EXCEPT ![file[w]] = data[file[w]]]
        /\ pc' = [pc EXCEPT ![w] = "synced"] /\ UNCHANGED <<dir, settled, data, new, file>>
    BY <1>4 DEF SyncAll, At
  <2>2. durable' \in [Files -> Contents]
    <3>1. CASE file[w] \in Files
      BY <2>1, <3>1
    <3>2. CASE file[w] \notin Files
      BY <2>1, <3>2
    <3> QED
      BY <3>1, <3>2
  <2> QED
    BY <2>1, <2>2
<1>5. ASSUME NEW w \in Writers, Removed(w), pc' = [pc EXCEPT ![w] = "open"] PROVE TypeOK'
  BY <1>5 DEF Removed, Link
<1>6. ASSUME NEW w \in Writers, Rename(w) PROVE TypeOK'
  <2>1. dir' \in [Names -> Files \cup {NoFile}]
    BY <1>6 DEF Rename, Names
  <2> QED
    BY <1>6, <2>1 DEF Rename, Written, At
<1>7. ASSUME NEW w \in Writers, Keep(w) PROVE TypeOK'
  BY <1>7 DEF Keep, Written, At
<1>8. ASSUME NEW w \in Writers, Stop(w) PROVE TypeOK'
  BY <1>8 DEF Stop, fsVars
<1>9. CASE Flush \/ PowerLoss
  BY <1>9 DEF Flush, PowerLoss
<1>10. ASSUME NEW n \in Names, MoveAside(n) PROVE TypeOK'
  BY <1>10 DEF MoveAside, Link
<1>11. ASSUME NEW f \in Files, WriteBack(f) PROVE TypeOK'
  BY <1>11 DEF WriteBack
<1>12. ASSUME NEW n \in Names, Plant(n) PROVE TypeOK'
  BY <1>12 DEF Plant, Link, Contents
<1>13. CASE UNCHANGED vars
  BY <1>13 DEF vars, fsVars
<1>14. ASSUME NEW w \in Writers, WriteFails(w) \/ RenameFails(w) PROVE TypeOK'
  BY <1>5, <1>14 DEF WriteFails, RenameFails, At
<1> QED
  BY <1>1, <1>2, <1>3, <1>4, <1>6, <1>7, <1>8, <1>9, <1>10, <1>11, <1>12, <1>13, <1>14
     DEF Next, Steps, Save, Outside

-----------------------------------------------------------------------------
(* A writer's own steps.                                                   *)

LEMMA OpenStep ==
  ASSUME Calm, UNCHANGED existing, NEW w \in Writers, Open(w)
  PROVE  (\A v \in Writers : Replaces(v)') /\ Standing'
<1>1. UNCHANGED <<fsVars, file>> /\ \A v \in Writers : Saving(v)' <=> Saving(v) /\ v # w
  BY DEF Calm, TypeOK, Open, At, Saving
<1>2. \A v \in Writers : v # w => pc'[v] = pc[v] /\ new'[v] = new[v]
  BY DEF Calm, TypeOK, Open, At
<1>3. \A v \in Writers : Replaces(v)'
  BY <1>1, <1>2 DEF Calm, Replaces, fsVars
<1>4. Standing'
  BY <1>1 DEF Calm, TypeOK, Standing, Whole, Open, fsVars
<1> QED
  BY <1>3, <1>4

LEMMA CreateStep ==
  ASSUME Calm, UNCHANGED existing, NEW w \in Writers, Create(w)
  PROVE  (\A v \in Writers : Replaces(v)') /\ Standing'
<1>1. PICK f \in Files : /\ ~InUse(f)
                         /\ dir' = [dir EXCEPT ![Target(w)] = f]
                         /\ file' = [file EXCEPT ![w] = f]
                         /\ data' = [data EXCEPT ![f] = Torn]
                         /\ durable' = [durable EXCEPT ![f] = Torn]
  BY DEF Create, Link
<1>2. /\ dir[Target(w)] = NoFile /\ pc[w] = "open" /\ pc' = [pc EXCEPT ![w] = "created"]
      /\ UNCHANGED <<settled, new>>
  BY DEF Create, At
<1>3. f \notin {dir["card"], dir["temporary"], settled["card"]} /\ \A v \in Writers : file[v] # f
  BY <1>1 DEF InUse, Names
<1>4. file'[w] = f /\ pc'[w] = "created" /\ ~Saving(w)
      /\ \A v \in Writers : v # w => file'[v] = file[v] /\ pc'[v] = pc[v]
  BY <1>1, <1>2 DEF Calm, TypeOK, Saving
<1>5. /\ dir'["card"] = IF new[w] THEN f ELSE dir["card"]
      /\ dir'["temporary"] = IF new[w] THEN dir["temporary"] ELSE f
  BY <1>1 DEF Calm, TypeOK, Names, Target
<1>6. Replaces(w)'
  BY <1>2, <1>3, <1>4, <1>5 DEF Replaces
<1>7. ASSUME NEW v \in Writers, v # w PROVE Replaces(v)'
  <2>1. Saving(v)' <=> Saving(v)
    BY <1>4, <1>7 DEF Saving
  <2>2. CASE Saving(v) /\ ~new[v]
    <3>1. dir["temporary"] = file[v] /\ file[v] \in Files /\ file[v] # NoFile /\ file[v] # f
      BY <2>2, <1>3, FilesAssumption DEF Calm, Replaces, Owns
    <3>2. new[w]
      BY <3>1, <1>2 DEF Target
    <3> QED
      BY <2>2, <3>1, <3>2, <1>2, <1>4, <1>5, <1>7 DEF Calm, Replaces
  <2> QED
    BY <2>1, <2>2, <1>2 DEF Replaces
<1>8. Standing'
  <2>1. SUFFICES ASSUME existing PROVE Standing'
    BY DEF Standing
  <2>2. ~new[w] /\ Whole(dir["card"]) /\ Whole(settled["card"]) /\ dir'["card"] = dir["card"]
    BY <2>1, <1>5 DEF Calm, Standing
  <2>3. dir["card"] \in Files /\ settled["card"] \in Files
    BY <2>2 DEF Calm, TypeOK, Names, Whole
  <2> QED
    BY <2>1, <2>2, <2>3, <1>1, <1>2, <1>3 DEF Calm, TypeOK, Standing, Whole
<1> QED
  BY <1>6, <1>7, <1>8

\* Writing and syncing touch the writer's own file, which is no card yet.
LEMMA WriteStep ==
  ASSUME Calm, UNCHANGED existing, NEW w \in Writers, WriteAll(w) \/ SyncAll(w)
  PROVE  (\A v \in Writers : Replaces(v)') /\ Standing'
<1>1. /\ Saving(w) /\ UNCHANGED <<dir, settled, new, file>>
      /\ \A v \in Writers : v # w => pc'[v] = pc[v]
      /\ \A v \in Writers : Saving(v)' <=> Saving(v)
  BY DEF Calm, TypeOK, WriteAll, SyncAll, At, Saving
<1>2. file[w] \in Files
  BY <1>1 DEF Calm, Owns
<1>3. \A f \in Files : f # file[w] => data'[f] = data[f] /\ durable'[f] = durable[f]
  BY <1>2 DEF Calm, TypeOK, WriteAll, SyncAll
<1>4. \A v \in Writers : Replaces(v)'
  BY <1>1 DEF Calm, Replaces
<1>5. Standing'
  <2>1. SUFFICES ASSUME existing PROVE Standing'
    BY DEF Standing
  <2>2. /\ ~new[w] /\ Whole(dir["card"]) /\ Whole(settled["card"])
        /\ file[w] \notin {dir["card"], settled["card"]}
    BY <2>1, <1>1 DEF Calm, Standing, Replaces
  <2>3. dir["card"] \in Files /\ settled["card"] \in Files
    BY <2>2 DEF Calm, TypeOK, Names, Whole
  <2> QED
    BY <2>2, <2>3, <1>1, <1>3 DEF Calm, Standing, Whole
<1> QED
  BY <1>4, <1>5

\* A writer that was replacing a card is alone at the temporary's name.
LEMMA Alone ==
  ASSUME Calm, NEW w \in Writers, NEW v \in Writers, Saving(w), Saving(v), ~new[w], ~new[v]
  PROVE  v = w
BY DEF Calm, Owns, Replaces

LEMMA RemoveStep ==
  ASSUME Calm, UNCHANGED existing, NEW w \in Writers, WriteFails(w) \/ RenameFails(w)
  PROVE  (\A v \in Writers : Replaces(v)') /\ Standing'
<1>1. /\ Saving(w) /\ pc' = [pc EXCEPT ![w] = "open"] /\ file' = [file EXCEPT ![w] = NoFile]
      /\ dir' = [dir EXCEPT ![Target(w)] = NoFile] /\ UNCHANGED <<settled, data, durable, new>>
  BY DEF WriteFails, RenameFails, At, Removed, Link, Saving
<1>2. \A v \in Writers : /\ Saving(v)' <=> Saving(v) /\ v # w
                         /\ v # w => file'[v] = file[v] /\ pc'[v] = pc[v]
  BY <1>1 DEF Calm, TypeOK, Saving
<1>3. /\ new[w] => dir'["temporary"] = dir["temporary"] /\ dir'["card"] = NoFile
      /\ ~new[w] => dir'["card"] = dir["card"]
  BY <1>1 DEF Calm, TypeOK, Names, Target
<1>4. ASSUME NEW v \in Writers, Saving(v)', ~new'[v] PROVE Replaces(v)'
  <2>1. Saving(v) /\ v # w /\ ~new[v]
    BY <1>1, <1>2, <1>4
  <2>2. new[w]
    BY <2>1, <1>1, Alone
  <2>3. file[v] \in Files /\ file[v] # NoFile
    BY <2>1, FilesAssumption DEF Calm, Owns
  <2> QED
    BY <2>1, <2>2, <2>3, <1>1, <1>2, <1>3 DEF Calm, Replaces
<1>5. \A v \in Writers : Replaces(v)'
  BY <1>4 DEF Replaces
<1>6. Standing'
  BY <1>1, <1>3 DEF Calm, Standing, Whole
<1> QED
  BY <1>5, <1>6

LEMMA FinishStep ==
  ASSUME Calm, UNCHANGED existing, NEW w \in Writers, Rename(w) \/ Keep(w)
  PROVE  (\A v \in Writers : Replaces(v)') /\ Standing'
<1>1. /\ pc[w] = "synced" /\ Saving(w) /\ pc' = [pc EXCEPT ![w] = "open"]
      /\ file' = [file EXCEPT ![w] = NoFile]
      /\ new' = [new EXCEPT ![w] = FALSE] /\ UNCHANGED <<settled, data, durable>>
  BY DEF Rename, Keep, Written, At, Saving
<1>2. \A v \in Writers : /\ Saving(v)' <=> Saving(v) /\ v # w
                         /\ v # w => file'[v] = file[v] /\ pc'[v] = pc[v] /\ new'[v] = new[v]
  BY <1>1 DEF Calm, TypeOK, Saving
<1>3. ASSUME NEW v \in Writers, Saving(v)', ~new'[v] PROVE Replaces(v)'
  <2>1. Saving(v) /\ v # w /\ ~new[v]
    BY <1>2, <1>3
  <2>2. CASE Rename(w)
    BY <2>1, <2>2, <1>1, Alone DEF Rename
  <2>3. CASE Keep(w)
    BY <2>1, <2>3, <1>1, <1>2 DEF Keep, Calm, Replaces
  <2> QED
    BY <2>2, <2>3
<1>4. \A v \in Writers : Replaces(v)'
  BY <1>3 DEF Replaces
<1>5. CASE Rename(w)
  <2>1. file[w] \in Files /\ file[w] # NoFile /\ data[file[w]] = w /\ durable[file[w]] = w
    BY <1>1, FilesAssumption DEF Calm, Owns
  <2>2. dir'["card"] = file[w]
    BY <1>1, <1>5 DEF Calm, Rename, Replaces
  <2>3. w # Torn
    BY ContentsAssumption
  <2>4. existing => \A v \in Writers : ~new'[v]
    BY <1>1, <1>2 DEF Calm, TypeOK, Standing
  <2> QED
    BY <2>1, <2>2, <2>3, <2>4, <1>1, <1>4 DEF Calm, Standing, Whole
<1>6. CASE Keep(w)
  <2>1. ~existing
    BY <1>6 DEF Keep, Calm, Standing
  <2> QED
    BY <2>1, <1>4 DEF Standing
<1> QED
  BY <1>5, <1>6

LEMMA StopStep ==
  ASSUME Calm, UNCHANGED existing, NEW w \in Writers, Stop(w)
  PROVE  (\A v \in Writers : Replaces(v)') /\ Standing'
<1>1. \A v \in Writers : /\ Saving(v)' <=> Saving(v) /\ v # w
                         /\ v # w => file'[v] = file[v] /\ pc'[v] = pc[v] /\ new'[v] = new[v]
                         /\ v = w => ~new'[v]
  BY DEF Calm, TypeOK, Stop, Saving
<1>2. UNCHANGED fsVars
  BY DEF Stop
<1>3. \A v \in Writers : Replaces(v)'
  BY <1>1, <1>2 DEF Calm, fsVars, Replaces
<1>4. Standing'
  BY <1>1, <1>2 DEF Calm, fsVars, Standing, Whole
<1> QED
  BY <1>3, <1>4

-----------------------------------------------------------------------------
(* The world's.                                                            *)

LEMMA OutsideStep ==
  ASSUME Calm, UNCHANGED existing, Outside
  PROVE  (\A v \in Writers : Replaces(v)') /\ Standing'
<1>1. CASE Flush
  BY <1>1 DEF Calm, Flush, Replaces, Standing, Whole, Saving
<1>2. CASE PowerLoss
  <2>1. \A v \in Writers : ~Saving(v)' /\ ~new'[v]
    BY <1>2 DEF PowerLoss, Saving
  <2> QED
    BY <2>1, <1>2 DEF Calm, PowerLoss, Replaces, Standing, Whole
<1>3. ASSUME NEW f \in Files, WriteBack(f)
      PROVE  (\A v \in Writers : Replaces(v)') /\ Standing'
  <2>1. UNCHANGED <<dir, settled, data, pc, new, file>>
        /\ \A g \in Files : durable'[g] = durable[g] \/ durable'[g] = data[g]
    BY <1>3 DEF WriteBack, Calm, TypeOK
  <2>2. \A v \in Writers : Replaces(v)'
    BY <2>1 DEF Calm, Replaces, Saving
  <2>3. existing => dir["card"] \in Files /\ settled["card"] \in Files
    BY DEF Calm, TypeOK, Names, Standing, Whole
  <2>4. Standing'
    BY <2>1, <2>3 DEF Calm, Standing, Whole
  <2> QED
    BY <2>2, <2>4
<1>4. ASSUME NEW n \in Names, Plant(n)
      PROVE  (\A v \in Writers : Replaces(v)') /\ Standing'
  <2>1. PICK f \in Files : /\ ~InUse(f)
                           /\ dir' = [dir EXCEPT ![n] = f]
                           /\ data' = [data EXCEPT ![f] = Foreign]
                           /\ durable' = [durable EXCEPT ![f] = Foreign]
    BY <1>4 DEF Plant, Link
  <2>2. dir[n] = NoFile /\ UNCHANGED <<settled, pc, new, file>>
    BY <1>4 DEF Plant
  <2>3. f \notin {dir["card"], settled["card"]} /\ \A v \in Writers : file[v] # f
    BY <2>1 DEF InUse, Names
  <2>4. \A g \in Files : g # f => data'[g] = data[g] /\ durable'[g] = durable[g]
    BY <2>1 DEF Calm, TypeOK
  <2>5. ASSUME NEW v \in Writers, Saving(v), ~new[v] PROVE Replaces(v)'
    <3>1. dir["temporary"] = file[v] /\ file[v] # NoFile
      BY <2>5, FilesAssumption DEF Calm, Owns, Replaces
    <3>2. dir'["temporary"] = file[v] /\ dir'["card"] \in {dir["card"], f}
      BY <3>1, <2>1, <2>2 DEF Calm, TypeOK, Names
    <3> QED
      BY <2>2, <2>3, <2>5, <3>1, <3>2 DEF Calm, Replaces
  <2>6. \A v \in Writers : Replaces(v)'
    BY <2>2, <2>5 DEF Replaces, Saving
  <2>7. Standing'
    <3>1. SUFFICES ASSUME existing PROVE Standing'
      BY DEF Standing
    <3>2. Whole(dir["card"]) /\ Whole(settled["card"])
      BY <3>1 DEF Calm, Standing
    <3>3. dir["card"] \in Files /\ settled["card"] \in Files /\ dir'["card"] = dir["card"]
      BY <2>1, <2>2, <3>2 DEF Calm, TypeOK, Names, Whole
    <3> QED
      BY <2>2, <2>3, <2>4, <3>1, <3>2, <3>3 DEF Calm, Standing, Whole
  <2> QED
    BY <2>6, <2>7
<1> QED
  BY <1>1, <1>2, <1>3, <1>4 DEF Outside

\* Something moved aside from where no writer part-way writes is nobody's.
LEMMA MoveStep ==
  ASSUME Calm, UNCHANGED existing, NEW n \in Names, MoveAside(n), ~disturbed'
  PROVE  (\A v \in Writers : Replaces(v)') /\ Standing'
<1>1. PICK w \in Writers : pc[w] = "open" /\ Target(w) = n
  BY DEF MoveAside
<1>2. /\ dir' = [dir EXCEPT ![n] = NoFile] /\ UNCHANGED <<settled, data, durable, pc, new, file>>
      /\ \A v \in Writers : Saving(v) => Target(v) # n
  BY DEF MoveAside, Link
<1>3. ASSUME NEW v \in Writers, Saving(v), ~new[v] PROVE Replaces(v)'
  <2>1. dir["temporary"] = file[v] /\ n = "card" /\ file[v] \in Files
    BY <1>2, <1>3 DEF Calm, Owns, Replaces, Names, Target
  <2>2. dir'["temporary"] = dir["temporary"] /\ dir'["card"] = NoFile
    BY <1>2, <2>1 DEF Calm, TypeOK, Names
  <2> QED
    BY <1>2, <1>3, <2>1, <2>2, FilesAssumption DEF Calm, Replaces
<1>4. \A v \in Writers : Replaces(v)'
  BY <1>2, <1>3 DEF Replaces, Saving
<1>5. existing => dir'["card"] = dir["card"]
  BY <1>1, <1>2 DEF Calm, Standing, TypeOK, Target, Names
<1>6. Standing'
  BY <1>2, <1>5 DEF Calm, Standing, Whole
<1> QED
  BY <1>4, <1>6

-----------------------------------------------------------------------------
(* What is so whatever is moved aside.                                     *)

\* A writer part-way owns the file it opened, wherever its name leads by now.
LEMMA OwnsStep ==
  ASSUME TypeOK, \A v \in Writers : Owns(v), [Next]_vars
  PROVE  \A v \in Writers : Owns(v)'
<1>1. ASSUME NEW w \in Writers, Create(w) PROVE \A v \in Writers : Owns(v)'
  <2>1. PICK f \in Files : /\ ~InUse(f)
                           /\ file' = [file EXCEPT ![w] = f]
                           /\ data' = [data EXCEPT ![f] = Torn]
                           /\ durable' = [durable EXCEPT ![f] = Torn]
    BY <1>1 DEF Create
  <2>2. pc' = [pc EXCEPT ![w] = "created"] /\ \A v \in Writers : file[v] # f
    BY <1>1, <2>1 DEF Create, At, InUse
  <2>3. file'[w] = f /\ pc'[w] = "created"
        /\ \A v \in Writers : v # w => file'[v] = file[v] /\ pc'[v] = pc[v]
    BY <2>1, <2>2 DEF TypeOK
  <2>4. Owns(w)'
    BY <2>2, <2>3 DEF Owns, Saving
  <2>5. ASSUME NEW v \in Writers, v # w PROVE Owns(v)'
    <3>1. Saving(v)' <=> Saving(v)
      BY <2>3, <2>5 DEF Saving
    <3>2. Saving(v) => file[v] \in Files /\ file[v] # f /\ data'[file[v]] = data[file[v]]
                       /\ durable'[file[v]] = durable[file[v]]
      BY <2>1, <2>2 DEF TypeOK, Owns
    <3>3. \A u \in Writers : Saving(u)' /\ file'[u] = file'[v] /\ Saving(v) => u = v
      BY <2>2, <2>3, <2>5 DEF Owns, Saving
    <3> QED
      BY <3>1, <3>2, <3>3, <2>3, <2>5 DEF Owns
  <2> QED
    BY <2>4, <2>5
<1>2. ASSUME NEW w \in Writers, WriteAll(w) \/ SyncAll(w) PROVE \A v \in Writers : Owns(v)'
  <2>1. /\ Saving(w) /\ UNCHANGED file
        /\ \A v \in Writers : v # w => pc'[v] = pc[v]
        /\ \A v \in Writers : Saving(v)' <=> Saving(v)
    BY <1>2 DEF TypeOK, WriteAll, SyncAll, At, Saving
  <2>2. file[w] \in Files
    BY <2>1 DEF Owns
  <2>3. \A f \in Files : f # file[w] => data'[f] = data[f] /\ durable'[f] = durable[f]
    BY <1>2, <2>2 DEF TypeOK, WriteAll, SyncAll
  <2>4. /\ data'[file[w]] = w
        /\ pc'[w] = "synced" => durable'[file[w]] = w
        /\ pc'[w] \in {"written", "synced"}
    BY <1>2, <2>1, <2>2 DEF TypeOK, Owns, WriteAll, SyncAll, At
  <2>5. Owns(w)'
    BY <2>1, <2>2, <2>4 DEF Owns
  <2>6. ASSUME NEW v \in Writers, v # w PROVE Owns(v)'
    BY <2>1, <2>2, <2>3, <2>6 DEF Owns
  <2> QED
    BY <2>5, <2>6
<1>3. ASSUME NEW w \in Writers,
             Open(w) \/ WriteFails(w) \/ RenameFails(w) \/ Rename(w) \/ Keep(w) \/ Stop(w)
      PROVE  \A v \in Writers : Owns(v)'
  <2>1. UNCHANGED <<data, durable>>
    BY <1>3 DEF Open, WriteFails, RenameFails, Rename, Keep, Stop, Removed, Written, fsVars
  <2>2. \A v \in Writers : /\ Saving(v)' => Saving(v) /\ v # w
                           /\ v # w => file'[v] = file[v] /\ pc'[v] = pc[v]
    BY <1>3 DEF TypeOK, Open, WriteFails, RenameFails, Rename, Keep, Stop, Removed, Written, At,
                Saving, fsVars
  <2> QED
    BY <2>1, <2>2 DEF Owns
<1>4. ASSUME NEW f \in Files, WriteBack(f) PROVE \A v \in Writers : Owns(v)'
  <2>1. UNCHANGED <<data, pc, file>>
        /\ \A g \in Files : durable'[g] = durable[g] \/ durable'[g] = data[g]
    BY <1>4 DEF WriteBack, TypeOK
  <2> QED
    BY <2>1 DEF Owns, Saving
<1>5. ASSUME NEW n \in Names, Plant(n) PROVE \A v \in Writers : Owns(v)'
  <2>1. PICK f \in Files : /\ ~InUse(f)
                           /\ data' = [data EXCEPT ![f] = Foreign]
                           /\ durable' = [durable EXCEPT ![f] = Foreign]
    BY <1>5 DEF Plant
  <2>2. UNCHANGED <<pc, file>> /\ \A v \in Writers : file[v] # f
    BY <1>5, <2>1 DEF Plant, InUse
  <2>3. \A g \in Files : g # f => data'[g] = data[g] /\ durable'[g] = durable[g]
    BY <2>1 DEF TypeOK
  <2> QED
    BY <2>2, <2>3 DEF Owns, Saving
<1>6. CASE PowerLoss
  BY <1>6 DEF PowerLoss, Owns, Saving
<1>7. CASE Flush \/ UNCHANGED vars \/ \E n \in Names : MoveAside(n)
  BY <1>7 DEF Flush, MoveAside, vars, fsVars, Owns, Saving
<1> QED
  BY <1>1, <1>2, <1>3, <1>4, <1>5, <1>6, <1>7 DEF Next, Steps, Save, Outside

\* A card that was there is there, whatever is there.
LEMMA NamedStep == TypeOK /\ Named /\ [Next]_vars => Named'
<1> SUFFICES ASSUME TypeOK, Named, [Next]_vars, existing PROVE Named'
  BY DEF Next, vars, Named
<1>1. /\ existing' = existing /\ dir["card"] \in Files /\ settled["card"] \in Files
      /\ \A w \in Writers : ~new[w] /\ Target(w) = "temporary"
  BY DEF Next, vars, Named, TypeOK, Names, Target
<1>2. ASSUME NEW w \in Writers, Open(w) \/ Save(w) \/ Stop(w) PROVE Named'
  <2>1. UNCHANGED settled /\ \A v \in Writers : ~new'[v]
    BY <1>1, <1>2, FilesAssumption
       DEF TypeOK, Open, Save, Create, WriteAll, SyncAll, WriteFails, RenameFails, Rename, Keep,
           Stop, Removed, Written, fsVars
  <2>2. dir'["card"] = dir["card"] \/ (dir'["card"] = dir["temporary"] /\ dir["temporary"] # NoFile)
    BY <1>1, <1>2
       DEF TypeOK, Names, Open, Save, Create, WriteAll, SyncAll, WriteFails, RenameFails, Rename,
           Keep, Stop, Removed, Link, fsVars
  <2> QED
    BY <1>1, <2>1, <2>2, FilesAssumption DEF Named
<1>3. CASE Outside
  <2>1. ASSUME NEW n \in Names, Plant(n) PROVE Named'
    <3>1. n # "card" /\ dir'["card"] = dir["card"] /\ UNCHANGED <<settled, new>>
      BY <1>1, <2>1, FilesAssumption DEF Plant, Link, TypeOK, Names
    <3> QED
      BY <1>1, <3>1 DEF Named
  <2>2. ASSUME Flush \/ PowerLoss \/ \E f \in Files : WriteBack(f) PROVE Named'
    BY <1>1, <2>2, FilesAssumption DEF Flush, PowerLoss, WriteBack, Named
  <2> QED
    BY <1>3, <2>1, <2>2 DEF Outside
<1>4. ASSUME NEW n \in Names, MoveAside(n) PROVE Named'
  <2>1. n = "temporary"
    BY <1>1, <1>4 DEF MoveAside
  <2>2. dir'["card"] = dir["card"] /\ UNCHANGED <<settled, new>>
    BY <1>4, <2>1 DEF MoveAside, Link, TypeOK, Names
  <2> QED
    BY <1>1, <2>2 DEF Named
<1>5. CASE UNCHANGED vars
  BY <1>5 DEF Named, vars, fsVars
<1> QED
  BY <1>2, <1>3, <1>4, <1>5 DEF Next, Steps

LEMMA InductiveInv == Spec => []IInv
<1>1. IInv /\ [Next]_vars => IInv'
  <2> SUFFICES ASSUME IInv, [Next]_vars PROVE IInv'
    OBVIOUS
  <2>1. TypeOK' /\ (\A w \in Writers : Owns(w)') /\ Named'
    BY TypeStep, OwnsStep, NamedStep DEF IInv
  <2>2. ASSUME ~disturbed' PROVE Calm'
    <3>1. Calm
      BY <2>2 DEF IInv, Next, Steps, MoveAside, vars
    <3>2. (\A v \in Writers : Replaces(v)') /\ Standing'
      <4>1. CASE UNCHANGED vars
        BY <3>1, <4>1 DEF Calm, vars, fsVars, Replaces, Standing, Whole, Saving
      <4>2. CASE Next
        BY <2>2, <3>1, <4>2, OpenStep, CreateStep, WriteStep, RemoveStep, FinishStep, StopStep,
           OutsideStep, MoveStep DEF Next, Steps, Save
      <4> QED
        BY <4>1, <4>2
    <3> QED
      BY <2>1, <3>2 DEF Calm
  <2> QED
    BY <2>1, <2>2 DEF IInv
<1> QED
  BY InitIInv, <1>1, PTL DEF Spec

-----------------------------------------------------------------------------

-----------------------------------------------------------------------------

\* The variables keep their types: a name leads to a file or nowhere.
THEOREM TypeCorrect == Spec => []TypeOK
<1>1. IInv => TypeOK
  BY DEF IInv
<1> QED
  BY <1>1, InductiveInv, PTL

\* However many tools write a card at once, and wherever they are killed or
\* the power is cut, its name leads to a file, and to all of a card unless the
\* name of a write under way was cleared.
THEOREM ACardStands == Spec => []CardStands
<1>1. IInv => CardStands
  BY DEF IInv, Named, Calm, Standing, Whole, CardStands
<1> QED
  BY <1>1, InductiveInv, PTL

\* A rename moves over the card the file its own writer wrote and synced, as
\* long as the person moves nothing aside that is still being written.
THEOREM EachInstallsItsOwn == Spec => InstallsItsOwn
<1>1. IInv => [\A w \in Writers : Rename(w) => disturbed \/
                 (dir'["card"] = file[w] /\ durable[file[w]] = w)]_vars
  <2> SUFFICES ASSUME IInv, NEW w \in Writers, Rename(w), ~disturbed
               PROVE  dir'["card"] = file[w] /\ durable[file[w]] = w
    OBVIOUS
  <2>1. Saving(w) /\ pc[w] = "synced" /\ ~new[w] /\ dir'["card"] = dir["temporary"]
    BY DEF Rename, Written, At, Saving
  <2> QED
    BY <2>1 DEF IInv, Calm, Owns, Replaces
<1> QED
  BY <1>1, InductiveInv, PTL DEF InstallsItsOwn

-----------------------------------------------------------------------------
(* Files that are not a writer's own.                                      *)

\* A file that is all of a card in both views.
Placed(f) == f # NoFile /\ {data[f], durable[f]} \cap {Torn, Foreign} = {}

\* A writer part-way has nothing of somebody else's where it writes: at the
\* temporary's name its own file; at the card's, its own or one another
\* writer moved there; and no other starts the card meanwhile.
Clear(w) ==
    Saving(w) =>
      /\ pc[w] = "created" => data[file[w]] = Torn
      /\ new[w] => /\ dir["card"] = file[w] \/ Placed(dir["card"])
                   /\ \A v \in Writers : Saving(v) /\ new[v] => v = w

Clean == Calm /\ \A w \in Writers : Clear(w)
KInv == IInv /\ (~disturbed => Clean)

\* What a writer part-way opened holds nothing of somebody else's.
LEMMA OwnFile ==
  ASSUME Clean, NEW w \in Writers, Saving(w)
  PROVE  file[w] \in Files /\ file[w] # NoFile /\ data[file[w]] \in {Torn, w}
         /\ data[file[w]] # Foreign
BY FilesAssumption, ContentsAssumption DEF Clean, Calm, Clear, Owns, Saving

\* A card being started is there.
LEMMA StartedIsThere ==
  ASSUME Clean, NEW w \in Writers, Saving(w), new[w]
  PROVE  dir["card"] \in Files /\ dir["card"] # NoFile /\ data[dir["card"]] # Foreign
<1>1. dir["card"] = file[w] \/ Placed(dir["card"])
  BY DEF Clean, Clear
<1> QED
  BY <1>1, OwnFile DEF Placed, Clean, Calm, TypeOK, Names

\* Such a writer has no other's file at its target.
LEMMA TargetIsClear ==
  ASSUME Clean, NEW w \in Writers, Saving(w)
  PROVE  dir[Target(w)] # NoFile /\ data[dir[Target(w)]] # Foreign
<1>1. CASE new[w]
  BY <1>1, StartedIsThere DEF Target
<1>2. CASE ~new[w]
  <2>1. dir["temporary"] = file[w]
    BY <1>2 DEF Clean, Calm, Replaces
  <2> QED
    BY <1>2, <2>1, OwnFile DEF Target
<1> QED
  BY <1>1, <1>2

LEMMA CreateClears ==
  ASSUME Clean, NEW w \in Writers, Create(w)
  PROVE  \A v \in Writers : Clear(v)'
<1>1. PICK f \in Files : /\ ~InUse(f)
                         /\ dir' = [dir EXCEPT ![Target(w)] = f]
                         /\ file' = [file EXCEPT ![w] = f]
                         /\ data' = [data EXCEPT ![f] = Torn]
                         /\ durable' = [durable EXCEPT ![f] = Torn]
  BY DEF Create, Link
<1>2. /\ dir[Target(w)] = NoFile /\ pc[w] = "open" /\ pc' = [pc EXCEPT ![w] = "created"]
      /\ UNCHANGED new /\ ~Saving(w)
  BY DEF Create, At, Saving
<1>3. f \notin {dir["card"], dir["temporary"]} /\ \A v \in Writers : file[v] # f
  BY <1>1 DEF InUse, Names
<1>4. /\ file'[w] = f /\ pc'[w] = "created" /\ data'[f] = Torn
      /\ \A g \in Files : g # f => data'[g] = data[g] /\ durable'[g] = durable[g]
      /\ \A v \in Writers : v # w => file'[v] = file[v] /\ pc'[v] = pc[v]
  BY <1>1, <1>2 DEF Clean, Calm, TypeOK
<1>5. dir'["card"] = IF new[w] THEN f ELSE dir["card"]
  BY <1>1 DEF Clean, Calm, TypeOK, Names, Target
<1>6. new[w] => \A v \in Writers : ~(Saving(v) /\ new[v])
  BY <1>2, StartedIsThere DEF Target
<1>7. Clear(w)'
  <2>1. new[w] => \A v \in Writers : Saving(v)' /\ new'[v] => v = w
    BY <1>2, <1>4, <1>6 DEF Saving
  <2> QED
    BY <1>2, <1>4, <1>5, <2>1 DEF Clear
<1>8. ASSUME NEW v \in Writers, v # w, Saving(v)'
      PROVE  Clear(v)'
  <2>1. Saving(v) /\ file[v] \in Files /\ file[v] # f
    BY <1>3, <1>4, <1>8 DEF Clean, Calm, Owns, Saving
  <2>2. pc'[v] = "created" => data'[file'[v]] = Torn
    BY <1>4, <1>8, <2>1 DEF Clean, Clear
  <2>3. ASSUME new[v]
        PROVE  /\ dir'["card"] = file'[v] \/ Placed(dir["card"])'
               /\ \A u \in Writers : Saving(u)' /\ new'[u] => u = v
    <3>1. ~new[w] /\ dir'["card"] = dir["card"]
      BY <1>5, <1>6, <2>1, <2>3
    <3>2. \A u \in Writers : Saving(u)' /\ new'[u] => Saving(u) /\ new[u]
      BY <1>2, <1>4, <3>1 DEF Saving
    <3>3. dir["card"] \in Files /\ dir["card"] # f
      BY <1>3, <2>1, <2>3, StartedIsThere
    <3> QED
      BY <1>4, <1>8, <2>1, <2>3, <3>1, <3>2, <3>3 DEF Clean, Clear, Placed
  <2> QED
    BY <1>2, <2>2, <2>3 DEF Clear
<1> QED
  BY <1>7, <1>8 DEF Clear

LEMMA WriteClears ==
  ASSUME Clean, NEW w \in Writers, WriteAll(w) \/ SyncAll(w)
  PROVE  \A v \in Writers : Clear(v)'
<1>1. /\ Saving(w) /\ UNCHANGED <<dir, new, file>>
      /\ \A v \in Writers : v # w => pc'[v] = pc[v]
      /\ \A v \in Writers : Saving(v)' <=> Saving(v)
      /\ pc'[w] # "created"
  BY DEF Clean, Calm, TypeOK, WriteAll, SyncAll, At, Saving
<1>2. \A f \in Files : f # file[w] => data'[f] = data[f] /\ durable'[f] = durable[f]
  BY DEF Clean, Calm, TypeOK, WriteAll, SyncAll
<1>3. ASSUME NEW v \in Writers, Saving(v)
      PROVE  Clear(v)'
  <2>1. file[v] \in Files /\ (v # w => file[v] # file[w])
    BY <1>1, <1>3 DEF Clean, Calm, Owns
  <2>2. pc'[v] = "created" => data'[file[v]] = Torn
    BY <1>1, <1>2, <1>3, <2>1 DEF Clean, Clear
  <2>3. ASSUME new[v] PROVE dir["card"] = file[v] \/ Placed(dir["card"])'
    <3>1. dir["card"] \in Files
      BY <1>3, <2>3, StartedIsThere
    <3>2. v # w => dir["card"] # file[w]
      <4>1. v # w => ~new[w]
        BY <1>1, <1>3, <2>3 DEF Clean, Clear
      <4> QED
        BY <1>1, <4>1 DEF Clean, Calm, Replaces
    <3> QED
      BY <1>1, <1>2, <1>3, <2>3, <3>1, <3>2 DEF Clean, Clear, Placed
  <2> QED
    BY <1>1, <1>3, <2>2, <2>3 DEF Clean, Clear
<1> QED
  BY <1>1, <1>3 DEF Clear

\* A writer that ends its write, one way or another, leaves the others clear.
LEMMA EndClears ==
  ASSUME Clean, NEW w \in Writers, WriteFails(w) \/ RenameFails(w) \/ Rename(w) \/ Keep(w) \/ Stop(w)
  PROVE  \A v \in Writers : Clear(v)'
<1>1. /\ UNCHANGED <<data, durable>>
      /\ \A v \in Writers : /\ Saving(v)' => Saving(v) /\ v # w
                            /\ v # w => file'[v] = file[v] /\ pc'[v] = pc[v] /\ new'[v] = new[v]
  BY DEF Clean, Calm, TypeOK, WriteFails, RenameFails, Rename, Keep, Stop, Removed, Written, At, Saving, fsVars
<1>2. ASSUME NEW v \in Writers, Saving(v), v # w, new[v]
      PROVE  dir'["card"] = dir["card"] \/ Placed(dir'["card"])
  <2>1. ~(Saving(w) /\ new[w])
    BY <1>2 DEF Clean, Clear
  <2>2. CASE WriteFails(w) \/ RenameFails(w)
    <3>1. Saving(w) /\ dir' = [dir EXCEPT ![Target(w)] = NoFile]
      BY <2>2 DEF WriteFails, RenameFails, Removed, Link, At, Saving
    <3> QED
      BY <2>1, <3>1 DEF Clean, Calm, TypeOK, Names, Target
  <2>3. CASE Rename(w)
    <3>1. Saving(w) /\ ~new[w] /\ pc[w] = "synced" /\ dir'["card"] = dir["temporary"]
      BY <2>3 DEF Rename, Written, At, Saving
    <3>2. dir["temporary"] = file[w] /\ data[file[w]] = w /\ durable[file[w]] = w
      BY <3>1 DEF Clean, Calm, Owns, Replaces
    <3> QED
      BY <3>1, <3>2, OwnFile, ContentsAssumption DEF Placed
  <2>4. CASE Keep(w) \/ Stop(w)
    BY <2>4 DEF Keep, Stop, fsVars
  <2> QED
    BY <2>2, <2>3, <2>4
<1>3. ASSUME NEW v \in Writers, Saving(v)'
      PROVE  Clear(v)'
  BY <1>1, <1>2, <1>3 DEF Clean, Clear, Placed
<1> QED
  BY <1>3 DEF Clear

\* What the world does meanwhile does too.
LEMMA OutsideClears ==
  ASSUME Clean, Outside
  PROVE  \A v \in Writers : Clear(v)'
<1>1. CASE Flush
  BY <1>1 DEF Clean, Clear, Flush, Saving, Placed
<1>2. ASSUME NEW f \in Files, WriteBack(f), NEW v \in Writers, Saving(v)
      PROVE  Clear(v)'
  <2>1. UNCHANGED <<dir, data, pc, new, file>>
        /\ \A g \in Files : durable'[g] = durable[g] \/ durable'[g] = data[g]
    BY <1>2 DEF WriteBack, Clean, Calm, TypeOK
  <2>2. new[v] => dir["card"] \in Files
    BY <1>2, StartedIsThere
  <2> QED
    BY <1>2, <2>1, <2>2 DEF Clean, Clear, Saving, Placed
<1>3. CASE PowerLoss
  BY <1>3 DEF PowerLoss, Clear, Saving
<1>4. ASSUME NEW n \in Names, Plant(n), NEW v \in Writers, Saving(v)
      PROVE  Clear(v)'
  <2>1. PICK f \in Files : /\ ~InUse(f)
                           /\ dir' = [dir EXCEPT ![n] = f]
                           /\ data' = [data EXCEPT ![f] = Foreign]
                           /\ durable' = [durable EXCEPT ![f] = Foreign]
    BY <1>4 DEF Plant, Link
  <2>2. dir[n] = NoFile /\ UNCHANGED <<pc, new, file>>
    BY <1>4 DEF Plant
  <2>3. f # dir["card"] /\ file[v] # f /\ file[v] \in Files
    BY <1>4, <2>1 DEF InUse, Names, Clean, Calm, Owns
  <2>4. \A g \in Files : g # f => data'[g] = data[g] /\ durable'[g] = durable[g]
    BY <2>1 DEF Clean, Calm, TypeOK
  <2>5. new[v] => dir["card"] \in Files /\ dir'["card"] = dir["card"]
    <3>1. new[v] => dir["card"] # NoFile /\ dir["card"] \in Files
      BY <1>4, StartedIsThere
    <3> QED
      BY <2>1, <2>2, <3>1 DEF Clean, Calm, TypeOK, Names
  <2> QED
    BY <1>4, <2>2, <2>3, <2>4, <2>5 DEF Clean, Clear, Saving, Placed
<1>5. ASSUME (\E f \in Files : WriteBack(f)) \/ (\E n \in Names : Plant(n))
      PROVE  \A v \in Writers : Saving(v)' <=> Saving(v)
  BY <1>5 DEF WriteBack, Plant, Saving
<1> QED
  BY <1>1, <1>2, <1>3, <1>4, <1>5 DEF Outside, Clear

LEMMA WritersAreClear == Spec => []KInv
<1>1. Init => KInv
  BY InitIInv DEF Init, IInv, KInv, Clean, Clear, Saving
<1>2. KInv /\ IInv' /\ [Next]_vars => KInv'
  <2> SUFFICES ASSUME KInv, IInv', [Next]_vars, ~disturbed'
               PROVE  \A w \in Writers : Clear(w)'
    BY DEF IInv, KInv, Clean
  <2>1. Clean
    BY DEF KInv, Next, Steps, MoveAside, vars
  <2>2. CASE UNCHANGED vars
    BY <2>1, <2>2 DEF Clean, Clear, Saving, Placed, vars, fsVars
  <2>3. ASSUME NEW w \in Writers, Open(w)
        PROVE  \A v \in Writers : Clear(v)'
    <3>1. /\ UNCHANGED <<fsVars, file>>
          /\ \A v \in Writers : /\ Saving(v)' => Saving(v) /\ v # w
                                /\ v # w => pc'[v] = pc[v] /\ new'[v] = new[v]
      BY <2>1, <2>3 DEF Clean, Calm, TypeOK, Open, At, Saving
    <3> QED
      BY <2>1, <3>1 DEF Clean, Clear, Placed, fsVars
  <2>4. ASSUME NEW n \in Names, MoveAside(n)
        PROVE  \A v \in Writers : Clear(v)'
    <3>1. /\ dir' = [dir EXCEPT ![n] = NoFile] /\ UNCHANGED <<data, durable, pc, new, file>>
          /\ \A v \in Writers : Saving(v) => Target(v) # n
      BY <2>4 DEF MoveAside, Link
    <3>2. ASSUME NEW v \in Writers, Saving(v), new[v] PROVE dir'["card"] = dir["card"]
      BY <2>1, <3>1, <3>2 DEF Clean, Calm, TypeOK, Names, Target
    <3> QED
      BY <2>1, <3>1, <3>2 DEF Clean, Clear, Saving, Placed
  <2> QED
    BY <2>1, <2>2, <2>3, <2>4, CreateClears, WriteClears, EndClears, OutsideClears
       DEF Next, Steps, Save
<1> QED
  BY <1>1, <1>2, InductiveInv, PTL DEF Spec

\* A card whole in both views with nobody starting it stays so.
LEMMA SettledStep ==
  ASSUME Clean, Settled, [Next]_vars, ~MoveAside("card"), TypeOK'
  PROVE  Settled'
<1>1. dir["card"] \in Files /\ settled["card"] \in Files
  BY DEF Settled, Whole, Clean, Calm, TypeOK, Names
<1>2. ASSUME NEW w \in Writers, Open(w) \/ Stop(w) PROVE Settled'
  <2>1. /\ UNCHANGED fsVars
        /\ \A v \in Writers : Saving(v)' => Saving(v) /\ new'[v] = new[v]
    BY <1>2 DEF Clean, Calm, TypeOK, Open, Stop, At, Saving
  <2> QED
    BY <2>1 DEF Settled, Whole, fsVars
<1>3. ASSUME NEW w \in Writers, Create(w) PROVE Settled'
  <2>1. PICK f \in Files : /\ ~InUse(f)
                           /\ dir' = [dir EXCEPT ![Target(w)] = f]
                           /\ data' = [data EXCEPT ![f] = Torn]
                           /\ durable' = [durable EXCEPT ![f] = Torn]
    BY <1>3 DEF Create, Link
  <2>2. ~new[w] /\ UNCHANGED <<settled, new>> /\ pc' = [pc EXCEPT ![w] = "created"]
    BY <1>1, <1>3, FilesAssumption DEF Create, At, Target
  <2>3. f \notin {dir["card"], settled["card"]} /\ dir'["card"] = dir["card"]
    BY <2>1, <2>2 DEF InUse, Names, Target, Clean, Calm, TypeOK
  <2>4. \A v \in Writers : Saving(v)' => ~new[v]
    BY <2>2 DEF Settled, Saving, Clean, Calm, TypeOK
  <2> QED
    BY <1>1, <2>1, <2>2, <2>3, <2>4 DEF Settled, Whole, Clean, Calm, TypeOK
<1>4. ASSUME NEW w \in Writers, WriteAll(w) \/ SyncAll(w) PROVE Settled'
  <2>1. /\ Saving(w) /\ UNCHANGED <<dir, settled, new>>
        /\ \A v \in Writers : Saving(v)' <=> Saving(v)
    BY <1>4 DEF Clean, Calm, TypeOK, WriteAll, SyncAll, At, Saving
  <2>2. \A f \in Files : f # file[w] => data'[f] = data[f] /\ durable'[f] = durable[f]
    BY <1>4 DEF Clean, Calm, TypeOK, WriteAll, SyncAll
  <2>3. file[w] \notin {dir["card"], settled["card"]}
    BY <2>1 DEF Settled, Clean, Calm, Replaces
  <2> QED
    BY <1>1, <2>1, <2>2, <2>3 DEF Settled, Whole
<1>5. ASSUME NEW w \in Writers, WriteFails(w) \/ RenameFails(w) \/ Rename(w) \/ Keep(w)
      PROVE  Settled'
  <2>1. /\ Saving(w) /\ UNCHANGED <<settled, data, durable>>
        /\ \A v \in Writers : Saving(v)' => Saving(v) /\ new'[v] = new[v]
    BY <1>5 DEF Clean, Calm, TypeOK, WriteFails, RenameFails, Rename, Keep, Removed, Written, At, Saving
  <2>2. ~new[w]
    BY <2>1 DEF Settled
  <2>3. CASE Rename(w)
    <3>1. dir'["card"] = file[w] /\ data[file[w]] = w /\ durable[file[w]] = w
      BY <2>1, <2>2, <2>3 DEF Rename, Written, At, Clean, Calm, Owns, Replaces
    <3> QED
      BY <2>1, <3>1, OwnFile, ContentsAssumption DEF Settled, Whole
  <2>4. CASE WriteFails(w) \/ RenameFails(w)
    <3>1. dir'["card"] = dir["card"]
      BY <2>2, <2>4 DEF WriteFails, RenameFails, Removed, Link, Target, Clean, Calm, TypeOK, Names
    <3> QED
      BY <2>1, <3>1 DEF Settled, Whole
  <2> QED
    BY <1>5, <2>2, <2>3, <2>4 DEF Keep
<1>6. ASSUME NEW f \in Files, WriteBack(f) PROVE Settled'
  <2>1. UNCHANGED <<dir, settled, data, pc, new>>
        /\ \A g \in Files : durable'[g] = durable[g] \/ durable'[g] = data[g]
    BY <1>6 DEF WriteBack, Clean, Calm, TypeOK
  <2> QED
    BY <1>1, <2>1 DEF Settled, Whole, Saving
<1>7. ASSUME NEW n \in Names, Plant(n) PROVE Settled'
  <2>1. PICK f \in Files : /\ ~InUse(f)
                           /\ dir' = [dir EXCEPT ![n] = f]
                           /\ data' = [data EXCEPT ![f] = Foreign]
                           /\ durable' = [durable EXCEPT ![f] = Foreign]
    BY <1>7 DEF Plant, Link
  <2>2. dir[n] = NoFile /\ UNCHANGED <<settled, pc, new>>
    BY <1>7 DEF Plant
  <2>3. f \notin {dir["card"], settled["card"]} /\ dir'["card"] = dir["card"]
    BY <1>1, <2>1, <2>2, FilesAssumption DEF InUse, Names, Clean, Calm, TypeOK
  <2> QED
    BY <1>1, <2>1, <2>2, <2>3 DEF Settled, Whole, Saving, Clean, Calm, TypeOK
<1>8. CASE Flush \/ PowerLoss \/ UNCHANGED vars
  BY <1>8 DEF Flush, PowerLoss, vars, fsVars, Settled, Whole, Saving
<1>9. ASSUME MoveAside("temporary") PROVE Settled'
  BY <1>9 DEF MoveAside, Link, Settled, Whole, Saving, Clean, Calm, TypeOK, Names
<1> QED
  BY <1>2, <1>3, <1>4, <1>5, <1>6, <1>7, <1>8, <1>9 DEF Next, Steps, Save, Outside, Names

\* As long as nothing that is being written is moved aside: a step of a write
\* leaves a file of somebody else's at its name as it is; a write that
\* succeeds leaves all of a card at the card's name with its bytes on the
\* disk; and once the name has reached the disk too the card stays whole
\* (create() and Card::save).
THEOREM NoFileIsLost == Spec => FilesAreKept
<1>1. KInv => [\A w \in Writers : LET n == Target(w) IN
                 Save(w) /\ dir[n] # NoFile /\ data[dir[n]] = Foreign =>
                   disturbed \/ (dir'[n] = dir[n] /\ data'[dir[n]] = Foreign)]_vars
  <2> SUFFICES ASSUME KInv, NEW w \in Writers, Save(w), ~disturbed,
                      dir[Target(w)] # NoFile, data[dir[Target(w)]] = Foreign
               PROVE  FALSE
    OBVIOUS
  <2>1. ~Create(w)
    BY DEF Create
  <2>2. Saving(w)
    BY <2>1 DEF Save, WriteAll, SyncAll, WriteFails, Rename, Keep, RenameFails, Written, At, Saving
  <2> QED
    BY <2>2, TargetIsClear DEF KInv
<1>2. KInv => [\A w \in Writers : Rename(w) \/ Keep(w) =>
                 disturbed \/ (dir'["card"] # NoFile /\ durable[dir'["card"]] # Torn)]_vars
  <2> SUFFICES ASSUME KInv, NEW w \in Writers, Rename(w) \/ Keep(w), ~disturbed
               PROVE  dir'["card"] # NoFile /\ durable[dir'["card"]] # Torn
    OBVIOUS
  <2>1. Clean /\ Saving(w) /\ pc[w] = "synced"
    BY DEF KInv, Rename, Keep, Written, At, Saving
  <2>2. durable[file[w]] = w /\ w # Torn /\ file[w] # NoFile
    BY <2>1, OwnFile, ContentsAssumption DEF Clean, Calm, Owns
  <2>3. CASE Rename(w)
    BY <2>1, <2>2, <2>3 DEF Rename, Clean, Calm, Replaces
  <2>4. CASE Keep(w)
    BY <2>1, <2>2, <2>4 DEF Keep, Clean, Clear, Placed
  <2> QED
    BY <2>3, <2>4
<1>3. KInv /\ KInv' /\ [Next]_vars => [Settled => Settled' \/ disturbed \/ MoveAside("card")]_vars
  BY SettledStep DEF KInv, IInv
<1> QED
  BY <1>1, <1>2, <1>3, WritersAreClear, PTL
     DEF Spec, FilesAreKept, LeavesForeignFiles, LeavesAWholeCard, SettledStays
=============================================================================
