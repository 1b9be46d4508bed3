---------------------------- MODULE ReleaseProofs ----------------------------
(***************************************************************************)
(* Proofs about Release, for any files, releases and contents and any      *)
(* number of edits.                                                        *)
(*                                                                         *)
(* A receipt is written once, when all that it speaks of has been read and *)
(* backed up, so it and its backups agree for good; and whoever changes a  *)
(* target later is either the release of the last receipt, which writes    *)
(* one of the two contents that the receipt allows, or is noted as its     *)
(* writer.  What is overwritten is what was compared (Facing), unless it   *)
(* has been edited since.                                                  *)
(***************************************************************************)
EXTENDS Release, TLAPS

Originals == Contents \union {Absent}
IsReceipt(t) == t \in [DOMAIN t -> Originals] /\ DOMAIN t \subseteq Files

Typed == /\ TypeOK
         /\ writer \in [Files -> Releases \union {None, "edit"}]
         /\ DOMAIN receipt = Releases
         /\ \A r \in Releases : receipt[r] # None => IsReceipt(receipt[r])
         /\ IsReceipt(seen) /\ late \subseteq DOMAIN seen
         /\ now \in Files \union {None}
         /\ op = "idle" => DOMAIN seen = {}
         /\ last # None => receipt[last] # None

\* What a promotion has read is backed up, and is there unless it was edited.
Reading == op = "read" =>
    /\ receipt[rel] = None /\ DOMAIN seen \subseteq todo
    /\ \A f \in DOMAIN seen : /\ seen[f] # Absent => backup[rel][f] = seen[f]
                              /\ f \notin late => target[f] = seen[f]

Replacing == op = "replace" =>
    /\ rel = last /\ receipt[rel] = seen
    /\ \A f \in DOMAIN seen : seen[f] # Absent => backup[rel][f] = seen[f]

\* What a restoration has checked is restorable, unless it was edited since.
Undoing == op \in {"check", "undo"} =>
    /\ receipt[rel] # None
    /\ todo \subseteq DOMAIN receipt[rel]
    /\ DOMAIN seen \subseteq DOMAIN receipt[rel]
    /\ op = "check" => todo = DOMAIN receipt[rel]
    /\ op = "undo" => DOMAIN seen = DOMAIN receipt[rel]
    /\ \A f \in DOMAIN seen : seen[f] \in {receipt[rel][f], staged[rel][f]}
    /\ \A f \in DOMAIN seen \ late : target[f] \in {receipt[rel][f], staged[rel][f]}

\* The file about to be replaced is as it was read.
Facing == now # None /\ ~raced => target[now] = seen[now]

\* The backups of a receipt are its originals, but for a power loss.
Backups(r) == receipt[r] # None =>
    \A f \in DOMAIN receipt[r] :
        receipt[r][f] # Absent => backup[r][f] \in {receipt[r][f], Torn}

\* Whatever the last release has written itself, its receipt allows.
Target(f) == writer[f] \in {None, last} => target[f] \in {receipt[last][f], staged[last][f]}
Targets == last # None => \A f \in DOMAIN receipt[last] : Target(f)

IInv == /\ Typed /\ Reading /\ Replacing /\ Undoing /\ Facing
        /\ (\A r \in Releases : Backups(r)) /\ Targets
-----------------------------------------------------------------------------
LEMMA SameDisk ==
    ASSUME UNCHANGED disk
    PROVE  /\ staged' = staged /\ target' = target /\ backup' = backup
           /\ dirty' = dirty /\ receipt' = receipt
BY DEF disk

LEMMA SameHistory ==
    ASSUME UNCHANGED history
    PROVE  edits' = edits /\ late' = late /\ raced' = raced /\ last' = last /\ writer' = writer
BY DEF history

\* The run that has the lock has a release.
LEMMA Running ==
    ASSUME IInv, op # "idle"
    PROVE  rel \in Releases /\ rel # None
BY NoneAssumption DEF IInv, Typed, TypeOK

LEMMA Idle ==
    ASSUME IInv, op = "idle"
    PROVE  rel = None
BY DEF IInv, Typed, TypeOK

LEMMA EmptyReceipt == IsReceipt(<<>>) /\ DOMAIN <<>> = {}
BY DEF IsReceipt

\* A run ends, or is ended: whatever it knew is forgotten.
LEMMA ExitStep ==
    ASSUME IInv, Exit, UNCHANGED <<staged, target, receipt, edits, last, writer>>,
           dirty' \subseteq dirty,
           backup' \in [Releases -> [Files -> Contents \union {Absent, Torn}]],
           \A r \in Releases, f \in Files : backup'[r][f] \in {backup[r][f], Torn}
    PROVE  IInv'
<1>1. /\ op' = "idle" /\ rel' = None /\ seen' = <<>> /\ todo' = {} /\ late' = {}
      /\ now' = None /\ raced' = FALSE
      BY DEF Exit
<1>2. IsReceipt(seen') /\ DOMAIN seen' = {} BY <1>1, EmptyReceipt
<1>3. TypeOK' BY <1>1, <1>2 DEF IInv, Typed, TypeOK
<1>4. Typed' BY <1>1, <1>2, <1>3 DEF IInv, Typed, IsReceipt
<1>5. Reading' /\ Replacing' /\ Undoing' /\ Facing' BY <1>1 DEF Reading, Replacing, Undoing, Facing
<1>6. ASSUME NEW r \in Releases PROVE Backups(r)'
  <2>1. Backups(r) /\ (receipt[r] # None => DOMAIN receipt[r] \subseteq Files)
        BY DEF IInv, Typed, IsReceipt
  <2> QED BY <2>1 DEF Backups
<1>7. Targets' BY DEF IInv, Targets, Target
<1> QED BY <1>4, <1>5, <1>6, <1>7 DEF IInv

\* The files are as they were.
LEMMA PlainExit ==
    ASSUME IInv, Exit, UNCHANGED <<disk, edits, last, writer>>
    PROVE  IInv'
<1>1. UNCHANGED <<staged, target, receipt, edits, last, writer, backup, dirty>> BY SameDisk
<1>2. backup' \in [Releases -> [Files -> Contents \union {Absent, Torn}]]
      BY <1>1 DEF IInv, Typed, TypeOK
<1> QED BY <1>1, <1>2, ExitStep

LEMMA PowerLossStep ==
    ASSUME IInv, PowerLoss
    PROVE  IInv'
<1>1. PICK lost \in SUBSET dirty :
         backup' = [r \in Releases |-> [f \in Files |->
                        IF <<r, f>> \in lost THEN Torn ELSE backup[r][f]]]
      BY DEF PowerLoss
<1>2. \A r \in Releases, f \in Files :
         /\ backup[r][f] \in Contents \union {Absent, Torn}
         /\ backup'[r][f] = IF <<r, f>> \in lost THEN Torn ELSE backup[r][f]
      BY <1>1 DEF IInv, Typed, TypeOK
<1>3. backup' \in [Releases -> [Files -> Contents \union {Absent, Torn}]]
      BY <1>1, <1>2
<1>4. \A r \in Releases, f \in Files : backup'[r][f] \in {backup[r][f], Torn}
      BY <1>2
<1> QED BY <1>3, <1>4, ExitStep DEF PowerLoss

\* A run begins.
LEMMA BeginStep ==
    ASSUME IInv, NEW r \in Releases, Promote(r) \/ Restore(r)
    PROVE  IInv'
<1>1. /\ staged' = staged /\ target' = target /\ backup' = backup
      /\ dirty' = dirty /\ receipt' = receipt
      /\ edits' = edits /\ late' = late /\ raced' = raced /\ last' = last /\ writer' = writer
      BY SameDisk, SameHistory DEF Promote, Restore
<1>2. rel' = r /\ seen' = <<>> /\ op = "idle" /\ now' = now BY DEF Promote, Restore
<1>3. IsReceipt(seen') /\ DOMAIN seen' = {} BY <1>2, EmptyReceipt
<1>4. /\ op' \in {"read", "check"} /\ todo' \subseteq Files
      /\ op' = "read" => receipt[r] = None
      /\ op' = "check" => receipt[r] # None /\ todo' = DOMAIN receipt[r]
      BY DEF Promote, Restore, IInv, Typed, IsReceipt
<1>5. r # None BY NoneAssumption
<1>6. late = {}
  <2>1. IsReceipt(seen) /\ late \subseteq DOMAIN seen BY DEF IInv, Typed
  <2>2. op = "idle" => DOMAIN seen = {} BY DEF IInv, Typed
  <2> QED BY <1>2, <2>1, <2>2
<1>7. TypeOK' BY <1>1, <1>2, <1>3, <1>4, <1>5, <1>6 DEF IInv, Typed, TypeOK
<1>8. Typed' BY <1>1, <1>2, <1>3, <1>6, <1>7 DEF IInv, Typed
<1>9. Reading' /\ Replacing' /\ Undoing' /\ Facing'
  <2>1. now = None BY <1>2 DEF IInv, Typed, TypeOK
  <2> QED BY <1>1, <1>2, <1>3, <1>4, <2>1 DEF Reading, Replacing, Undoing, Facing
<1>10. (\A q \in Releases : Backups(q)') /\ Targets'
      BY <1>1 DEF IInv, Backups, Targets, Target
<1> QED BY <1>8, <1>9, <1>10 DEF IInv

\* The file that is read next, and those before it.
LEMMA SeenNext ==
    ASSUME IInv, NEW f \in Files, f \notin DOMAIN seen,
           seen' = [g \in DOMAIN seen \union {f} |-> IF g = f THEN target[f] ELSE seen[g]]
    PROVE  /\ DOMAIN seen' = DOMAIN seen \union {f} /\ IsReceipt(seen')
           /\ seen'[f] = target[f] /\ \A g \in DOMAIN seen : g # f /\ seen'[g] = seen[g]
<1>1. target[f] \in Originals BY DEF IInv, Typed, TypeOK, Originals
<1>2. IsReceipt(seen) BY DEF IInv, Typed
<1>3. DOMAIN seen' = DOMAIN seen \union {f} OBVIOUS
<1>4. seen'[f] = target[f] /\ \A g \in DOMAIN seen : g # f /\ seen'[g] = seen[g]
      OBVIOUS
<1>5. IsReceipt(seen') BY <1>1, <1>2 DEF IsReceipt
<1> QED BY <1>3, <1>4, <1>5

LEMMA ReadStep ==
    ASSUME IInv, NEW f \in Files, Read(f)
    PROVE  IInv'
<1>1. /\ staged' = staged /\ target' = target /\ receipt' = receipt
      /\ op' = op /\ rel' = rel /\ todo' = todo
      /\ now' = now /\ edits' = edits /\ late' = late /\ raced' = raced /\ last' = last /\ writer' = writer
      /\ op = "read" /\ f \in todo /\ f \notin DOMAIN seen
      BY SameHistory DEF Read
<1>2. rel \in Releases BY <1>1, Running
<1>3. /\ DOMAIN seen' = DOMAIN seen \union {f} /\ IsReceipt(seen')
      /\ seen'[f] = target[f] /\ \A g \in DOMAIN seen : g # f /\ seen'[g] = seen[g]
      BY <1>1, SeenNext DEF Read
<1>4. target[f] \in Contents \union {Absent} BY DEF IInv, Typed, TypeOK
<1>5. /\ backup' \in [Releases -> [Files -> Contents \union {Absent, Torn}]]
      /\ target[f] # Absent => backup'[rel][f] = target[f]
      /\ \A r \in Releases, g \in Files : r # rel \/ g # f => backup'[r][g] = backup[r][g]
      /\ dirty' \subseteq Releases \X Files
  <2>0. /\ backup \in [Releases -> [Files -> Contents \union {Absent, Torn}]]
        /\ dirty \subseteq Releases \X Files
        BY DEF IInv, Typed, TypeOK
  <2>1. CASE target[f] = Absent BY <2>0, <2>1 DEF Read
  <2>2. CASE target[f] # Absent
    <3>1. backup' = [backup EXCEPT ![rel][f] = target[f]] /\ dirty' = dirty \union {<<rel, f>>}
          BY <2>2 DEF Read
    <3> QED BY <1>2, <1>4, <2>0, <3>1
  <2> QED BY <2>1, <2>2
<1>6. TypeOK' BY <1>1, <1>3, <1>5 DEF IInv, Typed, TypeOK
<1>7. Typed' BY <1>1, <1>3, <1>6 DEF IInv, Typed
<1>8. Reading'
  <2>1. Reading /\ DOMAIN seen \subseteq Files /\ late \subseteq DOMAIN seen
        BY DEF IInv, Typed, IsReceipt
  <2>2. ASSUME NEW g \in DOMAIN seen'
        PROVE  /\ seen'[g] # Absent => backup'[rel][g] = seen'[g]
               /\ g \notin late => target[g] = seen'[g]
    <3>1. CASE g = f BY <1>3, <1>5, <3>1
    <3>2. CASE g # f
      <4>1. g \in DOMAIN seen /\ seen'[g] = seen[g] BY <1>3, <2>2, <3>2
      <4>2. backup'[rel][g] = backup[rel][g] BY <1>2, <1>5, <2>1, <3>2, <4>1
      <4> QED BY <1>1, <2>1, <4>1, <4>2 DEF Reading
    <3> QED BY <3>1, <3>2
  <2>3. DOMAIN seen' \subseteq todo BY <1>1, <1>3, <2>1 DEF Reading
  <2> QED BY <1>1, <2>1, <2>2, <2>3 DEF Reading
<1>9. Replacing' /\ Undoing' /\ Facing'
  <2>1. now = None BY <1>1 DEF IInv, Typed, TypeOK
  <2> QED BY <1>1, <2>1 DEF Replacing, Undoing, Facing
<1>10. ASSUME NEW r \in Releases PROVE Backups(r)'
  <2>1. receipt[rel] = None BY <1>1 DEF IInv, Reading
  <2>2. Backups(r) /\ (receipt[r] # None => DOMAIN receipt[r] \subseteq Files)
        BY DEF IInv, Typed, IsReceipt
  <2>3. CASE r = rel BY <1>1, <2>1, <2>3 DEF Backups
  <2>4. CASE r # rel BY <1>1, <1>5, <2>2, <2>4 DEF Backups
  <2> QED BY <2>3, <2>4
<1>11. Targets' BY <1>1 DEF IInv, Targets, Target
<1> QED BY <1>7, <1>8, <1>9, <1>10, <1>11 DEF IInv

LEMMA WriteReceiptStep ==
    ASSUME IInv, WriteReceipt
    PROVE  IInv'
<1>1. /\ staged' = staged /\ target' = target /\ backup' = backup /\ dirty' = dirty
      /\ op' = "replace" /\ rel' = rel /\ seen' = seen /\ todo' = todo
      /\ now' = now /\ edits' = edits /\ late' = late /\ raced' = raced /\ last' = rel
      /\ op = "read" /\ DOMAIN seen = todo
      BY DEF WriteReceipt
<1>2. rel \in Releases /\ rel # None BY <1>1, Running
<1>3. DOMAIN receipt = Releases /\ IsReceipt(seen) BY DEF IInv, Typed
<1>4. /\ DOMAIN receipt' = Releases /\ receipt'[rel] = seen
      /\ \A r \in Releases : r # rel => receipt'[r] = receipt[r]
      BY <1>2, <1>3 DEF WriteReceipt
<1>5. /\ writer' \in [Files -> Releases \union {None, "edit"}]
      /\ \A f \in Files : writer'[f] = IF f \in late THEN "edit" ELSE None
      BY DEF WriteReceipt
<1>6. seen # None
  <2>1. seen \in [DOMAIN seen -> Contents \union {Absent}] /\ DOMAIN seen \in SUBSET Files
        BY <1>3 DEF IsReceipt, Originals
  <2> QED BY <2>1, NoneAssumption
<1>7. TypeOK' BY <1>1, <1>2 DEF IInv, Typed, TypeOK
<1>8. Typed'
  <2>1. \A r \in Releases : receipt'[r] # None => IsReceipt(receipt'[r])
        BY <1>3, <1>4 DEF IInv, Typed
  <2>2. IsReceipt(seen') /\ late' \subseteq DOMAIN seen' /\ now' \in Files \union {None}
        BY <1>1 DEF IInv, Typed
  <2> QED BY <1>1, <1>2, <1>4, <1>5, <1>6, <1>7, <2>1, <2>2 DEF Typed, IsReceipt
<1>9. Reading BY DEF IInv
<1>10. Reading' /\ Replacing' /\ Undoing' /\ Facing'
  <2>1. now = None BY <1>1 DEF IInv, Typed, TypeOK
  <2> QED BY <1>1, <1>4, <1>9, <2>1 DEF Reading, Replacing, Undoing, Facing
<1>11. ASSUME NEW r \in Releases PROVE Backups(r)'
  <2>1. Backups(r) BY DEF IInv
  <2>2. CASE r = rel BY <1>1, <1>4, <1>9, <2>2 DEF Backups, Reading
  <2>3. CASE r # rel BY <1>1, <1>4, <2>1, <2>3 DEF Backups
  <2> QED BY <2>2, <2>3
<1>12. Targets'
  <2>1. ASSUME NEW f \in DOMAIN seen, writer'[f] \in {None, rel} PROVE target[f] = seen[f]
    <3>1. f \in Files BY <1>3 DEF IsReceipt
    <3>2. f \notin late BY <1>2, <1>5, <2>1, <3>1, NoneAssumption
    <3> QED BY <1>1, <1>9, <3>2 DEF Reading
  <2> QED BY <1>1, <1>4, <2>1 DEF Targets, Target
<1> QED BY <1>8, <1>10, <1>11, <1>12 DEF IInv

\* A run writes one of the two contents that its receipt allows, and is its writer.
LEMMA WriteStep ==
    ASSUME IInv, NEW f \in Files, NEW content \in Originals, NEW who \in Releases \union {None},
           op \in {"replace", "undo"}, f \in todo, Put(f, content, who),
           f \in DOMAIN receipt[rel], content \in {receipt[rel][f], staged[rel][f]},
           who \in {None, last} => rel = last
    PROVE  IInv'
<1>0. /\ now = f /\ Write(f, content, who) /\ todo' = todo \ {f} /\ now' = None /\ raced' = FALSE
      /\ UNCHANGED <<staged, backup, dirty, receipt, op, rel, seen, edits, late, last>>
      BY DEF Put
<1>1. /\ target \in [Files -> Originals] /\ writer \in [Files -> Releases \union {None, "edit"}]
      BY DEF IInv, Typed, TypeOK, Originals
<1>2. /\ target' \in [Files -> Originals] /\ target'[f] = content
      /\ \A g \in Files : g # f => target'[g] = target[g]
      BY <1>0, <1>1 DEF Write
<1>3. /\ writer' \in [Files -> Releases \union {None, "edit"}]
      /\ writer'[f] = IF content = target[f] THEN writer[f] ELSE who
      /\ \A g \in Files : g # f => writer'[g] = writer[g]
      BY <1>0, <1>1 DEF Write
<1>4. TypeOK' BY <1>0, <1>2 DEF IInv, Typed, TypeOK, Originals
<1>5. Typed' BY <1>0, <1>3, <1>4 DEF IInv, Typed
<1>6. Reading' /\ Replacing' /\ Facing' BY <1>0 DEF IInv, Reading, Replacing, Facing
<1>7. Undoing'
  <2>1. CASE op = "undo"
    <3>1. Undoing /\ DOMAIN seen \subseteq Files BY DEF IInv, Typed, IsReceipt
    <3>2. ASSUME NEW g \in DOMAIN seen \ late PROVE target'[g] \in {receipt[rel][g], staged[rel][g]}
      <4>1. CASE g = f BY <1>2, <4>1
      <4>2. CASE g # f
        <5>1. target'[g] = target[g] BY <1>2, <3>1, <4>2
        <5> QED BY <1>0, <2>1, <3>1, <5>1 DEF Undoing
      <4> QED BY <4>1, <4>2
    <3>3. todo' \subseteq DOMAIN receipt[rel] BY <1>0, <2>1, <3>1 DEF Undoing
    <3> QED BY <1>0, <2>1, <3>1, <3>2, <3>3 DEF Undoing
  <2>2. CASE op = "replace" BY <1>0, <2>2 DEF Undoing
  <2> QED BY <2>1, <2>2
<1>8. \A r \in Releases : Backups(r)' BY <1>0 DEF IInv, Backups
<1>9. ASSUME last # None, NEW g \in DOMAIN receipt[last] PROVE Target(g)'
  <2>1. g \in Files /\ Target(g) BY <1>9, <1>0 DEF IInv, Typed, TypeOK, IsReceipt, Targets
  <2>2. CASE g # f BY <1>0, <1>2, <1>3, <2>1, <2>2 DEF Target
  <2>3. CASE g = f /\ content = target[f] BY <1>0, <1>2, <1>3, <2>1, <2>3 DEF Target
  <2>4. CASE g = f /\ content # target[f]
    <3>1. writer'[f] = who /\ target'[f] = content BY <1>2, <1>3, <2>4
    <3> QED BY <1>0, <2>4, <3>1 DEF Target
  <2> QED BY <2>2, <2>3, <2>4
<1>10. Targets' BY <1>0, <1>9 DEF Targets
<1> QED BY <1>5, <1>6, <1>7, <1>8, <1>10 DEF IInv

LEMMA ReplaceStep ==
    ASSUME IInv, NEW f \in Files, Replace(f)
    PROVE  IInv'
<1>1. op = "replace" /\ now = f /\ Put(f, staged[rel][f], rel) BY DEF Replace, Put
<1>2. f \in todo BY <1>1, NoneAssumption DEF IInv, Typed, TypeOK
<1>3. rel \in Releases /\ rel = last /\ f \in DOMAIN receipt[rel]
      BY <1>1, <1>2, Running DEF IInv, Typed, TypeOK, Replacing
<1>4. staged[rel][f] \in Originals BY <1>3 DEF IInv, Typed, TypeOK, Originals
<1> QED BY <1>1, <1>2, <1>3, <1>4, WriteStep

LEMMA UndoStep ==
    ASSUME IInv, NEW f \in Files, Undo(f)
    PROVE  IInv'
<1> DEFINE who == IF rel = last THEN None ELSE rel
<1>1. op = "undo" /\ now = f /\ Put(f, Before(f), who) BY DEF Undo, Put
<1>2. f \in todo BY <1>1, NoneAssumption DEF IInv, Typed, TypeOK
<1>3. rel \in Releases /\ rel # None BY <1>1, Running
<1>4. receipt[rel] # None /\ f \in DOMAIN receipt[rel] BY <1>1, <1>2 DEF IInv, Undoing
<1>5. Before(f) \in Originals BY <1>3, <1>4 DEF IInv, Typed, IsReceipt, Before
<1>6. who \in Releases \union {None} /\ (who \in {None, last} => rel = last) BY <1>3
<1>7. Before(f) \in {receipt[rel][f], staged[rel][f]} BY DEF Before
<1> HIDE DEF who
<1> QED BY <1>1, <1>2, <1>4, <1>5, <1>6, <1>7, WriteStep

LEMMA CompareStep ==
    ASSUME IInv, NEW f \in Files, Compare(f)
    PROVE  IInv'
<1>1. CASE target[f] # seen[f] BY <1>1, PlainExit DEF Compare
<1>2. CASE target[f] = seen[f]
  <2>1. /\ staged' = staged /\ target' = target /\ backup' = backup /\ dirty' = dirty
        /\ receipt' = receipt /\ op' = op /\ rel' = rel /\ seen' = seen /\ todo' = todo
        /\ edits' = edits /\ late' = late /\ raced' = raced /\ last' = last /\ writer' = writer
        /\ op \in {"replace", "undo"} /\ f \in todo /\ now' = f
        BY <1>2, SameDisk, SameHistory DEF Compare
  <2>2. ~raced BY <1>2, NoneAssumption DEF Compare, IInv, Typed, TypeOK
  <2>3. TypeOK' BY <2>1, <2>2 DEF IInv, Typed, TypeOK
  <2>4. Typed' BY <2>1, <2>3 DEF IInv, Typed
  <2>5. Facing' BY <1>2, <2>1 DEF Facing
  <2>6. Reading' /\ Replacing' /\ Undoing' BY <2>1 DEF IInv, Reading, Replacing, Undoing
  <2>7. (\A r \in Releases : Backups(r)') /\ Targets'
        BY <2>1 DEF IInv, Backups, Targets, Target
  <2> QED BY <2>4, <2>5, <2>6, <2>7 DEF IInv
<1> QED BY <1>1, <1>2

LEMMA CheckStep ==
    ASSUME IInv, NEW f \in Files, Check(f)
    PROVE  IInv'
<1>1. op = "check" /\ f \in todo /\ f \notin DOMAIN seen BY DEF Check
<1>2. CASE ~Restorable(f) BY <1>2, PlainExit DEF Check
<1>3. CASE Restorable(f)
  <2>1. /\ staged' = staged /\ target' = target /\ backup' = backup /\ dirty' = dirty
        /\ receipt' = receipt /\ op' = op /\ rel' = rel /\ todo' = todo
        /\ now' = now /\ edits' = edits /\ late' = late /\ raced' = raced /\ last' = last /\ writer' = writer
        BY <1>3, SameDisk, SameHistory DEF Check
  <2>2. /\ DOMAIN seen' = DOMAIN seen \union {f} /\ IsReceipt(seen')
        /\ seen'[f] = target[f] /\ \A g \in DOMAIN seen : g # f /\ seen'[g] = seen[g]
        BY <1>1, <1>3, SeenNext DEF Check
  <2>3. TypeOK' BY <1>1, <2>1, <2>2 DEF IInv, Typed, TypeOK
  <2>4. Typed' BY <1>1, <2>1, <2>2, <2>3 DEF IInv, Typed
  <2>5. Reading' /\ Replacing' /\ Facing'
    <3>1. now = None BY <1>1 DEF IInv, Typed, TypeOK
    <3> QED BY <1>1, <2>1, <3>1 DEF Reading, Replacing, Facing
  <2>6. Undoing'
    <3>1. Undoing BY DEF IInv
    <3>2. target[f] \in {receipt[rel][f], staged[rel][f]} BY <1>3 DEF Restorable, Before
    <3> QED BY <1>1, <2>1, <2>2, <3>1, <3>2 DEF Undoing
  <2>7. (\A r \in Releases : Backups(r)') /\ Targets'
        BY <2>1 DEF IInv, Backups, Targets, Target
  <2> QED BY <2>4, <2>5, <2>6, <2>7 DEF IInv
<1> QED BY <1>2, <1>3

LEMMA CheckedStep ==
    ASSUME IInv, Checked \/ Flush \/ UNCHANGED vars
    PROVE  IInv'
<1>1. /\ staged' = staged /\ target' = target /\ backup' = backup
      /\ dirty' \subseteq dirty
      /\ receipt' = receipt /\ rel' = rel /\ seen' = seen /\ todo' = todo
      /\ now' = now /\ edits' = edits /\ late' = late /\ raced' = raced /\ last' = last /\ writer' = writer
      BY SameDisk, SameHistory DEF Checked, Flush, vars, run
<1>2. op' = op \/ (op = "check" /\ op' = "undo" /\ DOMAIN seen = todo)
      BY DEF Checked, Flush, vars, run
<1>3. TypeOK' BY <1>1, <1>2 DEF IInv, Typed, TypeOK
<1>4. Typed' BY <1>1, <1>2, <1>3 DEF IInv, Typed
<1>5. Reading' /\ Replacing' /\ Facing' BY <1>1, <1>2 DEF IInv, Reading, Replacing, Facing
<1>6. Undoing' BY <1>1, <1>2 DEF IInv, Undoing
<1>7. (\A r \in Releases : Backups(r)') /\ Targets'
      BY <1>1 DEF IInv, Backups, Targets, Target
<1> QED BY <1>4, <1>5, <1>6, <1>7 DEF IInv

\* The operator edits a file.
LEMMA EditStep ==
    ASSUME IInv, NEW f \in Files, NEW content \in Contents \union {Absent}, Edit(f, content)
    PROVE  IInv'
<1>1. /\ staged' = staged /\ backup' = backup /\ dirty' = dirty /\ receipt' = receipt
      /\ op' = op /\ rel' = rel /\ seen' = seen /\ todo' = todo /\ last' = last
      /\ now' = now /\ raced' = (raced \/ f = now)
      /\ edits < MaxEdits /\ edits' = edits + 1 /\ content # target[f]
      BY DEF Edit, run
<1>2. /\ late \subseteq late' /\ late' \subseteq late \union {f} /\ late' \subseteq DOMAIN seen
      /\ f \in DOMAIN seen => f \in late'
      BY DEF Edit, IInv, Typed
<1>3. /\ target \in [Files -> Originals] /\ writer \in [Files -> Releases \union {None, "edit"}]
      BY DEF IInv, Typed, TypeOK, Originals
<1>4. /\ target' \in [Files -> Originals]
      /\ \A g \in Files : g # f => target'[g] = target[g]
      BY <1>3 DEF Edit, Write, Originals
<1>5. /\ writer' \in [Files -> Releases \union {None, "edit"}] /\ writer'[f] = "edit"
      /\ \A g \in Files : g # f => writer'[g] = writer[g]
      BY <1>1, <1>3 DEF Edit, Write
<1>6. edits' \in 0..MaxEdits
      BY <1>1, MaxEditsAssumption DEF IInv, Typed, TypeOK
<1>7. TypeOK' BY <1>1, <1>2, <1>4, <1>6, NoneAssumption DEF IInv, Typed, TypeOK, Originals
<1>8. Typed' BY <1>1, <1>2, <1>5, <1>7 DEF IInv, Typed
<1>9. \A g \in DOMAIN seen : g \notin late' => g \notin late /\ target'[g] = target[g]
      BY <1>2, <1>4 DEF IInv, Typed, IsReceipt
<1>10. Reading' BY <1>1, <1>9 DEF IInv, Reading
<1>11. Replacing' BY <1>1 DEF IInv, Replacing
<1>12. Undoing' BY <1>1, <1>9 DEF IInv, Undoing
<1>16. Facing' BY <1>1, <1>4 DEF IInv, Typed, Facing
<1>13. \A r \in Releases : Backups(r)' BY <1>1 DEF IInv, Backups
<1>14. ASSUME last # None, NEW g \in DOMAIN receipt[last] PROVE Target(g)'
  <2>1. g \in Files /\ Target(g) /\ last \in Releases
        BY <1>14 DEF IInv, Typed, TypeOK, IsReceipt, Targets
  <2>2. CASE g # f BY <1>1, <1>4, <1>5, <2>1, <2>2 DEF Target
  <2>3. CASE g = f BY <1>1, <1>5, <2>1, <2>3, NoneAssumption DEF Target
  <2> QED BY <2>2, <2>3
<1>15. Targets' BY <1>1, <1>14 DEF Targets
<1> QED BY <1>8, <1>10, <1>11, <1>12, <1>13, <1>15, <1>16 DEF IInv
-----------------------------------------------------------------------------
(* The invariant, and the properties.                                      *)

LEMMA InitInv == Init => IInv
<1> SUFFICES ASSUME Init PROVE IInv
    OBVIOUS
<1>1. IsReceipt(seen) /\ DOMAIN seen = {} BY EmptyReceipt DEF Init
<1>2. backup \in [Releases -> [Files -> Contents \union {Absent, Torn}]] BY DEF Init
<1>3. TypeOK
  <2>1. DOMAIN seen \union todo \union late = {} BY <1>1 DEF Init
  <2>2. edits \in 0..MaxEdits BY MaxEditsAssumption DEF Init
  <2> QED BY <1>2, <2>1, <2>2 DEF Init, TypeOK
<1>4. Typed BY <1>1, <1>3 DEF Init, Typed
<1> QED BY <1>4 DEF Init, IInv, Reading, Replacing, Undoing, Facing, Backups, Targets

LEMMA NextInv == IInv /\ [Next]_vars => IInv'
<1> SUFFICES ASSUME IInv, [Next]_vars PROVE IInv'
    OBVIOUS
<1>1. ASSUME NEW r \in Releases, Promote(r) \/ Restore(r) PROVE IInv'
      BY <1>1, BeginStep
<1>2. ASSUME NEW f \in Files, Read(f) \/ Compare(f) \/ Replace(f) \/ Check(f) \/ Undo(f) PROVE IInv'
      BY <1>2, ReadStep, CompareStep, ReplaceStep, CheckStep, UndoStep
<1>3. ASSUME NEW f \in Files, NEW content \in Contents \union {Absent}, Edit(f, content) PROVE IInv'
      BY <1>3, EditStep
<1>4. CASE Done \/ Killed BY <1>4, PlainExit DEF Done, Killed
<1>5. CASE Checked \/ Flush \/ UNCHANGED vars BY <1>5, CheckedStep
<1>6. CASE WriteReceipt BY <1>6, WriteReceiptStep
<1>7. CASE PowerLoss BY <1>7, PowerLossStep
<1> QED BY <1>1, <1>2, <1>3, <1>4, <1>5, <1>6, <1>7 DEF Next

\* Every behaviour keeps the invariant.
THEOREM Invariance == Spec => []IInv
<1> QED BY InitInv, NextInv, PTL DEF Spec

\* However often a promotion or its restoration is interrupted, the originals can be
\* put back, unless somebody else wrote or a power loss took a backup.
THEOREM RecoverableHolds == Spec => []Recoverable
<1>1. ASSUME IInv, last # None,
             \A f \in Files : writer[f] \in {None, last} /\ backup[last][f] # Torn,
             NEW f \in DOMAIN receipt[last]
      PROVE  /\ target[f] \in {receipt[last][f], staged[last][f]}
             /\ receipt[last][f] # Absent => backup[last][f] = receipt[last][f]
  <2>1. last \in Releases /\ receipt[last] # None BY <1>1 DEF IInv, Typed, TypeOK
  <2>2. f \in Files BY <1>1, <2>1 DEF IInv, Typed, IsReceipt
  <2>3. Target(f) /\ Backups(last) BY <1>1, <2>1 DEF IInv, Targets
  <2> QED BY <1>1, <2>1, <2>2, <2>3 DEF Target, Backups
<1>2. IInv => TypeOK BY DEF IInv, Typed
<1>3. IInv => Recoverable BY <1>1, <1>2 DEF Recoverable
<1> QED BY <1>3, Invariance, PTL

\* A target changes by a step of the run, once it has been compared, or of the operator.
LEMMA WhoWrites ==
    ASSUME IInv, [Next]_vars, NEW f \in Files, Changes(f)
    PROVE  op \in {"replace", "undo"} /\ now = f /\ f \in DOMAIN seen
<1>1. target' # target BY DEF Changes
<1>2. ASSUME NEW g \in Files, NEW content, Edit(g, content) PROVE FALSE
  <2>1. edits \in Nat BY DEF IInv, Typed, TypeOK
  <2> QED BY <1>2, <2>1 DEF Edit, Changes
<1>3. PICK g \in Files : Replace(g) \/ Undo(g)
  <2>1. ASSUME NEW r \in Releases PROVE ~Promote(r) /\ ~Restore(r)
        BY <1>1, SameDisk DEF Promote, Restore
  <2>2. ASSUME NEW g \in Files PROVE ~Read(g) /\ ~Check(g) /\ ~Compare(g)
        BY <1>1, SameDisk DEF Read, Check, Compare
  <2>3. ~WriteReceipt /\ ~Checked /\ ~Done /\ ~Killed /\ ~Flush /\ ~PowerLoss /\ ~(UNCHANGED vars)
        BY <1>1, SameDisk DEF WriteReceipt, Checked, Done, Killed, Flush, PowerLoss, vars
  <2> QED BY <1>2, <2>1, <2>2, <2>3 DEF Next
<1>4. op \in {"replace", "undo"} /\ now = g BY <1>3 DEF Replace, Undo, Put
<1>5. \A h \in Files : h # g => target'[h] = target[h]
  <2>1. \E content, who : Write(g, content, who) BY <1>3 DEF Replace, Undo, Put
  <2> QED BY <2>1 DEF Write, IInv, Typed, TypeOK
<1>6. f = g BY <1>5 DEF Changes
<1>7. g \in todo /\ todo \subseteq DOMAIN seen BY <1>4, NoneAssumption DEF IInv, Typed, TypeOK
<1> QED BY <1>4, <1>6, <1>7

\* Nothing is overwritten that cannot be had again, but for an edit of the very file
\* between its comparison and its replacement.
THEOREM NothingLostHolds == Spec => NothingLost
<1>1. ASSUME IInv, [Next]_vars, NEW f \in Files, Changes(f), target[f] # Absent, ~raced
      PROVE  IF op = "replace" THEN backup[rel][f] = target[f]
             ELSE target[f] \in {receipt[rel][f], staged[rel][f]}
  <2>1. op \in {"replace", "undo"} /\ now = f /\ f \in DOMAIN seen BY <1>1, WhoWrites
  <2>2. target[f] = seen[f] BY <1>1, <2>1, NoneAssumption DEF IInv, Facing
  <2>3. CASE op = "replace" BY <1>1, <2>1, <2>2, <2>3 DEF IInv, Replacing
  <2>4. CASE op = "undo" BY <1>1, <2>1, <2>2, <2>4 DEF IInv, Undoing
  <2> QED BY <2>1, <2>3, <2>4
<1>2. IInv /\ [Next]_vars =>
         [\A f \in Files : Changes(f) /\ target[f] # Absent /\ ~raced =>
             IF op = "replace" THEN backup[rel][f] = target[f]
             ELSE target[f] \in {receipt[rel][f], staged[rel][f]}]_vars
      BY <1>1
<1> QED BY <1>2, Invariance, PTL DEF Spec, NothingLost

\* A restoration writes only when each file is one of the two its receipt knows, but for
\* edits made while it runs.
THEOREM AllOrNothingHolds == Spec => AllOrNothing
<1>1. ASSUME IInv, op = "undo", NEW g \in DOMAIN receipt[rel] \ late
      PROVE  target[g] \in {receipt[rel][g], staged[rel][g]}
      BY <1>1 DEF IInv, Undoing
<1>2. IInv /\ [Next]_vars =>
         [\A f \in Files : op = "undo" /\ Changes(f) =>
             \A g \in DOMAIN receipt[rel] \ late :
                target[g] \in {receipt[rel][g], staged[rel][g]}]_vars
      BY <1>1
<1> QED BY <1>2, Invariance, PTL DEF Spec, AllOrNothing
=============================================================================
