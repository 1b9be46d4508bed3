------------------------------- MODULE Release -------------------------------
(***************************************************************************)
(* Installing and restoring staged releases of the controller on one host: *)
(* scripts/native/deploy_release.py.  A promotion backs up what it is to   *)
(* overwrite, writes the receipt and then replaces file after file; it can *)
(* die between any two steps, and restore is to bring the files back.  The *)
(* flock deploy.lock admits one run at a time; the operator takes no lock. *)
(*                                                                         *)
(* A file is compared with what was read of it, and replaced some time     *)
(* later: the new content is written and synced in between.                *)
(***************************************************************************)
EXTENDS Naturals, FiniteSets

CONSTANTS Files, Config,    \* the targets; config/cluster.json is one of them
          Releases,         \* the directories under deployments
          Contents, Absent, \* what is in a file, or that there is none
          Torn, None,
          MaxEdits          \* bound on the edits of the operator

ASSUME ConfigAssumption == Config \in Files
ASSUME MaxEditsAssumption == MaxEdits \in Nat
ASSUME NoneAssumption == /\ None \notin Releases \union {"edit"} /\ "edit" \notin Releases
                         /\ None \notin Files
                         /\ \A S \in SUBSET Files : None \notin [S -> Contents \union {Absent}]

VARIABLES
    staged,     \* staged[r][f]: the file in the release
    target,     \* target[f]: the file at its destination
    backup,     \* backup[r][f]: the file under r/previous
    dirty,      \* backups that are not on the disk yet
    receipt,    \* receipt[r]: "before" of each entry, or None
    op, rel,    \* what the run that has the lock does, and its release
    seen,       \* seen[f]: what the run has read of the targets so far
    todo,       \* targets the run has to replace yet
    now,        \* the one of them that it has compared and is about to replace, or None
    edits,      \* number of edits
    late,       \* files edited since the run read them
    raced,      \* now has been edited since it was compared
    last,       \* the release of the last receipt
    writer      \* writer[f]: who has changed f since then and not undone it, or None

disk == <<staged, target, backup, dirty, receipt>>
run == <<op, rel, seen, todo, now>>
history == <<edits, late, raced, last, writer>>
vars == <<disk, run, history>>

Init == /\ staged \in [Releases -> [Files -> Contents]]
        /\ target \in [Files -> Contents \union {Absent}]
        /\ backup = [r \in Releases |-> [f \in Files |-> Absent]]
        /\ receipt = [r \in Releases |-> None] /\ dirty = {}
        /\ op = "idle" /\ rel = None /\ seen = <<>> /\ todo = {} /\ now = None
        /\ edits = 0 /\ late = {} /\ raced = FALSE /\ last = None /\ writer = [f \in Files |-> None]

Exit == /\ op' = "idle" /\ rel' = None /\ seen' = <<>> /\ todo' = {} /\ now' = None
        /\ late' = {} /\ raced' = FALSE
Write(f, content, who) == /\ target' = [target EXCEPT ![f] = content]
                          /\ writer' = [writer EXCEPT ![f] = IF content = target[f] THEN @ ELSE who]
-----------------------------------------------------------------------------
(***************************************************************************)
(* promote.                                                                *)
(***************************************************************************)

\* The configuration of the operator stays, and is created only if there is none.
Promote(r) == /\ op = "idle" /\ receipt[r] = None
              /\ op' = "read" /\ rel' = r /\ seen' = <<>>
              /\ todo' = IF target[Config] = Absent THEN Files ELSE Files \ {Config}
              /\ UNCHANGED <<disk, now, history>>

\* The original is read and backed up, if there is one.
Read(f) ==
    /\ op = "read" /\ f \in todo \ DOMAIN seen
    /\ seen' = [g \in DOMAIN seen \union {f} |-> IF g = f THEN target[f] ELSE seen[g]]
    /\ IF target[f] = Absent THEN UNCHANGED <<backup, dirty>> ELSE
       /\ backup' = [backup EXCEPT ![rel][f] = target[f]]
       /\ dirty' = dirty \union {<<rel, f>>}
    /\ UNCHANGED <<staged, target, receipt, op, rel, todo, now, history>>

\* Seeded fault: the receipt goes first and the files are read as they are replaced.
WriteReceipt_First ==
    /\ op = "read"
    /\ receipt' = [receipt EXCEPT ![rel] = [f \in todo |-> target[f]]]
    /\ op' = "replace" /\ seen' = [f \in todo |-> target[f]] /\ last' = rel
    /\ writer' = [f \in Files |-> None]
    /\ UNCHANGED <<staged, target, backup, dirty, rel, todo, now, edits, late, raced>>

WriteReceipt ==
    /\ op = "read" /\ DOMAIN seen = todo
    /\ receipt' = [receipt EXCEPT ![rel] = seen]
    /\ op' = "replace" /\ last' = rel
    /\ writer' = [f \in Files |-> IF f \in late THEN "edit" ELSE None]
    /\ UNCHANGED <<staged, target, backup, dirty, rel, seen, todo, now, edits, late, raced>>

\* Seeded fault: the file is not looked at again before it is replaced.
Compare_Not(f) == /\ op \in {"replace", "undo"} /\ now = None /\ f \in todo
                  /\ now' = f
                  /\ UNCHANGED <<disk, op, rel, seen, todo, history>>

\* Promotion and restoration look at each file again before they replace it; one that
\* is not what it was ends them.
Compare(f) ==
    /\ op \in {"replace", "undo"} /\ now = None /\ f \in todo
    /\ IF target[f] = seen[f]
       THEN now' = f /\ UNCHANGED <<disk, op, rel, seen, todo, history>>
       ELSE Exit /\ UNCHANGED <<disk, edits, last, writer>>

\* os.replace, or the unlink of a restoration: nobody looks at the file any more.
Put(f, content, who) ==
    /\ now = f /\ Write(f, content, who)
    /\ todo' = todo \ {f} /\ now' = None /\ raced' = FALSE
    /\ UNCHANGED <<staged, backup, dirty, receipt, op, rel, seen, edits, late, last>>

Replace(f) == op = "replace" /\ Put(f, staged[rel][f], rel)

Done == op \in {"replace", "undo"} /\ todo = {} /\ Exit /\ UNCHANGED <<disk, edits, last, writer>>
-----------------------------------------------------------------------------
(***************************************************************************)
(* restore.                                                                *)
(***************************************************************************)

Restore(r) == /\ op = "idle" /\ receipt[r] # None
              /\ op' = "check" /\ rel' = r /\ seen' = <<>> /\ todo' = DOMAIN receipt[r]
              /\ UNCHANGED <<disk, now, history>>

Before(f) == receipt[rel][f]
\* "after" is the checksum of the staged file.
Restorable(f) == /\ target[f] \in {Before(f), staged[rel][f]}
                 /\ Before(f) # Absent => backup[rel][f] = Before(f)

Check(f) ==
    /\ op = "check" /\ f \in todo \ DOMAIN seen
    /\ IF Restorable(f)
       THEN /\ seen' = [g \in DOMAIN seen \union {f} |-> IF g = f THEN target[f] ELSE seen[g]]
            /\ UNCHANGED <<disk, op, rel, todo, now, history>>
       ELSE Exit /\ UNCHANGED <<disk, edits, last, writer>>

\* Seeded fault: each file is restored as soon as it is checked.
Checked_Some == /\ op = "check" /\ DOMAIN seen # {}
                /\ op' = "undo" /\ todo' = DOMAIN seen
                /\ UNCHANGED <<disk, rel, seen, now, history>>

Checked == /\ op = "check" /\ DOMAIN seen = todo
           /\ op' = "undo"
           /\ UNCHANGED <<disk, rel, seen, todo, now, history>>

Undo(f) == op = "undo" /\ Put(f, Before(f), IF rel = last THEN None ELSE rel)
-----------------------------------------------------------------------------
(***************************************************************************)
(* The environment.                                                        *)
(***************************************************************************)

Killed == op # "idle" /\ Exit /\ UNCHANGED <<disk, edits, last, writer>>

\* The kernel writes the backups out in its own time.
Flush == dirty # {} /\ dirty' = {}
         /\ UNCHANGED <<staged, target, backup, receipt, run, history>>

\* replace calls fsync, write_bytes does not.
PowerLoss ==
    /\ Exit
    /\ \E lost \in SUBSET dirty :
          backup' = [r \in Releases |-> [f \in Files |->
                        IF <<r, f>> \in lost THEN Torn ELSE backup[r][f]]]
    /\ dirty' = {}
    /\ UNCHANGED <<staged, target, receipt, edits, last, writer>>

\* The operator writes, creates or removes a file.
Edit(f, content) == /\ edits < MaxEdits /\ content # target[f]
                    /\ Write(f, content, "edit")
                    /\ edits' = edits + 1
                    /\ late' = IF f \in DOMAIN seen THEN late \union {f} ELSE late
                    /\ raced' = (raced \/ f = now)
                    /\ UNCHANGED <<staged, backup, dirty, receipt, run, last>>

Next == \/ \E r \in Releases : Promote(r) \/ Restore(r)
        \/ \E f \in Files : Read(f) \/ Compare(f) \/ Replace(f) \/ Check(f) \/ Undo(f)
        \/ WriteReceipt \/ Checked \/ Done \/ Killed \/ Flush \/ PowerLoss
        \/ \E f \in Files, content \in Contents \union {Absent} : Edit(f, content)

Spec == Init /\ [][Next]_vars
-----------------------------------------------------------------------------
(***************************************************************************)
(* Properties.                                                             *)
(***************************************************************************)

\* Types; only one run at a time has read anything, and what it still has to
\* replace or undo, it has read.
TypeOK ==
    /\ staged \in [Releases -> [Files -> Contents]]
    /\ target \in [Files -> Contents \union {Absent}]
    /\ backup \in [Releases -> [Files -> Contents \union {Absent, Torn}]]
    /\ dirty \subseteq Releases \X Files
    /\ op \in {"idle", "read", "replace", "check", "undo"} /\ rel \in Releases \union {None}
    /\ op = "idle" <=> rel = None
    /\ DOMAIN seen \union todo \union late \subseteq Files
    /\ op \in {"replace", "undo"} => todo \subseteq DOMAIN seen
    /\ now # None => op \in {"replace", "undo"} /\ now \in todo
    /\ raced \in BOOLEAN /\ (raced => now # None)
    /\ edits \in 0..MaxEdits /\ last \in Releases \union {None}

\* The promotion or restoration, not the operator, changes f.
Changes(f) == target'[f] # target[f] /\ edits' = edits

\* A run overwrites nothing that cannot be had again: a promotion what it has backed
\* up, a restoration one of the two contents of its receipt.  An edit made while it runs
\* ends it ("Target changed during deployment"), unless it is of the file that is being
\* replaced, after its comparison and before os.replace (deploy_release.py:86-89,
\* 107-113): that one is lost.
NothingLost ==
    [][\A f \in Files : Changes(f) /\ target[f] # Absent /\ ~raced =>
          IF op = "replace" THEN backup[rel][f] = target[f]
          ELSE target[f] \in {receipt[rel][f], staged[rel][f]}]_vars

\* Wherever the last promotion, or a restoration of it, has been interrupted, and
\* however often: if nobody else wrote since, and no power loss took a backup, a
\* restoration is not refused and puts back the originals ("Accept untouched files
\* from an interrupted promotion").
Recoverable ==
    /\ TypeOK
    /\ (/\ last # None
        /\ \A f \in Files : writer[f] \in {None, last} /\ backup[last][f] # Torn)
       => \A f \in DOMAIN receipt[last] :
              /\ target[f] \in {receipt[last][f], staged[last][f]}
              /\ receipt[last][f] # Absent => backup[last][f] = receipt[last][f]

\* restore changes nothing at all if one of the files has been edited since the
\* deployment, unless the edit comes while it runs.
AllOrNothing ==
    [][\A f \in Files : op = "undo" /\ Changes(f) =>
          \A g \in DOMAIN receipt[rel] \ late :
              target[g] \in {receipt[rel][g], staged[rel][g]}]_vars
=============================================================================
