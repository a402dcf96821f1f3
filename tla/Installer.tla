------------------------------- MODULE Installer -------------------------------
(***************************************************************************)
(* installFromRemote of repack/Installer.cpp: a checkpoint is copied, one  *)
(* operation of the plan after the other, into the files of                *)
(* <output>.partial, which is renamed to <output> once it is complete.     *)
(* Attempts end at any step, of their own accord or killed, the machine    *)
(* may lose power, and several installers may be started for one output.   *)
(*                                                                         *)
(* The operations on one output file are one operation here, and content   *)
(* is the plan it was laid out by; the plans have files of equal sizes, so *)
(* that only the fingerprint tells them apart.  What has been written but  *)
(* not flushed may or may not survive a power loss.  Creating, renaming    *)
(* and removing files reach the disk in the order they are done, as on a   *)
(* journalling file system.  Sidecars and hashes come with the manifest.   *)
(* The installer does not look whether the state file could be removed: a  *)
(* removal may do nothing.                                                 *)
(***************************************************************************)
EXTENDS Integers

CONSTANTS
    Installer,      \* processes
    Plan,           \* what can be installed: checkpoint, revision and layout
    Ops,            \* operations of a plan
    CheckpointOps,  \* kCheckpointBytes
    FilesVanish,    \* files of the partial directory may be deleted
    Nobody, Missing, Zero

ASSUME InstallerAssumption ==
    /\ Ops \in Nat \ {0}
    /\ CheckpointOps \in Nat \ {0}
    /\ FilesVanish \in BOOLEAN
    /\ Nobody \notin Installer \cup Plan
    /\ Missing \notin Plan /\ Zero \notin Plan /\ Missing # Zero

Op == 1 .. Ops

VARIABLES
    \* The partial directory.
    partial,    \* it exists
    file,       \* what the output files hold
    durable,    \* what of it is on the disk
    record,     \* install-state.json: a plan's fingerprint and opsCompleted
    manifest,   \* there is a manifest
    lock,       \* who has install.lock open
    \* The output directory.
    installed,  \* its files and whether it has a manifest
    \* The installers.
    pc,
    plan,       \* what each is installing
    next,       \* the operations behind it
    checkpoint, \* nextCheckpoint
    cancelled,  \* it stops after the record it is writing
    \* History variable.
    overtaken,  \* the lock was taken while another installer was promoting
    stale       \* what outlived a start over: a record, then files built on it

directory == <<partial, file, durable, record, manifest>>
locals == <<plan, next, checkpoint, cancelled>>
past == <<overtaken, stale>>
vars == <<partial, file, durable, record, manifest, lock, installed,
          pc, plan, next, checkpoint, cancelled, overtaken, stale>>

Directory(files, marker) == [file |-> files, manifest |-> marker]
NoFiles == [op \in Op |-> Missing]
Absent == Directory(NoFiles, FALSE)
NoRecord == [plan |-> Nobody, ops |-> 0]
Installing(p, to) == pc' = [pc EXCEPT ![p] = to]

\* The attempts of these processes are over.
Over(ps) ==
    /\ pc' = [p \in Installer |-> IF p \in ps THEN "idle" ELSE pc[p]]
    /\ plan' = [p \in Installer |-> IF p \in ps THEN Nobody ELSE plan[p]]
    /\ next' = [p \in Installer |-> IF p \in ps THEN 0 ELSE next[p]]
    /\ checkpoint' = [p \in Installer |-> IF p \in ps THEN 0 ELSE checkpoint[p]]
    /\ cancelled' = [p \in Installer |-> p \notin ps /\ cancelled[p]]

\* What the operations of a plan make.
Made(of) == [op \in Op |-> of]

\* There may be an earlier install.
Init ==
    /\ partial = FALSE /\ file = NoFiles /\ durable = NoFiles
    /\ record = NoRecord /\ manifest = FALSE
    /\ lock = Nobody
    /\ installed \in {Absent} \cup {Directory(Made(of), TRUE) : of \in Plan}
    /\ pc = [p \in Installer |-> "idle"]
    /\ plan = [p \in Installer |-> Nobody]
    /\ next = [p \in Installer |-> 0]
    /\ checkpoint = [p \in Installer |-> 0]
    /\ cancelled = [p \in Installer |-> FALSE]
    /\ overtaken = FALSE /\ stale = "nothing"

-----------------------------------------------------------------------------
(* An attempt.                                                             *)

\* Mutant: an earlier install is removed at once.
BeginClearing(p, of, overwrite) ==
    /\ pc[p] = "idle"
    /\ installed = Absent \/ overwrite
    /\ installed' = Absent
    /\ plan' = [plan EXCEPT ![p] = of]
    /\ Installing(p, "planned")
    /\ UNCHANGED <<directory, lock, next, checkpoint, cancelled, past>>

\* Up to the plan.
Begin(p, of, overwrite) ==
    /\ pc[p] = "idle"
    /\ installed = Absent \/ overwrite
    /\ plan' = [plan EXCEPT ![p] = of]
    /\ Installing(p, "planned")
    /\ UNCHANGED <<directory, lock, installed, next, checkpoint, cancelled, past>>

Promoting(p) == pc[p] \in {"remove", "rename"}

\* InstallLock::acquire; it fails, and the attempt ends, while another
\* installer has the lock.
Acquire(p) ==
    /\ pc[p] = "planned"
    /\ IF lock = Nobody
       THEN /\ lock' = p
            /\ partial' = TRUE
            /\ overtaken' = (overtaken \/ \E q \in Installer : Promoting(q))
            /\ Installing(p, "resume")
            /\ UNCHANGED locals
       ELSE Over({p}) /\ UNCHANGED <<lock, partial, overtaken>>
    /\ UNCHANGED <<file, durable, record, manifest, installed, stale>>

\* Mutant: whatever was recorded is taken up.
FirstOpOfAnyPlan(p, resume) ==
    IF /\ resume
       /\ \A op \in Op : file[op] # Missing
    THEN record.ops
    ELSE 0

\* The operation to go on from.
FirstOp(p, resume) ==
    IF /\ resume /\ record.plan = plan[p]
       /\ \A op \in Op : file[op] # Missing
    THEN record.ops
    ELSE 0

\* Take up the record, or remove it and start over.  What remove() says of it is
\* not looked at.
Resume(p, resume) ==
    LET first == FirstOp(p, resume)
    IN  /\ pc[p] = "resume"
        /\ next' = [next EXCEPT ![p] = first]
        /\ checkpoint' = [checkpoint EXCEPT ![p] = first + CheckpointOps]
        /\ \/ /\ first > 0
              /\ Installing(p, "copy")
              /\ stale' = IF stale = "record" THEN "files" ELSE stale
              /\ UNCHANGED record
           \/ /\ first = 0
              /\ Installing(p, "create")
              /\ record' \in {NoRecord, record}
              /\ stale' = IF record' = NoRecord THEN "nothing" ELSE "record"
        /\ UNCHANGED <<partial, file, durable, manifest, lock, installed, plan,
                       cancelled, overtaken>>

\* OutputFiles::open for a fresh start, the files one by one.
Create(p, op) ==
    /\ pc[p] = "create"
    /\ next[p] + 1 = op
    /\ file' = [file EXCEPT ![op] = Zero]
    /\ IF op = Ops
       THEN next' = [next EXCEPT ![p] = 0] /\ Installing(p, "copy")
       ELSE next' = [next EXCEPT ![p] = op] /\ UNCHANGED pc
    /\ UNCHANGED <<partial, durable, record, manifest, lock, installed, plan,
                   checkpoint, cancelled, past>>

\* Read, write, and see whether a checkpoint is due.
Copy(p) ==
    /\ pc[p] = "copy"
    /\ next[p] < Ops
    /\ file' = [file EXCEPT ![next[p] + 1] = plan[p]]
    /\ next' = [next EXCEPT ![p] = @ + 1]
    /\ IF next[p] + 1 >= checkpoint[p]
       THEN /\ checkpoint' = [checkpoint EXCEPT ![p] = next[p] + 1 + CheckpointOps]
            /\ Installing(p, "flush")
       ELSE UNCHANGED <<checkpoint, pc>>
    /\ UNCHANGED <<partial, durable, record, manifest, lock, installed, plan,
                   cancelled, past>>

\* The progress callback returns false.
Cancel(p) ==
    /\ pc[p] = "copy"
    /\ next[p] < Ops
    /\ cancelled' = [cancelled EXCEPT ![p] = TRUE]
    /\ Installing(p, "flush")
    /\ UNCHANGED <<directory, lock, installed, plan, next, checkpoint, past>>

\* The last checkpoint.
CopyEnds(p) ==
    /\ pc[p] = "copy"
    /\ next[p] = Ops
    /\ Installing(p, "flush")
    /\ UNCHANGED <<directory, lock, installed, locals, past>>

\* Mutant: nothing is flushed.
FlushNothing(p) ==
    /\ pc[p] = "flush"
    /\ Installing(p, "record")
    /\ UNCHANGED <<directory, lock, installed, locals, past>>

\* writeState: OutputFiles::flushAll
Flush(p) ==
    /\ pc[p] = "flush"
    /\ durable' = file
    /\ Installing(p, "record")
    /\ UNCHANGED <<partial, file, record, manifest, lock, installed, locals, past>>

\* writeState: the record replaces the one before.
WriteRecord(p) ==
    /\ pc[p] = "record"
    /\ record' = [plan |-> plan[p], ops |-> next[p]]
    /\ stale' = IF stale = "record" THEN "nothing" ELSE stale
    /\ IF cancelled[p]
       THEN Over({p}) /\ lock' = Nobody
       ELSE /\ Installing(p, IF next[p] = Ops THEN "seal" ELSE "copy")
            /\ UNCHANGED <<lock, locals>>
    /\ UNCHANGED <<partial, file, durable, manifest, installed, overtaken>>

\* The sidecars, the hashes, the manifest.
Seal(p) ==
    /\ pc[p] = "seal"
    /\ manifest' = TRUE
    /\ Installing(p, "unrecord")
    /\ next' = [next EXCEPT ![p] = 0]
    /\ checkpoint' = [checkpoint EXCEPT ![p] = 0]
    /\ UNCHANGED <<partial, file, durable, record, lock, installed, plan, cancelled,
                   past>>

\* A finished record that stays goes along with the install.
RemoveRecord(p) ==
    /\ pc[p] = "unrecord"
    /\ record' \in {NoRecord, record}
    /\ Installing(p, "release")
    /\ UNCHANGED <<partial, file, durable, manifest, lock, installed, locals, past>>

Release(p) ==
    /\ pc[p] = "release"
    /\ lock' = Nobody
    /\ Installing(p, IF installed = Absent THEN "rename" ELSE "remove")
    /\ UNCHANGED <<directory, installed, locals, past>>

\* removeAll of the earlier install takes its entries one by one.
Remove(p) ==
    /\ pc[p] = "remove"
    /\ \/ \E op \in Op :
             /\ installed.file[op] # Missing
             /\ installed' = [installed EXCEPT !.file[op] = Missing]
       \/ /\ installed.manifest
          /\ installed' = [installed EXCEPT !.manifest = FALSE]
    /\ Installing(p, IF installed' = Absent THEN "rename" ELSE "remove")
    /\ UNCHANGED <<directory, lock, locals, past>>

\* Nothing is left to remove: somebody else removed it.
NothingToRemove(p) ==
    /\ pc[p] = "remove"
    /\ installed = Absent
    /\ Installing(p, "rename")
    /\ UNCHANGED <<directory, lock, installed, locals, past>>

\* The rename fails when there is nothing to rename, when the output exists
\* again, and while an installer has a file of the directory open.
Rename(p) ==
    /\ pc[p] = "rename"
    /\ IF partial /\ lock = Nobody /\ installed = Absent
       THEN /\ installed' = Directory(file, manifest)
            /\ partial' = FALSE
            /\ file' = NoFiles /\ durable' = NoFiles
            /\ record' = NoRecord /\ manifest' = FALSE
       ELSE UNCHANGED <<installed, directory>>
    /\ Over({p})
    /\ UNCHANGED <<lock, past>>

-----------------------------------------------------------------------------
(* What can go wrong.                                                      *)

\* An error, or the process is killed.
Stop(p) ==
    /\ pc[p] # "idle"
    /\ Over({p})
    /\ lock' = IF lock = p THEN Nobody ELSE lock
    /\ UNCHANGED <<directory, installed, past>>

\* The machine loses power.
PowerLoss ==
    /\ \E lost \in SUBSET Op :
          file' = [op \in Op |-> IF op \in lost THEN durable[op] ELSE file[op]]
    /\ durable' = file'
    /\ Over(Installer)
    /\ lock' = Nobody
    /\ UNCHANGED <<partial, record, manifest, installed, past>>

\* Between attempts a file of the partial directory is deleted.
LoseFile(op) ==
    /\ FilesVanish
    /\ \A p \in Installer : pc[p] = "idle"
    /\ partial
    /\ file' = [file EXCEPT ![op] = Missing]
    /\ durable' = [durable EXCEPT ![op] = Missing]
    /\ UNCHANGED <<partial, record, manifest, lock, installed, pc, locals, past>>

-----------------------------------------------------------------------------
Step(p) ==
    \/ \E of \in Plan, overwrite \in BOOLEAN : Begin(p, of, overwrite)
    \/ Acquire(p)
    \/ \E resume \in BOOLEAN : Resume(p, resume)
    \/ \E op \in Op : Create(p, op)
    \/ Copy(p) \/ Cancel(p) \/ CopyEnds(p) \/ Flush(p) \/ WriteRecord(p)
    \/ Seal(p) \/ RemoveRecord(p) \/ Release(p)
    \/ Remove(p) \/ NothingToRemove(p) \/ Rename(p)
    \/ Stop(p)

Next ==
    \/ \E p \in Installer : Step(p)
    \/ PowerLoss
    \/ \E op \in Op : LoseFile(op)

Spec == Init /\ [][Next]_vars

-----------------------------------------------------------------------------
(* Properties.                                                             *)

Content == Plan \cup {Missing, Zero}

TypeOK ==
    /\ partial \in BOOLEAN
    /\ file \in [Op -> Content]
    /\ durable \in [Op -> Content]
    /\ record \in [plan : Plan \cup {Nobody}, ops : 0 .. Ops]
    /\ manifest \in BOOLEAN
    /\ lock \in Installer \cup {Nobody}
    /\ installed \in [file : [Op -> Content], manifest : BOOLEAN]
    /\ pc \in [Installer -> {"idle", "planned", "resume", "create", "copy", "flush",
                             "record", "seal", "unrecord", "release", "remove", "rename"}]
    /\ plan \in [Installer -> Plan \cup {Nobody}]
    /\ next \in [Installer -> 0 .. Ops]
    /\ checkpoint \in [Installer -> 0 .. Ops + CheckpointOps]
    /\ cancelled \in [Installer -> BOOLEAN]
    /\ overtaken \in BOOLEAN
    /\ stale \in {"nothing", "record", "files"}

\* What the record says is done.
Claimed == 1 .. record.ops

\* Installer.cpp: "the state file never claims bytes are on disk that are still
\* in a buffer".  What the record says is done is in the files and has reached the
\* disk, by the plan the record names, unless a file has gone missing since: then
\* none of it is believed.  Records that outlived the files they were about, and
\* those built on them, are excepted.
RecordIsTrue ==
    \/ stale # "nothing"
    \/ \A op \in Claimed : file[op] = record.plan /\ durable[op] = record.plan
    \/ \E op \in Op : durable[op] = Missing

\* The same comment without the exception: "anything it over-reports is a hole in
\* the install".
RecordNeverOverReports ==
    \/ \A op \in Claimed : file[op] = record.plan
    \/ \E op \in Op : file[op] = Missing

\* The one that promotes has done all of its work with the lock, from a record
\* that was true.
Undisturbed == ~ overtaken /\ stale # "files"

\* As long as no installer took the lock while another was promoting, and none
\* took up a record that outlived its files, what an installer renames to the
\* output directory is all of its plan and nothing else, with the manifest.
PromotesItsPlan ==
    [][ installed = Absent /\ installed' # Absent /\ Undisturbed
        => \E p \in Installer : /\ pc[p] = "rename" /\ pc'[p] = "idle"
                                /\ installed' = Directory(Made(plan[p]), TRUE) ]_vars

\* As long as no installer took the lock while another was promoting, and none
\* took up a record that outlived its files, an earlier install stays as it is
\* until a new one is complete.
OldStaysUntilNewIsWhole ==
    [][ installed # Absent /\ installed' # installed /\ Undisturbed
        => manifest /\ \E of \in Plan : file = Made(of) ]_vars

\* docs/INSTALL.md: the manifest's "presence is the completion marker, so an
\* interrupted run can never leave a directory that looks complete".
ManifestMeansComplete ==
    /\ manifest => \E of \in Plan : file = Made(of)
    /\ installed.manifest => \E of \in Plan : installed.file = Made(of)
=============================================================================
