---------------------------- MODULE InstallerProofs ----------------------------
(***************************************************************************)
(* What the records and the promotions of the installers are worth, for    *)
(* any number of installers, plans and operations; and what the remote     *)
(* files they read deliver and how often they ask for it, for files, gaps, *)
(* limits and numbers of attempts of any size: the safety part of          *)
(* RemoteContents, and the bounds on the requests.                         *)
(***************************************************************************)
EXTENDS Installer, RemoteFile, SequenceTheorems, TLAPS

Working == {"resume", "create", "copy", "flush", "record", "seal", "unrecord", "release"}
Copying == {"copy", "flush", "record"}
Complete == {"seal", "unrecord", "release"}

\* The lock is with the one installer at work in the partial directory.
LockedWork == \A p \in Installer : pc[p] \in Working <=> lock = p

\* A held lock is in an existing directory.
WorkHasDirectory == lock # Nobody => partial

\* Between attempts an installer knows nothing, within one it has a plan.
AttemptHasPlan ==
    \A p \in Installer : /\ pc[p] # "idle" => plan[p] \in Plan
                         /\ pc[p] = "idle" => next[p] = 0 /\ ~ cancelled[p]

\* The operations recorded are in the files and on the disk, by the recorded
\* plan, or a file is missing in both, or the record has outlived its files.
Recorded ==
    \/ stale # "nothing"
    \/ record.ops = 0
    \/ \E op \in Op : file[op] = Missing /\ durable[op] = Missing
    \/ \A op \in Op : op <= record.ops => file[op] = record.plan /\ durable[op] = record.plan

\* A fresh start has no record, unless it could not be removed; the files up to
\* the next one exist.
FreshStart ==
    \A p \in Installer : pc[p] = "create" =>
        /\ stale # "files"
        /\ stale = "nothing" => record = NoRecord
        /\ next[p] < Ops
        /\ \A op \in Op : op <= next[p] => file[op] # Missing

\* A copying installer has all files and, unless it went on from a record that
\* was not true, what it copied; a true record is its own and not ahead of it, and
\* at the next record all that was copied is on the disk.
CopyUnderway ==
    \A p \in Installer : pc[p] \in Copying =>
        /\ \A op \in Op : file[op] # Missing
        /\ stale # "files" => \A op \in Op : op <= next[p] => file[op] = plan[p]
        /\ stale = "nothing" => /\ record.ops = 0 \/ record.plan = plan[p]
                                /\ record.ops <= next[p]
        /\ pc[p] = "record" /\ stale # "files"
              => \A op \in Op : op <= next[p] => durable[op] = plan[p]

\* After the last record the files are all of the plan, then with a manifest.
CopyDone ==
    \A p \in Installer : pc[p] \in Complete =>
        /\ stale # "files" => file = Made(plan[p])
        /\ pc[p] # "seal" => manifest

\* The one that promotes is alone, with the directory it completed.
PromotionAlone ==
    overtaken \/ \A p \in Installer : Promoting(p) =>
        /\ partial /\ lock = Nobody
        /\ stale # "files" => file = Made(plan[p])
        /\ manifest
        /\ \A q \in Installer : Promoting(q) => q = p

IInv ==
    /\ TypeOK
    /\ LockedWork
    /\ WorkHasDirectory
    /\ AttemptHasPlan
    /\ Recorded
    /\ FreshStart
    /\ CopyUnderway
    /\ CopyDone
    /\ PromotionAlone

-----------------------------------------------------------------------------
(* Types.                                                                  *)

\* Ending attempts keeps the types of what the installers know.
LEMMA OverTyped ==
    ASSUME TypeOK, NEW ps \in SUBSET Installer, Over(ps)
    PROVE  /\ pc' \in [Installer -> {"idle", "planned", "resume", "create", "copy", "flush",
                                     "record", "seal", "unrecord", "release", "remove", "rename"}]
           /\ plan' \in [Installer -> Plan \cup {Nobody}]
           /\ next' \in [Installer -> 0 .. Ops]
           /\ checkpoint' \in [Installer -> 0 .. Ops + CheckpointOps]
           /\ cancelled' \in [Installer -> BOOLEAN]
  BY InstallerAssumption DEF Over, TypeOK

\* An attempt starts from nothing or from an operation the record names.
LEMMA FirstOpTyped ==
    ASSUME TypeOK, NEW p \in Installer, NEW resume \in BOOLEAN
    PROVE  FirstOp(p, resume) \in 0 .. Ops
  BY InstallerAssumption DEF FirstOp, TypeOK

\* The contents of directories the definitions name.
LEMMA Contents ==
    /\ NoFiles \in [Op -> Content]
    /\ \A of \in Plan : Made(of) \in [Op -> Content]
    /\ NoRecord \in [plan : Plan \cup {Nobody}, ops : 0 .. Ops]
    /\ \A f \in [Op -> Content], m \in BOOLEAN :
          /\ Directory(f, m) \in [file : [Op -> Content], manifest : BOOLEAN]
          /\ Directory(f, m).file = f
          /\ Directory(f, m).manifest = m
  BY InstallerAssumption DEF NoFiles, Made, NoRecord, Directory, Content

\* The first state has its types.
LEMMA TypeInit == Init => TypeOK
<1> SUFFICES ASSUME Init
             PROVE  TypeOK
  OBVIOUS
<1>1. Absent \in [file : [Op -> Content], manifest : BOOLEAN]
  BY Contents DEF Absent
<1>2. installed \in [file : [Op -> Content], manifest : BOOLEAN]
  <2>1. ASSUME NEW of \in Plan
        PROVE  Directory(Made(of), TRUE) \in [file : [Op -> Content], manifest : BOOLEAN]
    BY Contents
  <2>2. installed = Absent \/ \E of \in Plan : installed = Directory(Made(of), TRUE)
    BY DEF Init
  <2>3. QED BY <1>1, <2>1, <2>2
<1>3. /\ file \in [Op -> Content] /\ durable \in [Op -> Content]
      /\ record \in [plan : Plan \cup {Nobody}, ops : 0 .. Ops]
  BY Contents DEF Init
<1>4. 0 \in 0 .. Ops /\ 0 \in 0 .. Ops + CheckpointOps
  BY InstallerAssumption
<1>5. /\ next \in [Installer -> 0 .. Ops]
      /\ checkpoint \in [Installer -> 0 .. Ops + CheckpointOps]
  BY <1>4 DEF Init
<1>6. QED
  BY <1>2, <1>3, <1>5 DEF Init, TypeOK

\* Every step keeps the types; what is copied is a plan, since an attempt has one.
LEMMA TypeStep ==
    ASSUME TypeOK, AttemptHasPlan, Next
    PROVE  TypeOK'
<1> USE InstallerAssumption DEF TypeOK, directory, locals, past, Installing
<1>1. ASSUME NEW p \in Installer, Step(p)
      PROVE  TypeOK'
  <2> USE <1>1
  <2>1. ASSUME NEW of \in Plan, NEW overwrite \in BOOLEAN, Begin(p, of, overwrite)
        PROVE  TypeOK'
    BY <2>1 DEF Begin
  <2>2. CASE Acquire(p)
    <3>1. CASE lock = Nobody
      BY <2>2, <3>1 DEF Acquire
    <3>2. CASE lock # Nobody
      <4>1. Over({p}) /\ {p} \in SUBSET Installer
        BY <2>2, <3>2 DEF Acquire
      <4>2. QED BY <2>2, <3>2, <4>1, OverTyped DEF Acquire
    <3>3. QED BY <3>1, <3>2
  <2>3. ASSUME NEW resume \in BOOLEAN, Resume(p, resume)
        PROVE  TypeOK'
    <3>1. FirstOp(p, resume) \in 0 .. Ops
      BY FirstOpTyped
    <3>2. FirstOp(p, resume) + CheckpointOps \in 0 .. Ops + CheckpointOps
      BY <3>1
    <3>3. /\ next' \in [Installer -> 0 .. Ops]
          /\ checkpoint' \in [Installer -> 0 .. Ops + CheckpointOps]
      BY <2>3, <3>1, <3>2 DEF Resume
    <3>4. /\ record' \in [plan : Plan \cup {Nobody}, ops : 0 .. Ops]
          /\ stale' \in {"nothing", "record", "files"}
      BY <2>3 DEF Resume, NoRecord
    <3>5. QED BY <2>3, <3>3, <3>4 DEF Resume
  <2>4. ASSUME NEW op \in Op, Create(p, op)
        PROVE  TypeOK'
    <3>1. file' \in [Op -> Content]
      BY <2>4 DEF Create, Content
    <3>2. CASE op = Ops
      <4>1. /\ next' = [next EXCEPT ![p] = 0] /\ pc' = [pc EXCEPT ![p] = "copy"]
            /\ UNCHANGED <<partial, durable, record, manifest, lock, installed, plan,
                           checkpoint, cancelled, overtaken, stale>>
        BY <2>4, <3>2 DEF Create
      <4>2. next' \in [Installer -> 0 .. Ops]
        BY <4>1
      <4>3. QED BY <3>1, <4>1, <4>2
    <3>3. CASE op # Ops
      <4>1. op \in 0 .. Ops
        BY DEF Op
      <4>2. next' = [next EXCEPT ![p] = op] /\ UNCHANGED pc
        BY <2>4, <3>3 DEF Create
      <4>3. QED BY <2>4, <3>1, <4>1, <4>2 DEF Create
    <3>4. QED BY <3>2, <3>3
  <2>5. CASE Copy(p)
    <3>1. plan[p] \in Content /\ next[p] + 1 \in Op
      BY <2>5 DEF Copy, Op, Content, AttemptHasPlan
    <3>2. QED BY <2>5, <3>1 DEF Copy
  <2>6. CASE Cancel(p)
    BY <2>6 DEF Cancel
  <2>7. CASE CopyEnds(p)
    BY <2>7 DEF CopyEnds
  <2>8. CASE Flush(p)
    BY <2>8 DEF Flush
  <2>9. CASE WriteRecord(p)
    BY <2>9, OverTyped DEF WriteRecord
  <2>10. CASE Seal(p)
    BY <2>10 DEF Seal
  <2>11. CASE RemoveRecord(p)
    BY <2>11 DEF RemoveRecord, NoRecord
  <2>12. CASE Release(p)
    BY <2>12 DEF Release
  <2>13. CASE Remove(p)
    <3>1. installed' \in [file : [Op -> Content], manifest : BOOLEAN]
      <4>1. ASSUME NEW op \in Op, installed' = [installed EXCEPT !.file[op] = Missing]
            PROVE  installed' \in [file : [Op -> Content], manifest : BOOLEAN]
        BY <4>1 DEF Content
      <4>2. CASE installed' = [installed EXCEPT !.manifest = FALSE]
        BY <4>2
      <4>3. QED BY <2>13, <4>1, <4>2 DEF Remove
    <3>2. QED BY <2>13, <3>1 DEF Remove
  <2>14. CASE NothingToRemove(p)
    BY <2>14 DEF NothingToRemove
  <2>15. CASE Rename(p)
    <3>1. Over({p}) /\ {p} \in SUBSET Installer
      BY <2>15 DEF Rename
    <3>2. CASE partial /\ lock = Nobody /\ installed = Absent
      <4>1. installed' \in [file : [Op -> Content], manifest : BOOLEAN]
        BY <2>15, <3>2, Contents DEF Rename
      <4>2. /\ file' \in [Op -> Content] /\ durable' \in [Op -> Content]
            /\ record' \in [plan : Plan \cup {Nobody}, ops : 0 .. Ops]
            /\ partial' = FALSE /\ manifest' = FALSE
        BY <2>15, <3>2, Contents DEF Rename
      <4>3. QED BY <2>15, <3>1, <4>1, <4>2, OverTyped DEF Rename
    <3>3. CASE ~ (partial /\ lock = Nobody /\ installed = Absent)
      BY <2>15, <3>1, <3>3, OverTyped DEF Rename
    <3>4. QED BY <3>2, <3>3
  <2>16. CASE Stop(p)
    BY <2>16, OverTyped DEF Stop
  <2>17. QED
    BY <2>1, <2>2, <2>3, <2>4, <2>5, <2>6, <2>7, <2>8, <2>9, <2>10, <2>11, <2>12,
       <2>13, <2>14, <2>15, <2>16 DEF Step
<1>2. CASE PowerLoss
  BY <1>2, OverTyped DEF PowerLoss
<1>3. ASSUME NEW op \in Op, LoseFile(op)
      PROVE  TypeOK'
  BY <1>3 DEF LoseFile, Content
<1>4. QED
  BY <1>1, <1>2, <1>3 DEF Next

-----------------------------------------------------------------------------
(* The inductive invariant.                                                *)

\* The first state satisfies the inductive invariant.
LEMMA InvInit == Init => IInv
<1> SUFFICES ASSUME Init
             PROVE  IInv
  OBVIOUS
<1> USE DEF Init
<1>1. LockedWork /\ WorkHasDirectory
  BY InstallerAssumption DEF LockedWork, Working, WorkHasDirectory
<1>2. AttemptHasPlan
  BY DEF AttemptHasPlan
<1>3. Recorded
  BY DEF Recorded, NoRecord
<1>4. FreshStart /\ CopyUnderway /\ CopyDone /\ PromotionAlone
  BY DEF FreshStart, CopyUnderway, CopyDone, PromotionAlone, Promoting, Copying, Complete
<1>5. QED
  BY <1>1, <1>2, <1>3, <1>4, TypeInit DEF IInv

\* At work in the partial directory there is one installer, and unless the
\* history variable says so nobody promotes meanwhile.
LEMMA WorksAlone ==
    ASSUME LockedWork, PromotionAlone, NEW p \in Installer, pc[p] \in Working
    PROVE  /\ lock = p
           /\ \A q \in Installer : q # p => pc[q] \notin Working
           /\ overtaken \/ \A q \in Installer : ~ Promoting(q)
  BY InstallerAssumption DEF LockedWork, PromotionAlone

\* Every step keeps the inductive invariant.
LEMMA InvStep ==
    ASSUME IInv, Next
    PROVE  IInv'
<1> USE InstallerAssumption DEF directory, locals, past, Installing
<1>0. /\ TypeOK /\ LockedWork /\ WorkHasDirectory /\ AttemptHasPlan /\ Recorded
      /\ FreshStart /\ CopyUnderway /\ CopyDone /\ PromotionAlone
      /\ TypeOK'
  BY TypeStep DEF IInv
<1> DEFINE Kept == /\ LockedWork' /\ WorkHasDirectory' /\ AttemptHasPlan' /\ Recorded'
                   /\ FreshStart' /\ CopyUnderway' /\ CopyDone' /\ PromotionAlone'
<1>1. ASSUME NEW p \in Installer, Step(p)
      PROVE  Kept
  <2>1. ASSUME NEW of \in Plan, NEW overwrite \in BOOLEAN, Begin(p, of, overwrite)
        PROVE  Kept
    BY <1>0, <2>1
       DEF TypeOK, Begin, LockedWork, Working, WorkHasDirectory, AttemptHasPlan, Recorded,
           FreshStart, CopyUnderway, Copying, CopyDone, Complete, PromotionAlone, Promoting
  <2>2. CASE Acquire(p)
    BY <1>0, <2>2
       DEF TypeOK, Acquire, Over, LockedWork, Working, WorkHasDirectory, AttemptHasPlan,
           Recorded, FreshStart, CopyUnderway, Copying, CopyDone, Complete, PromotionAlone,
           Promoting
  <2>3. ASSUME NEW resume \in BOOLEAN, Resume(p, resume)
        PROVE  Kept
    <3>0. /\ pc[p] \in Working /\ lock = p
          /\ \A q \in Installer : q # p => pc[q] \notin Working
          /\ overtaken \/ \A q \in Installer : ~ Promoting(q)
      BY <1>0, <2>3, WorksAlone DEF Resume, Working
    <3>1. /\ LockedWork' /\ WorkHasDirectory' /\ AttemptHasPlan' /\ CopyDone'
          /\ PromotionAlone'
      BY <1>0, <2>3
         DEF TypeOK, Resume, LockedWork, Working, WorkHasDirectory, AttemptHasPlan,
             CopyDone, Complete, PromotionAlone, Promoting
    <3>2. Recorded'
      BY <1>0, <2>3 DEF TypeOK, Resume, Recorded, NoRecord
    <3>3. FreshStart'
      BY <1>0, <2>3, <3>0 DEF TypeOK, Resume, FreshStart, FirstOp, Op, Working
    <3>4. CopyUnderway'
      <4>1. CASE FirstOp(p, resume) = 0
        BY <1>0, <2>3, <3>0, <4>1 DEF TypeOK, Resume, CopyUnderway, Copying, Working
      <4>2. CASE FirstOp(p, resume) # 0
        <5>1. /\ \A op \in Op : file[op] # Missing
              /\ record.plan = plan[p] /\ next'[p] = record.ops
          BY <1>0, <2>3, <4>2 DEF TypeOK, Resume, FirstOp
        <5>2. /\ stale' # "files" => stale = "nothing" /\ stale' = "nothing"
              /\ record' = record /\ pc' = [pc EXCEPT ![p] = "copy"]
          BY <1>0, <2>3, <4>2 DEF TypeOK, Resume
        <5>3. UNCHANGED <<file, durable, plan>>
          BY <2>3 DEF Resume
        <5>4. \A q \in Installer : pc'[q] \in Copying => q = p /\ pc'[q] = "copy"
          BY <1>0, <3>0, <5>2 DEF TypeOK, Copying, Working
        <5>5. stale = "nothing" => \A op \in Op : op <= record.ops => file[op] = plan[p]
          BY <1>0, <5>1 DEF Recorded, TypeOK, Op
        <5>6. record'.ops <= next'[p]
          BY <1>0, <5>1, <5>2 DEF TypeOK
        <5>7. /\ \A op \in Op : file'[op] # Missing
              /\ stale' # "files" => \A op \in Op : op <= next'[p] => file'[op] = plan'[p]
              /\ record'.plan = plan'[p]
          BY <5>1, <5>2, <5>3, <5>5
        <5>8. QED BY <5>4, <5>6, <5>7 DEF CopyUnderway
      <4>3. QED BY <4>1, <4>2
    <3>5. QED BY <3>1, <3>2, <3>3, <3>4
  <2>4. ASSUME NEW op \in Op, Create(p, op)
        PROVE  Kept
    <3>0. /\ pc[p] \in Working /\ lock = p
          /\ \A q \in Installer : q # p => pc[q] \notin Working
          /\ overtaken \/ \A q \in Installer : ~ Promoting(q)
      BY <1>0, <2>4, WorksAlone DEF Create, Working
    <3>1. LockedWork' /\ WorkHasDirectory' /\ AttemptHasPlan'
      BY <1>0, <2>4
         DEF TypeOK, Create, LockedWork, Working, WorkHasDirectory, AttemptHasPlan
    <3>2. Recorded'
      BY <1>0, <2>4 DEF TypeOK, Create, Recorded, FreshStart, NoRecord
    <3>3. FreshStart'
      <4>1. \A o \in Op : o <= op => file'[o] # Missing
        BY <1>0, <2>4 DEF TypeOK, Create, FreshStart, Op
      <4>2. \A q \in Installer : pc'[q] = "create" => q = p /\ op # Ops /\ next'[p] = op
        BY <1>0, <2>4, <3>0 DEF TypeOK, Create, Working
      <4>3. /\ stale' # "files" /\ op <= Ops
            /\ stale' = "nothing" => record' = NoRecord
        BY <1>0, <2>4 DEF Create, FreshStart, Op
      <4>4. QED BY <1>0, <4>1, <4>2, <4>3 DEF FreshStart, Op
    <3>4. CopyUnderway'
      <4>1. \A q \in Installer : pc'[q] \in Copying =>
               q = p /\ op = Ops /\ pc'[p] = "copy" /\ next'[p] = 0
        BY <1>0, <2>4, <3>0 DEF TypeOK, Create, Working, Copying
      <4>2. op = Ops => \A o \in Op : file'[o] # Missing
        BY <1>0, <2>4 DEF TypeOK, Create, FreshStart, Op
      <4>3. stale' = "nothing" => record'.ops = 0
        BY <1>0, <2>4 DEF Create, FreshStart, NoRecord
      <4>4. QED BY <1>0, <4>1, <4>2, <4>3 DEF CopyUnderway, Op
    <3>5. CopyDone'
      BY <1>0, <2>4, <3>0 DEF TypeOK, Create, CopyDone, Complete, Working
    <3>6. PromotionAlone'
      BY <1>0, <2>4, <3>0 DEF TypeOK, Create, Promoting, PromotionAlone
    <3>7. QED BY <3>1, <3>2, <3>3, <3>4, <3>5, <3>6
  <2>5. CASE Copy(p)
    <3>0. /\ pc[p] \in Working /\ lock = p
          /\ \A q \in Installer : q # p => pc[q] \notin Working
          /\ overtaken \/ \A q \in Installer : ~ Promoting(q)
      BY <1>0, <2>5, WorksAlone DEF Copy, Working
    <3>1. LockedWork' /\ WorkHasDirectory' /\ AttemptHasPlan'
      BY <1>0, <2>5
         DEF TypeOK, Copy, LockedWork, Working, WorkHasDirectory, AttemptHasPlan
    <3>2. Recorded'
      <4>1. /\ pc[p] \in Copying /\ next[p] + 1 \in Op
            /\ stale = "nothing" => record.ops <= next[p]
        BY <1>0, <2>5 DEF TypeOK, Copy, Copying, CopyUnderway, Op
      <4>2. \A op \in Op : file[op] # Missing
        BY <1>0, <4>1 DEF CopyUnderway
      <4>3. QED BY <1>0, <2>5, <4>1, <4>2 DEF TypeOK, Copy, Recorded, Op
    <3>3. FreshStart'
      BY <1>0, <2>5, <3>0 DEF TypeOK, Copy, FreshStart, Working
    <3>4. CopyUnderway'
      <4>1. /\ \A op \in Op : file[op] # Missing
            /\ stale # "files" => \A op \in Op : op <= next[p] => file[op] = plan[p]
            /\ stale = "nothing" => /\ record.ops = 0 \/ record.plan = plan[p]
                                    /\ record.ops <= next[p]
            /\ plan[p] \in Plan
        BY <1>0, <2>5 DEF Copy, Copying, CopyUnderway, AttemptHasPlan
      <4>2. /\ \A q \in Installer : pc'[q] \in Copying => q = p
            /\ pc'[p] # "record"
            /\ next'[p] = next[p] + 1 /\ plan'[p] = plan[p]
        BY <1>0, <2>5, <3>0 DEF TypeOK, Copy, Copying, Working
      <4>3. /\ \A op \in Op : file'[op] # Missing
            /\ stale # "files" => \A op \in Op : op <= next[p] + 1 => file'[op] = plan[p]
        BY <1>0, <2>5, <4>1 DEF TypeOK, Copy, Op
      <4>4. QED BY <1>0, <2>5, <4>1, <4>2, <4>3 DEF TypeOK, Copy, CopyUnderway
    <3>5. CopyDone'
      BY <1>0, <2>5, <3>0 DEF TypeOK, Copy, CopyDone, Complete, Working
    <3>6. PromotionAlone'
      BY <1>0, <2>5, <3>0 DEF TypeOK, Copy, Promoting, PromotionAlone
    <3>7. QED BY <3>1, <3>2, <3>3, <3>4, <3>5, <3>6
  <2>6. CASE Cancel(p)
    BY <1>0, <2>6
       DEF TypeOK, Cancel, LockedWork, Working, WorkHasDirectory, AttemptHasPlan, Recorded,
           FreshStart, CopyUnderway, Copying, CopyDone, Complete, PromotionAlone, Promoting
  <2>7. CASE CopyEnds(p)
    BY <1>0, <2>7
       DEF TypeOK, CopyEnds, LockedWork, Working, WorkHasDirectory, AttemptHasPlan,
           Recorded, FreshStart, CopyUnderway, Copying, CopyDone, Complete, PromotionAlone,
           Promoting
  <2>8. CASE Flush(p)
    BY <1>0, <2>8
       DEF TypeOK, Flush, LockedWork, Working, WorkHasDirectory, AttemptHasPlan, Recorded,
           FreshStart, CopyUnderway, Copying, CopyDone, Complete, PromotionAlone, Promoting
  <2>9. CASE WriteRecord(p)
    <3>0. /\ pc[p] \in Working /\ lock = p
          /\ \A q \in Installer : q # p => pc[q] \notin Working
          /\ overtaken \/ \A q \in Installer : ~ Promoting(q)
      BY <1>0, <2>9, WorksAlone DEF WriteRecord, Working
    <3>1. LockedWork'
      <4>1. /\ record' = [plan |-> plan[p], ops |-> next[p]]
            /\ UNCHANGED <<file, durable, manifest, overtaken>>
            /\ stale' = (IF stale = "record" THEN "nothing" ELSE stale)
        BY <2>9 DEF WriteRecord
      <4>2. CASE cancelled[p]
        BY <1>0, <2>9, <3>0, <4>1, <4>2 DEF TypeOK, WriteRecord, Over, LockedWork, Working
      <4>3. CASE ~ cancelled[p]
        BY <1>0, <2>9, <3>0, <4>1, <4>3 DEF TypeOK, WriteRecord, LockedWork, Working
      <4>4. QED BY <4>2, <4>3
    <3>2. WorkHasDirectory'
      BY <1>0, <2>9 DEF TypeOK, WriteRecord, WorkHasDirectory
    <3>3. AttemptHasPlan'
      <4>1. CASE cancelled[p]
        BY <1>0, <2>9, <4>1 DEF TypeOK, WriteRecord, Over, AttemptHasPlan
      <4>2. CASE ~ cancelled[p]
        BY <1>0, <2>9, <4>2 DEF TypeOK, WriteRecord, AttemptHasPlan
      <4>3. QED BY <4>1, <4>2
    <3>4. Recorded'
      <4>1. stale # "files" => \A op \in Op :
               op <= next[p] => file[op] = plan[p] /\ durable[op] = plan[p]
        BY <1>0, <2>9 DEF WriteRecord, CopyUnderway, Copying
      <4>2. record'.plan = plan[p] /\ record'.ops = next[p]
        BY <2>9 DEF WriteRecord
      <4>3. QED BY <1>0, <2>9, <4>1, <4>2 DEF WriteRecord, Recorded
    <3>5. FreshStart'
      <4>1. /\ record' = [plan |-> plan[p], ops |-> next[p]]
            /\ UNCHANGED <<file, durable, manifest, overtaken>>
            /\ stale' = (IF stale = "record" THEN "nothing" ELSE stale)
        BY <2>9 DEF WriteRecord
      <4>2. CASE cancelled[p]
        BY <1>0, <2>9, <3>0, <4>1, <4>2 DEF TypeOK, WriteRecord, Over, FreshStart, Working
      <4>3. CASE ~ cancelled[p]
        BY <1>0, <2>9, <3>0, <4>1, <4>3 DEF TypeOK, WriteRecord, FreshStart, Working
      <4>4. QED BY <4>2, <4>3
    <3>6. CopyUnderway'
      <4>1. /\ record' = [plan |-> plan[p], ops |-> next[p]]
            /\ UNCHANGED <<file, durable, manifest, overtaken>>
            /\ stale' = (IF stale = "record" THEN "nothing" ELSE stale)
        BY <2>9 DEF WriteRecord
      <4>2. CASE cancelled[p]
        BY <1>0, <2>9, <3>0, <4>1, <4>2
           DEF TypeOK, WriteRecord, Over, CopyUnderway, Copying, Working
      <4>3. CASE ~ cancelled[p]
        BY <1>0, <2>9, <3>0, <4>1, <4>3
           DEF TypeOK, WriteRecord, CopyUnderway, Copying, Working
      <4>4. QED BY <4>2, <4>3
    <3>7. CopyDone'
      <4>1. CASE cancelled[p]
        BY <1>0, <2>9, <3>0, <4>1 DEF TypeOK, WriteRecord, Over, CopyDone, Complete, Working
      <4>2. CASE ~ cancelled[p]
        <5>1. next[p] = Ops /\ stale # "files" => file = Made(plan[p])
          BY <1>0, <2>9 DEF TypeOK, WriteRecord, CopyUnderway, Copying, Op, Made
        <5>2. QED
          BY <1>0, <2>9, <3>0, <4>2, <5>1
             DEF TypeOK, WriteRecord, CopyDone, Complete, Working
      <4>3. QED BY <4>1, <4>2
    <3>8. PromotionAlone'
      <4>1. CASE cancelled[p]
        BY <1>0, <2>9, <3>0, <4>1 DEF TypeOK, WriteRecord, Over, PromotionAlone, Promoting
      <4>2. CASE ~ cancelled[p]
        BY <1>0, <2>9, <3>0, <4>2 DEF TypeOK, WriteRecord, PromotionAlone, Promoting
      <4>3. QED BY <4>1, <4>2
    <3>9. QED BY <3>1, <3>2, <3>3, <3>4, <3>5, <3>6, <3>7, <3>8
  <2>10. CASE Seal(p)
    BY <1>0, <2>10
       DEF TypeOK, Seal, LockedWork, Working, WorkHasDirectory, AttemptHasPlan, Recorded,
           FreshStart, CopyUnderway, Copying, CopyDone, Complete, PromotionAlone, Promoting
  <2>11. CASE RemoveRecord(p)
    <3>0. /\ pc[p] \in Working /\ lock = p
          /\ \A q \in Installer : q # p => pc[q] \notin Working
          /\ overtaken \/ \A q \in Installer : ~ Promoting(q)
      BY <1>0, <2>11, WorksAlone DEF RemoveRecord, Working
    <3>1. /\ LockedWork' /\ WorkHasDirectory' /\ AttemptHasPlan' /\ FreshStart' /\ CopyDone'
          /\ PromotionAlone'
      BY <1>0, <2>11
         DEF TypeOK, RemoveRecord, LockedWork, Working, WorkHasDirectory, AttemptHasPlan,
             FreshStart, CopyDone, Complete, PromotionAlone, Promoting
    <3>2. Recorded'
      BY <1>0, <2>11 DEF TypeOK, RemoveRecord, Recorded, NoRecord
    <3>3. CopyUnderway'
      BY <1>0, <2>11, <3>0 DEF TypeOK, RemoveRecord, CopyUnderway, Copying, Working
    <3>4. QED BY <3>1, <3>2, <3>3
  <2>12. CASE Release(p)
    <3>0. /\ pc[p] \in Working /\ lock = p
          /\ \A q \in Installer : q # p => pc[q] \notin Working
          /\ overtaken \/ \A q \in Installer : ~ Promoting(q)
      BY <1>0, <2>12, WorksAlone DEF Release, Working
    <3>1. /\ LockedWork' /\ WorkHasDirectory' /\ AttemptHasPlan' /\ Recorded' /\ FreshStart'
          /\ CopyUnderway' /\ CopyDone'
      BY <1>0, <2>12
         DEF TypeOK, Release, LockedWork, Working, WorkHasDirectory, AttemptHasPlan,
             Recorded, FreshStart, CopyUnderway, Copying, CopyDone, Complete
    <3>2. PromotionAlone'
      <4>1. partial /\ (stale # "files" => file = Made(plan[p])) /\ manifest
        BY <1>0, <2>12, <3>0 DEF Release, CopyDone, Complete, WorkHasDirectory
      <4>2. QED
        BY <1>0, <2>12, <3>0, <4>1 DEF TypeOK, Release, PromotionAlone, Promoting
    <3>3. QED BY <3>1, <3>2
  <2>13. CASE Remove(p)
    BY <1>0, <2>13
       DEF TypeOK, Remove, LockedWork, Working, WorkHasDirectory, AttemptHasPlan, Recorded,
           FreshStart, CopyUnderway, Copying, CopyDone, Complete, PromotionAlone, Promoting
  <2>14. CASE NothingToRemove(p)
    BY <1>0, <2>14
       DEF TypeOK, NothingToRemove, LockedWork, Working, WorkHasDirectory, AttemptHasPlan,
           Recorded, FreshStart, CopyUnderway, Copying, CopyDone, Complete, PromotionAlone,
           Promoting
  <2>15. CASE Rename(p)
    <3>1. LockedWork'
      <4>1. CASE partial /\ lock = Nobody /\ installed = Absent
        BY <1>0, <2>15, <4>1 DEF TypeOK, Rename, Over, NoRecord, LockedWork, Working
      <4>2. CASE ~ (partial /\ lock = Nobody /\ installed = Absent)
        BY <1>0, <2>15, <4>2 DEF TypeOK, Rename, Over, LockedWork, Working
      <4>3. QED BY <4>1, <4>2
    <3>2. WorkHasDirectory'
      <4>1. CASE partial /\ lock = Nobody /\ installed = Absent
        BY <1>0, <2>15, <4>1 DEF TypeOK, Rename, Over, NoRecord, WorkHasDirectory
      <4>2. CASE ~ (partial /\ lock = Nobody /\ installed = Absent)
        BY <1>0, <2>15, <4>2 DEF TypeOK, Rename, Over, WorkHasDirectory
      <4>3. QED BY <4>1, <4>2
    <3>3. AttemptHasPlan'
      <4>1. CASE partial /\ lock = Nobody /\ installed = Absent
        BY <1>0, <2>15, <4>1 DEF TypeOK, Rename, Over, NoRecord, AttemptHasPlan
      <4>2. CASE ~ (partial /\ lock = Nobody /\ installed = Absent)
        BY <1>0, <2>15, <4>2 DEF TypeOK, Rename, Over, AttemptHasPlan
      <4>3. QED BY <4>1, <4>2
    <3>4. Recorded'
      <4>1. CASE partial /\ lock = Nobody /\ installed = Absent
        BY <1>0, <2>15, <4>1 DEF TypeOK, Rename, Over, NoRecord, Recorded
      <4>2. CASE ~ (partial /\ lock = Nobody /\ installed = Absent)
        BY <1>0, <2>15, <4>2 DEF TypeOK, Rename, Over, Recorded
      <4>3. QED BY <4>1, <4>2
    <3>5. FreshStart'
      <4>1. CASE partial /\ lock = Nobody /\ installed = Absent
        BY <1>0, <2>15, <4>1
           DEF TypeOK, Rename, Over, NoRecord, FreshStart, LockedWork, Working
      <4>2. CASE ~ (partial /\ lock = Nobody /\ installed = Absent)
        BY <1>0, <2>15, <4>2 DEF TypeOK, Rename, Over, FreshStart, LockedWork, Working
      <4>3. QED BY <4>1, <4>2
    <3>6. CopyUnderway'
      <4>1. CASE partial /\ lock = Nobody /\ installed = Absent
        BY <1>0, <2>15, <4>1
           DEF TypeOK, Rename, Over, NoRecord, CopyUnderway, Copying, LockedWork, Working
      <4>2. CASE ~ (partial /\ lock = Nobody /\ installed = Absent)
        BY <1>0, <2>15, <4>2
           DEF TypeOK, Rename, Over, CopyUnderway, Copying, LockedWork, Working
      <4>3. QED BY <4>1, <4>2
    <3>7. CopyDone'
      <4>1. CASE partial /\ lock = Nobody /\ installed = Absent
        BY <1>0, <2>15, <4>1
           DEF TypeOK, Rename, Over, NoRecord, CopyDone, Complete, LockedWork, Working
      <4>2. CASE ~ (partial /\ lock = Nobody /\ installed = Absent)
        BY <1>0, <2>15, <4>2
           DEF TypeOK, Rename, Over, CopyDone, Complete, LockedWork, Working
      <4>3. QED BY <4>1, <4>2
    <3>8. PromotionAlone'
      <4>1. CASE partial /\ lock = Nobody /\ installed = Absent
        BY <1>0, <2>15, <4>1 DEF TypeOK, Rename, Over, NoRecord, PromotionAlone, Promoting
      <4>2. CASE ~ (partial /\ lock = Nobody /\ installed = Absent)
        BY <1>0, <2>15, <4>2 DEF TypeOK, Rename, Over, PromotionAlone, Promoting
      <4>3. QED BY <4>1, <4>2
    <3>9. QED BY <3>1, <3>2, <3>3, <3>4, <3>5, <3>6, <3>7, <3>8
  <2>16. CASE Stop(p)
    <3>1. LockedWork' /\ WorkHasDirectory' /\ AttemptHasPlan' /\ Recorded'
      BY ZenonT(60), <1>0, <2>16
         DEF TypeOK, Stop, Over, LockedWork, Working, WorkHasDirectory, AttemptHasPlan,
             Recorded
    <3>2. FreshStart' /\ CopyUnderway' /\ CopyDone' /\ PromotionAlone'
      BY <1>0, <2>16
         DEF TypeOK, Stop, Over, FreshStart, CopyUnderway, Copying, CopyDone, Complete,
             PromotionAlone, Promoting
    <3>3. QED BY <3>1, <3>2
  <2>17. QED
    BY <1>1, <2>1, <2>2, <2>3, <2>4, <2>5, <2>6, <2>7, <2>8, <2>9, <2>10, <2>11, <2>12,
       <2>13, <2>14, <2>15, <2>16
       DEF Step
<1>2. ASSUME PowerLoss
      PROVE  Kept
  <2>1. LockedWork' /\ WorkHasDirectory'
    BY <1>0, <1>2 DEF TypeOK, PowerLoss, Over, LockedWork, Working, WorkHasDirectory
  <2>2. AttemptHasPlan'
    BY <1>0, <1>2 DEF TypeOK, PowerLoss, Over, AttemptHasPlan
  <2>3. Recorded'
    BY <1>0, <1>2 DEF TypeOK, PowerLoss, Over, Recorded
  <2>4. FreshStart' /\ CopyUnderway' /\ CopyDone' /\ PromotionAlone'
    BY <1>0, <1>2
       DEF TypeOK, PowerLoss, Over, FreshStart, CopyUnderway, Copying, CopyDone, Complete,
           PromotionAlone, Promoting
  <2>5. QED BY <2>1, <2>2, <2>3, <2>4
<1>3. ASSUME NEW op \in Op, LoseFile(op)
      PROVE  Kept
  BY <1>0, <1>3
     DEF TypeOK, LoseFile, LockedWork, Working, WorkHasDirectory, AttemptHasPlan, Recorded,
         FreshStart, CopyUnderway, Copying, CopyDone, Complete, PromotionAlone, Promoting
<1>4. QED
  BY <1>0, <1>1, <1>2, <1>3 DEF Next, IInv

-----------------------------------------------------------------------------
(* The theorems.                                                           *)

\* The inductive invariant holds in every state.
THEOREM InductiveInvariant == Spec => []IInv
<1>1. IInv /\ [Next]_vars => IInv'
  <2> SUFFICES ASSUME IInv, [Next]_vars
               PROVE  IInv'
    OBVIOUS
  <2>1. CASE Next
    BY <2>1, InvStep
  <2>2. CASE UNCHANGED vars
    BY <2>2
       DEF vars, IInv, TypeOK, LockedWork, WorkHasDirectory, AttemptHasPlan, Recorded,
           FreshStart, CopyUnderway, CopyDone, PromotionAlone, Promoting
  <2>3. QED BY <2>1, <2>2
<1>2. QED
  BY InvInit, <1>1, PTL DEF Spec

\* The state has its types: repack/Installer.cpp's counters stay within the plan.
THEOREM TypeCorrect == Spec => []TypeOK
<1>1. IInv => TypeOK
  BY DEF IInv
<1>2. QED
  BY InductiveInvariant, <1>1, PTL

\* What install-state.json says is done is on the disk by the plan it names, or
\* a file is missing and it is not believed: writeState flushes before it records.
\* A record that outlived its files, its removal having failed, is excepted.
THEOREM RecordsAreTrue == Spec => []RecordIsTrue
<1>1. IInv => RecordIsTrue
  BY InstallerAssumption DEF IInv, TypeOK, Recorded, RecordIsTrue, Claimed, Op
<1>2. QED
  BY InductiveInvariant, <1>1, PTL

\* The step that brings the output directory into being.
LEMMA PromotionStep ==
    ASSUME IInv, Next, installed = Absent, installed' # Absent, Undisturbed
    PROVE  \E p \in Installer : /\ pc[p] = "rename" /\ pc'[p] = "idle"
                                /\ installed' = Directory(Made(plan[p]), TRUE)
<1> USE DEF directory, locals, past
<1>1. ASSUME NEW p \in Installer, Step(p)
      PROVE  Remove(p) \/ Rename(p)
  BY <1>1 DEF Step, Begin, Acquire, Resume, Create, Copy, Cancel, CopyEnds, Flush,
              WriteRecord, Seal, RemoveRecord, Release, NothingToRemove, Stop
<1>2. ASSUME NEW p \in Installer, Remove(p)
      PROVE  FALSE
  BY <1>2 DEF Remove, Absent, NoFiles, Directory
<1>3. ASSUME NEW p \in Installer, Rename(p)
      PROVE  /\ pc[p] = "rename" /\ pc'[p] = "idle"
             /\ installed' = Directory(Made(plan[p]), TRUE)
  <2>1. installed' = Directory(file, manifest) /\ pc[p] = "rename" /\ pc'[p] = "idle"
    BY <1>3 DEF Rename, Over
  <2>2. file = Made(plan[p]) /\ manifest = TRUE
    BY <2>1 DEF IInv, PromotionAlone, Promoting, TypeOK, Undisturbed
  <2>3. QED BY <2>1, <2>2
<1>4. ~ PowerLoss /\ ~ \E op \in Op : LoseFile(op)
  BY DEF PowerLoss, LoseFile
<1>5. QED
  BY <1>1, <1>2, <1>3, <1>4 DEF Next

\* What is renamed to <output> is all of the installer's plan, with the manifest,
\* as long as no installer took the lock while another was promoting, and none took up
\* a record that had outlived its files.
THEOREM PromotesPlans == Spec => PromotesItsPlan
<1>1. IInv /\ [Next]_vars
      => [ installed = Absent /\ installed' # Absent /\ Undisturbed
           => \E p \in Installer : /\ pc[p] = "rename" /\ pc'[p] = "idle"
                                   /\ installed' = Directory(Made(plan[p]), TRUE) ]_vars
  <2>1. CASE Next
    BY <2>1, PromotionStep
  <2>2. CASE UNCHANGED vars
    BY <2>2
  <2>3. QED BY <2>1, <2>2
<1>2. QED
  BY InductiveInvariant, <1>1, PTL DEF Spec, PromotesItsPlan

\* The earlier install is touched only when all of a plan and its manifest wait
\* in the partial directory, as long as no installer took the lock meanwhile, and
\* none took up a record that had outlived its files.
THEOREM OldStays == Spec => OldStaysUntilNewIsWhole
<1>1. ASSUME IInv, Next, installed # Absent, installed' # installed, Undisturbed
      PROVE  manifest /\ \E of \in Plan : file = Made(of)
  <2> USE DEF directory, locals, past
  <2>1. PICK p \in Installer : Step(p)
    BY <1>1 DEF Next, PowerLoss, LoseFile
  <2>2. Remove(p) \/ Rename(p)
    BY <1>1, <2>1
       DEF Step, Begin, Acquire, Resume, Create, Copy, Cancel, CopyEnds, Flush,
           WriteRecord, Seal, RemoveRecord, Release, NothingToRemove, Stop
  <2>3. Promoting(p)
    BY <2>2 DEF Remove, Rename, Promoting
  <2>4. manifest /\ file = Made(plan[p]) /\ plan[p] \in Plan
    BY <1>1, <2>3 DEF IInv, PromotionAlone, AttemptHasPlan, Promoting, Undisturbed
  <2>5. QED BY <2>4
<1>2. IInv /\ [Next]_vars
      => [ installed # Absent /\ installed' # installed /\ Undisturbed
           => manifest /\ \E of \in Plan : file = Made(of) ]_vars
  <2>1. CASE Next
    BY <2>1, <1>1
  <2>2. CASE UNCHANGED vars
    BY <2>2
  <2>3. QED BY <2>1, <2>2
<1>3. QED
  BY InductiveInvariant, <1>2, PTL DEF Spec, OldStaysUntilNewIsWhole

-----------------------------------------------------------------------------
(* Remote files.                                                           *)

\* The stream's state has its types.
RemoteTypeOK ==
    /\ call \in Promised!Calls
    /\ calls \in Nat
    /\ stage \in {"open", "seek", "skip", "read", "again", "get", "body", "done", "failed"}
    /\ position \in Nat
    /\ stream \in [at : Nat, usable : BOOLEAN]
    /\ attempt \in 1 .. MaxAttempts
    /\ after \in {"done", "read", "again"}
    /\ filled \in Seq(Nat)
    /\ served \in 0 .. FileSize
    /\ tree \in Entries
    /\ inCall \in Nat
    /\ status \in Statuses
    /\ last \in Nat
    /\ faulty \in BOOLEAN
    /\ jumped \in BOOLEAN

Between == stage \in {"done", "seek", "get", "body"}

\* Where the bytes being read start.
Start == IF stage \in {"read", "again"} THEN call.offset ELSE position

\* Consecutive bytes from an offset on.
IsRun(bytes, offset) == \A i \in 1 .. Len(bytes) : bytes[i] = offset + i - 1

\* Each kind of call has its own part of the control.
CallAtItsPlace ==
    /\ stage \in {"seek", "skip", "read", "again"} => call.name = "read"
    /\ stage \in {"get", "body"} => call.name \in {"fetch", "list"}
    /\ stage = "open" => \/ call.name = "open" /\ after = "done"
                         \/ call.name = "read" /\ after \in {"read", "again"}
    /\ stage = "skip" => position < call.offset
    /\ call.name # "read" => call.offset = 0

\* A usable stream delivers next the byte the reader is at.
StreamAligned ==
    /\ Between /\ stream.usable => stream.at = position
    /\ Reading /\ stream.usable => stream.at = Start + Len(filled)

\* What has been received is the stretch it is taken for, and no more of it.
FilledAligned ==
    /\ Reading => IsRun(filled, Start) /\ Len(filled) <= Wanted
    /\ stage \in {"seek", "get"} => filled = <<>>
    /\ stage = "body" => IsRun(filled, 0) /\ Len(filled) <= served

\* A call that is over has what was asked for; one that has not begun, nothing.
AnswerRight ==
    /\ stage = "done" => buffer \in Promised!Contents(call)
    /\ stage = "seek" \/ call.name = "open" => buffer = <<>>

\* Between reads the stream is where the last one ended.
PositionIsLast ==
    /\ Between \/ stage = "skip" => position = last
    /\ call.name = "open" => last = 0

\* A stream that met no failure and no jump is reopened for no read.
NoReopen == ~ faulty /\ ~ jumped /\ call.name = "read" => inCall = 0 /\ stage # "open"

\* Requests are counted by the attempts of at most two rounds.
RequestsCounted ==
    /\ stage \in {"seek", "skip"} => inCall = 0
    /\ stage = "get" => inCall = attempt - 1
    /\ stage = "body" => inCall = attempt
    /\ stage = "open" => inCall <= attempt - 1 + (IF after = "again" THEN MaxAttempts ELSE 0)
    /\ stage = "read" => inCall <= MaxAttempts

\* A status that will not change ends the call.
FinalEnds == status \in Final => stage = "failed"

RemoteInv ==
    /\ RemoteTypeOK
    /\ CallAtItsPlace
    /\ StreamAligned
    /\ FilledAligned
    /\ AnswerRight
    /\ PositionIsLast
    /\ NoReopen
    /\ RequestsCounted
    /\ FinalEnds

-----------------------------------------------------------------------------
(* Runs of bytes.                                                          *)

\* A run is followed by the run from where it ends.
LEMMA RunGrows ==
    ASSUME NEW s \in Seq(Nat), NEW a \in Nat, IsRun(s, a), NEW n \in Nat,
           NEW b \in Nat, b = a + Len(s)
    PROVE  LET longer == s \o [i \in 1 .. n |-> b + i - 1]
           IN  longer \in Seq(Nat) /\ Len(longer) = Len(s) + n /\ IsRun(longer, a)
<1> DEFINE t == [i \in 1 .. n |-> b + i - 1]
<1>1. t \in Seq(Nat) /\ Len(t) = n
  <2>1. \A i \in 1 .. n : b + i - 1 \in Nat
    OBVIOUS
  <2>2. QED BY <2>1
<1>2. \A i \in 1 .. n : t[i] = b + i - 1
  OBVIOUS
<1> HIDE DEF t
<1>3. /\ s \o t \in Seq(Nat) /\ Len(s \o t) = Len(s) + n
      /\ \A i \in 1 .. Len(s) + n :
            (s \o t)[i] = IF i <= Len(s) THEN s[i] ELSE t[i - Len(s)]
  BY <1>1, ConcatProperties
<1>4. ASSUME NEW i \in 1 .. Len(s) + n
      PROVE  (s \o t)[i] = a + i - 1
  BY <1>1, <1>2, <1>3 DEF IsRun
<1>5. QED BY <1>1, <1>3, <1>4 DEF IsRun, t

\* A run of a length is the bytes RemoteContents promises.
LEMMA RunIsBytes ==
    ASSUME NEW s \in Seq(Nat), NEW a \in Nat, IsRun(s, a)
    PROVE  s = Promised!Bytes(a, Len(s))
<1> DEFINE b == Promised!Bytes(a, Len(s))
<1>1. b \in Seq(Nat) /\ Len(b) = Len(s) /\ \A i \in 1 .. Len(s) : b[i] = a + i - 1
  BY DEF Promised!Bytes
<1> HIDE DEF b
<1>2. QED BY <1>1, SeqEqual DEF IsRun, b

\* Nothing is a run, and the bytes of no length.
LEMMA EmptyRun ==
    /\ <<>> \in Seq(Nat) /\ Len(<<>>) = 0
    /\ \A a \in Nat : IsRun(<<>>, a) /\ <<>> = Promised!Bytes(a, 0)
  BY DEF IsRun, Promised!Bytes

-----------------------------------------------------------------------------
(* The inductive invariant.                                                *)

\* The first state satisfies the inductive invariant.
LEMMA RemoteInvInit == RemoteInit => RemoteInv
<1> SUFFICES ASSUME RemoteInit
             PROVE  RemoteInv
  OBVIOUS
<1> USE RemoteFileAssumption DEF RemoteInit, Call, Closed
<1>1. RemoteTypeOK
  <2>1. call \in Promised!Calls
    BY DEF Promised!Calls
  <2>2. served \in 0 .. FileSize /\ 1 \in 1 .. MaxAttempts /\ <<>> \in Seq(Nat)
    BY EmptyRun
  <2>3. QED BY <2>1, <2>2 DEF RemoteTypeOK, Statuses
<1>2. CallAtItsPlace /\ StreamAligned /\ FilledAligned
  BY DEF CallAtItsPlace, StreamAligned, FilledAligned, Between, Reading
<1>3. AnswerRight /\ PositionIsLast /\ NoReopen /\ RequestsCounted /\ FinalEnds
  BY DEF AnswerRight, PositionIsLast, Between, NoReopen, RequestsCounted, FinalEnds, Final
<1>4. QED
  BY <1>1, <1>2, <1>3 DEF RemoteInv

\* Every step keeps the inductive invariant.
LEMMA RemoteInvStep ==
    ASSUME RemoteInv, RemoteNext
    PROVE  RemoteInv'
<1> USE RemoteFileAssumption DEF client, world, history
<1>0. /\ RemoteTypeOK /\ CallAtItsPlace /\ StreamAligned /\ FilledAligned /\ AnswerRight
      /\ PositionIsLast /\ NoReopen /\ RequestsCounted /\ FinalEnds
  BY DEF RemoteInv
<1>1. ASSUME NEW s \in Statuses, OpenRange(s)
      PROVE  RemoteInv'
  <2>1. RemoteTypeOK'
    <3>1. call.offset \in Nat /\ [at |-> 0, usable |-> TRUE] \in [at : Nat, usable : BOOLEAN]
      BY <1>0 DEF RemoteTypeOK, Promised!Calls
    <3>2. inCall' \in Nat /\ status' \in Statuses /\ faulty' \in BOOLEAN
      BY <1>0, <1>1 DEF RemoteTypeOK, OpenRange, Sent
    <3>3. /\ stage' \in {"open", "seek", "skip", "read", "again", "get", "body", "done", "failed"}
          /\ attempt' \in 1 .. MaxAttempts
          /\ position' \in Nat
      BY <1>0, <3>1, <1>1 DEF RemoteTypeOK, OpenRange, TryAgain
    <3>4. stream' \in [at : Nat, usable : BOOLEAN]
      <4>1. stream' = stream \/ \E k \in Nat : stream' = [at |-> k, usable |-> TRUE]
        BY <3>1, <1>1 DEF OpenRange
      <4>2. \A k \in Nat : [at |-> k, usable |-> TRUE] \in [at : Nat, usable : BOOLEAN]
        OBVIOUS
      <4>3. stream \in [at : Nat, usable : BOOLEAN]
        BY <1>0 DEF RemoteTypeOK
      <4>4. QED BY <4>1, <4>2, <4>3
    <3>5. QED
      BY <1>0, <3>2, <3>3, <3>4, <1>1, EmptyRun DEF RemoteTypeOK, OpenRange, Sent
  <2>2. CallAtItsPlace'
    BY <1>0, <1>1, EmptyRun
       DEF RemoteTypeOK, OpenRange, Sent, Statuses, Final, Retryable, TryAgain, Usable,
           Promised!Calls, CallAtItsPlace
  <2>3. StreamAligned' /\ FilledAligned'
    BY <1>0, <1>1, EmptyRun
       DEF RemoteTypeOK, OpenRange, Sent, Statuses, Final, Retryable, TryAgain, Usable,
           Promised!Calls, StreamAligned, Between, Reading, Start, FilledAligned, Wanted,
           IsRun
  <2>4. AnswerRight'
    <3>1. call' = call /\ buffer' = buffer /\ stage = "open"
      BY <1>1 DEF OpenRange
    <3>2. stage' = "done" => call.name = "open"
      BY <1>0, <1>1 DEF OpenRange, CallAtItsPlace, TryAgain
    <3>3. stage' # "seek"
      BY <1>0, <1>1 DEF RemoteTypeOK, OpenRange, TryAgain
    <3>4. QED
      BY <1>0, <3>1, <3>2, <3>3 DEF AnswerRight, Promised!Contents
  <2>5. PositionIsLast'
    <3>1. call' = call /\ last' = last /\ stage' # "skip"
      BY <1>0, <1>1 DEF RemoteTypeOK, OpenRange, Sent, TryAgain
    <3>2. Between' => call.name = "open" /\ position' = 0
      BY <1>0, <1>1 DEF RemoteTypeOK, OpenRange, CallAtItsPlace, Between, TryAgain
    <3>3. QED
      BY <1>0, <3>1, <3>2 DEF PositionIsLast
  <2>6. NoReopen' /\ RequestsCounted' /\ FinalEnds'
    BY <1>0, <1>1, EmptyRun
       DEF RemoteTypeOK, OpenRange, Sent, Statuses, Final, Retryable, TryAgain, Usable,
           Promised!Calls, NoReopen, RequestsCounted, FinalEnds
  <2>7. QED BY <2>1, <2>2, <2>3, <2>4, <2>5, <2>6 DEF RemoteInv
<1>2. ASSUME NEW s \in Statuses, Get(s)
      PROVE  RemoteInv'
  BY SMTT(60), <1>0, <1>2
     DEF RemoteTypeOK, Get, Sent, Statuses, Final, Retryable, TryAgain, Promised!Calls,
         CallAtItsPlace, StreamAligned, Between, Reading, Start, FilledAligned, Wanted,
         IsRun, AnswerRight, Promised!Contents, PositionIsLast, NoReopen, RequestsCounted,
         FinalEnds, RemoteInv
<1>3. ASSUME NEW n \in 1 .. FileSize, Receive(n)
      PROVE  RemoteInv'
  <2>0. /\ filled' \in Seq(Nat) /\ Len(filled') = Len(filled) + n
        /\ stream.usable => IsRun(filled', Start)
        /\ stream' = [at |-> stream.at + n, usable |-> TRUE]
        /\ stream.usable /\ Start' = Start /\ Wanted' = Wanted /\ Reading /\ Reading'
    <3>1. /\ Reading /\ stream.usable /\ n \in Nat /\ stream.at \in Nat
          /\ stream.at = Start + Len(filled) /\ IsRun(filled, Start)
      BY <1>0, <1>3 DEF RemoteTypeOK, Receive, StreamAligned, FilledAligned
    <3>2. Start \in Nat /\ filled \in Seq(Nat)
      BY <1>0 DEF RemoteTypeOK, Start, Promised!Calls
    <3>3. filled' = filled \o [i \in 1 .. n |-> stream.at + i - 1]
      BY <1>3 DEF Receive
    <3>4. filled' \in Seq(Nat) /\ Len(filled') = Len(filled) + n /\ IsRun(filled', Start)
      BY <3>1, <3>2, <3>3, RunGrows
    <3>5. stream' = [at |-> stream.at + n, usable |-> TRUE]
      BY <1>0, <3>1, <1>3 DEF RemoteTypeOK, Receive
    <3>6. QED
      BY <3>1, <3>4, <3>5, <1>3 DEF Receive, Start, Wanted, Reading
  <2>1. RemoteTypeOK'
    <3>1. stream.at + n \in Nat
      BY <1>0 DEF RemoteTypeOK
    <3>2. stream' \in [at : Nat, usable : BOOLEAN]
      BY <2>0, <3>1
    <3>3. QED
      BY <1>0, <1>3, <2>0, <3>2 DEF RemoteTypeOK, Receive
  <2>2. CallAtItsPlace'
    BY <1>0, <1>3 DEF RemoteTypeOK, Receive, Reading, Wanted, CallAtItsPlace
  <2>3. StreamAligned'
    <3>1. Start \in Nat /\ stream.at = Start + Len(filled)
      BY <1>0, <2>0 DEF RemoteTypeOK, StreamAligned, Start, Promised!Calls
    <3>2. stream'.at = Start + Len(filled') /\ ~ Between'
      <4>1. stream'.at = stream.at + n
        BY <2>0
      <4>2. ~ Between'
        BY <2>0 DEF Between, Reading
      <4>3. QED BY <2>0, <3>1, <4>1, <4>2
    <3>3. QED
      BY <2>0, <3>2 DEF StreamAligned
  <2>4. FilledAligned'
    <3>1. Len(filled') <= Wanted /\ stage' = stage
      BY <2>0, <1>3 DEF Receive
    <3>2. stage' \notin {"seek", "get", "body"}
      BY <2>0, <3>1 DEF Reading
    <3>3. IsRun(filled', Start')
      BY <2>0
    <3>4. QED
      BY <2>0, <3>1, <3>2, <3>3 DEF FilledAligned, IsRun
  <2>5. AnswerRight' /\ PositionIsLast' /\ NoReopen' /\ RequestsCounted' /\ FinalEnds'
    BY <1>0, <1>3
       DEF RemoteTypeOK, Receive, Reading, Wanted, AnswerRight, Promised!Contents,
           PositionIsLast, Between, NoReopen, RequestsCounted, FinalEnds, Final
  <2>6. QED BY <2>1, <2>2, <2>3, <2>4, <2>5 DEF RemoteInv
<1>4. ASSUME NEW n \in 1 .. FileSize, Body(n)
      PROVE  RemoteInv'
  <2>1. RemoteTypeOK' /\ CallAtItsPlace' /\ StreamAligned' /\ FilledAligned'
    BY <1>0, <1>4
       DEF RemoteTypeOK, Body, CallAtItsPlace, StreamAligned, Between, Reading, Start,
           FilledAligned, Wanted, IsRun
  <2>2. AnswerRight' /\ PositionIsLast' /\ NoReopen' /\ RequestsCounted' /\ FinalEnds'
    BY <1>0, <1>4
       DEF RemoteTypeOK, Body, AnswerRight, Promised!Contents, PositionIsLast, Between, NoReopen,
           RequestsCounted, FinalEnds, Final
  <2>3. QED BY <2>1, <2>2 DEF RemoteInv
<1>5. CASE Seek
  <2>1. RemoteTypeOK' /\ CallAtItsPlace' /\ StreamAligned' /\ FilledAligned'
    BY SMTT(60), <1>0, <1>5
       DEF RemoteTypeOK, Seek, Promised!Calls, CallAtItsPlace, StreamAligned, Between, Reading,
           Start, FilledAligned, Wanted, IsRun
  <2>2. AnswerRight'
    <3>1. /\ call' = call /\ buffer' = <<>> /\ call.name = "read" /\ call.offset \in Nat
          /\ stage' = "done" => call.length = 0
      BY <1>0, <1>5 DEF RemoteTypeOK, Seek, CallAtItsPlace, AnswerRight, Promised!Calls
    <3>2. QED
      BY <1>0, <3>1, EmptyRun DEF AnswerRight, Promised!Contents
  <2>3. PositionIsLast'
    BY <1>0, <1>5 DEF RemoteTypeOK, Seek, Promised!Calls, PositionIsLast, Between
  <2>4. NoReopen'
    BY <1>0, <1>5
       DEF RemoteTypeOK, Seek, NoReopen, PositionIsLast, Between, RequestsCounted, Promised!Calls
  <2>5. RequestsCounted' /\ FinalEnds'
    BY <1>0, <1>5 DEF RemoteTypeOK, Seek, Promised!Calls, RequestsCounted, FinalEnds, Final
  <2>6. QED BY <2>1, <2>2, <2>3, <2>4, <2>5 DEF RemoteInv
<1>6. CASE Received
  <2>1. RemoteTypeOK' /\ CallAtItsPlace'
    BY <1>0, <1>6, EmptyRun
       DEF RemoteTypeOK, Received, Reading, Wanted, PositionAfter, Promised!Calls, CallAtItsPlace
  <2>2. StreamAligned'
    BY <1>0, <1>6, EmptyRun
       DEF RemoteTypeOK, Received, Reading, Wanted, PositionAfter, Promised!Calls, StreamAligned,
           Between, Start
  <2>3. FilledAligned'
    BY <1>0, <1>6, EmptyRun
       DEF RemoteTypeOK, Received, Reading, Wanted, PositionAfter, Promised!Calls, FilledAligned,
           Start, IsRun
  <2>4. AnswerRight'
    <3>1. CASE stage = "skip"
      BY <1>0, <1>6, <3>1 DEF Received, AnswerRight, CallAtItsPlace
    <3>2. CASE stage # "skip"
      <4>1. /\ call' = call /\ buffer' = filled /\ call.name = "read" /\ stage' = "done"
            /\ call.offset \in Nat /\ filled \in Seq(Nat)
            /\ Len(filled) = call.length /\ IsRun(filled, call.offset)
        BY <1>0, <1>6, <3>2
           DEF RemoteTypeOK, Received, Reading, Wanted, CallAtItsPlace, FilledAligned, Start,
               Promised!Calls
      <4>2. filled = Promised!Bytes(call.offset, call.length)
        BY <4>1, RunIsBytes
      <4>3. QED
        BY <4>1, <4>2 DEF AnswerRight, Promised!Contents
    <3>3. QED BY <3>1, <3>2
  <2>5. PositionIsLast'
    BY <1>0, <1>6, EmptyRun
       DEF RemoteTypeOK, Received, Reading, Wanted, PositionAfter, Promised!Calls,
           PositionIsLast, Between
  <2>6. NoReopen' /\ RequestsCounted' /\ FinalEnds'
    BY <1>0, <1>6, EmptyRun
       DEF RemoteTypeOK, Received, Reading, Wanted, PositionAfter, Promised!Calls, NoReopen,
           RequestsCounted, FinalEnds, Final
  <2>7. QED BY <2>1, <2>2, <2>3, <2>4, <2>5, <2>6 DEF RemoteInv
<1>7. CASE BodyEnds
  <2>1. RemoteTypeOK' /\ CallAtItsPlace' /\ StreamAligned' /\ FilledAligned'
    BY <1>0, <1>7
       DEF RemoteTypeOK, BodyEnds, CallAtItsPlace, StreamAligned, Between, Reading, Start,
           FilledAligned, Wanted, IsRun
  <2>2. AnswerRight'
    <3>1. /\ call' = call /\ served' = served /\ buffer' = filled /\ call.name = "fetch"
          /\ stage' = "done" /\ Len(filled) \in 0 .. served /\ filled \in Seq(Nat)
          /\ IsRun(filled, 0)
      BY <1>0, <1>7 DEF RemoteTypeOK, BodyEnds, FilledAligned
    <3>2. filled = Promised!Bytes(0, Len(filled))
      BY <3>1, RunIsBytes
    <3>3. buffer' \in Promised!Contents(call)'
      BY <3>1, <3>2 DEF Promised!Contents
    <3>4. QED
      BY <3>1, <3>3 DEF AnswerRight
  <2>3. PositionIsLast'
    BY <1>0, <1>7 DEF RemoteTypeOK, BodyEnds, PositionIsLast, Between
  <2>4. NoReopen' /\ RequestsCounted' /\ FinalEnds'
    BY <1>0, <1>7 DEF RemoteTypeOK, BodyEnds, NoReopen, RequestsCounted, FinalEnds, Final
  <2>5. QED BY <2>1, <2>2, <2>3, <2>4 DEF RemoteInv
<1>8. CASE BodyFails
  BY SMTT(60), <1>0, <1>8, EmptyRun
     DEF RemoteTypeOK, BodyFails, Statuses, Final, CallAtItsPlace, StreamAligned, Between,
         Reading, Start, FilledAligned, Wanted, IsRun, AnswerRight, Promised!Contents,
         PositionIsLast, NoReopen, RequestsCounted, FinalEnds, RemoteInv
<1>9. ASSUME NEW b \in BOOLEAN, Short(b)
      PROVE  RemoteInv'
  <2>1. RemoteTypeOK'
    <3>1. stream'.usable \in BOOLEAN /\ stream' \in [at : Nat, usable : BOOLEAN]
      BY <1>0, <1>9 DEF RemoteTypeOK, Short
    <3>2. QED
      BY <1>0, <1>9, <3>1 DEF RemoteTypeOK, Short, AfterReopen
  <2>2. CallAtItsPlace'
    BY <1>0, <1>9 DEF RemoteTypeOK, Short, Reading, Wanted, AfterReopen, CallAtItsPlace
  <2>3. StreamAligned' /\ FilledAligned'
    BY <1>0, <1>9
       DEF RemoteTypeOK, Short, Reading, Wanted, AfterReopen, StreamAligned, Between, Start,
           FilledAligned, IsRun
  <2>4. AnswerRight' /\ PositionIsLast' /\ NoReopen' /\ RequestsCounted' /\ FinalEnds'
    BY <1>0, <1>9
       DEF RemoteTypeOK, Short, Reading, Wanted, AfterReopen, AnswerRight, Promised!Contents,
           PositionIsLast, Between, NoReopen, RequestsCounted, FinalEnds, Final
  <2>5. QED BY <2>1, <2>2, <2>3, <2>4 DEF RemoteInv
<1>10. ASSUME NEW b \in BOOLEAN, List(b)
      PROVE  RemoteInv'
  BY <1>0, <1>10
     DEF RemoteTypeOK, List, CallAtItsPlace, StreamAligned, Between, Reading, Start,
         FilledAligned, Wanted, IsRun, AnswerRight, Promised!Contents, PositionIsLast,
         NoReopen, RequestsCounted, FinalEnds, Final, RemoteInv
<1>11. ASSUME NEW offset \in 0 .. FileSize, NEW length \in 0 .. FileSize, ReadExactAt(offset, length)
      PROVE  RemoteInv'
  BY SMTT(60), <1>0, <1>11, EmptyRun
     DEF RemoteTypeOK, ReadExactAt, BeginCall, Call, Promised!Calls, Statuses, Final,
         CallAtItsPlace, StreamAligned, Between, Reading, Start, FilledAligned, Wanted, IsRun, AnswerRight,
         Promised!Contents, PositionIsLast, NoReopen, RequestsCounted, FinalEnds, RemoteInv
<1>12. CASE FetchSmallFile
  <2>1. RemoteTypeOK' /\ CallAtItsPlace' /\ StreamAligned' /\ FilledAligned'
    BY <1>0, <1>12, EmptyRun
       DEF RemoteTypeOK, FetchSmallFile, BeginCall, Call, Promised!Calls, Statuses, Final,
           CallAtItsPlace, StreamAligned, Between, Reading, Start, FilledAligned, Wanted,
           IsRun
  <2>2. AnswerRight' /\ PositionIsLast' /\ NoReopen' /\ RequestsCounted' /\ FinalEnds'
    BY <1>0, <1>12, EmptyRun
       DEF RemoteTypeOK, FetchSmallFile, BeginCall, Call, Promised!Calls, Statuses, Final,
           AnswerRight, Promised!Contents, PositionIsLast, Between, NoReopen,
           RequestsCounted, FinalEnds
  <2>3. QED BY <2>1, <2>2 DEF RemoteInv
<1>13. CASE ListRemoteFiles
  BY <1>0, <1>13, EmptyRun
     DEF RemoteTypeOK, ListRemoteFiles, BeginCall, Call, Promised!Calls, Statuses, Final,
         CallAtItsPlace, StreamAligned, Between, Reading, Start, FilledAligned, Wanted,
         IsRun, AnswerRight, Promised!Contents, PositionIsLast, NoReopen, RequestsCounted,
         FinalEnds, RemoteInv
<1>14. QED
  BY <1>1, <1>2, <1>3, <1>4, <1>5, <1>6, <1>7, <1>8, <1>9, <1>10, <1>11, <1>12, <1>13
     DEF RemoteNext, RemoteStep, Caller

-----------------------------------------------------------------------------
(* The theorems.                                                           *)

\* The inductive invariant holds in every state.
THEOREM RemoteInvariant == RemoteSpec => []RemoteInv
<1>1. RemoteInv /\ [RemoteNext]_remoteVars => RemoteInv'
  <2> SUFFICES ASSUME RemoteInv, [RemoteNext]_remoteVars
               PROVE  RemoteInv'
    OBVIOUS
  <2>1. CASE RemoteNext
    BY <2>1, RemoteInvStep
  <2>2. CASE UNCHANGED remoteVars
    BY <2>2
       DEF remoteVars, RemoteInv, RemoteTypeOK, CallAtItsPlace, StreamAligned, FilledAligned,
           AnswerRight, PositionIsLast, NoReopen, RequestsCounted, FinalEnds, Between, Reading, Start,
           Wanted, Promised!Contents
  <2>3. QED BY <2>1, <2>2
<1>2. QED
  BY RemoteInvInit, <1>1, PTL DEF RemoteSpec

\* A stream on which nothing failed and that reads on in short gaps sends no
\* request after the first (RemoteFileStream: "a single range request covers a
\* whole shard").
THEOREM ForwardReadsShare == RemoteSpec => []ForwardReadsShareARequest
<1>1. RemoteInv => ForwardReadsShareARequest
  BY DEF RemoteInv, NoReopen, ForwardReadsShareARequest
<1>2. QED
  BY RemoteInvariant, <1>1, PTL

\* The step that sends a request.
LEMMA RequestStep ==
    ASSUME RemoteInv, RemoteNext, inCall' > inCall
    PROVE  inCall < 2 * MaxAttempts /\ status \notin Final
<1> USE DEF client, world, history
<1>1. \/ stage = "open" \/ stage = "get" \/ inCall' = inCall \/ inCall' = 0
  BY DEF RemoteNext, RemoteStep, Caller, OpenRange, Get, Receive, Body, Seek, Received, BodyEnds,
         BodyFails, Short, List, ReadExactAt, FetchSmallFile, ListRemoteFiles, BeginCall
<1>2. stage \in {"open", "get"}
  BY <1>1 DEF RemoteInv, RemoteTypeOK
<1>3. inCall < 2 * MaxAttempts
  BY <1>2, RemoteFileAssumption DEF RemoteInv, RemoteTypeOK, RequestsCounted
<1>4. QED
  BY <1>2, <1>3 DEF RemoteInv, FinalEnds

\* A call costs at most two rounds of RetryPolicy::maxAttempts requests, and none
\* is sent after a status that will not change.
THEOREM TriesBounded == RemoteSpec => TriesAreBounded
<1>1. RemoteInv /\ [RemoteNext]_remoteVars
      => [inCall' > inCall => inCall < 2 * MaxAttempts /\ status \notin Final]_remoteVars
  <2>1. CASE RemoteNext
    BY <2>1, RequestStep
  <2>2. CASE UNCHANGED remoteVars
    BY <2>2
  <2>3. QED BY <2>1, <2>2
<1>2. QED
  BY RemoteInvariant, <1>1, PTL DEF RemoteSpec, TriesAreBounded

-----------------------------------------------------------------------------
(* The stream implements what Remote.h promises.                           *)

\* What the caller sees of a state.
Answered == CASE stage = "done" -> buffer
              [] stage = "failed" -> Failed
              [] OTHER -> Pending

\* The contents of a file, of a listing and of nothing are neither of the marks.
LEMMA ContentsAreNoMark ==
    ASSUME RemoteTypeOK, NEW bytes \in Promised!Contents(call)
    PROVE  bytes \notin {Pending, Failed}
<1>1. \A a, n \in Nat : Promised!Bytes(a, n) \in Seq(Nat)
  <2>1. ASSUME NEW a \in Nat, NEW n \in Nat
        PROVE  Promised!Bytes(a, n) \in Seq(Nat)
    <3>1. \A i \in 1 .. n : a + i - 1 \in Nat
      OBVIOUS
    <3>2. QED BY <3>1 DEF Promised!Bytes
  <2>2. QED BY <2>1
<1>2. <<>> \in Seq(Nat) /\ Listed(tree) \notin {Pending, Failed}
  BY EmptyRun, ListingAssumption DEF RemoteTypeOK
<1>3. /\ \A n \in 0 .. served : Promised!Bytes(0, n) \in Seq(Nat)
      /\ call.name = "read" => Promised!Bytes(call.offset, call.length) \in Seq(Nat)
      /\ call.name \in {"open", "list", "fetch", "read"}
  <2>1. served \in Nat
    BY RemoteFileAssumption DEF RemoteTypeOK
  <2>2. call.name = "read" => call.offset \in Nat /\ call.length \in Nat
    BY DEF RemoteTypeOK, Promised!Calls
  <2>3. call.name \in {"open", "list", "fetch", "read"}
    BY DEF RemoteTypeOK, Promised!Calls
  <2>4. \A n \in 0 .. served : n \in Nat
    BY <2>1
  <2>5. \A n \in 0 .. served : Promised!Bytes(0, n) \in Seq(Nat)
    BY <1>1, <2>4
  <2>6. QED BY <1>1, <2>2, <2>3, <2>5
<1>4. bytes \in Seq(Nat) \/ bytes = Listed(tree)
  BY <1>2, <1>3 DEF Promised!Contents
<1>5. Pending \notin Seq(Nat) /\ Failed \notin Seq(Nat)
  BY RemoteFileAssumption
<1>6. CASE bytes \in Seq(Nat)
  BY <1>5, <1>6
<1>7. CASE bytes = Listed(tree)
  BY <1>2, <1>7
<1>8. QED BY <1>4, <1>6, <1>7

\* Every step is a question, an answer, or nothing the caller sees.
LEMMA StepRefines ==
    ASSUME RemoteInv, RemoteNext
    PROVE  Promised!Next \/ UNCHANGED <<call, Answered, served, Listed(tree)>>
<1> USE DEF client, world, history
<1>0. RemoteTypeOK /\ AnswerRight /\ RemoteInv' /\ RemoteTypeOK' /\ AnswerRight'
  BY RemoteInvStep DEF RemoteInv
<1>1. served' = served /\ tree' = tree
  BY DEF RemoteNext, RemoteStep, Caller, OpenRange, Get, Receive, Body, Seek, Received, BodyEnds,
         BodyFails, Short, List, ReadExactAt, FetchSmallFile, ListRemoteFiles, BeginCall
<1>2. CASE Caller
  <2>1. stage = "done" /\ stage' \in {"seek", "get"}
    BY <1>2 DEF Caller, ReadExactAt, FetchSmallFile, ListRemoteFiles, BeginCall
  <2>2. Answered \in Promised!Contents(call) /\ Answered' = Pending
    BY <1>0, <2>1 DEF Answered, AnswerRight
  <2>3. Answered \notin {Pending, Failed}
    BY <1>0, <2>2, ContentsAreNoMark
  <2>4. call' \in Promised!Calls
    BY <1>0 DEF RemoteTypeOK
  <2>5. Promised!Ask
    BY <1>1, <2>2, <2>3, <2>4 DEF Promised!Ask, Answered
  <2>6. QED BY <2>5 DEF Promised!Next
<1>3. CASE RemoteStep
  <2>1. stage \notin {"done", "failed"} /\ call' = call
    BY <1>3
       DEF RemoteStep, OpenRange, Get, Receive, Body, Seek, Received, BodyEnds, BodyFails, Short,
           List, Reading
  <2>2. Answered = Pending
    BY <2>1 DEF Answered
  <2>3. Promised!Contents(call)' = Promised!Contents(call)
    BY <1>1, <2>1 DEF Promised!Contents
  <2>4. CASE stage' = "done"
    <3>1. Answered' \in Promised!Contents(call)
      BY <1>0, <2>3, <2>4 DEF Answered, AnswerRight
    <3>2. Promised!Answer
      BY <1>1, <2>1, <2>2, <3>1 DEF Promised!Answer, Answered
    <3>3. QED BY <3>2 DEF Promised!Next
  <2>5. CASE stage' = "failed"
    <3>1. Answered' = Failed
      BY <2>5 DEF Answered
    <3>2. Promised!Answer
      BY <1>1, <2>1, <2>2, <3>1 DEF Promised!Answer, Answered
    <3>3. QED BY <3>2 DEF Promised!Next
  <2>6. CASE stage' \notin {"done", "failed"}
    <3>1. Answered' = Pending
      BY <2>6 DEF Answered
    <3>2. QED BY <1>1, <2>1, <2>2, <3>1
  <2>7. QED BY <2>4, <2>5, <2>6
<1>4. QED BY <1>2, <1>3 DEF RemoteNext

\* Whatever the network does, the calls of a stream are asked and answered as
\* RemoteContents has it: what comes back is an error, or exactly the bytes or the
\* names that were asked for, or of a sidecar a beginning.  (That an answer comes is
\* checked, not proved.)
THEOREM ImplementsContents ==
    RemoteSpec => Promised!Init /\ [][Promised!Next]_(Promised!vars)
<1>1. RemoteInit => Promised!Init
  <2> SUFFICES ASSUME RemoteInit
               PROVE  Promised!Init
    OBVIOUS
  <2>1. served \in 0 .. FileSize
    BY RemoteFileAssumption DEF RemoteInit
  <2>2. QED
    BY <2>1 DEF RemoteInit, Promised!Init, Call
<1>2. RemoteInv /\ [RemoteNext]_remoteVars => [Promised!Next]_(Promised!vars)
  <2> SUFFICES ASSUME RemoteInv, [RemoteNext]_remoteVars
               PROVE  Promised!Next \/ UNCHANGED Promised!vars
    OBVIOUS
  <2>1. CASE RemoteNext
    BY <2>1, StepRefines DEF Promised!vars, Answered
  <2>2. CASE UNCHANGED remoteVars
    BY <2>2 DEF remoteVars, Promised!vars
  <2>3. QED BY <2>1, <2>2
<1>3. QED
  BY RemoteInvariant, <1>1, <1>2, PTL DEF RemoteSpec
=============================================================================
