---------------------------- MODULE ContentStore ----------------------------
(***************************************************************************)
(* A committed checkpoint that is kept in parts:                           *)
(* internal/repository/checkpoint_content.go.                              *)
(*                                                                         *)
(* Every record of a checkpoint, and the packed rest of it, is a file      *)
(* named by its hash in the content directory; the checkpoint file (root)  *)
(* is a small pointer that is replaced when all of them are there.  Then   *)
(* the files that are no longer used are removed.  A process knows which   *)
(* files it has read or written (known) and looks at no other.             *)
(*                                                                         *)
(* Directories of version 1 hold the whole checkpoint in the root, and an  *)
(* offline upgrade turns them into version 2, after a backup.              *)
(*                                                                         *)
(* replaceCheckpoint writes a file under its name or not at all; when it   *)
(* fails the caller does not know which.  Two-valued flags are strings.    *)
(***************************************************************************)
EXTENDS Integers

CONSTANTS Contents,     \* story contents
          MaxRevision,  \* repository.MaxSourceRevision
          MaxOld,       \* bound: revisions committed by a version 1 source
          MaxFaults     \* bound: kills, failed writes and failed removals

ASSUME ContentAssumption ==
    /\ MaxRevision \in Nat \ {0}
    /\ MaxOld \in 0 .. MaxRevision
    /\ MaxFaults \in Nat

\* SourceCheckpoint: the revision, the pending body and what is recorded of
\* its delivery.
Checkpoints == [rev      : 0 .. MaxRevision,
                body     : SUBSET Contents,
                accepted : 0 .. MaxRevision]

Unstarted == [rev |-> 0, body |-> {}, accepted |-> 0]

Story(c) == <<"story", c>>
Packed(cp) == <<"packed", cp>>

\* The files a checkpoint is packed into.
Used(cp) == {Story(c) : c \in cp.body} \cup {Packed(cp)}

Objects == {Story(c) : c \in Contents} \cup {Packed(cp) : cp \in Checkpoints}

\* The backup file: of the version 1 checkpoint that is there now, or was
\* there last; of an older one; or cut short.
Backups == {"none", "part", "exact", "stale"}

Idle == [at |-> "idle"]

Jobs == [at : {"backup", "store", "collect"}, next : Checkpoints, todo : SUBSET Objects]

VARIABLES
    root,       \* the checkpoint file: [version, cp]
    objects,    \* the content directory
    backup,     \* the .pre-v2 file
    proc,       \* what runs: nothing, the upgrade, or a version 2 source,
                \* which first of all saves
    mem,        \* the checkpoint in memory
    known,      \* the files this process knows to be there
    usable,     \* "no" after a failed write: Durable.degraded
    job,        \* the save under way
    faults      \* kills and failed writes so far

contentVars == <<root, objects, backup, proc, mem, known, usable, job, faults>>

ContentTypeOK ==
    /\ root \in [version : {1, 2}, cp : Checkpoints]
    /\ objects \subseteq Objects
    /\ backup \in Backups
    /\ proc \in {"down", "upgrade", "starting", "source"}
    /\ mem \in Checkpoints
    /\ known \subseteq Objects
    /\ usable \in {"yes", "no"}
    /\ job \in Jobs \cup {Idle}
    /\ faults \in 0 .. MaxFaults

\* A new directory of version 1.  (One that is initialised as version 2 is
\* what an upgrade makes of this.)
ContentInit ==
    /\ root = [version |-> 1, cp |-> Unstarted]
    /\ objects = {}
    /\ backup = "none"
    /\ proc = "down"
    /\ mem = Unstarted
    /\ known = {}
    /\ usable = "yes"
    /\ job = Idle
    /\ faults = 0

-----------------------------------------------------------------------------
(* Saving.                                                                 *)

\* The files that have to be written: not those this process knows.
Missing(cp) == Used(cp) \ known

SaveJob(next) == [at |-> "store", next |-> next, todo |-> Missing(next)]

\* store: a file that is there already is not written again.
Store(o) ==
    /\ job.at = "store"
    /\ o \in job.todo
    /\ objects' = objects \cup {o}
    /\ known' = known \cup {o}
    /\ job' = [job EXCEPT !.todo = @ \ {o}]
    /\ UNCHANGED <<root, backup, proc, mem, usable, faults>>

Fault == faults < MaxFaults /\ faults' = faults + 1

Down ==
    /\ proc' = "down"
    /\ known' = {}
    /\ mem' = Unstarted

\* A start or an upgrade that fails ends the process.  After an uncertain
\* write a source advertises nothing more until it is started again.
Stopped ==
    /\ job' = Idle
    /\ IF proc = "source"
          THEN usable' = "no" /\ UNCHANGED <<proc, known, mem>>
          ELSE Down /\ UNCHANGED usable

StoreFails(o) ==
    /\ Fault
    /\ job.at = "store"
    /\ o \in job.todo
    /\ objects' \in {objects, objects \cup {o}}
    /\ Stopped
    /\ UNCHANGED <<root, backup>>

\* The directory is flushed and the root moves.
MoveRoot ==
    /\ job.at = "store"
    /\ job.todo = {}
    /\ root' = [version |-> 2, cp |-> job.next]
    /\ job' = [job EXCEPT !.at = "collect"]
    /\ UNCHANGED <<objects, backup, proc, mem, known, usable, faults>>

MoveRootFails ==
    /\ Fault
    /\ job.at = "store"
    /\ job.todo = {}
    /\ root' \in {root, [version |-> 2, cp |-> job.next]}
    /\ Stopped
    /\ UNCHANGED <<objects, backup>>

\* Mutant of KnownAfter: what was removed is not forgotten.
KnownAlways(gone) == known

KnownAfter(gone) == known \ gone

\* The files the new checkpoint does not use are removed; one that cannot be
\* removed is tried again next time.
Collect ==
    /\ job.at = "collect"
    /\ \E gone \in SUBSET (known \ Used(job.next)) :
          /\ IF gone = known \ Used(job.next) THEN UNCHANGED faults ELSE Fault
          /\ objects' = objects \ gone
          /\ IF proc = "upgrade"
                THEN Down
                ELSE proc' = "source" /\ known' = KnownAfter(gone) /\ mem' = job.next
    /\ job' = Idle
    /\ UNCHANGED <<root, backup, usable>>

-----------------------------------------------------------------------------
(* Starting and upgrading.  The directory lock admits one process.         *)

\* read follows every reference of the root.
Readable == Used(root.cp) \subseteq objects

\* The next revision of the pending body.
Revised(cp, body) == [rev |-> cp.rev + 1, body |-> body, accepted |-> cp.accepted]

\* A start reads the checkpoint and saves a revision that is incomplete, and
\* so has no stories, before anything else happens.
Open ==
    /\ proc = "down"
    /\ root.version = 2
    /\ Readable
    /\ root.cp.rev < MaxRevision
    /\ proc' = "starting"
    /\ mem' = root.cp
    /\ known' = Used(root.cp)
    /\ usable' = "yes"
    /\ LET next == Revised(root.cp, {})
       IN  job' = [at |-> "store", next |-> next, todo |-> Used(next) \ Used(root.cp)]
    /\ UNCHANGED <<root, objects, backup, faults>>

\* A version 1 source commits a revision, or its acceptance (see module
\* CommittedSource).
CommitOld ==
    /\ proc = "down"
    /\ root.version = 1
    /\ \E cp \in {[root.cp EXCEPT !.accepted = root.cp.rev]}
                 \cup {Revised(root.cp, body) : body \in SUBSET Contents} :
          /\ cp # root.cp
          /\ cp.rev <= MaxOld
          /\ root' = [root EXCEPT !.cp = cp]
    /\ backup' = IF backup = "exact" THEN "stale" ELSE backup
    /\ UNCHANGED <<objects, proc, mem, known, usable, job, faults>>

\* UpgradeSourceSync of a version 1 directory; of another it does nothing.
Upgrade ==
    /\ proc = "down"
    /\ root.version = 1
    /\ proc' = "upgrade"
    /\ mem' = root.cp
    /\ job' = [at |-> "backup", next |-> root.cp, todo |-> {}]
    /\ UNCHANGED <<root, objects, backup, known, usable, faults>>

\* Mutant of BackupFits: a backup that exists is not compared.
BackupExists == backup # "none"

\* An earlier attempt left the backup of this very checkpoint.
BackupFits == backup = "exact"

BackUp ==
    /\ job.at = "backup"
    /\ backup = "none" \/ BackupFits
    /\ backup' = IF backup = "none" THEN "exact" ELSE backup
    /\ job' = SaveJob(job.next)
    /\ UNCHANGED <<root, objects, proc, mem, known, usable, faults>>

BackUpFails ==
    /\ job.at = "backup"
    /\ IF backup = "none"
          THEN /\ Fault
               /\ backup' \in {"none", "part", "exact"}
          ELSE ~BackupFits /\ UNCHANGED <<backup, faults>>
    /\ Stopped
    /\ UNCHANGED <<root, objects>>

\* The process is killed; a backup it was writing may be cut short.
Kill ==
    /\ Fault
    /\ proc # "down"
    /\ Down
    /\ usable' = "yes"
    /\ job' = Idle
    /\ backup' \in {backup} \cup IF job.at = "backup" /\ backup = "none"
                                    THEN {"part"} ELSE {}
    /\ UNCHANGED <<root, objects>>

Saving ==
    \/ \E o \in Objects : Store(o) \/ StoreFails(o)
    \/ MoveRoot \/ MoveRootFails \/ Collect \/ BackUp \/ BackUpFails

-----------------------------------------------------------------------------
(* Properties.                                                             *)

\* Whatever was interrupted or failed, the checkpoint on disk can be read:
\* every file that a version 2 root refers to is in the content directory
\* (save writes them first and removes only what the new root does not use).
RootReadable == root.version = 2 => Readable

\* The backup beside a version 2 checkpoint is the exact version 1
\* checkpoint it was made from, over interrupted upgrades and commits of
\* version 1 between them (backupSourceCheckpoint).
BackupIsExact == root.version = 2 => backup = "exact"
=============================================================================
