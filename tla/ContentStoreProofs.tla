-------------------------- MODULE ContentStoreProofs --------------------------
(***************************************************************************)
(* RootReadable, BackupIsExact and, for the transfer, AcceptedWasPublished *)
(* for every set of contents and every number of revisions, kills, failed  *)
(* writes and losses at the receiver.                                      *)
(*                                                                         *)
(* The argument: what a process takes to be in the content directory is    *)
(* there (known), because it forgets what it removes.  While a save writes *)
(* its files, each file of the next checkpoint is known or still to do, so *)
(* the root moves to a checkpoint whose files are all there.  Files are    *)
(* removed only when the root has moved, and none that it uses.  Nothing   *)
(* is saved as version 2 before the backup was found or made exact, and    *)
(* from then on no version 1 source runs that would change its original.   *)
(***************************************************************************)
EXTENDS SourceTransfer, TLAPS

\* Which process is at work on what.
Owner ==
    /\ proc = "down" => job = Idle
    /\ job.at = "backup" => proc = "upgrade" /\ root.version = 1
    /\ proc \in {"starting", "source"} => root.version = 2

\* Where a save stands.
Progress ==
    /\ known \subseteq objects
    /\ job.at = "store" => Used(job.next) \subseteq known \cup job.todo
    /\ job.at = "collect" => root = [version |-> 2, cp |-> job.next]
    /\ job.at = "store" => backup = "exact"

ContentInv == ContentTypeOK /\ Owner /\ Progress /\ RootReadable /\ BackupIsExact

-----------------------------------------------------------------------------

\* The files of a checkpoint are files of the content directory.
LEMMA UsedAreObjects ==
    ASSUME NEW cp \in Checkpoints
    PROVE  Used(cp) \subseteq Objects
  BY DEF Used, Objects, Checkpoints

\* The next revision is a checkpoint.
LEMMA RevisedIsCheckpoint ==
    ASSUME NEW cp \in Checkpoints, NEW body \in SUBSET Contents, cp.rev < MaxRevision
    PROVE  /\ Revised(cp, body) \in Checkpoints
           /\ Revised(cp, body).rev = cp.rev + 1
  BY ContentAssumption DEF Revised, Checkpoints

\* The first state satisfies the invariant.
LEMMA ContentInit_Inv == Init => ContentInv
  BY ContentAssumption
  DEF Init, ContentInit, ContentInv, ContentTypeOK, Owner, Progress, RootReadable,
      BackupIsExact, Checkpoints, Unstarted, Idle, Backups

\* A save of any checkpoint by a source at rest starts in order.
LEMMA CommitBegins ==
    ASSUME ContentInv, NEW next \in Checkpoints, proc = "source", Commit(next)
    PROVE  ContentInv'
<1> USE DEF ContentInv
<1>1. job' = [at |-> "store", next |-> next, todo |-> Used(next) \ known]
  BY DEF Commit, SaveJob, Missing
<1>2. Used(next) \ known \subseteq Objects
  BY UsedAreObjects
<1>3. job' \in Jobs
  BY <1>1, <1>2 DEF Jobs
<1>4. UNCHANGED <<root, objects, backup, proc, mem, known, usable, faults>>
  BY DEF Commit
<1>5. ContentTypeOK'
  BY <1>3, <1>4 DEF ContentTypeOK
<1>6. Owner' /\ Progress'
  BY <1>1, <1>4 DEF Owner, Progress, BackupIsExact
<1>7. RootReadable' /\ BackupIsExact'
  BY <1>4 DEF RootReadable, Readable, BackupIsExact
<1> QED BY <1>5, <1>6, <1>7

\* A process that stops, or a source that gives up writing, leaves things in
\* order whatever of the last write took place.
LEMMA StoppedInOrder ==
    ASSUME ContentTypeOK, Owner, known \subseteq objects, Stopped \/ (Down /\ job' = Idle),
           objects \subseteq objects', objects' \subseteq Objects,
           root' \in [version : {1, 2}, cp : Checkpoints],
           root.version = 2 => root'.version = 2
    PROVE  Owner' /\ Progress' /\ job' \in Jobs \cup {Idle}
           /\ proc' \in {"down", "source"} /\ mem' \in Checkpoints /\ known' \subseteq Objects
           /\ (Stopped => usable' \in {"yes", "no"})
<1>1. Unstarted \in Checkpoints
  BY ContentAssumption DEF Unstarted, Checkpoints
<1>2. CASE Down /\ job' = Idle
  BY <1>1, <1>2 DEF Down, Owner, Progress, Idle, ContentTypeOK, Stopped
<1>3. CASE Stopped
  BY <1>1, <1>3 DEF Stopped, Down, Owner, Progress, Idle, ContentTypeOK
<1> QED BY <1>2, <1>3

-----------------------------------------------------------------------------
(* The steps of a save.                                                    *)

\* A file of the next checkpoint is written.
LEMMA StoreStep ==
    ASSUME ContentInv, NEW o, Store(o)
    PROVE  ContentInv'
<1> USE DEF ContentInv
<1>1. job \in Jobs /\ o \in job.todo /\ o \in Objects /\ job.at = "store"
  BY DEF Store, ContentTypeOK, Idle, Jobs
<1>2. /\ job' = [at |-> "store", next |-> job.next, todo |-> job.todo \ {o}]
      /\ objects' = objects \cup {o} /\ known' = known \cup {o}
      /\ UNCHANGED <<root, backup, proc, mem, usable, faults>>
  BY <1>1 DEF Store, Jobs
<1>3. ContentTypeOK'
  <2>1. job' \in Jobs
    BY <1>1, <1>2 DEF Jobs
  <2> QED BY <1>1, <1>2, <2>1 DEF ContentTypeOK
<1>4. Owner'
  BY <1>1, <1>2 DEF Owner, Idle
<1>5. Progress'
  BY <1>1, <1>2 DEF Progress
<1>6. RootReadable' /\ BackupIsExact'
  BY <1>2 DEF RootReadable, Readable, BackupIsExact
<1> QED BY <1>3, <1>4, <1>5, <1>6

\* Writing a file fails, with or without effect.
LEMMA StoreFailsStep ==
    ASSUME ContentInv, NEW o, StoreFails(o)
    PROVE  ContentInv'
<1> USE DEF ContentInv
<1>1. o \in Objects
  BY DEF StoreFails, ContentTypeOK, Idle, Jobs
<1>2. /\ objects \subseteq objects' /\ objects' \subseteq Objects
      /\ UNCHANGED <<root, backup>> /\ Stopped
      /\ faults' \in 0 .. MaxFaults
  BY <1>1, ContentAssumption DEF StoreFails, ContentTypeOK, Fault
<1>3. /\ Owner' /\ Progress' /\ job' \in Jobs \cup {Idle}
      /\ proc' \in {"down", "source"} /\ mem' \in Checkpoints /\ known' \subseteq Objects
      /\ usable' \in {"yes", "no"}
  BY <1>2, StoppedInOrder DEF Progress, ContentTypeOK
<1>4. ContentTypeOK'
  BY <1>2, <1>3 DEF ContentTypeOK
<1>5. RootReadable' /\ BackupIsExact'
  BY <1>2 DEF RootReadable, Readable, BackupIsExact
<1> QED BY <1>3, <1>4, <1>5

\* The root moves: every file of the next checkpoint is known by then.
LEMMA MoveRootStep ==
    ASSUME ContentInv, MoveRoot
    PROVE  ContentInv'
<1> USE DEF ContentInv
<1>1. job \in Jobs /\ job.todo = {} /\ job.at = "store"
  BY DEF MoveRoot, ContentTypeOK, Idle
<1>2. /\ job' = [at |-> "collect", next |-> job.next, todo |-> job.todo]
      /\ root' = [version |-> 2, cp |-> job.next]
      /\ UNCHANGED <<objects, backup, proc, mem, known, usable, faults>>
  BY <1>1 DEF MoveRoot, Jobs
<1>3. ContentTypeOK'
  <2>1. job' \in Jobs /\ root' \in [version : {1, 2}, cp : Checkpoints]
    BY <1>1, <1>2 DEF Jobs
  <2> QED BY <1>2, <2>1 DEF ContentTypeOK
<1>4. Owner' /\ Progress'
  BY <1>1, <1>2 DEF Owner, Progress, Idle
<1>5. RootReadable' /\ BackupIsExact'
  BY <1>1, <1>2 DEF Progress, RootReadable, Readable, BackupIsExact
<1> QED BY <1>3, <1>4, <1>5

\* Replacing the root fails, with or without effect: either root is readable.
LEMMA MoveRootFailsStep ==
    ASSUME ContentInv, MoveRootFails
    PROVE  ContentInv'
<1> USE DEF ContentInv
<1>1. job \in Jobs /\ job.todo = {} /\ job.at = "store" /\ job.next \in Checkpoints
  BY DEF MoveRootFails, ContentTypeOK, Idle, Jobs
<1>2. /\ root' \in {root, [version |-> 2, cp |-> job.next]}
      /\ UNCHANGED <<objects, backup>> /\ Stopped
      /\ faults' \in 0 .. MaxFaults
  BY ContentAssumption DEF MoveRootFails, ContentTypeOK, Fault
<1>3. /\ root' \in [version : {1, 2}, cp : Checkpoints]
      /\ root.version = 2 => root'.version = 2
  BY <1>1, <1>2 DEF ContentTypeOK
<1>4. /\ Owner' /\ Progress' /\ job' \in Jobs \cup {Idle}
      /\ proc' \in {"down", "source"} /\ mem' \in Checkpoints /\ known' \subseteq Objects
      /\ usable' \in {"yes", "no"}
  BY <1>2, <1>3, StoppedInOrder DEF Progress, ContentTypeOK
<1>5. ContentTypeOK'
  BY <1>2, <1>3, <1>4 DEF ContentTypeOK
<1>6. RootReadable' /\ BackupIsExact'
  BY <1>1, <1>2 DEF Progress, RootReadable, Readable, BackupIsExact
<1> QED BY <1>4, <1>5, <1>6

\* What the root no longer uses is removed, and forgotten.
LEMMA CollectStep ==
    ASSUME ContentInv, Collect
    PROVE  ContentInv'
<1> USE DEF ContentInv
<1>1. job \in Jobs /\ job.at = "collect" /\ job.next \in Checkpoints
      /\ root = [version |-> 2, cp |-> job.next]
  BY DEF Collect, ContentTypeOK, Idle, Jobs, Progress
<1>2. PICK gone \in SUBSET (known \ Used(job.next)) :
         /\ IF gone = known \ Used(job.next) THEN UNCHANGED faults ELSE Fault
         /\ objects' = objects \ gone
         /\ IF proc = "upgrade"
               THEN Down
               ELSE proc' = "source" /\ known' = KnownAfter(gone) /\ mem' = job.next
  BY Zenon DEF Collect
<1>3. faults' \in 0 .. MaxFaults
  BY <1>2, ContentAssumption DEF Fault, ContentTypeOK
<1>4. Down \/ (proc' = "source" /\ known' = known \ gone /\ mem' = job.next)
  BY <1>2 DEF KnownAfter
<1>5. job' = Idle /\ UNCHANGED <<root, backup, usable>>
  BY DEF Collect
<1>6. Unstarted \in Checkpoints
  BY ContentAssumption DEF Unstarted, Checkpoints
<1>7. ContentTypeOK'
  BY <1>1, <1>2, <1>5, <1>3, <1>4, <1>6 DEF ContentTypeOK, Down
<1>8. Owner' /\ Progress'
  BY <1>1, <1>2, <1>5, <1>4 DEF Owner, Progress, Down, Idle
<1>9. RootReadable' /\ BackupIsExact'
  BY <1>1, <1>2, <1>5 DEF RootReadable, Readable, BackupIsExact
<1> QED BY <1>7, <1>8, <1>9

\* The upgrade goes on with an exact backup only.
LEMMA BackUpStep ==
    ASSUME ContentInv, BackUp
    PROVE  ContentInv'
<1> USE DEF ContentInv
<1>1. job \in Jobs /\ job.at = "backup" /\ job.next \in Checkpoints
      /\ proc = "upgrade" /\ root.version = 1
  BY DEF BackUp, ContentTypeOK, Idle, Jobs, Owner
<1>2. /\ backup' = "exact"
      /\ job' = [at |-> "store", next |-> job.next, todo |-> Used(job.next) \ known]
      /\ UNCHANGED <<root, objects, proc, mem, known, usable, faults>>
  BY DEF BackUp, BackupFits, SaveJob, Missing
<1>3. ContentTypeOK'
  <2>1. job' \in Jobs
    BY <1>1, <1>2, UsedAreObjects DEF Jobs
  <2> QED BY <1>2, <2>1 DEF ContentTypeOK, Backups
<1>4. Owner' /\ Progress'
  BY <1>1, <1>2 DEF Owner, Progress, Idle
<1>5. RootReadable' /\ BackupIsExact'
  BY <1>1, <1>2 DEF RootReadable, BackupIsExact
<1> QED BY <1>3, <1>4, <1>5

\* The backup cannot be made, or differs: the checkpoint stays version 1.
LEMMA BackUpFailsStep ==
    ASSUME ContentInv, BackUpFails
    PROVE  ContentInv'
<1> USE DEF ContentInv
<1>1. job.at = "backup" /\ root.version = 1
  BY DEF BackUpFails, Owner
<1>2. /\ UNCHANGED <<root, objects>> /\ Stopped
      /\ faults' \in 0 .. MaxFaults /\ backup' \in Backups
  BY ContentAssumption DEF BackUpFails, ContentTypeOK, Fault, Backups
<1>3. /\ Owner' /\ Progress' /\ job' \in Jobs \cup {Idle}
      /\ proc' \in {"down", "source"} /\ mem' \in Checkpoints /\ known' \subseteq Objects
      /\ usable' \in {"yes", "no"}
  BY <1>2, StoppedInOrder DEF Progress, ContentTypeOK
<1>4. ContentTypeOK'
  BY <1>2, <1>3 DEF ContentTypeOK
<1>5. RootReadable' /\ BackupIsExact'
  BY <1>1, <1>2 DEF RootReadable, BackupIsExact
<1> QED BY <1>3, <1>4, <1>5

-----------------------------------------------------------------------------
(* Starts, upgrades and kills.                                             *)

\* A source starts with the files it has just read.
LEMMA OpenStep ==
    ASSUME ContentInv, Open
    PROVE  ContentInv'
<1> USE DEF ContentInv
<1> DEFINE next == Revised(root.cp, {})
<1>1. root.cp \in Checkpoints /\ root.version = 2 /\ Used(root.cp) \subseteq objects
  BY DEF Open, ContentTypeOK, Readable
<1>2. next \in Checkpoints
  BY <1>1, RevisedIsCheckpoint DEF Open
<1>3. Used(next) \subseteq Objects /\ Used(root.cp) \subseteq Objects
  BY <1>1, <1>2, UsedAreObjects
<1>4. /\ job' = [at |-> "store", next |-> next, todo |-> Used(next) \ Used(root.cp)]
      /\ proc' = "starting" /\ mem' = root.cp /\ known' = Used(root.cp) /\ usable' = "yes"
      /\ UNCHANGED <<root, objects, backup, faults>>
  BY DEF Open
<1> HIDE DEF next
<1>5. ContentTypeOK'
  <2>1. job' \in Jobs
    BY <1>2, <1>3, <1>4 DEF Jobs
  <2> QED BY <1>1, <1>3, <1>4, <2>1 DEF ContentTypeOK
<1>6. Owner' /\ Progress'
  BY <1>1, <1>4 DEF Owner, Progress, BackupIsExact
<1>7. RootReadable' /\ BackupIsExact'
  BY <1>4 DEF RootReadable, Readable, BackupIsExact
<1> QED BY <1>5, <1>6, <1>7

\* A version 1 source commits; no version 2 checkpoint is there.
LEMMA CommitOldStep ==
    ASSUME ContentInv, CommitOld
    PROVE  ContentInv'
<1> USE DEF ContentInv
<1>1. root.cp \in Checkpoints /\ root.version = 1 /\ proc = "down" /\ job = Idle
  BY DEF CommitOld, ContentTypeOK, Owner
<1>2. PICK cp \in {[root.cp EXCEPT !.accepted = root.cp.rev]}
                  \cup {Revised(root.cp, body) : body \in SUBSET Contents} :
         cp.rev <= MaxOld /\ root' = [root EXCEPT !.cp = cp]
  BY DEF CommitOld
<1>3. cp \in Checkpoints
  BY <1>1, <1>2, ContentAssumption DEF Checkpoints, Revised
<1>4. root' \in [version : {1, 2}, cp : Checkpoints] /\ root'.version = 1
  BY <1>1, <1>2, <1>3 DEF ContentTypeOK
<1>5. /\ backup' \in Backups
      /\ UNCHANGED <<objects, proc, mem, known, usable, job, faults>>
  BY DEF CommitOld, ContentTypeOK, Backups
<1>6. ContentTypeOK'
  BY <1>4, <1>5 DEF ContentTypeOK
<1>7. Owner' /\ Progress'
  BY <1>1, <1>4, <1>5 DEF Owner, Progress, Idle
<1>8. RootReadable' /\ BackupIsExact'
  BY <1>4 DEF RootReadable, BackupIsExact
<1> QED BY <1>6, <1>7, <1>8

\* An upgrade starts.
LEMMA UpgradeStep ==
    ASSUME ContentInv, Upgrade
    PROVE  ContentInv'
<1> USE DEF ContentInv
<1>1. root.cp \in Checkpoints /\ root.version = 1
  BY DEF Upgrade, ContentTypeOK
<1>2. /\ job' = [at |-> "backup", next |-> root.cp, todo |-> {}]
      /\ proc' = "upgrade" /\ mem' = root.cp
      /\ UNCHANGED <<root, objects, backup, known, usable, faults>>
  BY DEF Upgrade
<1>3. ContentTypeOK'
  <2>1. job' \in Jobs
    BY <1>1, <1>2 DEF Jobs
  <2> QED BY <1>1, <1>2, <2>1 DEF ContentTypeOK
<1>4. Owner' /\ Progress'
  BY <1>1, <1>2 DEF Owner, Progress
<1>5. RootReadable' /\ BackupIsExact'
  BY <1>1, <1>2 DEF RootReadable, BackupIsExact
<1> QED BY <1>3, <1>4, <1>5

\* The process is killed: only the backup it was making may be cut short.
LEMMA KillStep ==
    ASSUME ContentInv, Kill
    PROVE  ContentInv'
<1> USE DEF ContentInv
<1>1. /\ Down /\ job' = Idle /\ usable' = "yes"
      /\ UNCHANGED <<root, objects>> /\ faults' \in 0 .. MaxFaults
  BY ContentAssumption DEF Kill, Fault, ContentTypeOK
<1>2. backup' = backup \/ (root.version = 1 /\ backup' = "part")
  BY DEF Kill, Owner
<1>3. /\ Owner' /\ Progress' /\ job' \in Jobs \cup {Idle}
      /\ proc' \in {"down", "source"} /\ mem' \in Checkpoints /\ known' \subseteq Objects
  BY <1>1, StoppedInOrder DEF Progress, ContentTypeOK
<1>4. ContentTypeOK'
  BY <1>1, <1>2, <1>3 DEF ContentTypeOK, Backups
<1>5. RootReadable' /\ BackupIsExact'
  BY <1>1, <1>2 DEF RootReadable, Readable, BackupIsExact
<1> QED BY <1>3, <1>4, <1>5

-----------------------------------------------------------------------------
(* All together.                                                           *)

\* Every step of the source and its transfer keeps the invariant.
LEMMA ContentStep == ContentInv /\ [Next]_vars => ContentInv'
<1> SUFFICES ASSUME ContentInv, [Next]_vars PROVE ContentInv'
  OBVIOUS
<1>1. CASE UNCHANGED contentVars
  BY <1>1 DEF contentVars, ContentInv, ContentTypeOK, Owner, Progress, RootReadable,
              Readable, BackupIsExact
<1>2. CASE Start
  BY <1>2, OpenStep DEF Start
<1>3. CASE CommitV1
  BY <1>3, CommitOldStep DEF CommitV1
<1>4. CASE Convert
  BY <1>4, UpgradeStep DEF Convert
<1>5. CASE Crash
  BY <1>5, KillStep DEF Crash
<1>6. CASE Save
  BY <1>6, StoreStep, StoreFailsStep, MoveRootStep, MoveRootFailsStep, CollectStep,
     BackUpStep, BackUpFailsStep DEF Save, Saving
<1>7. CASE Revise
  <2>1. PICK body \in SUBSET Contents : Commit(Revised(mem, body))
    BY <1>7 DEF Revise
  <2>2. mem \in Checkpoints /\ mem.rev < MaxRevision /\ proc = "source"
    BY <1>7 DEF Revise, Committable, ContentInv, ContentTypeOK
  <2> QED BY <2>1, <2>2, RevisedIsCheckpoint, CommitBegins
<1>8. CASE Accept /\ ~UNCHANGED contentVars
  <2>1. Commit([mem EXCEPT !.accepted = pub.rev]) /\ mem.rev = pub.rev /\ proc = "source"
    BY <1>8 DEF Accept
  <2>2. [mem EXCEPT !.accepted = pub.rev] \in Checkpoints
    BY <2>1 DEF ContentInv, ContentTypeOK, Checkpoints
  <2> QED BY <2>1, <2>2, CommitBegins
<1>9. CASE Exchange \/ ExchangeFails \/ Lose \/ UNCHANGED vars
  BY <1>9, <1>1 DEF Exchange, ExchangeFails, Lose, vars
<1> QED BY <1>1, <1>2, <1>3, <1>4, <1>5, <1>6, <1>7, <1>8, <1>9 DEF Next

\* The inductive invariant holds throughout, types included.
THEOREM ContentInvariant == Spec => []ContentInv
  BY ContentInit_Inv, ContentStep, PTL DEF Spec

\* Whatever save, start or upgrade was cut off or failed, and at whichever
\* file, the checkpoint on disk can be read: save moves the root last and
\* removes only what the new root does not use.
THEOREM RootReadableTheorem == Spec => []RootReadable
  BY ContentInvariant, PTL DEF ContentInv

\* A version 2 checkpoint always has the exact version 1 checkpoint beside it
\* that UpgradeSourceSync made it from.
THEOREM BackupTheorem == Spec => []BackupIsExact
  BY ContentInvariant, PTL DEF ContentInv

-----------------------------------------------------------------------------
(* What is recorded as accepted.  Between the exchange that completes a    *)
(* transfer and the commit of its revision the receiver may forget all; so *)
(* the bound is what a receiver has ever shown, and it holds of every copy *)
(* of a checkpoint: in memory, on disk, and in the save under way.         *)

Delivery ==
    /\ shown \in Nat
    /\ receiver = [got |-> receiver.got, stored |-> receiver.stored,
                   published |-> receiver.published]
    /\ receiver.published \in Nat /\ receiver.published <= shown
    /\ pub.at = "complete" => pub.rev \in Nat /\ pub.rev <= shown
    /\ mem.accepted <= shown
    /\ root.cp.accepted <= shown
    /\ job # Idle => job.next.accepted <= shown

\* A request changes the published revision to the transfer's, or not at all.
LEMMA HandledShows ==
    ASSUME NEW r, NEW t,
           r = [got |-> r.got, stored |-> r.stored, published |-> r.published]
    PROVE  LET h == Handled(r, t)
           IN  /\ h = [got |-> h.got, stored |-> h.stored, published |-> h.published]
               /\ h.published \in {r.published, t.rev}
<1> DEFINE h == Handled(r, t)
<1>1. CASE Request(t) = "start"
  <2>1. h = [r EXCEPT !.got = {p \in @ : Relevant(p[1], t)},
                      !.stored = {o \in @ : Relevant(o, t)}]
    BY <1>1 DEF Handled
  <2>2. h = [got |-> h.got, stored |-> h.stored, published |-> r.published]
    BY <2>1
  <2> QED BY <2>2
<1>2. CASE Request(t) = "parts"
  <2>1. h = WithPart(r, Head(t.queue), t.part)
    BY <1>2 DEF Handled
  <2>2. h = [got |-> h.got, stored |-> h.stored, published |-> r.published]
    BY <2>1 DEF WithPart
  <2> QED BY <2>2
<1>3. CASE Request(t) \notin {"start", "parts"}
  <2>1. h = [r EXCEPT !.published = t.rev] \/ h = r
    BY <1>3 DEF Handled
  <2>2. h = [got |-> r.got, stored |-> r.stored, published |-> t.rev] \/ h = r
    BY <2>1
  <2> QED BY <2>2
<1> QED BY <1>1, <1>2, <1>3

\* The steps of a save only move checkpoints about that were bounded before.
LEMMA SavingDelivery ==
    ASSUME ContentInv, Delivery, Saving, UNCHANGED deliveryVars
    PROVE  Delivery'
<1> USE DEF ContentInv
<1>1. UNCHANGED <<pub, receiver, shown>>
  BY DEF deliveryVars
<1>2. job # Idle /\ job \in Jobs
  BY DEF Saving, Store, StoreFails, MoveRoot, MoveRootFails, Collect, BackUp, BackUpFails,
         Idle, ContentTypeOK
<1>3. mem' \in {mem, Unstarted, job.next}
  BY DEF Saving, Store, StoreFails, MoveRoot, MoveRootFails, Collect, BackUp, BackUpFails,
         Stopped, Down
<1>4. root' = root \/ root' = [version |-> 2, cp |-> job.next]
  BY DEF Saving, Store, StoreFails, MoveRoot, MoveRootFails, Collect, BackUp, BackUpFails
<1>5. job' = Idle \/ job'.next = job.next
  <2>1. CASE \E o \in Objects : Store(o)
    BY <1>2, <2>1 DEF Store, Jobs
  <2>2. CASE MoveRoot
    BY <1>2, <2>2 DEF MoveRoot, Jobs
  <2>3. CASE BackUp
    BY <1>2, <2>3 DEF BackUp, SaveJob
  <2> QED BY <2>1, <2>2, <2>3 DEF Saving, StoreFails, MoveRootFails, Collect, BackUpFails,
                                  Stopped
<1>6. job.next.accepted <= shown /\ Unstarted.accepted <= shown
  BY <1>2 DEF Delivery, Unstarted
<1>7. mem'.accepted <= shown
  BY <1>3, <1>6 DEF Delivery
<1>8. root'.cp.accepted <= shown
  BY <1>4, <1>6 DEF Delivery
<1>9. job' # Idle => job'.next.accepted <= shown
  BY <1>5, <1>6
<1> QED BY <1>1, <1>7, <1>8, <1>9 DEF Delivery

\* Every step keeps what is recorded as accepted within what was shown.
LEMMA DeliveryStep == ContentInv /\ Delivery /\ [Next]_vars => Delivery'
<1> SUFFICES ASSUME ContentInv, Delivery, [Next]_vars PROVE Delivery'
  OBVIOUS
<1> USE DEF ContentInv
<1>0. mem \in Checkpoints /\ mem.rev \in Nat /\ mem.accepted \in Nat
      /\ root.cp \in Checkpoints /\ root.cp.accepted \in Nat /\ root.cp.rev \in Nat
  BY ContentAssumption DEF ContentTypeOK, Checkpoints
<1>1. CASE Start
  <2>1. /\ mem' = root.cp /\ job'.next = Revised(root.cp, {})
        /\ UNCHANGED <<root, pub, receiver, shown>>
    BY <1>1 DEF Start, Open, deliveryVars
  <2>2. job'.next.accepted = root.cp.accepted
    BY <2>1 DEF Revised
  <2> QED BY <1>0, <2>1, <2>2 DEF Delivery
<1>2. CASE CommitV1
  <2>1. PICK cp \in {[root.cp EXCEPT !.accepted = root.cp.rev]}
                    \cup {Revised(root.cp, body) : body \in SUBSET Contents} :
           root' = [root EXCEPT !.cp = cp]
    BY <1>2 DEF CommitV1, CommitOld
  <2>2. cp.accepted \in Nat /\ root'.cp = cp
    BY <1>0, <2>1 DEF Checkpoints, Revised, ContentTypeOK
  <2>3. /\ shown' = Highest(shown, root'.cp.accepted)
        /\ UNCHANGED <<mem, job, pub, receiver>>
    BY <1>2 DEF CommitV1, CommitOld
  <2>4. shown' \in Nat /\ shown <= shown' /\ root'.cp.accepted <= shown'
    BY <2>2, <2>3 DEF Highest, Delivery
  <2>5. receiver'.published <= shown' /\ mem'.accepted <= shown'
    BY <1>0, <2>3, <2>4 DEF Delivery
  <2>6. job' # Idle => job'.next.accepted <= shown'
    BY <1>2 DEF CommitV1, CommitOld, Owner
  <2>7. pub'.at = "complete" => pub'.rev \in Nat /\ pub'.rev <= shown'
    BY <2>3, <2>4 DEF Delivery
  <2> QED BY <2>3, <2>4, <2>5, <2>6, <2>7 DEF Delivery
<1>3. CASE Convert
  <2>1. /\ mem' = root.cp /\ job'.next = root.cp
        /\ UNCHANGED <<root, pub, receiver, shown>>
    BY <1>3 DEF Convert, Upgrade, deliveryVars
  <2> QED BY <2>1 DEF Delivery
<1>4. CASE Crash
  <2>1. /\ mem' = Unstarted /\ job' = Idle /\ pub' = Resting
        /\ UNCHANGED <<root, receiver, shown>>
    BY <1>4 DEF Crash, Kill, Down
  <2> QED BY <2>1 DEF Delivery, Unstarted, Resting
<1>5. CASE Save
  BY <1>5, SavingDelivery DEF Save
<1>6. CASE Revise
  <2>1. PICK body \in SUBSET Contents : Commit(Revised(mem, body))
    BY <1>6 DEF Revise
  <2>2. /\ job'.next.accepted = mem.accepted
        /\ UNCHANGED <<root, mem, pub, receiver, shown>>
    BY <1>6, <2>1 DEF Revise, Commit, SaveJob, Revised, deliveryVars
  <2> QED BY <2>2 DEF Delivery
<1>7. CASE Accept
  <2>1. /\ pub' = Resting /\ UNCHANGED <<root, mem, receiver, shown>>
        /\ pub.at = "complete" /\ job = Idle
    BY <1>7 DEF Accept, Commit, contentVars
  <2>2. job' = Idle \/ job'.next = [mem EXCEPT !.accepted = pub.rev]
    BY <1>7 DEF Accept, Commit, SaveJob, contentVars
  <2>3. [mem EXCEPT !.accepted = pub.rev].accepted = pub.rev
    BY <1>0 DEF Checkpoints
  <2> QED BY <2>1, <2>2, <2>3 DEF Delivery, Resting
<1>8. CASE Exchange \/ ExchangeFails
  <2> DEFINE t == Renewed(transfer, mem)
             h == Handled(receiver, t)
  <2>1. t.rev = mem.rev
    BY DEF Renewed, NewTransfer
  <2>2. /\ h = [got |-> h.got, stored |-> h.stored, published |-> h.published]
        /\ h.published \in {receiver.published, t.rev}
    BY HandledShows DEF Delivery
  <2>3. receiver' \in {receiver, h} /\ shown' = Highest(shown, receiver'.published)
        /\ UNCHANGED contentVars
    BY <1>8 DEF Exchange, ExchangeFails
  <2>4. pub' \in {pub, Resting} \/ (receiver' = h /\ h.published = t.rev
                                   /\ pub' = [at |-> "complete", rev |-> mem.rev])
    BY <1>8 DEF Exchange, ExchangeFails, Complete
  <2> HIDE DEF t, h
  <2>5. receiver'.published \in Nat
    BY <1>0, <2>1, <2>2, <2>3 DEF Delivery
  <2>6. shown' \in Nat /\ shown <= shown' /\ receiver'.published <= shown'
    BY <2>3, <2>5 DEF Highest, Delivery
  <2>7. receiver' = [got |-> receiver'.got, stored |-> receiver'.stored,
                     published |-> receiver'.published]
    BY <2>2, <2>3 DEF Delivery
  <2>8. pub'.at = "complete" => pub'.rev \in Nat /\ pub'.rev <= shown'
    BY <1>0, <2>1, <2>4, <2>6 DEF Delivery, Resting
  <2>9. job = Idle /\ job' = Idle
    BY <1>8, <2>3 DEF Exchange, ExchangeFails, Publishable, contentVars
  <2>10. mem'.accepted <= shown' /\ root'.cp.accepted <= shown'
    BY <1>0, <2>3, <2>6 DEF Delivery, contentVars
  <2> QED BY <2>6, <2>7, <2>5, <2>8, <2>9, <2>10 DEF Delivery
<1>9. CASE Lose
  <2>1. UNCHANGED <<mem, root, job, pub, shown>>
    BY <1>9 DEF Lose, contentVars
  <2>2. /\ receiver' = [got |-> receiver'.got, stored |-> receiver'.stored,
                        published |-> receiver'.published]
        /\ receiver'.published \in {0, receiver.published}
    <3> DEFINE r == [got |-> receiver.got, stored |-> receiver.stored,
                     published |-> receiver.published]
    <3>1. \/ \E p : receiver' = [r EXCEPT !.got = @ \ {p}]
          \/ \E o : receiver' = [r EXCEPT !.stored = @ \ {o}]
          \/ receiver' = NewReceiver
      BY <1>9 DEF Lose, Delivery
    <3> QED BY <3>1 DEF NewReceiver
  <2> QED BY <2>1, <2>2 DEF Delivery
<1>10. CASE UNCHANGED vars
  BY <1>10 DEF vars, contentVars, deliveryVars, Delivery
<1> QED BY <1>1, <1>2, <1>3, <1>4, <1>5, <1>6, <1>7, <1>8, <1>9, <1>10 DEF Next

\* A revision is recorded as accepted only if the receiver published it,
\* whatever was committed, lost or restarted between its publication and the
\* commit that records it (publishOnce).
THEOREM AcceptedTheorem == Spec => []AcceptedWasPublished
<1>1. Init => Delivery
  BY DEF Init, ContentInit, Delivery, NewReceiver, Resting, Unstarted
<1>2. Delivery => AcceptedWasPublished
  BY DEF Delivery, AcceptedWasPublished
<1> QED BY <1>1, <1>2, ContentInvariant, DeliveryStep, PTL DEF Spec
===============================================================================
