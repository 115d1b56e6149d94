--------------------------- MODULE SourceTransfer ---------------------------
(***************************************************************************)
(* Source synchronisation version 2: internal/service/source_sync.go and   *)
(* its use by publishOnce, over a checkpoint kept in parts (ContentStore). *)
(*                                                                         *)
(* A revision is sent as objects: a manifest, and the contents it names.   *)
(* The publisher starts a transfer, asks which objects are missing, sends  *)
(* those in parts, and commits; from then on it only sends heartbeats.     *)
(* Each step is one HTTP request, whose answer may be lost.  The receiver  *)
(* is external.  It forgets parts, objects or everything now and then.     *)
(*                                                                         *)
(* What makes the source revise, and the halt on a conflict, are in module *)
(* CommittedSource.                                                        *)
(***************************************************************************)
EXTENDS ContentStore, Sequences, SequencesExt

CONSTANTS Parts,      \* parts of an object: its size over sourcePartBytes
          ScanLimit,  \* objects asked for at once: 256
          MaxLosses   \* bound: how often the receiver forgets something

ASSUME TransferAssumption ==
    /\ Parts \in Nat \ {0}
    /\ ScanLimit \in Nat \ {0}
    /\ MaxLosses \in Nat

Manifest(rev) == <<"manifest", rev>>

\* newSourceTransfer: the manifest, then the contents.
ObjectsOf(cp) == <<Manifest(cp.rev)>> \o SetToSeq({Story(c) : c \in cp.body})

NewTransfer(cp) ==
    [rev |-> cp.rev, list |-> ObjectsOf(cp), started |-> "no", published |-> "no",
     scan |-> 0, part |-> 0, queue |-> << >>]

NoTransfer ==
    [rev |-> 0, list |-> << >>, started |-> "no", published |-> "no",
     scan |-> 0, part |-> 0, queue |-> << >>]

Resting == [at |-> "rest", rev |-> 0]

NewReceiver == [got |-> {}, stored |-> {}, published |-> 0]

VARIABLES
    transfer,   \* CommittedSource.transfer
    pub,        \* an answer the publisher has to commit, and its revision
    receiver,   \* external: parts and objects it has, the revision it shows
    losses,
    shown       \* history: the highest revision a receiver published

deliveryVars == <<transfer, pub, receiver, losses, shown>>
vars == <<contentVars, deliveryVars>>

Init ==
    /\ ContentInit
    /\ transfer = NoTransfer
    /\ pub = Resting
    /\ receiver = NewReceiver
    /\ losses = 0
    /\ shown = 0

-----------------------------------------------------------------------------
(* The transfer: what is asked next, and what an answer makes of it.       *)

Request(t) ==
    CASE t.started = "no" -> "start"
      [] t.started = "yes" /\ t.published = "yes" -> "heartbeat"
      [] t.started = "yes" /\ t.published = "no" /\ t.queue # << >> -> "parts"
      [] t.started = "yes" /\ t.published = "no" /\ t.queue = << >> ->
             IF t.scan < Len(t.list) THEN "missing" ELSE "commit"

ScanEnd(t) == IF t.scan + ScanLimit < Len(t.list) THEN t.scan + ScanLimit ELSE Len(t.list)

Scanned(t) == SubSeq(t.list, t.scan + 1, ScanEnd(t))

\* source_parts_missing: begin again, with what the receiver still has.
Restarted(t) == [t EXCEPT !.started = "no", !.scan = 0, !.part = 0, !.queue = << >>]

\* Mutant of Unfinished: only the last part is sent again.
UnfinishedTail(t) == t

\* The receiver has all parts but not the object: an earlier one expired.
Unfinished(t) == [t EXCEPT !.part = 0]

\* After part t.part of the first object.
PartSent(t, stored) ==
    CASE stored -> [t EXCEPT !.part = 0, !.queue = Tail(@)]
      [] ~stored /\ t.part = Parts - 1 -> Unfinished(t)
      [] ~stored /\ t.part < Parts - 1 -> [t EXCEPT !.part = @ + 1]

-----------------------------------------------------------------------------
(* The receiver, and one exchange with it.                                 *)

\* A part arrives; with the last of its parts the object is stored.
WithPart(r, o, n) ==
    LET got == r.got \cup {<<o, n>>}
    IN  IF o \in r.stored \/ {<<o, k>> : k \in 0 .. Parts - 1} \subseteq got
           THEN [r EXCEPT !.got = {p \in got : p[1] # o}, !.stored = @ \cup {o}]
           ELSE [r EXCEPT !.got = got]

Relevant(o, t) == o[1] = "story" \/ o = Manifest(t.rev)

\* What a request does to the receiver.  A start ends the transfers of other
\* revisions, whose manifests nothing asks for any more.
Handled(r, t) ==
    CASE Request(t) = "start" ->
             [r EXCEPT !.got = {p \in @ : Relevant(p[1], t)},
                       !.stored = {o \in @ : Relevant(o, t)}]
      [] Request(t) = "parts" -> WithPart(r, Head(t.queue), t.part)
      [] Request(t) = "commit" /\ ToSet(t.list) \subseteq r.stored ->
             [r EXCEPT !.published = t.rev]
      [] OTHER -> r

\* step: what the answer of receiver r makes of the transfer.
Answered(t, r) ==
    CASE Request(t) = "start" ->
             [t EXCEPT !.started = "yes",
                       !.published = IF r.published = t.rev THEN "yes" ELSE "no"]
      [] Request(t) = "parts" -> PartSent(t, Head(t.queue) \in r.stored)
      [] Request(t) = "missing" ->
             [t EXCEPT !.queue = SelectSeq(Scanned(t), LAMBDA o : o \notin r.stored),
                       !.scan = ScanEnd(t)]
      [] Request(t) \in {"commit", "heartbeat"} ->
             IF r.published = t.rev THEN [t EXCEPT !.published = "yes"] ELSE Restarted(t)

Complete(t, r) == Request(t) \in {"commit", "heartbeat"} /\ r.published = t.rev

\* Mutant of Renewed: a transfer is kept for the revisions that follow.
RenewedOnce(t, cp) == IF t = NoTransfer THEN NewTransfer(cp) ELSE t

\* Each revision has a transfer of its own.
Renewed(t, cp) == IF t = NoTransfer \/ t.rev # cp.rev THEN NewTransfer(cp) ELSE t

\* publishOnce reads the checkpoint under the locks that a save holds.
Publishable ==
    /\ proc = "source" /\ usable = "yes" /\ job = Idle
    /\ mem.rev > 0
    /\ pub = Resting

Highest(m, n) == IF m < n THEN n ELSE m

\* A request that is answered in time.
Exchange == Publishable /\
    LET t == Renewed(transfer, mem)
        r == Handled(receiver, t)
    IN  /\ receiver' = r
        /\ transfer' = Answered(t, r)
        /\ pub' = IF Complete(t, r) THEN [at |-> "complete", rev |-> mem.rev] ELSE Resting
        /\ shown' = Highest(shown, r.published)
        /\ UNCHANGED <<contentVars, losses>>

\* The request or its answer is lost.
ExchangeFails == Publishable /\
    LET t == Renewed(transfer, mem)
    IN  /\ receiver' \in {receiver, Handled(receiver, t)}
        /\ transfer' = t
        /\ shown' = Highest(shown, receiver'.published)
        /\ UNCHANGED <<contentVars, pub, losses>>

\* The receiver loses a part, an object, or everything.
Lose ==
    /\ losses < MaxLosses
    /\ losses' = losses + 1
    /\ \/ \E p \in receiver.got : receiver' = [receiver EXCEPT !.got = @ \ {p}]
       \/ \E o \in receiver.stored : receiver' = [receiver EXCEPT !.stored = @ \ {o}]
       \/ receiver # NewReceiver /\ receiver' = NewReceiver
    /\ UNCHANGED <<contentVars, transfer, pub, shown>>

-----------------------------------------------------------------------------
(* The source.                                                             *)

\* Commit of checkpoint next begins.
Commit(next) ==
    /\ job' = SaveJob(next)
    /\ UNCHANGED <<root, objects, backup, proc, mem, known, usable, faults>>

Committable == proc = "source" /\ usable = "yes" /\ job = Idle

Revise ==
    /\ Committable
    /\ mem.rev < MaxRevision
    /\ \E body \in SUBSET Contents : Commit(Revised(mem, body))
    /\ UNCHANGED deliveryVars

\* The answer counts for the revision that was read, while it is the latest.
Accept ==
    /\ pub.at = "complete"
    /\ proc = "source" /\ job = Idle
    /\ IF usable = "yes" /\ mem.rev = pub.rev /\ mem.accepted # pub.rev
          THEN Commit([mem EXCEPT !.accepted = pub.rev])
          ELSE UNCHANGED contentVars
    /\ pub' = Resting
    /\ UNCHANGED <<transfer, receiver, losses, shown>>

Crash ==
    /\ Kill
    /\ transfer' = NoTransfer
    /\ pub' = Resting
    /\ UNCHANGED <<receiver, losses, shown>>

Save == Saving /\ UNCHANGED deliveryVars

Start == Open /\ UNCHANGED deliveryVars

\* What version 1 has delivered counts too.
CommitV1 ==
    /\ CommitOld
    /\ shown' = Highest(shown, root'.cp.accepted)
    /\ UNCHANGED <<transfer, pub, receiver, losses>>

Convert == Upgrade /\ UNCHANGED deliveryVars

Next ==
    \/ Start \/ CommitV1 \/ Convert \/ Crash \/ Save
    \/ Revise \/ Accept
    \/ Exchange \/ ExchangeFails \/ Lose

Spec == Init /\ [][Next]_vars

\* A save goes on, the publisher's timer keeps it trying, and a receiver that
\* is asked again and again answers in the end.
Fairness ==
    /\ WF_vars(Save)
    /\ WF_vars(Accept)
    /\ WF_vars(Exchange)

FairSpec == Spec /\ Fairness

-----------------------------------------------------------------------------
(* Properties.                                                             *)

\* A revision is recorded as accepted only if the receiver published it,
\* though revisions are committed while requests are under way (publishOnce).
AcceptedWasPublished ==
    proc = "source" => mem.accepted <= shown

Serving == proc = "source" /\ usable = "yes" /\ mem.rev > 0

\* The revision that stays the latest is published and recorded in the end,
\* and published again after the receiver forgot parts, objects or all of
\* it: the transfer never waits for what the receiver has lost.
TransferEnds ==
    Serving ~> \/ ~Serving
               \/ mem.accepted = mem.rev /\ receiver.published = mem.rev
=============================================================================
