------------------------ MODULE CommittedSourceProofs ------------------------
(***************************************************************************)
(* What is proved of CommittedSource, for every set of connections,        *)
(* stories, contents, messages and every revision limit.                   *)
(*                                                                         *)
(* The inductive invariant has three parts.  Memory agrees with the file   *)
(* whenever the store is usable.  The receiver, the body being posted and  *)
(* the file are in order: each is the next one, or has a smaller revision. *)
(* And every effect and every positive reply, sent or about to be, has its *)
(* receipt in the file, at most one per message.                           *)
(*                                                                         *)
(* For coverage a second invariant says what a fresh roster stands for:    *)
(* the stories are those last listed, the fresh ones have the very content *)
(* last heard, and no other story has content heard or, off the roster,    *)
(* held.  The snapshot is always the projection of the state it is         *)
(* committed with.                                                         *)
(***************************************************************************)
EXTENDS CommittedSource, TLAPS

\* a is b, or an earlier revision than b.
NotAhead(a, b) == a = b \/ a.revision < b.revision

MemoryIsDisk == store = "ok" => cp = disk

DeliveryInOrder ==
    /\ NotAhead(held, disk.pending)
    /\ publisher.pc # "idle" => /\ NotAhead(held, publisher.copy)
                                /\ NotAhead(publisher.copy, disk.pending)
    /\ publisher.pc = "accepted" => held = publisher.copy
    /\ disk.accepted <= held.revision

\* The reply of h, as a receipt.
ReceiptOf(s) == [key |-> Key(s, handler[s].msg), op |-> handler[s].msg.op,
                 reply |-> handler[s].reply]

RepliesRetained ==
    /\ OneReceiptPerMessage
    /\ OKIsDurable
    /\ \A s \in Sessions :
          (/\ handler[s].pc = "reply"
           /\ handler[s].reply = "OK"
           /\ handler[s].msg.id # NoID) => ReceiptOf(s) \in disk.receipts
    /\ \A k \in applied : \E r \in disk.receipts : r.key = k
    /\ AppliedOnce

IInv == TypeOK /\ MemoryIsDisk /\ DeliveryInOrder /\ RepliesRetained

-----------------------------------------------------------------------------
(* What the operators on a checkpoint return.                              *)

\* Two checkpoints agree on what is delivered, accepted and retained.
SameRecord(c, d) ==
    /\ d.pending = c.pending
    /\ d.accepted = c.accepted
    /\ d.receipts = c.receipts

\* A new revision of the same record.
NextRevision(c, d) ==
    /\ d.pending.revision = c.pending.revision + 1
    /\ d.accepted = c.accepted
    /\ d.receipts = c.receipts

\* A projection is a snapshot with the revision it was asked for (revise).
LEMMA ProjectionType ==
    ASSUME NEW c \in Checkpoints, NEW n \in 0 .. MaxRevision
    PROVE  /\ Projection(c, n) \in Snapshots
           /\ Projection(c, n).revision = n
  <1>1. NoBody \in [Stories -> Body]
    BY DEF NoBody, Body
  <1>2. c.content \in [Stories -> Body]
    BY DEF Checkpoints
  <1> DEFINE shown == IF Complete(c) /\ "active" \in c.flags
                         THEN c.content ELSE NoBody
             fits  == \A t \in Stories : shown[t] \notin OutsideLimits
  <1>3. shown \in [Stories -> Body]
    BY <1>1, <1>2
  <1>4. (IF fits THEN shown ELSE NoBody) \in [Stories -> Body]
    BY <1>1, <1>3
  <1>5. (c.flags \cap {"active"})
           \cup (IF Complete(c) /\ fits THEN {"complete"} ELSE {})
        \in SUBSET {"active", "complete"}
    OBVIOUS
  <1> QED
    BY <1>4, <1>5 DEF Projection, Snapshots

\* revise yields a checkpoint one revision on, and touches nothing else that
\* is delivered or retained.
LEMMA ReviseType ==
    ASSUME NEW c \in Checkpoints, ~Exhausted(c)
    PROVE  Revise(c) \in Checkpoints /\ NextRevision(c, Revise(c))
                                     /\ Revise(c).flags = c.flags
  <1>1. /\ c.pending.revision \in 0 .. MaxRevision
        /\ c.pending.revision # MaxRevision
        /\ MaxRevision \in Nat
    BY SourceAssumption DEF Checkpoints, Snapshots, Exhausted
  <1>2. c.pending.revision + 1 \in 0 .. MaxRevision
    BY <1>1
  <1>3. /\ Projection(c, c.pending.revision + 1) \in Snapshots
        /\ Projection(c, c.pending.revision + 1).revision = c.pending.revision + 1
    BY <1>2, ProjectionType
  <1> QED
    BY <1>3 DEF Revise, Checkpoints, NextRevision

\* invalidate yields a checkpoint one revision on.
LEMMA InvalidatedType ==
    ASSUME NEW c \in Checkpoints, ~Exhausted(c)
    PROVE  /\ Invalidated(c) \in Checkpoints
           /\ NextRevision(c, Invalidated(c))
  <1>1. Unfreshened(c) \in Checkpoints /\ SameRecord(c, Unfreshened(c))
    BY DEF Unfreshened, Checkpoints, SameRecord
  <1>2. ~Exhausted(Unfreshened(c))
    BY <1>1 DEF Exhausted, SameRecord
  <1> QED
    BY <1>1, <1>2, ReviseType DEF Invalidated, NextRevision, SameRecord

\* applyMessage yields a checkpoint and leaves the record alone.
LEMMA AppliedType ==
    ASSUME NEW c \in Checkpoints, NEW op \in AllOps, Applicable(c, op)
    PROVE  Applied(c, op) \in Checkpoints /\ SameRecord(c, Applied(c, op))
  <1>1. CASE op.kind \in {"roster", "list"}
    <2>1. [t \in Stories |-> IF t \in op.stories \cap c.stories
                                THEN c.content[t] ELSE NoContent]
             \in [Stories -> Body]
      BY DEF Checkpoints, Body
    <2>2. op.stories \in SUBSET Stories
      BY DEF AllOps
    <2>3. c.flags \cup {"active", "rosterFresh"}
             \in SUBSET {"active", "rosterFresh", "halted"}
      BY DEF Checkpoints
    <2>4. WithRoster(c, op) \in Checkpoints /\ SameRecord(c, WithRoster(c, op))
      BY <2>1, <2>2, <2>3 DEF WithRoster, Checkpoints, SameRecord
    <2> QED
      BY <1>1, <2>4 DEF Applied
  <1>2. CASE op.kind = "body"
    <2>1. op.story \in c.stories /\ c.stories \subseteq Stories
      BY <1>2 DEF Applicable, Checkpoints
    <2>2. [c.content EXCEPT ![op.story] = op.content] \in [Stories -> Body]
      BY DEF Checkpoints, AllOps
    <2>3. WithBody(c, op) \in Checkpoints /\ SameRecord(c, WithBody(c, op))
      BY <2>1, <2>2 DEF WithBody, Checkpoints, SameRecord
    <2> QED
      BY <1>2, <2>3 DEF Applied
  <1>3. CASE op.kind = "delete"
    <2>1. NoBody \in [Stories -> Body]
      BY DEF NoBody, Body
    <2>2. Deleted(c) \in Checkpoints /\ SameRecord(c, Deleted(c))
      BY <2>1 DEF Deleted, Checkpoints, SameRecord
    <2> QED
      BY <1>3, <2>2 DEF Applied
  <1>4. CASE op.kind \notin {"roster", "list", "body", "delete"}
    BY <1>4 DEF Applied, SameRecord
  <1> QED
    BY <1>1, <1>2, <1>3, <1>4

\* The identity of a message is a key.
LEMMA KeyType ==
    ASSUME NEW s \in Sessions, NEW m \in Messages, m.id # NoID
    PROVE  Key(s, m) \in Keys
  BY SourceAssumption DEF Key, Keys, Messages

\* rememberSource adds at most the one receipt it is for.
LEMMA RememberType ==
    ASSUME NEW c \in Checkpoints, NEW s \in Sessions, NEW m \in Messages,
           NEW reply \in {"OK", "NACK"}
    PROVE  /\ Remember(c, s, m, reply) \in Checkpoints
           /\ Remember(c, s, m, reply).pending = c.pending
           /\ Remember(c, s, m, reply).accepted = c.accepted
           /\ Remember(c, s, m, reply).receipts =
                 c.receipts \cup
                 (IF m.id = NoID THEN {}
                  ELSE {[key |-> Key(s, m), op |-> m.op, reply |-> reply]})
  <1>1. CASE m.id = NoID
    BY <1>1 DEF Remember
  <1>2. CASE m.id # NoID
    <2>1. [key |-> Key(s, m), op |-> m.op, reply |-> reply] \in Receipts
      BY <1>2, KeyType DEF Receipts, Messages
    <2> QED
      BY <1>2, <2>1 DEF Remember, Checkpoints
  <1> QED
    BY <1>1, <1>2

-----------------------------------------------------------------------------
(* How a commit moves the file.                                            *)

\* The file moves on: the same body or a later revision, and no receipt is
\* lost.
MovesOn(c, d) ==
    /\ d \in Checkpoints
    /\ NotAhead(c.pending, d.pending)
    /\ c.receipts \subseteq d.receipts

\* A new revision moves the file on.
LEMMA NextMovesOn ==
    ASSUME NEW c \in Checkpoints, NEW d \in Checkpoints, NextRevision(c, d)
    PROVE  MovesOn(c, d)
  <1>1. c.pending.revision \in Nat
    BY SourceAssumption DEF Checkpoints, Snapshots
  <1> QED
    BY <1>1 DEF NextRevision, MovesOn, NotAhead

\* Being not ahead is transitive over snapshots.
LEMMA NotAheadTrans ==
    ASSUME NEW a \in Snapshots, NEW b \in Snapshots, NEW c \in Snapshots,
           NotAhead(a, b), NotAhead(b, c)
    PROVE  NotAhead(a, c)
  <1>1. a.revision \in Nat /\ b.revision \in Nat /\ c.revision \in Nat
    BY SourceAssumption DEF Snapshots
  <1> QED
    BY <1>1 DEF NotAhead

\* Delivery stays in order when only the file moves on and keeps its
\* accepted revision.
LEMMA OrderKept ==
    ASSUME TypeOK, DeliveryInOrder, MovesOn(disk, disk'),
           disk'.accepted = disk.accepted,
           UNCHANGED <<publisher, held>>
    PROVE  DeliveryInOrder'
  <1>1. disk.pending \in Snapshots /\ disk'.pending \in Snapshots
        /\ held \in Snapshots /\ publisher.copy \in Snapshots
    BY DEF TypeOK, MovesOn, Checkpoints
  <1>2. NotAhead(disk.pending, disk'.pending)
    BY DEF MovesOn
  <1>3. NotAhead(held, disk'.pending)
    BY <1>1, <1>2, NotAheadTrans DEF DeliveryInOrder
  <1>4. publisher.pc # "idle" => NotAhead(publisher.copy, disk'.pending)
    BY <1>1, <1>2, NotAheadTrans DEF DeliveryInOrder
  <1> QED
    BY <1>3, <1>4 DEF DeliveryInOrder

\* Replies stay retained when no reply is being made and the receipts stay.
LEMMA RetainedKept ==
    ASSUME RepliesRetained, disk'.receipts = disk.receipts, UNCHANGED history,
           \A s \in Sessions : \/ handler'[s] = handler[s]
                               \/ handler'[s].pc # "reply"
                               \/ handler'[s].reply = "NACK"
    PROVE  RepliesRetained'
  <1>1. OneReceiptPerMessage' /\ OKIsDurable' /\ AppliedOnce'
    BY DEF RepliesRetained, OneReceiptPerMessage, OKIsDurable, AppliedOnce, history
  <1>2. \A k \in applied' : \E r \in disk'.receipts : r.key = k
    BY DEF RepliesRetained, history
  <1>3. ASSUME NEW s \in Sessions, handler'[s].pc = "reply",
               handler'[s].reply = "OK", handler'[s].msg.id # NoID
        PROVE  ReceiptOf(s)' \in disk'.receipts
    <2>1. handler'[s] = handler[s]
      BY <1>3
    <2>2. ReceiptOf(s) \in disk.receipts
      BY <1>3, <2>1 DEF RepliesRetained
    <2> QED
      BY <2>1, <2>2 DEF ReceiptOf, Key
  <1> QED
    BY <1>1, <1>2, <1>3 DEF RepliesRetained

\* invalidate, whether it commits, fails or is refused.
LEMMA TryInvalidateMoves ==
    ASSUME IInv, TryInvalidate
    PROVE  /\ store' \in {"down", "ok", "degraded"}
           /\ cp' \in Checkpoints
           /\ MemoryIsDisk'
           /\ MovesOn(disk, disk')
           /\ disk'.accepted = disk.accepted
           /\ disk'.receipts = disk.receipts
  <1>1. CASE store = "ok" /\ Invalidatable(cp)
    <2>1. cp = disk /\ cp \in Checkpoints /\ ~Exhausted(cp)
      BY <1>1 DEF IInv, MemoryIsDisk, TypeOK, Invalidatable
    <2>2. Invalidated(cp) \in Checkpoints /\ NextRevision(cp, Invalidated(cp))
      BY <2>1, InvalidatedType
    <2>3. MovesOn(cp, Invalidated(cp)) /\ MovesOn(cp, cp)
      BY <2>1, <2>2, NextMovesOn DEF MovesOn, NotAhead
    <2>4. CASE Committed(Invalidated(cp))
      BY <1>1, <2>1, <2>2, <2>3, <2>4 DEF Committed, MemoryIsDisk, NextRevision
    <2>5. CASE SaveFailed(Invalidated(cp))
      BY <2>1, <2>2, <2>3, <2>5 DEF SaveFailed, MemoryIsDisk, NextRevision
    <2> QED
      BY <1>1, <2>4, <2>5 DEF TryInvalidate
  <1>2. CASE ~(store = "ok" /\ Invalidatable(cp))
    <2>1. UNCHANGED <<store, cp, disk>>
      BY <1>2 DEF TryInvalidate
    <2> QED
      BY <2>1 DEF IInv, TypeOK, MemoryIsDisk, MovesOn, NotAhead
  <1> QED
    BY <1>1, <1>2

\* Commit, whether it succeeds or fails: the file is the old or the new
\* checkpoint, and a usable store has it in memory.
LEMMA CommitMoves ==
    ASSUME IInv, store = "ok", NEW new \in Checkpoints, MovesOn(cp, new),
           Committed(new) \/ SaveFailed(new)
    PROVE  /\ store' \in {"down", "ok", "degraded"}
           /\ cp' \in Checkpoints
           /\ MemoryIsDisk'
           /\ MovesOn(disk, disk')
           /\ disk' \in {disk, new}
  <1>1. cp = disk /\ cp \in Checkpoints
    BY DEF IInv, MemoryIsDisk, TypeOK
  <1>2. MovesOn(cp, cp)
    BY <1>1 DEF MovesOn, NotAhead
  <1>3. CASE Committed(new)
    BY <1>1, <1>3 DEF Committed, MemoryIsDisk
  <1>4. CASE SaveFailed(new)
    BY <1>1, <1>2, <1>4 DEF SaveFailed, MemoryIsDisk
  <1> QED
    BY <1>3, <1>4

\* The values that actions assign have their types.
LEMMA ConstantTypes ==
    /\ NoBody \in [Stories -> Body]
    /\ NoSnapshot \in Snapshots
    /\ NewCheckpoint \in Checkpoints
    /\ NoMessage \in Messages
    /\ Idle \in Handlers
    /\ Silence \in Heard
  <1>1. NoBody \in [Stories -> Body]
    BY DEF NoBody, Body
  <1>2. 0 \in 0 .. MaxRevision
    BY SourceAssumption
  <1>3. NoSnapshot \in Snapshots
    BY <1>1, <1>2 DEF NoSnapshot, Snapshots
  <1>4. NewCheckpoint \in Checkpoints
    BY <1>1, <1>2, <1>3 DEF NewCheckpoint, Checkpoints
  <1>5. NoMessage \in Messages
    BY DEF NoMessage, Messages, AllOps, Body
  <1>6. Idle \in Handlers
    BY <1>5 DEF Idle, Handlers
  <1>7. Silence \in Heard
    BY <1>1 DEF Silence, Heard
  <1> QED
    BY <1>1, <1>3, <1>4, <1>5, <1>6, <1>7

\* The history of what was heard keeps its type.
LEMMA HearType ==
    ASSUME TypeOK, NEW op \in AllOps
    PROVE  Hear(op) \in Heard
  <1>1. CASE op.kind \in {"roster", "list"}
    BY <1>1, ConstantTypes DEF Hear, Heard, AllOps
  <1>2. CASE op.kind = "delete"
    BY <1>2, ConstantTypes DEF Hear, Heard
  <1>3. CASE op.kind = "body"
    <2>1. [heard.content EXCEPT ![op.story] = op.content] \in [Stories -> Body]
      BY DEF TypeOK, Heard, AllOps
    <2> QED
      BY <1>3, <2>1 DEF Hear, Heard, TypeOK
  <1>4. CASE op.kind \notin {"roster", "list", "delete", "body"}
    BY <1>4 DEF Hear, TypeOK
  <1> QED
    BY <1>1, <1>2, <1>3, <1>4

\* A reply leaves every other goroutine alone and keeps the message.
LEMMA ReplyType ==
    ASSUME TypeOK, NEW s \in Sessions, NEW reply \in {"OK", "NACK"},
           ReplyWith(s, reply)
    PROVE  /\ handler' \in [Sessions -> Handlers]
           /\ handler'[s].pc = "reply"
           /\ handler'[s].reply = reply
           /\ handler'[s].msg = handler[s].msg
           /\ \A t \in Sessions \ {s} : handler'[t] = handler[t]
  BY DEF ReplyWith, TypeOK, Handlers

\* A message that is read, likewise; nothing is being replied.
LEMMA ReceiveType ==
    ASSUME TypeOK, NEW s \in Sessions, Receive(s)
    PROVE  /\ handler' \in [Sessions -> Handlers]
           /\ handler'[s].pc = "apply"
           /\ \A t \in Sessions \ {s} : handler'[t] = handler[t]
  <1>1. PICK m \in Sent :
          handler' = [handler EXCEPT ![s] =
             [pc |-> "apply", msg |-> m, reply |-> "none"]]
    BY DEF Receive
  <1>2. m \in Messages
    BY SourceAssumption
  <1>3. [pc |-> "apply", msg |-> m, reply |-> "none"] \in Handlers
    BY <1>2 DEF Handlers
  <1> QED
    BY <1>1, <1>3 DEF TypeOK

-----------------------------------------------------------------------------
(* The invariant.                                                          *)

\* A new state directory satisfies the invariant.
LEMMA InitIInv == Init => IInv
  <1> SUFFICES ASSUME Init PROVE IInv
    OBVIOUS
  <1>1. TypeOK
    BY ConstantTypes DEF Init, TypeOK, Resting
  <1>2. MemoryIsDisk
    BY DEF Init, MemoryIsDisk
  <1>3. DeliveryInOrder
    <2>1. held = NoSnapshot /\ disk.pending = NoSnapshot /\ disk.accepted = 0
          /\ publisher.pc = "idle"
      BY DEF Init, NewCheckpoint, Resting
    <2> QED
      BY <2>1 DEF DeliveryInOrder, NotAhead, NoSnapshot
  <1>4. RepliesRetained
    <2>1. disk.receipts = {} /\ answered = {} /\ applied = {} /\ twice = {}
      BY DEF Init, NewCheckpoint
    <2>2. \A s \in Sessions : handler[s].pc = "idle"
      BY DEF Init, Idle
    <2> QED
      BY <2>1, <2>2 DEF RepliesRetained, OneReceiptPerMessage, OKIsDurable, AppliedOnce
  <1> QED
    BY <1>1, <1>2, <1>3, <1>4 DEF IInv

\* Opening the source.
LEMMA StartKeeps == ASSUME IInv, Start \/ StartFails PROVE IInv'
  <1>1. disk \in Checkpoints /\ ~Exhausted(disk)
    BY DEF IInv, TypeOK, Start, StartFails, Invalidatable
  <1>2. Invalidated(disk) \in Checkpoints /\ NextRevision(disk, Invalidated(disk))
    BY <1>1, InvalidatedType
  <1>3. disk' = Invalidated(disk) /\ UNCHANGED <<peers, publisher, held, history>>
    BY DEF Start, StartFails
  <1>4. MovesOn(disk, disk') /\ disk'.accepted = disk.accepted
        /\ disk'.receipts = disk.receipts
    BY <1>1, <1>2, <1>3, NextMovesOn DEF NextRevision
  <1>5. /\ store' \in {"ok", "down"}
        /\ cp' \in Checkpoints
        /\ heard' \in Heard
        /\ store' = "ok" => cp' = disk'
    BY <1>2, ConstantTypes DEF Start, StartFails, IInv, TypeOK
  <1>6. TypeOK'
    BY <1>2, <1>3, <1>5 DEF IInv, TypeOK, peers, history
  <1>7. DeliveryInOrder'
    BY <1>3, <1>4, OrderKept DEF IInv
  <1>8. RepliesRetained'
    BY <1>3, <1>4, RetainedKept DEF IInv, peers
  <1> QED
    BY <1>5, <1>6, <1>7, <1>8 DEF IInv, MemoryIsDisk

\* A message is read from a connection.
LEMMA ObserveKeeps ==
    ASSUME IInv, NEW s \in Sessions, Observe(s) \/ ObserveNew(s)
    PROVE  IInv'
  <1>1. CASE Observe(s)
    <2>1. UNCHANGED <<store, cp, disk, session, owner, publisher, held, history, heard>>
          /\ Receive(s)
      BY <1>1 DEF Observe
    <2>2. TypeOK'
      BY <2>1, ReceiveType DEF IInv, TypeOK, history
    <2>3. RepliesRetained'
      BY <2>1, ReceiveType, RetainedKept DEF IInv
    <2>4. DeliveryInOrder' /\ MemoryIsDisk'
      BY <2>1 DEF IInv, DeliveryInOrder, MemoryIsDisk
    <2> QED
      BY <2>2, <2>3, <2>4 DEF IInv
  <1>2. CASE ObserveNew(s)
    <2>1. store = "ok" /\ ~Exhausted(cp) /\ cp = disk /\ cp \in Checkpoints
      BY <1>2 DEF ObserveNew, Invalidatable, IInv, MemoryIsDisk, TypeOK
    <2>2. Invalidated(cp) \in Checkpoints /\ NextRevision(cp, Invalidated(cp))
      BY <2>1, InvalidatedType
    <2>3. Committed(Invalidated(cp)) \/ SaveFailed(Invalidated(cp))
      BY <1>2 DEF ObserveNew
    <2>4. /\ store' \in {"down", "ok", "degraded"}
          /\ cp' \in Checkpoints
          /\ MemoryIsDisk'
          /\ MovesOn(disk, disk')
          /\ disk' \in {disk, Invalidated(cp)}
      BY <2>1, <2>2, <2>3, NextMovesOn, CommitMoves
    <2>5. disk'.accepted = disk.accepted /\ disk'.receipts = disk.receipts
      BY <2>1, <2>2, <2>4 DEF NextRevision
    <2>6. UNCHANGED <<publisher, held, history>> /\ heard' = Silence
      BY <1>2 DEF ObserveNew
    <2>7. /\ handler' \in [Sessions -> Handlers]
          /\ \A t \in Sessions : handler'[t] = handler[t] \/ handler'[t].pc # "reply"
      BY <1>2, ReceiveType DEF ObserveNew, peers, IInv, TypeOK
    <2>8. /\ owner' \in [Scopes -> Sessions \cup {NoSession}]
          /\ session' \in [Sessions -> {"none", "live", "late"}]
      BY <1>2 DEF ObserveNew, peers, IInv, TypeOK
    <2>9. TypeOK'
      BY <2>4, <2>6, <2>7, <2>8, ConstantTypes DEF IInv, TypeOK, history, MovesOn
    <2>10. DeliveryInOrder'
      BY <2>4, <2>5, <2>6, OrderKept DEF IInv
    <2>11. RepliesRetained'
      BY <2>5, <2>6, <2>7, RetainedKept DEF IInv
    <2> QED
      BY <2>4, <2>9, <2>10, <2>11 DEF IInv
  <1> QED
    BY <1>1, <1>2

\* A connection expires, is closed, or becomes uncertain.
LEMMA ConnectionKeeps ==
    ASSUME IInv, NEW s \in Sessions,
           SessionExpires(s) \/ Disconnected(s) \/ Uncertain(s)
    PROVE  IInv'
  <1>1. UNCHANGED <<handler, publisher, held, history>>
    BY DEF SessionExpires, Disconnected, Uncertain, peers
  <1>2. TryInvalidate \/ UNCHANGED <<store, cp, disk>>
    BY DEF SessionExpires, Disconnected, Uncertain
  <1>3. heard' \in Heard
    BY ConstantTypes DEF SessionExpires, Disconnected, Uncertain, IInv, TypeOK
  <1>4. /\ session' \in [Sessions -> {"none", "live", "late"}]
        /\ owner' \in [Scopes -> Sessions \cup {NoSession}]
    <2>1. Released({s}) \in [Scopes -> Sessions \cup {NoSession}]
      BY DEF Released, IInv, TypeOK
    <2> QED
      BY <2>1 DEF SessionExpires, Disconnected, Uncertain, peers, IInv, TypeOK
  <1>5. /\ store' \in {"down", "ok", "degraded"}
        /\ cp' \in Checkpoints
        /\ MemoryIsDisk'
        /\ MovesOn(disk, disk')
        /\ disk'.accepted = disk.accepted
        /\ disk'.receipts = disk.receipts
    <2>1. CASE TryInvalidate
      BY <2>1, TryInvalidateMoves
    <2>2. CASE UNCHANGED <<store, cp, disk>>
      BY <2>2 DEF IInv, TypeOK, MemoryIsDisk, MovesOn, NotAhead
    <2> QED
      BY <1>2, <2>1, <2>2
  <1>6. TypeOK'
    BY <1>1, <1>3, <1>4, <1>5 DEF IInv, TypeOK, history, MovesOn
  <1>7. DeliveryInOrder'
    BY <1>1, <1>5, OrderKept DEF IInv
  <1>8. RepliesRetained'
    BY <1>1, <1>5, RetainedKept DEF IInv
  <1> QED
    BY <1>5, <1>6, <1>7, <1>8 DEF IInv

\* A refusal, and the replay of an identical message.
LEMMA RefuseReplayKeeps ==
    ASSUME IInv, NEW s \in Sessions, Refuse(s) \/ Replay(s)
    PROVE  IInv'
  <1>1. UNCHANGED <<store, cp, disk, session, owner, publisher, held, history, heard>>
    BY DEF Refuse, Replay
  <1>2. DeliveryInOrder' /\ MemoryIsDisk'
    BY <1>1 DEF IInv, DeliveryInOrder, MemoryIsDisk
  <1>3. CASE Refuse(s)
    <2>1. ReplyWith(s, "NACK")
      BY <1>3 DEF Refuse
    <2>2. TypeOK'
      BY <1>1, <2>1, ReplyType DEF IInv, TypeOK, history
    <2>3. RepliesRetained'
      BY <1>1, <2>1, ReplyType, RetainedKept DEF IInv
    <2> QED
      BY <1>2, <2>2, <2>3 DEF IInv
  <1>4. CASE Replay(s)
    <2>1. store = "ok" /\ cp = disk /\ disk \in Checkpoints
          /\ handler[s].msg \in Messages
      BY <1>4 DEF Replay, Refusable, IInv, MemoryIsDisk, TypeOK, Handlers
    <2>2. PICK r \in Prior(cp, s, handler[s].msg) :
             r.op = handler[s].msg.op /\ ReplyWith(s, r.reply)
      BY <1>4 DEF Replay
    <2>3. /\ r \in disk.receipts
          /\ r \in Receipts
          /\ r.key = Key(s, handler[s].msg)
      BY <2>1, <2>2 DEF Prior, Checkpoints
    <2>4. r.reply \in {"OK", "NACK"}
          /\ r = [key |-> r.key, op |-> r.op, reply |-> r.reply]
      BY <2>3 DEF Receipts
    <2>5. /\ handler' \in [Sessions -> Handlers]
          /\ handler'[s].reply = r.reply
          /\ handler'[s].msg = handler[s].msg
          /\ \A t \in Sessions \ {s} : handler'[t] = handler[t]
      BY <2>2, <2>4, ReplyType DEF IInv
    <2>6. TypeOK'
      BY <1>1, <2>5 DEF IInv, TypeOK, history
    <2>7. ReceiptOf(s)' = r
      BY <2>2, <2>3, <2>4, <2>5 DEF ReceiptOf, Key
    <2>8. ASSUME NEW t \in Sessions, handler'[t].pc = "reply",
                 handler'[t].reply = "OK", handler'[t].msg.id # NoID
          PROVE  ReceiptOf(t)' \in disk'.receipts
      <3>1. CASE t = s
        BY <1>1, <2>3, <2>7, <3>1
      <3>2. CASE t # s
        <4>1. handler'[t] = handler[t]
          BY <2>5, <3>2
        <4>2. ReceiptOf(t) \in disk.receipts
          BY <2>8, <4>1 DEF IInv, RepliesRetained
        <4> QED
          BY <1>1, <4>1, <4>2 DEF ReceiptOf, Key
      <3> QED
        BY <3>1, <3>2
    <2>9. RepliesRetained'
      <3>1. OneReceiptPerMessage' /\ OKIsDurable' /\ AppliedOnce'
        BY <1>1 DEF IInv, RepliesRetained, OneReceiptPerMessage, OKIsDurable,
                    AppliedOnce, history
      <3>2. \A k \in applied' : \E q \in disk'.receipts : q.key = k
        BY <1>1 DEF IInv, RepliesRetained, history
      <3> QED
        BY <2>8, <3>1, <3>2 DEF RepliesRetained
    <2> QED
      BY <1>2, <2>6, <2>9 DEF IInv
  <1> QED
    BY <1>3, <1>4

\* The receipts may grow by one for a message that has none.
LEMMA ReceiptAdded ==
    ASSUME OneReceiptPerMessage, NEW k, NEW op, NEW reply,
           \A r \in disk.receipts : r.key # k,
           disk'.receipts = disk.receipts \cup
               {[key |-> k, op |-> op, reply |-> reply]}
    PROVE  OneReceiptPerMessage'
  BY DEF OneReceiptPerMessage

\* Replies stay retained when receipts are added to the file and the replies
\* and effects that are new have theirs.
LEMMA RetainedGrows ==
    ASSUME RepliesRetained, NEW s \in Sessions,
           disk.receipts \subseteq disk'.receipts,
           OneReceiptPerMessage',
           UNCHANGED <<answered, twice>>,
           \A k \in applied' \ applied : \E r \in disk'.receipts : r.key = k,
           \A t \in Sessions \ {s} : handler'[t] = handler[t],
           (/\ handler'[s].reply = "OK"
            /\ handler'[s].msg.id # NoID) => ReceiptOf(s)' \in disk'.receipts
    PROVE  RepliesRetained'
  <1>1. OKIsDurable' /\ AppliedOnce'
    BY DEF RepliesRetained, OKIsDurable, AppliedOnce
  <1>2. \A k \in applied' : \E r \in disk'.receipts : r.key = k
    BY DEF RepliesRetained
  <1>3. ASSUME NEW t \in Sessions, handler'[t].pc = "reply",
               handler'[t].reply = "OK", handler'[t].msg.id # NoID
        PROVE  ReceiptOf(t)' \in disk'.receipts
    <2>1. CASE t = s
      BY <1>3, <2>1
    <2>2. CASE t # s
      <3>1. handler'[t] = handler[t]
        BY <2>2
      <3>2. ReceiptOf(t) \in disk.receipts
        BY <1>3, <3>1 DEF RepliesRetained
      <3> QED
        BY <3>1, <3>2 DEF ReceiptOf, Key
    <2> QED
      BY <2>1, <2>2
  <1> QED
    BY <1>1, <1>2, <1>3 DEF RepliesRetained

\* A message is applied and retained with its reply in one commit.
LEMMA RetainKeeps ==
    ASSUME IInv, NEW s \in Sessions, Retain(s)
    PROVE  IInv'
  <1> DEFINE m   == handler[s].msg
             next == Revise(Applied(cp, m.op))
             new == Remember(next, s, m, "OK")
             receipt == [key |-> Key(s, m), op |-> m.op, reply |-> "OK"]
  <1>1. /\ store = "ok" /\ cp = disk /\ cp \in Checkpoints
        /\ m \in Messages /\ m.op \in AllOps
        /\ Applicable(cp, m.op) /\ ~Exhausted(cp)
        /\ Prior(cp, s, m) = {}
    BY DEF Retain, Refusable, IInv, MemoryIsDisk, TypeOK, Handlers, Messages
  <1>2. Applied(cp, m.op) \in Checkpoints /\ SameRecord(cp, Applied(cp, m.op))
    BY <1>1, AppliedType
  <1>3. next \in Checkpoints /\ NextRevision(cp, next)
    <2>1. ~Exhausted(Applied(cp, m.op))
      BY <1>1, <1>2 DEF Exhausted, SameRecord
    <2>2. next \in Checkpoints /\ NextRevision(Applied(cp, m.op), next)
      BY <1>2, <2>1, ReviseType
    <2> QED
      BY <1>2, <2>2 DEF NextRevision, SameRecord
  <1>4. /\ new \in Checkpoints
        /\ new.pending = next.pending
        /\ new.accepted = next.accepted
        /\ new.receipts = next.receipts \cup (IF m.id = NoID THEN {} ELSE {receipt})
    BY <1>1, <1>3, RememberType
  <1>5. /\ new.accepted = disk.accepted
        /\ new.receipts = disk.receipts \cup (IF m.id = NoID THEN {} ELSE {receipt})
        /\ MovesOn(cp, new)
    <2>1. MovesOn(cp, next)
      BY <1>1, <1>3, NextMovesOn
    <2> QED
      BY <1>1, <1>3, <1>4, <2>1 DEF NextRevision, MovesOn
  <1> HIDE DEF next, new
  <1>6. /\ heard' = Hear(m.op)
        /\ UNCHANGED <<session, owner, publisher, held, answered>>
        /\ \/ /\ Committed(new)
              /\ ReplyWith(s, "OK")
              /\ RecordApplied(s, m)
           \/ /\ SaveFailed(new)
              /\ ReplyWith(s, "NACK")
              /\ disk' = new => RecordApplied(s, m)
              /\ disk' # new => UNCHANGED <<applied, twice>>
    BY DEF Retain, next, new
  <1>7. /\ store' \in {"down", "ok", "degraded"}
        /\ cp' \in Checkpoints
        /\ MemoryIsDisk'
        /\ MovesOn(disk, disk')
        /\ disk' \in {disk, new}
    BY <1>1, <1>4, <1>5, <1>6, CommitMoves
  <1>8. /\ handler' \in [Sessions -> Handlers]
        /\ handler'[s].msg = m
        /\ \A t \in Sessions \ {s} : handler'[t] = handler[t]
        /\ handler'[s].reply = "OK" => disk' = new
    BY <1>6, ReplyType DEF IInv, Committed
  <1>9. Hear(m.op) \in Heard
    BY <1>1, HearType DEF IInv
  <1>10. \/ RecordApplied(s, m) /\ disk' = new
         \/ UNCHANGED <<applied, twice>>
    BY <1>6 DEF Committed
  <1>11. /\ applied' \subseteq Keys
         /\ twice' = twice
         /\ \A k \in applied' \ applied : \E r \in disk'.receipts : r.key = k
    <2>1. CASE RecordApplied(s, m) /\ disk' = new
      <3>1. CASE m.id = NoID
        <4>1. ASSUME Key(s, m) \in applied PROVE FALSE
          <5>1. Key(s, m) \in Keys
            BY <4>1 DEF IInv, TypeOK
          <5> QED
            BY <3>1, <5>1 DEF Keys, Key
        <4> QED
          BY <2>1, <3>1, <4>1 DEF RecordApplied, IInv, TypeOK
      <3>2. CASE m.id # NoID
        <4>1. Key(s, m) \in Keys
          BY <1>1, <3>2, KeyType
        <4>2. \A r \in disk.receipts : r.key # Key(s, m)
          BY <1>1, <3>2 DEF Prior
        <4>3. Key(s, m) \notin applied
          BY <4>2 DEF IInv, RepliesRetained
        <4>4. receipt \in disk'.receipts /\ receipt.key = Key(s, m)
          BY <1>5, <2>1, <3>2
        <4>5. applied' = applied \cup {Key(s, m)} /\ twice' = twice
          BY <2>1, <3>2, <4>3 DEF RecordApplied
        <4> QED
          BY <4>1, <4>4, <4>5 DEF IInv, TypeOK
      <3> QED
        BY <3>1, <3>2
    <2>2. CASE UNCHANGED <<applied, twice>>
      BY <2>2 DEF IInv, TypeOK
    <2> QED
      BY <1>10, <2>1, <2>2
  <1>12. TypeOK'
    BY <1>6, <1>7, <1>8, <1>9, <1>11 DEF IInv, TypeOK, MovesOn
  <1>13. DeliveryInOrder'
    <2>1. disk'.accepted = disk.accepted
      BY <1>5, <1>7
    <2> QED
      BY <1>6, <1>7, <2>1, OrderKept DEF IInv
  <1>14. OneReceiptPerMessage'
    <2>1. CASE m.id = NoID \/ disk' = disk
      <3>1. disk'.receipts = disk.receipts
        BY <1>5, <1>7, <2>1
      <3> QED
        BY <3>1 DEF IInv, RepliesRetained, OneReceiptPerMessage
    <2>2. CASE m.id # NoID /\ disk' = new
      <3>1. \A r \in disk.receipts : r.key # Key(s, m)
        BY <1>1, <2>2 DEF Prior
      <3>2. disk'.receipts = disk.receipts \cup {receipt}
        BY <1>5, <2>2
      <3> QED
        BY <3>1, <3>2, ReceiptAdded DEF IInv, RepliesRetained
    <2> QED
      BY <1>7, <2>1, <2>2
  <1>15. RepliesRetained'
    <2>1. ASSUME handler'[s].reply = "OK", handler'[s].msg.id # NoID
          PROVE  ReceiptOf(s)' \in disk'.receipts
      <3>1. receipt \in disk'.receipts
        BY <1>5, <1>8, <2>1
      <3> QED
        BY <1>8, <2>1, <3>1 DEF ReceiptOf, Key
    <2>2. disk.receipts \subseteq disk'.receipts
      BY <1>7 DEF MovesOn
    <2> QED
      BY <1>6, <1>8, <1>11, <1>14, <2>1, <2>2, RetainedGrows DEF IInv
  <1> QED
    BY <1>7, <1>12, <1>13, <1>15 DEF IInv

\* A message is rejected, and the refusal retained.
LEMMA RejectKeeps ==
    ASSUME IInv, NEW s \in Sessions, Reject(s)
    PROVE  IInv'
  <1> DEFINE m    == handler[s].msg
             lost == Invalidated(cp)
             new  == IF Prior(cp, s, m) # {} THEN lost
                                             ELSE Remember(lost, s, m, "NACK")
             receipt == [key |-> Key(s, m), op |-> m.op, reply |-> "NACK"]
  <1>1. /\ store = "ok" /\ cp = disk /\ cp \in Checkpoints /\ m \in Messages
        /\ ReplyWith(s, "NACK")
        /\ heard' = Silence
        /\ UNCHANGED <<session, owner, publisher, held, history>>
    BY DEF Reject, Refusable, IInv, MemoryIsDisk, TypeOK, Handlers
  <1>2. /\ handler' \in [Sessions -> Handlers]
        /\ handler'[s].reply = "NACK"
        /\ \A t \in Sessions \ {s} : handler'[t] = handler[t]
    BY <1>1, ReplyType DEF IInv
  <1>3. CASE Exhausted(cp)
    <2>1. UNCHANGED <<store, cp, disk>>
      BY <1>3 DEF Reject
    <2>2. TypeOK'
      BY <1>1, <1>2, <2>1, ConstantTypes DEF IInv, TypeOK, history
    <2>3. DeliveryInOrder' /\ MemoryIsDisk'
      BY <1>1, <2>1 DEF IInv, DeliveryInOrder, MemoryIsDisk
    <2>4. RepliesRetained'
      BY <1>1, <1>2, <2>1, RetainedKept DEF IInv
    <2> QED
      BY <2>2, <2>3, <2>4 DEF IInv
  <1>4. CASE ~Exhausted(cp)
    <2>1. lost \in Checkpoints /\ NextRevision(cp, lost)
      BY <1>1, <1>4, InvalidatedType
    <2>2. MovesOn(cp, lost)
      BY <1>1, <2>1, NextMovesOn
    <2>3. /\ new \in Checkpoints
          /\ new.accepted = disk.accepted
          /\ MovesOn(cp, new)
          /\ \/ new.receipts = disk.receipts
             \/ /\ new.receipts = disk.receipts \cup {receipt}
                /\ \A r \in disk.receipts : r.key # Key(s, m)
      <3>1. CASE Prior(cp, s, m) # {}
        BY <1>1, <2>1, <2>2, <3>1 DEF NextRevision
      <3>2. CASE Prior(cp, s, m) = {}
        <4>1. /\ new \in Checkpoints
              /\ new.pending = lost.pending
              /\ new.accepted = lost.accepted
              /\ new.receipts = lost.receipts \cup
                                (IF m.id = NoID THEN {} ELSE {receipt})
          BY <1>1, <2>1, <3>2, RememberType
        <4>2. new.accepted = disk.accepted /\ lost.receipts = disk.receipts
          BY <1>1, <2>1, <4>1 DEF NextRevision
        <4>3. MovesOn(cp, new)
          BY <2>2, <4>1 DEF MovesOn
        <4>4. m.id # NoID => \A r \in disk.receipts : r.key # Key(s, m)
          BY <1>1, <3>2 DEF Prior
        <4> QED
          BY <4>1, <4>2, <4>3, <4>4
      <3> QED
        BY <3>1, <3>2
    <2>4. Committed(new) \/ SaveFailed(new)
      BY <1>4 DEF Reject
    <2> HIDE DEF new
    <2>5. /\ store' \in {"down", "ok", "degraded"}
          /\ cp' \in Checkpoints
          /\ MemoryIsDisk'
          /\ MovesOn(disk, disk')
          /\ disk' \in {disk, new}
      BY <1>1, <2>3, <2>4, CommitMoves
    <2>6. TypeOK'
      BY <1>1, <1>2, <2>5, ConstantTypes DEF IInv, TypeOK, history, MovesOn
    <2>7. disk'.accepted = disk.accepted
      BY <2>3, <2>5
    <2>8. DeliveryInOrder'
      BY <1>1, <2>5, <2>7, OrderKept DEF IInv
    <2>9. OneReceiptPerMessage'
      <3>1. CASE disk'.receipts = disk.receipts
        BY <3>1 DEF IInv, RepliesRetained, OneReceiptPerMessage
      <3>2. CASE /\ disk'.receipts = disk.receipts \cup {receipt}
                 /\ \A r \in disk.receipts : r.key # Key(s, m)
        BY <3>2, ReceiptAdded DEF IInv, RepliesRetained
      <3> QED
        BY <2>3, <2>5, <3>1, <3>2
    <2>10. RepliesRetained'
      <3>1. disk.receipts \subseteq disk'.receipts
        BY <2>5 DEF MovesOn
      <3>2. UNCHANGED <<answered, applied, twice>>
        BY <1>1 DEF history
      <3> QED
        BY <1>2, <2>9, <3>1, <3>2, RetainedGrows DEF IInv
    <2> QED
      BY <2>5, <2>6, <2>8, <2>10 DEF IInv
  <1> QED
    BY <1>3, <1>4

\* The reply is sent.
LEMMA ReplyKeeps ==
    ASSUME IInv, NEW s \in Sessions, Reply(s)
    PROVE  IInv'
  <1> DEFINE h == handler[s]
  <1>1. /\ h.pc = "reply"
        /\ handler' = [handler EXCEPT ![s] = Idle]
        /\ UNCHANGED <<store, cp, disk, session, owner, publisher, held,
                       applied, twice, heard>>
    BY DEF Reply
  <1>2. h \in Handlers /\ h.msg \in Messages
    BY DEF IInv, TypeOK, Handlers
  <1>3. \/ answered' = answered
        \/ h.msg.id # NoID /\ answered' = answered \cup {ReceiptOf(s)}
    BY DEF Reply, ReceiptOf
  <1>4. handler' \in [Sessions -> Handlers]
        /\ \A t \in Sessions : handler'[t] = handler[t] \/ handler'[t].pc # "reply"
    BY <1>1, ConstantTypes DEF IInv, TypeOK, Idle
  <1>5. answered' \subseteq Receipts /\ OKIsDurable'
    <2>1. CASE answered' = answered
      BY <1>1, <2>1 DEF IInv, TypeOK, RepliesRetained, OKIsDurable
    <2>2. CASE h.msg.id # NoID /\ answered' = answered \cup {ReceiptOf(s)}
      <3>1. CASE h.reply = "OK"
        <4>1. ReceiptOf(s) \in disk.receipts
          BY <1>1, <2>2, <3>1 DEF IInv, RepliesRetained
        <4>2. ReceiptOf(s) \in Receipts
          BY <4>1 DEF IInv, TypeOK, Checkpoints
        <4> QED
          BY <1>1, <2>2, <4>1, <4>2 DEF IInv, TypeOK, RepliesRetained, OKIsDurable
      <3>2. CASE h.reply # "OK"
        <4>1. ReceiptOf(s).reply # "OK"
          BY <3>2 DEF ReceiptOf
        <4>2. OKIsDurable'
          BY <1>1, <2>2, <4>1 DEF IInv, RepliesRetained, OKIsDurable
        <4>3. h.reply \in {"OK", "NACK"}
          BY <1>1, <1>2 DEF Handlers
        <4>4. ReceiptOf(s) \in Receipts
          BY <1>2, <2>2, <4>3, KeyType DEF ReceiptOf, Receipts, Messages
        <4> QED
          BY <2>2, <4>2, <4>4 DEF IInv, TypeOK
      <3> QED
        BY <3>1, <3>2
    <2> QED
      BY <1>3, <2>1, <2>2
  <1>6. TypeOK'
    BY <1>1, <1>4, <1>5 DEF IInv, TypeOK
  <1>7. DeliveryInOrder' /\ MemoryIsDisk'
    BY <1>1 DEF IInv, DeliveryInOrder, MemoryIsDisk
  <1>8. RepliesRetained'
    <2>1. OneReceiptPerMessage' /\ AppliedOnce'
      BY <1>1 DEF IInv, RepliesRetained, OneReceiptPerMessage, AppliedOnce
    <2>2. \A k \in applied' : \E r \in disk'.receipts : r.key = k
      BY <1>1 DEF IInv, RepliesRetained
    <2>3. ASSUME NEW t \in Sessions, handler'[t].pc = "reply",
                 handler'[t].reply = "OK", handler'[t].msg.id # NoID
          PROVE  ReceiptOf(t)' \in disk'.receipts
      <3>1. handler'[t] = handler[t]
        BY <1>4, <2>3
      <3>2. ReceiptOf(t) \in disk.receipts
        BY <2>3, <3>1 DEF IInv, RepliesRetained
      <3> QED
        BY <1>1, <3>1, <3>2 DEF ReceiptOf, Key
    <2> QED
      BY <1>5, <2>1, <2>2, <2>3 DEF RepliesRetained
  <1> QED
    BY <1>6, <1>7, <1>8 DEF IInv

\* The publisher sweeps expired connections and takes the latest body.
LEMMA PublishOnceKeeps == ASSUME IInv, PublishOnce PROVE IInv'
  <1> DEFINE lost  == \E s \in Late : Owns(s)
             fails == store # "ok" \/ (lost /\ Exhausted(cp))
  <1>1. /\ publisher.pc = "idle"
        /\ session' = [s \in Sessions |-> IF s \in Late THEN "none" ELSE session[s]]
        /\ owner' = Released(Late)
        /\ heard' = IF lost THEN Silence ELSE heard
        /\ UNCHANGED <<handler, held, history>>
    BY DEF PublishOnce
  <1>2. /\ session' \in [Sessions -> {"none", "live", "late"}]
        /\ owner' \in [Scopes -> Sessions \cup {NoSession}]
        /\ heard' \in Heard
    BY <1>1, ConstantTypes DEF IInv, TypeOK, Released
  <1>3. disk \in Checkpoints /\ cp \in Checkpoints /\ held \in Snapshots
    BY DEF IInv, TypeOK
  <1>4. \/ UNCHANGED <<store, cp, disk, publisher>>
        \/ /\ ~fails /\ ~lost
           /\ UNCHANGED <<store, cp, disk>>
           /\ publisher' = [pc |-> "posting", copy |-> cp'.pending]
        \/ /\ ~fails /\ lost /\ Committed(Invalidated(cp))
           /\ publisher' = [pc |-> "posting", copy |-> cp'.pending]
        \/ /\ ~fails /\ lost /\ SaveFailed(Invalidated(cp))
           /\ UNCHANGED publisher
    BY DEF PublishOnce
  <1> HIDE DEF lost
  <1>5. /\ store' \in {"down", "ok", "degraded"}
        /\ cp' \in Checkpoints
        /\ MemoryIsDisk'
        /\ MovesOn(disk, disk')
        /\ disk'.accepted = disk.accepted
        /\ disk'.receipts = disk.receipts
        /\ \/ UNCHANGED publisher
           \/ store' = "ok" /\ publisher' = [pc |-> "posting", copy |-> cp'.pending]
    <2>1. CASE UNCHANGED <<store, cp, disk>>
      BY <1>3, <1>4, <2>1 DEF IInv, TypeOK, MemoryIsDisk, MovesOn, NotAhead, SaveFailed
    <2>2. CASE ~fails /\ lost /\ (Committed(Invalidated(cp)) \/ SaveFailed(Invalidated(cp)))
      <3>1. store = "ok" /\ cp = disk /\ ~Exhausted(cp)
        BY <2>2 DEF IInv, MemoryIsDisk
      <3>2. Invalidated(cp) \in Checkpoints /\ NextRevision(cp, Invalidated(cp))
        BY <1>3, <3>1, InvalidatedType
      <3>3. MovesOn(cp, Invalidated(cp))
        BY <1>3, <3>2, NextMovesOn
      <3>4. /\ store' \in {"down", "ok", "degraded"}
            /\ cp' \in Checkpoints
            /\ MemoryIsDisk'
            /\ MovesOn(disk, disk')
            /\ disk' \in {disk, Invalidated(cp)}
        BY <2>2, <3>1, <3>2, <3>3, CommitMoves
      <3>5. disk'.accepted = disk.accepted /\ disk'.receipts = disk.receipts
        BY <3>1, <3>2, <3>4 DEF NextRevision
      <3>6. \/ UNCHANGED publisher
            \/ store' = "ok" /\ publisher' = [pc |-> "posting", copy |-> cp'.pending]
        BY <1>4, <3>1 DEF Committed
      <3> QED
        BY <3>4, <3>5, <3>6
    <2> QED
      BY <1>4, <2>1, <2>2
  <1>6. publisher' \in [pc : {"idle", "posting", "accepted", "conflict"}, copy : Snapshots]
    BY <1>5 DEF IInv, TypeOK, Checkpoints
  <1>7. TypeOK'
    BY <1>1, <1>2, <1>5, <1>6 DEF IInv, TypeOK, history, MovesOn
  <1>8. DeliveryInOrder'
    <2>1. CASE UNCHANGED publisher
      BY <1>1, <1>5, <2>1, OrderKept DEF IInv
    <2>2. CASE store' = "ok" /\ publisher' = [pc |-> "posting", copy |-> cp'.pending]
      <3>1. publisher'.copy = disk'.pending /\ publisher'.pc = "posting"
        BY <1>5, <2>2 DEF MemoryIsDisk
      <3>2. disk.pending \in Snapshots /\ disk'.pending \in Snapshots
        BY <1>3, <1>5 DEF MovesOn, Checkpoints
      <3>3. NotAhead(held, disk'.pending)
        BY <1>3, <1>5, <3>2, NotAheadTrans DEF IInv, DeliveryInOrder, MovesOn
      <3>4. disk'.accepted <= held'.revision
        BY <1>1, <1>5 DEF IInv, DeliveryInOrder
      <3> QED
        BY <1>1, <3>1, <3>3, <3>4 DEF DeliveryInOrder, NotAhead
    <2> QED
      BY <1>5, <2>1, <2>2
  <1>9. RepliesRetained'
    BY <1>1, <1>5, RetainedKept DEF IInv
  <1> QED
    BY <1>5, <1>7, <1>8, <1>9 DEF IInv

\* The request, its answer, and their loss.
LEMMA PostKeeps ==
    ASSUME IInv, PostAccepted \/ PostRefused \/ PostLost
    PROVE  IInv'
  <1>1. UNCHANGED <<store, cp, disk, session, owner, handler, history, heard>>
    BY DEF PostAccepted, PostRefused, PostLost, peers
  <1>2. MemoryIsDisk' /\ RepliesRetained'
    BY <1>1, RetainedKept DEF IInv, MemoryIsDisk
  <1>3. publisher \in [pc : {"idle", "posting", "accepted", "conflict"}, copy : Snapshots]
        /\ held \in Snapshots /\ disk \in Checkpoints
    BY DEF IInv, TypeOK
  <1>4. CASE PostAccepted
    <2>1. /\ publisher.pc = "posting"
          /\ held' = publisher.copy
          /\ publisher' = [publisher EXCEPT !.pc = "accepted"]
      BY <1>4 DEF PostAccepted
    <2>2. publisher'.copy = publisher.copy /\ publisher'.pc = "accepted"
      BY <1>3, <2>1
    <2>3. TypeOK'
      BY <1>1, <1>3, <2>1 DEF IInv, TypeOK, history
    <2>4. NotAhead(held, publisher.copy) /\ NotAhead(publisher.copy, disk.pending)
          /\ disk.accepted <= held.revision
      BY <2>1 DEF IInv, DeliveryInOrder
    <2>5. held.revision \in Nat /\ publisher.copy.revision \in Nat
          /\ disk.accepted \in Nat
      BY <1>3, SourceAssumption DEF Snapshots, Checkpoints
    <2>6. disk.accepted <= publisher.copy.revision
      BY <2>4, <2>5 DEF NotAhead
    <2>7. DeliveryInOrder'
      BY <1>1, <2>1, <2>2, <2>4, <2>6 DEF DeliveryInOrder, NotAhead
    <2> QED
      BY <1>2, <2>3, <2>7 DEF IInv
  <1>5. CASE PostRefused
    <2>1. /\ publisher.pc = "posting" /\ held' = held
          /\ publisher' = [publisher EXCEPT !.pc = "conflict"]
      BY <1>5 DEF PostRefused
    <2>2. publisher'.copy = publisher.copy /\ publisher'.pc = "conflict"
      BY <1>3, <2>1
    <2>3. TypeOK'
      BY <1>1, <1>3, <2>1 DEF IInv, TypeOK, history
    <2>4. DeliveryInOrder'
      BY <1>1, <2>1, <2>2 DEF IInv, DeliveryInOrder
    <2> QED
      BY <1>2, <2>3, <2>4 DEF IInv
  <1>6. CASE PostLost
    <2>1. publisher' = Resting /\ held' = held
      BY <1>6 DEF PostLost
    <2>2. publisher'.pc = "idle" /\ publisher'.copy \in Snapshots
      BY <2>1, ConstantTypes DEF Resting
    <2>3. TypeOK'
      BY <1>1, <2>1, ConstantTypes DEF IInv, TypeOK, history, Resting
    <2>4. DeliveryInOrder'
      BY <1>1, <2>1, <2>2 DEF IInv, DeliveryInOrder
    <2> QED
      BY <1>2, <2>3, <2>4 DEF IInv
  <1> QED
    BY <1>4, <1>5, <1>6

\* An answer is recorded: the accepted revision, or the halt.
LEMMA AnswerKeeps == ASSUME IInv, Accept \/ Halt PROVE IInv'
  <1> DEFINE new == IF publisher.pc = "accepted"
                    THEN [cp EXCEPT !.accepted = cp.pending.revision]
                    ELSE [cp EXCEPT !.flags = cp.flags \cup {"halted"}]
  <1>1. /\ publisher' = Resting
        /\ UNCHANGED <<session, owner, handler, held, history, heard>>
    BY DEF Accept, Halt, peers
  <1>2. disk \in Checkpoints /\ cp \in Checkpoints
    BY DEF IInv, TypeOK
  <1>3. /\ new \in Checkpoints
        /\ new.pending = cp.pending
        /\ new.receipts = cp.receipts
        /\ new.accepted = IF publisher.pc = "accepted" THEN cp.pending.revision
                                                       ELSE cp.accepted
    BY <1>2 DEF Checkpoints, Snapshots
  <1>4. MovesOn(cp, new)
    BY <1>3 DEF MovesOn, NotAhead
  <1>5. \/ UNCHANGED <<store, cp, disk>>
        \/ /\ store = "ok"
           /\ publisher.pc = "accepted" => cp.pending = publisher.copy
           /\ Committed(new) \/ SaveFailed(new)
    BY DEF Accept, Halt, Current
  <1> HIDE DEF new
  <1>6. /\ store' \in {"down", "ok", "degraded"}
        /\ cp' \in Checkpoints
        /\ MemoryIsDisk'
        /\ MovesOn(disk, disk')
        /\ disk'.receipts = disk.receipts
        /\ disk'.pending = disk.pending
        /\ disk'.accepted <= held.revision
    <2>1. disk.accepted <= held.revision
      BY DEF IInv, DeliveryInOrder
    <2>2. CASE UNCHANGED <<store, cp, disk>>
      BY <1>2, <2>1, <2>2 DEF IInv, TypeOK, MemoryIsDisk, MovesOn, NotAhead
    <2>3. CASE /\ store = "ok"
               /\ publisher.pc = "accepted" => cp.pending = publisher.copy
               /\ Committed(new) \/ SaveFailed(new)
      <3>1. cp = disk
        BY <2>3 DEF IInv, MemoryIsDisk
      <3>2. /\ store' \in {"down", "ok", "degraded"}
            /\ cp' \in Checkpoints
            /\ MemoryIsDisk'
            /\ MovesOn(disk, disk')
            /\ disk' \in {disk, new}
        BY <1>3, <1>4, <2>3, CommitMoves
      <3>3. new.accepted <= held.revision
        <4>1. CASE publisher.pc = "accepted"
          <5>1. held = cp.pending /\ new.accepted = held.revision
            BY <1>3, <2>3, <4>1 DEF IInv, DeliveryInOrder
          <5>2. held.revision \in Nat
            BY SourceAssumption DEF IInv, TypeOK, Snapshots
          <5> QED
            BY <5>1, <5>2
        <4>2. CASE publisher.pc # "accepted"
          BY <1>3, <2>1, <3>1, <4>2
        <4> QED
          BY <4>1, <4>2
      <3> QED
        BY <1>3, <2>1, <3>1, <3>2, <3>3
    <2> QED
      BY <1>5, <2>2, <2>3
  <1>7. TypeOK'
    BY <1>1, <1>6, ConstantTypes DEF IInv, TypeOK, history, MovesOn, Resting
  <1>8. DeliveryInOrder'
    <2>1. publisher'.pc = "idle"
      BY <1>1 DEF Resting
    <2> QED
      BY <1>1, <1>6, <2>1 DEF IInv, DeliveryInOrder
  <1>9. RepliesRetained'
    BY <1>1, <1>6, RetainedKept DEF IInv
  <1> QED
    BY <1>6, <1>7, <1>8, <1>9 DEF IInv

\* The process dies.
LEMMA CrashKeeps == ASSUME IInv, Crash PROVE IInv'
  <1>1. /\ store' = "down" /\ publisher' = Resting /\ cp' = NewCheckpoint
        /\ handler' = [s \in Sessions |-> Idle]
        /\ UNCHANGED <<disk, held, history>>
    BY DEF Crash
  <1>2. TypeOK'
    BY ConstantTypes DEF Crash, IInv, TypeOK, history, Resting
  <1>3. DeliveryInOrder'
    <2>1. publisher'.pc = "idle"
      BY <1>1 DEF Resting
    <2> QED
      BY <1>1, <2>1 DEF IInv, DeliveryInOrder
  <1>4. RepliesRetained'
    <2>1. \A s \in Sessions : handler'[s].pc # "reply"
      BY <1>1 DEF Idle
    <2> QED
      BY <1>1, <2>1, RetainedKept DEF IInv
  <1> QED
    BY <1>1, <1>2, <1>3, <1>4 DEF IInv, MemoryIsDisk

\* Every step of the source, its publisher and its peers preserves the
\* invariant.
LEMMA NextIInv == ASSUME IInv, [Next]_vars PROVE IInv'
  <1>1. CASE Next
    <2>1. CASE Start \/ StartFails
      BY <2>1, StartKeeps
    <2>2. ASSUME NEW s \in Sessions, Step(s) PROVE IInv'
      <3>1. CASE Observe(s) \/ ObserveNew(s)
        BY <3>1, ObserveKeeps
      <3>2. CASE SessionExpires(s) \/ Disconnected(s) \/ Uncertain(s)
        BY <3>2, ConnectionKeeps
      <3>3. CASE Refuse(s) \/ Replay(s)
        BY <3>3, RefuseReplayKeeps
      <3>4. CASE Retain(s)
        BY <3>4, RetainKeeps
      <3>5. CASE Reject(s)
        BY <3>5, RejectKeeps
      <3>6. CASE Reply(s)
        BY <3>6, ReplyKeeps
      <3> QED
        BY <2>2, <3>1, <3>2, <3>3, <3>4, <3>5, <3>6 DEF Step
    <2>3. CASE Publish
      BY <2>3, PublishOnceKeeps, PostKeeps, AnswerKeeps DEF Publish
    <2>4. CASE Crash
      BY <2>4, CrashKeeps
    <2> QED
      BY <1>1, <2>1, <2>2, <2>3, <2>4 DEF Next
  <1>2. CASE UNCHANGED vars
    <2>1. TypeOK'
      BY <1>2 DEF IInv, TypeOK, vars
    <2>2. MemoryIsDisk' /\ DeliveryInOrder'
      BY <1>2 DEF IInv, MemoryIsDisk, DeliveryInOrder, vars
    <2>3. RepliesRetained'
      BY <1>2, RetainedKept DEF IInv, vars, history
    <2> QED
      BY <2>1, <2>2, <2>3 DEF IInv
  <1> QED
    BY <1>1, <1>2

-----------------------------------------------------------------------------
(* A halted source.                                                        *)

\* Only the publisher halts the source, and it rests from then on.
HaltedIsIdle == "halted" \in disk.flags => publisher.pc = "idle"

\* No operation but halt sets the halted flag.
LEMMA FlagKept ==
    ASSUME NEW c \in Checkpoints
    PROVE  /\ "halted" \in Invalidated(c).flags => "halted" \in c.flags
           /\ \A op \in AllOps, s \in Sessions, m \in Messages, reply \in {"OK", "NACK"} :
                 /\ "halted" \in Remember(Revise(Applied(c, op)), s, m, reply).flags
                        => "halted" \in c.flags
                 /\ "halted" \in Remember(Invalidated(c), s, m, reply).flags
                        => "halted" \in c.flags
  <1>1. Unfreshened(c).flags = c.flags \ {"rosterFresh"}
        /\ Invalidated(c).flags = Unfreshened(c).flags
    BY DEF Unfreshened, Invalidated, Revise, Checkpoints
  <1>2. ASSUME NEW op \in AllOps
        PROVE  /\ "halted" \in Applied(c, op).flags => "halted" \in c.flags
               /\ Revise(Applied(c, op)).flags = Applied(c, op).flags
    <2>1. CASE op.kind \in {"roster", "list"}
      BY <2>1 DEF Applied, WithRoster, Revise, Checkpoints
    <2>2. CASE op.kind = "body"
      BY <2>2 DEF Applied, WithBody, Revise, Checkpoints
    <2>3. CASE op.kind = "delete"
      BY <2>3 DEF Applied, Deleted, Revise, Checkpoints
    <2>4. CASE op.kind \notin {"roster", "list", "body", "delete"}
      BY <2>4 DEF Applied, Revise, Checkpoints
    <2> QED
      BY <2>1, <2>2, <2>3, <2>4
  <1>3. ASSUME NEW op \in AllOps, NEW s \in Sessions, NEW m \in Messages,
               NEW reply \in {"OK", "NACK"}
        PROVE  /\ Remember(Revise(Applied(c, op)), s, m, reply).flags
                     = Revise(Applied(c, op)).flags
               /\ Remember(Invalidated(c), s, m, reply).flags = Invalidated(c).flags
    <2>1. Invalidated(c).flags = Remember(Invalidated(c), s, m, reply).flags
      BY DEF Remember, Invalidated, Unfreshened, Revise, Checkpoints
    <2>2. CASE op.kind \in {"roster", "list"}
      BY <2>1, <2>2 DEF Remember, Applied, WithRoster, Revise, Checkpoints
    <2>3. CASE op.kind = "body"
      BY <2>1, <2>3 DEF Remember, Applied, WithBody, Revise, Checkpoints
    <2>4. CASE op.kind = "delete"
      BY <2>1, <2>4 DEF Remember, Applied, Deleted, Revise, Checkpoints
    <2>5. CASE op.kind \notin {"roster", "list", "body", "delete"}
      BY <2>1, <2>5 DEF Remember, Applied, Revise, Checkpoints
    <2> QED
      BY <2>2, <2>3, <2>4, <2>5
  <1> QED
    BY <1>1, <1>2, <1>3

\* A step of a halted source leaves the file alone and the publisher idle.
LEMMA HaltedStep ==
    ASSUME IInv, HaltedIsIdle, "halted" \in disk.flags, Next
    PROVE  disk' = disk /\ publisher'.pc = "idle"
  <1>1. publisher.pc = "idle" /\ (store = "ok" => "halted" \in cp.flags)
    BY DEF HaltedIsIdle, IInv, MemoryIsDisk
  <1>2. ~Invalidatable(disk) /\ (store = "ok" => ~Invalidatable(cp))
    BY <1>1 DEF Invalidatable
  <1>3. ~Start /\ ~StartFails
    BY <1>2 DEF Start, StartFails
  <1>4. TryInvalidate => disk' = disk
    BY <1>2 DEF TryInvalidate
  <1>5. ASSUME NEW s \in Sessions, Step(s) PROVE disk' = disk /\ publisher' = publisher
    <2>1. Refusable(s)
      BY <1>1 DEF Refusable
    <2>2. ~ObserveNew(s) /\ ~Retain(s) /\ ~Reject(s)
      BY <1>2, <2>1 DEF ObserveNew, Retain, Reject
    <2>3. CASE Observe(s) \/ SessionExpires(s) \/ Refuse(s) \/ Replay(s) \/ Reply(s)
      BY <2>3 DEF Observe, SessionExpires, Refuse, Replay, Reply
    <2>4. CASE Disconnected(s) \/ Uncertain(s)
      BY <1>4, <2>4 DEF Disconnected, Uncertain
    <2> QED
      BY <1>5, <2>2, <2>3, <2>4 DEF Step
  <1>6. ASSUME Publish PROVE disk' = disk /\ publisher' = publisher
    <2>1. PublishOnce
      BY <1>1, <1>6 DEF Publish, PostAccepted, PostRefused, PostLost, Accept, Halt
    <2>2. store # "ok"
      BY <1>1, <2>1 DEF PublishOnce
    <2> QED
      BY <2>1, <2>2 DEF PublishOnce
  <1>7. Crash => disk' = disk /\ publisher'.pc = "idle"
    BY DEF Crash, Resting
  <1> QED
    BY <1>1, <1>3, <1>5, <1>6, <1>7 DEF Next

\* The publisher rests once the source is halted.
LEMMA HaltedIdleKept == ASSUME IInv, HaltedIsIdle, [Next]_vars PROVE HaltedIsIdle'
  <1>1. CASE "halted" \in disk.flags /\ Next
    BY <1>1, HaltedStep DEF HaltedIsIdle
  <1>2. CASE "halted" \notin disk.flags /\ Next
    <2> SUFFICES ASSUME publisher'.pc # "idle" PROVE "halted" \notin disk'.flags
      BY DEF HaltedIsIdle
    <2>1. disk \in Checkpoints /\ cp \in Checkpoints /\ (store = "ok" => cp = disk)
      BY DEF IInv, TypeOK, MemoryIsDisk
    <2>2. "halted" \notin Invalidated(disk).flags
      BY <1>2, <2>1, FlagKept
    <2>3. Start \/ StartFails => disk' = Invalidated(disk)
      BY DEF Start, StartFails
    <2>4. TryInvalidate => disk' \in {disk, Invalidated(disk)}
      BY <2>1 DEF TryInvalidate, Committed, SaveFailed
    <2>5. ASSUME NEW s \in Sessions, Step(s) PROVE "halted" \notin disk'.flags
      <3>1. CASE Observe(s) \/ SessionExpires(s) \/ Refuse(s) \/ Replay(s) \/ Reply(s)
        BY <1>2, <3>1 DEF Observe, SessionExpires, Refuse, Replay, Reply
      <3>2. CASE Disconnected(s) \/ Uncertain(s)
        BY <1>2, <2>2, <2>4, <3>2 DEF Disconnected, Uncertain
      <3>3. CASE ObserveNew(s)
        <4>1. disk' \in {disk, Invalidated(disk)}
          BY <2>1, <3>3 DEF ObserveNew, Committed, SaveFailed
        <4> QED
          BY <1>2, <2>2, <4>1
      <3>4. handler[s].msg \in Messages /\ handler[s].msg.op \in AllOps
        BY DEF IInv, TypeOK, Handlers, Messages
      <3>5. CASE Retain(s)
        <4>1. disk' \in {disk, Remember(Revise(Applied(disk, handler[s].msg.op)), s,
                                        handler[s].msg, "OK")}
          BY <2>1, <3>5 DEF Retain, Refusable, Committed, SaveFailed
        <4> QED
          BY <1>2, <2>1, <3>4, <4>1, FlagKept
      <3>6. CASE Reject(s)
        <4>1. disk' \in {disk, Invalidated(disk),
                         Remember(Invalidated(disk), s, handler[s].msg, "NACK")}
          BY <2>1, <3>6 DEF Reject, Refusable, Committed, SaveFailed
        <4> QED
          BY <1>2, <2>1, <2>2, <3>4, <4>1, FlagKept
      <3> QED
        BY <2>5, <3>1, <3>2, <3>3, <3>5, <3>6 DEF Step
    <2>6. ASSUME Publish PROVE disk' \in {disk, Invalidated(disk)}
      <3>1. PublishOnce \/ PostAccepted \/ PostRefused
        BY <2>6 DEF Publish, PostLost, Accept, Halt, Resting
      <3>2. CASE PublishOnce
        BY <2>1, <3>2 DEF PublishOnce, Committed, SaveFailed
      <3> QED
        BY <3>1, <3>2 DEF PostAccepted, PostRefused
    <2>7. ~Crash
      BY DEF Crash, Resting
    <2> QED
      BY <1>2, <2>2, <2>3, <2>5, <2>6, <2>7 DEF Next
  <1>3. CASE UNCHANGED vars
    BY <1>3 DEF vars, HaltedIsIdle
  <1> QED
    BY <1>1, <1>2, <1>3

-----------------------------------------------------------------------------
(* The theorems.                                                           *)

\* The invariant holds in every behaviour of the source.
THEOREM SourceInvariant == Spec => []IInv
  <1>1. Init => IInv
    BY InitIInv
  <1>2. IInv /\ [Next]_vars => IInv'
    BY NextIInv
  <1> QED
    BY <1>1, <1>2, PTL DEF Spec

\* Every variable keeps its type; revisions stay within the limit (revise).
THEOREM SourceTypeOK == Spec => []TypeOK
  <1>1. IInv => TypeOK
    BY DEF IInv
  <1> QED
    BY <1>1, SourceInvariant, PTL

\* The receiver never gets two bodies under one revision, nor an older one,
\* whatever crashes and failed saves come between (publishOnce, Commit).
THEOREM PostsForwardTheorem == Spec => []PostsForward
  <1>1. IInv => PostsForward
    <2> SUFFICES ASSUME IInv, publisher.pc = "posting" PROVE Acceptable(publisher.copy)
      BY DEF PostsForward
    <2>1. NotAhead(held, publisher.copy)
      BY DEF IInv, DeliveryInOrder
    <2>2. held.revision \in Nat /\ publisher.copy.revision \in Nat
      BY SourceAssumption DEF IInv, TypeOK, Snapshots
    <2> QED
      BY <2>1, <2>2 DEF NotAhead, Acceptable
  <1> QED
    BY <1>1, SourceInvariant, PTL

\* What is recorded as accepted, the receiver has taken (publishOnce).
THEOREM AcceptedWasReceivedTheorem == Spec => []AcceptedWasReceived
  <1>1. IInv => AcceptedWasReceived
    BY DEF IInv, DeliveryInOrder, AcceptedWasReceived
  <1> QED
    BY <1>1, SourceInvariant, PTL

\* A positive reply that reaches the newsroom has its receipt in the file,
\* no message has two receipts, and none takes effect twice (Apply,
\* rememberSource).
THEOREM ReplayTheorem ==
    Spec => [](OKIsDurable /\ OneReceiptPerMessage /\ AppliedOnce)
  <1>1. IInv => OKIsDurable /\ OneReceiptPerMessage /\ AppliedOnce
    BY DEF IInv, RepliesRetained
  <1> QED
    BY <1>1, SourceInvariant, PTL

\* A positive reply that reaches the newsroom has its receipt in the file,
\* so that no crash or failed save makes a retry of it new (Apply).
THEOREM OKIsDurableTheorem == Spec => []OKIsDurable
  BY ReplayTheorem, PTL

\* A halted source keeps revision, content and receipts for good (halt).
THEOREM HaltedIsFrozenTheorem == Spec => HaltedIsFrozen
  <1>1. Init => HaltedIsIdle
    BY DEF Init, HaltedIsIdle, Resting
  <1>2. IInv /\ HaltedIsIdle /\ [Next]_vars => HaltedIsIdle'
    BY HaltedIdleKept
  <1>3. IInv /\ HaltedIsIdle /\ [Next]_vars
           => [("halted" \in disk.flags) => disk' = disk]_vars
    BY HaltedStep
  <1> QED
    BY <1>1, <1>2, <1>3, SourceInvariant, PTL DEF Spec, HaltedIsFrozen

-----------------------------------------------------------------------------
(* Coverage.                                                               *)

\* The source holds what the newsroom listed and then sent.
Listed ==
    /\ "active" \in cp.flags
    /\ heard.roster = "listed"
    /\ heard.stories = cp.stories
    /\ cp.fresh \subseteq cp.stories
    /\ \A t \in cp.fresh : /\ heard.content[t] = cp.content[t]
                           /\ cp.content[t] # NoContent
    /\ \A t \in Stories \ cp.fresh : heard.content[t] = NoContent
    /\ \A t \in Stories \ cp.stories : cp.content[t] = NoContent

\* The newsroom has deleted the rundown.
Gone ==
    /\ "active" \notin cp.flags
    /\ heard.roster = "deleted"
    /\ heard.stories = {}
    /\ heard.content = NoBody

Certified ==
    (/\ "rosterFresh" \in cp.flags
     /\ "halted" \notin cp.flags
     /\ ~Exhausted(cp)) => Listed \/ Gone

IsProjection(c) == c.pending = Projection(c, c.pending.revision)

\* A message being applied is one the newsroom sends.
ReadIsSent == \A s \in Sessions : handler[s].pc = "apply" => handler[s].msg \in Sent

CInv == /\ store = "ok" => IsProjection(cp) /\ Certified
        /\ ReadIsSent

\* The projection depends on coverage and content alone.
LEMMA ProjectionSame ==
    ASSUME NEW c, NEW d, NEW n,
           d.stories = c.stories, d.fresh = c.fresh, d.content = c.content,
           d.flags \cap {"active", "rosterFresh"} = c.flags \cap {"active", "rosterFresh"}
    PROVE  Projection(d, n) = Projection(c, n)
  <1>1. /\ "active" \in d.flags <=> "active" \in c.flags
        /\ "rosterFresh" \in d.flags <=> "rosterFresh" \in c.flags
        /\ d.flags \cap {"active"} = c.flags \cap {"active"}
    OBVIOUS
  <1>2. Complete(d) <=> Complete(c)
    BY <1>1 DEF Complete
  <1> QED
    BY <1>1, <1>2 DEF Projection

\* revise leaves coverage and content alone, and the result holds the
\* projection of itself.
LEMMA RevisedIsProjection ==
    ASSUME NEW c \in Checkpoints, ~Exhausted(c)
    PROVE  /\ IsProjection(Revise(c))
           /\ Revise(c).flags = c.flags
           /\ Revise(c).stories = c.stories
           /\ Revise(c).fresh = c.fresh
           /\ Revise(c).content = c.content
  <1> DEFINE n == c.pending.revision + 1
  <1>1. /\ Revise(c).flags = c.flags /\ Revise(c).stories = c.stories
        /\ Revise(c).fresh = c.fresh /\ Revise(c).content = c.content
        /\ Revise(c).pending = Projection(c, n)
    BY DEF Revise, Checkpoints
  <1>2. Revise(c).pending.revision = n
    BY ReviseType DEF NextRevision
  <1>3. Projection(Revise(c), n) = Projection(c, n)
    BY <1>1, ProjectionSame
  <1> QED
    BY <1>1, <1>2, <1>3 DEF IsProjection

\* invalidate leaves a projection of a roster that is not fresh.
LEMMA InvalidatedUncertified ==
    ASSUME NEW c \in Checkpoints, ~Exhausted(c)
    PROVE  /\ IsProjection(Invalidated(c))
           /\ "rosterFresh" \notin Invalidated(c).flags
  <1>1. /\ Unfreshened(c) \in Checkpoints
        /\ "rosterFresh" \notin Unfreshened(c).flags
        /\ Unfreshened(c).pending = c.pending
    BY DEF Unfreshened, Checkpoints
  <1>2. ~Exhausted(Unfreshened(c))
    BY <1>1 DEF Exhausted
  <1> QED
    BY <1>1, <1>2, RevisedIsProjection DEF Invalidated

\* A retained receipt changes neither coverage nor content.
LEMMA RememberedIsProjection ==
    ASSUME NEW c \in Checkpoints, NEW s, NEW m, NEW reply
    PROVE  /\ IsProjection(c) => IsProjection(Remember(c, s, m, reply))
           /\ Remember(c, s, m, reply).pending = c.pending
           /\ Remember(c, s, m, reply).flags = c.flags
           /\ Remember(c, s, m, reply).stories = c.stories
           /\ Remember(c, s, m, reply).fresh = c.fresh
           /\ Remember(c, s, m, reply).content = c.content
  <1>1. /\ Remember(c, s, m, reply).pending = c.pending
        /\ Remember(c, s, m, reply).flags = c.flags
        /\ Remember(c, s, m, reply).stories = c.stories
        /\ Remember(c, s, m, reply).fresh = c.fresh
        /\ Remember(c, s, m, reply).content = c.content
    BY DEF Remember, Checkpoints
  <1> QED
    BY <1>1, ProjectionSame DEF IsProjection

-----------------------------------------------------------------------------
(* The steps.                                                              *)

\* Coverage invalidated by a commit is not certified, whatever was heard.
LEMMA InvalidatedKeeps ==
    ASSUME NEW c \in Checkpoints, ~Exhausted(c), cp' = Invalidated(c)
    PROVE  IsProjection(cp)' /\ Certified'
  <1>1. IsProjection(cp)' /\ "rosterFresh" \notin cp'.flags
    BY InvalidatedUncertified DEF IsProjection
  <1> QED
    BY <1>1 DEF Certified

\* invalidate, where its error is of no consequence: if it does nothing, the
\* source is halted, exhausted or degraded.
LEMMA TryInvalidateKeeps ==
    ASSUME IInv, CInv, TryInvalidate
    PROVE  store' = "ok" => IsProjection(cp)' /\ Certified'
  <1> SUFFICES ASSUME store' = "ok" PROVE IsProjection(cp)' /\ Certified'
    OBVIOUS
  <1>1. CASE store = "ok" /\ Invalidatable(cp)
    <2>1. cp' = Invalidated(cp) /\ cp \in Checkpoints /\ ~Exhausted(cp)
      BY <1>1 DEF TryInvalidate, Committed, SaveFailed, IInv, TypeOK, Invalidatable
    <2> QED
      BY <2>1, InvalidatedKeeps
  <1>2. CASE ~(store = "ok" /\ Invalidatable(cp))
    <2>1. UNCHANGED <<store, cp>> /\ ("halted" \in cp.flags \/ Exhausted(cp))
      BY <1>2 DEF TryInvalidate, Invalidatable
    <2> QED
      BY <2>1 DEF CInv, Certified, IsProjection, Exhausted
  <1> QED
    BY <1>1, <1>2

\* A message applied: what is certified follows what is heard.
LEMMA RetainCertifies ==
    ASSUME IInv, CInv, NEW s \in Sessions, Retain(s), store' = "ok"
    PROVE  IsProjection(cp)' /\ Certified'
  <1> DEFINE m == handler[s].msg
             c == Applied(cp, m.op)
  <1>1. /\ store = "ok" /\ cp \in Checkpoints /\ m.op \in AllOps
        /\ m \in Sent
        /\ Applicable(cp, m.op) /\ ~Exhausted(cp) /\ "halted" \notin cp.flags
        /\ heard \in Heard
        /\ heard' = Hear(m.op)
        /\ cp' = Remember(Revise(c), s, m, "OK")
    BY DEF Retain, Refusable, CInv, ReadIsSent, IInv, TypeOK, Handlers, Messages,
           Committed, SaveFailed
  <1>2. c \in Checkpoints /\ SameRecord(cp, c)
    BY <1>1, AppliedType
  <1>3. ~Exhausted(c)
    BY <1>1, <1>2 DEF Exhausted, SameRecord
  <1>4. Revise(c) \in Checkpoints
    BY <1>2, <1>3, ReviseType
  <1>5. /\ IsProjection(cp')
        /\ cp'.flags = c.flags
        /\ cp'.stories = c.stories
        /\ cp'.fresh = c.fresh
        /\ cp'.content = c.content
    BY <1>1, <1>2, <1>3, <1>4, RevisedIsProjection, RememberedIsProjection
  <1>6. "rosterFresh" \in cp.flags => Listed \/ Gone
    BY <1>1 DEF CInv, Certified
  <1>7. m.op.kind \in {"roster", "list", "body", "delete", "note", "invalid"}
    BY <1>1 DEF AllOps
  <1> HIDE DEF c
  <1>8. CASE m.op.kind \in {"roster", "list"}
    <2>1. /\ c.flags = cp.flags \cup {"active", "rosterFresh"}
          /\ c.stories = m.op.stories
          /\ c.fresh = {}
          /\ \A t \in Stories \ m.op.stories : c.content[t] = NoContent
      BY <1>1, <1>8 DEF c, Applied, WithRoster, Checkpoints
    <2>2. /\ heard'.roster = "listed"
          /\ heard'.stories = m.op.stories
          /\ heard'.content = NoBody
      BY <1>1, <1>8 DEF Hear
    <2>3. Listed'
      BY <1>5, <2>1, <2>2 DEF Listed, NoBody
    <2> QED
      BY <1>5, <2>3 DEF Certified, IsProjection
  <1>9. CASE m.op.kind = "body"
    <2>1. /\ {"active", "rosterFresh"} \subseteq cp.flags
          /\ m.op.story \in cp.stories
          /\ cp.stories \subseteq Stories
          /\ m.op.content # NoContent
      BY <1>1, <1>9, SourceAssumption DEF Applicable, Checkpoints
    <2>2. Listed
      BY <1>6, <2>1 DEF Gone
    <2>3. /\ c.flags = cp.flags
          /\ c.stories = cp.stories
          /\ c.fresh = cp.fresh \cup {m.op.story}
          /\ c.content = [cp.content EXCEPT ![m.op.story] = m.op.content]
      BY <1>1, <1>9 DEF c, Applied, WithBody, Checkpoints
    <2>4. /\ heard'.roster = heard.roster
          /\ heard'.stories = heard.stories
          /\ heard'.content = [heard.content EXCEPT ![m.op.story] = m.op.content]
      BY <1>1, <1>9 DEF Hear, Heard
    <2>5. /\ cp.content \in [Stories -> Body]
          /\ heard.content \in [Stories -> Body]
      BY <1>1 DEF Checkpoints, Heard
    <2>6. \A t \in c.fresh : heard'.content[t] = c.content[t] /\ c.content[t] # NoContent
      BY <2>1, <2>2, <2>3, <2>4, <2>5 DEF Listed
    <2>7. \A t \in Stories \ c.fresh : heard'.content[t] = NoContent
      BY <2>2, <2>3, <2>4, <2>5 DEF Listed
    <2>8. \A t \in Stories \ c.stories : c.content[t] = NoContent
      BY <2>1, <2>2, <2>3, <2>5 DEF Listed
    <2>9. /\ "active" \in c.flags /\ heard'.roster = "listed"
          /\ heard'.stories = c.stories /\ c.fresh \subseteq c.stories
      BY <2>1, <2>2, <2>3, <2>4 DEF Listed
    <2>10. Listed'
      BY <1>5, <2>6, <2>7, <2>8, <2>9 DEF Listed
    <2> QED
      BY <1>5, <2>10 DEF Certified, IsProjection
  <1>10. CASE m.op.kind = "delete"
    <2>1. "active" \notin c.flags
      BY <1>1, <1>10 DEF c, Applied, Deleted, Checkpoints
    <2>2. heard'.roster = "deleted" /\ heard'.stories = {} /\ heard'.content = NoBody
      BY <1>1, <1>10 DEF Hear
    <2>3. Gone'
      BY <1>5, <2>1, <2>2 DEF Gone, NoBody
    <2> QED
      BY <1>5, <2>3 DEF Certified, IsProjection
  <1>11. CASE m.op.kind \in {"note", "invalid"}
    <2>1. c = cp /\ heard' = heard
      BY <1>1, <1>11 DEF c, Applied, Hear
    <2>2. CASE "rosterFresh" \notin cp.flags
      BY <1>5, <2>1, <2>2 DEF Certified, IsProjection
    <2>3. CASE Listed
      <3>1. Listed'
        BY <1>5, <2>1, <2>3 DEF Listed
      <3> QED
        BY <1>5, <3>1 DEF Certified, IsProjection
    <2>4. CASE Gone
      <3>1. Gone'
        BY <1>5, <2>1, <2>4 DEF Gone, NoBody
      <3> QED
        BY <1>5, <3>1 DEF Certified, IsProjection
    <2> QED
      BY <1>6, <2>2, <2>3, <2>4
  <1> QED
    BY <1>7, <1>8, <1>9, <1>10, <1>11

\* A step that changes neither the store, the checkpoint nor what was heard.
LEMMA SameKeeps ==
    ASSUME CInv, UNCHANGED <<store, cp, heard>>
    PROVE  store' = "ok" => IsProjection(cp)' /\ Certified'
  BY DEF CInv, IsProjection, Certified, Listed, Gone, Exhausted, NoBody

\* Messages being applied are as they were read.
LEMMA ReadKept == ASSUME IInv, ReadIsSent, [Next]_vars PROVE ReadIsSent'
  <1>1. handler \in [Sessions -> Handlers]
    BY DEF IInv, TypeOK
  <1>2. CASE UNCHANGED handler
    BY <1>2 DEF ReadIsSent
  <1>3. ASSUME NEW s \in Sessions, Receive(s) PROVE ReadIsSent'
    <2>1. PICK m \in Sent :
            handler' = [handler EXCEPT ![s] =
               [pc |-> "apply", msg |-> m, reply |-> "none"]]
      BY <1>3 DEF Receive
    <2> QED
      BY <1>1, <2>1 DEF ReadIsSent
  <1>4. ASSUME NEW s \in Sessions, NEW reply, ReplyWith(s, reply) PROVE ReadIsSent'
    BY <1>1, <1>4 DEF ReplyWith, ReadIsSent, Handlers
  <1>5. ASSUME NEW s \in Sessions, handler' = [handler EXCEPT ![s] = Idle]
        PROVE  ReadIsSent'
    BY <1>1, <1>5 DEF ReadIsSent, Idle
  <1>6. CASE handler' = [s \in Sessions |-> Idle]
    BY <1>6 DEF ReadIsSent, Idle
  <1>7. ASSUME NEW s \in Sessions, Step(s) PROVE ReadIsSent'
    <2>1. CASE Observe(s) \/ ObserveNew(s)
      BY <1>2, <1>3, <2>1 DEF Observe, ObserveNew, peers
    <2>2. CASE SessionExpires(s) \/ Disconnected(s) \/ Uncertain(s)
      BY <1>2, <2>2 DEF SessionExpires, Disconnected, Uncertain, peers
    <2>3. CASE Refuse(s) \/ Replay(s) \/ Retain(s) \/ Reject(s)
      BY <1>4, <2>3 DEF Refuse, Replay, Retain, Reject
    <2>4. CASE Reply(s)
      BY <1>5, <2>4 DEF Reply
    <2> QED
      BY <1>7, <2>1, <2>2, <2>3, <2>4 DEF Step
  <1>8. Start \/ StartFails \/ Publish => UNCHANGED handler
    BY DEF Start, StartFails, Publish, PublishOnce, PostAccepted, PostRefused,
           PostLost, Accept, Halt, peers
  <1>9. Crash => handler' = [s \in Sessions |-> Idle]
    BY DEF Crash
  <1> QED
    BY <1>2, <1>6, <1>7, <1>8, <1>9 DEF Next, vars

\* Every step keeps coverage certified.
LEMMA NextCInv == ASSUME IInv, CInv, [Next]_vars PROVE CInv'
  <1>1. ReadIsSent'
    BY ReadKept DEF CInv
  <1> SUFFICES ASSUME store' = "ok" PROVE IsProjection(cp)' /\ Certified'
    BY <1>1 DEF CInv
  <1>2. cp \in Checkpoints /\ disk \in Checkpoints
    BY DEF IInv, TypeOK
  <1>3. CASE Start \/ StartFails
    <2>1. cp' = Invalidated(disk) /\ ~Exhausted(disk)
      BY <1>3 DEF Start, StartFails, Invalidatable
    <2> QED
      BY <1>2, <2>1, InvalidatedKeeps
  <1>4. ASSUME NEW s \in Sessions, Step(s) PROVE IsProjection(cp)' /\ Certified'
    <2>1. CASE Observe(s) \/ SessionExpires(s) \/ Refuse(s) \/ Replay(s) \/ Reply(s)
      <3>1. UNCHANGED <<store, cp, heard>>
        BY <2>1 DEF Observe, SessionExpires, Refuse, Replay, Reply
      <3> QED
        BY <3>1, SameKeeps
    <2>2. CASE ObserveNew(s)
      <3>1. cp' = Invalidated(cp) /\ ~Exhausted(cp)
        BY <2>2 DEF ObserveNew, Invalidatable, Committed, SaveFailed
      <3> QED
        BY <1>2, <3>1, InvalidatedKeeps
    <2>3. CASE Disconnected(s)
      <3>1. CASE Owns(s)
        BY <2>3, <3>1, TryInvalidateKeeps DEF Disconnected
      <3>2. CASE ~Owns(s)
        BY <2>3, <3>2, SameKeeps DEF Disconnected
      <3> QED
        BY <3>1, <3>2
    <2>4. CASE Uncertain(s)
      BY <2>4, TryInvalidateKeeps DEF Uncertain
    <2>5. CASE Retain(s)
      BY <2>5, RetainCertifies
    <2>6. CASE Reject(s)
      <3>1. CASE Exhausted(cp)
        <4>1. UNCHANGED <<store, cp>>
          BY <2>6, <3>1 DEF Reject
        <4> QED
          BY <3>1, <4>1 DEF CInv, IsProjection, Certified, Exhausted
      <3>2. CASE ~Exhausted(cp)
        <4>1. \/ cp' = Invalidated(cp)
              \/ cp' = Remember(Invalidated(cp), s, handler[s].msg, "NACK")
          BY <2>6, <3>2 DEF Reject, Committed, SaveFailed
        <4>2. /\ Invalidated(cp) \in Checkpoints
              /\ IsProjection(Invalidated(cp))
              /\ "rosterFresh" \notin Invalidated(cp).flags
          BY <1>2, <3>2, InvalidatedType, InvalidatedUncertified
        <4>3. IsProjection(cp') /\ "rosterFresh" \notin cp'.flags
          BY <4>1, <4>2, RememberedIsProjection
        <4> QED
          BY <4>3 DEF Certified, IsProjection
      <3> QED
        BY <3>1, <3>2
    <2> QED
      BY <1>4, <2>1, <2>2, <2>3, <2>4, <2>5, <2>6 DEF Step
  <1>5. CASE PublishOnce
    <2> DEFINE lost == \E s \in Late : Owns(s)
    <2>1. heard' = IF lost THEN Silence ELSE heard
      BY <1>5 DEF PublishOnce
    <2>2. \/ UNCHANGED <<store, cp>> /\ (lost => store # "ok" \/ Exhausted(cp))
          \/ cp' = Invalidated(cp) /\ ~Exhausted(cp)
      BY <1>5 DEF PublishOnce, Committed, SaveFailed
    <2> HIDE DEF lost
    <2>3. CASE UNCHANGED <<store, cp>> /\ (lost => Exhausted(cp))
      <3>1. CASE lost
        BY <2>3, <3>1 DEF CInv, IsProjection, Certified, Exhausted
      <3>2. CASE ~lost
        BY <2>1, <2>3, <3>2, SameKeeps
      <3> QED
        BY <3>1, <3>2
    <2>4. CASE cp' = Invalidated(cp) /\ ~Exhausted(cp)
      BY <1>2, <2>4, InvalidatedKeeps
    <2> QED
      BY <2>2, <2>3, <2>4
  <1>6. CASE PostAccepted \/ PostRefused \/ PostLost
    <2>1. UNCHANGED <<store, cp, heard>>
      BY <1>6 DEF PostAccepted, PostRefused, PostLost
    <2> QED
      BY <2>1, SameKeeps
  <1>7. CASE Accept
    <2>1. UNCHANGED heard
      BY <1>7 DEF Accept
    <2>2. CASE UNCHANGED <<store, cp>>
      BY <2>1, <2>2, SameKeeps
    <2>3. CASE store = "ok" /\ cp' = [cp EXCEPT !.accepted = cp.pending.revision]
      <3>1. /\ cp'.flags = cp.flags /\ cp'.stories = cp.stories /\ cp'.fresh = cp.fresh
            /\ cp'.content = cp.content /\ cp'.pending = cp.pending
        BY <1>2, <2>3 DEF Checkpoints
      <3>2. IsProjection(cp')
        <4>1. IsProjection(cp)
          BY <2>3 DEF CInv
        <4>2. Projection(cp', cp.pending.revision) = Projection(cp, cp.pending.revision)
          BY <3>1, ProjectionSame
        <4> QED
          BY <3>1, <4>1, <4>2 DEF IsProjection
      <3>3. Exhausted(cp)' <=> Exhausted(cp)
        BY <3>1 DEF Exhausted
      <3>4. Listed => Listed'
        BY <2>1, <3>1 DEF Listed
      <3>5. Gone => Gone'
        BY <2>1, <3>1 DEF Gone, NoBody
      <3>6. Certified'
        BY <2>3, <3>1, <3>3, <3>4, <3>5 DEF CInv, Certified
      <3> QED
        BY <3>2, <3>6 DEF IsProjection
    <2> QED
      BY <1>7, <2>2, <2>3 DEF Accept, Committed, SaveFailed
  <1>8. CASE Halt
    <2>1. UNCHANGED heard
      BY <1>8 DEF Halt
    <2>2. CASE UNCHANGED <<store, cp>>
      BY <2>1, <2>2, SameKeeps
    <2>3. CASE store = "ok" /\ cp' = [cp EXCEPT !.flags = cp.flags \cup {"halted"}]
      <3>1. /\ cp'.flags = cp.flags \cup {"halted"}
            /\ cp'.stories = cp.stories /\ cp'.fresh = cp.fresh
            /\ cp'.content = cp.content /\ cp'.pending = cp.pending
        BY <1>2, <2>3 DEF Checkpoints
      <3>2. cp'.flags \cap {"active", "rosterFresh"}
               = cp.flags \cap {"active", "rosterFresh"}
        BY <3>1
      <3>3. IsProjection(cp')
        <4>1. IsProjection(cp)
          BY <2>3 DEF CInv
        <4>2. Projection(cp', cp.pending.revision) = Projection(cp, cp.pending.revision)
          BY <3>1, <3>2, ProjectionSame
        <4> QED
          BY <3>1, <4>1, <4>2 DEF IsProjection
      <3> QED
        BY <3>1, <3>3 DEF Certified, IsProjection
    <2> QED
      BY <1>8, <2>2, <2>3 DEF Halt, Committed, SaveFailed
  <1>9. CASE UNCHANGED vars
    BY <1>9, SameKeeps DEF vars
  <1>10. ~Crash
    BY DEF Crash
  <1> QED
    BY <1>3, <1>4, <1>5, <1>6, <1>7, <1>8, <1>9, <1>10 DEF Next, Publish

\* Certified coverage and the projection give a complete snapshot its
\* content.
LEMMA CertifiedIsCovered == ASSUME IInv, CInv PROVE CompleteIsCovered
  <1> SUFFICES ASSUME store = "ok", "complete" \in cp.pending.flags,
                      "halted" \notin cp.flags, ~Exhausted(cp)
               PROVE  /\ cp.pending.content = heard.content
                      /\ \/ "active" \in cp.pending.flags /\ heard.roster = "listed"
                         \/ "active" \notin cp.pending.flags /\ heard.roster = "deleted"
                      /\ \A t \in heard.stories : heard.content[t] # NoContent
    BY DEF CompleteIsCovered
  <1>1. /\ cp.content \in [Stories -> Body] /\ heard.content \in [Stories -> Body]
        /\ cp.stories \subseteq Stories
    BY DEF IInv, TypeOK, Checkpoints, Heard
  <1> DEFINE shown == IF Complete(cp) /\ "active" \in cp.flags
                         THEN cp.content ELSE NoBody
             fits  == \A t \in Stories : shown[t] \notin OutsideLimits
  <1>2. /\ cp.pending.flags = (cp.flags \cap {"active"})
                     \cup (IF Complete(cp) /\ fits THEN {"complete"} ELSE {})
        /\ cp.pending.content = IF fits THEN shown ELSE NoBody
    BY DEF CInv, IsProjection, Projection
  <1>3. Complete(cp) /\ fits
    BY <1>2
  <1>4. /\ "active" \in cp.pending.flags <=> "active" \in cp.flags
        /\ cp.pending.content = shown
    BY <1>2, <1>3
  <1>5. Listed \/ Gone
    BY <1>3 DEF CInv, Certified, Complete
  <1>6. CASE Listed
    <2>1. cp.pending.content = cp.content /\ cp.stories \subseteq cp.fresh
      BY <1>3, <1>4, <1>6 DEF Listed, Complete
    <2>2. \A t \in Stories : heard.content[t] = cp.content[t]
      BY <1>6, <2>1 DEF Listed
    <2>3. heard.content = cp.content
      BY <1>1, <2>2
    <2> QED
      BY <1>4, <1>6, <2>1, <2>3 DEF Listed
  <1>7. CASE Gone
    BY <1>4, <1>7 DEF Gone
  <1> QED
    BY <1>5, <1>6, <1>7

\* A complete snapshot holds exactly the roster and the bodies that the
\* newsroom has sent since continuity was last lost, whatever reconnects,
\* restarts, failed saves and retries come between (revise, invalidate,
\* applyRoster, applyBody, Observe, Apply).
THEOREM CoverageTheorem == Spec => []CompleteIsCovered
  <1>1. Init => CInv
    BY DEF Init, CInv, ReadIsSent, Idle
  <1>2. IInv /\ CInv /\ [Next]_vars => CInv'
    BY NextCInv
  <1>3. IInv /\ CInv => CompleteIsCovered
    BY CertifiedIsCovered
  <1> QED
    BY <1>1, <1>2, <1>3, SourceInvariant, PTL DEF Spec
=============================================================================
