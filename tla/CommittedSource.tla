--------------------------- MODULE CommittedSource ---------------------------
(***************************************************************************)
(* The committed source of one rundown: internal/service/source.go and     *)
(* source_publisher.go over the checkpoint of internal/repository/         *)
(* checkpoint.go, and the receiver that the publisher posts to.            *)
(*                                                                         *)
(* Messages of the newsroom arrive on connections (sessions), each handled *)
(* by a goroutine of its own: Observe validates the connection, Apply      *)
(* commits the message with its reply, and only then is the reply sent.    *)
(* One publisher posts the latest committed snapshot.  The source's mutex  *)
(* makes Observe, Apply and each locked part of publishOnce one step; all  *)
(* else interleaves.  A commit replaces the checkpoint file; when it fails *)
(* the file holds the old or the new checkpoint and nothing more is        *)
(* committed or published until a restart.                                 *)
(*                                                                         *)
(* An operation is abstracted to what coverage and replay depend on: its   *)
(* kind, the stories a roster lists, the story and the content of a body.  *)
(* Boolean fields are sets of the flags that are set.                      *)
(***************************************************************************)
EXTENDS Integers, FiniteSets

CONSTANTS Sessions,      \* connections, by address
          NoSession,
          Scopes,        \* transport scopes (channel or lane)
          ScopeOf,       \* the scope of each connection
          Stories,
          NoStory,
          Contents,      \* what a story body can say
          NoContent,
          OutsideLimits, \* contents that the publication limits exclude
          IDs,           \* messageIDs of the newsroom
          NoID,          \* the absent messageID of MOS 2.x
          Sent,          \* the messages the newsroom sends
          MaxRevision,   \* repository.MaxSourceRevision
          DiskFails,     \* may saving the checkpoint fail?
          Receiver       \* "absent", "honest", or "foreign": it may know
                         \* the source from elsewhere and report conflicts

Body == Contents \cup {NoContent}

\* The operations of applyMessage: a roster that is acknowledged (roCreate,
\* roReplace) or silent (roList), a story body, roDelete, a message that
\* leaves coverage alone, and one that cannot be applied.
AllOps == [kind    : {"roster", "list", "body", "delete", "note", "invalid"},
           stories : SUBSET Stories,
           story   : Stories \cup {NoStory},
           content : Body]

\* What the transport hands on: the messageID and the operation.
Messages == [id : IDs \cup {NoID}, op : AllOps]

ASSUME SourceAssumption ==
    /\ NoSession \notin Sessions
    /\ ScopeOf \in [Sessions -> Scopes]
    /\ NoStory \notin Stories
    /\ NoContent \notin Contents
    /\ OutsideLimits \subseteq Contents
    /\ Sent \subseteq Messages
    /\ \A m \in Sent : m.op.kind = "body" => /\ m.op.story \in Stories
                                             /\ m.op.content \in Contents
    /\ MaxRevision \in Nat \ {0}
    /\ DiskFails \in BOOLEAN
    /\ Receiver \in {"absent", "honest", "foreign"}

NoMessage == [id |-> NoID,
              op |-> [kind |-> "invalid", stories |-> {},
                      story |-> NoStory, content |-> NoContent]]

\* SourceSnapshot: content has the stories of a complete active rundown.
Snapshots == [revision : 0 .. MaxRevision,
              flags    : SUBSET {"active", "complete"},
              content  : [Stories -> Body]]

NoBody == [t \in Stories |-> NoContent]

NoSnapshot == [revision |-> 0, flags |-> {}, content |-> NoBody]

\* InputReceipt; direction tells replies to our requests (silent) apart.
Keys == [scope : Scopes, id : IDs \ {NoID}, direction : {"request", "response"}]

Receipts == [key : Keys, op : AllOps, reply : {"OK", "NACK"}]

\* SourceCheckpoint with the sourceState inside it.
Checkpoints == [flags    : SUBSET {"active", "rosterFresh", "halted"},
                stories  : SUBSET Stories,
                fresh    : SUBSET Stories,
                content  : [Stories -> Body],
                pending  : Snapshots,
                accepted : 0 .. MaxRevision,
                receipts : SUBSET Receipts]

NewCheckpoint == [flags |-> {}, stories |-> {}, fresh |-> {},
                  content |-> NoBody, pending |-> NoSnapshot,
                  accepted |-> 0, receipts |-> {}]

Handlers == [pc : {"idle", "apply"}, msg : Messages, reply : {"none"}]
            \cup [pc : {"reply"}, msg : Messages, reply : {"OK", "NACK"}]

Idle == [pc |-> "idle", msg |-> NoMessage, reply |-> "none"]

Resting == [pc |-> "idle", copy |-> NoSnapshot]

VARIABLES
    store,      \* "down", "ok", or "degraded" after a failed save
    cp,         \* the checkpoint in memory
    disk,       \* the checkpoint file
    session,    \* per connection: "none", "live", or "late" past its timeout
    owner,      \* per scope: the connection whose input counts
    handler,    \* per connection: what its goroutine is doing
    publisher,  \* [pc, copy]: the publisher and the body it posts
    held,       \* the receiver's latest snapshot
    answered,   \* history: replies the newsroom got to identified messages
    applied,    \* history: identified messages whose effect is on disk
    twice,      \* history: those whose effect was put there twice
    heard       \* history: what the newsroom sent since continuity was lost

vars == <<store, cp, disk, session, owner, handler, publisher, held,
          answered, applied, twice, heard>>

peers == <<session, owner, handler>>
history == <<answered, applied, twice>>

\* A message's identity for replay.
Key(s, m) == [scope |-> ScopeOf[s], id |-> m.id,
              direction |-> IF m.op.kind = "list" THEN "response" ELSE "request"]

Heard == [roster  : {"unknown", "listed", "deleted"},
          stories : SUBSET Stories,
          content : [Stories -> Body]]

Silence == [roster |-> "unknown", stories |-> {}, content |-> NoBody]

TypeOK ==
    /\ store \in {"down", "ok", "degraded"}
    /\ cp \in Checkpoints
    /\ disk \in Checkpoints
    /\ session \in [Sessions -> {"none", "live", "late"}]
    /\ owner \in [Scopes -> Sessions \cup {NoSession}]
    /\ handler \in [Sessions -> Handlers]
    /\ publisher \in [pc : {"idle", "posting", "accepted", "conflict"},
                      copy : Snapshots]
    /\ held \in Snapshots
    /\ answered \subseteq Receipts
    /\ applied \subseteq Keys
    /\ twice \subseteq Keys
    /\ heard \in Heard

\* An initialised state directory (--initialize-source-state), not yet used.
Init ==
    /\ store = "down"
    /\ cp = NewCheckpoint
    /\ disk = NewCheckpoint
    /\ session = [s \in Sessions |-> "none"]
    /\ owner = [c \in Scopes |-> NoSession]
    /\ handler = [s \in Sessions |-> Idle]
    /\ publisher = Resting
    /\ held = NoSnapshot
    /\ answered = {}
    /\ applied = {}
    /\ twice = {}
    /\ heard = Silence

-----------------------------------------------------------------------------
(* Operators on a checkpoint.                                              *)

\* Mutant of Complete: the roster alone is taken for coverage.
CompleteWithoutBodies(c) == "rosterFresh" \in c.flags

Complete(c) == "rosterFresh" \in c.flags /\ c.stories \subseteq c.fresh

\* The snapshot revise builds: stories only when complete and active, and
\* an incomplete one when the content is outside the publication limits.
Projection(c, revision) ==
    LET shown == IF Complete(c) /\ "active" \in c.flags
                    THEN c.content ELSE NoBody
        fits  == \A t \in Stories : shown[t] \notin OutsideLimits
    IN [revision |-> revision,
        flags    |-> (c.flags \cap {"active"})
                     \cup (IF Complete(c) /\ fits THEN {"complete"} ELSE {}),
        content  |-> IF fits THEN shown ELSE NoBody]

\* Mutant of Revise: the revision is bumped only when coverage is complete.
ReviseInPlace(c) ==
    [c EXCEPT !.pending = Projection(c,
        IF Complete(c) THEN c.pending.revision + 1 ELSE c.pending.revision)]

Revise(c) == [c EXCEPT !.pending = Projection(c, c.pending.revision + 1)]

\* Mutant of Exhausted: the limit is noticed one revision late.
ExhaustedLate(c) == c.pending.revision > MaxRevision

Exhausted(c) == c.pending.revision = MaxRevision

Unfreshened(c) == [c EXCEPT !.flags = c.flags \ {"rosterFresh"}, !.fresh = {}]

\* Mutant of Invalidatable: a halted source may still be invalidated.
InvalidatableHalted(c) == ~Exhausted(c)

\* invalidate refuses a halted source, and revise an exhausted one.
Invalidatable(c) == "halted" \notin c.flags /\ ~Exhausted(c)

Invalidated(c) == Revise(Unfreshened(c))

\* applyRoster: held stories keep their content, but nobody's is fresh.
WithRoster(c, op) ==
    [c EXCEPT !.flags   = c.flags \cup {"active", "rosterFresh"},
              !.stories = op.stories,
              !.fresh   = {},
              !.content = [t \in Stories |-> IF t \in op.stories \cap c.stories
                                                THEN c.content[t] ELSE NoContent]]

\* applyBody
WithBody(c, op) ==
    [c EXCEPT !.fresh = c.fresh \cup {op.story},
              !.content = [c.content EXCEPT ![op.story] = op.content]]

\* roDelete
Deleted(c) ==
    [c EXCEPT !.flags   = (c.flags \ {"active"}) \cup {"rosterFresh"},
              !.stories = {}, !.fresh = {}, !.content = NoBody]

\* What applyMessage accepts.  A body needs a fresh roster that lists it; a
\* note is about the rundown, which has to be held.
Applicable(c, op) ==
    \/ op.kind \in {"roster", "list", "delete"}
    \/ op.kind = "body" /\ {"active", "rosterFresh"} \subseteq c.flags
                        /\ op.story \in c.stories
    \/ op.kind = "note" /\ "active" \in c.flags

Applied(c, op) ==
    CASE op.kind \in {"roster", "list"} -> WithRoster(c, op)
      [] op.kind = "body"               -> WithBody(c, op)
      [] op.kind = "delete"             -> Deleted(c)
      [] OTHER                          -> c

\* rememberSource: the reply is retained if the message has an identifier.
Remember(c, s, m, reply) ==
    IF m.id = NoID THEN c
    ELSE [c EXCEPT !.receipts = c.receipts \cup
             {[key |-> Key(s, m), op |-> m.op, reply |-> reply]}]

\* Mutant of Prior: receipts are not consulted.
NoPrior(c, s, m) == {}

\* The receipts of an earlier message with this identity.
Prior(c, s, m) ==
    IF m.id = NoID THEN {} ELSE {r \in c.receipts : r.key = Key(s, m)}

-----------------------------------------------------------------------------
(* Commit: the file and then memory, or a failure that degrades the store. *)

\* Mutant of Committed: memory moves on before the file does.
CommittedInMemory(new) ==
    /\ cp' = new
    /\ UNCHANGED <<store, disk>>

Committed(new) ==
    /\ cp' = new
    /\ disk' = new
    /\ UNCHANGED store

SaveFailed(new) ==
    /\ DiskFails
    /\ disk' \in {disk, new}
    /\ store' = "degraded"
    /\ UNCHANGED cp

\* invalidate, where its error is of no consequence.
TryInvalidate ==
    IF store = "ok" /\ Invalidatable(cp)
    THEN Committed(Invalidated(cp)) \/ SaveFailed(Invalidated(cp))
    ELSE UNCHANGED <<store, cp, disk>>

-----------------------------------------------------------------------------
(* Connections.                                                            *)

\* The source is opened: what the file claims is no longer covered.
Start ==
    /\ store = "down"
    /\ Invalidatable(disk)
    /\ cp' = Invalidated(disk)
    /\ disk' = Invalidated(disk)
    /\ store' = "ok"
    /\ heard' = Silence
    /\ UNCHANGED <<peers, publisher, held, history>>

\* Opening fails, and the process exits.
StartFails ==
    /\ DiskFails
    /\ store = "down"
    /\ Invalidatable(disk)
    /\ disk' = Invalidated(disk)
    /\ UNCHANGED <<store, cp, peers, publisher, held, history, heard>>

\* Observe lets the owner of a scope on without further ado...
Seen(s) == session[s] = "live" /\ owner[ScopeOf[s]] = s

\* ...and a connection that is new, or back after its timeout, once what the
\* earlier one covered is invalidated.  A superseded one is refused.
Validated(s) ==
    \/ session[s] = "none"
    \/ session[s] = "late" /\ owner[ScopeOf[s]] = s

Receive(s) ==
    /\ handler[s].pc = "idle"
    /\ \E m \in Sent :
          handler' = [handler EXCEPT ![s] =
             [pc |-> "apply", msg |-> m, reply |-> "none"]]

Observe(s) ==
    /\ store # "down"
    /\ Seen(s)
    /\ Receive(s)
    /\ UNCHANGED <<store, cp, disk, session, owner, publisher, held,
                   history, heard>>

ObserveNew(s) ==
    /\ store = "ok"
    /\ Validated(s)
    /\ Invalidatable(cp)
    /\ heard' = Silence
    /\ \/ /\ Committed(Invalidated(cp))
          /\ owner' = [owner EXCEPT ![ScopeOf[s]] = s]
          /\ session' = [session EXCEPT ![s] = "live"]
          /\ Receive(s)
       \/ /\ SaveFailed(Invalidated(cp))
          /\ UNCHANGED peers
    /\ UNCHANGED <<publisher, held, history>>

\* The connection is silent for longer than the peer timeout (neither
\* Observe nor RefreshSession has renewed it).
SessionExpires(s) ==
    /\ session[s] = "live"
    /\ session' = [session EXCEPT ![s] = "late"]
    /\ UNCHANGED <<store, cp, disk, owner, handler, publisher, held,
                   history, heard>>

Owns(s) == \E c \in Scopes : owner[c] = s

Released(gone) ==
    [c \in Scopes |-> IF owner[c] \in gone THEN NoSession ELSE owner[c]]

Disconnected(s) ==
    /\ store # "down"
    /\ session[s] # "none"
    /\ session' = [session EXCEPT ![s] = "none"]
    /\ owner' = Released({s})
    /\ IF Owns(s) THEN TryInvalidate /\ heard' = Silence
                  ELSE UNCHANGED <<store, cp, disk, heard>>
    /\ UNCHANGED <<handler, publisher, held, history>>

\* A malformed frame, or a foreign identity, on the owner's connection.
Uncertain(s) ==
    /\ store # "down"
    /\ Owns(s)
    /\ TryInvalidate
    /\ heard' = Silence
    /\ UNCHANGED <<peers, publisher, held, history>>

-----------------------------------------------------------------------------
(* Apply and the reply.                                                    *)

\* What the newsroom has now said, if op is applied.
Hear(op) ==
    CASE op.kind \in {"roster", "list"} ->
            [roster |-> "listed", stories |-> op.stories, content |-> NoBody]
      [] op.kind = "delete" ->
            [roster |-> "deleted", stories |-> {}, content |-> NoBody]
      [] op.kind = "body" ->
            [heard EXCEPT !.content = [heard.content EXCEPT ![op.story] = op.content]]
      [] OTHER -> heard

\* The effect of an identified message reaches the disk.
RecordApplied(s, m) ==
    /\ applied' = applied \cup (IF m.id = NoID THEN {} ELSE {Key(s, m)})
    /\ twice' = twice \cup (applied \cap {Key(s, m)})

ReplyWith(s, reply) ==
    handler' = [handler EXCEPT ![s].pc = "reply", ![s].reply = reply]

\* The connection is not, or no longer, the one that counts; or the store is
\* unavailable; or the source is halted.
Refusable(s) ==
    \/ session[s] = "none" \/ owner[ScopeOf[s]] # s
    \/ store # "ok"
    \/ "halted" \in cp.flags

Refuse(s) ==
    /\ handler[s].pc = "apply"
    /\ Refusable(s)
    /\ ReplyWith(s, "NACK")
    /\ UNCHANGED <<store, cp, disk, session, owner, publisher, held,
                   history, heard>>

\* An identical retry gets the reply of the first attempt, and nothing else.
Replay(s) ==
    LET m == handler[s].msg IN
    /\ handler[s].pc = "apply"
    /\ ~Refusable(s)
    /\ \E r \in Prior(cp, s, m) : r.op = m.op /\ ReplyWith(s, r.reply)
    /\ UNCHANGED <<store, cp, disk, session, owner, publisher, held,
                   history, heard>>

Retain(s) ==
    LET m   == handler[s].msg
        new == Remember(Revise(Applied(cp, m.op)), s, m, "OK")
    IN
    /\ handler[s].pc = "apply"
    /\ ~Refusable(s)
    /\ Prior(cp, s, m) = {}
    /\ Applicable(cp, m.op)
    /\ ~Exhausted(cp)
    /\ heard' = Hear(m.op)
    /\ \/ /\ Committed(new)
          /\ ReplyWith(s, "OK")
          /\ RecordApplied(s, m)
       \/ /\ SaveFailed(new)
          /\ ReplyWith(s, "NACK")
          /\ IF disk' = new THEN RecordApplied(s, m) ELSE UNCHANGED <<applied, twice>>
    /\ UNCHANGED <<session, owner, publisher, held, answered>>

\* A conflicting messageID or a message that cannot be applied: coverage is
\* lost, and the refusal is retained (but for a conflict).
Reject(s) ==
    LET m        == handler[s].msg
        conflict == Prior(cp, s, m) # {}
        lost     == Invalidated(cp)
        new      == IF conflict THEN lost ELSE Remember(lost, s, m, "NACK")
    IN
    /\ handler[s].pc = "apply"
    /\ ~Refusable(s)
    /\ \A r \in Prior(cp, s, m) : r.op # m.op
    /\ conflict \/ ~Applicable(cp, m.op) \/ Exhausted(cp)
    /\ ReplyWith(s, "NACK")
    /\ heard' = Silence
    /\ IF Exhausted(cp) THEN UNCHANGED <<store, cp, disk>>
                        ELSE Committed(new) \/ SaveFailed(new)
    /\ UNCHANGED <<session, owner, publisher, held, history>>

\* The reply is sent; it may be lost, and a roList has none.
Reply(s) ==
    LET h == handler[s] IN
    /\ h.pc = "reply"
    /\ handler' = [handler EXCEPT ![s] = Idle]
    /\ answered' \in {answered} \cup
          (IF h.msg.id = NoID \/ h.msg.op.kind = "list" THEN {}
           ELSE {answered \cup {[key |-> Key(s, h.msg), op |-> h.msg.op,
                                 reply |-> h.reply]}})
    /\ UNCHANGED <<store, cp, disk, session, owner, publisher, held,
                   applied, twice, heard>>

-----------------------------------------------------------------------------
(* The publisher and the receiver.                                         *)

Late == {s \in Sessions : session[s] = "late"}

\* publishOnce, first locked part: expired connections are swept, and the
\* latest committed body is taken.  RunPublisher runs it when it is woken
\* and on a timer, so at any time, until the source is halted.
PublishOnce ==
    LET lost  == \E s \in Late : Owns(s)
        fails == store # "ok" \/ (lost /\ Exhausted(cp))
    IN
    /\ publisher.pc = "idle"
    /\ store # "down"
    /\ "halted" \notin cp.flags
    /\ session' = [s \in Sessions |-> IF s \in Late THEN "none" ELSE session[s]]
    /\ owner' = Released(Late)
    /\ heard' = IF lost THEN Silence ELSE heard
    /\ \/ /\ ~fails
          /\ IF lost THEN Committed(Invalidated(cp)) ELSE UNCHANGED <<store, cp, disk>>
          /\ publisher' = [pc |-> "posting", copy |-> cp'.pending]
       \/ /\ ~fails /\ lost
          /\ SaveFailed(Invalidated(cp))
          /\ UNCHANGED publisher
       \/ /\ fails
          /\ UNCHANGED <<store, cp, disk, publisher>>
    /\ UNCHANGED <<handler, held, history>>

\* External: the receiver takes a newer revision or the one it holds, and
\* answers anything else with HTTP 409.
Acceptable(body) == body.revision > held.revision \/ body = held

\* The body is posted; the request or its answer may be lost.
PostAccepted ==
    /\ publisher.pc = "posting"
    /\ Receiver # "absent"
    /\ Acceptable(publisher.copy)
    /\ held' = publisher.copy
    /\ publisher' = [publisher EXCEPT !.pc = "accepted"]
    /\ UNCHANGED <<store, cp, disk, peers, history, heard>>

PostRefused ==
    /\ publisher.pc = "posting"
    /\ \/ Receiver = "foreign"
       \/ Receiver = "honest" /\ ~Acceptable(publisher.copy)
    /\ publisher' = [publisher EXCEPT !.pc = "conflict"]
    /\ UNCHANGED <<store, cp, disk, peers, held, history, heard>>

PostLost ==
    /\ publisher.pc \in {"posting", "accepted", "conflict"}
    /\ publisher' = Resting
    /\ UNCHANGED <<store, cp, disk, peers, held, history, heard>>

\* Mutants of Current: any receipt is taken for the latest revision's; a
\* receipt is compared with the revision already accepted.
CurrentAlways(body) == TRUE
CurrentAccepted(body) == cp.accepted = body.revision

\* The receipt is for the body that is still the latest.
Current(body) == cp.pending = body

\* publishOnce, last locked part.
Accept ==
    LET new == [cp EXCEPT !.accepted = cp.pending.revision] IN
    /\ publisher.pc = "accepted"
    /\ publisher' = Resting
    /\ IF /\ store = "ok"
          /\ Current(publisher.copy)
          /\ cp.accepted # cp.pending.revision
       THEN Committed(new) \/ SaveFailed(new)
       ELSE UNCHANGED <<store, cp, disk>>
    /\ UNCHANGED <<peers, held, history, heard>>

\* halt: the source stops, without a new revision.
Halt ==
    LET new == [cp EXCEPT !.flags = cp.flags \cup {"halted"}] IN
    /\ publisher.pc = "conflict"
    /\ publisher' = Resting
    /\ IF store = "ok" THEN Committed(new) \/ SaveFailed(new)
                       ELSE UNCHANGED <<store, cp, disk>>
    /\ UNCHANGED <<peers, held, history, heard>>

\* The process dies; the file and the receiver remain.
Crash ==
    /\ store # "down"
    /\ store' = "down"
    /\ session' = [s \in Sessions |-> "none"]
    /\ owner' = [c \in Scopes |-> NoSession]
    /\ handler' = [s \in Sessions |-> Idle]
    /\ publisher' = Resting
    /\ heard' = Silence
    /\ cp' = NewCheckpoint
    /\ UNCHANGED <<disk, held, history>>

Step(s) ==
    \/ Observe(s) \/ ObserveNew(s) \/ SessionExpires(s)
    \/ Disconnected(s) \/ Uncertain(s)
    \/ Refuse(s) \/ Replay(s) \/ Retain(s) \/ Reject(s) \/ Reply(s)

Publish == PublishOnce \/ PostAccepted \/ PostRefused \/ PostLost \/ Accept \/ Halt

Next == Start \/ StartFails \/ (\E s \in Sessions : Step(s)) \/ Publish \/ Crash

Spec == Init /\ [][Next]_vars

\* The publisher's timers keep it running (a request is given up after five
\* seconds), and a receiver posted to again and again answers in the end.
Fairness ==
    /\ WF_vars(Publish)
    /\ SF_vars(PostAccepted)
    /\ SF_vars(Accept)

FairSpec == Spec /\ Fairness

-----------------------------------------------------------------------------
(* Properties.                                                             *)

\* A snapshot is complete only if the newsroom itself has sent everything in
\* it since continuity was last lost: the roster, and after the roster the
\* very body of every story in it.  A restart, a new or expired connection, a
\* refused message or a replay never makes what is retained pass for current
\* (revise, invalidate, applyRoster, applyBody, Observe).  A halted source
\* (which is not published) and one out of revisions are past invalidating.
CompleteIsCovered ==
    (/\ store = "ok"
     /\ "complete" \in cp.pending.flags
     /\ "halted" \notin cp.flags /\ ~Exhausted(cp)) =>
        /\ cp.pending.content = heard.content
        /\ \/ "active" \in cp.pending.flags /\ heard.roster = "listed"
           \/ "active" \notin cp.pending.flags /\ heard.roster = "deleted"
        /\ \A t \in heard.stories : heard.content[t] # NoContent

\* What is posted is a revision the receiver has not seen, or the very body
\* it holds: it never gets two bodies under one revision, nor an older one,
\* whatever failed saves, crashes and restarts come between (Commit,
\* publishOnce, the invalidation at startup).
PostsForward == publisher.pc = "posting" => Acceptable(publisher.copy)

\* A revision is recorded as accepted only once the receiver has taken it: a
\* late answer never marks a newer one (publishOnce).
AcceptedWasReceived == disk.accepted <= held.revision

\* The latest revision is accepted in the end, again and again, while the
\* source runs: no wake-up, lost request or late answer leaves the receiver
\* behind for good (RunPublisher, publishOnce).
LatestIsAccepted ==
    []<>(\/ store # "ok"
         \/ "halted" \in cp.flags
         \/ cp.accepted = cp.pending.revision)

\* A positive reply reaches the newsroom only when its receipt is durable.
OKIsDurable ==
    \A a \in answered : a.reply = "OK" => a \in disk.receipts

\* No identified message takes effect twice, however it is retried: on
\* another connection, after a lost reply, or after a restart (Apply).
AppliedOnce == twice = {}

\* A message is never refused for good and accepted later: the reply that
\* its receipt holds is the one every retry gets (rememberSource).
OneReceiptPerMessage ==
    \A q, r \in disk.receipts : q.key = r.key => q = r

\* A halted source is frozen: revision, content and receipts stay as they
\* were, across reconnects and restarts (halt, invalidate).
HaltedIsFrozen == [][("halted" \in disk.flags) => disk' = disk]_vars

=============================================================================
