--------------------------- MODULE DiscoveryTracked ---------------------------
(***************************************************************************)
(* Discovery under a catalogue-enabled committed source: the callers of    *)
(* the walk in internal/server/source.go, dispatch_ro.go and wsclient.go.  *)
(*                                                                         *)
(* Every connection has one goroutine that handles its messages in turn,   *)
(* and all of them share one walk, so the walk's methods interleave        *)
(* between connections at every call.  handler[s] is what the goroutine of *)
(* connection s is doing.  A request is registered in the walk before it   *)
(* is written; wire holds the requests the peer has received and not yet   *)
(* answered.  A message of the peer is an answer, a refusal, a roster or   *)
(* catalogue nobody asked for, a content message, or other traffic.        *)
(*                                                                         *)
(* Whether the source wants a catalogue, and what Apply makes of a         *)
(* message, belong to the source and are free choices here.                *)
(***************************************************************************)
EXTENDS DiscoveryWalk

CONSTANTS Passive,       \* connections that cannot carry our requests
          Scopes,        \* transport scopes (channel or lane)
          ScopeOf,       \* the scope of each connection
          Dials,         \* TRUE for the MOS 4 client, which opens discovery
          Overlap,       \* TRUE if a connection may come up before the last
                         \* one is gone
          DiskFails,     \* TRUE if writing discovery.json may fail
          Unsolicited,   \* TRUE if the peer sends lists nobody asked for
          MaxUnanswered, \* bound: requests the peer leaves unanswered
          MaxTracked     \* bound of the resync guard (256 in the code)

ASSUME TrackedAssumption ==
    /\ Passive \subseteq Sessions
    /\ ScopeOf \in [Sessions -> Scopes]
    /\ Dials \in BOOLEAN
    /\ Overlap \in BOOLEAN
    /\ DiskFails \in BOOLEAN
    /\ Unsolicited \in BOOLEAN
    /\ MaxUnanswered \in Nat
    /\ MaxTracked \in Nat

VARIABLES
    walk,      \* the shared discoveryWalk
    disk,      \* discovery.json
    mode,      \* "durable", or "degraded" once persistLocked has failed
    open,      \* connections that are up
    seen,      \* connections the source knows (CommittedSourceSet.sessions)
    owner,     \* the connection that speaks for each scope (owners)
    handler,   \* what each connection's goroutine is doing
    wire,      \* requests the peer has and has not answered
    recent,    \* running orders the resync guard has let through recently
    urgent,    \* history: queued by recovery and not saved since
    misread    \* history: answers taken for the answer to another request

vars == <<walk, disk, mode, open, seen, owner, handler, wire, recent,
          urgent, misread>>

peers == <<open, seen, owner>>

Kinds == {"none", "catalogue", "roster", "content"}

\* pc: what the goroutine does next.  back: where it goes after sending.
Handlers == [pc      : {"idle", "refresh", "apply", "settle", "register",
                        "write", "failed", "release", "advance"},
             back    : {"idle", "settle", "release", "advance"},
             kind    : Kinds,
             ro      : Targets,
             outcome : {"none", "applied", "recover", "failed"},
             claim   : Attempts \cup {NoAttempt},  \* request being answered
             target  : Targets,                    \* request being sent
             lane    : Sessions \cup {NoSession},  \* connection it goes on
             attempt : Attempts \cup {NoAttempt}]  \* its registration

Idle == [pc |-> "idle", back |-> "idle", kind |-> "none", ro |-> NoRO,
         outcome |-> "none", claim |-> NoAttempt, target |-> NoRO,
         lane |-> NoSession, attempt |-> NoAttempt]

WireRequests == [session : Sessions, target : Targets, attempt : Attempts]

TypeOK ==
    /\ walk \in Walks
    /\ disk \in [pending : Seq(ROs), catalogue : SUBSET {"pending"}]
    /\ mode \in {"durable", "degraded"}
    /\ open \subseteq Sessions
    /\ seen \subseteq Sessions
    /\ owner \in [Scopes -> Sessions \cup {NoSession}]
    /\ handler \in [Sessions -> Handlers]
    /\ wire \subseteq WireRequests
    /\ recent \subseteq ROs
    /\ urgent \subseteq ROs
    /\ misread \subseteq Attempts

Init ==
    /\ walk = EmptyWalk
    /\ disk = Work(EmptyWalk)
    /\ mode = "durable"
    /\ open = {}
    /\ seen = {}
    /\ owner = [c \in Scopes |-> NoSession]
    /\ handler = [s \in Sessions |-> Idle]
    /\ wire = {}
    /\ recent = {}
    /\ urgent = {}
    /\ misread = {}

-----------------------------------------------------------------------------
(* Helpers.                                                                *)

\* The least identity no live request has: a new discoveryRequest with a new
\* messageID.  An identity nothing refers to any more may serve again.
InUse == {walk.request.attempt} \cup {q.attempt : q \in wire}
         \cup {handler[s].attempt : s \in Sessions}
         \cup {handler[s].claim : s \in Sessions}
Fresh == {a \in Attempts \ InUse : \A b \in Attempts \ InUse : a <= b}

\* persistLocked, when the method called it: write and rename, or degrade.
Persisted(result) ==
    \/ /\ result.saved = "no"
       /\ UNCHANGED <<disk, mode, urgent>>
    \/ /\ result.saved = "yes"
       /\ mode = "degraded"
       /\ UNCHANGED <<disk, mode, urgent>>
    \/ /\ result.saved = "yes"
       /\ mode = "durable"
       /\ \/ disk' = Work(result.walk) /\ urgent' = {} /\ UNCHANGED mode
          \/ DiskFails /\ mode' = "degraded" /\ UNCHANGED <<disk, urgent>>

\* A handler on its way to pc; what it read is dead once it is settled.
At(h, pc) == IF pc \in {"idle", "advance", "release"}
                THEN [Idle EXCEPT !.pc = pc, !.claim = h.claim]
                ELSE [h EXCEPT !.pc = pc]

GoTo(s, pc) == handler' = [handler EXCEPT ![s] = At(@, pc)]

\* The walk returned; the goroutine sends what it was told to ask for and
\* then continues at back, or continues at once.
Continue(s, result, back) ==
    /\ walk' = result.walk
    /\ \/ result.ask = {} /\ GoTo(s, back)
       \/ \E t \in result.ask :
             handler' = [handler EXCEPT ![s] =
                [At(@, back) EXCEPT !.pc = "register", !.back = back, !.target = t]]

\* The send is over, one way or the other.
Resume(s) ==
    handler' = [handler EXCEPT ![s] =
       [At(@, handler[s].back) EXCEPT !.target = NoRO, !.lane = NoSession,
                                      !.attempt = NoAttempt]]

\* The connections a request of s can go on: its own, or the request lane.
Lanes(s) == IF s \notin Passive THEN {s} ELSE open \ Passive

-----------------------------------------------------------------------------
(* Connections and the peer.                                               *)

\* A connection comes up; the MOS 4 client asks for the catalogue on it.
\* Its address may be that of an earlier connection that is quite gone.
Connect(s) ==
    /\ s \notin open \cup seen
    /\ handler[s].pc = "idle"
    /\ Overlap \/ \A t \in Sessions : t \notin open /\ handler[t].pc = "idle"
    /\ open' = open \cup {s}
    /\ \/ /\ Dials /\ s \notin Passive
          /\ \E fresh \in Fresh :
                LET result == RequestCatalogue(walk, fresh) IN
                Continue(s, result, "idle") /\ Persisted(result)
       \/ /\ ~Dials \/ s \in Passive
          /\ UNCHANGED <<walk, handler, disk, mode, urgent>>
    /\ UNCHANGED <<seen, owner, wire, recent, misread>>

\* A connection breaks, and what the peer still owed on it is lost.
Disconnect(s) ==
    /\ s \in open
    /\ open' = open \ {s}
    /\ wire' = {q \in wire : q.session # s}
    /\ UNCHANGED <<walk, disk, mode, seen, owner, handler, recent, urgent, misread>>

\* Source.Disconnected, from the goroutine or from whoever closes the
\* connection while the goroutine is still handling a message; or the
\* publisher forgets a connection that has been silent past its timeout,
\* open or not.
Disconnected(s) ==
    /\ s \in seen
    /\ seen' = seen \ {s}
    /\ owner' = [c \in Scopes |-> IF owner[c] = s THEN NoSession ELSE owner[c]]
    /\ UNCHANGED <<walk, disk, mode, open, handler, wire, recent, urgent, misread>>

\* Source.Observe: a new connection takes its scope over, and one that has
\* lost its scope is refused.
Current(s) == s \in seen => owner[ScopeOf[s]] = s

Observe(s) ==
    /\ s \in open
    /\ handler[s].pc = "idle"
    /\ Current(s)
    /\ seen' = seen \cup {s}
    /\ owner' = [owner EXCEPT ![ScopeOf[s]] = s]
    /\ UNCHANGED open

\* The input of a superseded connection is dropped; the MOS 2.x server also
\* closes the connection.
Superseded(s) ==
    /\ s \in open
    /\ handler[s].pc = "idle"
    /\ ~Current(s)
    /\ IF Native
          THEN /\ open' = open \ {s}
               /\ wire' = {q \in wire : q.session # s}
          ELSE /\ \E q \in wire : q.session = s /\ wire' = wire \ {q}
               /\ UNCHANGED open
    /\ UNCHANGED <<walk, disk, mode, seen, owner, handler, recent, urgent, misread>>

\* Profile 0 traffic, or a refusal of request q, which is not routed to it.
Traffic(s) ==
    /\ Observe(s)
    /\ handler' = [handler EXCEPT ![s] =
          [@ EXCEPT !.pc = "refresh", !.back = "advance"]]
    /\ \/ UNCHANGED wire
       \/ \E q \in wire : q.session = s /\ wire' = wire \ {q}
    /\ UNCHANGED <<walk, disk, mode, recent, urgent, misread>>

\* A roListAll (ro = NoRO) or roList arrives on s, answering attempt.
\* Unclaimed, it is only a hint that may ask for the catalogue again.
List(s, ro, attempt) ==
    LET kind == IF ro = NoRO THEN "catalogue" ELSE "roster" IN
    \/ /\ Claimable(walk, ro, s, attempt)
       /\ walk' = ClaimRequest(walk)
       /\ handler' = [handler EXCEPT ![s] =
             [@ EXCEPT !.pc = "apply", !.kind = kind, !.ro = ro,
                       !.claim = walk.request.attempt]]
       /\ misread' = misread \cup
             (IF attempt \in {NoAttempt, walk.request.attempt} THEN {}
                                                               ELSE {attempt})
       /\ UNCHANGED <<disk, mode, urgent>>
    \/ /\ ~Claimable(walk, ro, s, attempt)
       /\ \/ \E fresh \in Fresh :
                LET result == RequestCatalogue(walk, fresh) IN
                Continue(s, result, "advance") /\ Persisted(result)
          \/ /\ GoTo(s, "advance")
             /\ UNCHANGED <<walk, disk, mode, urgent>>
       /\ UNCHANGED misread

Answer(s) ==
    /\ Observe(s)
    /\ \E q \in wire :
          /\ q.session = s
          /\ wire' = wire \ {q}
          /\ List(s, q.target, q.attempt)
    /\ UNCHANGED recent

UnsolicitedList(s) ==
    /\ Unsolicited
    /\ Observe(s)
    /\ \E ro \in Targets : List(s, ro, NoAttempt)
    /\ UNCHANGED <<wire, recent>>

\* Any other source message: roStorySend, roElementAction and the like.
Content(s) ==
    /\ Observe(s)
    /\ \E ro \in ROs :
          handler' = [handler EXCEPT ![s] =
             [@ EXCEPT !.pc = "apply", !.kind = "content", !.ro = ro]]
    /\ UNCHANGED <<walk, disk, mode, wire, recent, urgent, misread>>

-----------------------------------------------------------------------------
(* The handler's own steps.                                                *)

\* refreshCatalogue: if the source wants it and a request can be carried.
Refresh(s) ==
    /\ handler[s].pc = "refresh"
    /\ \/ /\ Lanes(s) # {}
          /\ \E fresh \in Fresh :
                LET result == RequestCatalogue(walk, fresh) IN
                Continue(s, result, handler[s].back) /\ Persisted(result)
       \/ /\ GoTo(s, handler[s].back)
          /\ UNCHANGED <<walk, disk, mode, urgent>>
    /\ UNCHANGED <<peers, wire, recent, misread>>

AfterMessage(h) == IF h.claim = NoAttempt THEN "advance" ELSE "release"

\* Source.Apply runs, and its reply is sent.  A reply that cannot be sent
\* ends the handler; a rundown that is not retained asks for the catalogue.
\* Only the connection that still speaks for its scope gets past the checks.
Outcomes(s) == IF s \in seen /\ Current(s)
                  THEN {"applied", "recover", "failed"} ELSE {"failed"}

Apply(s) ==
    /\ handler[s].pc = "apply"
    /\ \/ GoTo(s, AfterMessage(handler[s]))
       \/ \E outcome \in Outcomes(s) :
             \/ handler' = [handler EXCEPT ![s] =
                   [@ EXCEPT !.pc = "settle", !.outcome = outcome]]
             \/ /\ handler[s].kind # "catalogue"
                /\ handler' = [handler EXCEPT ![s] =
                      [@ EXCEPT !.pc = "refresh", !.back = "settle",
                                !.outcome = outcome]]
    /\ UNCHANGED <<walk, disk, mode, peers, wire, recent, urgent, misread>>

\* handleListAll: roIDs is what the NCS advertises, within the walk's bound
\* (catalogueFits has refused a longer list) and without repetitions (the
\* source has refused those).
SettleCatalogue(s) ==
    /\ handler[s].pc = "settle"
    /\ handler[s].kind = "catalogue"
    /\ handler[s].outcome = "applied"
    /\ \E n \in 0 .. MaxQueue : \E roIDs \in [1 .. n -> ROs] :
       \E m \in 0 .. n : \E queue \in [1 .. m -> ROs] :
       \E fresh \in Fresh :
          LET result == Begin(walk, queue, fresh) IN
          /\ IsDistinct(roIDs)
          /\ IsRefreshed(queue, walk, roIDs)
          /\ Continue(s, result, AfterMessage(handler[s]))
          /\ Persisted(result)
    /\ UNCHANGED <<peers, wire, recent, misread>>

\* An applied roList: the guard forgets it and the walk moves on.
SettleRoster(s) ==
    /\ handler[s].pc = "settle"
    /\ handler[s].kind = "roster"
    /\ handler[s].outcome = "applied"
    /\ recent' = recent \ {handler[s].ro}
    /\ \E fresh \in Fresh :
          LET result == Resolved(walk, handler[s].ro, fresh) IN
          Continue(s, result, AfterMessage(handler[s])) /\ Persisted(result)
    /\ UNCHANGED <<peers, wire, misread>>

\* requestResync: the guard lets a running order through once per interval.
SettleRecover(s) ==
    /\ handler[s].pc = "settle"
    /\ handler[s].outcome = "recover"
    /\ LET ro == handler[s].ro IN
       \/ /\ ro # NoRO /\ ro \notin recent /\ Cardinality(recent) < MaxTracked
          /\ recent' = recent \cup {ro}
          /\ \E fresh \in Fresh :
                LET result == EnqueueUrgent(walk, ro, fresh) IN
                /\ Continue(s, result, AfterMessage(handler[s]))
                /\ IF result.walk # walk /\ result.saved = "no"
                      THEN urgent' = urgent \cup {ro} /\ UNCHANGED <<disk, mode>>
                      ELSE Persisted(result)
       \/ /\ ro = NoRO \/ ro \in recent \/ Cardinality(recent) >= MaxTracked
          /\ GoTo(s, AfterMessage(handler[s]))
          /\ UNCHANGED <<walk, disk, mode, recent, urgent>>
    /\ UNCHANGED <<peers, wire, misread>>

\* The input changed nothing that discovery follows.
SettleNothing(s) ==
    /\ handler[s].pc = "settle"
    /\ \/ handler[s].outcome = "failed"
       \/ handler[s].outcome = "applied" /\ handler[s].kind = "content"
    /\ GoTo(s, AfterMessage(handler[s]))
    /\ UNCHANGED <<walk, disk, mode, peers, wire, recent, urgent, misread>>

\* sendRequest picks the lane, then writeSourceRequest registers the request
\* before it is written; a refused registration writes nothing.
Register(s) ==
    /\ handler[s].pc = "register"
    /\ \/ \E lane \in Lanes(s) :
             LET target == handler[s].target IN
             \/ /\ Registrable(walk, target, lane)
                /\ \E fresh \in Fresh :
                      /\ walk' = RegisterRequest(walk, target, lane, fresh)
                      /\ handler' = [handler EXCEPT ![s] =
                            [@ EXCEPT !.pc = "write", !.lane = lane,
                                      !.attempt = walk'.request.attempt]]
             \/ /\ ~Registrable(walk, target, lane)
                /\ Resume(s)
                /\ UNCHANGED walk
       \/ /\ Lanes(s) = {}
          /\ Resume(s)
          /\ UNCHANGED walk
    /\ UNCHANGED <<disk, mode, peers, wire, recent, urgent, misread>>

\* The bytes go out.  A failed write may still have delivered them.
Write(s) ==
    LET h == handler[s]
        q == [session |-> h.lane, target |-> h.target, attempt |-> h.attempt]
    IN
    /\ h.pc = "write"
    /\ \/ /\ h.lane \in open
          /\ Cardinality(wire) < MaxUnanswered
          /\ wire' = wire \cup {q}
          /\ Resume(s) \/ GoTo(s, "failed")
       \/ /\ GoTo(s, "failed")
          /\ UNCHANGED wire
    /\ UNCHANGED <<walk, disk, mode, peers, recent, urgent, misread>>

WriteFailed(s) ==
    /\ handler[s].pc = "failed"
    /\ Resume(s)
    /\ IF Failable(walk, handler[s].attempt)
          THEN LET result == FailedRequest(walk) IN
               walk' = result.walk /\ Persisted(result)
          ELSE UNCHANGED <<walk, disk, mode, urgent>>
    /\ UNCHANGED <<peers, wire, recent, misread>>

\* defer releaseRequest
Release(s) ==
    /\ handler[s].pc = "release"
    /\ walk' = ReleaseRequest(walk, handler[s].claim)
    /\ handler' = [handler EXCEPT ![s] = [Idle EXCEPT !.pc = "advance"]]
    /\ UNCHANGED <<disk, mode, peers, wire, recent, urgent, misread>>

\* advanceWalk, the last thing every handler does.
Advance(s) ==
    /\ handler[s].pc = "advance"
    /\ \E fresh \in Fresh :
          LET result == Nudge(walk, fresh) IN
          Continue(s, result, "idle") /\ Persisted(result)
    /\ UNCHANGED <<peers, wire, recent, misread>>

-----------------------------------------------------------------------------
(* Time and crashes.                                                       *)

\* The deadline of the outstanding request passes.
DeadlinePasses ==
    /\ Busy(walk)
    /\ walk.deadline = "ahead"
    /\ walk' = [walk EXCEPT !.deadline = "passed"]
    /\ UNCHANGED <<disk, mode, peers, handler, wire, recent, urgent, misread>>

\* The resync interval of a running order is over.
IntervalOver ==
    /\ \E ro \in recent : recent' = recent \ {ro}
    /\ UNCHANGED <<walk, disk, mode, peers, handler, wire, urgent, misread>>

\* The process dies and is started again from discovery.json.
Restart ==
    /\ walk' = Load(disk)
    /\ mode' = "durable"
    /\ open' = {}
    /\ seen' = {}
    /\ owner' = [c \in Scopes |-> NoSession]
    /\ handler' = [s \in Sessions |-> Idle]
    /\ wire' = {}
    /\ recent' = {}
    /\ urgent' = {}
    /\ UNCHANGED <<disk, misread>>

Step(s) ==
    \/ Connect(s) \/ Disconnect(s) \/ Disconnected(s) \/ Superseded(s)
    \/ Traffic(s) \/ Answer(s) \/ UnsolicitedList(s) \/ Content(s)
    \/ Refresh(s) \/ Apply(s)
    \/ SettleCatalogue(s) \/ SettleRoster(s) \/ SettleRecover(s) \/ SettleNothing(s)
    \/ Register(s) \/ Write(s) \/ WriteFailed(s)
    \/ Release(s) \/ Advance(s)

Next == (\E s \in Sessions : Step(s)) \/ DeadlinePasses \/ IntervalOver \/ Restart

Spec == Init /\ [][Next]_vars

-----------------------------------------------------------------------------
(* Properties.                                                             *)

\* One request at a time: the catalogue and a roster are never both in
\* flight, and the slot holds a request exactly while one of them is, for
\* that very target (takeLocked, begin, resolved, nudge, failedRequest).
SlotMatchesFlight ==
    /\ ~(walk.inFlight # NoRO /\ "inFlight" \in walk.catalogue)
    /\ Busy(walk) <=> walk.request.attempt # NoAttempt
    /\ Busy(walk) => walk.request.target = walk.inFlight

\* A late answer is never taken for the answer to a later request: whatever
\* claimRequest accepts was sent in reply to the attempt in the slot.
AnswersOwnRequest == misread = {}

\* A slot is marked as being answered exactly while a goroutine applies the
\* answer to that very request: no timeout, failed write or other connection
\* takes the slot from it, and none leaves a mark behind that nobody holds,
\* which would stop the walk for good.
SlotIsHeld ==
    LET Claims(s) == handler[s].pc # "idle" /\ handler[s].claim # NoAttempt
    IN  /\ \A s \in Sessions : handler[s].pc = "apply" /\ Claims(s) =>
               /\ walk.request.attempt = handler[s].claim
               /\ "replying" \in walk.request.marks
        /\ "replying" \in walk.request.marks =>
               \E s \in Sessions : Claims(s) /\ handler[s].claim = walk.request.attempt

\* No running order waits twice, and the queue stays within its bound but
\* for the one a failed write puts back (failedRequest).
QueueBounded ==
    /\ IsDistinct(Work(walk).pending)
    /\ Len(walk.pending) <= MaxQueue + 1

\* discovery.json holds nothing that is already done: a restart repeats no
\* finished request (persistLocked after every take and at the end).
SavedIsOutstanding ==
    mode = "durable" =>
        /\ Members(Load(disk).pending) \subseteq Members(Work(walk).pending)
        /\ disk.catalogue \subseteq Work(walk).catalogue

\* Every running order still to be fetched is in discovery.json, but for
\* those recovery queued behind a request in flight.
AdvertisedIsSaved ==
    mode = "durable" =>
        Members(Work(walk).pending) \subseteq Members(disk.pending) \cup urgent

=============================================================================
