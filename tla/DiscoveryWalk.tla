---------------------------- MODULE DiscoveryWalk ----------------------------
(***************************************************************************)
(* The queue of internal/server/discovery.go that sequences discovery: one *)
(* roReqAll or one roReq outstanding at a time, the rest waiting.          *)
(*                                                                         *)
(* Every method of discoveryWalk holds its mutex, so each is one function  *)
(* from the walk to a result: the new walk, the request the caller must    *)
(* now send (ask, empty for ok = false) and whether persistLocked ran.     *)
(* A running order is a member of ROs; NoRO is the empty string, which as  *)
(* the target of a request stands for roReqAll.  A discoveryRequest is a   *)
(* record whose attempt is the identity its pointer gives it; NoAttempt is *)
(* the nil pointer.  Boolean fields are kept as sets of the flags that are *)
(* set: catalogue holds "pending" for cataloguePending and "inFlight" for  *)
(* catalogueInFlight, marks holds "replying" and "expired".                *)
(***************************************************************************)
EXTENDS Integers, Sequences, FiniteSets

CONSTANTS ROs,        \* running orders
          NoRO,       \* the empty roID
          Attempts,   \* identities of request attempts
          NoAttempt,  \* the nil request
          Sessions,   \* connections, by address
          NoSession,  \* the empty session of an unregistered request
          MaxQueue,   \* bound on the queue (repository.MaxSourceMembers)
          Native      \* TRUE on the MOS 2.x socket, FALSE on MOS 4

ASSUME WalkAssumption ==
    /\ NoRO \notin ROs
    /\ Attempts \subseteq Nat
    /\ NoAttempt \notin Attempts
    /\ NoSession \notin Sessions
    /\ MaxQueue \in Nat \ {0}
    /\ Native \in BOOLEAN

Targets == ROs \cup {NoRO}

Members(s) == {s[i] : i \in DOMAIN s}

Requests == [attempt : Attempts \cup {NoAttempt},
             target  : Targets,
             session : Sessions \cup {NoSession},
             marks   : SUBSET {"replying", "expired"}]

Walks == [pending   : Seq(ROs),
          inFlight  : Targets,
          catalogue : SUBSET {"pending", "inFlight"},
          request   : Requests,
          deadline  : {"ahead", "passed"}]

NewRequest(target, attempt) ==
    [attempt |-> attempt, target |-> target,
     session |-> NoSession, marks |-> {}]

NoRequest == NewRequest(NoRO, NoAttempt)

\* newDiscoveryWalk
EmptyWalk == [pending |-> <<>>, inFlight |-> NoRO, catalogue |-> {},
              request |-> NoRequest, deadline |-> "passed"]

Busy(w) == w.inFlight # NoRO \/ "inFlight" \in w.catalogue

\* What persistLocked writes: the request in flight goes back to the front.
Work(w) == [pending   |-> IF w.inFlight = NoRO
                             THEN w.pending
                             ELSE <<w.inFlight>> \o w.pending,
            catalogue |-> IF w.catalogue = {} THEN {} ELSE {"pending"}]

\* openDiscoveryWalk: the saved work, cut to the bound.
Load(work) ==
    [EmptyWalk EXCEPT
        !.pending = IF Len(work.pending) > MaxQueue
                       THEN SubSeq(work.pending, 1, MaxQueue)
                       ELSE work.pending,
        !.catalogue = work.catalogue]

-----------------------------------------------------------------------------
(* Results of a method.                                                    *)

Quiet(w)    == [walk |-> w, ask |-> {}, saved |-> "no"]
Saved(w)    == [walk |-> w, ask |-> {}, saved |-> "yes"]

\* Mutant of Ask: taking work off the queue does not save.
AskUnsaved(w, t) == [walk |-> w, ask |-> {t}, saved |-> "no"]

Ask(w, t)   == [walk |-> w, ask |-> {t}, saved |-> "yes"]

\* takeLocked: the catalogue first, then the head of the queue.
TakeLocked(w, fresh) ==
    IF Busy(w) THEN Quiet(w)
    ELSE IF "pending" \in w.catalogue
    THEN Ask([w EXCEPT !.catalogue = {"inFlight"},
                       !.request   = NewRequest(NoRO, fresh),
                       !.deadline  = "ahead"], NoRO)
    ELSE IF w.pending = <<>> THEN Quiet(w)
    ELSE Ask([w EXCEPT !.pending  = Tail(w.pending),
                       !.inFlight = Head(w.pending),
                       !.request  = NewRequest(Head(w.pending), fresh),
                       !.deadline = "ahead"], Head(w.pending))

\* Mutant of TakeOrSave: a walk with nothing left to ask is not saved.
TakeOnly(w, fresh) == TakeLocked(w, fresh)

\* "if !ok { persistLocked }", as begin, requestCatalogue, resolved and nudge do
TakeOrSave(w, fresh) ==
    IF TakeLocked(w, fresh).ask = {} THEN Saved(w) ELSE TakeLocked(w, fresh)

-----------------------------------------------------------------------------
(* The methods.                                                            *)

\* begin, first half: an outstanding roReqAll is answered by any roListAll.
CatalogueSettled(w) ==
    [w EXCEPT !.catalogue = {},
              !.request = IF "inFlight" \in w.catalogue THEN NoRequest
                                                        ELSE w.request]

\* The identifiers begin keeps: advertised, not empty, not already asked for.
Listed(w, roIDs) == Members(roIDs) \ {NoRO, w.inFlight}

IsDistinct(q) == \A i, j \in DOMAIN q : q[i] = q[j] => i = j

\* x is met before y when line is read from its front.
MetBefore(line, x, y) ==
    \E i \in DOMAIN line : line[i] = x /\ \A j \in 1 .. i : line[j] # y

\* The queue begin builds: what is listed, once each, unfinished work first
\* and the rest in the order the NCS listed it.
IsRefreshed(queue, w, roIDs) ==
    /\ IsDistinct(queue)
    /\ Members(queue) = Listed(w, roIDs)
    /\ \A i, j \in DOMAIN queue :
          i < j => MetBefore(w.pending \o roIDs, queue[i], queue[j])

Truncated(queue) ==
    IF Len(queue) > MaxQueue THEN SubSeq(queue, 1, MaxQueue) ELSE queue

\* begin, second half: queue is what IsRefreshed describes.
Begin(w, queue, fresh) ==
    TakeOrSave([CatalogueSettled(w) EXCEPT !.pending = Truncated(queue)], fresh)

RequestCatalogue(w, fresh) ==
    IF "inFlight" \in w.catalogue
    THEN IF "expired" \in w.request.marks
            THEN [Quiet(w) EXCEPT !.ask = {NoRO}] ELSE Quiet(w)
    ELSE TakeOrSave([w EXCEPT !.catalogue = w.catalogue \cup {"pending"}], fresh)

\* Mutant of Registrable: a fenced session may be written to again.
RegistrableUnfenced(w, target, session) ==
    /\ w.request.attempt # NoAttempt
    /\ w.request.target = target
    /\ \/ w.request.session = NoSession
       \/ Native /\ "expired" \in w.request.marks

\* registerRequest binds the reserved slot to the session about to be
\* written to.  An expired native request is replaced by a new one, but only
\* for another session; a request already bound is refused.
Registrable(w, target, session) ==
    /\ w.request.attempt # NoAttempt
    /\ w.request.target = target
    /\ \/ w.request.session = NoSession
       \/ Native /\ "expired" \in w.request.marks /\ w.request.session # session

RegisterRequest(w, target, session, fresh) ==
    [w EXCEPT
        !.request = [IF w.request.session = NoSession
                        THEN w.request ELSE NewRequest(target, fresh)
                     EXCEPT !.session = session],
        !.deadline = "ahead"]

\* claimRequest accepts an answer only from the session that was asked, in
\* time, once, and on MOS 4 with the messageID of the request (attempt).
Claimable(w, target, session, attempt) ==
    /\ w.request.attempt # NoAttempt
    /\ w.request.target = target
    /\ w.request.session = session
    /\ w.request.marks = {}
    /\ w.deadline = "ahead"
    /\ Native \/ w.request.attempt = attempt

ClaimRequest(w) == [w EXCEPT !.request.marks = {"replying"}]

ReleaseRequest(w, attempt) ==
    IF w.request.attempt = attempt
    THEN [w EXCEPT !.request.marks = w.request.marks \ {"replying"}] ELSE w

\* failedRequest acts only on the attempt that failed, unless its answer is
\* being applied.
Failable(w, attempt) ==
    w.request.attempt = attempt /\ "replying" \notin w.request.marks

\* Mutant of FailedRequest: a failed roReqAll is put back as a roster.
FailedAsRoster(w) ==
    IF Native
    THEN Saved([w EXCEPT !.request.marks = w.request.marks \cup {"expired"},
                         !.deadline = "passed"])
    ELSE Saved([w EXCEPT !.pending  = <<w.inFlight>> \o w.pending,
                         !.inFlight = NoRO,
                         !.request  = NoRequest])

FailedRequest(w) ==
    IF Native
    THEN Saved([w EXCEPT !.request.marks = w.request.marks \cup {"expired"},
                         !.deadline = "passed"])
    ELSE IF "inFlight" \in w.catalogue
    THEN Saved([w EXCEPT !.catalogue = {"pending"}, !.request = NoRequest])
    ELSE Saved([w EXCEPT !.pending  = <<w.inFlight>> \o w.pending,
                         !.inFlight = NoRO,
                         !.request  = NoRequest])

\* Mutant of EnqueueUrgent: the urgent request displaces the queue.
EnqueueAlone(w, ro, fresh) ==
    IF w.inFlight = ro \/ ro \in Members(w.pending) THEN Quiet(w)
    ELSE TakeLocked([w EXCEPT !.pending = <<ro>>], fresh)

\* enqueueUrgent: to the front, without saving unless it can go at once.
EnqueueUrgent(w, ro, fresh) ==
    IF \/ w.inFlight = ro
       \/ ro \in Members(w.pending)
       \/ Len(w.pending) >= MaxQueue
    THEN Quiet(w)
    ELSE TakeLocked([w EXCEPT !.pending = <<ro>> \o w.pending], fresh)

\* Mutant of Resolved: the slot keeps the request that was answered.
ResolvedKeepsSlot(w, ro, fresh) ==
    IF w.inFlight # ro THEN Quiet(w)
    ELSE TakeOrSave([w EXCEPT !.inFlight = NoRO], fresh)

Resolved(w, ro, fresh) ==
    IF w.inFlight # ro THEN Quiet(w)
    ELSE TakeOrSave([w EXCEPT !.inFlight = NoRO, !.request = NoRequest], fresh)

\* Mutant of Overdue: a slot may expire while its answer is being applied.
OverdueWhileReplying(w) == Busy(w) /\ w.deadline = "passed"

Overdue(w) ==
    /\ Busy(w)
    /\ "replying" \notin w.request.marks
    /\ w.deadline = "passed"

\* Mutant of Nudge: an unanswered request is waited for without a deadline.
NudgeWithoutDeadline(w, fresh) ==
    IF ~Busy(w) THEN TakeLocked(w, fresh) ELSE Quiet(w)

\* nudge: start waiting work, or give up on an overdue request.  A native
\* request stays in the slot, expired; a MOS 4 roster is abandoned and a MOS
\* 4 catalogue goes back to waiting.
Nudge(w, fresh) ==
    IF ~Busy(w) THEN TakeLocked(w, fresh)
    ELSE IF ~Overdue(w) THEN Quiet(w)
    ELSE IF Native /\ w.request.attempt # NoAttempt /\ w.request.session # NoSession
    THEN [Quiet([w EXCEPT !.request.marks = w.request.marks \cup {"expired"}])
             EXCEPT !.ask = {w.inFlight}]
    ELSE TakeOrSave(
            [w EXCEPT !.inFlight = NoRO, !.request = NoRequest,
                      !.catalogue = IF "inFlight" \in w.catalogue
                                       THEN {"pending"} ELSE w.catalogue],
            fresh)

=============================================================================
