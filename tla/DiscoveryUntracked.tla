-------------------------- MODULE DiscoveryUntracked --------------------------
(***************************************************************************)
(* Discovery without a catalogue-enabled source: dispatchRunningOrder of   *)
(* internal/server/dispatch_ro.go drives the walk without registering its  *)
(* requests.  Any message first gives the walk a nudge; an applied roList  *)
(* settles the request in flight whoever asked for it, a roListAll queues  *)
(* what it lists, and a message about an unknown running order puts it at  *)
(* the front.  A request that cannot be sent is only logged: the walk's    *)
(* deadline is what moves it on.                                           *)
(*                                                                         *)
(* The peer's messages are free; only its regular Profile 0 traffic is     *)
(* assumed to keep coming.                                                 *)
(***************************************************************************)
EXTENDS DiscoveryWalk

CONSTANTS MaxEvents    \* bound: lists and divergences the peer sends

ASSUME UntrackedAssumption == MaxEvents \in Nat /\ Attempts # {}

VARIABLES
    walk,      \* the shared discoveryWalk
    handler,   \* per connection: [pc, kind, ro, target]
    wanted,    \* history: queued and not handed to a connection since
    events     \* lists and divergences so far

vars == <<walk, handler, wanted, events>>

Handlers == [pc     : {"idle", "advance", "handle", "send", "last"},
             kind   : {"traffic", "roster", "catalogue", "unknown"},
             ro     : Targets,
             target : Targets]

Idle == [pc |-> "idle", kind |-> "traffic", ro |-> NoRO, target |-> NoRO]

TypeOK ==
    /\ walk \in Walks
    /\ handler \in [Sessions -> Handlers]
    /\ wanted \subseteq ROs
    /\ events \in 0 .. MaxEvents

Init ==
    /\ walk = EmptyWalk
    /\ handler = [s \in Sessions |-> Idle]
    /\ wanted = {}
    /\ events = 0

\* The one identity requests need here: nothing refers to them.
Attempt == CHOOSE a \in Attempts : TRUE

-----------------------------------------------------------------------------

\* A message arrives; dispatchRunningOrder runs advanceWalk before it.
Receive(s, kind, ro) ==
    /\ handler[s].pc = "idle"
    /\ handler' = [handler EXCEPT ![s] =
          [pc |-> "advance", kind |-> kind, ro |-> ro, target |-> NoRO]]
    /\ UNCHANGED <<walk, wanted>>

Traffic(s) == Receive(s, "traffic", NoRO) /\ UNCHANGED events

Event(s) ==
    /\ events < MaxEvents
    /\ events' = events + 1
    /\ \/ \E ro \in ROs, kind \in {"roster", "unknown"} : Receive(s, kind, ro)
       \/ Receive(s, "catalogue", NoRO)

\* The walk returned: send what it asked for, or go on at once.
Continue(s, result, pcSend, pcOn) ==
    /\ walk' = result.walk
    /\ \/ /\ result.ask = {}
          /\ handler' = [handler EXCEPT ![s] =
                IF pcOn = "idle" THEN Idle ELSE [@ EXCEPT !.pc = pcOn]]
       \/ \E t \in result.ask :
             handler' = [handler EXCEPT ![s].pc = pcSend, ![s].target = t]

Advance(s) ==
    /\ handler[s].pc = "advance"
    /\ Continue(s, Nudge(walk, Attempt), "send", "handle")
    /\ UNCHANGED <<wanted, events>>

\* handleListAll: the list may exceed the bound, and the rest is dropped; it
\* may repeat a running order or name none.
HandleListAll(s) ==
    /\ handler[s].pc = "handle"
    /\ handler[s].kind = "catalogue"
    /\ \E n \in 0 .. MaxQueue + 1 : \E roIDs \in [1 .. n -> Targets] :
       \E m \in 0 .. n : \E queue \in [1 .. m -> Targets] :
          LET result == Begin(walk, queue, Attempt) IN
          /\ IsRefreshed(queue, walk, roIDs)
          /\ Continue(s, result, "last", "idle")
          /\ wanted' = Members(Truncated(queue))
    /\ UNCHANGED events

\* handleList, when the list could be applied.
HandleList(s) ==
    /\ handler[s].pc = "handle"
    /\ handler[s].kind = "roster"
    /\ Continue(s, Resolved(walk, handler[s].ro, Attempt), "last", "idle")
    /\ UNCHANGED <<wanted, events>>

\* handleStorySend and its kind, on a running order that is not held, when
\* the resync guard lets the request through.
HandleUnknown(s) ==
    /\ handler[s].pc = "handle"
    /\ handler[s].kind = "unknown"
    /\ LET result == EnqueueUrgent(walk, handler[s].ro, Attempt) IN
       /\ Continue(s, result, "last", "idle")
       /\ wanted' = IF result.walk = walk THEN wanted
                    ELSE wanted \cup {handler[s].ro}
    /\ UNCHANGED events

\* Nothing for the walk: other traffic, a list that could not be applied, a
\* divergence the guard holds back.
HandleOther(s) ==
    /\ handler[s].pc = "handle"
    /\ handler[s].kind # "catalogue"
    /\ handler' = [handler EXCEPT ![s] = Idle]
    /\ UNCHANGED <<walk, wanted, events>>

\* sendDiscoveryReq: written, or logged as not sent; the walk is not told.
Send(s) ==
    /\ handler[s].pc \in {"send", "last"}
    /\ handler' = [handler EXCEPT ![s] =
          IF @.pc = "last" THEN Idle
          ELSE [@ EXCEPT !.pc = "handle", !.target = NoRO]]
    /\ wanted' = wanted \ {handler[s].target}
    /\ UNCHANGED <<walk, events>>

DeadlinePasses ==
    /\ Busy(walk)
    /\ walk.deadline = "ahead"
    /\ walk' = [walk EXCEPT !.deadline = "passed"]
    /\ UNCHANGED <<handler, wanted, events>>

Handle(s) ==
    \/ Advance(s) \/ HandleListAll(s) \/ HandleList(s) \/ HandleUnknown(s)
    \/ HandleOther(s) \/ Send(s)

Next == \/ \E s \in Sessions : Traffic(s) \/ Event(s) \/ Handle(s)
        \/ DeadlinePasses

\* Goroutines run, time passes, and Profile 0 traffic keeps arriving.
Fairness ==
    /\ \A s \in Sessions : WF_vars(Traffic(s)) /\ WF_vars(Handle(s))
    /\ WF_vars(DeadlinePasses)

Spec == Init /\ [][Next]_vars /\ Fairness

-----------------------------------------------------------------------------

\* Every running order the NCS advertised or recovery queued is asked for,
\* or dropped by a later list, even if no request is ever answered or even
\* sent: the walk drains and comes to rest (nudge, resolved, takeLocked).
WalkDrains == <>[](~Busy(walk) /\ walk.pending = <<>> /\ wanted = {})

\* What is still to be asked for is in the queue, or its request is in a
\* goroutine's hands: nothing falls between the walk and the connections.
NothingForgotten ==
    wanted \subseteq Members(walk.pending) \cup {handler[s].target : s \in Sessions}

=============================================================================
