----------------------- MODULE DiscoveryUntrackedProofs -----------------------
(***************************************************************************)
(* What is proved of discovery without a committed source, for every       *)
(* number of connections and running orders and every queue bound: whatever*)
(* has to be asked for is in the queue or in a goroutine's hands.          *)
(*                                                                         *)
(* The argument: a method of the walk takes a running order off the queue  *)
(* only to return it, except that begin replaces the queue, and with it    *)
(* what is wanted; and a goroutine that enters the walk has nothing left   *)
(* to send, so what it is given displaces nothing.                         *)
(***************************************************************************)
EXTENDS DiscoveryUntracked, TLAPS

-----------------------------------------------------------------------------
(* Queues.                                                                 *)

\* The members of a queue are running orders.
LEMMA MembersTyped ==
    ASSUME NEW S, NEW q \in Seq(S) PROVE Members(q) \subseteq S
  BY DEF Members

\* The head and the rest are all of a queue.
LEMMA TailMembers ==
    ASSUME NEW S, NEW q \in Seq(S), q # <<>>
    PROVE  /\ Tail(q) \in Seq(S) /\ Head(q) \in S
           /\ Members(q) \subseteq {Head(q)} \cup Members(Tail(q))
<1>1. /\ Tail(q) \in Seq(S) /\ Head(q) = q[1] /\ Head(q) \in S /\ Len(q) \in Nat
      /\ DOMAIN q = 1 .. Len(q) /\ DOMAIN Tail(q) = 1 .. (Len(q) - 1)
      /\ \A i \in 1 .. (Len(q) - 1) : Tail(q)[i] = q[i + 1]
  OBVIOUS
<1>2. ASSUME NEW i \in DOMAIN q, i # 1 PROVE q[i] \in Members(Tail(q))
  <2>1. i - 1 \in DOMAIN Tail(q) /\ Tail(q)[i - 1] = q[i]
    BY <1>1, <1>2
  <2> QED BY <2>1 DEF Members
<1> QED BY <1>1, <1>2 DEF Members

\* A running order put in front, and what was there.
LEMMA ConsMembers ==
    ASSUME NEW S, NEW x \in S, NEW q \in Seq(S)
    PROVE  /\ <<x>> \o q \in Seq(S)
           /\ {x} \cup Members(q) \subseteq Members(<<x>> \o q)
<1> DEFINE c == <<x>> \o q
<1>1. /\ c \in Seq(S) /\ c[1] = x /\ Len(q) \in Nat
      /\ DOMAIN q = 1 .. Len(q) /\ DOMAIN c = 1 .. (Len(q) + 1)
      /\ \A i \in 1 .. Len(q) : c[i + 1] = q[i]
  OBVIOUS
<1> HIDE DEF c
<1>2. ASSUME NEW i \in DOMAIN q PROVE q[i] \in Members(c)
  <2>1. i + 1 \in DOMAIN c /\ c[i + 1] = q[i]
    BY <1>1
  <2> QED BY <2>1 DEF Members
<1>3. x \in Members(c)
  <2>1. 1 \in DOMAIN c
    BY <1>1
  <2> QED BY <1>1, <2>1 DEF Members
<1> QED BY <1>1, <1>2, <1>3 DEF Members, c

-----------------------------------------------------------------------------
(* The methods of the walk.                                                *)

\* A caller is to ask for one thing or for none.
Asks == {{}} \cup {{t} : t \in Targets}

\* A method that started from the queue of w returned result: nothing is
\* missing from the queue but what the caller is to ask for.
Hands(w, result) ==
    /\ result.walk \in Walks
    /\ result.ask \in Asks
    /\ Members(w.pending) \subseteq Members(result.walk.pending) \cup result.ask

\* A new request is a request.
LEMMA RequestTyped ==
    ASSUME NEW t \in Targets, NEW a \in Attempts \cup {NoAttempt}
    PROVE  NewRequest(t, a) \in Requests
  BY DEF NewRequest, Requests

\* The empty slot.
LEMMA NoRequestTyped == NoRequest \in Requests
  BY RequestTyped DEF NoRequest, Targets

\* There is an identity for requests.
LEMMA AttemptTyped == Attempt \in Attempts
  BY UntrackedAssumption DEF Attempt

\* takeLocked hands over the catalogue or the head of the queue.
LEMMA TakeHands ==
    ASSUME NEW w \in Walks, NEW a \in Attempts
    PROVE  Hands(w, TakeLocked(w, a))
<1>1. CASE TakeLocked(w, a) = Quiet(w)
  BY <1>1 DEF Quiet, Hands, Asks
<1>2. CASE ~Busy(w) /\ "pending" \in w.catalogue
  <2> DEFINE req == NewRequest(NoRO, a)
             v == [w EXCEPT !.catalogue = {"inFlight"}, !.request = req, !.deadline = "ahead"]
  <2>1. TakeLocked(w, a) = Ask(v, NoRO) /\ req \in Requests
    BY <1>2, RequestTyped DEF TakeLocked, Targets
  <2> HIDE DEF req
  <2>2. v \in Walks /\ v.pending = w.pending
    BY <2>1 DEF Walks
  <2> HIDE DEF v
  <2> QED BY <2>1, <2>2 DEF Ask, Hands, Targets, Asks
<1>3. CASE ~Busy(w) /\ "pending" \notin w.catalogue /\ w.pending # <<>>
  <2> DEFINE ro == Head(w.pending)
             rest == Tail(w.pending)
             req == NewRequest(ro, a)
             v == [w EXCEPT !.pending = rest, !.inFlight = ro, !.request = req,
                            !.deadline = "ahead"]
  <2>1. TakeLocked(w, a) = Ask(v, ro)
    BY <1>3 DEF TakeLocked
  <2>2. w.pending \in Seq(ROs)
    BY DEF Walks
  <2>3. ro \in ROs /\ rest \in Seq(ROs) /\ Members(w.pending) \subseteq {ro} \cup Members(rest)
    BY <1>3, <2>2, TailMembers
  <2>4. ro \in Targets /\ req \in Requests
    BY <2>3, RequestTyped DEF Targets
  <2> HIDE DEF ro, rest, req
  <2>5. v \in Walks /\ v.pending = rest
    BY <2>3, <2>4 DEF Walks
  <2> HIDE DEF v
  <2> QED BY <2>1, <2>3, <2>4, <2>5 DEF Ask, Hands, Asks
<1>4. Busy(w) \/ ("pending" \notin w.catalogue /\ w.pending = <<>>) => TakeLocked(w, a) = Quiet(w)
  BY DEF TakeLocked
<1> QED BY <1>1, <1>2, <1>3, <1>4

\* The same, when the walk is saved in any case.
LEMMA TakeOrSaveHands ==
    ASSUME NEW w \in Walks, NEW a \in Attempts
    PROVE  Hands(w, TakeOrSave(w, a))
  BY TakeHands DEF TakeOrSave, Saved, Hands, Asks

\* nudge gives up on an overdue request, never on what waits.
LEMMA NudgeHands ==
    ASSUME NEW w \in Walks, NEW a \in Attempts
    PROVE  Hands(w, Nudge(w, a))
<1>0. w.inFlight \in Targets /\ w.request \in Requests /\ w.catalogue \subseteq {"pending", "inFlight"}
  BY DEF Walks
<1>1. CASE ~Busy(w)
  BY <1>1, TakeHands DEF Nudge
<1>2. CASE Busy(w) /\ ~Overdue(w)
  <2>1. Nudge(w, a) = Quiet(w)
    BY <1>2 DEF Nudge
  <2> QED BY <2>1 DEF Quiet, Hands, Asks
<1>3. CASE Busy(w) /\ Overdue(w) /\ Native /\ w.request.attempt # NoAttempt /\ w.request.session # NoSession
  <2> DEFINE marks == w.request.marks \cup {"expired"}
             v == [w EXCEPT !.request.marks = marks]
  <2>1. Nudge(w, a) = [Quiet(v) EXCEPT !.ask = {w.inFlight}] /\ marks \subseteq {"replying", "expired"}
    BY <1>0, <1>3 DEF Nudge, Requests
  <2> HIDE DEF marks
  <2>2. v \in Walks /\ v.pending = w.pending
    BY <1>0, <2>1 DEF Walks, Requests
  <2> HIDE DEF v
  <2>3. Nudge(w, a).walk = v /\ Nudge(w, a).ask = {w.inFlight}
    BY <2>1 DEF Quiet
  <2> QED BY <1>0, <2>2, <2>3 DEF Hands, Asks
<1>4. CASE Busy(w) /\ Overdue(w) /\ ~(Native /\ w.request.attempt # NoAttempt /\ w.request.session # NoSession)
  <2> DEFINE c == IF "inFlight" \in w.catalogue THEN {"pending"} ELSE w.catalogue
             v == [w EXCEPT !.inFlight = NoRO, !.request = NoRequest, !.catalogue = c]
  <2>1. Nudge(w, a) = TakeOrSave(v, a) /\ c \subseteq {"pending", "inFlight"}
    BY <1>0, <1>4 DEF Nudge
  <2> HIDE DEF c
  <2>2. v \in Walks /\ v.pending = w.pending
    BY <2>1, NoRequestTyped DEF Walks, Targets
  <2> HIDE DEF v
  <2> QED BY <2>1, <2>2, TakeOrSaveHands DEF Hands
<1> QED BY <1>1, <1>2, <1>3, <1>4

\* resolved empties the slot and hands over what comes next.
LEMMA ResolvedHands ==
    ASSUME NEW w \in Walks, NEW ro, NEW a \in Attempts
    PROVE  Hands(w, Resolved(w, ro, a))
<1>1. CASE w.inFlight # ro
  BY <1>1 DEF Resolved, Quiet, Hands, Asks
<1>2. CASE w.inFlight = ro
  <2> DEFINE v == [w EXCEPT !.inFlight = NoRO, !.request = NoRequest]
  <2>1. Resolved(w, ro, a) = TakeOrSave(v, a)
    BY <1>2 DEF Resolved
  <2>2. v \in Walks /\ v.pending = w.pending
    BY NoRequestTyped DEF Walks, Targets
  <2> HIDE DEF v
  <2> QED BY <2>1, <2>2, TakeOrSaveHands DEF Hands
<1> QED BY <1>1, <1>2

\* enqueueUrgent: the walk stays, or the running order is queued as well.
LEMMA EnqueueHands ==
    ASSUME NEW w \in Walks, NEW ro \in ROs, NEW a \in Attempts
    PROVE  LET result == EnqueueUrgent(w, ro, a)
           IN  /\ Hands(w, result)
               /\ result.walk # w => ro \in Members(result.walk.pending) \cup result.ask
<1> DEFINE queued == \/ w.inFlight = ro \/ ro \in Members(w.pending)
                     \/ Len(w.pending) >= MaxQueue
<1>1. CASE queued
  BY <1>1 DEF EnqueueUrgent, Quiet, Hands, Asks
<1>2. CASE ~queued
  <2> DEFINE p == <<ro>> \o w.pending
             v == [w EXCEPT !.pending = p]
  <2>1. EnqueueUrgent(w, ro, a) = TakeLocked(v, a)
    BY <1>2 DEF EnqueueUrgent
  <2>2. w.pending \in Seq(ROs)
    BY DEF Walks
  <2>3. p \in Seq(ROs) /\ {ro} \cup Members(w.pending) \subseteq Members(p)
    BY <2>2, ConsMembers
  <2> HIDE DEF p
  <2>4. v \in Walks /\ v.pending = p
    BY <2>3 DEF Walks
  <2> HIDE DEF v
  <2>5. Hands(v, TakeLocked(v, a))
    BY <2>4, TakeHands
  <2> QED BY <2>1, <2>3, <2>4, <2>5 DEF Hands
<1> QED BY <1>1, <1>2

\* begin: the queue it was given, cut to the bound, is what is handed out.
LEMMA BeginHands ==
    ASSUME NEW w \in Walks, NEW queue \in Seq(ROs), NEW a \in Attempts
    PROVE  LET result == Begin(w, queue, a)
           IN  /\ result.walk \in Walks /\ result.ask \in Asks
               /\ Members(Truncated(queue)) \subseteq Members(result.walk.pending) \cup result.ask
               /\ Members(Truncated(queue)) \subseteq ROs
<1> DEFINE p == Truncated(queue)
           req == IF "inFlight" \in w.catalogue THEN NoRequest ELSE w.request
           u == [w EXCEPT !.catalogue = {}, !.request = req]
           v == [u EXCEPT !.pending = p]
<1>1. Begin(w, queue, a) = TakeOrSave(v, a)
  BY DEF Begin, CatalogueSettled
<1>2. req \in Requests
  BY NoRequestTyped DEF Walks
<1>3. MaxQueue \in Nat
  BY WalkAssumption
<1>4. p \in Seq(ROs)
  BY <1>3 DEF Truncated
<1>5. Members(p) \subseteq ROs
  BY <1>4, MembersTyped
<1> HIDE DEF req, p
<1>6. u \in Walks
  BY <1>2 DEF Walks
<1> HIDE DEF u
<1>7. v \in Walks /\ v.pending = p
  BY <1>4, <1>6 DEF Walks
<1> HIDE DEF v
<1> QED BY <1>1, <1>5, <1>7, TakeOrSaveHands DEF Hands, p

-----------------------------------------------------------------------------
(* The invariant.                                                          *)

\* A goroutine has a request in its hands only while it is to send it, and a
\* message about a running order names one.
HandsInOrder(h) ==
    /\ h.pc \notin {"send", "last"} => h.target = NoRO
    /\ h.kind \in {"roster", "unknown"} => h.ro \in ROs

UntrackedInv ==
    /\ TypeOK
    /\ \A s \in Sessions : HandsInOrder(handler[s])
    /\ NothingForgotten

\* A goroutine without a request called the walk, and what is wanted is in
\* the queue it got back, in what it was given, or was wanted before and is in
\* another's hands.
LEMMA ContinueKeeps ==
    ASSUME UntrackedInv, NEW s \in Sessions, handler[s].pc \in {"advance", "handle"},
           NEW result, result.walk \in Walks, result.ask \in Asks,
           NEW pcSend \in {"send", "last"}, NEW pcOn \in {"idle", "handle"},
           Continue(s, result, pcSend, pcOn), events' = events,
           wanted' \subseteq ROs,
           \A x \in wanted' : \/ x \in Members(result.walk.pending) \cup result.ask
                              \/ \E r \in Sessions : x = handler[r].target
    PROVE  UntrackedInv'
<1> DEFINE h == handler[s]
<1>0. /\ h \in Handlers /\ h.target = NoRO /\ walk' = result.walk
      /\ handler \in [Sessions -> Handlers] /\ events \in 0 .. MaxEvents
      /\ h.kind \in {"roster", "unknown"} => h.ro \in ROs
      /\ \A r \in Sessions : HandsInOrder(handler[r])
  BY DEF UntrackedInv, TypeOK, HandsInOrder, Continue
<1>1. ASSUME NEW g \in Handlers, handler' = [handler EXCEPT ![s] = g], HandsInOrder(g),
             result.ask = {} \/ result.ask = {g.target}
      PROVE  UntrackedInv'
  <2>1. /\ handler'[s] = g /\ handler' \in [Sessions -> Handlers]
        /\ \A r \in Sessions : r # s => handler'[r] = handler[r]
    BY <1>0, <1>1
  <2>2. TypeOK'
    BY <1>0, <2>1 DEF TypeOK
  <2>3. \A r \in Sessions : HandsInOrder(handler'[r])
    BY <1>0, <1>1, <2>1
  <2>4. NothingForgotten'
    <3> SUFFICES ASSUME NEW x \in wanted'
                 PROVE  x \in Members(walk'.pending) \/ \E r \in Sessions : x = handler'[r].target
      BY DEF NothingForgotten
    <3>1. x # NoRO
      BY WalkAssumption
    <3>2. CASE x \in Members(result.walk.pending)
      BY <1>0, <3>2
    <3>3. CASE x \in result.ask
      BY <1>1, <2>1, <3>3
    <3>4. ASSUME NEW r \in Sessions, x = handler[r].target
          PROVE  \E q \in Sessions : x = handler'[q].target
      BY <1>0, <2>1, <3>1, <3>4
    <3> QED BY <3>2, <3>3, <3>4
  <2> QED BY <2>2, <2>3, <2>4 DEF UntrackedInv, HandsInOrder
<1>2. CASE result.ask = {} /\ handler' = [handler EXCEPT ![s] =
              IF pcOn = "idle" THEN Idle ELSE [@ EXCEPT !.pc = pcOn]]
  <2>1. CASE pcOn = "idle"
    <3>1. handler' = [handler EXCEPT ![s] = Idle]
      BY <1>2, <2>1
    <3>2. Idle \in Handlers /\ HandsInOrder(Idle)
      BY DEF Idle, Handlers, HandsInOrder, Targets
    <3> QED BY <1>1, <1>2, <3>1, <3>2
  <2>2. CASE pcOn = "handle"
    <3> DEFINE g == [h EXCEPT !.pc = "handle"]
    <3>1. handler' = [handler EXCEPT ![s] = g]
      BY <1>2, <2>2
    <3> HIDE DEF h
    <3>2. g \in Handlers /\ g.pc = "handle" /\ g.target = h.target /\ g.kind = h.kind /\ g.ro = h.ro
      BY <1>0 DEF Handlers
    <3> HIDE DEF g
    <3>3. HandsInOrder(g)
      BY <1>0, <3>2 DEF HandsInOrder
    <3> QED BY <1>1, <1>2, <3>1, <3>2, <3>3
  <2> QED BY <2>1, <2>2
<1>3. ASSUME NEW t \in result.ask,
             handler' = [handler EXCEPT ![s].pc = pcSend, ![s].target = t]
      PROVE  UntrackedInv'
  <2> DEFINE g == [h EXCEPT !.pc = pcSend, !.target = t]
  <2>1. handler' = [handler EXCEPT ![s] = g]
    BY <1>0, <1>3
  <2>2. t \in Targets /\ result.ask = {t}
    BY <1>3 DEF Asks
  <2> HIDE DEF h
  <2>3. g \in Handlers /\ g.pc = pcSend /\ g.target = t /\ g.kind = h.kind /\ g.ro = h.ro
    BY <1>0, <2>2 DEF Handlers
  <2> HIDE DEF g
  <2>4. HandsInOrder(g)
    BY <1>0, <2>3 DEF HandsInOrder
  <2> QED BY <1>1, <2>1, <2>2, <2>3, <2>4
<1> QED BY <1>2, <1>3 DEF Continue

\* The same for a method that wants nothing more.
LEMMA MethodKeeps ==
    ASSUME UntrackedInv, NEW s \in Sessions, handler[s].pc \in {"advance", "handle"},
           NEW result, Hands(walk, result),
           NEW pcSend \in {"send", "last"}, NEW pcOn \in {"idle", "handle"},
           Continue(s, result, pcSend, pcOn), UNCHANGED <<wanted, events>>
    PROVE  UntrackedInv'
<1>1. wanted' \subseteq ROs /\ events' = events
  BY DEF UntrackedInv, TypeOK
<1>2. \A x \in wanted' : \/ x \in Members(result.walk.pending) \cup result.ask
                         \/ \E r \in Sessions : x = handler[r].target
  BY DEF UntrackedInv, NothingForgotten, Hands
<1>3. result.walk \in Walks /\ result.ask \in Asks
  BY DEF Hands
<1> QED BY <1>1, <1>2, <1>3, ContinueKeeps

\* A message arrives at a goroutine that waits.
LEMMA ReceiveKeeps ==
    ASSUME UntrackedInv, NEW s \in Sessions,
           NEW kind \in {"traffic", "roster", "catalogue", "unknown"}, NEW ro \in Targets,
           kind \in {"roster", "unknown"} => ro \in ROs,
           Receive(s, kind, ro), events' \in 0 .. MaxEvents
    PROVE  UntrackedInv'
<1> DEFINE g == [pc |-> "advance", kind |-> kind, ro |-> ro, target |-> NoRO]
<1>1. handler' = [handler EXCEPT ![s] = g] /\ UNCHANGED <<walk, wanted>> /\ handler[s].pc = "idle"
  BY DEF Receive
<1>2. g \in Handlers /\ HandsInOrder(g) /\ g.target = NoRO
  BY DEF Handlers, HandsInOrder, Targets
<1> HIDE DEF g
<1>3. handler[s].target = NoRO /\ handler \in [Sessions -> Handlers]
  BY <1>1 DEF UntrackedInv, HandsInOrder, TypeOK
<1>4. \A r \in Sessions : handler'[r].target = handler[r].target /\ HandsInOrder(handler'[r])
  BY <1>1, <1>2, <1>3 DEF UntrackedInv
<1>5. TypeOK'
  BY <1>1, <1>2, <1>3 DEF UntrackedInv, TypeOK
<1>6. NothingForgotten'
  BY <1>1, <1>4 DEF UntrackedInv, NothingForgotten
<1> QED BY <1>4, <1>5, <1>6 DEF UntrackedInv, HandsInOrder

\* The request leaves the goroutine's hands.
LEMMA SendKeeps ==
    ASSUME UntrackedInv, NEW s \in Sessions, Send(s) PROVE UntrackedInv'
<1> DEFINE h == handler[s]
           f == [h EXCEPT !.pc = "handle", !.target = NoRO]
           g == IF h.pc = "last" THEN Idle ELSE f
<1>0. /\ h \in Handlers /\ handler \in [Sessions -> Handlers] /\ HandsInOrder(h)
      /\ UNCHANGED <<walk, events>> /\ wanted' = wanted \ {h.target}
      /\ handler' = [handler EXCEPT ![s] = g]
  BY DEF UntrackedInv, TypeOK, Send
<1>1. f \in Handlers /\ f.pc = "handle" /\ f.target = NoRO /\ f.kind = h.kind /\ f.ro = h.ro
  BY <1>0 DEF Handlers, Targets
<1>2. Idle \in Handlers /\ HandsInOrder(Idle)
  BY DEF Idle, Handlers, HandsInOrder, Targets
<1> HIDE DEF f
<1>3. g \in Handlers /\ HandsInOrder(g)
  BY <1>0, <1>1, <1>2 DEF HandsInOrder
<1> HIDE DEF g
<1>4. \A r \in Sessions : r # s => handler'[r] = handler[r]
  BY <1>0
<1>5. \A r \in Sessions : HandsInOrder(handler'[r])
  BY <1>0, <1>3 DEF UntrackedInv
<1>6. TypeOK'
  BY <1>0, <1>3 DEF UntrackedInv, TypeOK
<1>7. NothingForgotten'
  BY <1>0, <1>4 DEF UntrackedInv, NothingForgotten
<1> QED BY <1>5, <1>6, <1>7 DEF UntrackedInv, HandsInOrder

\* A list of running orders replaces what is wanted.
LEMMA ListAllKeeps ==
    ASSUME UntrackedInv, NEW s \in Sessions, HandleListAll(s) PROVE UntrackedInv'
<1> DEFINE Lists(queue, roIDs) ==
              /\ IsRefreshed(queue, walk, roIDs)
              /\ Continue(s, Begin(walk, queue, Attempt), "last", "idle")
              /\ wanted' = Members(Truncated(queue))
<1>1. PICK n \in 0 .. MaxQueue + 1 : \E roIDs \in [1 .. n -> Targets] :
         \E m \in 0 .. n : \E queue \in [1 .. m -> Targets] : Lists(queue, roIDs)
  BY DEF HandleListAll
<1>2. PICK roIDs \in [1 .. n -> Targets], m \in 0 .. n :
         \E queue \in [1 .. m -> Targets] : Lists(queue, roIDs)
  BY <1>1
<1>3. PICK queue \in [1 .. m -> Targets] : Lists(queue, roIDs)
  BY <1>2
<1>4. NoRO \notin Members(queue)
  BY <1>3 DEF IsRefreshed, Listed
<1>5. queue \in Seq(ROs)
  <2>1. m \in Nat /\ DOMAIN queue = 1 .. m
    BY <1>2, <1>3
  <2>2. \A i \in 1 .. m : queue[i] \in ROs
    BY <1>3, <1>4, <2>1 DEF Members, Targets
  <2>3. queue \in [1 .. m -> ROs]
    BY <1>3, <2>2
  <2> QED BY <2>1, <2>3
<1> DEFINE result == Begin(walk, queue, Attempt)
<1>6. /\ result.walk \in Walks /\ result.ask \in Asks
      /\ wanted' \subseteq Members(result.walk.pending) \cup result.ask /\ wanted' \subseteq ROs
  BY <1>3, <1>5, BeginHands, AttemptTyped DEF UntrackedInv, TypeOK
<1>7. /\ Continue(s, result, "last", "idle") /\ events' = events /\ handler[s].pc = "handle"
  BY <1>3 DEF HandleListAll
<1> HIDE DEF result
<1> QED BY <1>6, <1>7, ContinueKeeps

\* A divergence puts a running order in front.
LEMMA UnknownKeeps ==
    ASSUME UntrackedInv, NEW s \in Sessions, HandleUnknown(s) PROVE UntrackedInv'
<1> DEFINE ro == handler[s].ro
           result == EnqueueUrgent(walk, ro, Attempt)
<1>0. /\ handler[s].pc = "handle" /\ events' = events /\ Continue(s, result, "last", "idle")
      /\ wanted' = IF result.walk = walk THEN wanted ELSE wanted \cup {ro}
  BY DEF HandleUnknown
<1>1. ro \in ROs /\ walk \in Walks /\ wanted \subseteq ROs
  BY DEF HandleUnknown, UntrackedInv, HandsInOrder, TypeOK
<1>2. /\ Hands(walk, result)
      /\ result.walk # walk => ro \in Members(result.walk.pending) \cup result.ask
  BY <1>1, EnqueueHands, AttemptTyped
<1> HIDE DEF result, ro
<1>3. \A x \in wanted' : \/ x \in Members(result.walk.pending) \cup result.ask
                         \/ \E r \in Sessions : x = handler[r].target
  BY <1>0, <1>2 DEF UntrackedInv, NothingForgotten, Hands
<1>4. result.walk \in Walks /\ result.ask \in Asks /\ wanted' \subseteq ROs
  BY <1>0, <1>1, <1>2 DEF Hands
<1> QED BY <1>0, <1>3, <1>4, ContinueKeeps

\* The invariant is inductive.
LEMMA UntrackedInvariant == Spec => []UntrackedInv
<1>1. Init => UntrackedInv
  <2> SUFFICES ASSUME Init PROVE UntrackedInv
    OBVIOUS
  <2>1. EmptyWalk \in Walks
    BY NoRequestTyped DEF EmptyWalk, Walks, Targets
  <2>2. Idle \in Handlers /\ HandsInOrder(Idle)
    BY DEF Idle, Handlers, HandsInOrder, Targets
  <2>3. TypeOK
    BY <2>1, <2>2, UntrackedAssumption DEF Init, TypeOK
  <2> QED BY <2>2, <2>3 DEF Init, UntrackedInv, NothingForgotten
<1>2. UntrackedInv /\ [Next]_vars => UntrackedInv'
  <2> SUFFICES ASSUME UntrackedInv, [Next]_vars PROVE UntrackedInv'
    OBVIOUS
  <2>0. walk \in Walks /\ events \in 0 .. MaxEvents /\ MaxEvents \in Nat
    BY UntrackedAssumption DEF UntrackedInv, TypeOK
  <2>1. ASSUME NEW s \in Sessions, Traffic(s) PROVE UntrackedInv'
    BY <2>0, <2>1, ReceiveKeeps DEF Traffic, Targets
  <2>2. ASSUME NEW s \in Sessions, Event(s) PROVE UntrackedInv'
    <3>1. events' \in 0 .. MaxEvents
      BY <2>0, <2>2 DEF Event
    <3>2. (\E ro \in ROs, kind \in {"roster", "unknown"} : Receive(s, kind, ro))
             \/ Receive(s, "catalogue", NoRO)
      BY <2>2 DEF Event
    <3> QED BY <3>1, <3>2, ReceiveKeeps DEF Targets
  <2>3. ASSUME NEW s \in Sessions, Advance(s) PROVE UntrackedInv'
    BY <2>0, <2>3, NudgeHands, AttemptTyped, MethodKeeps DEF Advance
  <2>4. ASSUME NEW s \in Sessions, HandleList(s) PROVE UntrackedInv'
    BY <2>0, <2>4, ResolvedHands, AttemptTyped, MethodKeeps DEF HandleList
  <2>5. ASSUME NEW s \in Sessions, HandleOther(s) PROVE UntrackedInv'
    <3>1. /\ handler' = [handler EXCEPT ![s] = Idle] /\ UNCHANGED <<walk, wanted, events>>
          /\ handler[s].target = NoRO
      BY <2>5 DEF HandleOther, UntrackedInv, HandsInOrder
    <3>2. Idle \in Handlers /\ HandsInOrder(Idle) /\ Idle.target = NoRO
      BY DEF Idle, Handlers, HandsInOrder, Targets
    <3>3. TypeOK'
      BY <3>1, <3>2 DEF UntrackedInv, TypeOK
    <3>4. \A r \in Sessions : handler'[r].target = handler[r].target /\ HandsInOrder(handler'[r])
      BY <3>1, <3>2 DEF UntrackedInv, TypeOK
    <3> QED BY <3>1, <3>3, <3>4 DEF UntrackedInv, NothingForgotten, HandsInOrder
  <2>6. CASE DeadlinePasses
    <3>1. /\ walk' = [walk EXCEPT !.deadline = "passed"] /\ UNCHANGED <<handler, wanted, events>>
      BY <2>6 DEF DeadlinePasses
    <3>2. walk' \in Walks /\ walk'.pending = walk.pending
      BY <2>0, <3>1 DEF Walks
    <3> QED BY <3>1, <3>2 DEF UntrackedInv, TypeOK, NothingForgotten, HandsInOrder
  <2>7. CASE UNCHANGED vars
    BY <2>7 DEF vars, UntrackedInv, TypeOK, NothingForgotten, HandsInOrder
  <2>8. ASSUME NEW s \in Sessions, Handle(s) PROVE UntrackedInv'
    BY <2>3, <2>4, <2>5, <2>8, ListAllKeeps, UnknownKeeps, SendKeeps DEF Handle
  <2> QED BY <2>1, <2>2, <2>6, <2>7, <2>8 DEF Next
<1> QED BY <1>1, <1>2, PTL DEF Spec

\* Every running order that has to be asked for is in the queue or in a
\* goroutine's hands, for any number of connections and however lists,
\* divergences and timeouts interleave (takeLocked, begin, resolved, nudge,
\* enqueueUrgent).
THEOREM ForgottenTheorem == Spec => []NothingForgotten
<1>1. UntrackedInv => NothingForgotten
  BY DEF UntrackedInv
<1> QED BY <1>1, UntrackedInvariant, PTL
=============================================================================
