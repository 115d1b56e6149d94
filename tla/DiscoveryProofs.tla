--------------------------- MODULE DiscoveryProofs ---------------------------
(***************************************************************************)
(* Proofs about discovery under a committed source (DiscoveryTracked), for *)
(* every number of connections, running orders and request identities.     *)
(*                                                                         *)
(* The invariant CoreInv has four parts: the walk by itself (WalkInOrder:  *)
(* the slot matches what is in flight, the queue is bounded and distinct), *)
(* each goroutine by itself (HandlerInOrder: a claim lives from the answer *)
(* to the release), the slot against all goroutines (SlotHeld: at most one *)
(* claims the request in it, and it is marked exactly while one does), and *)
(* the file against the walk (DiskInOrder).  One lemma for each method of  *)
(* the walk says what becomes of the slot: it is Kept, or Renewed with a   *)
(* request nobody has claimed.  AnswerInv, for MOS 2.x, adds what is on    *)
(* the wire.                                                               *)
(***************************************************************************)
EXTENDS DiscoveryTracked, TLAPS

-----------------------------------------------------------------------------
(* Queues.                                                                 *)

\* A running order put in front of a queue.
LEMMA ConsFacts ==
    ASSUME NEW S, NEW x \in S, NEW q \in Seq(S)
    PROVE  LET c == <<x>> \o q
           IN  /\ c \in Seq(S) /\ Len(c) = Len(q) + 1 /\ c[1] = x
               /\ \A i \in 1 .. Len(q) : c[i + 1] = q[i]
               /\ \A i \in 2 .. Len(c) : c[i] = q[i - 1]
               /\ Members(c) = {x} \cup Members(q)
<1> DEFINE c == <<x>> \o q
<1>1. /\ c \in Seq(S) /\ Len(c) = Len(q) + 1 /\ c[1] = x /\ Len(q) \in Nat
      /\ \A i \in 1 .. Len(q) : c[i + 1] = q[i]
      /\ \A i \in 2 .. Len(c) : c[i] = q[i - 1]
  OBVIOUS
<1>2. DOMAIN c = 1 .. Len(c) /\ DOMAIN q = 1 .. Len(q)
  BY <1>1
<1> HIDE DEF c
<1>3. ASSUME NEW i \in DOMAIN c PROVE c[i] \in {x} \cup Members(q)
  <2>1. CASE i = 1
    BY <1>1, <2>1
  <2>2. CASE i # 1
    <3>1. i - 1 \in DOMAIN q /\ c[i] = q[i - 1]
      BY <1>1, <1>2, <2>2
    <3> QED BY <3>1 DEF Members
  <2> QED BY <2>1, <2>2
<1>4. x \in Members(c)
  <2>1. 1 \in DOMAIN c
    BY <1>1, <1>2
  <2> QED BY <1>1, <2>1 DEF Members
<1>5. ASSUME NEW i \in DOMAIN q PROVE q[i] \in Members(c)
  <2>1. i + 1 \in DOMAIN c /\ c[i + 1] = q[i]
    BY <1>1, <1>2
  <2> QED BY <2>1 DEF Members
<1>6. Members(c) = {x} \cup Members(q)
  BY <1>3, <1>4, <1>5 DEF Members
<1> QED BY <1>1, <1>6 DEF c

\* Nothing waits twice in a queue with a new head if nothing did and the head
\* is new, and conversely.
LEMMA ConsDistinct ==
    ASSUME NEW S, NEW x \in S, NEW q \in Seq(S)
    PROVE  IsDistinct(<<x>> \o q) <=> IsDistinct(q) /\ x \notin Members(q)
<1> DEFINE c == <<x>> \o q
<1>1. /\ c \in Seq(S) /\ Len(c) = Len(q) + 1 /\ c[1] = x /\ Len(q) \in Nat
      /\ \A i \in 1 .. Len(q) : c[i + 1] = q[i]
      /\ \A i \in 2 .. Len(c) : c[i] = q[i - 1]
  BY ConsFacts
<1>2. DOMAIN c = 1 .. Len(c) /\ DOMAIN q = 1 .. Len(q)
  BY <1>1
<1> HIDE DEF c
<1>3. ASSUME IsDistinct(c) PROVE IsDistinct(q) /\ x \notin Members(q)
  <2>1. ASSUME NEW i \in DOMAIN q, NEW j \in DOMAIN q, q[i] = q[j] PROVE i = j
    <3>1. i + 1 \in DOMAIN c /\ j + 1 \in DOMAIN c /\ c[i + 1] = c[j + 1]
      BY <1>1, <1>2, <2>1
    <3> QED BY <1>2, <1>3, <3>1 DEF IsDistinct
  <2>2. ASSUME NEW i \in DOMAIN q, q[i] = x PROVE FALSE
    <3>1. i + 1 \in DOMAIN c /\ 1 \in DOMAIN c /\ c[i + 1] = c[1] /\ i + 1 # 1
      BY <1>1, <1>2, <2>2
    <3> QED BY <1>3, <3>1 DEF IsDistinct
  <2> QED BY <2>1, <2>2 DEF IsDistinct, Members
<1>4. ASSUME IsDistinct(q), x \notin Members(q) PROVE IsDistinct(c)
  <2> SUFFICES ASSUME NEW i \in DOMAIN c, NEW j \in DOMAIN c, c[i] = c[j] PROVE i = j
    BY DEF IsDistinct
  <2>1. \A k \in DOMAIN c : k # 1 => k - 1 \in DOMAIN q /\ c[k] = q[k - 1] /\ c[k] # x
    <3> SUFFICES ASSUME NEW k \in DOMAIN c, k # 1
                 PROVE  k - 1 \in DOMAIN q /\ c[k] = q[k - 1] /\ c[k] # x
      OBVIOUS
    <3>1. k - 1 \in DOMAIN q /\ c[k] = q[k - 1]
      BY <1>1, <1>2
    <3> QED BY <1>4, <3>1 DEF Members
  <2>2. CASE i = 1 \/ j = 1
    BY <1>1, <2>1, <2>2
  <2>3. CASE i # 1 /\ j # 1
    <3>1. i - 1 = j - 1
      BY <1>4, <2>1, <2>3 DEF IsDistinct
    <3> QED BY <1>2, <3>1
  <2> QED BY <2>2, <2>3
<1> QED BY <1>3, <1>4 DEF c

\* The front of a queue and the rest.
LEMMA TailFacts ==
    ASSUME NEW S, NEW q \in Seq(S), q # <<>>
    PROVE  /\ Tail(q) \in Seq(S) /\ Head(q) \in S
           /\ <<Head(q)>> \o Tail(q) = q
  OBVIOUS

\* A queue cut to its bound.
LEMMA CutFacts ==
    ASSUME NEW S, NEW q \in Seq(S), NEW n \in Nat, Len(q) > n
    PROVE  LET c == SubSeq(q, 1, n)
           IN  /\ c \in Seq(S) /\ Len(c) = n /\ Members(c) \subseteq Members(q)
               /\ IsDistinct(q) => IsDistinct(c)
<1> DEFINE c == SubSeq(q, 1, n)
<1>1. c \in Seq(S) /\ Len(c) = n /\ \A i \in 1 .. n : c[i] = q[i]
  OBVIOUS
<1>2. DOMAIN c = 1 .. n /\ DOMAIN q = 1 .. Len(q) /\ Len(q) \in Nat
  BY <1>1
<1> HIDE DEF c
<1>3. \A i \in DOMAIN c : i \in DOMAIN q /\ c[i] = q[i]
  BY <1>1, <1>2
<1>4. Members(c) \subseteq Members(q)
  BY <1>3 DEF Members
<1>5. IsDistinct(q) => IsDistinct(c)
  BY <1>3 DEF IsDistinct
<1> QED BY <1>1, <1>4, <1>5 DEF c

-----------------------------------------------------------------------------
(* The walk and its methods.                                               *)

\* The slot holds a request exactly while one is in flight; it is not both
\* given up and being answered.
SlotInOrder(w) ==
    /\ w.inFlight = NoRO \/ "inFlight" \notin w.catalogue
    /\ Busy(w) => w.request.attempt # NoAttempt /\ w.request.target = w.inFlight
    /\ ~Busy(w) => w.request = NoRequest
    /\ "replying" \in w.request.marks =>
          "expired" \notin w.request.marks /\ w.request.session # NoSession

\* No running order waits twice, and one more than the bound at most.
QueueInOrder(w) ==
    /\ IsDistinct(Work(w).pending)
    /\ Len(Work(w).pending) <= MaxQueue + 1

WalkInOrder(w) == w \in Walks /\ SlotInOrder(w) /\ QueueInOrder(w)

\* The slot has the same request, held or not as before.
Kept(w, v) ==
    /\ v.request.attempt = w.request.attempt
    /\ v.request.session = w.request.session
    /\ v.request.target = w.request.target
    /\ "replying" \in v.request.marks <=> "replying" \in w.request.marks

\* The slot is empty, or has a new request that no connection was given.
Renewed(v, fresh) ==
    /\ v.request.attempt \in {NoAttempt, fresh}
    /\ v.request.session = NoSession
    /\ v.request.marks = {}

\* What every method returns.
Result(w, result) ==
    /\ WalkInOrder(result.walk)
    /\ result.ask \subseteq Targets
    /\ result.saved \in {"yes", "no"}

\* The fields of a walk and of its request.
LEMMA WalkFacts ==
    ASSUME NEW w \in Walks
    PROVE  /\ w.pending \in Seq(ROs) /\ w.inFlight \in Targets
           /\ w.catalogue \subseteq {"pending", "inFlight"}
           /\ w.request \in Requests /\ w.deadline \in {"ahead", "passed"}
           /\ w.request.attempt \in Attempts \cup {NoAttempt}
           /\ w.request.target \in Targets
           /\ w.request.session \in Sessions \cup {NoSession}
           /\ w.request.marks \subseteq {"replying", "expired"}
           /\ Len(w.pending) \in Nat
  BY DEF Walks, Requests

\* A new request.
LEMMA NewRequestFacts ==
    ASSUME NEW t \in Targets, NEW a \in Attempts \cup {NoAttempt}
    PROVE  LET r == NewRequest(t, a)
           IN  /\ r \in Requests /\ r.attempt = a /\ r.target = t
               /\ r.session = NoSession /\ r.marks = {}
  BY DEF NewRequest, Requests

\* The empty slot.
LEMMA NoRequestFacts ==
    /\ NoRequest \in Requests /\ NoRequest.attempt = NoAttempt /\ NoRequest.target = NoRO
    /\ NoRequest.session = NoSession /\ NoRequest.marks = {}
  BY NewRequestFacts DEF NoRequest, Targets

\* What is to be saved of a walk.
LEMMA WorkFacts ==
    ASSUME NEW w \in Walks
    PROVE  /\ Work(w) \in [pending : Seq(ROs), catalogue : SUBSET {"pending"}]
           /\ w.inFlight = NoRO => Work(w).pending = w.pending
           /\ w.inFlight # NoRO => /\ w.inFlight \in ROs
                                   /\ Work(w).pending = <<w.inFlight>> \o w.pending
<1>1. w.pending \in Seq(ROs) /\ w.inFlight \in Targets
  BY WalkFacts
<1>2. w.inFlight # NoRO => w.inFlight \in ROs /\ <<w.inFlight>> \o w.pending \in Seq(ROs)
  BY <1>1, ConsFacts DEF Targets
<1> QED BY <1>1, <1>2 DEF Work

\* The queue in terms of what waits and what is in flight.
LEMMA QueueFacts ==
    ASSUME NEW w \in Walks
    PROVE  /\ w.inFlight = NoRO =>
                (QueueInOrder(w) <=> IsDistinct(w.pending) /\ Len(w.pending) <= MaxQueue + 1)
           /\ w.inFlight # NoRO =>
                (QueueInOrder(w) <=> /\ IsDistinct(w.pending)
                                     /\ w.inFlight \notin Members(w.pending)
                                     /\ Len(w.pending) <= MaxQueue)
<1>1. w.pending \in Seq(ROs) /\ Len(w.pending) \in Nat /\ MaxQueue \in Nat
  BY WalkFacts, WalkAssumption
<1>2. CASE w.inFlight = NoRO
  BY <1>2, WorkFacts DEF QueueInOrder
<1>3. CASE w.inFlight # NoRO
  <2>1. w.inFlight \in ROs /\ Work(w).pending = <<w.inFlight>> \o w.pending
    BY <1>3, WorkFacts
  <2>2. Len(Work(w).pending) = Len(w.pending) + 1
    BY <1>1, <2>1, ConsFacts
  <2>3. IsDistinct(Work(w).pending) <=> IsDistinct(w.pending) /\ w.inFlight \notin Members(w.pending)
    BY <1>1, <2>1, ConsDistinct
  <2> QED BY <1>1, <1>3, <2>2, <2>3 DEF QueueInOrder
<1> QED BY <1>2, <1>3

\* takeLocked: the walk as it is, or one that was idle and now asks for the
\* catalogue or the head of its queue.  What is left to do stays the same.
LEMMA TakeFacts ==
    ASSUME NEW w, WalkInOrder(w), NEW fresh \in Attempts
    PROVE  LET result == TakeLocked(w, fresh)
           IN  /\ Result(w, result)
               /\ result.ask = {} => result = Quiet(w)
               /\ \/ result = Quiet(w)
                  \/ /\ w.request = NoRequest /\ Renewed(result.walk, fresh)
                     /\ result.saved = "yes"
               /\ Work(result.walk).pending = Work(w).pending
<1> DEFINE result == TakeLocked(w, fresh)
<1>0. /\ w \in Walks /\ SlotInOrder(w) /\ QueueInOrder(w)
      /\ w.pending \in Seq(ROs) /\ w.catalogue \subseteq {"pending", "inFlight"}
  BY WalkFacts DEF WalkInOrder
<1>1. CASE result = Quiet(w)
  BY <1>1 DEF Quiet, Result
<1>2. CASE ~Busy(w) /\ "pending" \in w.catalogue
  <2> DEFINE req == NewRequest(NoRO, fresh)
             v == [w EXCEPT !.catalogue = {"inFlight"}, !.request = req, !.deadline = "ahead"]
  <2>1. /\ req \in Requests /\ req.attempt = fresh /\ req.target = NoRO
        /\ req.session = NoSession /\ req.marks = {}
    BY NewRequestFacts DEF Targets
  <2>2. result = Ask(v, NoRO)
    BY <1>2 DEF TakeLocked
  <2> HIDE DEF req
  <2>3. /\ v \in Walks /\ v.pending = w.pending /\ v.inFlight = w.inFlight
        /\ v.catalogue = {"inFlight"} /\ v.request = req
    BY <1>0, <2>1 DEF Walks
  <2> HIDE DEF v
  <2>4. w.inFlight = NoRO /\ w.request = NoRequest
    BY <1>0, <1>2 DEF SlotInOrder, Busy
  <2>5. SlotInOrder(v)
    BY <2>1, <2>3, <2>4, WalkAssumption DEF SlotInOrder, Busy
  <2>6. Work(v).pending = Work(w).pending
    BY <1>0, <2>3, <2>4, WorkFacts
  <2>7. WalkInOrder(v)
    BY <1>0, <2>3, <2>5, <2>6 DEF WalkInOrder, QueueInOrder
  <2>8. Renewed(v, fresh)
    BY <2>1, <2>3 DEF Renewed
  <2>9. result.walk = v /\ result.ask = {NoRO} /\ result.saved = "yes"
    BY <2>2 DEF Ask
  <2> QED BY <2>4, <2>6, <2>7, <2>8, <2>9 DEF Result, Targets
<1>3. CASE ~Busy(w) /\ "pending" \notin w.catalogue /\ w.pending # <<>>
  <2> DEFINE ro == Head(w.pending)
             rest == Tail(w.pending)
             req == NewRequest(ro, fresh)
             v == [w EXCEPT !.pending = rest, !.inFlight = ro, !.request = req,
                            !.deadline = "ahead"]
  <2>1. result = Ask(v, ro)
    BY <1>3 DEF TakeLocked
  <2>2. ro \in ROs /\ rest \in Seq(ROs) /\ <<ro>> \o rest = w.pending
    BY <1>0, <1>3, TailFacts
  <2>3. ro \in Targets /\ ro # NoRO
    BY <2>2, WalkAssumption DEF Targets
  <2>4. /\ req \in Requests /\ req.attempt = fresh /\ req.target = ro
        /\ req.session = NoSession /\ req.marks = {}
    BY <2>3, NewRequestFacts
  <2> HIDE DEF ro, rest, req
  <2>5. /\ v \in Walks /\ v.pending = rest /\ v.inFlight = ro
        /\ v.catalogue = w.catalogue /\ v.request = req
    BY <1>0, <2>2, <2>3, <2>4 DEF Walks
  <2> HIDE DEF v
  <2>6. w.inFlight = NoRO /\ w.request = NoRequest /\ "inFlight" \notin w.catalogue
    BY <1>0, <1>3 DEF SlotInOrder, Busy
  <2>7. SlotInOrder(v)
    BY <2>3, <2>4, <2>5, <2>6, WalkAssumption DEF SlotInOrder, Busy
  <2>8. Work(v).pending = Work(w).pending
    BY <1>0, <2>2, <2>3, <2>5, <2>6, WorkFacts
  <2>9. WalkInOrder(v)
    BY <1>0, <2>5, <2>7, <2>8 DEF WalkInOrder, QueueInOrder
  <2>10. Renewed(v, fresh)
    BY <2>4, <2>5 DEF Renewed
  <2>11. result.walk = v /\ result.ask = {ro} /\ result.saved = "yes"
    BY <2>1 DEF Ask
  <2> QED BY <2>3, <2>6, <2>8, <2>9, <2>10, <2>11 DEF Result
<1>4. Busy(w) \/ ("pending" \notin w.catalogue /\ w.pending = <<>>) => result = Quiet(w)
  BY DEF TakeLocked
<1> QED BY <1>1, <1>2, <1>3, <1>4

\* The same, when the walk is saved in any case.
LEMMA TakeOrSaveFacts ==
    ASSUME NEW w, WalkInOrder(w), NEW fresh \in Attempts
    PROVE  LET result == TakeOrSave(w, fresh)
           IN  /\ Result(w, result) /\ result.saved = "yes"
               /\ \/ result.walk = w
                  \/ w.request = NoRequest /\ Renewed(result.walk, fresh)
<1>1. CASE TakeLocked(w, fresh).ask = {}
  BY <1>1 DEF TakeOrSave, Saved, Result
<1>2. CASE TakeLocked(w, fresh).ask # {}
  <2>1. TakeOrSave(w, fresh) = TakeLocked(w, fresh)
    BY <1>2 DEF TakeOrSave
  <2>2. TakeLocked(w, fresh) # Quiet(w)
    BY <1>2 DEF Quiet
  <2> QED BY <2>1, <2>2, TakeFacts
<1> QED BY <1>1, <1>2

\* What a walk still has to fetch.
Outstanding(w) == Members(Work(w).pending)

\* It is what waits, and what is in flight.
LEMMA OutstandingFacts ==
    ASSUME NEW w \in Walks
    PROVE  /\ w.inFlight = NoRO => Outstanding(w) = Members(w.pending)
           /\ w.inFlight # NoRO => Outstanding(w) = {w.inFlight} \cup Members(w.pending)
<1>1. w.pending \in Seq(ROs)
  BY WalkFacts
<1>2. CASE w.inFlight = NoRO
  BY <1>2, WorkFacts DEF Outstanding
<1>3. CASE w.inFlight # NoRO
  <2>1. w.inFlight \in ROs /\ Work(w).pending = <<w.inFlight>> \o w.pending
    BY <1>3, WorkFacts
  <2>2. Members(<<w.inFlight>> \o w.pending) = {w.inFlight} \cup Members(w.pending)
    BY <1>1, <2>1, ConsFacts
  <2> QED BY <1>3, <2>1, <2>2 DEF Outstanding
<1> QED BY <1>2, <1>3

\* requestCatalogue: a walk that is not saved did not change.
LEMMA RequestCatalogueFacts ==
    ASSUME NEW w, WalkInOrder(w), NEW fresh \in Attempts
    PROVE  LET result == RequestCatalogue(w, fresh)
           IN  /\ Result(w, result)
               /\ result.saved = "no" => result.walk = w
               /\ \/ Kept(w, result.walk)
                  \/ w.request = NoRequest /\ Renewed(result.walk, fresh)
<1>1. CASE "inFlight" \in w.catalogue
  <2>1. LET result == RequestCatalogue(w, fresh)
        IN  result.walk = w /\ result.ask \subseteq {NoRO} /\ result.saved = "no"
    BY <1>1 DEF RequestCatalogue, Quiet
  <2> QED BY <2>1 DEF Result, Kept, Targets
<1>2. CASE "inFlight" \notin w.catalogue
  <2> DEFINE c == w.catalogue \cup {"pending"}
             v == [w EXCEPT !.catalogue = c]
  <2>1. w \in Walks /\ SlotInOrder(w) /\ QueueInOrder(w) /\ c \subseteq {"pending", "inFlight"}
    BY WalkFacts DEF WalkInOrder
  <2>2. "inFlight" \notin c
    BY <1>2
  <2>3. RequestCatalogue(w, fresh) = TakeOrSave(v, fresh)
    BY <1>2 DEF RequestCatalogue
  <2> HIDE DEF c
  <2>4. /\ v \in Walks /\ v.pending = w.pending /\ v.inFlight = w.inFlight
        /\ v.catalogue = c /\ v.request = w.request
    BY <2>1 DEF Walks
  <2> HIDE DEF v
  <2>5. SlotInOrder(v)
    BY <1>2, <2>1, <2>2, <2>4 DEF SlotInOrder, Busy
  <2>6. Work(v).pending = Work(w).pending
    BY <2>4 DEF Work
  <2>7. WalkInOrder(v)
    BY <2>1, <2>4, <2>5, <2>6 DEF WalkInOrder, QueueInOrder
  <2> QED BY <2>3, <2>4, <2>7, TakeOrSaveFacts DEF Kept, Result
<1> QED BY <1>1, <1>2

\* begin: the listed running orders that are not in flight become the queue.
LEMMA BeginFacts ==
    ASSUME NEW w, WalkInOrder(w), NEW fresh \in Attempts,
           NEW queue \in Seq(ROs), IsDistinct(queue), w.inFlight \notin Members(queue)
    PROVE  LET result == Begin(w, queue, fresh)
           IN  /\ Result(w, result) /\ result.saved = "yes"
               /\ \/ Kept(w, result.walk)
                  \/ Renewed(result.walk, fresh)
<1> DEFINE p == Truncated(queue)
           req == IF "inFlight" \in w.catalogue THEN NoRequest ELSE w.request
           u == [w EXCEPT !.catalogue = {}, !.request = req]
           v == [u EXCEPT !.pending = p]
<1>0. /\ w \in Walks /\ SlotInOrder(w) /\ QueueInOrder(w) /\ MaxQueue \in Nat
      /\ req \in Requests
  BY WalkFacts, NoRequestFacts, WalkAssumption DEF WalkInOrder
<1>1. /\ p \in Seq(ROs) /\ IsDistinct(p) /\ Members(p) \subseteq Members(queue)
      /\ Len(p) <= MaxQueue
  BY <1>0, CutFacts DEF Truncated
<1>2. Begin(w, queue, fresh) = TakeOrSave(v, fresh)
  BY DEF Begin, CatalogueSettled
<1> HIDE DEF p
<1>3. req = IF "inFlight" \in w.catalogue THEN NoRequest ELSE w.request
  OBVIOUS
<1> HIDE DEF req
<1>4. /\ u \in Walks /\ u.inFlight = w.inFlight /\ u.catalogue = {} /\ u.request = req
  BY <1>0 DEF Walks
<1> HIDE DEF u
<1>5. /\ v \in Walks /\ v.inFlight = w.inFlight /\ v.catalogue = {} /\ v.request = req
      /\ v.pending = p
  BY <1>1, <1>4 DEF Walks
<1> HIDE DEF v
<1>6. SlotInOrder(v)
  BY <1>0, <1>3, <1>5, NoRequestFacts DEF SlotInOrder, Busy
<1>7. QueueInOrder(v)
  <2>1. Len(p) \in Nat
    BY <1>1
  <2>2. Len(p) <= MaxQueue + 1
    BY <1>0, <1>1, <2>1
  <2> QED BY <1>1, <1>5, <2>2, QueueFacts
<1>8. WalkInOrder(v)
  BY <1>5, <1>6, <1>7 DEF WalkInOrder
<1>9. Kept(w, v) \/ Renewed(v, fresh)
  BY <1>3, <1>5, NoRequestFacts DEF Kept, Renewed
<1> QED BY <1>2, <1>8, <1>9, TakeOrSaveFacts DEF Result

\* enqueueUrgent: what is not saved is one running order more.
LEMMA EnqueueFacts ==
    ASSUME NEW w, WalkInOrder(w), NEW ro \in ROs, NEW fresh \in Attempts
    PROVE  LET result == EnqueueUrgent(w, ro, fresh)
           IN  /\ Result(w, result)
               /\ result.saved = "no" =>
                     /\ Outstanding(w) \subseteq Outstanding(result.walk)
                     /\ Outstanding(result.walk) \subseteq Outstanding(w) \cup {ro}
                     /\ Work(result.walk).catalogue = Work(w).catalogue
               /\ \/ Kept(w, result.walk)
                  \/ w.request = NoRequest /\ Renewed(result.walk, fresh)
<1> DEFINE queued == \/ w.inFlight = ro \/ ro \in Members(w.pending)
                     \/ Len(w.pending) >= MaxQueue
<1>1. CASE queued
  <2>1. EnqueueUrgent(w, ro, fresh) = Quiet(w)
    BY <1>1 DEF EnqueueUrgent
  <2> QED BY <2>1 DEF Quiet, Kept, Result
<1>2. CASE ~queued
  <2> DEFINE p == <<ro>> \o w.pending
             v == [w EXCEPT !.pending = p]
  <2>1. /\ w \in Walks /\ SlotInOrder(w) /\ QueueInOrder(w) /\ MaxQueue \in Nat
        /\ w.pending \in Seq(ROs) /\ Len(w.pending) \in Nat
    BY WalkFacts, WalkAssumption DEF WalkInOrder
  <2>2. /\ p \in Seq(ROs) /\ Len(p) = Len(w.pending) + 1
        /\ Members(p) = {ro} \cup Members(w.pending)
    BY <2>1, ConsFacts
  <2>3. IsDistinct(w.pending)
    BY <2>1, QueueFacts
  <2>4. IsDistinct(p)
    BY <1>2, <2>1, <2>3, ConsDistinct
  <2>5. EnqueueUrgent(w, ro, fresh) = TakeLocked(v, fresh)
    BY <1>2 DEF EnqueueUrgent
  <2> HIDE DEF p
  <2>6. /\ v \in Walks /\ v.pending = p /\ v.inFlight = w.inFlight
        /\ v.catalogue = w.catalogue /\ v.request = w.request
    BY <2>1, <2>2 DEF Walks
  <2> HIDE DEF v
  <2>7. SlotInOrder(v)
    BY <2>1, <2>6 DEF SlotInOrder, Busy
  <2>8. Len(p) <= MaxQueue /\ Len(p) <= MaxQueue + 1
    BY <1>2, <2>1, <2>2
  <2>9. QueueInOrder(v)
    BY <1>2, <2>1, <2>2, <2>4, <2>6, <2>8, QueueFacts
  <2>10. WalkInOrder(v)
    BY <2>6, <2>7, <2>9 DEF WalkInOrder
  <2>11. Outstanding(v) = Outstanding(w) \cup {ro}
    BY <2>1, <2>2, <2>6, OutstandingFacts
  <2>12. Work(v).catalogue = Work(w).catalogue
    BY <2>6 DEF Work
  <2>13. CASE TakeLocked(v, fresh) = Quiet(v)
    BY <2>5, <2>6, <2>10, <2>11, <2>12, <2>13 DEF Quiet, Kept, Result
  <2>14. CASE TakeLocked(v, fresh) # Quiet(v)
    BY <2>5, <2>6, <2>10, <2>14, TakeFacts DEF Result
  <2> QED BY <2>13, <2>14
<1> QED BY <1>1, <1>2

\* resolved: the slot is emptied only of the running order that was answered.
LEMMA ResolvedFacts ==
    ASSUME NEW w, WalkInOrder(w), NEW ro \in ROs, NEW fresh \in Attempts
    PROVE  LET result == Resolved(w, ro, fresh)
           IN  /\ Result(w, result)
               /\ result.saved = "no" => result.walk = w
               /\ \/ Kept(w, result.walk)
                  \/ Renewed(result.walk, fresh)
<1>1. CASE w.inFlight # ro
  <2>1. Resolved(w, ro, fresh) = Quiet(w)
    BY <1>1 DEF Resolved
  <2> QED BY <2>1 DEF Quiet, Kept, Result
<1>2. CASE w.inFlight = ro
  <2> DEFINE v == [w EXCEPT !.inFlight = NoRO, !.request = NoRequest]
  <2>1. /\ w \in Walks /\ SlotInOrder(w) /\ QueueInOrder(w) /\ MaxQueue \in Nat
        /\ w.pending \in Seq(ROs) /\ Len(w.pending) \in Nat /\ ro # NoRO
    BY WalkFacts, WalkAssumption DEF WalkInOrder
  <2>2. Resolved(w, ro, fresh) = TakeOrSave(v, fresh)
    BY <1>2 DEF Resolved
  <2>3. /\ v \in Walks /\ v.pending = w.pending /\ v.inFlight = NoRO
        /\ v.catalogue = w.catalogue /\ v.request = NoRequest
    BY <2>1, NoRequestFacts DEF Walks, Targets
  <2> HIDE DEF v
  <2>4. SlotInOrder(v)
    BY <1>2, <2>1, <2>3, NoRequestFacts DEF SlotInOrder, Busy
  <2>5. IsDistinct(w.pending) /\ Len(w.pending) <= MaxQueue
    BY <1>2, <2>1, QueueFacts
  <2>6. QueueInOrder(v)
    BY <2>1, <2>3, <2>5, QueueFacts
  <2>7. WalkInOrder(v)
    BY <2>3, <2>4, <2>6 DEF WalkInOrder
  <2>8. Renewed(v, fresh)
    BY <2>3, NoRequestFacts DEF Renewed
  <2> QED BY <2>2, <2>7, <2>8, TakeOrSaveFacts DEF Result
<1> QED BY <1>1, <1>2

\* nudge: a slot that is being answered stays as it is, and on MOS 2.x only a
\* request that no connection was given is dropped.
LEMMA NudgeFacts ==
    ASSUME NEW w, WalkInOrder(w), NEW fresh \in Attempts
    PROVE  LET result == Nudge(w, fresh)
           IN  /\ Result(w, result)
               /\ result.saved = "no" => Work(result.walk) = Work(w)
               /\ \/ Kept(w, result.walk)
                  \/ /\ Renewed(result.walk, fresh)
                     /\ "replying" \notin w.request.marks
                     /\ Native => w.request.session = NoSession
<1>0. /\ w \in Walks /\ SlotInOrder(w) /\ QueueInOrder(w) /\ MaxQueue \in Nat
      /\ w.pending \in Seq(ROs) /\ Len(w.pending) \in Nat /\ w.request \in Requests
      /\ w.inFlight \in Targets /\ w.catalogue \subseteq {"pending", "inFlight"}
  BY WalkFacts, WalkAssumption DEF WalkInOrder
<1>1. CASE ~Busy(w)
  <2>1. Nudge(w, fresh) = TakeLocked(w, fresh)
    BY <1>1 DEF Nudge
  <2>2. CASE TakeLocked(w, fresh) = Quiet(w)
    BY <2>1, <2>2 DEF Quiet, Kept, Result
  <2>3. CASE TakeLocked(w, fresh) # Quiet(w)
    <3>1. LET result == TakeLocked(w, fresh)
          IN  /\ Result(w, result) /\ w.request = NoRequest
              /\ Renewed(result.walk, fresh) /\ result.saved = "yes"
      BY <2>3, TakeFacts
    <3> QED BY <2>1, <3>1, NoRequestFacts
  <2> QED BY <2>2, <2>3
<1>2. CASE Busy(w) /\ ~Overdue(w)
  <2>1. Nudge(w, fresh) = Quiet(w)
    BY <1>2 DEF Nudge
  <2> QED BY <2>1 DEF Quiet, Kept, Result
<1>3. CASE Busy(w) /\ Overdue(w) /\ Native /\ w.request.session # NoSession
  <2> DEFINE marks == w.request.marks \cup {"expired"}
             v == [w EXCEPT !.request.marks = marks]
  <2>1. marks \subseteq {"replying", "expired"} /\ "replying" \notin marks
    BY <1>0, <1>3 DEF Overdue, Requests
  <2>2. w.request.attempt # NoAttempt
    BY <1>0, <1>3 DEF SlotInOrder
  <2>3. Nudge(w, fresh) = [Quiet(v) EXCEPT !.ask = {w.inFlight}]
    BY <1>3, <2>2 DEF Nudge
  <2> HIDE DEF marks
  <2>4. /\ v \in Walks /\ v.pending = w.pending /\ v.inFlight = w.inFlight
        /\ v.catalogue = w.catalogue /\ v.request.marks = marks
        /\ v.request.attempt = w.request.attempt /\ v.request.target = w.request.target
        /\ v.request.session = w.request.session
    BY <1>0, <2>1 DEF Walks, Requests
  <2> HIDE DEF v
  <2>5. SlotInOrder(v)
    BY <1>0, <1>3, <2>1, <2>4 DEF SlotInOrder, Busy
  <2>6. Work(v) = Work(w)
    BY <2>4 DEF Work
  <2>7. WalkInOrder(v) /\ Kept(w, v)
    BY <1>0, <1>3, <2>1, <2>4, <2>5, <2>6 DEF WalkInOrder, QueueInOrder, Kept, Overdue
  <2>8. LET result == Nudge(w, fresh)
        IN  result.walk = v /\ result.ask = {w.inFlight} /\ result.saved = "no"
    BY <2>3 DEF Quiet
  <2> QED BY <1>0, <2>6, <2>7, <2>8 DEF Result
<1>4. CASE Busy(w) /\ Overdue(w) /\ ~(Native /\ w.request.session # NoSession)
  <2> DEFINE c == IF "inFlight" \in w.catalogue THEN {"pending"} ELSE w.catalogue
             v == [w EXCEPT !.inFlight = NoRO, !.request = NoRequest, !.catalogue = c]
  <2>1. c \subseteq {"pending", "inFlight"} /\ "inFlight" \notin c
    BY <1>0
  <2>2. Nudge(w, fresh) = TakeOrSave(v, fresh)
    BY <1>4 DEF Nudge
  <2> HIDE DEF c
  <2>3. /\ v \in Walks /\ v.pending = w.pending /\ v.inFlight = NoRO
        /\ v.catalogue = c /\ v.request = NoRequest
    BY <1>0, <2>1, NoRequestFacts DEF Walks, Targets
  <2> HIDE DEF v
  <2>4. SlotInOrder(v)
    BY <2>1, <2>3, NoRequestFacts DEF SlotInOrder, Busy
  <2>5. IsDistinct(w.pending) /\ Len(w.pending) <= MaxQueue + 1
    BY <1>0, QueueFacts
  <2>6. QueueInOrder(v)
    BY <2>3, <2>5, QueueFacts
  <2>7. WalkInOrder(v)
    BY <2>3, <2>4, <2>6 DEF WalkInOrder
  <2>8. Renewed(v, fresh)
    BY <2>3, NoRequestFacts DEF Renewed
  <2>9. "replying" \notin w.request.marks
    BY <1>4 DEF Overdue
  <2>10. LET result == TakeOrSave(v, fresh)
         IN  Result(v, result) /\ result.saved = "yes" /\ Renewed(result.walk, fresh)
    BY <2>7, <2>8, TakeOrSaveFacts
  <2> QED BY <1>4, <2>2, <2>9, <2>10 DEF Result
<1> QED BY <1>1, <1>2, <1>3, <1>4

\* registerRequest: the slot's request, or a new one for the same target when
\* the last was given up, belongs to the session; it is not being answered.
LEMMA RegisterFacts ==
    ASSUME NEW w, WalkInOrder(w), NEW fresh \in Attempts, NEW t \in Targets,
           NEW s \in Sessions, Registrable(w, t, s)
    PROVE  LET v == RegisterRequest(w, t, s, fresh)
           IN  /\ WalkInOrder(v) /\ Work(v) = Work(w)
               /\ "replying" \notin w.request.marks /\ "replying" \notin v.request.marks
               /\ v.request.attempt \in Attempts
               /\ v.request.session = s /\ v.request.target = t
               /\ \/ v.request.attempt = w.request.attempt /\ w.request.session = NoSession
                  \/ v.request.attempt = fresh /\ w.request.session # s
<1> DEFINE old == IF w.request.session = NoSession THEN w.request ELSE NewRequest(t, fresh)
           req == [old EXCEPT !.session = s]
           v == [w EXCEPT !.request = req, !.deadline = "ahead"]
<1>0. /\ w \in Walks /\ SlotInOrder(w) /\ QueueInOrder(w)
      /\ w.request \in Requests /\ w.request.attempt \in Attempts \cup {NoAttempt}
  BY WalkFacts DEF WalkInOrder
<1>1. /\ old \in Requests /\ old.target = t /\ old.attempt \in Attempts
      /\ "replying" \notin old.marks
      /\ \/ old.attempt = w.request.attempt /\ w.request.session = NoSession
         \/ old.attempt = fresh /\ w.request.session # s
  BY <1>0, NewRequestFacts, WalkAssumption DEF Registrable, SlotInOrder
<1>2. RegisterRequest(w, t, s, fresh) = v
  BY DEF RegisterRequest
<1>3. "replying" \notin w.request.marks
  BY <1>0 DEF Registrable, SlotInOrder
<1> HIDE DEF old
<1>4. /\ req \in Requests /\ req.target = t /\ req.attempt = old.attempt
      /\ req.session = s /\ req.marks = old.marks
  BY <1>1 DEF Requests
<1> HIDE DEF req
<1>5. /\ v \in Walks /\ v.pending = w.pending /\ v.inFlight = w.inFlight
      /\ v.catalogue = w.catalogue /\ v.request = req
  BY <1>0, <1>4 DEF Walks
<1> HIDE DEF v
<1>6. SlotInOrder(v)
  <2>1. Busy(w) /\ w.request.target = t
    BY <1>0, NoRequestFacts DEF SlotInOrder, Registrable
  <2> QED BY <1>0, <1>1, <1>4, <1>5, <2>1, WalkAssumption DEF SlotInOrder, Busy
<1>7. Work(v) = Work(w)
  BY <1>5 DEF Work
<1>8. WalkInOrder(v)
  BY <1>0, <1>5, <1>6, <1>7 DEF WalkInOrder, QueueInOrder
<1> QED BY <1>1, <1>2, <1>3, <1>4, <1>5, <1>7, <1>8

\* The marks of the request in the slot.
LEMMA MarksFacts ==
    ASSUME NEW w, WalkInOrder(w), NEW marks \in SUBSET {"replying", "expired"},
           w.request.attempt # NoAttempt,
           "replying" \in marks => "expired" \notin marks /\ w.request.session # NoSession
    PROVE  LET v == [w EXCEPT !.request.marks = marks]
           IN  /\ WalkInOrder(v) /\ Work(v) = Work(w)
               /\ v.request.attempt = w.request.attempt
               /\ v.request.session = w.request.session
               /\ v.request.target = w.request.target
               /\ v.request.marks = marks
<1> DEFINE v == [w EXCEPT !.request.marks = marks]
<1>0. w \in Walks /\ SlotInOrder(w) /\ QueueInOrder(w) /\ w.request \in Requests
  BY WalkFacts DEF WalkInOrder
<1>1. /\ v \in Walks /\ v.pending = w.pending /\ v.inFlight = w.inFlight
      /\ v.catalogue = w.catalogue /\ v.request.marks = marks
      /\ v.request.attempt = w.request.attempt /\ v.request.target = w.request.target
      /\ v.request.session = w.request.session
  BY <1>0 DEF Walks, Requests
<1> HIDE DEF v
<1>2. Busy(w)
  BY <1>0, NoRequestFacts DEF SlotInOrder
<1>3. SlotInOrder(v)
  BY <1>0, <1>1, <1>2 DEF SlotInOrder, Busy
<1>4. Work(v) = Work(w)
  BY <1>1 DEF Work
<1>5. WalkInOrder(v)
  BY <1>0, <1>1, <1>3, <1>4 DEF WalkInOrder, QueueInOrder
<1> QED BY <1>1, <1>4, <1>5 DEF v

\* failedRequest: on MOS 2.x the request is given up, on MOS 4 it goes back to
\* what waits.
LEMMA FailedFacts ==
    ASSUME NEW w, WalkInOrder(w), NEW a \in Attempts, Failable(w, a)
    PROVE  LET result == FailedRequest(w)
           IN  /\ Result(w, result) /\ result.saved = "yes"
               /\ "replying" \notin w.request.marks
               /\ \/ Kept(w, result.walk)
                  \/ ~Native /\ Renewed(result.walk, a)
<1>0. /\ w \in Walks /\ SlotInOrder(w) /\ QueueInOrder(w) /\ MaxQueue \in Nat
      /\ w.pending \in Seq(ROs) /\ Len(w.pending) \in Nat /\ w.request \in Requests
      /\ w.request.marks \subseteq {"replying", "expired"}
      /\ w.inFlight \in Targets /\ w.catalogue \subseteq {"pending", "inFlight"}
  BY WalkFacts, WalkAssumption DEF WalkInOrder
<1>1. "replying" \notin w.request.marks /\ w.request.attempt # NoAttempt
  BY WalkAssumption DEF Failable
<1>2. Busy(w)
  BY <1>0, <1>1, NoRequestFacts DEF SlotInOrder
<1>3. CASE Native
  <2> DEFINE marks == w.request.marks \cup {"expired"}
             u == [w EXCEPT !.request.marks = marks]
             v == [w EXCEPT !.request.marks = marks, !.deadline = "passed"]
  <2>1. marks \in SUBSET {"replying", "expired"} /\ "replying" \notin marks
    BY <1>0, <1>1
  <2>2. FailedRequest(w) = Saved(v)
    BY <1>3 DEF FailedRequest
  <2> HIDE DEF marks
  <2>3. /\ v \in Walks /\ v.pending = w.pending /\ v.inFlight = w.inFlight
        /\ v.catalogue = w.catalogue /\ v.request.marks = marks
        /\ v.request.attempt = w.request.attempt /\ v.request.target = w.request.target
        /\ v.request.session = w.request.session
    BY <1>0, <2>1 DEF Walks, Requests
  <2> HIDE DEF v
  <2>4. SlotInOrder(v)
    BY <1>0, <1>2, <2>1, <2>3 DEF SlotInOrder, Busy
  <2>5. Work(v) = Work(w)
    BY <2>3 DEF Work
  <2>6. WalkInOrder(v) /\ Kept(w, v)
    BY <1>0, <1>1, <2>1, <2>3, <2>4, <2>5 DEF WalkInOrder, QueueInOrder, Kept
  <2> QED BY <1>1, <2>2, <2>6 DEF Saved, Result
<1>4. CASE ~Native /\ "inFlight" \in w.catalogue
  <2> DEFINE v == [w EXCEPT !.catalogue = {"pending"}, !.request = NoRequest]
  <2>1. FailedRequest(w) = Saved(v)
    BY <1>4 DEF FailedRequest
  <2>2. /\ v \in Walks /\ v.pending = w.pending /\ v.inFlight = w.inFlight
        /\ v.catalogue = {"pending"} /\ v.request = NoRequest
    BY <1>0, NoRequestFacts DEF Walks
  <2> HIDE DEF v
  <2>3. SlotInOrder(v)
    BY <1>0, <1>4, <2>2, NoRequestFacts DEF SlotInOrder, Busy
  <2>4. Work(v).pending = Work(w).pending
    BY <2>2 DEF Work
  <2>5. WalkInOrder(v)
    BY <1>0, <2>2, <2>3, <2>4 DEF WalkInOrder, QueueInOrder
  <2>6. Renewed(v, a)
    BY <2>2, NoRequestFacts DEF Renewed
  <2> QED BY <1>1, <1>4, <2>1, <2>5, <2>6 DEF Saved, Result
<1>5. CASE ~Native /\ "inFlight" \notin w.catalogue
  <2> DEFINE p == <<w.inFlight>> \o w.pending
             v == [w EXCEPT !.pending = p, !.inFlight = NoRO, !.request = NoRequest]
  <2>1. FailedRequest(w) = Saved(v)
    BY <1>5 DEF FailedRequest
  <2>2. w.inFlight # NoRO /\ w.inFlight \in ROs
    BY <1>0, <1>2, <1>5 DEF Busy, Targets
  <2>3. p \in Seq(ROs) /\ Work(w).pending = p
    BY <1>0, <2>2, ConsFacts, WorkFacts
  <2> HIDE DEF p
  <2>4. /\ v \in Walks /\ v.pending = p /\ v.inFlight = NoRO
        /\ v.catalogue = w.catalogue /\ v.request = NoRequest
    BY <1>0, <2>3, NoRequestFacts DEF Walks, Targets
  <2> HIDE DEF v
  <2>5. SlotInOrder(v)
    BY <1>5, <2>4, NoRequestFacts DEF SlotInOrder, Busy
  <2>6. Work(v).pending = Work(w).pending
    BY <2>3, <2>4, WorkFacts
  <2>7. WalkInOrder(v)
    BY <1>0, <2>4, <2>5, <2>6 DEF WalkInOrder, QueueInOrder
  <2>8. Renewed(v, a)
    BY <2>4, NoRequestFacts DEF Renewed
  <2> QED BY <1>1, <1>5, <2>1, <2>7, <2>8 DEF Saved, Result
<1> QED BY <1>3, <1>4, <1>5

\* openDiscoveryWalk: a walk at rest, with the saved work.
LEMMA LoadFacts ==
    ASSUME NEW work \in [pending : Seq(ROs), catalogue : SUBSET {"pending"}],
           IsDistinct(work.pending)
    PROVE  /\ WalkInOrder(Load(work)) /\ Load(work).request = NoRequest
           /\ Load(work).inFlight = NoRO
           /\ Members(Load(work).pending) \subseteq Members(work.pending)
           /\ Work(Load(work)).catalogue = work.catalogue
<1> DEFINE p == IF Len(work.pending) > MaxQueue THEN SubSeq(work.pending, 1, MaxQueue)
                                                ELSE work.pending
           c == work.catalogue
           v == [EmptyWalk EXCEPT !.pending = p, !.catalogue = c]
<1>1. MaxQueue \in Nat /\ work.pending \in Seq(ROs) /\ c \subseteq {"pending"}
  BY WalkAssumption
<1>2. /\ p \in Seq(ROs) /\ IsDistinct(p) /\ Members(p) \subseteq Members(work.pending)
      /\ Len(p) <= MaxQueue
  BY <1>1, CutFacts
<1>3. Load(work) = v
  BY DEF Load
<1>4. EmptyWalk \in Walks /\ EmptyWalk.request = NoRequest /\ EmptyWalk.inFlight = NoRO
  BY NoRequestFacts DEF EmptyWalk, Walks, Targets
<1> HIDE DEF p, c
<1>5. /\ v \in Walks /\ v.pending = p /\ v.catalogue = c /\ v.request = NoRequest
      /\ v.inFlight = NoRO
  BY <1>1, <1>2, <1>4 DEF Walks
<1> HIDE DEF v
<1>6. SlotInOrder(v)
  BY <1>1, <1>5, NoRequestFacts DEF SlotInOrder, Busy
<1>7. QueueInOrder(v)
  <2>1. Len(p) \in Nat /\ Len(p) <= MaxQueue + 1
    BY <1>1, <1>2
  <2> QED BY <1>2, <1>5, <2>1, QueueFacts
<1>8. Work(v).catalogue = c
  BY <1>1, <1>5 DEF Work
<1> QED BY <1>2, <1>3, <1>5, <1>6, <1>7, <1>8 DEF WalkInOrder, c

-----------------------------------------------------------------------------
(* Handlers.                                                               *)

\* Where a goroutine sends, or asks for the catalogue, on its way to back.
Sending == {"refresh", "register", "write", "failed"}

\* The goroutine has read a message and not settled it.
Unsettled(h) ==
    h.pc \in {"apply", "settle"} \/ (h.pc \in Sending /\ h.back = "settle")

\* It has settled the answer it claimed, and is to release the slot.
Releasing(h) ==
    h.pc = "release" \/ (h.pc \in Sending /\ h.back = "release")

\* What a goroutine knows at each step: a claim lives from the answer to the
\* release, lists are applied under a claim only, and a request that is being
\* written has a registration.
HandlerInOrder(h) ==
    /\ h.claim # NoAttempt => Unsettled(h) \/ Releasing(h)
    /\ Releasing(h) => h.claim # NoAttempt
    /\ Unsettled(h) => /\ h.kind \in {"catalogue", "roster"} => h.claim # NoAttempt
                       /\ h.kind \in {"roster", "content"} => h.ro \in ROs
                       /\ h.kind = "catalogue" => h.ro = NoRO
    /\ h.pc \in {"write", "failed"} => h.attempt \in Attempts /\ h.lane \in Sessions

\* The goroutine is applying the answer it claimed.
Holding(h) == h.claim # NoAttempt /\ Unsettled(h)

\* The slot and the goroutines that claimed it, now or before.
SlotHeld(w, hs) ==
    /\ \A s \in Sessions : Holding(hs[s]) =>
          w.request.attempt = hs[s].claim /\ "replying" \in w.request.marks
    /\ "replying" \in w.request.marks =>
          \E s \in Sessions : hs[s].claim = w.request.attempt
    /\ \A s \in Sessions : hs[s].claim # NoAttempt /\ hs[s].claim = w.request.attempt
          => "replying" \in w.request.marks
    /\ \A s, t \in Sessions : hs[s].claim # NoAttempt /\ hs[s].claim = hs[t].claim
          => s = t

\* discovery.json d against the walk w, when what recovery queued is u.
DiskInOrder(d, m, w, u) ==
    /\ d \in [pending : Seq(ROs), catalogue : SUBSET {"pending"}]
    /\ IsDistinct(d.pending)
    /\ m = "durable" => /\ Members(Load(d).pending) \subseteq Outstanding(w)
                        /\ d.catalogue \subseteq Work(w).catalogue
                        /\ Outstanding(w) \subseteq Members(d.pending) \cup u

\* The inductive invariant of the walk, its callers and discovery.json.
CoreInv ==
    /\ handler \in [Sessions -> Handlers]
    /\ mode \in {"durable", "degraded"}
    /\ urgent \subseteq ROs
    /\ WalkInOrder(walk)
    /\ \A s \in Sessions : HandlerInOrder(handler[s])
    /\ SlotHeld(walk, handler)
    /\ DiskInOrder(disk, mode, walk, urgent)

-----------------------------------------------------------------------------
(* Moves of a goroutine.                                                   *)

\* A goroutine on its way to back: there, or about to send first.
OnWay(h, g, back) ==
    /\ g \in Handlers
    /\ g.claim = h.claim
    /\ g.pc = back \/ (g.pc = "register" /\ g.back = back)
    /\ back = "settle" => g.kind = h.kind /\ g.ro = h.ro

\* Only the goroutine of connection s moved.
Only(s) ==
    /\ handler' \in [Sessions -> Handlers]
    /\ \A t \in Sessions : t # s => handler'[t] = handler[t]

\* The fields of a goroutine.
LEMMA HandlerFacts ==
    ASSUME NEW h \in Handlers
    PROVE  /\ h.pc \in {"idle", "refresh", "apply", "settle", "register",
                        "write", "failed", "release", "advance"}
           /\ h.back \in {"idle", "settle", "release", "advance"}
           /\ h.kind \in Kinds /\ h.ro \in Targets
           /\ h.outcome \in {"none", "applied", "recover", "failed"}
           /\ h.claim \in Attempts \cup {NoAttempt} /\ h.target \in Targets
           /\ h.lane \in Sessions \cup {NoSession}
           /\ h.attempt \in Attempts \cup {NoAttempt}
  BY DEF Handlers

\* A goroutine with nothing to do.
LEMMA IdleFacts ==
    /\ Idle \in Handlers /\ Idle.pc = "idle" /\ Idle.claim = NoAttempt
    /\ HandlerInOrder(Idle) /\ ~Holding(Idle)
<1>1. Idle \in Handlers /\ Idle.pc = "idle" /\ Idle.claim = NoAttempt
  BY DEF Idle, Handlers, Kinds, Targets
<1> QED BY <1>1 DEF HandlerInOrder, Unsettled, Releasing, Sending, Holding

\* At keeps the claim, and all of a goroutine that is not through.
LEMMA AtFacts ==
    ASSUME NEW h \in Handlers,
           NEW pc \in {"idle", "settle", "failed", "release", "advance"}
    PROVE  LET g == At(h, pc)
           IN  /\ g \in Handlers /\ g.pc = pc /\ g.claim = h.claim
               /\ pc \in {"settle", "failed"} =>
                     /\ g.back = h.back /\ g.kind = h.kind /\ g.ro = h.ro
                     /\ g.target = h.target /\ g.lane = h.lane /\ g.attempt = h.attempt
<1> DEFINE c == h.claim
<1>0. c \in Attempts \cup {NoAttempt}
  BY HandlerFacts
<1>1. CASE pc \in {"idle", "advance", "release"}
  <2> DEFINE g == [Idle EXCEPT !.pc = pc, !.claim = c]
  <2>1. At(h, pc) = g
    BY <1>1 DEF At
  <2> HIDE DEF c
  <2>2. g \in Handlers /\ g.pc = pc /\ g.claim = c
    BY <1>0, <1>1, IdleFacts DEF Handlers
  <2> QED BY <1>1, <2>1, <2>2 DEF c
<1>2. CASE pc \in {"settle", "failed"}
  <2>1. At(h, pc) = [h EXCEPT !.pc = pc]
    BY <1>2 DEF At
  <2> QED BY <1>2, <2>1 DEF Handlers
<1> QED BY <1>1, <1>2

\* The goroutine continues at once.
LEMMA GoToFacts ==
    ASSUME handler \in [Sessions -> Handlers], NEW s \in Sessions,
           NEW back \in {"idle", "settle", "release", "advance"}, GoTo(s, back)
    PROVE  Only(s) /\ OnWay(handler[s], handler'[s], back)
<1> DEFINE g == At(handler[s], back)
<1>1. handler' = [handler EXCEPT ![s] = g]
  BY DEF GoTo
<1>2. g \in Handlers /\ OnWay(handler[s], g, back)
  BY AtFacts DEF OnWay
<1> HIDE DEF g
<1> QED BY <1>1, <1>2 DEF Only

\* The walk returned and the goroutine goes on.
LEMMA ContinueFacts ==
    ASSUME handler \in [Sessions -> Handlers], NEW s \in Sessions, NEW result,
           result.ask \subseteq Targets,
           NEW back \in {"idle", "settle", "release", "advance"},
           Continue(s, result, back)
    PROVE  walk' = result.walk /\ Only(s) /\ OnWay(handler[s], handler'[s], back)
<1>1. walk' = result.walk
  BY DEF Continue
<1>2. CASE GoTo(s, back)
  BY <1>1, <1>2, GoToFacts
<1>3. ASSUME NEW t \in result.ask,
             handler' = [handler EXCEPT ![s] =
                [At(@, back) EXCEPT !.pc = "register", !.back = back, !.target = t]]
      PROVE  Only(s) /\ OnWay(handler[s], handler'[s], back)
  <2> DEFINE f == At(handler[s], back)
             g == [f EXCEPT !.pc = "register", !.back = back, !.target = t]
  <2>1. handler' = [handler EXCEPT ![s] = g]
    BY <1>3
  <2>2. /\ f \in Handlers /\ f.claim = handler[s].claim
        /\ back = "settle" => f.kind = handler[s].kind /\ f.ro = handler[s].ro
    BY AtFacts
  <2>3. t \in Targets
    OBVIOUS
  <2> HIDE DEF f
  <2>4. /\ g \in Handlers /\ g.pc = "register" /\ g.back = back /\ g.claim = f.claim
        /\ g.kind = f.kind /\ g.ro = f.ro
    BY <2>2, <2>3 DEF Handlers
  <2>5. OnWay(handler[s], g, back)
    BY <2>2, <2>4 DEF OnWay
  <2> HIDE DEF g
  <2> QED BY <2>1, <2>4, <2>5 DEF Only
<1>4. GoTo(s, back) \/ \E t \in result.ask :
         handler' = [handler EXCEPT ![s] =
            [At(@, back) EXCEPT !.pc = "register", !.back = back, !.target = t]]
  BY DEF Continue
<1> QED BY <1>1, <1>2, <1>3, <1>4

\* The send is over.
LEMMA ResumeFacts ==
    ASSUME handler \in [Sessions -> Handlers], NEW s \in Sessions, Resume(s)
    PROVE  /\ Only(s) /\ OnWay(handler[s], handler'[s], handler[s].back)
           /\ handler'[s].pc = handler[s].back
<1> DEFINE back == handler[s].back
           f == At(handler[s], back)
           g == [f EXCEPT !.target = NoRO, !.lane = NoSession, !.attempt = NoAttempt]
<1>1. handler' = [handler EXCEPT ![s] = g]
  BY DEF Resume
<1>2. back \in {"idle", "settle", "release", "advance"}
  BY HandlerFacts
<1>3. /\ f \in Handlers /\ f.pc = back /\ f.claim = handler[s].claim
      /\ back = "settle" => f.kind = handler[s].kind /\ f.ro = handler[s].ro
  BY <1>2, AtFacts
<1> HIDE DEF f
<1>4. /\ g \in Handlers /\ g.pc = back /\ g.claim = f.claim
      /\ g.kind = f.kind /\ g.ro = f.ro
  BY <1>3 DEF Handlers, Targets
<1>5. OnWay(handler[s], g, back)
  BY <1>3, <1>4 DEF OnWay
<1> HIDE DEF g
<1> QED BY <1>1, <1>4, <1>5 DEF Only

\* A goroutine that goes where its claim allows stays in order, and holds the
\* slot only if it held it.
LEMMA OnWayFacts ==
    ASSUME NEW h \in Handlers, NEW g,
           NEW back \in {"idle", "settle", "release", "advance"},
           HandlerInOrder(h), OnWay(h, g, back),
           back \in {"idle", "advance"} => h.claim = NoAttempt,
           back = "release" => h.claim # NoAttempt,
           back = "settle" => Unsettled(h)
    PROVE  /\ HandlerInOrder(g) /\ g.claim = h.claim
           /\ Holding(g) => Holding(h) /\ back = "settle"
           /\ g.pc \notin {"write", "failed"}
<1>1. g.claim = h.claim /\ g.pc \notin {"write", "failed"}
  BY DEF OnWay
<1>2. (Unsettled(g) <=> back = "settle") /\ (Releasing(g) <=> back = "release")
  BY DEF OnWay, Unsettled, Releasing, Sending
<1>3. back = "settle" => g.kind = h.kind /\ g.ro = h.ro
  BY DEF OnWay
<1> QED BY <1>1, <1>2, <1>3 DEF HandlerInOrder, Holding

-----------------------------------------------------------------------------
(* What a step leaves in order.                                            *)

\* The slot went from w to v by a step of the goroutine that was h and is g:
\* the request stayed, or it was replaced by none or one that nobody claims,
\* while nobody was answering or by the one who was.
Passes(w, v, hs, h, g) ==
    \/ Kept(w, v)
    \/ /\ \A t \in Sessions : hs[t].claim # NoAttempt => hs[t].claim # v.request.attempt
       /\ "replying" \notin v.request.marks
       /\ "replying" \notin w.request.marks \/ (Holding(h) /\ ~Holding(g))

\* A slot that passes is still held by those who answer it.
LEMMA PassesFacts ==
    ASSUME NEW w, NEW v, NEW hs, NEW gs, NEW s \in Sessions,
           SlotHeld(w, hs),
           \A t \in Sessions : t # s => gs[t] = hs[t],
           gs[s].claim = hs[s].claim,
           Holding(gs[s]) => Holding(hs[s]),
           Passes(w, v, hs, hs[s], gs[s])
    PROVE  SlotHeld(v, gs)
<1>1. \A t \in Sessions : gs[t].claim = hs[t].claim /\ (Holding(gs[t]) => Holding(hs[t]))
  OBVIOUS
<1>2. CASE Kept(w, v)
  BY <1>1, <1>2 DEF SlotHeld, Kept
<1>3. CASE ~Kept(w, v)
  <2>1. /\ \A t \in Sessions : hs[t].claim # NoAttempt => hs[t].claim # v.request.attempt
        /\ "replying" \notin v.request.marks
        /\ "replying" \notin w.request.marks \/ (Holding(hs[s]) /\ ~Holding(gs[s]))
    BY <1>3 DEF Passes
  <2>2. \A t \in Sessions : ~Holding(gs[t])
    <3> SUFFICES ASSUME NEW t \in Sessions, Holding(gs[t]) PROVE FALSE
      OBVIOUS
    <3>1. Holding(hs[t]) /\ hs[t].claim # NoAttempt
      BY <1>1 DEF Holding
    <3>2. "replying" \in w.request.marks /\ w.request.attempt = hs[t].claim
      BY <3>1 DEF SlotHeld
    <3>3. Holding(hs[s]) /\ ~Holding(gs[s])
      BY <2>1, <3>2
    <3>4. w.request.attempt = hs[s].claim
      BY <3>3 DEF SlotHeld
    <3>5. s = t
      BY <3>1, <3>2, <3>4 DEF SlotHeld
    <3> QED BY <3>3, <3>5
  <2> QED BY <1>1, <2>1, <2>2 DEF SlotHeld
<1> QED BY <1>2, <1>3

\* A fresh identity is one that nothing refers to.
LEMMA FreshFacts ==
    ASSUME NEW fresh \in Fresh
    PROVE  /\ fresh \in Attempts
           /\ \A t \in Sessions : handler[t].claim # fresh
  BY DEF Fresh, InUse

\* A slot renewed with a fresh identity, or none, passes.
LEMMA RenewedPasses ==
    ASSUME NEW w, NEW v, NEW h, NEW g, NEW fresh \in Fresh, Renewed(v, fresh),
           "replying" \notin w.request.marks \/ (Holding(h) /\ ~Holding(g))
    PROVE  Passes(w, v, handler, h, g)
  BY FreshFacts DEF Passes, Renewed

\* persistLocked: what is saved is what is left to do.
LEMMA PersistedFacts ==
    ASSUME NEW result, WalkInOrder(result.walk), result.saved \in {"yes", "no"},
           result.saved = "no" =>
              /\ Outstanding(result.walk) = Outstanding(walk)
              /\ Work(result.walk).catalogue = Work(walk).catalogue,
           DiskInOrder(disk, mode, walk, urgent),
           mode \in {"durable", "degraded"}, urgent \subseteq ROs,
           Persisted(result)
    PROVE  /\ DiskInOrder(disk', mode', result.walk, urgent')
           /\ mode' \in {"durable", "degraded"} /\ urgent' \subseteq ROs
<1>1. CASE result.saved = "no" /\ UNCHANGED <<disk, mode, urgent>>
  BY <1>1 DEF DiskInOrder
<1>2. CASE mode = "degraded" /\ UNCHANGED <<disk, mode, urgent>>
  BY <1>2 DEF DiskInOrder
<1>3. CASE mode = "durable" /\ disk' = Work(result.walk) /\ urgent' = {} /\ UNCHANGED mode
  <2> DEFINE work == Work(result.walk)
  <2>1. work \in [pending : Seq(ROs), catalogue : SUBSET {"pending"}] /\ IsDistinct(work.pending)
    BY WorkFacts DEF WalkInOrder, QueueInOrder
  <2>2. Members(Load(work).pending) \subseteq Members(work.pending)
    BY <2>1, LoadFacts
  <2> QED BY <1>3, <2>1, <2>2 DEF DiskInOrder, Outstanding
<1>4. CASE mode' = "degraded" /\ UNCHANGED <<disk, urgent>>
  BY <1>4 DEF DiskInOrder
<1> QED BY <1>1, <1>2, <1>3, <1>4 DEF Persisted

\* A step of one goroutine that keeps each part keeps the whole.
LEMMA CoreMove ==
    ASSUME CoreInv, NEW s \in Sessions, Only(s),
           HandlerInOrder(handler'[s]), handler'[s].claim = handler[s].claim,
           Holding(handler'[s]) => Holding(handler[s]),
           WalkInOrder(walk'),
           Passes(walk, walk', handler, handler[s], handler'[s]),
           DiskInOrder(disk', mode', walk', urgent'),
           mode' \in {"durable", "degraded"}, urgent' \subseteq ROs
    PROVE  CoreInv'
<1>1. SlotHeld(walk', handler')
  BY PassesFacts DEF CoreInv, Only
<1>2. \A t \in Sessions : HandlerInOrder(handler'[t])
  BY DEF CoreInv, Only
<1> QED BY <1>1, <1>2 DEF CoreInv, Only, SlotHeld, DiskInOrder, WalkInOrder,
           HandlerInOrder

\* A goroutine called a method of the walk and goes on to back.
LEMMA MethodMove ==
    ASSUME CoreInv, NEW s \in Sessions, NEW result, Result(walk, result),
           result.saved = "no" => Work(result.walk) = Work(walk),
           NEW back \in {"idle", "settle", "release", "advance"},
           Continue(s, result, back), Persisted(result),
           back \in {"idle", "advance"} => handler[s].claim = NoAttempt,
           back = "release" => handler[s].claim # NoAttempt,
           back = "settle" => Unsettled(handler[s]),
           NEW fresh \in Fresh,
           \/ Kept(walk, result.walk)
           \/ /\ Renewed(result.walk, fresh)
              /\ \/ "replying" \notin walk.request.marks
                 \/ Holding(handler[s]) /\ back = "release"
    PROVE  CoreInv'
<1>1. result.ask \subseteq Targets /\ WalkInOrder(result.walk) /\ result.saved \in {"yes", "no"}
  BY DEF Result
<1>2. walk' = result.walk /\ Only(s) /\ OnWay(handler[s], handler'[s], back)
  BY <1>1, ContinueFacts DEF CoreInv
<1>3. /\ HandlerInOrder(handler'[s]) /\ handler'[s].claim = handler[s].claim
      /\ Holding(handler'[s]) => Holding(handler[s]) /\ back = "settle"
  BY <1>2, OnWayFacts DEF CoreInv
<1>4. /\ DiskInOrder(disk', mode', result.walk, urgent')
      /\ mode' \in {"durable", "degraded"} /\ urgent' \subseteq ROs
  BY <1>1, PersistedFacts DEF CoreInv, Outstanding
<1>5. Passes(walk, result.walk, handler, handler[s], handler'[s])
  <2>1. CASE Kept(walk, result.walk)
    BY <2>1 DEF Passes
  <2>2. CASE Renewed(result.walk, fresh) /\ "replying" \notin walk.request.marks
    BY <2>2, RenewedPasses
  <2>3. CASE Renewed(result.walk, fresh) /\ Holding(handler[s]) /\ back = "release"
    BY <1>3, <2>3, RenewedPasses
  <2> QED BY <2>1, <2>2, <2>3
<1> QED BY <1>1, <1>2, <1>3, <1>4, <1>5, CoreMove

\* A goroutine moves on its own, and neither the walk nor the file changes.
LEMMA QuietMove ==
    ASSUME CoreInv, NEW s \in Sessions, NEW g \in Handlers,
           handler' = [handler EXCEPT ![s] = g],
           HandlerInOrder(g), g.claim = handler[s].claim,
           Holding(g) => Holding(handler[s]),
           UNCHANGED <<walk, disk, mode, urgent>>
    PROVE  CoreInv'
<1>1. Only(s) /\ handler'[s] = g
  BY DEF CoreInv, Only
<1>2. Passes(walk, walk', handler, handler[s], handler'[s])
  BY DEF Passes, Kept
<1> QED BY <1>1, <1>2, CoreMove DEF CoreInv

\* A goroutine goes straight to back.
LEMMA GoMove ==
    ASSUME CoreInv, NEW s \in Sessions,
           NEW back \in {"idle", "settle", "release", "advance"},
           GoTo(s, back) \/ (Resume(s) /\ back = handler[s].back),
           back \in {"idle", "advance"} => handler[s].claim = NoAttempt,
           back = "release" => handler[s].claim # NoAttempt,
           back = "settle" => Unsettled(handler[s]),
           WalkInOrder(walk'),
           Passes(walk, walk', handler, handler[s], handler'[s]),
           DiskInOrder(disk', mode', walk', urgent'),
           mode' \in {"durable", "degraded"}, urgent' \subseteq ROs
    PROVE  CoreInv'
<1>1. Only(s) /\ OnWay(handler[s], handler'[s], back)
  BY GoToFacts, ResumeFacts DEF CoreInv
<1>2. /\ HandlerInOrder(handler'[s]) /\ handler'[s].claim = handler[s].claim
      /\ Holding(handler'[s]) => Holding(handler[s])
  BY <1>1, OnWayFacts DEF CoreInv
<1> QED BY <1>1, <1>2, CoreMove

\* Where a goroutine goes once its message is settled.
LEMMA AfterFacts ==
    ASSUME NEW h
    PROVE  /\ AfterMessage(h) \in {"release", "advance"}
           /\ AfterMessage(h) = "release" <=> h.claim # NoAttempt
           /\ AfterMessage(h) = "advance" <=> h.claim = NoAttempt
  BY DEF AfterMessage

\* A goroutine that waits for a message, or is through with one, claims nothing.
LEMMA RestFacts ==
    ASSUME NEW h, HandlerInOrder(h), h.pc \in {"idle", "advance"}
    PROVE  h.claim = NoAttempt
  BY DEF HandlerInOrder, Unsettled, Releasing, Sending

\* Where a goroutine that sends may go back to.
LEMMA SendFacts ==
    ASSUME NEW h, HandlerInOrder(h), h.pc \in Sending
    PROVE  /\ h.back \in {"idle", "advance"} => h.claim = NoAttempt
           /\ h.back = "release" => h.claim # NoAttempt
           /\ h.back = "settle" => Unsettled(h)
  BY DEF HandlerInOrder, Unsettled, Releasing, Sending

\* requestCatalogue, called by a goroutine on its way to back.
LEMMA CatalogueMove ==
    ASSUME CoreInv, NEW s \in Sessions, NEW fresh \in Fresh,
           NEW back \in {"idle", "settle", "release", "advance"},
           Continue(s, RequestCatalogue(walk, fresh), back),
           Persisted(RequestCatalogue(walk, fresh)),
           back \in {"idle", "advance"} => handler[s].claim = NoAttempt,
           back = "release" => handler[s].claim # NoAttempt,
           back = "settle" => Unsettled(handler[s])
    PROVE  CoreInv'
<1> DEFINE result == RequestCatalogue(walk, fresh)
<1>0. fresh \in Attempts /\ WalkInOrder(walk)
  BY FreshFacts DEF CoreInv
<1>1. /\ Result(walk, result)
      /\ result.saved = "no" => result.walk = walk
      /\ \/ Kept(walk, result.walk)
         \/ walk.request = NoRequest /\ Renewed(result.walk, fresh)
  BY <1>0, RequestCatalogueFacts
<1>2. walk.request = NoRequest => "replying" \notin walk.request.marks
  BY NoRequestFacts
<1> HIDE DEF result
<1> QED BY <1>1, <1>2, MethodMove DEF result

\* A connection comes up.
LEMMA ConnectCore ==
    ASSUME CoreInv, NEW s \in Sessions, Connect(s) PROVE CoreInv'
<1>1. handler[s].claim = NoAttempt
  BY RestFacts DEF CoreInv, Connect
<1>2. CASE UNCHANGED <<walk, handler, disk, mode, urgent>>
  BY <1>2 DEF CoreInv, SlotHeld, DiskInOrder
<1>3. ASSUME NEW fresh \in Fresh,
             Continue(s, RequestCatalogue(walk, fresh), "idle"),
             Persisted(RequestCatalogue(walk, fresh))
      PROVE  CoreInv'
  BY <1>1, <1>3, CatalogueMove
<1> QED BY <1>2, <1>3 DEF Connect

\* Profile 0 traffic, or a refusal.
LEMMA TrafficCore ==
    ASSUME CoreInv, NEW s \in Sessions, Traffic(s) PROVE CoreInv'
<1> DEFINE h == handler[s]
           g == [h EXCEPT !.pc = "refresh", !.back = "advance"]
<1>1. h \in Handlers /\ h.claim = NoAttempt
  BY RestFacts DEF CoreInv, Traffic, Observe
<1>2. handler' = [handler EXCEPT ![s] = g] /\ UNCHANGED <<walk, disk, mode, urgent>>
  BY DEF Traffic
<1> HIDE DEF h
<1>3. g \in Handlers /\ g.pc = "refresh" /\ g.back = "advance" /\ g.claim = NoAttempt
  BY <1>1 DEF Handlers
<1> HIDE DEF g
<1>4. HandlerInOrder(g) /\ ~Holding(g)
  BY <1>3 DEF HandlerInOrder, Holding, Unsettled, Releasing, Sending
<1> QED BY <1>1, <1>2, <1>3, <1>4, QuietMove DEF h

\* A content message: it is applied without a claim.
LEMMA ContentCore ==
    ASSUME CoreInv, NEW s \in Sessions, Content(s) PROVE CoreInv'
<1> DEFINE h == handler[s]
<1>1. h \in Handlers /\ h.claim = NoAttempt
  BY RestFacts DEF CoreInv, Content, Observe
<1>2. PICK ro \in ROs :
         handler' = [handler EXCEPT ![s] =
            [@ EXCEPT !.pc = "apply", !.kind = "content", !.ro = ro]]
  BY DEF Content
<1> DEFINE g == [h EXCEPT !.pc = "apply", !.kind = "content", !.ro = ro]
<1>3. handler' = [handler EXCEPT ![s] = g] /\ UNCHANGED <<walk, disk, mode, urgent>>
  BY <1>2 DEF Content
<1> HIDE DEF h
<1>4. /\ g \in Handlers /\ g.pc = "apply" /\ g.kind = "content" /\ g.ro = ro
      /\ g.claim = NoAttempt
  BY <1>1 DEF Handlers, Kinds, Targets
<1> HIDE DEF g
<1>5. HandlerInOrder(g) /\ ~Holding(g)
  BY <1>4 DEF HandlerInOrder, Holding, Unsettled, Releasing, Sending
<1> QED BY <1>1, <1>3, <1>4, <1>5, QuietMove DEF h

\* The goroutine asks for the catalogue again, or not.
LEMMA RefreshCore ==
    ASSUME CoreInv, NEW s \in Sessions, Refresh(s) PROVE CoreInv'
<1> DEFINE back == handler[s].back
<1>1. /\ back \in {"idle", "settle", "release", "advance"}
      /\ HandlerInOrder(handler[s]) /\ handler[s].pc \in Sending
  BY HandlerFacts DEF CoreInv, Refresh, Sending
<1>2. /\ back \in {"idle", "advance"} => handler[s].claim = NoAttempt
      /\ back = "release" => handler[s].claim # NoAttempt
      /\ back = "settle" => Unsettled(handler[s])
  BY <1>1, SendFacts
<1> HIDE DEF back
<1>3. ASSUME NEW fresh \in Fresh,
             Continue(s, RequestCatalogue(walk, fresh), back),
             Persisted(RequestCatalogue(walk, fresh))
      PROVE  CoreInv'
  BY <1>1, <1>2, <1>3, CatalogueMove
<1>4. CASE GoTo(s, back) /\ UNCHANGED <<walk, disk, mode, urgent>>
  <2>1. Passes(walk, walk', handler, handler[s], handler'[s])
    BY <1>4 DEF Passes, Kept
  <2> QED BY <1>1, <1>2, <1>4, <2>1, GoMove DEF CoreInv
<1> QED BY <1>3, <1>4 DEF Refresh, back

\* A message is applied.
LEMMA ApplyCore ==
    ASSUME CoreInv, NEW s \in Sessions, Apply(s) PROVE CoreInv'
<1> DEFINE h == handler[s]
<1>0. UNCHANGED <<walk, disk, mode, urgent>> /\ h \in Handlers /\ HandlerInOrder(h) /\ h.pc = "apply"
  BY DEF CoreInv, Apply
<1>1. CASE GoTo(s, AfterMessage(h))
  <2>1. Passes(walk, walk', handler, handler[s], handler'[s])
    BY <1>0 DEF Passes, Kept
  <2>2. DiskInOrder(disk', mode', walk', urgent') /\ WalkInOrder(walk')
    BY <1>0 DEF CoreInv
  <2> QED BY <1>0, <1>1, <2>1, <2>2, GoMove, AfterFacts DEF CoreInv
<1>2. ASSUME NEW outcome \in Outcomes(s),
             handler' = [handler EXCEPT ![s] = [@ EXCEPT !.pc = "settle", !.outcome = outcome]]
      PROVE  CoreInv'
  <2> DEFINE g == [h EXCEPT !.pc = "settle", !.outcome = outcome]
  <2>1. handler' = [handler EXCEPT ![s] = g]
    BY <1>2
  <2>2. outcome \in {"none", "applied", "recover", "failed"}
    BY DEF Outcomes
  <2> HIDE DEF h
  <2>3. /\ g \in Handlers /\ g.pc = "settle" /\ g.kind = h.kind /\ g.ro = h.ro /\ g.claim = h.claim
    BY <1>0, <2>2 DEF Handlers
  <2> HIDE DEF g
  <2>4. HandlerInOrder(g) /\ (Holding(g) => Holding(h))
    BY <1>0, <2>3 DEF HandlerInOrder, Holding, Unsettled, Releasing, Sending
  <2> QED BY <1>0, <2>1, <2>3, <2>4, QuietMove DEF h
<1>3. ASSUME NEW outcome \in Outcomes(s),
             handler' = [handler EXCEPT ![s] =
                [@ EXCEPT !.pc = "refresh", !.back = "settle", !.outcome = outcome]]
      PROVE  CoreInv'
  <2> DEFINE g == [h EXCEPT !.pc = "refresh", !.back = "settle", !.outcome = outcome]
  <2>1. handler' = [handler EXCEPT ![s] = g]
    BY <1>3
  <2>2. outcome \in {"none", "applied", "recover", "failed"}
    BY DEF Outcomes
  <2> HIDE DEF h
  <2>3. /\ g \in Handlers /\ g.pc = "refresh" /\ g.back = "settle"
        /\ g.kind = h.kind /\ g.ro = h.ro /\ g.claim = h.claim
    BY <1>0, <2>2 DEF Handlers
  <2> HIDE DEF g
  <2>4. HandlerInOrder(g) /\ (Holding(g) => Holding(h))
    BY <1>0, <2>3 DEF HandlerInOrder, Holding, Unsettled, Releasing, Sending
  <2> QED BY <1>0, <2>1, <2>3, <2>4, QuietMove DEF h
<1> QED BY <1>1, <1>2, <1>3 DEF Apply

\* A catalogue or roster that is being settled is under a claim.
LEMMA SettleFacts ==
    ASSUME NEW h, HandlerInOrder(h), h.pc = "settle"
    PROVE  /\ Unsettled(h)
           /\ h.kind \in {"catalogue", "roster"} =>
                 /\ h.claim # NoAttempt /\ Holding(h) /\ AfterMessage(h) = "release"
           /\ h.kind = "roster" => h.ro \in ROs
  BY DEF HandlerInOrder, Unsettled, Holding, AfterMessage

\* handleListAll: the catalogue's holder gets the next request from begin.
LEMMA BeginMove ==
    ASSUME CoreInv, NEW s \in Sessions, SettleCatalogue(s)
    PROVE  /\ handler[s].claim # NoAttempt /\ Holding(handler[s])
           /\ \E result : \E fresh \in Fresh :
                 /\ Result(walk, result) /\ result.saved = "yes"
                 /\ Kept(walk, result.walk) \/ Renewed(result.walk, fresh)
                 /\ Continue(s, result, "release") /\ Persisted(result)
<1>1. /\ handler[s].claim # NoAttempt /\ Holding(handler[s])
      /\ AfterMessage(handler[s]) = "release"
  BY SettleFacts DEF CoreInv, SettleCatalogue
<1> DEFINE Begins(queue, roIDs, fresh) ==
              /\ IsRefreshed(queue, walk, roIDs)
              /\ Continue(s, Begin(walk, queue, fresh), "release")
              /\ Persisted(Begin(walk, queue, fresh))
<1>2. PICK n \in 0 .. MaxQueue : \E roIDs \in [1 .. n -> ROs] :
         \E m \in 0 .. n : \E queue \in [1 .. m -> ROs] : \E fresh \in Fresh :
            Begins(queue, roIDs, fresh)
  BY <1>1 DEF SettleCatalogue
<1>3. PICK roIDs \in [1 .. n -> ROs], m \in 0 .. n :
         \E queue \in [1 .. m -> ROs] : \E fresh \in Fresh : Begins(queue, roIDs, fresh)
  BY <1>2
<1>4. PICK queue \in [1 .. m -> ROs], fresh \in Fresh : Begins(queue, roIDs, fresh)
  BY <1>3
<1> DEFINE result == Begin(walk, queue, fresh)
<1>5. queue \in Seq(ROs)
  BY <1>3, <1>4
<1>6. IsDistinct(queue) /\ walk.inFlight \notin Members(queue)
  BY <1>4 DEF IsRefreshed, Listed
<1>7. /\ Result(walk, result) /\ result.saved = "yes"
      /\ Kept(walk, result.walk) \/ Renewed(result.walk, fresh)
  BY <1>5, <1>6, BeginFacts, FreshFacts DEF CoreInv
<1>8. Continue(s, result, "release") /\ Persisted(result)
  BY <1>4
<1> HIDE DEF result
<1> QED BY <1>1, <1>7, <1>8

\* A catalogue is settled by its holder.
LEMMA SettleCatalogueCore ==
    ASSUME CoreInv, NEW s \in Sessions, SettleCatalogue(s) PROVE CoreInv'
<1>1. handler[s].claim # NoAttempt /\ Holding(handler[s])
  BY BeginMove
<1>2. PICK result : \E fresh \in Fresh :
         /\ Result(walk, result) /\ result.saved = "yes"
         /\ Kept(walk, result.walk) \/ Renewed(result.walk, fresh)
         /\ Continue(s, result, "release") /\ Persisted(result)
  BY BeginMove
<1>3. PICK fresh \in Fresh :
         /\ Result(walk, result) /\ result.saved = "yes"
         /\ Kept(walk, result.walk) \/ Renewed(result.walk, fresh)
         /\ Continue(s, result, "release") /\ Persisted(result)
  BY <1>2
<1> QED BY <1>1, <1>3, MethodMove

\* An applied roList.
LEMMA SettleRosterCore ==
    ASSUME CoreInv, NEW s \in Sessions, SettleRoster(s) PROVE CoreInv'
<1> DEFINE back == AfterMessage(handler[s])
           ro == handler[s].ro
<1>1. /\ handler[s].claim # NoAttempt /\ Holding(handler[s]) /\ back = "release"
      /\ ro \in ROs
  BY SettleFacts DEF CoreInv, SettleRoster
<1>2. PICK fresh \in Fresh :
         Continue(s, Resolved(walk, ro, fresh), back) /\ Persisted(Resolved(walk, ro, fresh))
  BY DEF SettleRoster
<1> DEFINE result == Resolved(walk, ro, fresh)
<1>3. /\ Result(walk, result)
      /\ result.saved = "no" => result.walk = walk
      /\ Kept(walk, result.walk) \/ Renewed(result.walk, fresh)
  BY <1>1, ResolvedFacts, FreshFacts DEF CoreInv
<1>4. Continue(s, result, back) /\ Persisted(result)
  BY <1>2
<1> HIDE DEF result, back
<1> QED BY <1>1, <1>3, <1>4, MethodMove

\* requestResync.
LEMMA SettleRecoverCore ==
    ASSUME CoreInv, NEW s \in Sessions, SettleRecover(s) PROVE CoreInv'
<1> DEFINE back == AfterMessage(handler[s])
           ro == handler[s].ro
<1>1. /\ back \in {"release", "advance"}
      /\ back = "release" => handler[s].claim # NoAttempt
      /\ back = "advance" => handler[s].claim = NoAttempt
      /\ ro \in Targets
  BY AfterFacts, HandlerFacts DEF CoreInv
<1>2. CASE GoTo(s, back) /\ UNCHANGED <<walk, disk, mode, recent, urgent>>
  <2>1. Passes(walk, walk', handler, handler[s], handler'[s])
    BY <1>2 DEF Passes, Kept
  <2> HIDE DEF back
  <2> QED BY <1>1, <1>2, <2>1, GoMove DEF CoreInv
<1>3. ASSUME ro # NoRO, NEW fresh \in Fresh,
             Continue(s, EnqueueUrgent(walk, ro, fresh), back),
             IF EnqueueUrgent(walk, ro, fresh).walk # walk /\ EnqueueUrgent(walk, ro, fresh).saved = "no"
                THEN urgent' = urgent \cup {ro} /\ UNCHANGED <<disk, mode>>
                ELSE Persisted(EnqueueUrgent(walk, ro, fresh))
      PROVE  CoreInv'
  <2> DEFINE result == EnqueueUrgent(walk, ro, fresh)
  <2>0. ro \in ROs /\ WalkInOrder(walk) /\ fresh \in Attempts
    BY <1>1, <1>3, FreshFacts DEF Targets, CoreInv
  <2>1. /\ Result(walk, result)
        /\ result.saved = "no" =>
              /\ Outstanding(walk) \subseteq Outstanding(result.walk)
              /\ Outstanding(result.walk) \subseteq Outstanding(walk) \cup {ro}
              /\ Work(result.walk).catalogue = Work(walk).catalogue
        /\ \/ Kept(walk, result.walk)
           \/ walk.request = NoRequest /\ Renewed(result.walk, fresh)
    BY <2>0, EnqueueFacts
  <2>2. walk.request = NoRequest => "replying" \notin walk.request.marks
    BY NoRequestFacts
  <2>3. Continue(s, result, back)
    BY <1>3
  <2>4. IF result.walk # walk /\ result.saved = "no"
           THEN urgent' = urgent \cup {ro} /\ UNCHANGED <<disk, mode>>
           ELSE Persisted(result)
    BY <1>3
  <2> HIDE DEF result, ro, back
  <2>5. CASE result.walk # walk /\ result.saved = "no"
    <3>1. /\ result.ask \subseteq Targets /\ WalkInOrder(result.walk)
      BY <2>1 DEF Result
    <3>2. walk' = result.walk /\ Only(s) /\ OnWay(handler[s], handler'[s], back)
      BY <1>1, <2>3, <3>1, ContinueFacts DEF CoreInv
    <3>3. /\ HandlerInOrder(handler'[s]) /\ handler'[s].claim = handler[s].claim
          /\ Holding(handler'[s]) => Holding(handler[s])
      BY <1>1, <3>2, OnWayFacts DEF CoreInv
    <3>4. DiskInOrder(disk, mode, result.walk, urgent \cup {ro})
      BY <2>1, <2>5 DEF CoreInv, DiskInOrder
    <3>5. Passes(walk, result.walk, handler, handler[s], handler'[s])
      <4>1. CASE Kept(walk, result.walk)
        BY <4>1 DEF Passes
      <4>2. CASE Renewed(result.walk, fresh) /\ "replying" \notin walk.request.marks
        BY <4>2, RenewedPasses
      <4> QED BY <2>1, <2>2, <4>1, <4>2
    <3>6. /\ disk' = disk /\ mode' = mode /\ urgent' = urgent \cup {ro}
          /\ mode \in {"durable", "degraded"} /\ urgent' \subseteq ROs
      BY <2>0, <2>4, <2>5 DEF CoreInv
    <3> QED BY <3>1, <3>2, <3>3, <3>4, <3>5, <3>6, CoreMove
  <2>6. CASE ~(result.walk # walk /\ result.saved = "no")
    <3>1. Persisted(result) /\ (result.saved = "no" => Work(result.walk) = Work(walk))
      BY <2>4, <2>6
    <3> QED BY <1>1, <2>1, <2>2, <2>3, <3>1, MethodMove
  <2> QED BY <2>5, <2>6
<1>4. \/ GoTo(s, back) /\ UNCHANGED <<walk, disk, mode, recent, urgent>>
      \/ /\ ro # NoRO
         /\ \E fresh \in Fresh :
              /\ Continue(s, EnqueueUrgent(walk, ro, fresh), back)
              /\ IF EnqueueUrgent(walk, ro, fresh).walk # walk /\ EnqueueUrgent(walk, ro, fresh).saved = "no"
                    THEN urgent' = urgent \cup {ro} /\ UNCHANGED <<disk, mode>>
                    ELSE Persisted(EnqueueUrgent(walk, ro, fresh))
  BY DEF SettleRecover
<1> HIDE DEF ro, back
<1> QED BY <1>2, <1>3, <1>4

\* Nothing that discovery follows.
LEMMA SettleNothingCore ==
    ASSUME CoreInv, NEW s \in Sessions, SettleNothing(s) PROVE CoreInv'
<1>1. UNCHANGED <<walk, disk, mode, urgent>> /\ GoTo(s, AfterMessage(handler[s]))
  BY DEF SettleNothing
<1>2. Passes(walk, walk', handler, handler[s], handler'[s])
  BY <1>1 DEF Passes, Kept
<1>3. DiskInOrder(disk', mode', walk', urgent') /\ WalkInOrder(walk')
  BY <1>1 DEF CoreInv
<1> QED BY <1>1, <1>2, <1>3, GoMove, AfterFacts DEF CoreInv

\* advanceWalk.
LEMMA AdvanceCore ==
    ASSUME CoreInv, NEW s \in Sessions, Advance(s) PROVE CoreInv'
<1>1. handler[s].claim = NoAttempt
  BY RestFacts DEF CoreInv, Advance
<1>2. PICK fresh \in Fresh :
         Continue(s, Nudge(walk, fresh), "idle") /\ Persisted(Nudge(walk, fresh))
  BY DEF Advance
<1> DEFINE result == Nudge(walk, fresh)
<1>3. /\ Result(walk, result)
      /\ result.saved = "no" => Work(result.walk) = Work(walk)
      /\ \/ Kept(walk, result.walk)
         \/ Renewed(result.walk, fresh) /\ "replying" \notin walk.request.marks
  BY NudgeFacts, FreshFacts DEF CoreInv
<1>4. Continue(s, result, "idle") /\ Persisted(result)
  BY <1>2
<1> HIDE DEF result
<1> QED BY <1>1, <1>3, <1>4, MethodMove

\* What is left to do decides whether discovery.json is in order.
LEMMA DiskSame ==
    ASSUME NEW d, NEW m, NEW w, NEW v, NEW u, DiskInOrder(d, m, w, u), Work(v) = Work(w)
    PROVE  DiskInOrder(d, m, v, u)
  BY DEF DiskInOrder, Outstanding

\* A registered request is written next; a refused one is not.
LEMMA RegisterCore ==
    ASSUME CoreInv, TypeOK, NEW s \in Sessions, Register(s) PROVE CoreInv'
<1> DEFINE h == handler[s]
<1>0. /\ UNCHANGED <<disk, mode, urgent>> /\ h \in Handlers /\ HandlerInOrder(h)
      /\ h.pc = "register" /\ h.target \in Targets
      /\ h.back \in {"idle", "settle", "release", "advance"}
      /\ Lanes(s) \subseteq Sessions
  BY HandlerFacts DEF CoreInv, TypeOK, Register, Lanes
<1>1. CASE Resume(s) /\ UNCHANGED walk
  <2>1. Passes(walk, walk', handler, handler[s], handler'[s])
    BY <1>1 DEF Passes, Kept
  <2>2. DiskInOrder(disk', mode', walk', urgent') /\ WalkInOrder(walk')
    BY <1>0, <1>1 DEF CoreInv
  <2>3. /\ h.back \in {"idle", "advance"} => h.claim = NoAttempt
        /\ h.back = "release" => h.claim # NoAttempt
        /\ h.back = "settle" => Unsettled(h)
    BY <1>0, SendFacts DEF Sending
  <2> QED BY <1>0, <1>1, <2>1, <2>2, <2>3, GoMove DEF CoreInv
<1>2. ASSUME NEW lane \in Lanes(s), Registrable(walk, h.target, lane), NEW fresh \in Fresh,
             walk' = RegisterRequest(walk, h.target, lane, fresh),
             handler' = [handler EXCEPT ![s] =
                [@ EXCEPT !.pc = "write", !.lane = lane, !.attempt = walk'.request.attempt]]
      PROVE  CoreInv'
  <2> DEFINE a == walk'.request.attempt
             g == [h EXCEPT !.pc = "write", !.lane = lane, !.attempt = a]
  <2>1. /\ WalkInOrder(walk') /\ Work(walk') = Work(walk)
        /\ "replying" \notin walk.request.marks /\ "replying" \notin walk'.request.marks
        /\ a \in Attempts
        /\ a = walk.request.attempt \/ a = fresh
    BY <1>0, <1>2, RegisterFacts, FreshFacts DEF CoreInv
  <2>2. handler' = [handler EXCEPT ![s] = g]
    BY <1>2
  <2>3. lane \in Sessions
    BY <1>0
  <2>4. Passes(walk, walk', handler, handler[s], handler'[s])
    <3>1. \A t \in Sessions : handler[t].claim # NoAttempt => handler[t].claim # a
      BY <2>1, FreshFacts DEF CoreInv, SlotHeld
    <3> QED BY <2>1, <3>1 DEF Passes
  <2> HIDE DEF h, a
  <2>5. /\ g \in Handlers /\ g.pc = "write" /\ g.lane = lane /\ g.attempt = a
        /\ g.claim = h.claim /\ g.back = h.back /\ g.kind = h.kind /\ g.ro = h.ro
    BY <1>0, <2>1, <2>3 DEF Handlers
  <2> HIDE DEF g
  <2>6. HandlerInOrder(g) /\ (Holding(g) => Holding(h))
    BY <1>0, <2>1, <2>3, <2>5 DEF HandlerInOrder, Holding, Unsettled, Releasing, Sending
  <2>7. Only(s) /\ handler'[s] = g
    BY <2>2, <2>5 DEF Only, CoreInv
  <2>8. DiskInOrder(disk', mode', walk', urgent')
    BY <1>0, <2>1, DiskSame DEF CoreInv
  <2> QED BY <1>0, <2>1, <2>4, <2>5, <2>6, <2>7, <2>8, CoreMove DEF CoreInv, h
<1>3. \/ Resume(s) /\ UNCHANGED walk
      \/ \E lane \in Lanes(s) :
           /\ Registrable(walk, h.target, lane)
           /\ \E fresh \in Fresh :
              /\ walk' = RegisterRequest(walk, h.target, lane, fresh)
              /\ handler' = [handler EXCEPT ![s] =
                   [@ EXCEPT !.pc = "write", !.lane = lane, !.attempt = walk'.request.attempt]]
  BY DEF Register
<1> QED BY <1>1, <1>2, <1>3

\* The bytes go out or not.
LEMMA WriteCore ==
    ASSUME CoreInv, NEW s \in Sessions, Write(s) PROVE CoreInv'
<1> DEFINE h == handler[s]
<1>0. /\ UNCHANGED <<walk, disk, mode, urgent>> /\ h \in Handlers /\ HandlerInOrder(h)
      /\ h.pc = "write" /\ h.back \in {"idle", "settle", "release", "advance"}
  BY HandlerFacts DEF CoreInv, Write
<1>1. CASE Resume(s)
  <2>1. Passes(walk, walk', handler, handler[s], handler'[s])
    BY <1>0 DEF Passes, Kept
  <2>2. DiskInOrder(disk', mode', walk', urgent') /\ WalkInOrder(walk')
    BY <1>0 DEF CoreInv
  <2>3. /\ h.back \in {"idle", "advance"} => h.claim = NoAttempt
        /\ h.back = "release" => h.claim # NoAttempt
        /\ h.back = "settle" => Unsettled(h)
    BY <1>0, SendFacts DEF Sending
  <2> QED BY <1>0, <1>1, <2>1, <2>2, <2>3, GoMove DEF CoreInv
<1>2. CASE GoTo(s, "failed")
  <2> DEFINE g == At(h, "failed")
  <2>1. handler' = [handler EXCEPT ![s] = g]
    BY <1>2 DEF GoTo
  <2>2. /\ g \in Handlers /\ g.pc = "failed" /\ g.lane = h.lane /\ g.attempt = h.attempt
        /\ g.claim = h.claim /\ g.back = h.back /\ g.kind = h.kind /\ g.ro = h.ro
    BY <1>0, AtFacts
  <2> HIDE DEF g
  <2>3. HandlerInOrder(g) /\ (Holding(g) => Holding(h))
    BY <1>0, <2>2 DEF HandlerInOrder, Holding, Unsettled, Releasing, Sending
  <2> QED BY <1>0, <2>1, <2>2, <2>3, QuietMove
<1> QED BY <1>1, <1>2 DEF Write

\* failedRequest, if the slot still has the request that failed.
LEMMA WriteFailedCore ==
    ASSUME CoreInv, NEW s \in Sessions, WriteFailed(s) PROVE CoreInv'
<1> DEFINE h == handler[s]
<1>0. /\ h \in Handlers /\ HandlerInOrder(h) /\ h.pc = "failed" /\ Resume(s)
      /\ h.back \in {"idle", "settle", "release", "advance"}
  BY HandlerFacts DEF CoreInv, WriteFailed
<1>1. /\ h.back \in {"idle", "advance"} => h.claim = NoAttempt
      /\ h.back = "release" => h.claim # NoAttempt
      /\ h.back = "settle" => Unsettled(h)
  BY <1>0, SendFacts DEF Sending
<1>2. h.attempt \in Attempts
  BY <1>0 DEF HandlerInOrder
<1>3. CASE Failable(walk, h.attempt)
  <2> DEFINE result == FailedRequest(walk)
  <2>1. walk' = result.walk /\ Persisted(result)
    BY <1>3 DEF WriteFailed
  <2>2. /\ Result(walk, result) /\ result.saved = "yes"
        /\ "replying" \notin walk.request.marks
        /\ Kept(walk, result.walk) \/ Renewed(result.walk, h.attempt)
    BY <1>2, <1>3, FailedFacts DEF CoreInv
  <2>3. walk.request.attempt = h.attempt
    BY <1>3 DEF Failable
  <2> HIDE DEF result
  <2>4. WalkInOrder(result.walk)
    BY <2>2 DEF Result
  <2>5. /\ DiskInOrder(disk', mode', result.walk, urgent')
        /\ mode' \in {"durable", "degraded"} /\ urgent' \subseteq ROs
    BY <2>1, <2>2, <2>4, PersistedFacts DEF CoreInv
  <2>6. Passes(walk, result.walk, handler, handler[s], handler'[s])
    <3>1. CASE Kept(walk, result.walk)
      BY <3>1 DEF Passes
    <3>2. CASE Renewed(result.walk, h.attempt)
      <4>1. \A t \in Sessions : handler[t].claim # NoAttempt
               => handler[t].claim # result.walk.request.attempt
        BY <2>2, <2>3, <3>2 DEF CoreInv, SlotHeld, Renewed
      <4> QED BY <2>2, <3>2, <4>1 DEF Passes, Renewed
    <3> QED BY <2>2, <3>1, <3>2
  <2> QED BY <1>0, <1>1, <2>1, <2>4, <2>5, <2>6, GoMove
<1>4. CASE UNCHANGED <<walk, disk, mode, urgent>>
  <2>1. Passes(walk, walk', handler, handler[s], handler'[s])
    BY <1>4 DEF Passes, Kept
  <2>2. DiskInOrder(disk', mode', walk', urgent') /\ WalkInOrder(walk')
    BY <1>4 DEF CoreInv
  <2> QED BY <1>0, <1>1, <1>4, <2>1, <2>2, GoMove DEF CoreInv
<1> QED BY <1>3, <1>4 DEF WriteFailed

\* releaseRequest: whoever releases the slot is the only one who claimed it.
LEMMA ReleaseCore ==
    ASSUME CoreInv, NEW s \in Sessions, Release(s) PROVE CoreInv'
<1> DEFINE h == handler[s]
           g == [Idle EXCEPT !.pc = "advance"]
           marks == walk.request.marks \ {"replying"}
<1>0. /\ h \in Handlers /\ HandlerInOrder(h) /\ h.pc = "release"
      /\ UNCHANGED <<disk, mode, urgent>> /\ handler' = [handler EXCEPT ![s] = g]
      /\ walk' = ReleaseRequest(walk, h.claim)
      /\ walk \in Walks /\ WalkInOrder(walk)
  BY DEF CoreInv, Release, WalkInOrder
<1>1. h.claim # NoAttempt
  BY <1>0 DEF HandlerInOrder, Releasing
<1>2. g \in Handlers /\ g.pc = "advance" /\ g.claim = NoAttempt
  BY IdleFacts DEF Handlers
<1> HIDE DEF g
<1>3. HandlerInOrder(g) /\ ~Holding(g)
  BY <1>2 DEF HandlerInOrder, Holding, Unsettled, Releasing, Sending
<1>4. Only(s) /\ handler'[s] = g
  BY <1>0, <1>2 DEF CoreInv, Only
<1>5. /\ WalkInOrder(walk') /\ Work(walk') = Work(walk)
      /\ walk'.request.attempt = walk.request.attempt
      /\ walk'.request.marks = IF walk.request.attempt = h.claim THEN marks
                                                                ELSE walk.request.marks
  <2>1. CASE walk.request.attempt = h.claim
    <3>1. marks \in SUBSET {"replying", "expired"} /\ "replying" \notin marks
      BY <1>0, WalkFacts
    <3>2. walk' = [walk EXCEPT !.request.marks = marks]
      BY <1>0, <2>1 DEF ReleaseRequest
    <3> HIDE DEF marks, h
    <3> QED BY <1>0, <1>1, <2>1, <3>1, <3>2, MarksFacts
  <2>2. CASE walk.request.attempt # h.claim
    BY <1>0, <2>2 DEF ReleaseRequest
  <2> QED BY <2>1, <2>2
<1>6. SlotHeld(walk', handler')
  <2>0. /\ \A t \in Sessions : Holding(handler[t]) =>
             walk.request.attempt = handler[t].claim /\ "replying" \in walk.request.marks
        /\ "replying" \in walk.request.marks =>
             \E t \in Sessions : handler[t].claim = walk.request.attempt
        /\ \A t \in Sessions : handler[t].claim # NoAttempt /\ handler[t].claim = walk.request.attempt
             => "replying" \in walk.request.marks
        /\ \A r, t \in Sessions : handler[r].claim # NoAttempt /\ handler[r].claim = handler[t].claim
             => r = t
    BY DEF CoreInv, SlotHeld
  <2>1. \A t \in Sessions : \/ t = s /\ handler'[t].claim = NoAttempt /\ ~Holding(handler'[t])
                            \/ t # s /\ handler'[t] = handler[t]
    BY <1>2, <1>3, <1>4 DEF Only
  <2>2. CASE walk.request.attempt = h.claim
    <3>1. "replying" \notin walk'.request.marks
      BY <1>5, <2>2
    <3>2. \A t \in Sessions : t # s => handler[t].claim # walk.request.attempt
      BY <1>1, <2>0, <2>2
    <3>3. \A t \in Sessions : ~Holding(handler'[t])
      BY <2>0, <2>1, <3>2
    <3> QED BY <1>5, <2>0, <2>1, <3>1, <3>2, <3>3 DEF SlotHeld
  <2>3. CASE walk.request.attempt # h.claim
    <3>1. walk'.request.marks = walk.request.marks
      BY <1>5, <2>3
    <3>2. "replying" \in walk.request.marks =>
             \E t \in Sessions : handler'[t].claim = walk.request.attempt
      BY <2>0, <2>1, <2>3
    <3> QED BY <1>5, <2>0, <2>1, <3>1, <3>2 DEF SlotHeld
  <2> QED BY <2>2, <2>3
<1>7. DiskInOrder(disk', mode', walk', urgent')
  BY <1>0, <1>5, DiskSame DEF CoreInv
<1>8. \A t \in Sessions : HandlerInOrder(handler'[t])
  BY <1>3, <1>4 DEF CoreInv, Only
<1> QED BY <1>0, <1>4, <1>5, <1>6, <1>7, <1>8
        DEF CoreInv, Only, SlotHeld, DiskInOrder, WalkInOrder, HandlerInOrder

\* claimRequest: a claim that is granted is the only one on the slot.
LEMMA ListCore ==
    ASSUME CoreInv, NEW s \in Sessions, handler[s].pc = "idle",
           NEW ro \in Targets, NEW attempt, List(s, ro, attempt)
    PROVE  CoreInv'
<1> DEFINE h == handler[s]
<1>0. h \in Handlers /\ h.claim = NoAttempt /\ WalkInOrder(walk)
  BY RestFacts DEF CoreInv
<1>1. ASSUME NEW fresh \in Fresh,
             Continue(s, RequestCatalogue(walk, fresh), "advance"),
             Persisted(RequestCatalogue(walk, fresh))
      PROVE  CoreInv'
  BY <1>0, <1>1, CatalogueMove
<1>2. CASE GoTo(s, "advance") /\ UNCHANGED <<walk, disk, mode, urgent>>
  <2>1. Passes(walk, walk', handler, handler[s], handler'[s])
    BY <1>2 DEF Passes, Kept
  <2> QED BY <1>0, <1>2, <2>1, GoMove DEF CoreInv
<1>3. CASE /\ Claimable(walk, ro, s, attempt)
           /\ walk' = ClaimRequest(walk)
           /\ handler' = [handler EXCEPT ![s] =
                 [@ EXCEPT !.pc = "apply",
                           !.kind = IF ro = NoRO THEN "catalogue" ELSE "roster",
                           !.ro = ro, !.claim = walk.request.attempt]]
           /\ UNCHANGED <<disk, mode, urgent>>
  <2> DEFINE a == walk.request.attempt
             k == IF ro = NoRO THEN "catalogue" ELSE "roster"
             g == [h EXCEPT !.pc = "apply", !.kind = k, !.ro = ro, !.claim = a]
  <2>1. /\ a \in Attempts /\ walk.request.session = s /\ "replying" \notin walk.request.marks
    BY <1>0, <1>3, WalkFacts DEF Claimable, WalkInOrder
  <2>2. k \in Kinds /\ (ro = NoRO => k = "catalogue") /\ (ro # NoRO => k = "roster" /\ ro \in ROs)
    BY DEF Kinds, Targets
  <2>3. handler' = [handler EXCEPT ![s] = g]
    BY <1>3
  <2> HIDE DEF h, k
  <2>4. /\ g \in Handlers /\ g.pc = "apply" /\ g.kind = k /\ g.ro = ro /\ g.claim = a
    BY <1>0, <2>1, <2>2 DEF Handlers
  <2> HIDE DEF g
  <2>5. HandlerInOrder(g)
    BY <2>1, <2>2, <2>4, WalkAssumption DEF HandlerInOrder, Unsettled, Releasing, Sending
  <2>6. Only(s) /\ handler'[s] = g
    BY <2>3, <2>4 DEF CoreInv, Only
  <2>7. /\ WalkInOrder(walk') /\ Work(walk') = Work(walk)
        /\ walk'.request.attempt = a /\ walk'.request.marks = {"replying"}
    <3>1. s # NoSession /\ a # NoAttempt
      BY <2>1, WalkAssumption
    <3>2. {"replying"} \in SUBSET {"replying", "expired"} /\ "expired" \notin {"replying"}
      OBVIOUS
    <3> QED BY <1>0, <1>3, <2>1, <3>1, <3>2, MarksFacts DEF ClaimRequest
  <2>8. SlotHeld(walk', handler')
    <3>1. \A t \in Sessions : ~Holding(handler[t]) /\ handler[t].claim # a
      BY <2>1, WalkAssumption DEF CoreInv, SlotHeld
    <3>2. \A t \in Sessions : \/ t = s /\ handler'[t].claim = a
                              \/ t # s /\ handler'[t] = handler[t]
      BY <2>4, <2>6 DEF Only
    <3>3. \A r, t \in Sessions : handler[r].claim # NoAttempt /\ handler[r].claim = handler[t].claim
             => r = t
      BY DEF CoreInv, SlotHeld
    <3> QED BY <2>7, <3>1, <3>2, <3>3 DEF SlotHeld
  <2>9. DiskInOrder(disk', mode', walk', urgent')
    BY <1>3, <2>7, DiskSame DEF CoreInv
  <2>10. \A t \in Sessions : HandlerInOrder(handler'[t])
    BY <2>5, <2>6 DEF CoreInv, Only
  <2> QED BY <1>3, <2>6, <2>7, <2>8, <2>9, <2>10
          DEF CoreInv, Only, SlotHeld, DiskInOrder, WalkInOrder, HandlerInOrder
<1> QED BY <1>1, <1>2, <1>3 DEF List

\* The deadline passes.
LEMMA DeadlineCore ==
    ASSUME CoreInv, DeadlinePasses PROVE CoreInv'
<1> DEFINE v == [walk EXCEPT !.deadline = "passed"]
<1>0. /\ walk' = v /\ UNCHANGED <<disk, mode, urgent, handler>> /\ walk \in Walks
      /\ SlotInOrder(walk) /\ QueueInOrder(walk)
  BY DEF CoreInv, DeadlinePasses, WalkInOrder
<1>1. /\ v \in Walks /\ v.pending = walk.pending /\ v.inFlight = walk.inFlight
      /\ v.catalogue = walk.catalogue /\ v.request = walk.request
  BY <1>0 DEF Walks
<1> HIDE DEF v
<1>2. Work(v) = Work(walk)
  BY <1>1 DEF Work
<1>3. WalkInOrder(v)
  BY <1>0, <1>1, <1>2 DEF WalkInOrder, SlotInOrder, QueueInOrder, Busy
<1>4. SlotHeld(v, handler) /\ DiskInOrder(disk, mode, v, urgent)
  BY <1>1, <1>2, DiskSame DEF CoreInv, SlotHeld
<1> QED BY <1>0, <1>3, <1>4
        DEF CoreInv, SlotHeld, DiskInOrder, WalkInOrder, HandlerInOrder

\* A slot without a request, and goroutines with nothing to do.
LEMMA IdleHeld ==
    ASSUME NEW w, w.request = NoRequest, NEW hs, hs = [s \in Sessions |-> Idle]
    PROVE  /\ hs \in [Sessions -> Handlers] /\ SlotHeld(w, hs)
           /\ \A s \in Sessions : HandlerInOrder(hs[s])
<1>1. \A s \in Sessions : hs[s] = Idle
  OBVIOUS
<1> QED BY <1>1, IdleFacts, NoRequestFacts DEF SlotHeld

\* The process starts again from discovery.json.
LEMMA RestartCore ==
    ASSUME CoreInv, Restart PROVE CoreInv'
<1> DEFINE v == Load(disk)
<1>0. /\ walk' = v /\ mode' = "durable" /\ handler' = [s \in Sessions |-> Idle]
      /\ disk' = disk /\ urgent' = {}
      /\ disk \in [pending : Seq(ROs), catalogue : SUBSET {"pending"}]
      /\ IsDistinct(disk.pending)
  BY DEF CoreInv, Restart, DiskInOrder
<1>1. /\ WalkInOrder(v) /\ v.request = NoRequest /\ v.inFlight = NoRO
      /\ Members(v.pending) \subseteq Members(disk.pending)
      /\ Work(v).catalogue = disk.catalogue
  BY <1>0, LoadFacts
<1>2. Outstanding(v) = Members(v.pending)
  BY <1>1, OutstandingFacts DEF WalkInOrder
<1>3. DiskInOrder(disk, "durable", v, {})
  BY <1>0, <1>1, <1>2 DEF DiskInOrder
<1> HIDE DEF v
<1>4. /\ handler' \in [Sessions -> Handlers] /\ SlotHeld(v, handler')
      /\ \A s \in Sessions : HandlerInOrder(handler'[s])
  BY <1>0, <1>1, IdleHeld
<1> QED BY <1>0, <1>1, <1>3, <1>4
        DEF CoreInv, SlotHeld, DiskInOrder, WalkInOrder, HandlerInOrder

\* A process that has discovered nothing yet.
LEMMA InitCore ==
    ASSUME Init PROVE CoreInv
<1> DEFINE d == Work(EmptyWalk)
<1>0. /\ walk = EmptyWalk /\ mode = "durable" /\ handler = [s \in Sessions |-> Idle]
      /\ disk = d /\ urgent = {}
  BY DEF Init
<1>1. /\ EmptyWalk \in Walks /\ EmptyWalk.request = NoRequest /\ EmptyWalk.inFlight = NoRO
      /\ EmptyWalk.pending = <<>> /\ EmptyWalk.catalogue = {}
  BY NoRequestFacts DEF EmptyWalk, Walks, Targets
<1>2. d.pending = <<>> /\ d.catalogue = {} /\ d = Work(EmptyWalk)
  BY <1>1 DEF Work
<1>3. IsDistinct(d.pending) /\ Len(d.pending) = 0 /\ Members(d.pending) = {}
  BY <1>2 DEF IsDistinct, Members
<1>4. d \in [pending : Seq(ROs), catalogue : SUBSET {"pending"}]
  BY <1>1, WorkFacts
<1>5. WalkInOrder(EmptyWalk)
  BY <1>1, <1>2, <1>3, NoRequestFacts, WalkAssumption
     DEF WalkInOrder, SlotInOrder, QueueInOrder, Busy
<1>6. Members(Load(d).pending) \subseteq Members(d.pending)
  BY <1>3, <1>4, LoadFacts
<1>7. DiskInOrder(d, "durable", EmptyWalk, {})
  BY <1>3, <1>4, <1>6 DEF DiskInOrder, Outstanding
<1>8. /\ handler \in [Sessions -> Handlers] /\ SlotHeld(EmptyWalk, handler)
      /\ \A s \in Sessions : HandlerInOrder(handler[s])
  BY <1>0, <1>1, IdleHeld
<1> QED BY <1>0, <1>5, <1>7, <1>8 DEF CoreInv

-----------------------------------------------------------------------------
(* The walk and its callers.                                               *)

\* The types of what the peer and the connections change.
PeersTyped ==
    /\ open \subseteq Sessions /\ seen \subseteq Sessions
    /\ owner \in [Scopes -> Sessions \cup {NoSession}]
    /\ wire \subseteq WireRequests
    /\ recent \subseteq ROs
    /\ misread \subseteq Attempts

\* The type invariant is the types of both parts.
LEMMA TypeFacts == CoreInv /\ PeersTyped => TypeOK
  BY DEF CoreInv, PeersTyped, TypeOK, WalkInOrder, DiskInOrder

\* A message of a connection that speaks for its scope.
LEMMA ObserveTyped ==
    ASSUME PeersTyped, NEW s \in Sessions, Observe(s)
    PROVE  /\ open' \subseteq Sessions /\ seen' \subseteq Sessions
           /\ owner' \in [Scopes -> Sessions \cup {NoSession}]
<1>1. owner' = [owner EXCEPT ![ScopeOf[s]] = s]
  BY DEF Observe
<1>2. owner' \in [Scopes -> Sessions \cup {NoSession}]
  BY <1>1 DEF PeersTyped
<1> QED BY <1>2 DEF PeersTyped, Observe

\* What a list does to the answers misread so far.
LEMMA ListTyped ==
    ASSUME PeersTyped, NEW s, NEW ro, NEW attempt \in Attempts \cup {NoAttempt},
           List(s, ro, attempt)
    PROVE  misread' \subseteq Attempts
  BY DEF PeersTyped, List

\* Every step of a connection keeps the types.
LEMMA StepTyped ==
    ASSUME CoreInv, PeersTyped, NEW s \in Sessions, Step(s) PROVE PeersTyped'
<1>0. /\ open \subseteq Sessions /\ seen \subseteq Sessions
      /\ owner \in [Scopes -> Sessions \cup {NoSession}]
      /\ wire \subseteq WireRequests /\ recent \subseteq ROs /\ misread \subseteq Attempts
  BY DEF PeersTyped
<1>1. CASE Connect(s)
  BY <1>0, <1>1 DEF Connect, PeersTyped
<1>2. CASE Disconnect(s)
  BY <1>0, <1>2 DEF Disconnect, PeersTyped
<1>3. CASE Disconnected(s)
  BY <1>0, <1>3 DEF Disconnected, PeersTyped
<1>4. CASE Superseded(s)
  BY <1>0, <1>4 DEF Superseded, PeersTyped
<1>5. CASE Traffic(s)
  BY <1>0, <1>5, ObserveTyped DEF Traffic, PeersTyped
<1>6. CASE Answer(s)
  <2>1. PICK q \in wire : wire' = wire \ {q} /\ List(s, q.target, q.attempt)
    BY <1>6 DEF Answer
  <2>2. q.attempt \in Attempts
    BY <1>0 DEF WireRequests
  <2>3. misread' \subseteq Attempts
    BY <2>1, <2>2, ListTyped
  <2> QED BY <1>0, <1>6, <2>1, <2>3, ObserveTyped DEF Answer, PeersTyped
<1>7. CASE UnsolicitedList(s)
  <2>1. misread' \subseteq Attempts
    BY <1>7, ListTyped DEF UnsolicitedList
  <2> QED BY <1>0, <1>7, <2>1, ObserveTyped DEF UnsolicitedList, PeersTyped
<1>8. CASE Content(s)
  BY <1>0, <1>8, ObserveTyped DEF Content, PeersTyped
<1>9. CASE Refresh(s) \/ Apply(s) \/ SettleCatalogue(s) \/ SettleNothing(s)
  BY <1>0, <1>9 DEF Refresh, Apply, SettleCatalogue, SettleNothing, PeersTyped, peers
<1>10. CASE SettleRoster(s)
  BY <1>0, <1>10 DEF SettleRoster, PeersTyped, peers
<1>11. CASE SettleRecover(s)
  <2>1. handler[s].ro \in Targets
    BY HandlerFacts DEF CoreInv
  <2> QED BY <1>0, <1>11, <2>1 DEF SettleRecover, PeersTyped, peers, Targets
<1>12. CASE Register(s) \/ WriteFailed(s) \/ Release(s) \/ Advance(s)
  BY <1>0, <1>12 DEF Register, WriteFailed, Release, Advance, PeersTyped, peers
<1>13. CASE Write(s)
  <2> DEFINE h == handler[s]
             q == [session |-> h.lane, target |-> h.target, attempt |-> h.attempt]
  <2>1. h \in Handlers /\ HandlerInOrder(h) /\ h.pc = "write"
    BY <1>13 DEF CoreInv, Write
  <2>2. q \in WireRequests
    BY <2>1, HandlerFacts DEF HandlerInOrder, WireRequests
  <2>3. wire' \in {wire, wire \cup {q}} /\ UNCHANGED <<peers, recent, misread>>
    BY <1>13 DEF Write
  <2> HIDE DEF q
  <2> QED BY <1>0, <2>2, <2>3 DEF PeersTyped, peers
<1> QED BY <1>1, <1>2, <1>3, <1>4, <1>5, <1>6, <1>7, <1>8, <1>9, <1>10, <1>11, <1>12,
           <1>13 DEF Step

\* Every step of a connection keeps the walk, its callers and the file in order.
LEMMA StepCore ==
    ASSUME CoreInv, PeersTyped, NEW s \in Sessions, Step(s) PROVE CoreInv'
<1>1. CASE Disconnect(s) \/ Disconnected(s) \/ Superseded(s)
  <2>1. UNCHANGED <<walk, disk, mode, handler, urgent>>
    BY <1>1 DEF Disconnect, Disconnected, Superseded
  <2> QED BY <2>1 DEF CoreInv, SlotHeld, DiskInOrder, WalkInOrder, HandlerInOrder
<1>2. CASE Connect(s) \/ Traffic(s) \/ Content(s) \/ Refresh(s) \/ Apply(s)
  BY <1>2, ConnectCore, TrafficCore, ContentCore, RefreshCore, ApplyCore
<1>3. CASE SettleCatalogue(s) \/ SettleRoster(s) \/ SettleRecover(s) \/ SettleNothing(s)
  BY <1>3, SettleCatalogueCore, SettleRosterCore, SettleRecoverCore, SettleNothingCore
<1>4. CASE Register(s) \/ Write(s) \/ WriteFailed(s) \/ Release(s) \/ Advance(s)
  BY <1>4, TypeFacts, RegisterCore, WriteCore, WriteFailedCore, ReleaseCore, AdvanceCore
<1>5. CASE Answer(s)
  <2>1. PICK q \in wire : List(s, q.target, q.attempt)
    BY <1>5 DEF Answer
  <2>2. handler[s].pc = "idle" /\ q.target \in Targets
    BY <1>5 DEF Answer, Observe, PeersTyped, WireRequests
  <2> QED BY <2>1, <2>2, ListCore
<1>6. CASE UnsolicitedList(s)
  <2>1. PICK ro \in Targets : List(s, ro, NoAttempt)
    BY <1>6 DEF UnsolicitedList
  <2>2. handler[s].pc = "idle"
    BY <1>6 DEF UnsolicitedList, Observe
  <2> QED BY <2>1, <2>2, ListCore
<1> QED BY <1>1, <1>2, <1>3, <1>4, <1>5, <1>6 DEF Step

\* The invariant is inductive.
LEMMA WalkInvariant == Spec => [](CoreInv /\ PeersTyped)
<1>1. Init => CoreInv /\ PeersTyped
  <2>1. Init => PeersTyped
    BY DEF Init, PeersTyped
  <2> QED BY <2>1, InitCore
<1>2. CoreInv /\ PeersTyped /\ [Next]_vars => CoreInv' /\ PeersTyped'
  <2> SUFFICES ASSUME CoreInv, PeersTyped, [Next]_vars PROVE CoreInv' /\ PeersTyped'
    OBVIOUS
  <2>1. ASSUME NEW s \in Sessions, Step(s) PROVE CoreInv' /\ PeersTyped'
    BY <2>1, StepCore, StepTyped
  <2>2. CASE DeadlinePasses
    BY <2>2, DeadlineCore DEF DeadlinePasses, PeersTyped, peers
  <2>3. CASE IntervalOver
    <3>1. CoreInv'
      BY <2>3 DEF IntervalOver, CoreInv, SlotHeld, DiskInOrder, WalkInOrder, HandlerInOrder
    <3>2. PeersTyped'
      BY <2>3 DEF IntervalOver, PeersTyped, peers
    <3> QED BY <3>1, <3>2
  <2>4. CASE Restart
    BY <2>4, RestartCore DEF Restart, PeersTyped
  <2>5. CASE UNCHANGED vars
    BY <2>5 DEF vars, PeersTyped, CoreInv, SlotHeld, DiskInOrder, WalkInOrder, HandlerInOrder
  <2> QED BY <2>1, <2>2, <2>3, <2>4, <2>5 DEF Next
<1> QED BY <1>1, <1>2, PTL DEF Spec

\* Type correctness of the walk, its callers and the file, for every number of
\* connections, running orders and identities and every queue bound.
THEOREM WalkTypeOK == Spec => []TypeOK
  BY WalkInvariant, TypeFacts, PTL

\* One request at a time: whatever connections, timeouts and failed writes do
\* to the walk (takeLocked, begin, resolved, nudge, failedRequest), the slot
\* holds a request exactly while one is in flight, for that very target.
THEOREM FlightTheorem == Spec => []SlotMatchesFlight
<1>1. CoreInv => SlotMatchesFlight
  BY NoRequestFacts DEF CoreInv, WalkInOrder, SlotInOrder, SlotMatchesFlight
<1> QED BY <1>1, WalkInvariant, PTL

\* A claimed slot belongs to the goroutine that applies the answer until it
\* releases it, and every mark has a goroutine that will remove it
\* (claimRequest, releaseRequest), for any number of overlapping connections.
THEOREM HeldTheorem == Spec => []SlotIsHeld
<1>1. CoreInv => SlotIsHeld
  <2> SUFFICES ASSUME CoreInv PROVE SlotIsHeld
    OBVIOUS
  <2> DEFINE Claims(s) == handler[s].pc # "idle" /\ handler[s].claim # NoAttempt
  <2>1. ASSUME NEW s \in Sessions, handler[s].pc = "apply", Claims(s)
        PROVE  /\ walk.request.attempt = handler[s].claim
               /\ "replying" \in walk.request.marks
    BY <2>1 DEF CoreInv, SlotHeld, Holding, Unsettled
  <2>2. ASSUME "replying" \in walk.request.marks
        PROVE  \E s \in Sessions : Claims(s) /\ handler[s].claim = walk.request.attempt
    <3>1. PICK s \in Sessions : handler[s].claim = walk.request.attempt
      BY <2>2 DEF CoreInv, SlotHeld
    <3>2. walk.request.attempt # NoAttempt
      BY <2>2, NoRequestFacts DEF CoreInv, WalkInOrder, SlotInOrder
    <3>3. handler[s].pc # "idle"
      BY <3>1, <3>2, RestFacts DEF CoreInv
    <3> QED BY <3>1, <3>2, <3>3
  <2> QED BY <2>1, <2>2 DEF SlotIsHeld
<1> QED BY <1>1, WalkInvariant, PTL

\* No running order waits twice, and the queue never exceeds its bound by more
\* than the one a failed write puts back (begin, enqueueUrgent, failedRequest).
THEOREM QueueTheorem == Spec => []QueueBounded
<1>1. CoreInv => QueueBounded
  <2> SUFFICES ASSUME CoreInv PROVE QueueBounded
    OBVIOUS
  <2>1. walk \in Walks /\ QueueInOrder(walk)
    BY DEF CoreInv, WalkInOrder
  <2>2. Len(walk.pending) \in Nat /\ MaxQueue \in Nat
    BY <2>1, WalkFacts, WalkAssumption
  <2>3. Len(walk.pending) <= MaxQueue + 1
    BY <2>1, <2>2, QueueFacts
  <2> QED BY <2>1, <2>3 DEF QueueBounded, QueueInOrder
<1> QED BY <1>1, WalkInvariant, PTL

\* discovery.json names nothing that is already done, through failed writes of
\* the file and restarts (persistLocked, openDiscoveryWalk).
THEOREM SavedTheorem == Spec => []SavedIsOutstanding
<1>1. CoreInv => SavedIsOutstanding
  BY DEF CoreInv, DiskInOrder, Outstanding, SavedIsOutstanding
<1> QED BY <1>1, WalkInvariant, PTL

\* Every running order still to be fetched is in discovery.json, but for those
\* enqueueUrgent put behind a request in flight.
THEOREM AdvertisedTheorem == Spec => []AdvertisedIsSaved
<1>1. CoreInv => AdvertisedIsSaved
  BY DEF CoreInv, DiskInOrder, Outstanding, AdvertisedIsSaved
<1> QED BY <1>1, WalkInvariant, PTL

-----------------------------------------------------------------------------
(* Answers.                                                                *)

\* A connection that is up, or whose goroutine is at work, is the only one.
Alone ==
    \A s, t \in Sessions : (s \in open \/ handler[s].pc # "idle") /\ s # t
        => t \notin open /\ handler[t].pc = "idle"

\* Whatever the peer still has to answer is the request in the slot, on the
\* connection that is up; nothing is on its way while the slot is unregistered
\* or being answered.
WireIsSlot ==
    /\ \A q \in wire : /\ q.session \in open
                       /\ q.session = walk.request.session
                       /\ q.target = walk.request.target
                       /\ q.attempt = walk.request.attempt
    /\ walk.request.session = NoSession \/ "replying" \in walk.request.marks => wire = {}

\* A request about to be written, or whose write failed, is the one in the slot.
WritesSlot ==
    \A s \in Sessions : handler[s].pc \in {"write", "failed"} =>
        /\ handler[s].lane = walk.request.session
        /\ handler[s].target = walk.request.target
        /\ handler[s].attempt = walk.request.attempt
        /\ handler[s].pc = "write" => wire = {} /\ "replying" \notin walk.request.marks

\* The inductive invariant of answers on a MOS 2.x socket, where they carry no
\* identity.
AnswerInv == Alone /\ WireIsSlot /\ WritesSlot /\ AnswersOwnRequest

\* The slot has the same request, and is not being answered unless it was.
Same(w, v) ==
    /\ v.request.attempt = w.request.attempt
    /\ v.request.session = w.request.session
    /\ v.request.target = w.request.target
    /\ "replying" \in v.request.marks => "replying" \in w.request.marks

\* A step of the only goroutine at work that writes nothing: the request in
\* the slot stays, or nothing is on its way.
LEMMA AnswerMove ==
    ASSUME AnswerInv, NEW s \in Sessions, s \in open \/ handler[s].pc # "idle",
           Only(s), handler'[s].pc \notin {"write", "failed"},
           open' = open, wire' \subseteq wire, misread' = misread,
           Same(walk, walk') \/ wire' = {}
    PROVE  AnswerInv'
<1>1. \A t \in Sessions : t # s => t \notin open /\ handler[t].pc = "idle" /\ handler'[t].pc = "idle"
  BY DEF AnswerInv, Alone, Only
<1>2. Alone'
  BY <1>1 DEF Alone
<1>3. WireIsSlot'
  <2>1. CASE wire' = {}
    BY <2>1 DEF WireIsSlot
  <2>2. CASE Same(walk, walk')
    BY <2>2 DEF AnswerInv, WireIsSlot, Same
  <2> QED BY <2>1, <2>2
<1>4. WritesSlot'
  BY <1>1 DEF WritesSlot
<1> QED BY <1>2, <1>3, <1>4 DEF AnswerInv, AnswersOwnRequest

\* The method a goroutine called keeps the slot, or nothing is on its way.
LEMMA AnswerMethod ==
    ASSUME AnswerInv, CoreInv, NEW s \in Sessions, s \in open \/ handler[s].pc # "idle",
           NEW result, Result(walk, result),
           NEW back \in {"idle", "settle", "release", "advance"},
           Continue(s, result, back),
           open' = open, wire' \subseteq wire, misread' = misread,
           Kept(walk, result.walk) \/ wire = {}
    PROVE  AnswerInv'
<1>1. walk' = result.walk /\ Only(s) /\ OnWay(handler[s], handler'[s], back)
  BY ContinueFacts DEF CoreInv, Result
<1>2. handler'[s].pc \notin {"write", "failed"}
  BY <1>1 DEF OnWay
<1>3. Same(walk, walk') \/ wire' = {}
  BY <1>1 DEF Kept, Same
<1> QED BY <1>1, <1>2, <1>3, AnswerMove

\* Nothing is on its way while the slot is empty, unregistered or answered.
LEMMA NothingOnWire ==
    ASSUME AnswerInv
    PROVE  /\ walk.request = NoRequest => wire = {}
           /\ walk.request.session = NoSession => wire = {}
           /\ "replying" \in walk.request.marks => wire = {}
  BY NoRequestFacts DEF AnswerInv, WireIsSlot

\* requestCatalogue.
LEMMA AnswerCatalogue ==
    ASSUME AnswerInv, CoreInv, NEW s \in Sessions, s \in open \/ handler[s].pc # "idle",
           NEW back \in {"idle", "settle", "release", "advance"}, NEW fresh \in Fresh,
           Continue(s, RequestCatalogue(walk, fresh), back),
           open' = open, wire' \subseteq wire, misread' = misread
    PROVE  AnswerInv'
<1> DEFINE result == RequestCatalogue(walk, fresh)
<1>1. /\ Result(walk, result)
      /\ Kept(walk, result.walk) \/ walk.request = NoRequest
  BY RequestCatalogueFacts, FreshFacts DEF CoreInv
<1> HIDE DEF result
<1> QED BY <1>1, NothingOnWire, AnswerMethod DEF result

\* A goroutine goes straight on.
LEMMA AnswerGo ==
    ASSUME AnswerInv, CoreInv, NEW s \in Sessions, s \in open \/ handler[s].pc # "idle",
           NEW back \in {"idle", "settle", "release", "advance"},
           GoTo(s, back) \/ (Resume(s) /\ back = handler[s].back),
           Same(walk, walk'),
           open' = open, wire' \subseteq wire, misread' = misread
    PROVE  AnswerInv'
<1>1. Only(s) /\ OnWay(handler[s], handler'[s], back)
  BY GoToFacts, ResumeFacts DEF CoreInv
<1>2. handler'[s].pc \notin {"write", "failed"}
  BY <1>1 DEF OnWay
<1> QED BY <1>1, <1>2, AnswerMove

\* A goroutine changes its own state only.
LEMMA AnswerQuiet ==
    ASSUME AnswerInv, CoreInv, NEW s \in Sessions, s \in open \/ handler[s].pc # "idle",
           CoreInv', NEW g, handler' = [handler EXCEPT ![s] = g],
           g.pc \notin {"write", "failed"}, Same(walk, walk') \/ wire' = {},
           open' = open, wire' \subseteq wire, misread' = misread
    PROVE  AnswerInv'
<1>1. Only(s) /\ handler'[s] = g
  BY DEF CoreInv, Only
<1> QED BY <1>1, AnswerMove

\* An answer that is claimed is the one to the request in the slot.
LEMMA AnswerList ==
    ASSUME AnswerInv, CoreInv, CoreInv', PeersTyped, NEW s \in Sessions, s \in open,
           NEW q \in wire, wire' = wire \ {q}, open' = open,
           List(s, q.target, q.attempt)
    PROVE  AnswerInv'
<1>0. /\ q.attempt = walk.request.attempt /\ handler[s] \in Handlers /\ s \in open
  BY DEF AnswerInv, WireIsSlot, CoreInv
<1>1. ASSUME NEW fresh \in Fresh, misread' = misread,
             Continue(s, RequestCatalogue(walk, fresh), "advance")
      PROVE  AnswerInv'
  BY <1>1, AnswerCatalogue
<1>2. CASE GoTo(s, "advance") /\ UNCHANGED <<walk, disk, mode, urgent>> /\ misread' = misread
  <2>1. Same(walk, walk')
    BY <1>2 DEF Same
  <2> QED BY <1>2, <2>1, AnswerGo
<1>3. CASE /\ Claimable(walk, q.target, s, q.attempt)
           /\ handler' = [handler EXCEPT ![s] =
                 [@ EXCEPT !.pc = "apply",
                           !.kind = IF q.target = NoRO THEN "catalogue" ELSE "roster",
                           !.ro = q.target, !.claim = walk.request.attempt]]
           /\ misread' = misread \cup
                 (IF q.attempt \in {NoAttempt, walk.request.attempt} THEN {}
                                                                     ELSE {q.attempt})
  <2> DEFINE g == [handler[s] EXCEPT !.pc = "apply",
                           !.kind = IF q.target = NoRO THEN "catalogue" ELSE "roster",
                           !.ro = q.target, !.claim = walk.request.attempt]
  <2>1. handler' = [handler EXCEPT ![s] = g] /\ misread' = misread
    BY <1>0, <1>3
  <2>2. g.pc = "apply"
    BY <1>0 DEF Handlers
  <2>3. wire' = {}
    <3> SUFFICES ASSUME NEW p \in wire' PROVE FALSE
      OBVIOUS
    <3>1. p \in wire /\ p # q /\ p \in WireRequests /\ q \in WireRequests
      BY DEF PeersTyped
    <3>2. p.session = q.session /\ p.target = q.target /\ p.attempt = q.attempt
      BY <3>1 DEF AnswerInv, WireIsSlot
    <3>3. p = q
      BY <3>1, <3>2 DEF WireRequests
    <3> QED BY <3>1, <3>3
  <2> HIDE DEF g
  <2> QED BY <2>1, <2>2, <2>3, AnswerQuiet
<1> QED BY <1>1, <1>2, <1>3 DEF List

\* Nothing is on its way while the next request of a connection is registered.
LEMMA AnswerRegister ==
    ASSUME Native, AnswerInv, CoreInv, CoreInv', TypeOK, NEW s \in Sessions, Register(s)
    PROVE  AnswerInv'
<1> DEFINE h == handler[s]
<1>0. /\ UNCHANGED <<open, wire, misread>> /\ h \in Handlers /\ h.pc = "register"
      /\ h.target \in Targets /\ h.back \in {"idle", "settle", "release", "advance"}
  BY HandlerFacts DEF CoreInv, Register, peers
<1>1. \A t \in Sessions : t # s => t \notin open /\ handler[t].pc = "idle"
  BY <1>0 DEF AnswerInv, Alone
<1>2. CASE Resume(s) /\ UNCHANGED walk
  <2>1. Same(walk, walk')
    BY <1>2 DEF Same
  <2> QED BY <1>0, <1>2, <2>1, AnswerGo
<1>3. ASSUME NEW lane \in Lanes(s), Registrable(walk, h.target, lane), NEW fresh \in Fresh,
             walk' = RegisterRequest(walk, h.target, lane, fresh),
             handler' = [handler EXCEPT ![s] =
                [@ EXCEPT !.pc = "write", !.lane = lane, !.attempt = walk'.request.attempt]]
      PROVE  AnswerInv'
  <2> DEFINE a == walk'.request.attempt
             g == [h EXCEPT !.pc = "write", !.lane = lane, !.attempt = a]
  <2>1. lane = s
    BY <1>1, <1>3 DEF Lanes, TypeOK
  <2>2. /\ "replying" \notin walk'.request.marks
        /\ walk'.request.session = s /\ walk'.request.target = h.target
        /\ walk.request.session = NoSession \/ walk.request.session # s
    BY <1>0, <1>3, <2>1, RegisterFacts, FreshFacts DEF CoreInv
  <2>3. wire = {}
    BY <1>1, <2>2, NothingOnWire DEF AnswerInv, WireIsSlot, TypeOK
  <2>4. handler' = [handler EXCEPT ![s] = g]
    BY <1>3
  <2>5. /\ g.pc = "write" /\ g.lane = lane /\ g.attempt = a /\ g.target = h.target
    BY <1>0 DEF Handlers
  <2> HIDE DEF g
  <2>6. handler'[s] = g /\ \A t \in Sessions : t # s => handler'[t].pc = "idle"
    BY <1>1, <2>4 DEF CoreInv
  <2>7. Alone'
    BY <1>0, <1>1, <2>6 DEF Alone
  <2>8. WireIsSlot'
    BY <1>0, <2>3 DEF WireIsSlot
  <2>9. WritesSlot'
    BY <1>0, <2>1, <2>2, <2>3, <2>5, <2>6 DEF WritesSlot
  <2> QED BY <1>0, <2>7, <2>8, <2>9 DEF AnswerInv, AnswersOwnRequest
<1>4. \/ Resume(s) /\ UNCHANGED walk
      \/ \E lane \in Lanes(s) :
           /\ Registrable(walk, h.target, lane)
           /\ \E fresh \in Fresh :
              /\ walk' = RegisterRequest(walk, h.target, lane, fresh)
              /\ handler' = [handler EXCEPT ![s] =
                   [@ EXCEPT !.pc = "write", !.lane = lane, !.attempt = walk'.request.attempt]]
  BY DEF Register
<1> QED BY <1>2, <1>3, <1>4

\* What is written is the request in the slot.
LEMMA AnswerWrite ==
    ASSUME AnswerInv, CoreInv, NEW s \in Sessions, Write(s) PROVE AnswerInv'
<1> DEFINE h == handler[s]
           q == [session |-> h.lane, target |-> h.target, attempt |-> h.attempt]
<1>0. /\ UNCHANGED <<walk, open, misread>> /\ h \in Handlers /\ h.pc = "write"
      /\ h.back \in {"idle", "settle", "release", "advance"} /\ h.lane \in Sessions
  BY HandlerFacts DEF CoreInv, HandlerInOrder, Write, peers
<1>1. \A t \in Sessions : t # s => t \notin open /\ handler[t].pc = "idle"
  BY <1>0 DEF AnswerInv, Alone
<1>2. /\ h.lane = walk.request.session /\ h.target = walk.request.target
      /\ h.attempt = walk.request.attempt
      /\ wire = {} /\ "replying" \notin walk.request.marks
  BY <1>0 DEF AnswerInv, WritesSlot
<1>3. walk.request.session # NoSession
  BY <1>0, <1>2, WalkAssumption
<1>4. WireIsSlot'
  <2>1. wire' = {} \/ (wire' = {q} /\ h.lane \in open)
    BY <1>2 DEF Write
  <2>2. q.session = h.lane /\ q.target = h.target /\ q.attempt = h.attempt
    OBVIOUS
  <2> HIDE DEF q, h
  <2>3. CASE wire' = {}
    BY <2>3 DEF WireIsSlot
  <2>4. CASE wire' = {q} /\ h.lane \in open
    BY <1>0, <1>2, <1>3, <2>2, <2>4 DEF WireIsSlot
  <2> QED BY <2>1, <2>3, <2>4
<1>5. CASE Resume(s)
  <2>1. Only(s) /\ handler'[s].pc = h.back
    BY <1>5, ResumeFacts DEF CoreInv
  <2>2. \A t \in Sessions : t # s => handler'[t].pc = "idle"
    BY <1>1, <2>1 DEF Only
  <2>3. WritesSlot'
    BY <1>0, <2>1, <2>2 DEF WritesSlot
  <2>4. Alone'
    BY <1>0, <1>1, <2>2 DEF Alone
  <2> QED BY <1>0, <1>4, <2>3, <2>4 DEF AnswerInv, AnswersOwnRequest
<1>6. CASE GoTo(s, "failed")
  <2> DEFINE g == At(h, "failed")
  <2>1. handler' = [handler EXCEPT ![s] = g]
    BY <1>6 DEF GoTo
  <2>2. /\ g \in Handlers /\ g.pc = "failed" /\ g.lane = h.lane /\ g.attempt = h.attempt
        /\ g.target = h.target
    BY <1>0, AtFacts
  <2> HIDE DEF g
  <2>3. handler'[s] = g /\ \A t \in Sessions : t # s => handler'[t].pc = "idle"
    BY <1>1, <2>1 DEF CoreInv
  <2>4. WritesSlot'
    BY <1>0, <1>2, <2>2, <2>3 DEF WritesSlot
  <2>5. Alone'
    BY <1>0, <1>1, <2>3 DEF Alone
  <2> QED BY <1>0, <1>4, <2>4, <2>5 DEF AnswerInv, AnswersOwnRequest
<1> QED BY <1>5, <1>6 DEF Write

\* Every other step of a connection.
LEMMA AnswerStep ==
    ASSUME Native, ~Overlap, ~Unsolicited, AnswerInv, CoreInv, CoreInv', PeersTyped,
           NEW s \in Sessions, Step(s)
    PROVE  AnswerInv'
<1>0. TypeOK
  BY TypeFacts
<1>1. CASE Connect(s)
  <2>1. /\ \A t \in Sessions : t \notin open /\ handler[t].pc = "idle"
        /\ open' = open \cup {s} /\ UNCHANGED <<wire, misread>>
    BY <1>1 DEF Connect
  <2>2. wire = {}
    BY <2>1, <1>0 DEF AnswerInv, WireIsSlot, TypeOK
  <2>3. \A t \in Sessions : /\ t # s => handler'[t] = handler[t]
                            /\ handler'[t].pc \notin {"write", "failed"}
    <3>1. CASE UNCHANGED handler
      BY <2>1, <3>1
    <3>2. ASSUME NEW fresh \in Fresh, Continue(s, RequestCatalogue(walk, fresh), "idle")
          PROVE  \A t \in Sessions : /\ t # s => handler'[t] = handler[t]
                                     /\ handler'[t].pc \notin {"write", "failed"}
      <4>1. RequestCatalogue(walk, fresh).ask \subseteq Targets
        BY RequestCatalogueFacts, FreshFacts DEF CoreInv, Result
      <4>2. Only(s) /\ OnWay(handler[s], handler'[s], "idle")
        BY <3>2, <4>1, ContinueFacts DEF CoreInv
      <4> QED BY <2>1, <4>2 DEF Only, OnWay
    <3> QED BY <1>1, <3>1, <3>2 DEF Connect
  <2>4. Alone'
    BY <2>1, <2>3 DEF Alone
  <2>5. WireIsSlot' /\ WritesSlot'
    BY <2>1, <2>2, <2>3 DEF WireIsSlot, WritesSlot
  <2> QED BY <2>1, <2>4, <2>5 DEF AnswerInv, AnswersOwnRequest
<1>2. CASE Disconnect(s) \/ Superseded(s)
  <2>1. /\ open' = open \ {s} /\ wire' = {q \in wire : q.session # s}
        /\ UNCHANGED <<walk, handler, misread>>
    BY <1>2 DEF Disconnect, Superseded
  <2>2. Alone' /\ WireIsSlot' /\ WritesSlot'
    BY <2>1 DEF AnswerInv, Alone, WireIsSlot, WritesSlot
  <2> QED BY <2>1, <2>2 DEF AnswerInv, AnswersOwnRequest
<1>3. CASE Disconnected(s)
  BY <1>3 DEF Disconnected, AnswerInv, AnswersOwnRequest, Alone, WireIsSlot, WritesSlot
<1>4. CASE Traffic(s)
  <2> DEFINE g == [handler[s] EXCEPT !.pc = "refresh", !.back = "advance"]
  <2>1. /\ handler' = [handler EXCEPT ![s] = g] /\ UNCHANGED <<walk, open, misread>>
        /\ wire' \subseteq wire /\ s \in open
    BY <1>4 DEF Traffic, Observe
  <2>2. g.pc = "refresh"
    BY DEF CoreInv, Handlers
  <2>3. Same(walk, walk')
    BY <2>1 DEF Same
  <2> HIDE DEF g
  <2> QED BY <2>1, <2>2, <2>3, AnswerQuiet
<1>5. CASE Answer(s)
  <2>1. s \in open /\ open' = open
    BY <1>5 DEF Answer, Observe
  <2>2. PICK q \in wire : wire' = wire \ {q} /\ List(s, q.target, q.attempt)
    BY <1>5 DEF Answer
  <2> QED BY <2>1, <2>2, AnswerList
<1>6. CASE Content(s)
  <2>1. PICK ro \in ROs :
         handler' = [handler EXCEPT ![s] =
            [@ EXCEPT !.pc = "apply", !.kind = "content", !.ro = ro]]
    BY <1>6 DEF Content
  <2> DEFINE g == [handler[s] EXCEPT !.pc = "apply", !.kind = "content", !.ro = ro]
  <2>2. /\ handler' = [handler EXCEPT ![s] = g] /\ UNCHANGED <<walk, open, misread, wire>>
        /\ s \in open
    BY <1>6, <2>1 DEF Content, Observe
  <2>3. g.pc = "apply"
    BY DEF CoreInv, Handlers
  <2>4. Same(walk, walk')
    BY <2>2 DEF Same
  <2> HIDE DEF g
  <2> QED BY <2>2, <2>3, <2>4, AnswerQuiet
<1>7. CASE Refresh(s)
  <2> DEFINE back == handler[s].back
  <2>1. /\ UNCHANGED <<open, wire, misread>> /\ handler[s].pc # "idle"
        /\ back \in {"idle", "settle", "release", "advance"}
    BY <1>7, HandlerFacts DEF CoreInv, Refresh, peers
  <2>2. ASSUME NEW fresh \in Fresh, Continue(s, RequestCatalogue(walk, fresh), back)
        PROVE  AnswerInv'
    BY <2>1, <2>2, AnswerCatalogue
  <2>3. CASE GoTo(s, back) /\ UNCHANGED walk
    <3>1. Same(walk, walk')
      BY <2>3 DEF Same
    <3> QED BY <2>1, <2>3, <3>1, AnswerGo
  <2> QED BY <1>7, <2>2, <2>3 DEF Refresh
<1>8. CASE Apply(s)
  <2>1. UNCHANGED <<walk, open, wire, misread>> /\ handler[s].pc = "apply"
    BY <1>8 DEF Apply, peers
  <2>2. Same(walk, walk')
    BY <2>1 DEF Same
  <2>3. CASE GoTo(s, AfterMessage(handler[s]))
    BY <2>1, <2>2, <2>3, AfterFacts, AnswerGo
  <2>4. ASSUME NEW outcome \in Outcomes(s),
               \/ handler' = [handler EXCEPT ![s] =
                     [@ EXCEPT !.pc = "settle", !.outcome = outcome]]
               \/ handler' = [handler EXCEPT ![s] =
                     [@ EXCEPT !.pc = "refresh", !.back = "settle", !.outcome = outcome]]
        PROVE  AnswerInv'
    <3> DEFINE f == [handler[s] EXCEPT !.pc = "settle", !.outcome = outcome]
               g == [handler[s] EXCEPT !.pc = "refresh", !.back = "settle", !.outcome = outcome]
    <3>1. handler' = [handler EXCEPT ![s] = f] \/ handler' = [handler EXCEPT ![s] = g]
      BY <2>4
    <3>2. f.pc = "settle" /\ g.pc = "refresh"
      BY DEF CoreInv, Handlers
    <3> HIDE DEF f, g
    <3> QED BY <2>1, <2>2, <3>1, <3>2, AnswerQuiet
  <2> QED BY <1>8, <2>3, <2>4 DEF Apply
<1>9. CASE SettleCatalogue(s)
  <2>1. UNCHANGED <<open, wire, misread>> /\ handler[s].pc = "settle"
    BY <1>9 DEF SettleCatalogue, peers
  <2>2. wire = {}
    BY <1>9, BeginMove, NothingOnWire DEF CoreInv, SlotHeld
  <2>3. PICK result : Result(walk, result) /\ Continue(s, result, "release")
    BY <1>9, BeginMove
  <2> QED BY <2>1, <2>2, <2>3, AnswerMethod
<1>10. CASE SettleRoster(s)
  <2>1. UNCHANGED <<open, wire, misread>> /\ handler[s].pc = "settle"
    BY <1>10 DEF SettleRoster, peers
  <2>2. /\ Holding(handler[s]) /\ AfterMessage(handler[s]) = "release"
        /\ handler[s].ro \in ROs
    BY <1>10, SettleFacts DEF CoreInv, SettleRoster
  <2>3. wire = {}
    BY <2>2, NothingOnWire DEF CoreInv, SlotHeld
  <2>4. PICK fresh \in Fresh : Continue(s, Resolved(walk, handler[s].ro, fresh), "release")
    BY <1>10, <2>2 DEF SettleRoster
  <2>5. Result(walk, Resolved(walk, handler[s].ro, fresh))
    BY <2>2, ResolvedFacts, FreshFacts DEF CoreInv
  <2> QED BY <2>1, <2>3, <2>4, <2>5, AnswerMethod
<1>11. CASE SettleRecover(s)
  <2> DEFINE ro == handler[s].ro
             back == AfterMessage(handler[s])
  <2>1. /\ UNCHANGED <<open, wire, misread>> /\ handler[s].pc = "settle"
        /\ back \in {"release", "advance"} /\ ro \in Targets
    BY <1>11, AfterFacts, HandlerFacts DEF CoreInv, SettleRecover, peers
  <2>2. CASE GoTo(s, back) /\ UNCHANGED walk
    <3>1. Same(walk, walk')
      BY <2>2 DEF Same
    <3> QED BY <2>1, <2>2, <3>1, AnswerGo
  <2>3. ASSUME ro # NoRO, NEW fresh \in Fresh,
               Continue(s, EnqueueUrgent(walk, ro, fresh), back)
        PROVE  AnswerInv'
    <3> DEFINE result == EnqueueUrgent(walk, ro, fresh)
    <3>1. ro \in ROs
      BY <2>1, <2>3 DEF Targets
    <3>2. /\ Result(walk, result)
          /\ Kept(walk, result.walk) \/ walk.request = NoRequest
      BY <3>1, EnqueueFacts, FreshFacts DEF CoreInv
    <3>3. Continue(s, result, back)
      BY <2>3
    <3> HIDE DEF result
    <3> QED BY <2>1, <3>2, <3>3, NothingOnWire, AnswerMethod
  <2>4. \/ GoTo(s, back) /\ UNCHANGED walk
        \/ ro # NoRO /\ \E fresh \in Fresh : Continue(s, EnqueueUrgent(walk, ro, fresh), back)
    BY <1>11 DEF SettleRecover
  <2> QED BY <2>2, <2>3, <2>4
<1>12. CASE SettleNothing(s)
  <2>1. UNCHANGED <<walk, open, wire, misread>> /\ handler[s].pc = "settle"
        /\ GoTo(s, AfterMessage(handler[s]))
    BY <1>12 DEF SettleNothing, peers
  <2>2. Same(walk, walk')
    BY <2>1 DEF Same
  <2> QED BY <2>1, <2>2, AfterFacts, AnswerGo
<1>13. CASE Register(s)
  BY <1>0, <1>13, AnswerRegister
<1>14. CASE Write(s)
  BY <1>14, AnswerWrite
<1>15. CASE WriteFailed(s)
  <2> DEFINE h == handler[s]
  <2>1. /\ UNCHANGED <<open, wire, misread>> /\ h.pc = "failed" /\ Resume(s)
        /\ h.attempt \in Attempts /\ h.back \in {"idle", "settle", "release", "advance"}
    BY <1>15, HandlerFacts DEF CoreInv, HandlerInOrder, WriteFailed, peers
  <2>2. CASE Failable(walk, h.attempt)
    <3>1. walk' = FailedRequest(walk).walk
      BY <1>15, <2>2 DEF WriteFailed
    <3>2. Kept(walk, FailedRequest(walk).walk)
      BY <2>1, <2>2, FailedFacts DEF CoreInv
    <3>3. Same(walk, walk')
      BY <3>1, <3>2 DEF Kept, Same
    <3> QED BY <2>1, <3>3, AnswerGo
  <2>3. CASE UNCHANGED walk
    <3>1. Same(walk, walk')
      BY <2>3 DEF Same
    <3> QED BY <2>1, <3>1, AnswerGo
  <2> QED BY <1>15, <2>2, <2>3 DEF WriteFailed
<1>16. CASE Release(s)
  <2> DEFINE g == [Idle EXCEPT !.pc = "advance"]
             marks == walk.request.marks \ {"replying"}
  <2>1. /\ UNCHANGED <<open, wire, misread>> /\ handler[s].pc = "release"
        /\ handler' = [handler EXCEPT ![s] = g]
        /\ walk' = ReleaseRequest(walk, handler[s].claim)
    BY <1>16 DEF Release, peers
  <2>2. g.pc = "advance"
    BY IdleFacts DEF Handlers
  <2>3. Same(walk, walk')
    <3>1. CASE walk.request.attempt = handler[s].claim
      <4>1. walk' = [walk EXCEPT !.request.marks = marks]
        BY <2>1, <3>1 DEF ReleaseRequest
      <4>2. walk \in Walks /\ walk.request \in Requests
        BY WalkFacts DEF CoreInv, WalkInOrder
      <4> HIDE DEF marks
      <4>3. /\ walk'.request.attempt = walk.request.attempt
            /\ walk'.request.session = walk.request.session
            /\ walk'.request.target = walk.request.target
            /\ walk'.request.marks = marks
        BY <4>1, <4>2 DEF Walks, Requests
      <4> QED BY <4>3 DEF Same, marks
    <3>2. CASE walk.request.attempt # handler[s].claim
      BY <2>1, <3>2 DEF ReleaseRequest, Same
    <3> QED BY <3>1, <3>2
  <2> HIDE DEF g
  <2> QED BY <2>1, <2>2, <2>3, AnswerQuiet
<1>17. CASE Advance(s)
  <2>1. UNCHANGED <<open, wire, misread>> /\ handler[s].pc = "advance"
    BY <1>17 DEF Advance, peers
  <2>2. PICK fresh \in Fresh : Continue(s, Nudge(walk, fresh), "idle")
    BY <1>17 DEF Advance
  <2> DEFINE result == Nudge(walk, fresh)
  <2>3. /\ Result(walk, result)
        /\ Kept(walk, result.walk) \/ walk.request.session = NoSession
    BY NudgeFacts, FreshFacts DEF CoreInv
  <2>4. Continue(s, result, "idle")
    BY <2>2
  <2> HIDE DEF result
  <2> QED BY <2>1, <2>3, <2>4, NothingOnWire, AnswerMethod
<1>18. ~UnsolicitedList(s)
  BY DEF UnsolicitedList
<1> QED BY <1>1, <1>2, <1>3, <1>4, <1>5, <1>6, <1>7, <1>8, <1>9, <1>10, <1>11, <1>12,
           <1>13, <1>14, <1>15, <1>16, <1>17, <1>18 DEF Step

\* On MOS 4 an answer is claimed by the identity it carries.
LEMMA AnswerByIdentity ==
    ASSUME ~Native, AnswersOwnRequest, [Next]_vars PROVE AnswersOwnRequest'
<1>1. ASSUME NEW s, NEW ro, NEW attempt, List(s, ro, attempt) PROVE misread' = misread
  BY <1>1 DEF List, Claimable
<1>2. ASSUME NEW s \in Sessions, Step(s) PROVE misread' = misread
  <2>1. CASE Answer(s) \/ UnsolicitedList(s)
    BY <1>1, <2>1 DEF Answer, UnsolicitedList
  <2>2. CASE \/ Connect(s) \/ Disconnect(s) \/ Disconnected(s) \/ Superseded(s)
             \/ Traffic(s) \/ Content(s) \/ Refresh(s) \/ Apply(s)
    BY <2>2 DEF Connect, Disconnect, Disconnected, Superseded, Traffic, Content, Refresh, Apply
  <2>3. CASE \/ SettleCatalogue(s) \/ SettleRoster(s) \/ SettleRecover(s) \/ SettleNothing(s)
             \/ Register(s) \/ Write(s) \/ WriteFailed(s) \/ Release(s) \/ Advance(s)
    BY <2>3 DEF SettleCatalogue, SettleRoster, SettleRecover, SettleNothing, Register, Write,
                WriteFailed, Release, Advance
  <2> QED BY <1>2, <2>1, <2>2, <2>3 DEF Step
<1>3. misread' = misread
  BY <1>2 DEF Next, DeadlinePasses, IntervalOver, Restart, vars
<1> QED BY <1>3 DEF AnswersOwnRequest

\* Every step, on MOS 2.x with one connection at a time.
LEMMA AnswerInOrder ==
    ASSUME Native, ~Overlap, ~Unsolicited, AnswerInv, CoreInv, CoreInv', PeersTyped,
           [Next]_vars
    PROVE  AnswerInv'
<1>1. ASSUME NEW s \in Sessions, Step(s) PROVE AnswerInv'
  BY <1>1, AnswerStep
<1>2. CASE DeadlinePasses
  <2>1. /\ UNCHANGED <<open, handler, wire, misread>> /\ walk \in Walks
        /\ walk' = [walk EXCEPT !.deadline = "passed"]
    BY <1>2 DEF DeadlinePasses, peers, CoreInv, WalkInOrder
  <2>2. walk'.request = walk.request
    BY <2>1 DEF Walks
  <2> QED BY <2>1, <2>2 DEF AnswerInv, Alone, WireIsSlot, WritesSlot, AnswersOwnRequest
<1>3. CASE UNCHANGED <<open, handler, wire, misread, walk>>
  BY <1>3 DEF AnswerInv, Alone, WireIsSlot, WritesSlot, AnswersOwnRequest
<1>4. CASE Restart
  <2>1. \A s \in Sessions : handler'[s].pc = "idle"
    BY <1>4, IdleFacts DEF Restart
  <2> QED BY <1>4, <2>1
          DEF Restart, AnswerInv, Alone, WireIsSlot, WritesSlot, AnswersOwnRequest
<1>5. IntervalOver \/ UNCHANGED vars => UNCHANGED <<open, handler, wire, misread, walk>>
  BY DEF IntervalOver, peers, vars
<1> QED BY <1>1, <1>2, <1>3, <1>4, <1>5 DEF Next

\* claimRequest never takes a late answer for the answer to a later request: on
\* MOS 4 because answers carry the messageID, and on the MOS 2.x socket, where
\* they do not, as long as connections do not overlap and the peer sends no
\* lists of its own.
THEOREM AnswersTheorem ==
    ASSUME ~Native \/ (~Overlap /\ ~Unsolicited)
    PROVE  Spec => []AnswersOwnRequest
<1> DEFINE Inv == IF Native THEN AnswerInv ELSE AnswersOwnRequest
<1>1. Init => Inv
  <2> SUFFICES ASSUME Init PROVE AnswerInv
    BY DEF AnswerInv
  <2>1. \A s \in Sessions : handler[s].pc = "idle"
    BY IdleFacts DEF Init
  <2> QED BY <2>1 DEF Init, AnswerInv, Alone, WireIsSlot, WritesSlot, AnswersOwnRequest
<1>2. Inv /\ CoreInv /\ PeersTyped /\ CoreInv' /\ [Next]_vars => Inv'
  BY AnswerInOrder, AnswerByIdentity
<1>3. Inv => AnswersOwnRequest
  BY DEF AnswerInv
<1> QED BY <1>1, <1>2, <1>3, WalkInvariant, PTL DEF Spec
=============================================================================
