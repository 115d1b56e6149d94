--------------------------- MODULE RetryDedupProofs ---------------------------
(***************************************************************************)
(* What the deduplication of retried requests promises, for any number of  *)
(* messages, contents and goroutines, any capacity that has room for the   *)
(* goroutines at work and any compaction threshold: its type, that a       *)
(* stored response is kept, that it is what a later retry gets, and that   *)
(* no OK is sent for a request that was not applied, unless a process went *)
(* on to append to a log it had not read.                                  *)
(*                                                                         *)
(* The argument: whatever a step does to memory or to the log, it puts one *)
(* entry (Put): it changes the entry of a message or adds it behind the    *)
(* others, and then the oldest may go.  That the oldest is not that of the *)
(* request under way needs counting: each goroutine that was given up adds *)
(* at most one entry behind it (Room).  So memory never forgets the        *)
(* request under way while the log knows it, and neither mixes the hash of *)
(* one request with the response of another (CurrentInOrder).  Once a log  *)
(* was not read, this still holds of the messageIDs used since.            *)
(***************************************************************************)
EXTENDS RetryDedup, FiniteSetTheorems, TLAPS

-----------------------------------------------------------------------------
(* The inductive invariant.                                                *)

\* No two entries of a store are for the same message, all are for messages
\* that were sent, and a response is for a request that was applied.
Distinct(q) == \A i, j \in DOMAIN q : q[i].id = q[j].id => i = j
Known(q) == \A id \in IDs : Has(q, id) => id \in sent
Earned(q) ==
    \A id \in IDs :
        Response(q, id) # None => [id |-> id, content |-> Response(q, id)] \in applied

StoreInOrder(q) == Distinct(q) /\ Known(q) /\ Earned(q)

Busy(h) == ~At(h, "idle")
Accepted == {"record", "lookup", "apply", "remember", "hash", "receipt"}
Done == {"remember", "hash", "receipt"}
Working == Accepted \cup {"check"}

\* What the goroutines work on: two that work on one messageID work on the
\* same request, and that is the newsroom's if it has this messageID.
WorkInOrder ==
    /\ current.id \in sent
    /\ \A h \in Handlers :
        /\ Busy(h) => /\ Request(h) \in Requests
                      /\ Request(h).id \in sent
                      /\ Request(h).id = current.id => Request(h) = current
        /\ At(h, "idle") => handler[h] = Idle
        /\ handler[h].pc \in Done => Request(h) \in applied
        /\ handler[h].late = "yes" => handler[h].pc \in Accepted \cup {"reply"}
        /\ handler[h].late = "yes" /\ Request(h) = current => answered # "no"
    /\ \A g, h \in Handlers :
        Busy(g) /\ Busy(h) /\ Request(g).id = Request(h).id => Request(g) = Request(h)

\* The entry of a message has the hash and the response of one request only.
Unmixed(q, id) == Hash(q, id) = None \/ Response(q, id) \in {None, Hash(q, id)}
Pure(q, m) ==
    Hash(q, m.id) \in {None, m.content} /\ Response(q, m.id) \in {None, m.content}

\* What memory says of a message some goroutine works on.
EntriesInOrder ==
    \A h \in Handlers : Request(h).id \notin unread =>
        /\ Busy(h) => Unmixed(mem, Request(h).id)
        /\ handler[h].pc \in Accepted => Pure(mem, Request(h))

\* What memory and log say of the request under way: a hash, and no other
\* request's response; memory knows what the log knows; and a goroutine that
\* got past the check finds its own hash there, and later its response.
OfOneRequest(q) ==
    current.id \notin unread /\ Has(q, current.id) =>
        /\ Hash(q, current.id) # None
        /\ Response(q, current.id) \in {None, Hash(q, current.id)}

Ahead ==
    current.id \notin unread /\ mode = "durable" /\ Has(disk, current.id) =>
        Has(mem, current.id) /\ Hash(disk, current.id) = Hash(mem, current.id)

OwnEntry(h) ==
    Busy(h) /\ Request(h) = current =>
        /\ handler[h].pc \in Accepted =>
              Has(mem, current.id) /\ Hash(mem, current.id) = current.content
        /\ handler[h].pc \in {"hash", "receipt"} =>
              Response(mem, current.id) = current.content
        /\ At(h, "receipt") => handler[h].hash = current.content

CurrentInOrder ==
    /\ OfOneRequest(mem)
    /\ OfOneRequest(disk)
    /\ OfOneRequest(cut)
    /\ Ahead
    /\ \A h \in Handlers : OwnEntry(h)

\* The entries of q that are newer than that of id, and the goroutines of H
\* that may still add one.
After(q, id) == Len(q) - Index(q, id)
Newer(q, id, b) == \E j \in DOMAIN q : j > Index(q, id) /\ q[j].id = b
Pending(H, q, id) ==
    {g \in Handlers : /\ H[g].pc \in Working
                      /\ H[g].request.id # id
                      /\ ~Newer(q, id, H[g].request.id)}

\* Each goroutine that was given up adds at most one entry behind that of
\* the request under way, which is therefore not pushed out.
RoomFor(H, q, id) ==
    Has(q, id) => After(q, id) + Cardinality(Pending(H, q, id)) < Cardinality(Handlers)

\* The part of it that a process which starts again needs.
Near(q, id) == Has(q, id) => After(q, id) < Cardinality(Handlers)

Room ==
    /\ RoomFor(handler, mem, current.id)
    /\ RoomFor(handler, disk, current.id)
    /\ Near(cut, current.id)

\* Where the response is stored, its hash is stored with it.
HashKept ==
    /\ answered # "no" => Hash(mem, current.id) = current.content
    /\ answered = "disk" => Hash(disk, current.id) = current.content

DedupInv ==
    /\ TypeOK
    /\ StoreInOrder(mem) /\ StoreInOrder(disk) /\ StoreInOrder(cut)
    /\ WorkInOrder
    /\ EntriesInOrder
    /\ CurrentInOrder
    /\ Room
    /\ ReceiptKept
    /\ HashKept
    /\ AnsweredIsNotRepeated
    /\ OKIfLogWasRead

-----------------------------------------------------------------------------
(* What the store's operations do to a sequence of entries.                *)

\* p is q with entry e for its message: in the place of the one it had, or
\* behind the others, and then the oldest may be gone.
Put(q, p, e) ==
    /\ p \in Seq(Entries) /\ Len(p) <= Capacity /\ Distinct(p)
    /\ Has(p, e.id) /\ Hash(p, e.id) = e.hash /\ Response(p, e.id) = e.response
    /\ ~Has(q, e.id) => After(p, e.id) = 0
    /\ \A id \in IDs \ {e.id} :
          Has(p, id) => /\ Has(q, id)
                        /\ Hash(p, id) = Hash(q, id)
                        /\ Response(p, id) = Response(q, id)
    /\ \A id \in IDs :
          /\ Has(q, id) /\ Has(q, e.id) =>
                /\ Has(p, id) /\ After(p, id) = After(q, id)
                /\ \A b \in IDs : Newer(q, id, b) => Newer(p, id, b)
          /\ Has(q, id) /\ ~Has(q, e.id) /\ After(q, id) + 1 < Capacity =>
                /\ Has(p, id) /\ After(p, id) = After(q, id) + 1
                /\ \A b \in IDs : Newer(q, id, b) => Newer(p, id, b)
                /\ Newer(p, id, e.id)

\* Index finds the only entry of a message.
LEMMA IndexLemma ==
    ASSUME NEW q, Distinct(q)
    PROVE  /\ \A i \in DOMAIN q : Has(q, q[i].id) /\ Index(q, q[i].id) = i
           /\ \A id : Has(q, id) => Index(q, id) \in DOMAIN q /\ q[Index(q, id)].id = id
  BY DEF Distinct, Has, Index

\* What a store says of a message is a hash or nothing.
LEMMA LookupType ==
    ASSUME NEW q \in Seq(Entries), NEW id
    PROVE  Hash(q, id) \in Hashes /\ Response(q, id) \in Hashes
<1>1. CASE Has(q, id)
  <2>1. Index(q, id) \in DOMAIN q
    BY <1>1 DEF Has, Index
  <2>2. q[Index(q, id)] \in Entries
    BY <2>1
  <2> QED  BY <1>1, <2>2 DEF Hash, Response, Entries
<1>2. CASE ~Has(q, id)
  BY <1>2 DEF Hash, Response, Hashes
<1> QED  BY <1>1, <1>2

\* Changing the entry of a message that has one.
LEMMA UpdatePuts ==
    ASSUME NEW q \in Seq(Entries), Len(q) <= Capacity, Distinct(q),
           NEW e \in Entries, Has(q, e.id)
    PROVE  Put(q, [q EXCEPT ![Index(q, e.id)] = e], e)
<1> DEFINE k == Index(q, e.id)
           p == [q EXCEPT ![k] = e]
<1>1. k \in DOMAIN q /\ q[k].id = e.id
  BY IndexLemma
<1> HIDE DEF k
<1>2. /\ p \in Seq(Entries) /\ Len(p) = Len(q) /\ DOMAIN p = DOMAIN q
      /\ p[k] = e
      /\ \A i \in DOMAIN q : i # k => p[i] = q[i]
  BY <1>1
<1> HIDE DEF p
<1>3. \A i \in DOMAIN q : p[i].id = q[i].id
  BY <1>1, <1>2
<1>4. Distinct(p)
  BY <1>2, <1>3 DEF Distinct
<1>5. \A id : Has(p, id) <=> Has(q, id)
  BY <1>2, <1>3 DEF Has
<1>6. \A id : Has(q, id) => Index(p, id) = Index(q, id)
  <2> TAKE id
  <2> HAVE Has(q, id)
  <2>1. Index(q, id) \in DOMAIN q /\ q[Index(q, id)].id = id
    BY IndexLemma
  <2>2. p[Index(q, id)].id = id
    BY <2>1, <1>3
  <2> QED  BY <2>1, <2>2, <1>2, <1>4, IndexLemma
<1>7. Hash(p, e.id) = e.hash /\ Response(p, e.id) = e.response
  BY <1>2, <1>5, <1>6 DEF Hash, Response, k
<1>8. ASSUME NEW id \in IDs \ {e.id}
      PROVE  Hash(p, id) = Hash(q, id) /\ Response(p, id) = Response(q, id)
  <2>1. CASE Has(q, id)
    <3>1. Index(q, id) \in DOMAIN q /\ q[Index(q, id)].id = id
      BY <2>1, IndexLemma
    <3>2. Index(q, id) # k
      BY <3>1, <1>1
    <3> QED  BY <2>1, <3>1, <3>2, <1>2, <1>5, <1>6 DEF Hash, Response
  <2>2. CASE ~Has(q, id)
    BY <2>2, <1>5 DEF Hash, Response
  <2> QED  BY <2>1, <2>2
<1>9. \A id : Has(q, id) => After(p, id) = After(q, id)
  BY <1>2, <1>6 DEF After
<1>10. \A id, b : Has(q, id) /\ Newer(q, id, b) => Newer(p, id, b)
  BY <1>2, <1>3, <1>6 DEF Newer
<1> QED
  <2>1. Put(q, p, e)
    BY <1>2, <1>4, <1>5, <1>7, <1>8, <1>9, <1>10 DEF Put
  <2> QED  BY <2>1 DEF p, k

\* insertLocked, for a message that has no entry.
LEMMA InsertPuts ==
    ASSUME NEW q \in Seq(Entries), Len(q) <= Capacity, Distinct(q),
           NEW e \in Entries, ~Has(q, e.id)
    PROVE  Put(q, Insert(q, e), e)
<1> DEFINE d == IF Len(q) >= Capacity THEN 1 ELSE 0
           p == Insert(q, e)
           n == Len(q)
<1>0. n \in Nat /\ DOMAIN q = 1 .. n /\ d \in {0, 1} /\ d <= n /\ Capacity \in Nat \ {0}
  BY DedupAssumption
<1>1. /\ p \in Seq(Entries) /\ Len(p) = n - d + 1 /\ DOMAIN p = 1 .. n - d + 1
      /\ p[n - d + 1] = e
      /\ \A i \in 1 .. n - d : p[i] = q[i + d]
  <2>1. CASE Len(q) >= Capacity
    <3> DEFINE t == Tail(q)
    <3>1. q # <<>>
      BY <2>1, <1>0
    <3>2. t \in Seq(Entries) /\ Len(t) = n - 1 /\ \A i \in 1 .. n - 1 : t[i] = q[i + 1]
      BY <3>1, <1>0
    <3>3. p = Append(t, e) /\ d = 1
      BY <2>1 DEF Insert
    <3> HIDE DEF t, p
    <3>4. Append(t, e) \in Seq(Entries) /\ Len(Append(t, e)) = Len(t) + 1
          /\ DOMAIN Append(t, e) = 1 .. Len(t) + 1
          /\ Append(t, e)[Len(t) + 1] = e
          /\ \A i \in 1 .. Len(t) : Append(t, e)[i] = t[i]
      BY <3>2
    <3> QED  BY <3>2, <3>3, <3>4, <1>0
  <2>2. CASE ~(Len(q) >= Capacity)
    <3>1. p = Append(q, e) /\ d = 0
      BY <2>2 DEF Insert
    <3> HIDE DEF p
    <3>2. Append(q, e) \in Seq(Entries) /\ Len(Append(q, e)) = n + 1
          /\ DOMAIN Append(q, e) = 1 .. n + 1
          /\ Append(q, e)[n + 1] = e
          /\ \A i \in 1 .. n : Append(q, e)[i] = q[i]
      OBVIOUS
    <3> QED  BY <3>1, <3>2, <1>0
  <2> QED  BY <2>1, <2>2
<1>2. Len(p) <= Capacity
  <2>1. d = 1 \/ n + 1 <= Capacity
    BY <1>0
  <2> QED  BY <2>1, <1>1, <1>0
<1>3. d = 1 => n >= Capacity
  OBVIOUS
<1> HIDE DEF d, p
<1>4. \A i \in DOMAIN q : q[i].id # e.id
  BY DEF Has
<1>5. Distinct(p)
  <2> SUFFICES ASSUME NEW i \in DOMAIN p, NEW j \in DOMAIN p, p[i].id = p[j].id
               PROVE  i = j
    BY DEF Distinct
  <2>1. i \in 1 .. n - d + 1 /\ j \in 1 .. n - d + 1
    BY <1>1
  <2>2. CASE i = n - d + 1
    <3>1. CASE j # n - d + 1
      <4>1. j \in 1 .. n - d /\ j + d \in DOMAIN q
        BY <2>1, <3>1, <1>0
      <4> QED  BY <4>1, <2>2, <1>1, <1>4
    <3> QED  BY <2>2, <3>1
  <2>3. CASE i # n - d + 1 /\ j = n - d + 1
    <3>1. i \in 1 .. n - d /\ i + d \in DOMAIN q
      BY <2>1, <2>3, <1>0
    <3> QED  BY <3>1, <2>3, <1>1, <1>4
  <2>4. CASE i # n - d + 1 /\ j # n - d + 1
    <3>1. /\ i \in 1 .. n - d /\ i + d \in DOMAIN q
          /\ j \in 1 .. n - d /\ j + d \in DOMAIN q
      BY <2>1, <2>4, <1>0
    <3>2. i + d = j + d
      BY <3>1, <1>1 DEF Distinct
    <3> QED  BY <3>1, <3>2, <1>0
  <2> QED  BY <2>2, <2>3, <2>4
<1>6. Has(p, e.id) /\ Index(p, e.id) = n - d + 1
  <2>1. n - d + 1 \in DOMAIN p /\ p[n - d + 1].id = e.id
    BY <1>0, <1>1
  <2> QED  BY <2>1, <1>5, IndexLemma
<1>7. Hash(p, e.id) = e.hash /\ Response(p, e.id) = e.response /\ After(p, e.id) = 0
  BY <1>0, <1>1, <1>6 DEF Hash, Response, After
<1>8. ASSUME NEW id \in IDs, id # e.id, Has(p, id)
      PROVE  /\ Has(q, id) /\ Hash(p, id) = Hash(q, id) /\ Response(p, id) = Response(q, id)
  <2>1. Index(p, id) \in DOMAIN p /\ p[Index(p, id)].id = id
    BY <1>5, <1>8, IndexLemma
  <2>2. Index(p, id) \in 1 .. n - d /\ Index(p, id) + d \in DOMAIN q
    BY <2>1, <1>8, <1>1, <1>0
  <2>3. p[Index(p, id)] = q[Index(p, id) + d]
    BY <2>2, <1>1
  <2>4. Has(q, id) /\ Index(q, id) = Index(p, id) + d
    BY <2>1, <2>2, <2>3, IndexLemma
  <2> QED  BY <1>8, <2>3, <2>4 DEF Hash, Response
<1>9. ASSUME NEW id \in IDs, Has(q, id), After(q, id) + 1 < Capacity
      PROVE  /\ Has(p, id) /\ After(p, id) = After(q, id) + 1
             /\ \A b \in IDs : Newer(q, id, b) => Newer(p, id, b)
             /\ Newer(p, id, e.id)
  <2> DEFINE i == Index(q, id)
  <2>1. i \in DOMAIN q /\ q[i].id = id
    BY <1>9, IndexLemma
  <2>2. n - i + 1 < Capacity
    BY <1>9 DEF After
  <2> HIDE DEF i
  <2>3. i - d \in 1 .. n - d
    BY <2>1, <2>2, <1>0, <1>3
  <2>4. p[i - d] = q[i]
    BY <2>1, <2>3, <1>0, <1>1
  <2>5. Has(p, id) /\ Index(p, id) = i - d
    <3>1. i - d \in DOMAIN p /\ p[i - d].id = id
      BY <2>1, <2>3, <2>4, <1>0, <1>1
    <3> QED  BY <3>1, <1>5, IndexLemma
  <2>6. After(p, id) = After(q, id) + 1
    BY <2>1, <2>5, <1>0, <1>1 DEF After, i
  <2>7. Newer(p, id, e.id)
    <3>1. n - d + 1 \in DOMAIN p /\ n - d + 1 > i - d /\ p[n - d + 1].id = e.id
      BY <2>1, <2>3, <1>0, <1>1
    <3> QED  BY <3>1, <2>5 DEF Newer
  <2>8. ASSUME NEW b \in IDs, Newer(q, id, b)
        PROVE  Newer(p, id, b)
    <3>1. PICK j \in DOMAIN q : j > i /\ q[j].id = b
      BY <2>8 DEF Newer, i
    <3>2. j - d \in 1 .. n - d /\ j - d > i - d /\ j - d \in DOMAIN p
      BY <3>1, <2>1, <2>3, <1>0, <1>1
    <3>3. p[j - d] = q[j]
      BY <3>1, <3>2, <1>0, <1>1
    <3> QED  BY <3>1, <3>2, <3>3, <2>5 DEF Newer
  <2> QED  BY <2>5, <2>6, <2>7, <2>8
<1>10. Put(q, p, e)
  BY <1>1, <1>2, <1>5, <1>6, <1>7, <1>8, <1>9 DEF Put
<1> QED  BY <1>10 DEF p

\* Remember changes the response, and enters a message that has no entry.
LEMMA RememberedPuts ==
    ASSUME NEW q \in Seq(Entries), Len(q) <= Capacity, Distinct(q),
           NEW id \in IDs, NEW r \in Contents
    PROVE  Put(q, Remembered(q, id, r), [id |-> id, hash |-> Hash(q, id), response |-> r])
<1> DEFINE e == [id |-> id, hash |-> Hash(q, id), response |-> r]
<1>1. e \in Entries /\ e.id = id
  BY LookupType DEF Entries, Hashes
<1>2. CASE Has(q, id)
  <2>1. Index(q, id) \in DOMAIN q /\ q[Index(q, id)].id = id /\ q[Index(q, id)] \in Entries
    BY <1>2, IndexLemma
  <2>2. Hash(q, id) = q[Index(q, id)].hash
    BY <1>2 DEF Hash
  <2>3. [q[Index(q, id)] EXCEPT !.response = r] = e
    BY <2>1, <2>2 DEF Entries
  <2>4. Remembered(q, id, r) = [q EXCEPT ![Index(q, id)] = e]
    BY <1>2, <2>1, <2>3 DEF Remembered
  <2> QED  BY <2>4, <1>1, <1>2, UpdatePuts
<1>3. CASE ~Has(q, id)
  <2>1. Remembered(q, id, r) = Insert(q, e)
    BY <1>3 DEF Remembered, Hash
  <2> QED  BY <2>1, <1>1, <1>3, InsertPuts
<1> QED  BY <1>2, <1>3

\* restore adds what the record says to what is there.
LEMMA RestorePuts ==
    ASSUME NEW q \in Seq(Entries), Len(q) <= Capacity, Distinct(q), NEW r \in Entries
    PROVE  Put(q, Restore(q, r),
               [id |-> r.id, hash |-> Later(Hash(q, r.id), r.hash),
                response |-> Later(Response(q, r.id), r.response)])
<1> DEFINE e == [id |-> r.id, hash |-> Later(Hash(q, r.id), r.hash),
                 response |-> Later(Response(q, r.id), r.response)]
<1>1. e \in Entries /\ e.id = r.id
  BY LookupType DEF Entries, Hashes, Later
<1>2. CASE Has(q, r.id)
  <2>1. Index(q, r.id) \in DOMAIN q /\ q[Index(q, r.id)] \in Entries
    BY <1>2, IndexLemma
  <2>2. Restore(q, r) = [q EXCEPT ![Index(q, r.id)] = e]
    BY <1>2, <2>1 DEF Restore, Hash, Response
  <2> QED  BY <2>2, <1>1, <1>2, UpdatePuts
<1>3. CASE ~Has(q, r.id)
  <2>1. e = r
    BY <1>3 DEF Hash, Response, Later, Entries
  <2>2. Restore(q, r) = Insert(q, r)
    BY <1>3 DEF Restore
  <2> QED  BY <2>1, <2>2, <1>1, <1>3, InsertPuts
<1> QED  BY <1>2, <1>3

-----------------------------------------------------------------------------
(* Counting.                                                               *)

\* A beginning of a store says what the store says, of fewer messages.
LEMMA BeginningLemma ==
    ASSUME NEW q \in Seq(Entries), Distinct(q), Len(q) <= Capacity, NEW p \in Beginnings(q)
    PROVE  /\ p \in Seq(Entries) /\ Len(p) <= Capacity /\ Distinct(p)
           /\ \A id : Has(p, id) => /\ Has(q, id)
                                   /\ Hash(p, id) = Hash(q, id)
                                   /\ Response(p, id) = Response(q, id)
                                   /\ After(p, id) <= After(q, id)
<1>1. PICK n \in 0 .. Len(q) : p = SubSeq(q, 1, n)
  BY DEF Beginnings
<1>2. /\ p \in Seq(Entries) /\ Len(p) = n /\ DOMAIN p = 1 .. n /\ n <= Len(q) /\ n \in Nat
      /\ Len(q) \in Nat /\ DOMAIN q = 1 .. Len(q)
      /\ \A i \in 1 .. n : p[i] = q[i]
  BY <1>1
<1>3. Distinct(p)
  BY <1>2 DEF Distinct
<1>4. ASSUME NEW id, Has(p, id)
      PROVE  Has(q, id) /\ Index(p, id) = Index(q, id) /\ Index(p, id) \in 1 .. n
  <2>1. Index(p, id) \in DOMAIN p /\ p[Index(p, id)].id = id
    BY <1>3, <1>4, IndexLemma
  <2>2. Index(p, id) \in DOMAIN q /\ q[Index(p, id)].id = id
    BY <2>1, <1>2
  <2> QED  BY <2>1, <2>2, <1>2, IndexLemma
<1>5. ASSUME NEW id, Has(p, id)
      PROVE  /\ Hash(p, id) = Hash(q, id) /\ Response(p, id) = Response(q, id)
             /\ After(p, id) <= After(q, id)
  BY <1>2, <1>4, <1>5 DEF Hash, Response, After
<1>6. Len(p) <= Capacity
  BY <1>2, DedupAssumption
<1> QED  BY <1>2, <1>3, <1>4, <1>5, <1>6

\* Of the goroutines that may add an entry behind that of id, none is new.
Shrinks(H, G, id) ==
    \A g \in Handlers :
        G[g].pc \in Working /\ G[g].request.id # id =>
            H[g].pc \in Working /\ G[g].request = H[g].request

\* The goroutines that may add an entry are finitely many.
LEMMA PendingFinite ==
    ASSUME NEW H, NEW q, NEW id
    PROVE  /\ Pending(H, q, id) \in SUBSET Handlers
           /\ IsFiniteSet(Pending(H, q, id))
           /\ Cardinality(Pending(H, q, id)) \in Nat
           /\ Cardinality(Handlers) \in Nat
<1>1. Pending(H, q, id) \in SUBSET Handlers
  BY DEF Pending
<1> QED  BY <1>1, RoomAssumption, FS_Subset, FS_CardinalityType

\* Where there is room for those at work, there is room for none.
LEMMA RoomIsNear ==
    ASSUME NEW H, NEW q \in Seq(Entries), NEW id, Distinct(q), RoomFor(H, q, id)
    PROVE  Near(q, id)
<1>1. Has(q, id) => After(q, id) \in Int
  BY IndexLemma DEF After
<1> HIDE DEF After, Pending
<1> QED  BY <1>1, PendingFinite DEF RoomFor, Near

\* A step that leaves the entries alone leaves room.
LEMMA RoomKept ==
    ASSUME NEW H, NEW G, NEW q \in Seq(Entries), NEW id, Distinct(q),
           Shrinks(H, G, id), RoomFor(H, q, id)
    PROVE  RoomFor(G, q, id)
<1> SUFFICES ASSUME Has(q, id)
             PROVE  After(q, id) + Cardinality(Pending(G, q, id)) < Cardinality(Handlers)
  BY DEF RoomFor
<1>1. Pending(G, q, id) \in SUBSET Pending(H, q, id)
  BY DEF Pending, Shrinks
<1>2. Cardinality(Pending(G, q, id)) <= Cardinality(Pending(H, q, id))
  BY <1>1, PendingFinite, FS_Subset
<1>3. After(q, id) + Cardinality(Pending(H, q, id)) < Cardinality(Handlers)
  BY DEF RoomFor
<1>4. After(q, id) \in Int
  BY IndexLemma DEF After
<1> HIDE DEF After, Pending
<1> QED  BY <1>2, <1>3, <1>4, PendingFinite

\* A goroutine that puts its entry leaves room: it was counted, and is not
\* counted any more.  The entry of id is not pushed out.
LEMMA RoomAfterPut ==
    ASSUME NEW H, NEW G, NEW q \in Seq(Entries), NEW p, NEW e \in Entries,
           NEW id \in IDs, NEW g \in Handlers, Distinct(q),
           Shrinks(H, G, id), RoomFor(H, q, id), Put(q, p, e),
           H[g].pc \in Working, H[g].request.id = e.id, G[g].request = H[g].request,
           \A h \in Handlers : G[h].pc \in Working => G[h].request.id \in IDs
    PROVE  /\ RoomFor(G, p, id)
           /\ Has(q, id) => Has(p, id)
<1> USE DEF Shrinks
<1>0. /\ Cardinality(Pending(H, q, id)) \in Nat /\ Cardinality(Pending(G, p, id)) \in Nat
      /\ IsFiniteSet(Pending(H, q, id)) /\ Cardinality(Handlers) \in Nat
      /\ Capacity \in Nat /\ Cardinality(Handlers) <= Capacity
      /\ IsFiniteSet(Handlers)
  BY PendingFinite, RoomAssumption, DedupAssumption
<1>1. Has(q, id) => After(q, id) \in Int
  BY IndexLemma DEF After
<1>2. e.id \in IDs
  BY DEF Entries
<1>3. CASE Has(q, id) /\ Has(q, e.id)
  <2>1. Has(p, id) /\ After(p, id) = After(q, id)
    BY <1>3 DEF Put
  <2>2. \A b \in IDs : Newer(q, id, b) => Newer(p, id, b)
    BY <1>3 DEF Put
  <2>3. Pending(G, p, id) \in SUBSET Pending(H, q, id)
    BY <2>2 DEF Pending
  <2>4. Cardinality(Pending(G, p, id)) <= Cardinality(Pending(H, q, id))
    BY <2>3, <1>0, FS_Subset
  <2>5. After(q, id) + Cardinality(Pending(H, q, id)) < Cardinality(Handlers)
    BY <1>3 DEF RoomFor
  <2> QED  BY <2>1, <2>4, <2>5, <1>0, <1>1, <1>3 DEF RoomFor
<1>4. CASE Has(q, id) /\ ~Has(q, e.id)
  <2>1. e.id # id
    BY <1>4
  <2>2. ~Newer(q, id, e.id)
    BY <1>4 DEF Newer, Has
  <2>3. g \in Pending(H, q, id)
    BY <2>1, <2>2 DEF Pending
  <2>4. Cardinality(Pending(H, q, id) \ {g}) = Cardinality(Pending(H, q, id)) - 1
        /\ IsFiniteSet(Pending(H, q, id) \ {g})
    BY <2>3, <1>0, FS_RemoveElement
  <2>5. Cardinality(Pending(H, q, id) \ {g}) \in Nat
    BY <2>4, FS_CardinalityType
  <2>6. After(q, id) + Cardinality(Pending(H, q, id)) < Cardinality(Handlers)
    BY <1>4 DEF RoomFor
  <2>7. After(q, id) + 1 < Capacity
    BY <2>4, <2>5, <2>6, <1>0, <1>1, <1>4
  <2>8. /\ Has(p, id) /\ After(p, id) = After(q, id) + 1
        /\ \A b \in IDs : Newer(q, id, b) => Newer(p, id, b)
        /\ Newer(p, id, e.id)
    BY <2>7, <1>4 DEF Put
  <2>9. Pending(G, p, id) \in SUBSET (Pending(H, q, id) \ {g})
    BY <2>8 DEF Pending
  <2>10. Cardinality(Pending(G, p, id)) <= Cardinality(Pending(H, q, id)) - 1
    BY <2>9, <2>4, FS_Subset
  <2> QED  BY <2>8, <2>10, <2>6, <1>0, <1>1, <1>4 DEF RoomFor
<1>5. CASE ~Has(q, id) /\ id # e.id
  <2>1. ~Has(p, id)
    BY <1>5 DEF Put
  <2> QED  BY <2>1, <1>5 DEF RoomFor
<1>6. CASE ~Has(q, id) /\ id = e.id
  <2>1. After(p, id) = 0
    BY <1>6 DEF Put
  <2>2. Pending(G, p, id) \in SUBSET (Handlers \ {g})
    BY <1>6 DEF Pending
  <2>3. Cardinality(Handlers \ {g}) = Cardinality(Handlers) - 1 /\ IsFiniteSet(Handlers \ {g})
    BY <1>0, FS_RemoveElement
  <2>4. Cardinality(Pending(G, p, id)) <= Cardinality(Handlers) - 1
    BY <2>2, <2>3, FS_Subset
  <2> QED  BY <2>1, <2>4, <1>0, <1>6 DEF RoomFor
<1> QED  BY <1>3, <1>4, <1>5, <1>6

-----------------------------------------------------------------------------
(* What the actions do.                                                    *)

\* What a goroutine is doing, and that only goroutine h does something else.
States == [pc : Stages, request : Requests \cup {NoRequest}, hash : Hashes,
           reply : Replies, late : {"yes", "no"}]

Becomes(h, pc, request, hash, reply, late) ==
    /\ handler' \in [Handlers -> States]
    /\ handler'[h].pc = pc /\ handler'[h].request = request
    /\ handler'[h].hash = hash /\ handler'[h].reply = reply /\ handler'[h].late = late
    /\ \A g \in Handlers \ {h} : handler'[g] = handler[g]

\* Replacing what a goroutine is doing.
LEMMA Becoming ==
    ASSUME NEW h \in Handlers, handler \in [Handlers -> States], NEW s \in States,
           handler' = [handler EXCEPT ![h] = s]
    PROVE  Becomes(h, s.pc, s.request, s.hash, s.reply, s.late)
  BY DEF Becomes

\* The stage that Check leads to.
CheckStage(h) ==
    CASE Outcome(mem, Request(h)) = "new" -> "record"
      [] Outcome(mem, Request(h)) = "duplicate" -> "lookup"
      [] Outcome(mem, Request(h)) = "conflict" -> "reply"

\* There are three outcomes.
LEMMA OutcomeType ==
    ASSUME NEW q, NEW m
    PROVE  Outcome(q, m) \in {"new", "duplicate", "conflict"}
  BY DEF Outcome

\* A goroutine that goes on.
LEMMA GoingOn ==
    ASSUME NEW h \in Handlers, handler \in [Handlers -> States], NEW pc \in Stages,
           handler' = [handler EXCEPT ![h].pc = pc]
    PROVE  Becomes(h, pc, Request(h), handler[h].hash, handler[h].reply, handler[h].late)
<1> DEFINE s == handler[h]
           t == [s EXCEPT !.pc = pc]
<1>1. handler' = [handler EXCEPT ![h] = t]
  OBVIOUS
<1>2. s \in States
  OBVIOUS
<1> HIDE DEF s
<1>3. /\ t \in States /\ t.pc = pc /\ t.request = s.request
      /\ t.hash = s.hash /\ t.reply = s.reply /\ t.late = s.late
  BY <1>2 DEF States
<1> HIDE DEF t
<1>4. Becomes(h, t.pc, t.request, t.hash, t.reply, t.late)
  BY <1>1, <1>3, Becoming
<1> QED  BY <1>3, <1>4 DEF s, Request

\* A goroutine that has its reply.
LEMMA Replying ==
    ASSUME NEW h \in Handlers, handler \in [Handlers -> States], NEW pc \in Stages,
           NEW reply \in Replies,
           handler' = [handler EXCEPT ![h].pc = pc, ![h].reply = reply]
    PROVE  Becomes(h, pc, Request(h), handler[h].hash, reply, handler[h].late)
<1> DEFINE s == handler[h]
           t == [s EXCEPT !.pc = pc, !.reply = reply]
<1>1. handler' = [handler EXCEPT ![h] = t]
  OBVIOUS
<1>2. s \in States
  OBVIOUS
<1> HIDE DEF s
<1>3. /\ t \in States /\ t.pc = pc /\ t.request = s.request
      /\ t.hash = s.hash /\ t.reply = reply /\ t.late = s.late
  BY <1>2 DEF States
<1> HIDE DEF t
<1>4. Becomes(h, t.pc, t.request, t.hash, t.reply, t.late)
  BY <1>1, <1>3, Becoming
<1> QED  BY <1>3, <1>4 DEF s, Request

\* A goroutine that has looked up a hash.
LEMMA LookingUp ==
    ASSUME NEW h \in Handlers, handler \in [Handlers -> States], NEW pc \in Stages,
           NEW hash \in Hashes,
           handler' = [handler EXCEPT ![h].pc = pc, ![h].hash = hash]
    PROVE  Becomes(h, pc, Request(h), hash, handler[h].reply, handler[h].late)
<1> DEFINE s == handler[h]
           t == [s EXCEPT !.pc = pc, !.hash = hash]
<1>1. handler' = [handler EXCEPT ![h] = t]
  OBVIOUS
<1>2. s \in States
  OBVIOUS
<1> HIDE DEF s
<1>3. /\ t \in States /\ t.pc = pc /\ t.request = s.request
      /\ t.hash = hash /\ t.reply = s.reply /\ t.late = s.late
  BY <1>2 DEF States
<1> HIDE DEF t
<1>4. Becomes(h, t.pc, t.request, t.hash, t.reply, t.late)
  BY <1>1, <1>3, Becoming
<1> QED  BY <1>3, <1>4 DEF s, Request

\* A goroutine that has checked.
LEMMA Checking ==
    ASSUME NEW h \in Handlers, handler \in [Handlers -> States], NEW pc \in Stages,
           NEW reply \in Replies, NEW late \in {"yes", "no"},
           handler' = [handler EXCEPT ![h].pc = pc, ![h].reply = reply, ![h].late = late]
    PROVE  Becomes(h, pc, Request(h), handler[h].hash, reply, late)
<1> DEFINE s == handler[h]
           t == [s EXCEPT !.pc = pc, !.reply = reply, !.late = late]
<1>1. handler' = [handler EXCEPT ![h] = t]
  OBVIOUS
<1>2. s \in States
  OBVIOUS
<1> HIDE DEF s
<1>3. /\ t \in States /\ t.pc = pc /\ t.request = s.request
      /\ t.hash = s.hash /\ t.reply = reply /\ t.late = late
  BY <1>2 DEF States
<1> HIDE DEF t
<1>4. Becomes(h, t.pc, t.request, t.hash, t.reply, t.late)
  BY <1>1, <1>3, Becoming
<1> QED  BY <1>3, <1>4 DEF s, Request

\* A goroutine that begins.
LEMMA Beginning ==
    ASSUME NEW m \in Requests
    PROVE  LET t == [Idle EXCEPT !.pc = "check", !.request = m]
           IN  /\ t \in States /\ t.pc = "check" /\ t.request = m
               /\ t.hash = None /\ t.reply = None /\ t.late = "no"
  BY DEF States, Idle, Stages, Hashes, Replies

\* What each action makes of the goroutine that takes it.
LEMMA StepBecomes ==
    ASSUME DedupInv, NEW h \in Handlers
    PROVE  /\ Send(h) => Becomes(h, "check", current, None, None, "no")
           /\ Check(h) =>
                Becomes(h, CheckStage(h), Request(h), handler[h].hash,
                        IF CheckStage(h) = "reply" THEN "NACK" ELSE None,
                        IF Request(h) = current /\ answered # "no" THEN "yes" ELSE "no")
           /\ RecordSeen(h) \/ NoStoredResponse(h) =>
                Becomes(h, "apply", Request(h), handler[h].hash, handler[h].reply, handler[h].late)
           /\ Replay(h) =>
                Becomes(h, "reply", Request(h), handler[h].hash,
                        Response(mem, Request(h).id), handler[h].late)
           /\ Apply(h) =>
                Becomes(h, "remember", Request(h), handler[h].hash, handler[h].reply, handler[h].late)
           /\ ApplyFails(h) =>
                Becomes(h, "reply", Request(h), handler[h].hash, "NACK", handler[h].late)
           /\ RememberInMemory(h) =>
                Becomes(h, "hash", Request(h), handler[h].hash, handler[h].reply, handler[h].late)
           /\ LookUpHash(h) =>
                Becomes(h, "receipt", Request(h), Hash(mem, Request(h).id),
                        handler[h].reply, handler[h].late)
           /\ RecordResponse(h) =>
                Becomes(h, "reply", Request(h), handler[h].hash, Request(h).content, handler[h].late)
           /\ Answer(h) \/ AnswerLost(h) => Becomes(h, "idle", NoRequest, None, None, "no")
<1> DEFINE s == handler[h]
<1>1. handler \in [Handlers -> States] /\ s \in States /\ current \in Requests
      /\ mem \in Seq(Entries)
  BY DEF DedupInv, TypeOK, States
<1>2. \A id : Hash(mem, id) \in Hashes /\ Response(mem, id) \in Hashes
  BY <1>1, LookupType
<1>3. /\ None \in Replies /\ "NACK" \in Replies /\ Hashes \subseteq Replies /\ None \in Hashes
  BY DEF Hashes, Replies
<1>4. {"idle", "check", "record", "lookup", "apply", "remember", "hash", "receipt", "reply"} = Stages
  BY DEF Stages
<1>5. s.pc # "idle" => s.request.content \in Replies
  BY DEF DedupInv, WorkInOrder, Busy, At, Request, Requests, Replies
<1>6. Send(h) => Becomes(h, "check", current, None, None, "no")
  <2> DEFINE t == [Idle EXCEPT !.pc = "check", !.request = current]
  <2>1. /\ t \in States /\ t.pc = "check" /\ t.request = current
        /\ t.hash = None /\ t.reply = None /\ t.late = "no"
    BY <1>1, Beginning
  <2>2. Send(h) => handler' = [handler EXCEPT ![h] = t]
    BY DEF Send
  <2> HIDE DEF t
  <2>3. Send(h) => Becomes(h, t.pc, t.request, t.hash, t.reply, t.late)
    BY <2>1, <2>2, <1>1, Becoming
  <2> QED  BY <2>1, <2>3
<1>7. ASSUME Check(h)
      PROVE  Becomes(h, CheckStage(h), Request(h), handler[h].hash,
                        IF CheckStage(h) = "reply" THEN "NACK" ELSE None,
                        IF Request(h) = current /\ answered # "no" THEN "yes" ELSE "no")
  <2> DEFINE reply == IF CheckStage(h) = "reply" THEN "NACK" ELSE None
             late == IF Request(h) = current /\ answered # "no" THEN "yes" ELSE "no"
  <2>1. Outcome(mem, Request(h)) \in {"new", "duplicate", "conflict"}
    BY OutcomeType
  <2>2. /\ CheckStage(h) \in Stages /\ reply \in Replies /\ late \in {"yes", "no"}
        /\ CheckStage(h) = "reply" <=> Outcome(mem, Request(h)) = "conflict"
    BY <2>1, <1>3, <1>4 DEF CheckStage
  <2>3. handler' = [handler EXCEPT ![h].pc = CheckStage(h), ![h].reply = reply, ![h].late = late]
    <3>1. handler' = [handler EXCEPT
             ![h].pc = CheckStage(h),
             ![h].reply = IF Outcome(mem, Request(h)) = "conflict" THEN "NACK" ELSE None,
             ![h].late = late]
      BY <1>7 DEF Check, CheckStage
    <3>2. reply = IF Outcome(mem, Request(h)) = "conflict" THEN "NACK" ELSE None
      BY <2>2
    <3> HIDE DEF reply, late
    <3> QED  BY <3>1, <3>2
  <2> HIDE DEF reply, late
  <2>4. Becomes(h, CheckStage(h), Request(h), handler[h].hash, reply, late)
    BY <2>2, <2>3, <1>1, Checking
  <2> QED  BY <2>4 DEF reply, late
<1>8. ASSUME NEW pc \in Stages, Goto(h, pc)
       PROVE  Becomes(h, pc, Request(h), s.hash, s.reply, s.late)
  BY <1>1, <1>8, GoingOn DEF Goto
<1>9. ASSUME NEW x \in Replies, ReplyWith(h, x)
       PROVE  Becomes(h, "reply", Request(h), s.hash, x, s.late)
  BY <1>1, <1>4, <1>9, Replying DEF ReplyWith
<1>10. ASSUME LookUpHash(h)
       PROVE  Becomes(h, "receipt", Request(h), Hash(mem, Request(h).id), s.reply, s.late)
  <2> DEFINE x == Hash(mem, Request(h).id)
  <2>1. handler' = [handler EXCEPT ![h].pc = "receipt", ![h].hash = x]
    BY <1>10 DEF LookUpHash
  <2>2. x \in Hashes
    BY <1>2
  <2> HIDE DEF x
  <2>3. Becomes(h, "receipt", Request(h), x, s.reply, s.late)
    BY <2>1, <2>2, <1>1, <1>4, LookingUp
  <2> QED  BY <2>3 DEF x
<1>11. Answer(h) \/ AnswerLost(h) => Becomes(h, "idle", NoRequest, None, None, "no")
  <2>1. /\ Idle \in States /\ Idle.pc = "idle" /\ Idle.request = NoRequest
        /\ Idle.hash = None /\ Idle.reply = None /\ Idle.late = "no"
    BY <1>3, <1>4 DEF Idle, States
  <2>2. Answer(h) \/ AnswerLost(h) => handler' = [handler EXCEPT ![h] = Idle]
    BY DEF Answer, AnswerLost
  <2>3. Answer(h) \/ AnswerLost(h) =>
          Becomes(h, Idle.pc, Idle.request, Idle.hash, Idle.reply, Idle.late)
    BY <2>1, <2>2, <1>1, Becoming
  <2> QED  BY <2>1, <2>3
<1> HIDE DEF s
<1>12. /\ RecordSeen(h) \/ NoStoredResponse(h) => Goto(h, "apply")
       /\ Apply(h) => Goto(h, "remember")
       /\ RememberInMemory(h) => Goto(h, "hash")
       /\ Replay(h) => ReplyWith(h, Response(mem, Request(h).id))
       /\ ApplyFails(h) => ReplyWith(h, "NACK")
       /\ RecordResponse(h) => ReplyWith(h, Request(h).content) /\ Request(h).content \in Replies
  BY <1>5 DEF RecordSeen, NoStoredResponse, Apply, RememberInMemory, Replay, ApplyFails,
              RecordResponse, At, Request, s
<1>13. Response(mem, Request(h).id) \in Replies
  BY <1>2, <1>3
<1>14. /\ "apply" \in Stages /\ "remember" \in Stages /\ "hash" \in Stages
       /\ "NACK" \in Replies
  BY <1>3, <1>4
<1>15. /\ RecordSeen(h) \/ NoStoredResponse(h) =>
            Becomes(h, "apply", Request(h), handler[h].hash, handler[h].reply, handler[h].late)
       /\ Apply(h) =>
            Becomes(h, "remember", Request(h), handler[h].hash, handler[h].reply, handler[h].late)
       /\ RememberInMemory(h) =>
            Becomes(h, "hash", Request(h), handler[h].hash, handler[h].reply, handler[h].late)
  BY <1>8, <1>12, <1>14 DEF s
<1>16. /\ Replay(h) =>
            Becomes(h, "reply", Request(h), handler[h].hash,
                    Response(mem, Request(h).id), handler[h].late)
       /\ ApplyFails(h) =>
            Becomes(h, "reply", Request(h), handler[h].hash, "NACK", handler[h].late)
       /\ RecordResponse(h) =>
            Becomes(h, "reply", Request(h), handler[h].hash, Request(h).content, handler[h].late)
  BY <1>9, <1>12, <1>13, <1>14 DEF s
<1>17. LookUpHash(h) =>
          Becomes(h, "receipt", Request(h), Hash(mem, Request(h).id),
                  handler[h].reply, handler[h].late)
  BY <1>10 DEF s
<1> QED  BY <1>6, <1>7, <1>11, <1>15, <1>16, <1>17

\* Everything a goroutine works on was sent.
LEMMA WorkTyped ==
    ASSUME DedupInv, NEW h \in Handlers, Busy(h)
    PROVE  /\ Request(h) \in Requests /\ Request(h).id \in IDs /\ Request(h).content \in Contents
           /\ Request(h) = [id |-> Request(h).id, content |-> Request(h).content]
           /\ Request(h).id \in sent
           /\ Request(h).content # None
  BY DedupAssumption DEF DedupInv, WorkInOrder, Requests

\* An action is taken at its stage.
LEMMA StepAt ==
    ASSUME NEW h
    PROVE  /\ Send(h) => At(h, "idle")
           /\ Check(h) => At(h, "check")
           /\ RecordSeen(h) => At(h, "record")
           /\ Replay(h) \/ NoStoredResponse(h) => At(h, "lookup")
           /\ Apply(h) \/ ApplyFails(h) => At(h, "apply")
           /\ RememberInMemory(h) => At(h, "remember")
           /\ LookUpHash(h) => At(h, "hash")
           /\ RecordResponse(h) => At(h, "receipt")
           /\ Answer(h) \/ AnswerLost(h) => At(h, "reply")
  BY DEF Send, Check, RecordSeen, Replay, NoStoredResponse, Apply, ApplyFails,
         RememberInMemory, LookUpHash, RecordResponse, Answer, AnswerLost

\* What the actions do to memory.
LEMMA MemEffect ==
    ASSUME DedupInv, NEW h \in Handlers, Step(h)
    PROVE  /\ ~Check(h) /\ ~RememberInMemory(h) => mem' = mem
           /\ Check(h) /\ Has(mem, Request(h).id) => mem' = mem
           /\ Check(h) /\ ~Has(mem, Request(h).id) =>
                Put(mem, mem', [id |-> Request(h).id, hash |-> Request(h).content, response |-> None])
           /\ RememberInMemory(h) =>
                Put(mem, mem', [id |-> Request(h).id, hash |-> Hash(mem, Request(h).id),
                                response |-> Request(h).content])
<1>1. mem \in Seq(Entries) /\ Len(mem) <= Capacity /\ Distinct(mem)
  BY DEF DedupInv, TypeOK, StoreInOrder
<1>2. ~Check(h) /\ ~RememberInMemory(h) => mem' = mem
  BY DEF Step, Send, RecordSeen, Replay, NoStoredResponse, Apply, ApplyFails,
         LookUpHash, RecordResponse, Answer, AnswerLost, store, log
<1>3. Check(h) /\ Has(mem, Request(h).id) => mem' = mem
  BY DEF Check, Outcome
<1>4. ASSUME Check(h), ~Has(mem, Request(h).id)
      PROVE  Put(mem, mem', [id |-> Request(h).id, hash |-> Request(h).content, response |-> None])
  <2> DEFINE e == [id |-> Request(h).id, hash |-> Request(h).content, response |-> None]
  <2>1. Busy(h)
    BY <1>4, StepAt DEF Busy, At
  <2>2. e \in Entries /\ e.id = Request(h).id
    BY <2>1, WorkTyped DEF Entries, Hashes
  <2>3. mem' = Insert(mem, e)
    BY <1>4 DEF Check, Outcome
  <2> HIDE DEF e
  <2>4. Put(mem, mem', e)
    BY <1>1, <1>4, <2>2, <2>3, InsertPuts
  <2> QED  BY <2>4 DEF e
<1>5. ASSUME RememberInMemory(h)
      PROVE  Put(mem, mem', [id |-> Request(h).id, hash |-> Hash(mem, Request(h).id),
                             response |-> Request(h).content])
  <2>1. Busy(h)
    BY <1>5, StepAt DEF Busy, At
  <2>2. mem' = Remembered(mem, Request(h).id, Request(h).content)
    BY <1>5 DEF RememberInMemory
  <2> QED  BY <1>1, <2>1, <2>2, WorkTyped, RememberedPuts
<1> QED  BY <1>2, <1>3, <1>4, <1>5

\* What appending a record does to the log: nothing; or it puts an entry, or
\* is compaction.
LEMMA AppendEffect ==
    ASSUME DedupInv, NEW r \in Entries, AppendRecord(r) \/ AppendFails
    PROVE  /\ mode' = "durable" => mode = "durable"
           /\ AppendRecord(r) => mode = "durable"
           /\ \/ disk' = disk
              \/ mode = "durable" /\ disk' = mem
              \/ mode = "durable" /\
                 Put(disk, disk', [id |-> r.id, hash |-> Later(Hash(disk, r.id), r.hash),
                                   response |-> Later(Response(disk, r.id), r.response)])
           /\ AppendRecord(r) /\ tail = "whole" =>
                \/ disk' = mem
                \/ Put(disk, disk', [id |-> r.id, hash |-> Later(Hash(disk, r.id), r.hash),
                                     response |-> Later(Response(disk, r.id), r.response)])
           /\ tail' \in {"whole", "torn"} /\ mode' \in {"durable", "degraded"}
           /\ appends' \in 0 .. CompactAt
           /\ cut' \in {cut, disk} \cup Beginnings(mem)
<1>1. /\ disk \in Seq(Entries) /\ Len(disk) <= Capacity /\ Distinct(disk)
      /\ mode \in {"durable", "degraded"} /\ tail \in {"whole", "torn"}
      /\ appends \in 0 .. CompactAt
  BY DEF DedupInv, TypeOK, StoreInOrder
<1>2. Put(disk, Restore(disk, r), [id |-> r.id, hash |-> Later(Hash(disk, r.id), r.hash),
                                   response |-> Later(Response(disk, r.id), r.response)])
  BY <1>1, RestorePuts
<1>3. AppendRecord(r) => disk' \in {Appended(r), mem}
  BY DEF AppendRecord, Compact, Extended, Replaced
<1>4. /\ AppendRecord(r) => mode = "durable"
      /\ AppendFails => disk' = disk /\ mode' = "degraded"
      /\ tail = "whole" => Appended(r) = Restore(disk, r)
      /\ tail # "whole" => Appended(r) = disk
  BY DEF AppendRecord, AppendFails, Appended
<1>5. tail' \in {"whole", "torn"} /\ mode' \in {"durable", "degraded"}
  BY <1>1 DEF AppendRecord, AppendFails, Compact
<1>6. appends' \in 0 .. CompactAt
  BY <1>1, DedupAssumption DEF AppendRecord, AppendFails, Compact
<1>7. cut' \in {cut, disk} \cup Beginnings(mem)
  BY DEF AppendRecord, AppendFails, Compact, Extended, Replaced
<1> QED  BY <1>2, <1>3, <1>4, <1>5, <1>6, <1>7, Zenon

\* The records of a goroutine.
SeenRecord(h) == [id |-> Request(h).id, hash |-> Request(h).content, response |-> None]
ResponseRecord(h) ==
    [id |-> Request(h).id, hash |-> handler[h].hash, response |-> Request(h).content]

\* What the actions do to the log.
LEMMA DiskEffect ==
    ASSUME DedupInv, NEW h \in Handlers, Step(h)
    PROVE  /\ ~RecordSeen(h) /\ ~RecordResponse(h) => UNCHANGED <<disk, cut, tail, appends, mode>>
           /\ RecordSeen(h) \/ RecordResponse(h) =>
                /\ mode' = "durable" => mode = "durable"
                /\ tail' \in {"whole", "torn"} /\ mode' \in {"durable", "degraded"}
                /\ appends' \in 0 .. CompactAt
                /\ cut' \in {cut, disk} \cup Beginnings(mem)
           /\ RecordSeen(h) =>
                \/ disk' = disk
                \/ mode = "durable" /\ disk' = mem
                \/ mode = "durable" /\
                   Put(disk, disk', [id |-> Request(h).id, hash |-> Request(h).content,
                                     response |-> Response(disk, Request(h).id)])
           /\ RecordResponse(h) =>
                \/ disk' = disk /\ (answered' = "disk" => answered = "disk")
                \/ mode = "durable" /\ disk' = mem
                \/ mode = "durable" /\
                   Put(disk, disk', [id |-> Request(h).id,
                                     hash |-> Later(Hash(disk, Request(h).id), handler[h].hash),
                                     response |-> Request(h).content])
<1>1. ~RecordSeen(h) /\ ~RecordResponse(h) => UNCHANGED <<disk, cut, tail, appends, mode>>
  BY DEF Step, Send, Check, Replay, NoStoredResponse, Apply, ApplyFails, RememberInMemory,
         LookUpHash, Answer, AnswerLost, store, log
<1>2. ASSUME RecordSeen(h)
      PROVE  /\ AppendRecord(SeenRecord(h)) \/ AppendFails
             /\ SeenRecord(h) \in Entries /\ SeenRecord(h).id = Request(h).id
             /\ SeenRecord(h).hash = Request(h).content /\ SeenRecord(h).response = None
             /\ Request(h).content # None
  <2>1. Busy(h)
    BY <1>2, StepAt DEF Busy, At
  <2> QED  BY <1>2, <2>1, WorkTyped DEF RecordSeen, SeenRecord, Entries, Hashes
<1>3. ASSUME RecordResponse(h)
      PROVE  /\ \/ /\ AppendRecord(ResponseRecord(h))
                   /\ answered' = "disk" => answered = "disk" \/ tail = "whole"
                \/ AppendFails /\ answered' \in {answered, "memory"}
             /\ ResponseRecord(h) \in Entries /\ ResponseRecord(h).id = Request(h).id
             /\ ResponseRecord(h).hash = handler[h].hash
             /\ ResponseRecord(h).response = Request(h).content
             /\ Request(h).content # None
  <2>1. Busy(h)
    BY <1>3, StepAt DEF Busy, At
  <2>2. handler[h].hash \in Hashes
    BY DEF DedupInv, TypeOK
  <2>3. /\ ResponseRecord(h) \in Entries /\ ResponseRecord(h).id = Request(h).id
        /\ ResponseRecord(h).hash = handler[h].hash
        /\ ResponseRecord(h).response = Request(h).content
        /\ Request(h).content # None
    BY <2>1, <2>2, WorkTyped DEF ResponseRecord, Entries, Hashes
  <2>4. \/ /\ AppendRecord(ResponseRecord(h))
           /\ answered' = "disk" => answered = "disk" \/ tail = "whole"
        \/ AppendFails /\ answered' \in {answered, "memory"}
    BY <1>3 DEF RecordResponse, ResponseRecord
  <2> QED  BY <2>3, <2>4
<1>4. RecordSeen(h) \/ RecordResponse(h) =>
        /\ mode' = "durable" => mode = "durable"
        /\ tail' \in {"whole", "torn"} /\ mode' \in {"durable", "degraded"}
        /\ appends' \in 0 .. CompactAt
        /\ cut' \in {cut, disk} \cup Beginnings(mem)
  BY <1>2, <1>3, AppendEffect
<1>5. RecordSeen(h) =>
        \/ disk' = disk
        \/ mode = "durable" /\ disk' = mem
        \/ mode = "durable" /\
           Put(disk, disk', [id |-> Request(h).id, hash |-> Request(h).content,
                             response |-> Response(disk, Request(h).id)])
  <2> SUFFICES ASSUME RecordSeen(h)
               PROVE  \/ disk' = disk
                      \/ mode = "durable" /\ disk' = mem
                      \/ mode = "durable" /\
                         Put(disk, disk', [id |-> Request(h).id, hash |-> Request(h).content,
                                           response |-> Response(disk, Request(h).id)])
    OBVIOUS
  <2> DEFINE r == SeenRecord(h)
  <2>1. /\ r \in Entries
        /\ AppendRecord(r) \/ AppendFails
        /\ r.id = Request(h).id
    BY <1>2
  <2>2. /\ Later(Hash(disk, r.id), r.hash) = Request(h).content
        /\ Later(Response(disk, r.id), r.response) = Response(disk, Request(h).id)
    BY <1>2 DEF Later
  <2> HIDE DEF r
  <2>3. \/ disk' = disk
        \/ mode = "durable" /\ disk' = mem
        \/ mode = "durable" /\
           Put(disk, disk', [id |-> r.id, hash |-> Later(Hash(disk, r.id), r.hash),
                             response |-> Later(Response(disk, r.id), r.response)])
    BY <2>1, AppendEffect
  <2> QED  BY <2>1, <2>2, <2>3
<1>6. ASSUME RecordResponse(h)
      PROVE  \/ disk' = disk /\ (answered' = "disk" => answered = "disk")
             \/ mode = "durable" /\ disk' = mem
             \/ mode = "durable" /\
                Put(disk, disk', [id |-> Request(h).id,
                                  hash |-> Later(Hash(disk, Request(h).id), handler[h].hash),
                                  response |-> Request(h).content])
  <2> DEFINE r == ResponseRecord(h)
             P == Put(disk, disk', [id |-> r.id, hash |-> Later(Hash(disk, r.id), r.hash),
                                    response |-> Later(Response(disk, r.id), r.response)])
  <2>1. /\ r \in Entries /\ r.id = Request(h).id /\ r.hash = handler[h].hash
        /\ AppendRecord(r) \/ AppendFails
    BY <1>6, <1>3
  <2>2. /\ Later(Response(disk, r.id), r.response) = Request(h).content
        /\ r.id = Request(h).id /\ r.hash = handler[h].hash
    BY <1>6, <1>3 DEF Later
  <2>3. answered' = "disk" => answered = "disk" \/ (AppendRecord(r) /\ tail = "whole")
    BY <1>6, <1>3
  <2> HIDE DEF r
  <2>4. \/ disk' = disk
        \/ mode = "durable" /\ disk' = mem
        \/ mode = "durable" /\ P
    BY <2>1, AppendEffect
  <2>5. AppendRecord(r) /\ tail = "whole" => mode = "durable" /\ (disk' = mem \/ P)
    BY <2>1, AppendEffect
  <2> QED  BY <2>1, <2>2, <2>3, <2>4, <2>5
<1> QED  BY <1>1, <1>4, <1>5, <1>6

\* What the actions do to the newsroom's request and what is known of it.
LEMMA NewsroomEffect ==
    ASSUME DedupInv, NEW h \in Handlers, Step(h)
    PROVE  /\ ~Answer(h) => current' = current /\ sent' = sent
           /\ unread' = unread
           /\ Answer(h) =>
                /\ current' \in Requests /\ sent' = sent \cup {current'.id}
                /\ answered' = "no"
                /\ current'.id \notin sent \/ current'.id = current.id
                /\ \A g \in Handlers \ {h} : Busy(g) => Request(g).id # current'.id
           /\ applied \subseteq applied' /\ applied' \subseteq Requests
           /\ Apply(h) => Request(h) \in applied'
           /\ ~Answer(h) /\ ~RecordResponse(h) => answered' = answered
           /\ RecordResponse(h) =>
                /\ answered' \in {"no", "memory", "disk"}
                /\ Request(h) # current => answered' = answered
                /\ answered # "no" => answered' # "no"
<1>1. ~Answer(h) => current' = current /\ sent' = sent
  BY DEF Step, Send, Check, RecordSeen, Replay, NoStoredResponse, Apply, ApplyFails,
         RememberInMemory, LookUpHash, RecordResponse, AnswerLost, newsroom, log
<1>2. ASSUME Answer(h)
      PROVE  /\ current' \in Requests /\ sent' = sent \cup {current'.id}
             /\ answered' = "no"
             /\ current'.id \notin sent \/ current'.id = current.id
             /\ \A g \in Handlers \ {h} : Busy(g) => Request(g).id # current'.id
  <2>1. /\ current' \in Requests
        /\ sent' = sent \cup {current'.id} /\ answered' = "no"
        /\ \/ current'.id \notin sent
           \/ /\ current'.id = current.id
              /\ \A g \in {g \in Handlers \ {h} : ~At(g, "idle")} : current'.id # Request(g).id
    BY <1>2 DEF Answer, NextRequests
  <2>2. \A g \in Handlers : Busy(g) => Request(g).id \in sent
    BY DEF DedupInv, WorkInOrder
  <2> QED  BY <2>1, <2>2 DEF Busy
<1>3. applied \subseteq applied' /\ applied' \subseteq Requests
  <2>1. applied \subseteq Requests /\ (Apply(h) => Request(h) \in Requests)
    BY StepAt DEF DedupInv, TypeOK, WorkInOrder, Busy, At
  <2> QED  BY <2>1
           DEF Step, Send, Check, RecordSeen, Replay, NoStoredResponse, Apply, ApplyFails,
               RememberInMemory, LookUpHash, RecordResponse, Answer, AnswerLost, history
<1>4. Apply(h) => Request(h) \in applied'
  BY DEF Apply
<1>5. ~Answer(h) /\ ~RecordResponse(h) => answered' = answered
  BY DEF Step, Send, Check, RecordSeen, Replay, NoStoredResponse, Apply, ApplyFails,
         RememberInMemory, LookUpHash, AnswerLost, history
<1>6. RecordResponse(h) =>
        /\ answered' \in {"no", "memory", "disk"}
        /\ Request(h) # current => answered' = answered
        /\ answered # "no" => answered' # "no"
  <2>1. answered \in {"no", "memory", "disk"}
    BY DEF DedupInv, TypeOK
  <2> QED  BY <2>1 DEF RecordResponse
<1>7. unread' = unread
  BY DEF Step, Send, Check, RecordSeen, Replay, NoStoredResponse, Apply, ApplyFails,
         RememberInMemory, LookUpHash, RecordResponse, Answer, AnswerLost, history
<1> QED  BY <1>1, <1>2, <1>3, <1>4, <1>5, <1>6, <1>7

-----------------------------------------------------------------------------
(* Every step of a goroutine preserves the invariant.                      *)

\* A step changes what one goroutine does: it begins, ends, or goes on with
\* the request it has.
LEMMA MoveEffect ==
    ASSUME DedupInv, NEW h \in Handlers, Step(h)
    PROVE  /\ handler' \in [Handlers -> States]
           /\ \A g \in Handlers \ {h} : handler'[g] = handler[g]
           /\ \/ /\ Send(h) /\ handler[h].pc = "idle"
                 /\ handler'[h].pc = "check" /\ handler'[h].request = current
                 /\ handler'[h].late = "no"
              \/ /\ Answer(h) \/ AnswerLost(h)
                 /\ handler'[h] = Idle /\ handler'[h].pc = "idle" /\ handler'[h].late = "no"
              \/ /\ Busy(h) /\ handler'[h].request = Request(h)
                 /\ handler[h].pc \in Working /\ handler'[h].pc \in Accepted \cup {"reply"}
                 /\ Check(h) \/ handler'[h].late = handler[h].late
                 /\ ~Send(h) /\ ~Answer(h) /\ ~AnswerLost(h)
<1> USE DEF Becomes
<1>0. Outcome(mem, Request(h)) \in {"new", "duplicate", "conflict"}
  BY OutcomeType
<1>1. CASE Send(h)
  BY <1>1, StepBecomes, StepAt DEF At
<1>2. CASE Answer(h) \/ AnswerLost(h)
  <2>1. handler'[h] = Idle
    BY <1>2 DEF Answer, AnswerLost, DedupInv, TypeOK
  <2> QED  BY <1>2, <2>1, StepBecomes DEF Idle
<1>3. CASE Check(h)
  <2>1. CheckStage(h) \in Accepted \cup {"reply"}
    BY <1>0 DEF CheckStage, Accepted
  <2> QED  BY <1>3, <2>1, StepBecomes, StepAt DEF At, Busy, Working
<1>4. CASE \/ RecordSeen(h) \/ Replay(h) \/ NoStoredResponse(h) \/ Apply(h)
           \/ ApplyFails(h) \/ RememberInMemory(h) \/ LookUpHash(h) \/ RecordResponse(h)
  <2>1. Busy(h) /\ handler[h].pc \in Working /\ ~Send(h) /\ ~Answer(h) /\ ~AnswerLost(h)
    BY <1>4, StepAt DEF At, Busy, Working, Accepted
  <2>2. handler'[h].pc \in Accepted \cup {"reply"}
    BY <1>4, StepBecomes DEF Accepted
  <2>3. /\ handler'[h].request = Request(h) /\ handler'[h].late = handler[h].late
        /\ handler' \in [Handlers -> States]
        /\ \A g \in Handlers \ {h} : handler'[g] = handler[g]
    BY <1>4, StepBecomes
  <2> QED  BY <2>1, <2>2, <2>3
<1> QED  BY <1>1, <1>2, <1>3, <1>4 DEF Step

\* What reading a part of the log gives: what it gave, or what the log or
\* memory has.
LEMMA StepCut ==
    ASSUME DedupInv, NEW h \in Handlers, Step(h)
    PROVE  /\ cut' \in Seq(Entries) /\ Len(cut') <= Capacity /\ Distinct(cut')
           /\ \A id : Has(cut', id) =>
                 \E q \in {mem, disk, cut} :
                    /\ Has(q, id) /\ Hash(cut', id) = Hash(q, id)
                    /\ Response(cut', id) = Response(q, id)
                    /\ After(cut', id) <= After(q, id)
<1>1. /\ mem \in Seq(Entries) /\ Len(mem) <= Capacity /\ Distinct(mem)
      /\ disk \in Seq(Entries) /\ Len(disk) <= Capacity /\ Distinct(disk)
      /\ cut \in Seq(Entries) /\ Len(cut) <= Capacity /\ Distinct(cut)
  BY DEF DedupInv, TypeOK, StoreInOrder
<1>2. \A q \in {mem, disk, cut} : \A id : Has(q, id) => After(q, id) \in Int
  BY <1>1, IndexLemma DEF After
<1>3. CASE cut' \in {cut, disk}
  BY <1>1, <1>2, <1>3
<1>4. CASE cut' \in Beginnings(mem)
  BY <1>1, <1>4, BeginningLemma
<1> QED  BY <1>3, <1>4, DiskEffect

\* The types.
LEMMA StepType ==
    ASSUME DedupInv, NEW h \in Handlers, Step(h)
    PROVE  TypeOK'
<1>1. /\ mem' \in Seq(Entries) /\ Len(mem') <= Capacity
  BY MemEffect DEF DedupInv, TypeOK, Put
<1>2. disk' \in Seq(Entries) /\ Len(disk') <= Capacity
  BY DiskEffect DEF DedupInv, TypeOK, Put
<1>3. tail' \in {"whole", "torn"} /\ appends' \in 0 .. CompactAt /\ mode' \in {"durable", "degraded"}
  BY DiskEffect DEF DedupInv, TypeOK
<1>4. handler' \in [Handlers -> States]
  BY MoveEffect
<1>5. current' \in Requests /\ sent' \subseteq IDs /\ unread' \subseteq IDs
  BY NewsroomEffect DEF DedupInv, TypeOK, Requests
<1>6. answered' \in {"no", "memory", "disk"} /\ applied' \subseteq Requests
  BY NewsroomEffect DEF DedupInv, TypeOK
<1>7. live' \in Handlers \cup {NoHandler}
  BY DEF DedupInv, TypeOK, Step, Send, Check, RecordSeen, Replay, NoStoredResponse, Apply,
         ApplyFails, RememberInMemory, LookUpHash, RecordResponse, Answer, AnswerLost, newsroom
<1>8. cut' \in Seq(Entries) /\ Len(cut') <= Capacity
  BY StepCut
<1> QED  BY <1>1, <1>2, <1>3, <1>4, <1>5, <1>6, <1>7, <1>8 DEF TypeOK, States

\* A store in order, into which an entry is put.
LEMMA PutInOrder ==
    ASSUME NEW q, NEW p, NEW e \in Entries, StoreInOrder(q), Put(q, p, e),
           e.id \in sent, sent \subseteq sent', applied \subseteq applied',
           e.response # None => [id |-> e.id, content |-> e.response] \in applied
    PROVE  /\ Distinct(p)
           /\ \A id \in IDs : Has(p, id) => id \in sent'
           /\ \A id \in IDs : Response(p, id) # None =>
                 [id |-> id, content |-> Response(p, id)] \in applied'
<1>1. Distinct(p)
  BY DEF Put
<1>2. \A id \in IDs : Has(p, id) => id \in sent'
  BY DEF Put, StoreInOrder, Known
<1>3. ASSUME NEW id \in IDs, Response(p, id) # None
      PROVE  [id |-> id, content |-> Response(p, id)] \in applied'
  <2>1. CASE id = e.id
    BY <2>1, <1>3 DEF Put
  <2>2. CASE id # e.id
    <3>1. Has(p, id)
      BY <1>3 DEF Response
    <3> QED  BY <2>2, <3>1, <1>3 DEF Put, StoreInOrder, Earned
  <2> QED  BY <2>1, <2>2
<1> QED  BY <1>1, <1>2, <1>3

\* The entries in memory and in the log.
LEMMA StepStores ==
    ASSUME DedupInv, NEW h \in Handlers, Step(h)
    PROVE  StoreInOrder(mem)' /\ StoreInOrder(disk)' /\ StoreInOrder(cut)'
<1> DEFINE m == Request(h)
<1>0. StoreInOrder(mem) /\ StoreInOrder(disk) /\ StoreInOrder(cut) /\ mem \in Seq(Entries) /\ disk \in Seq(Entries)
      /\ handler[h].hash \in Hashes
  BY DEF DedupInv, TypeOK
<1>1. sent \subseteq sent' /\ applied \subseteq applied'
  BY NewsroomEffect
<1>2. \A id : Hash(mem, id) \in Hashes /\ Response(disk, id) \in Hashes /\ Hash(disk, id) \in Hashes
  BY <1>0, LookupType
<1>3. StoreInOrder(mem)'
  <2> SUFFICES /\ Distinct(mem')
               /\ \A id \in IDs : Has(mem', id) => id \in sent'
               /\ \A id \in IDs : Response(mem', id) # None =>
                     [id |-> id, content |-> Response(mem', id)] \in applied'
    BY DEF StoreInOrder, Distinct, Known, Earned, Response, Index, Has
  <2>1. CASE mem' = mem
    BY <2>1, <1>0, <1>1 DEF StoreInOrder, Known, Earned
  <2>2. CASE Check(h) /\ ~Has(mem, m.id)
    <3> DEFINE e == [id |-> m.id, hash |-> m.content, response |-> None]
    <3>1. Busy(h)
      BY <2>2, StepAt DEF Busy, At
    <3>2. e \in Entries /\ e.id \in sent /\ e.response = None
      BY <3>1, WorkTyped DEF Entries, Hashes
    <3>3. Put(mem, mem', e)
      BY <2>2, MemEffect
    <3> HIDE DEF e
    <3> QED  BY <3>2, <3>3, <1>0, <1>1, PutInOrder
  <2>3. CASE RememberInMemory(h)
    <3> DEFINE e == [id |-> m.id, hash |-> Hash(mem, m.id), response |-> m.content]
    <3>1. Busy(h) /\ m \in applied
      BY <2>3, StepAt DEF Busy, At, DedupInv, WorkInOrder, Done
    <3>2. e \in Entries /\ e.id \in sent /\ [id |-> e.id, content |-> e.response] \in applied
      BY <3>1, <1>2, WorkTyped DEF Entries, Hashes
    <3>3. Put(mem, mem', e)
      BY <2>3, MemEffect
    <3> HIDE DEF e
    <3> QED  BY <3>2, <3>3, <1>0, <1>1, PutInOrder
  <2> QED  BY <2>1, <2>2, <2>3, MemEffect
<1>4. StoreInOrder(disk)'
  <2> SUFFICES /\ Distinct(disk')
               /\ \A id \in IDs : Has(disk', id) => id \in sent'
               /\ \A id \in IDs : Response(disk', id) # None =>
                     [id |-> id, content |-> Response(disk', id)] \in applied'
    BY DEF StoreInOrder, Distinct, Known, Earned, Response, Index, Has
  <2>1. CASE disk' = disk \/ disk' = mem
    BY <2>1, <1>0, <1>1 DEF StoreInOrder, Known, Earned
  <2>2. CASE RecordSeen(h) /\ Put(disk, disk', [id |-> m.id, hash |-> m.content,
                                                response |-> Response(disk, m.id)])
    <3> DEFINE e == [id |-> m.id, hash |-> m.content, response |-> Response(disk, m.id)]
    <3>1. Busy(h)
      BY <2>2, StepAt DEF Busy, At
    <3>2. /\ e \in Entries /\ e.id \in sent
          /\ e.response # None => [id |-> e.id, content |-> e.response] \in applied
      BY <3>1, <1>0, <1>2, WorkTyped DEF Entries, Hashes, StoreInOrder, Earned
    <3>3. Put(disk, disk', e)
      BY <2>2
    <3> HIDE DEF e
    <3> QED  BY <3>2, <3>3, <1>0, <1>1, PutInOrder
  <2>3. CASE RecordResponse(h) /\
             Put(disk, disk', [id |-> m.id, hash |-> Later(Hash(disk, m.id), handler[h].hash),
                               response |-> m.content])
    <3> DEFINE e == [id |-> m.id, hash |-> Later(Hash(disk, m.id), handler[h].hash),
                     response |-> m.content]
    <3>1. Busy(h) /\ m \in applied
      BY <2>3, StepAt DEF Busy, At, DedupInv, WorkInOrder, Done
    <3>2. e \in Entries /\ e.id \in sent /\ [id |-> e.id, content |-> e.response] \in applied
      BY <3>1, <1>0, <1>2, WorkTyped DEF Entries, Hashes, Later
    <3>3. Put(disk, disk', e)
      BY <2>3
    <3> HIDE DEF e
    <3> QED  BY <3>2, <3>3, <1>0, <1>1, PutInOrder
  <2> QED  BY <2>1, <2>2, <2>3, DiskEffect
<1>5. StoreInOrder(cut)'
  <2> SUFFICES /\ Distinct(cut')
               /\ \A id \in IDs : Has(cut', id) => id \in sent'
               /\ \A id \in IDs : Response(cut', id) # None =>
                     [id |-> id, content |-> Response(cut', id)] \in applied'
    BY DEF StoreInOrder, Distinct, Known, Earned, Response, Index, Has
  <2>1. \A id : Response(cut', id) # None => Has(cut', id)
    BY DEF Response
  <2> QED  BY <2>1, <1>0, <1>1, StepCut DEF StoreInOrder, Known, Earned
<1> QED  BY <1>3, <1>4, <1>5

\* Who works on what.
LEMMA StepWork ==
    ASSUME DedupInv, NEW h \in Handlers, Step(h)
    PROVE  WorkInOrder'
<1> USE DEF Busy, At, Request
<1>0. WorkInOrder /\ current \in Requests
  BY DEF DedupInv, TypeOK
<1>1. current'.id \in sent'
  BY <1>0, NewsroomEffect DEF WorkInOrder
<1>2. ASSUME NEW g \in Handlers, handler'[g].pc # "idle"
      PROVE  /\ handler'[g].request \in Requests
             /\ handler'[g].request.id \in sent'
             /\ handler'[g].request.id = current'.id => handler'[g].request = current'
  <2>1. CASE g # h
    BY <2>1, <1>0, <1>2, MoveEffect, NewsroomEffect DEF WorkInOrder
  <2>2. CASE g = h
    <3>1. CASE Send(h)
      BY <2>2, <3>1, <1>0, MoveEffect, NewsroomEffect, StepAt DEF WorkInOrder
    <3>2. CASE Answer(h) \/ AnswerLost(h)
      BY <2>2, <3>2, <1>2, MoveEffect, StepAt
    <3>3. CASE ~Send(h) /\ ~Answer(h) /\ ~AnswerLost(h)
      BY <2>2, <3>3, <1>0, MoveEffect, NewsroomEffect DEF WorkInOrder
    <3> QED  BY <3>1, <3>2, <3>3
  <2> QED  BY <2>1, <2>2
<1>3. ASSUME NEW g \in Handlers, handler'[g].pc = "idle"
      PROVE  handler'[g] = Idle
  BY <1>0, <1>3, MoveEffect DEF WorkInOrder, Accepted
<1>4. ASSUME NEW g \in Handlers, handler'[g].pc \in Done
      PROVE  handler'[g].request \in applied'
  <2>1. applied \subseteq applied'
    BY NewsroomEffect
  <2>2. CASE g # h
    BY <2>1, <2>2, <1>0, <1>4, MoveEffect DEF WorkInOrder
  <2>3. CASE g = h
    <3>1. CASE Apply(h)
      BY <2>3, <3>1, NewsroomEffect, StepBecomes DEF Becomes
    <3>2. CASE RememberInMemory(h) \/ LookUpHash(h)
      BY <2>1, <2>3, <3>2, <1>0, StepBecomes, StepAt DEF Becomes, WorkInOrder, Done
    <3>3. CASE \/ Send(h) \/ RecordSeen(h) \/ Replay(h) \/ NoStoredResponse(h)
               \/ ApplyFails(h) \/ RecordResponse(h) \/ Answer(h) \/ AnswerLost(h)
      BY <2>3, <3>3, <1>4, StepBecomes DEF Becomes, Done
    <3>4. CASE Check(h)
      <4>1. CheckStage(h) \in {"record", "lookup", "reply"}
        BY OutcomeType DEF CheckStage
      <4> QED  BY <2>3, <3>4, <4>1, <1>4, StepBecomes DEF Becomes, Done
    <3> QED  BY <3>1, <3>2, <3>3, <3>4 DEF Step
  <2> QED  BY <2>2, <2>3
<1>5. ASSUME NEW g \in Handlers, handler'[g].late = "yes"
      PROVE  /\ handler'[g].pc \in Accepted \cup {"reply"}
             /\ handler'[g].request = current' => answered' # "no"
  <2>1. CASE g # h
    <3>1. handler[g].late = "yes" /\ handler'[g] = handler[g]
      BY <2>1, <1>5, MoveEffect
    <3>2. /\ handler[g].pc \in Accepted \cup {"reply"}
          /\ handler[g].request = current => answered # "no"
      BY <3>1, <1>0 DEF WorkInOrder
    <3>3. handler[g].pc # "idle"
      BY <3>2 DEF Accepted
    <3> QED  BY <2>1, <3>1, <3>2, <3>3, NewsroomEffect
  <2>2. CASE g = h
    <3>1. CASE Send(h) \/ Answer(h) \/ AnswerLost(h)
      BY <2>2, <3>1, <1>5, MoveEffect
    <3>2. CASE Check(h)
      <4>1. Request(h) = current /\ answered # "no" /\ ~Answer(h) /\ ~RecordResponse(h)
        BY <2>2, <3>2, <1>5, StepBecomes, StepAt DEF Becomes
      <4>2. ~Send(h) /\ ~AnswerLost(h)
        BY <3>2, StepAt
      <4> QED  BY <2>2, <4>1, <4>2, MoveEffect, NewsroomEffect
    <3>3. CASE ~Send(h) /\ ~Answer(h) /\ ~AnswerLost(h) /\ ~Check(h)
      <4>1. /\ handler'[h].pc \in Accepted \cup {"reply"}
            /\ handler[h].late = "yes" /\ handler'[h].request = handler[h].request
        BY <2>2, <3>3, <1>5, MoveEffect
      <4> QED  BY <2>2, <3>3, <4>1, <1>0, NewsroomEffect DEF WorkInOrder
    <3> QED  BY <3>1, <3>2, <3>3
  <2> QED  BY <2>1, <2>2
<1>6. ASSUME NEW f \in Handlers, NEW g \in Handlers,
             handler'[f].pc # "idle", handler'[g].pc # "idle",
             handler'[f].request.id = handler'[g].request.id
      PROVE  handler'[f].request = handler'[g].request
  <2>1. CASE Send(h)
    BY <2>1, <1>0, <1>6, MoveEffect, StepAt DEF WorkInOrder
  <2>2. CASE Answer(h) \/ AnswerLost(h)
    BY <2>2, <1>0, <1>6, MoveEffect, StepAt DEF WorkInOrder
  <2>3. CASE ~Send(h) /\ ~Answer(h) /\ ~AnswerLost(h)
    <3>1. /\ handler[f].pc # "idle" /\ handler[g].pc # "idle"
          /\ handler'[f].request = handler[f].request /\ handler'[g].request = handler[g].request
      BY <2>3, <1>6, MoveEffect
    <3> QED  BY <3>1, <1>0, <1>6 DEF WorkInOrder
  <2> QED  BY <2>1, <2>2, <2>3
<1> QED  BY <1>1, <1>2, <1>3, <1>4, <1>5, <1>6 DEF WorkInOrder

\* No goroutine joins those that may push out the entry of the request under
\* way: the one that begins works on that request.
LEMMA StepShrinks ==
    ASSUME DedupInv, NEW h \in Handlers, Step(h)
    PROVE  /\ Shrinks(handler, handler', current.id)
           /\ \A g \in Handlers : handler'[g].pc \in Working => handler'[g].request.id \in IDs
<1>1. Shrinks(handler, handler', current.id)
  <2> SUFFICES ASSUME NEW g \in Handlers, handler'[g].pc \in Working,
                      handler'[g].request.id # current.id
               PROVE  handler[g].pc \in Working /\ handler'[g].request = handler[g].request
    BY DEF Shrinks
  <2>1. CASE g # h
    BY <2>1, MoveEffect
  <2>2. CASE g = h
    BY <2>2, MoveEffect DEF Request, Working, Accepted
  <2> QED  BY <2>1, <2>2
<1>2. WorkInOrder'
  BY StepWork
<1>3. ASSUME NEW g \in Handlers, handler'[g].pc \in Working
      PROVE  handler'[g].request.id \in IDs
  <2>1. handler'[g].request \in Requests
    BY <1>2, <1>3 DEF WorkInOrder, Busy, At, Request, Working, Accepted
  <2> QED  BY <2>1 DEF Requests
<1> QED  BY <1>1, <1>3

\* A goroutine that puts an entry keeps that of the request under way.
LEMMA PutKeeps ==
    ASSUME DedupInv, NEW h \in Handlers, Step(h), NEW q, NEW p, NEW e \in Entries,
           q \in {mem, disk}, Put(q, p, e), e.id = Request(h).id,
           handler[h].pc \in Working, handler'[h].request = Request(h)
    PROVE  /\ RoomFor(handler', p, current.id)
           /\ Has(q, current.id) => Has(p, current.id)
<1>1. q \in Seq(Entries) /\ Distinct(q) /\ RoomFor(handler, q, current.id)
  BY DEF DedupInv, TypeOK, StoreInOrder, Room
<1>2. current.id \in IDs
  BY DEF DedupInv, TypeOK, Requests
<1>3. /\ Shrinks(handler, handler', current.id)
      /\ \A g \in Handlers : handler'[g].pc \in Working => handler'[g].request.id \in IDs
  BY StepShrinks
<1> QED  BY <1>1, <1>2, <1>3, RoomAfterPut DEF Request

\* What a step does in memory to the entry of the request under way.
LEMMA StepMemCurrent ==
    ASSUME DedupInv, NEW h \in Handlers, Step(h)
    PROVE  /\ RoomFor(handler', mem', current.id)
           /\ Has(mem, current.id) =>
                /\ Has(mem', current.id)
                /\ Hash(mem', current.id) = Hash(mem, current.id)
                /\ \/ Response(mem', current.id) = Response(mem, current.id)
                   \/ /\ Hash(mem, current.id) = current.content
                      /\ Response(mem', current.id) = current.content
           /\ ~Has(mem, current.id) /\ Has(mem', current.id) =>
                /\ Check(h) /\ Request(h) = current
                /\ Hash(mem', current.id) = current.content
                /\ Response(mem', current.id) = None
           /\ RememberInMemory(h) /\ Request(h) = current =>
                Response(mem', current.id) = current.content
<1> DEFINE m == Request(h)
<1>0. /\ mem \in Seq(Entries) /\ Distinct(mem) /\ RoomFor(handler, mem, current.id)
      /\ current \in Requests /\ current.id \in IDs
  BY DEF DedupInv, TypeOK, StoreInOrder, Room, Requests
<1>1. CASE mem' = mem /\ ~RememberInMemory(h)
  <2>1. RoomFor(handler', mem, current.id)
    BY <1>0, StepShrinks, RoomKept
  <2> QED  BY <1>1, <2>1
<1>2. CASE Check(h) /\ ~Has(mem, m.id)
  <2> DEFINE e == [id |-> m.id, hash |-> m.content, response |-> None]
  <2>1. Busy(h) /\ handler[h].pc \in Working /\ handler'[h].request = Request(h)
        /\ ~RememberInMemory(h)
    BY <1>2, StepAt, StepBecomes DEF Busy, At, Working, Becomes
  <2>2. /\ e \in Entries /\ e.id = m.id /\ e.hash = m.content /\ e.response = None
        /\ m.id = current.id => m = current
    BY <2>1, WorkTyped DEF Entries, Hashes, DedupInv, WorkInOrder
  <2>3. Put(mem, mem', e)
    BY <1>2, MemEffect
  <2> HIDE DEF e
  <2>4. /\ RoomFor(handler', mem', current.id)
        /\ Has(mem, current.id) => Has(mem', current.id)
    BY <2>1, <2>2, <2>3, PutKeeps
  <2>5. m.id # current.id /\ Has(mem', current.id) =>
          /\ Has(mem, current.id)
          /\ Hash(mem', current.id) = Hash(mem, current.id)
          /\ Response(mem', current.id) = Response(mem, current.id)
    BY <2>2, <2>3, <1>0 DEF Put
  <2>6. m.id = current.id =>
          Hash(mem', current.id) = m.content /\ Response(mem', current.id) = None
    BY <2>2, <2>3 DEF Put
  <2> QED  BY <1>2, <2>1, <2>2, <2>4, <2>5, <2>6
<1>3. CASE RememberInMemory(h)
  <2> DEFINE e == [id |-> m.id, hash |-> Hash(mem, m.id), response |-> m.content]
  <2>1. Busy(h) /\ handler[h].pc \in Working /\ handler'[h].request = Request(h)
        /\ handler[h].pc \in Accepted
    BY <1>3, StepAt, StepBecomes DEF Busy, At, Working, Accepted, Becomes
  <2>2. /\ e \in Entries /\ e.id = m.id /\ e.hash = Hash(mem, m.id) /\ e.response = m.content
        /\ m.id = current.id => m = current
    BY <2>1, <1>0, WorkTyped, LookupType DEF Entries, Hashes, DedupInv, WorkInOrder
  <2>3. Put(mem, mem', e)
    BY <1>3, MemEffect
  <2> HIDE DEF e
  <2>4. /\ RoomFor(handler', mem', current.id)
        /\ Has(mem, current.id) => Has(mem', current.id)
    BY <2>1, <2>2, <2>3, PutKeeps
  <2>5. m.id # current.id /\ Has(mem', current.id) =>
          /\ Has(mem, current.id)
          /\ Hash(mem', current.id) = Hash(mem, current.id)
          /\ Response(mem', current.id) = Response(mem, current.id)
    BY <2>2, <2>3, <1>0 DEF Put
  <2>6. m.id = current.id =>
          Hash(mem', current.id) = Hash(mem, current.id) /\ Response(mem', current.id) = m.content
    BY <2>2, <2>3 DEF Put
  <2>7. m = current => Has(mem, current.id) /\ Hash(mem, current.id) = current.content
    BY <2>1 DEF DedupInv, CurrentInOrder, OwnEntry
  <2> QED  BY <2>2, <2>4, <2>5, <2>6, <2>7
<1> QED  BY <1>1, <1>2, <1>3, MemEffect, StepAt DEF At

\* What a step does in the log to the entry of the request under way.
LEMMA StepDiskCurrent ==
    ASSUME DedupInv, NEW h \in Handlers, Step(h)
    PROVE  /\ RoomFor(handler', disk', current.id)
           /\ Has(disk, current.id) /\ Has(mem, current.id) => Has(disk', current.id)
           /\ Has(disk', current.id) =>
                \/ /\ Has(disk, current.id)
                   /\ Hash(disk', current.id) = Hash(disk, current.id)
                   /\ Response(disk', current.id) = Response(disk, current.id)
                \/ /\ mode = "durable" /\ mem' = mem /\ Has(mem, current.id)
                   /\ Hash(disk', current.id) = Hash(mem, current.id)
                   /\ Response(disk', current.id) = Response(mem, current.id)
                \/ /\ mode = "durable" /\ mem' = mem /\ Has(mem, current.id)
                   /\ Hash(mem, current.id) = current.content
                   /\ Hash(disk', current.id) = current.content
                   /\ Response(disk', current.id) \in {Response(disk, current.id), current.content}
           /\ RecordResponse(h) /\ Request(h) = current /\ answered' = "disk" =>
                \/ answered = "disk"
                \/ /\ Response(disk', current.id) = current.content
                   /\ Hash(disk', current.id) = current.content
<1> DEFINE m == Request(h)
<1>0. /\ disk \in Seq(Entries) /\ Distinct(disk) /\ RoomFor(handler, disk, current.id)
      /\ mem \in Seq(Entries) /\ Distinct(mem) /\ RoomFor(handler, mem, current.id)
      /\ current \in Requests /\ current.id \in IDs /\ handler[h].hash \in Hashes
  BY DEF DedupInv, TypeOK, StoreInOrder, Room, Requests
<1>1. RecordSeen(h) \/ RecordResponse(h) =>
        /\ Busy(h) /\ handler[h].pc \in Working /\ handler'[h].request = Request(h)
        /\ handler[h].pc \in Accepted /\ mem' = mem
        /\ m.id = current.id => m = current
        /\ m = current => Has(mem, current.id) /\ Hash(mem, current.id) = current.content
  <2> SUFFICES ASSUME RecordSeen(h) \/ RecordResponse(h)
               PROVE  /\ Busy(h) /\ handler[h].pc \in Working /\ handler'[h].request = Request(h)
                      /\ handler[h].pc \in Accepted /\ mem' = mem
                      /\ m.id = current.id => m = current
                      /\ m = current => Has(mem, current.id) /\ Hash(mem, current.id) = current.content
    OBVIOUS
  <2>1. Busy(h) /\ handler[h].pc \in Working /\ handler[h].pc \in Accepted
    BY StepAt DEF Busy, At, Working, Accepted
  <2>2. handler'[h].request = Request(h)
    BY StepBecomes DEF Becomes
  <2>3. mem' = mem
    BY DEF RecordSeen, RecordResponse
  <2> QED  BY <2>1, <2>2, <2>3 DEF DedupInv, WorkInOrder, CurrentInOrder, OwnEntry
<1>2. RecordResponse(h) /\ m = current =>
        Response(mem, current.id) = current.content /\ handler[h].hash = current.content
  BY <1>1, StepAt DEF DedupInv, CurrentInOrder, OwnEntry, At
<1>3. CASE disk' = disk /\ (RecordResponse(h) => (answered' = "disk" => answered = "disk"))
  <2>1. RoomFor(handler', disk, current.id)
    BY <1>0, StepShrinks, RoomKept
  <2> QED  BY <1>3, <2>1
<1>4. CASE (RecordSeen(h) \/ RecordResponse(h)) /\ mode = "durable" /\ disk' = mem
  <2>1. RoomFor(handler', mem, current.id)
    BY <1>0, StepShrinks, RoomKept
  <2> QED  BY <1>1, <1>2, <1>4, <2>1
<1>5. ASSUME RecordSeen(h) \/ RecordResponse(h), mode = "durable",
             NEW e \in Entries, e.id = m.id, Put(disk, disk', e),
             m = current => /\ e.hash = current.content
                            /\ e.response \in {Response(disk, current.id), current.content},
             RecordResponse(h) => e.response = m.content
      PROVE  /\ RoomFor(handler', disk', current.id)
             /\ Has(disk, current.id) => Has(disk', current.id)
             /\ Has(disk', current.id) =>
                  \/ /\ Has(disk, current.id)
                     /\ Hash(disk', current.id) = Hash(disk, current.id)
                     /\ Response(disk', current.id) = Response(disk, current.id)
                  \/ /\ mode = "durable" /\ mem' = mem /\ Has(mem, current.id)
                     /\ Hash(mem, current.id) = current.content
                     /\ Hash(disk', current.id) = current.content
                     /\ Response(disk', current.id) \in {Response(disk, current.id), current.content}
             /\ RecordResponse(h) /\ m = current =>
                  /\ Response(disk', current.id) = current.content
                  /\ Hash(disk', current.id) = current.content
  <2>1. /\ RoomFor(handler', disk', current.id)
        /\ Has(disk, current.id) => Has(disk', current.id)
    BY <1>1, <1>5, PutKeeps
  <2>2. CASE m.id # current.id
    <3>1. Has(disk', current.id) =>
            /\ Has(disk, current.id)
            /\ Hash(disk', current.id) = Hash(disk, current.id)
            /\ Response(disk', current.id) = Response(disk, current.id)
      BY <2>2, <1>0, <1>5 DEF Put
    <3> QED  BY <2>1, <2>2, <3>1
  <2>3. CASE m.id = current.id
    <3>1. m = current
      BY <2>3, <1>1, <1>5
    <3>2. Hash(disk', current.id) = e.hash /\ Response(disk', current.id) = e.response
      BY <3>1, <1>5 DEF Put
    <3> QED  BY <2>1, <3>1, <3>2, <1>1, <1>5
  <2> QED  BY <2>2, <2>3
<1>6. \A id : Hash(disk, id) \in Hashes /\ Response(disk, id) \in Hashes
  BY <1>0, LookupType
<1>7. CASE RecordSeen(h) /\ mode = "durable" /\
           Put(disk, disk', [id |-> m.id, hash |-> m.content, response |-> Response(disk, m.id)])
  <2> DEFINE e == [id |-> m.id, hash |-> m.content, response |-> Response(disk, m.id)]
  <2>1. /\ e \in Entries /\ e.id = m.id /\ e.hash = m.content
        /\ e.response = Response(disk, m.id)
    BY <1>1, <1>6, <1>7, WorkTyped DEF Entries, Hashes
  <2>2. Put(disk, disk', e) /\ ~RecordResponse(h)
    BY <1>7, StepAt DEF At
  <2> HIDE DEF e
  <2> QED  BY <1>5, <1>7, <2>1, <2>2
<1>8. CASE RecordResponse(h) /\ mode = "durable" /\
           Put(disk, disk', [id |-> m.id, hash |-> Later(Hash(disk, m.id), handler[h].hash),
                             response |-> m.content])
  <2> DEFINE e == [id |-> m.id, hash |-> Later(Hash(disk, m.id), handler[h].hash),
                   response |-> m.content]
  <2>1. /\ e \in Entries /\ e.id = m.id
        /\ e.hash = Later(Hash(disk, m.id), handler[h].hash) /\ e.response = m.content
        /\ m.content # None
    BY <1>0, <1>1, <1>6, <1>8, WorkTyped DEF Entries, Hashes, Later
  <2>2. Put(disk, disk', e)
    BY <1>8
  <2> HIDE DEF e
  <2>3. m = current => e.hash = current.content
    BY <1>2, <1>8, <2>1 DEF Later
  <2> QED  BY <1>5, <1>8, <2>1, <2>2, <2>3
<1> QED  BY <1>3, <1>4, <1>7, <1>8, DiskEffect, StepAt DEF At

\* What memory says of the messages that are worked on.
LEMMA StepEntries ==
    ASSUME DedupInv, NEW h \in Handlers, Step(h)
    PROVE  EntriesInOrder'
<1> DEFINE m == Request(h)
<1>0. /\ mem \in Seq(Entries) /\ current \in Requests /\ current.id \in IDs /\ WorkInOrder
      /\ EntriesInOrder /\ OfOneRequest(mem) /\ unread' = unread
  BY NewsroomEffect DEF DedupInv, TypeOK, Requests, CurrentInOrder
\* An entry that is put is for the request of its goroutine.
<1>1. ASSUME NEW id \in IDs, Busy(h) => id # m.id
      PROVE  \/ Hash(mem', id) = Hash(mem, id) /\ Response(mem', id) = Response(mem, id)
             \/ Hash(mem', id) = None /\ Response(mem', id) = None
  <2>1. CASE mem' = mem
    BY <2>1
  <2>2. CASE Check(h) \/ RememberInMemory(h)
    <3>1. Busy(h)
      BY <2>2, StepAt DEF Busy, At
    <3>2. mem' = mem \/ (Has(mem', id) =>
            Hash(mem', id) = Hash(mem, id) /\ Response(mem', id) = Response(mem, id))
      BY <3>1, <2>2, <1>1, MemEffect DEF Put
    <3> QED  BY <3>2 DEF Hash, Response
  <2> QED  BY <2>1, <2>2, MemEffect
<1>2. ASSUME Check(h), ~Has(mem, m.id)
      PROVE  Hash(mem', m.id) = m.content /\ Response(mem', m.id) = None
  BY <1>2, MemEffect DEF Put
<1>3. ASSUME RememberInMemory(h)
      PROVE  Hash(mem', m.id) = Hash(mem, m.id) /\ Response(mem', m.id) = m.content
  BY <1>3, MemEffect DEF Put
<1>4. ASSUME Busy(h), handler[h].pc \in Accepted, m.id \notin unread
      PROVE  Pure(mem, m)
  BY <1>4, <1>0 DEF EntriesInOrder
\* The requests in hand keep their entries pure, or unmixed.
<1>5. ASSUME NEW g \in Handlers, Busy(g), handler[g].pc \in Accepted, Request(g).id \notin unread
      PROVE  Pure(mem', Request(g))
  <2>1. Pure(mem, Request(g)) /\ Request(g).id \in IDs
    BY <1>0, <1>5, WorkTyped DEF EntriesInOrder
  <2>2. CASE Busy(h) /\ Request(g).id = m.id
    <3>1. Request(g) = m
      BY <2>2, <1>0, <1>5 DEF WorkInOrder
    <3>2. CASE mem' = mem
      BY <2>1, <3>2
    <3>3. CASE Check(h) /\ ~Has(mem, m.id)
      BY <3>1, <3>3, <1>2 DEF Pure
    <3>4. CASE RememberInMemory(h)
      BY <2>1, <3>1, <3>4, <1>3 DEF Pure
    <3> QED  BY <3>2, <3>3, <3>4, MemEffect
  <2>3. CASE Busy(h) => Request(g).id # m.id
    BY <2>1, <2>3, <1>1 DEF Pure
  <2> QED  BY <2>2, <2>3
<1>6. ASSUME NEW g \in Handlers, Busy(g), Request(g).id \notin unread
      PROVE  Unmixed(mem', Request(g).id)
  <2>1. Unmixed(mem, Request(g).id) /\ Request(g).id \in IDs
    BY <1>0, <1>6, WorkTyped DEF EntriesInOrder
  <2>2. CASE Busy(h) /\ Request(g).id = m.id
    <3>2. CASE mem' = mem
      BY <2>1, <3>2
    <3>3. CASE Check(h) /\ ~Has(mem, m.id)
      BY <2>2, <3>3, <1>2 DEF Unmixed
    <3>4. CASE RememberInMemory(h)
      <4>1. Pure(mem, m)
        BY <2>2, <3>4, <1>4, <1>6, StepAt DEF At, Accepted
      <4> QED  BY <2>2, <3>4, <4>1, <1>3 DEF Unmixed, Pure
    <3> QED  BY <3>2, <3>3, <3>4, MemEffect
  <2>3. CASE Busy(h) => Request(g).id # m.id
    BY <2>1, <2>3, <1>1 DEF Unmixed
  <2> QED  BY <2>2, <2>3
<1>7. ASSUME NEW g \in Handlers, handler'[g].pc # "idle", handler'[g].request.id \notin unread
      PROVE  Unmixed(mem', handler'[g].request.id)
  <2>1. CASE g = h /\ Send(h)
    <3>1. mem' = mem /\ handler'[g].request = current
      BY <2>1, StepAt, MemEffect, StepBecomes DEF At, Becomes
    <3> QED  BY <3>1, <1>0, <1>7 DEF Unmixed, OfOneRequest, Hash
  <2>2. CASE ~(g = h /\ Send(h))
    <3>1. Busy(g) /\ handler'[g].request = Request(g)
      BY <2>2, <1>7, MoveEffect DEF Busy, At, Request
    <3> QED  BY <3>1, <1>6, <1>7
  <2> QED  BY <2>1, <2>2
<1>8. ASSUME NEW g \in Handlers, handler'[g].pc \in Accepted, handler'[g].request.id \notin unread
      PROVE  Pure(mem', handler'[g].request)
  <2>1. CASE g = h /\ Check(h)
    <3>1. /\ CheckStage(h) \in {"record", "lookup"} /\ handler'[g].request = m /\ Busy(h)
          /\ CheckStage(h) = handler'[h].pc
      <4>1. CheckStage(h) \in {"record", "lookup", "reply"}
        BY OutcomeType DEF CheckStage
      <4> QED  BY <2>1, <4>1, <1>8, StepBecomes, StepAt DEF Becomes, Accepted, Busy, At
    <3>2. CASE ~Has(mem, m.id)
      BY <2>1, <3>1, <3>2, <1>2 DEF Pure
    <3>3. CASE Has(mem, m.id)
      <4>1. mem' = mem
        BY <2>1, <3>3, MemEffect
      <4>2. Hash(mem, m.id) = m.content
        BY <3>1, <3>3 DEF CheckStage, Outcome
      <4>3. Unmixed(mem, m.id) /\ m.content # None
        BY <3>1, <1>0, <1>8, WorkTyped DEF EntriesInOrder
      <4> QED  BY <3>1, <4>1, <4>2, <4>3 DEF Pure, Unmixed
    <3> QED  BY <3>2, <3>3
  <2>2. CASE ~(g = h /\ Check(h))
    <3>1. handler[g].pc \in Accepted /\ handler'[g].request = Request(g) /\ Busy(g)
      <4>1. CASE g # h
        BY <4>1, <1>8, MoveEffect DEF Busy, At, Request, Accepted
      <4>2. CASE g = h
        <5>1. handler[g].pc \in Working /\ handler'[g].request = Request(g) /\ Busy(g)
          BY <4>2, <1>8, MoveEffect DEF Accepted
        <5>2. handler[g].pc # "check"
          BY <2>2, <4>2, <5>1, StepAt DEF At, Step, Busy
        <5> QED  BY <5>1, <5>2 DEF Working
      <4> QED  BY <4>1, <4>2
    <3> QED  BY <3>1, <1>5, <1>8
  <2> QED  BY <2>1, <2>2
<1> QED  BY <1>0, <1>7, <1>8 DEF EntriesInOrder, Busy, At, Request, Unmixed, Pure, Hash, Response, Has, Index

\* What memory and log say of the request under way.
LEMMA StepCurrent ==
    ASSUME DedupInv, NEW h \in Handlers, Step(h)
    PROVE  CurrentInOrder'
<1>0. /\ OfOneRequest(mem) /\ OfOneRequest(disk) /\ OfOneRequest(cut) /\ Ahead
      /\ \A g \in Handlers : OwnEntry(g)
      /\ current \in Requests /\ current.content \in Contents /\ current.content # None
      /\ WorkInOrder /\ unread' = unread
  BY DedupAssumption, NewsroomEffect DEF DedupInv, CurrentInOrder, TypeOK, Requests
<1>1. CASE Answer(h)
  <2>1. mem' = mem /\ disk' = disk /\ cut' = cut /\ mode' = mode
    BY <1>1 DEF Answer, store, log
  <2>2. \/ current'.id = current.id
        \/ ~Has(mem, current'.id) /\ ~Has(disk, current'.id) /\ ~Has(cut, current'.id)
    BY <1>1, NewsroomEffect DEF DedupInv, StoreInOrder, Known, Requests
  <2>3. OfOneRequest(mem)' /\ OfOneRequest(disk)' /\ OfOneRequest(cut)' /\ Ahead'
    <3>1. \A q \in {mem, disk, cut} : current'.id \notin unread /\ Has(q, current'.id) =>
            /\ Hash(q, current'.id) # None
            /\ Response(q, current'.id) \in {None, Hash(q, current'.id)}
      BY <2>2, <1>0 DEF OfOneRequest
    <3>2. OfOneRequest(mem)'
      BY <2>1, <3>1, <1>0 DEF OfOneRequest, Has, Hash, Response, Index
    <3>3. OfOneRequest(disk)'
      BY <2>1, <3>1, <1>0 DEF OfOneRequest, Has, Hash, Response, Index
    <3>4. OfOneRequest(cut)'
      BY <2>1, <3>1, <1>0 DEF OfOneRequest, Has, Hash, Response, Index
    <3>5. Ahead'
      BY <2>1, <2>2, <1>0 DEF Ahead, Has, Hash, Index
    <3> QED  BY <3>2, <3>3, <3>4, <3>5
  <2>4. ASSUME NEW g \in Handlers
        PROVE  OwnEntry(g)'
    <3>1. handler'[g].pc # "idle" => handler'[g].request # current'
      BY <1>1, MoveEffect, NewsroomEffect, StepAt DEF Busy, At, Request
    <3> QED  BY <3>1 DEF OwnEntry, Busy, At, Request
  <2> QED  BY <2>3, <2>4 DEF CurrentInOrder
<1>2. CASE ~Answer(h)
  <2>1. current' = current
    BY <1>2, NewsroomEffect
  <2>2. current.id \notin unread /\ Has(mem', current.id) =>
          /\ Hash(mem', current.id) # None
          /\ Response(mem', current.id) \in {None, Hash(mem', current.id)}
    BY <1>0, StepMemCurrent DEF OfOneRequest
  <2>3. current.id \notin unread /\ Has(disk', current.id) =>
          /\ Hash(disk', current.id) # None
          /\ Response(disk', current.id) \in {None, Hash(disk', current.id)}
    <3>1. ~Has(disk, current.id) => Response(disk, current.id) = None
      BY DEF Response
    <3> QED  BY <1>0, <3>1, StepDiskCurrent DEF OfOneRequest, Ahead
  <2>4. current.id \notin unread /\ mode' = "durable" /\ Has(disk', current.id) =>
          Has(mem', current.id) /\ Hash(disk', current.id) = Hash(mem', current.id)
    <3>1. mode' = "durable" => mode = "durable"
      BY DiskEffect
    <3> QED  BY <1>0, <3>1, StepDiskCurrent, StepMemCurrent DEF Ahead
  <2>5. ASSUME NEW g \in Handlers, handler'[g].pc # "idle", handler'[g].request = current,
               handler'[g].pc \in Accepted
        PROVE  Has(mem', current.id) /\ Hash(mem', current.id) = current.content
    <3>1. CASE g = h /\ Check(h)
      <4>1. Request(h) = current /\ handler'[h].pc = CheckStage(h)
        BY <2>5, <3>1, StepBecomes DEF Becomes
      <4>2. CASE Has(mem, current.id)
        <5>1. CheckStage(h) \in {"record", "lookup", "reply"}
          BY OutcomeType DEF CheckStage
        <5>2. Outcome(mem, current) = "duplicate"
          BY <2>5, <3>1, <4>1, <4>2, <5>1 DEF CheckStage, Outcome, Accepted
        <5>3. Hash(mem, current.id) = current.content
          BY <5>2, <4>2 DEF Outcome
        <5> QED  BY <4>2, <5>3, StepMemCurrent
      <4>3. CASE ~Has(mem, current.id)
        <5>1. Put(mem, mem', [id |-> Request(h).id, hash |-> Request(h).content, response |-> None])
          BY <3>1, <4>1, <4>3, MemEffect
        <5> QED  BY <5>1, <4>1 DEF Put
      <4> QED  BY <4>2, <4>3
    <3>2. CASE ~(g = h /\ Check(h))
      <4>1. handler[g].pc \in Accepted /\ Request(g) = current /\ Busy(g)
        <5>1. CASE g # h
          BY <5>1, <2>5, MoveEffect DEF Busy, At, Request
        <5>2. CASE g = h
          <6>1. handler[g].pc \in Working /\ Request(g) = current /\ Busy(g)
            BY <5>2, <2>5, MoveEffect DEF Accepted
          <6>2. handler[g].pc # "check"
            BY <3>2, <5>2, <6>1, StepAt DEF At, Step, Busy
          <6> QED  BY <6>1, <6>2 DEF Working
        <5> QED  BY <5>1, <5>2
      <4> QED  BY <4>1, <1>0, StepMemCurrent DEF OwnEntry
    <3> QED  BY <3>1, <3>2
  <2>6. ASSUME NEW g \in Handlers, handler'[g].request = current,
               handler'[g].pc \in {"hash", "receipt"}
        PROVE  /\ Response(mem', current.id) = current.content
               /\ handler'[g].pc = "receipt" => handler'[g].hash = current.content
    <3>1. CASE g = h /\ RememberInMemory(h)
      BY <2>6, <3>1, StepMemCurrent, StepBecomes DEF Becomes
    <3>2. CASE g = h /\ LookUpHash(h)
      <4>1. handler'[h].hash = Hash(mem, current.id) /\ Request(h) = current /\ Busy(h)
            /\ handler[h].pc = "hash"
        BY <2>6, <3>2, StepBecomes, StepAt DEF Becomes, Busy, At
      <4>2. /\ Has(mem, current.id) /\ Hash(mem, current.id) = current.content
            /\ Response(mem, current.id) = current.content
        BY <4>1, <1>0 DEF OwnEntry, Accepted
      <4> QED  BY <3>2, <4>1, <4>2, StepMemCurrent
    <3>3. CASE g # h
      <4>1. Request(g) = current /\ Busy(g) /\ handler'[g] = handler[g]
        BY <2>6, <3>3, MoveEffect DEF Busy, At, Request
      <4>2. /\ Has(mem, current.id)
            /\ Response(mem, current.id) = current.content
            /\ handler[g].pc = "receipt" => handler[g].hash = current.content
        BY <4>1, <2>6, <1>0 DEF OwnEntry, Accepted, At
      <4> QED  BY <4>1, <4>2, StepMemCurrent
    <3>4. CASE g = h /\ ~RememberInMemory(h) /\ ~LookUpHash(h)
      <4>1. CheckStage(h) \in {"record", "lookup", "reply"}
        BY OutcomeType DEF CheckStage
      <4>2. handler'[h].pc \notin {"hash", "receipt"}
        BY <3>4, <4>1, StepBecomes DEF Becomes, Step
      <4> QED  BY <2>6, <3>4, <4>2
    <3> QED  BY <3>1, <3>2, <3>3, <3>4
  <2>7. ASSUME NEW g \in Handlers
        PROVE  OwnEntry(g)'
    BY <2>1, <2>5, <2>6 DEF OwnEntry, Busy, At, Request, Has, Hash, Response, Index
  <2>8. current.id \notin unread /\ Has(cut', current.id) =>
          /\ Hash(cut', current.id) # None
          /\ Response(cut', current.id) \in {None, Hash(cut', current.id)}
    BY <1>0, StepCut DEF OfOneRequest
  <2>9. OfOneRequest(mem)' /\ OfOneRequest(disk)' /\ OfOneRequest(cut)' /\ Ahead'
    BY <1>0, <2>1, <2>2, <2>3, <2>4, <2>8 DEF OfOneRequest, Ahead, Has, Hash, Response, Index
  <2> QED  BY <2>7, <2>9 DEF CurrentInOrder
<1> QED  BY <1>1, <1>2

\* There is room for what is in progress.
LEMMA StepRoom ==
    ASSUME DedupInv, NEW h \in Handlers, Step(h)
    PROVE  Room'
<1>1. RoomFor(handler', mem', current.id) /\ RoomFor(handler', disk', current.id)
  BY StepMemCurrent, StepDiskCurrent
<1>2. Near(cut', current.id)
  <2>1. Near(mem, current.id) /\ Near(disk, current.id) /\ Near(cut, current.id)
    BY RoomIsNear DEF DedupInv, TypeOK, StoreInOrder, Room
  <2>2. \A q \in {mem, disk, cut, cut'} : Has(q, current.id) => After(q, current.id) \in Int
    BY StepCut, IndexLemma DEF After, DedupInv, TypeOK, StoreInOrder
  <2>3. Cardinality(Handlers) \in Nat
    BY PendingFinite
  <2> SUFFICES ASSUME Has(cut', current.id)
               PROVE  After(cut', current.id) < Cardinality(Handlers)
    BY DEF Near
  <2>4. PICK q \in {mem, disk, cut} :
           Has(q, current.id) /\ After(cut', current.id) <= After(q, current.id)
    BY StepCut
  <2>5. After(q, current.id) < Cardinality(Handlers)
    BY <2>1, <2>4 DEF Near
  <2> QED  BY <2>2, <2>3, <2>4, <2>5
<1>3. \/ current'.id = current.id
      \/ ~Has(mem', current'.id) /\ ~Has(disk', current'.id) /\ ~Has(cut', current'.id)
  <2>1. CASE Answer(h)
    <3>1. mem' = mem /\ disk' = disk /\ cut' = cut
      BY <2>1 DEF Answer, store, log
    <3> QED  BY <2>1, <3>1, NewsroomEffect DEF DedupInv, StoreInOrder, Known, Requests
  <2>2. CASE ~Answer(h)
    BY <2>2, NewsroomEffect
  <2> QED  BY <2>1, <2>2
<1>4. /\ RoomFor(handler', mem', current'.id) /\ RoomFor(handler', disk', current'.id)
      /\ Near(cut', current'.id)
  BY <1>1, <1>2, <1>3 DEF RoomFor, Near
<1> QED  BY <1>4 DEF Room, RoomFor, Near, Has, After, Pending, Newer, Index

\* What was stored is kept.
LEMMA StepReceipt ==
    ASSUME DedupInv, NEW h \in Handlers, Step(h)
    PROVE  ReceiptKept' /\ HashKept'
<1>0. /\ ReceiptKept /\ HashKept /\ \A g \in Handlers : OwnEntry(g)
      /\ current.content # None /\ answered \in {"no", "memory", "disk"}
  BY DedupAssumption DEF DedupInv, CurrentInOrder, TypeOK, Requests
<1>1. CASE Answer(h)
  <2>1. answered' = "no"
    BY <1>1, NewsroomEffect
  <2> QED  BY <2>1 DEF ReceiptKept, HashKept
<1>2. CASE ~Answer(h)
  <2>1. current' = current
    BY <1>2, NewsroomEffect
  <2>2. answered # "no" => /\ Has(mem, current.id)
                           /\ Response(mem, current.id) = current.content
                           /\ Hash(mem, current.id) = current.content
                           /\ Response(mem', current.id) = current.content
                           /\ Hash(mem', current.id) = current.content
    <3>1. answered # "no" => /\ Response(mem, current.id) = current.content
                             /\ Hash(mem, current.id) = current.content
      BY <1>0 DEF ReceiptKept, HashKept
    <3>2. answered # "no" => Has(mem, current.id)
      BY <3>1, <1>0 DEF Response
    <3> QED  BY <3>1, <3>2, StepMemCurrent
  <2>3. ASSUME answered = "no", answered' # "no"
        PROVE  /\ RecordResponse(h) /\ Request(h) = current
               /\ Response(mem', current.id) = current.content
               /\ Hash(mem', current.id) = current.content
    <3>1. RecordResponse(h) /\ Request(h) = current
      BY <1>2, <2>3, NewsroomEffect
    <3>2. /\ Has(mem, current.id) /\ Response(mem, current.id) = current.content
          /\ Hash(mem, current.id) = current.content
      BY <3>1, <1>0, StepAt DEF OwnEntry, Busy, At, Accepted
    <3> QED  BY <3>1, <3>2, StepMemCurrent
  <2>4. ASSUME answered = "disk"
        PROVE  /\ Response(disk', current.id) = current.content
               /\ Hash(disk', current.id) = current.content
    <3>1. /\ Response(disk, current.id) = current.content
          /\ Hash(disk, current.id) = current.content
      BY <2>4, <1>0 DEF ReceiptKept, HashKept
    <3>2. Has(disk, current.id)
      BY <3>1, <1>0 DEF Response
    <3> QED  BY <2>2, <2>4, <3>1, <3>2, StepDiskCurrent
  <2>5. ASSUME answered # "disk", answered' = "disk"
        PROVE  /\ Response(disk', current.id) = current.content
               /\ Hash(disk', current.id) = current.content
    <3>1. RecordResponse(h) /\ Request(h) = current
      BY <1>2, <2>5, NewsroomEffect
    <3> QED  BY <2>5, <3>1, StepDiskCurrent
  <2>6. /\ answered' # "no" => /\ Response(mem', current.id) = current.content
                              /\ Hash(mem', current.id) = current.content
        /\ answered' = "disk" => /\ Response(disk', current.id) = current.content
                                /\ Hash(disk', current.id) = current.content
    BY <2>2, <2>3, <2>4, <2>5
  <2> QED  BY <2>1, <2>6 DEF ReceiptKept, HashKept, Response, Hash, Has, Index
<1> QED  BY <1>1, <1>2

\* A late retry is answered from the store.
LEMMA StepLate ==
    ASSUME DedupInv, NEW h \in Handlers, Step(h)
    PROVE  AnsweredIsNotRepeated'
<1>0. /\ ReceiptKept /\ HashKept /\ AnsweredIsNotRepeated /\ WorkInOrder
      /\ current.content # None
  BY DedupAssumption DEF DedupInv, CurrentInOrder, TypeOK, Requests
<1> SUFFICES ASSUME NEW g \in Handlers, handler'[g].late = "yes", handler'[g].request = current'
             PROVE  handler'[g].pc \in {"lookup", "reply"}
  BY DEF AnsweredIsNotRepeated, Request
<1>1. CASE g # h
  <2>1. handler'[g] = handler[g]
    BY <1>1, MoveEffect
  <2>2. Busy(g)
    BY <2>1, <1>0 DEF WorkInOrder, Busy, At, Idle
  <2>3. current' = current
    BY <1>1, <2>1, <2>2, NewsroomEffect DEF Request
  <2> QED  BY <2>1, <2>3, <1>0 DEF AnsweredIsNotRepeated, Request
<1>2. CASE g = h /\ Check(h)
  <2>1. /\ Request(h) = current /\ answered # "no" /\ handler'[h].pc = CheckStage(h)
    BY <1>2, StepBecomes DEF Becomes
  <2>2. Response(mem, current.id) = current.content
    BY <2>1, <1>0 DEF ReceiptKept
  <2>3. Has(mem, current.id)
    BY <2>2, <1>0 DEF Response
  <2>4. Outcome(mem, current) = "duplicate"
    BY <2>1, <2>3, <1>0 DEF HashKept, Outcome
  <2> QED  BY <1>2, <2>1, <2>4 DEF CheckStage
<1>3. CASE g = h /\ ~Check(h)
  <2>1. /\ handler[h].late = "yes" /\ handler'[h].request = Request(h)
        /\ ~Send(h) /\ ~Answer(h) /\ ~AnswerLost(h)
    BY <1>3, MoveEffect
  <2>2. Request(h) = current
    BY <1>3, <2>1, NewsroomEffect
  <2>3. handler[h].pc \in {"lookup", "reply"} /\ answered # "no"
    BY <2>1, <2>2, <1>0 DEF AnsweredIsNotRepeated, WorkInOrder
  <2>4. Response(mem, Request(h).id) # None
    BY <2>2, <2>3, <1>0 DEF ReceiptKept
  <2>5. Replay(h)
    BY <1>3, <2>1, <2>3, <2>4, StepAt DEF Step, At, NoStoredResponse
  <2> QED  BY <1>3, <2>5, StepBecomes DEF Becomes
<1> QED  BY <1>1, <1>2, <1>3

\* An OK is for a request that was applied.
LEMMA StepOK ==
    ASSUME DedupInv, NEW h \in Handlers, Step(h)
    PROVE  OKIfLogWasRead'
<1>0. /\ OKIfLogWasRead /\ EntriesInOrder /\ WorkInOrder /\ Earned(mem)
      /\ applied \subseteq applied' /\ unread' = unread
  BY NewsroomEffect DEF DedupInv, StoreInOrder
<1> SUFFICES ASSUME NEW g \in Handlers, handler'[g].pc = "reply", handler'[g].reply # "NACK",
                    handler'[g].request.id \notin unread
             PROVE  handler'[g].reply = handler'[g].request.content /\ handler'[g].request \in applied'
  BY <1>0 DEF OKIfLogWasRead, OKIsEarned, Request, At
<1>1. CASE g # h
  BY <1>0, <1>1, MoveEffect DEF OKIfLogWasRead, OKIsEarned, Request, At
<1>2. CASE g = h /\ Replay(h)
  <2>1. /\ handler'[h].reply = Response(mem, Request(h).id) /\ handler'[h].request = Request(h)
        /\ Response(mem, Request(h).id) # None /\ Busy(h) /\ handler[h].pc \in Accepted
    BY <1>2, StepBecomes, StepAt DEF Becomes, Replay, Busy, At, Accepted
  <2>2. Response(mem, Request(h).id) = Request(h).content
    BY <1>2, <2>1, <1>0 DEF EntriesInOrder, Pure
  <2>3. Request(h) \in applied
    BY <2>1, <2>2, <1>0, WorkTyped DEF Earned
  <2> QED  BY <1>0, <1>2, <2>1, <2>2, <2>3
<1>3. CASE g = h /\ RecordResponse(h)
  <2>1. handler'[h].reply = Request(h).content /\ handler'[h].request = Request(h)
    BY <1>3, StepBecomes DEF Becomes
  <2>2. Request(h) \in applied
    BY <1>0, <1>3, StepAt DEF WorkInOrder, At, Done
  <2> QED  BY <1>0, <1>3, <2>1, <2>2
<1>4. CASE g = h /\ ~Replay(h) /\ ~RecordResponse(h)
  <2>1. CheckStage(h) \in {"record", "lookup", "reply"}
    BY OutcomeType DEF CheckStage
  <2> QED  BY <1>4, <2>1, StepBecomes DEF Becomes, Step
<1> QED  BY <1>1, <1>2, <1>3, <1>4

-----------------------------------------------------------------------------
(* The beginning, and a process that starts again from the log.            *)

\* An empty store says nothing.
LEMMA EmptyStore ==
    /\ <<>> \in Seq(Entries) /\ Len(<<>>) = 0 /\ Distinct(<<>>)
    /\ \A id : ~Has(<<>>, id) /\ Hash(<<>>, id) = None /\ Response(<<>>, id) = None
  BY DEF Distinct, Has, Hash, Response

\* A goroutine at rest has nothing.
LEMMA IdleType ==
    /\ Idle \in States /\ Idle.pc = "idle" /\ Idle.late = "no"
    /\ Idle.pc \notin Working \cup {"reply"}
  BY DEF Idle, States, Stages, Hashes, Replies, Working, Accepted

\* The invariant holds initially.
LEMMA InitInv == Init => DedupInv
<1> SUFFICES ASSUME Init
             PROVE  DedupInv
  OBVIOUS
<1>1. /\ mem = <<>> /\ disk = <<>> /\ cut = <<>> /\ unread = {} /\ current \in Requests /\ current.id \in IDs
      /\ handler = [h \in Handlers |-> Idle] /\ sent = {current.id}
      /\ answered = "no" /\ applied = {} /\ live = NoHandler /\ appends = 0 /\ tail = "whole"
      /\ mode \in {"durable", "degraded"}
  BY DedupAssumption DEF Init, Requests
<1>2. handler \in [Handlers -> States] /\ \A h \in Handlers : handler[h] = Idle
  BY <1>1, IdleType
<1>3. TypeOK
  BY <1>1, <1>2, EmptyStore, DedupAssumption DEF TypeOK, States
<1>4. StoreInOrder(mem) /\ StoreInOrder(disk) /\ StoreInOrder(cut)
  BY <1>1, EmptyStore DEF StoreInOrder, Known, Earned
<1>5. WorkInOrder /\ EntriesInOrder
  BY <1>1, <1>2, IdleType DEF WorkInOrder, EntriesInOrder, Busy, At, Working, Done, Accepted
<1>6. CurrentInOrder
  BY <1>1, <1>2, IdleType, EmptyStore DEF CurrentInOrder, OfOneRequest, Ahead, OwnEntry, Busy, At
<1>7. Room
  BY <1>1, EmptyStore DEF Room, RoomFor, Near
<1>8. ReceiptKept /\ HashKept /\ AnsweredIsNotRepeated /\ OKIfLogWasRead
  BY <1>1, <1>2, IdleType
     DEF ReceiptKept, HashKept, AnsweredIsNotRepeated, OKIfLogWasRead, OKIsEarned, At
<1> QED  BY <1>3, <1>4, <1>5, <1>6, <1>7, <1>8 DEF DedupInv

\* A restart preserves the invariant: memory is what the log says, or a part
\* of the log, which is in order as well, and nobody is at work.
LEMMA RestartInv ==
    ASSUME DedupInv, Restart
    PROVE  DedupInv'
<1>1. /\ disk' = disk /\ cut' = cut /\ tail' = tail /\ current' = current
      /\ sent' = sent /\ applied' = applied
      /\ appends' = 0 /\ live' = NoHandler /\ handler' = [h \in Handlers |-> Idle]
  BY DEF Restart
<1>2. \/ /\ mem' = disk /\ answered' \in {"no", answered} /\ (answered' # "no" => answered = "disk")
         /\ unread' = unread
      \/ /\ mem' \in {<<>>, cut} /\ answered' = "no"
         /\ \/ unread' = unread /\ mode' = "degraded"
            \/ unread' = unread \cup sent
  BY DEF Restart
<1>3. mode' \in {"durable", "degraded"}
  BY DEF Restart
<1>4. handler' \in [Handlers -> States] /\ \A h \in Handlers : handler'[h] = Idle
  BY <1>1, IdleType
<1>5. /\ TypeOK /\ StoreInOrder(disk) /\ OfOneRequest(disk) /\ current.id \in sent
      /\ StoreInOrder(cut) /\ OfOneRequest(cut) /\ Near(cut, current.id)
      /\ RoomFor(handler, disk, current.id) /\ ReceiptKept /\ HashKept
  BY DEF DedupInv, CurrentInOrder, Room, WorkInOrder
<1>6. TypeOK'
  <2>1. mem' \in Seq(Entries) /\ Len(mem') <= Capacity
    <3>1. CASE mem' \in {disk, cut}
      BY <3>1, <1>5 DEF TypeOK
    <3>2. CASE mem' = <<>>
      <4>1. Len(mem') = 0 /\ mem' \in Seq(Entries)
        BY <3>2, EmptyStore
      <4> QED  BY <4>1, DedupAssumption
    <3> QED  BY <3>1, <3>2, <1>2
  <2>2. appends' \in 0 .. CompactAt
    BY <1>1, DedupAssumption
  <2>3. answered' \in {"no", "memory", "disk"} /\ unread' \subseteq IDs
    BY <1>2, <1>5 DEF TypeOK
  <2> QED  BY <2>1, <2>2, <2>3, <1>1, <1>3, <1>4, <1>5 DEF TypeOK, States
<1>7. StoreInOrder(disk)' /\ StoreInOrder(cut)'
  BY <1>1, <1>5 DEF StoreInOrder, Distinct, Known, Earned, Has, Response, Index
<1>8. StoreInOrder(mem)'
  <2>1. CASE mem' = disk
    BY <2>1, <1>1, <1>5 DEF StoreInOrder, Distinct, Known, Earned, Has, Response, Index
  <2>2. CASE mem' = cut
    BY <2>2, <1>1, <1>5 DEF StoreInOrder, Distinct, Known, Earned, Has, Response, Index
  <2>3. CASE mem' = <<>>
    <3>1. /\ Distinct(mem')
          /\ \A id \in IDs : ~Has(mem', id) /\ Response(mem', id) = None
      BY <2>3, EmptyStore
    <3> QED  BY <3>1 DEF StoreInOrder, Distinct, Known, Earned, Has, Response, Index
  <2> QED  BY <2>1, <2>2, <2>3, <1>2
<1>9. WorkInOrder' /\ EntriesInOrder'
  BY <1>1, <1>4, <1>5, IdleType
     DEF WorkInOrder, EntriesInOrder, Busy, At, Request, Working, Done, Accepted
<1>10. CurrentInOrder'
  <2>1. OfOneRequest(disk)' /\ OfOneRequest(cut)'
    <3>1. unread \subseteq unread'
      BY <1>2
    <3> QED  BY <1>1, <1>5, <3>1 DEF OfOneRequest, Has, Hash, Response, Index
  <2>2. OfOneRequest(mem)' /\ Ahead'
    <3>1. CASE mem' = disk /\ unread' = unread
      BY <3>1, <1>1, <1>5 DEF OfOneRequest, Ahead, Has, Hash, Response, Index
    <3>2. CASE mem' = cut /\ unread' = unread /\ mode' = "degraded"
      BY <3>2, <1>1, <1>5 DEF OfOneRequest, Ahead, Has, Hash, Response, Index
    <3>3. CASE mem' = <<>> /\ mode' = "degraded"
      <4>1. ~Has(mem', current'.id)
        BY <3>3, EmptyStore
      <4> QED  BY <3>3, <4>1 DEF OfOneRequest, Ahead, Has
    <3>4. CASE unread' = unread \cup sent
      BY <3>4, <1>1, <1>5 DEF OfOneRequest, Ahead
    <3> QED  BY <3>1, <3>2, <3>3, <3>4, <1>2
  <2>3. \A h \in Handlers : OwnEntry(h)'
    BY <1>4, IdleType DEF OwnEntry, Busy, At
  <2> QED  BY <2>1, <2>2, <2>3 DEF CurrentInOrder
<1>11. Room'
  <2>1. Shrinks(handler, handler', current.id)
    BY <1>4, IdleType DEF Shrinks
  <2>2. RoomFor(handler', disk, current.id)
    BY <2>1, <1>5, RoomKept DEF TypeOK, StoreInOrder
  <2>3. RoomFor(handler', cut, current.id)
    <3>1. Pending(handler', cut, current.id) = {}
      BY <1>4, IdleType DEF Pending
    <3>2. Cardinality(Pending(handler', cut, current.id)) = 0
      BY <3>1, FS_EmptySet
    <3>3. Has(cut, current.id) => After(cut, current.id) \in Int
      BY <1>5, IndexLemma DEF After, TypeOK, StoreInOrder
    <3> QED  BY <1>5, <3>2, <3>3 DEF RoomFor, Near
  <2>4. RoomFor(handler', mem', current.id)
    BY <1>2, <2>2, <2>3, EmptyStore DEF RoomFor
  <2> QED  BY <1>1, <1>5, <2>2, <2>4 DEF Room, RoomFor, Near, Has, After, Pending, Newer, Index
<1>12. ReceiptKept' /\ HashKept'
  <2>1. /\ answered' # "no" => /\ Response(mem', current.id) = current.content
                              /\ Hash(mem', current.id) = current.content
        /\ answered' = "disk" => /\ Response(disk', current.id) = current.content
                                /\ Hash(disk', current.id) = current.content
    BY <1>1, <1>2, <1>5 DEF ReceiptKept, HashKept
  <2> QED  BY <1>1, <2>1 DEF ReceiptKept, HashKept, Response, Hash, Has, Index
<1>13. AnsweredIsNotRepeated' /\ OKIfLogWasRead'
  BY <1>4, IdleType DEF AnsweredIsNotRepeated, OKIfLogWasRead, OKIsEarned, At, Request
<1> QED  BY <1>6, <1>7, <1>8, <1>9, <1>10, <1>11, <1>12, <1>13 DEF DedupInv

\* A step that changes nothing.
LEMMA StutterInv ==
    ASSUME DedupInv, UNCHANGED vars
    PROVE  DedupInv'
<1> USE DEF vars
<1>1. TypeOK' /\ ReceiptKept' /\ HashKept' /\ AnsweredIsNotRepeated' /\ OKIfLogWasRead'
  BY DEF DedupInv, TypeOK, ReceiptKept, HashKept, AnsweredIsNotRepeated, OKIfLogWasRead,
         OKIsEarned, At, Request, Response, Hash, Has, Index
<1>2. StoreInOrder(mem)' /\ StoreInOrder(disk)' /\ StoreInOrder(cut)'
  BY DEF DedupInv, StoreInOrder, Distinct, Known, Earned, Has, Response, Index
<1>3. WorkInOrder'
  BY DEF DedupInv, WorkInOrder, Busy, At, Request
<1>4. EntriesInOrder'
  BY DEF DedupInv, EntriesInOrder, Busy, At, Request, Unmixed, Pure, Hash, Response, Has, Index
<1>5. CurrentInOrder'
  BY DEF DedupInv, CurrentInOrder, OfOneRequest, Ahead, OwnEntry, Busy, At, Request,
         Hash, Response, Has, Index
<1>6. Room'
  BY DEF DedupInv, Room, RoomFor, Near, Has, After, Pending, Newer, Index
<1> QED  BY <1>1, <1>2, <1>3, <1>4, <1>5, <1>6 DEF DedupInv

\* DedupInv is inductive.
LEMMA NextInv == DedupInv /\ [Next]_vars => DedupInv'
<1> SUFFICES ASSUME DedupInv, [Next]_vars
             PROVE  DedupInv'
  OBVIOUS
<1>1. ASSUME NEW h \in Handlers, Step(h)
      PROVE  DedupInv'
  BY <1>1, StepType, StepStores, StepWork, StepEntries, StepCurrent, StepRoom, StepReceipt,
     StepLate, StepOK DEF DedupInv
<1>2. CASE Restart
  BY <1>2, RestartInv
<1>3. CASE UNCHANGED vars
  BY <1>3, StutterInv
<1> QED  BY <1>1, <1>2, <1>3 DEF Next

\* So it always holds.
LEMMA DedupInvariant == Spec => []DedupInv
  BY InitInv, NextInv, PTL DEF Spec

-----------------------------------------------------------------------------
(* The theorems.                                                           *)

\* Memory and log never hold more than Capacity entries, and every other
\* field of the store and of handleRoCreate has its type.
THEOREM DedupTypeOK == Spec => []TypeOK
<1>1. DedupInv => TypeOK
  BY DEF DedupInv
<1> QED  BY <1>1, DedupInvariant, PTL

\* The response to the request under way stays in memory whatever goroutines
\* that were given up still store and the bounded store pushes out, and once
\* it is in dedup.log it survives appends, compaction and restarts.
THEOREM ReceiptTheorem == Spec => []ReceiptKept
<1>1. DedupInv => ReceiptKept
  BY DEF DedupInv
<1> QED  BY <1>1, DedupInvariant, PTL

\* A retry that handleRoCreate receives after the response was stored is
\* answered from the store and not applied again.
THEOREM NotRepeatedTheorem == Spec => []AnsweredIsNotRepeated
<1>1. DedupInv => AnsweredIsNotRepeated
  BY DEF DedupInv
<1> QED  BY <1>1, DedupInvariant, PTL

\* Unless the log was once appended to unread while its messageID was in use,
\* handleRoCreate answers OK only to a request that was applied: no entry then
\* joins the hash of one request with the response of another.
THEOREM OKTheorem == Spec => []OKIfLogWasRead
<1>1. DedupInv => OKIfLogWasRead
  BY DEF DedupInv
<1> QED  BY <1>1, DedupInvariant, PTL
=============================================================================
