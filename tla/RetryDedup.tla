------------------------------ MODULE RetryDedup ------------------------------
(***************************************************************************)
(* How the MOS 4 server makes a retried roCreate idempotent when it runs   *)
(* without a committed source: MemoryDedupStore (dedup.go), FileDedupStore *)
(* (dedup_file.go) and WSServer.handleRoCreate (wsserver.go).              *)
(*                                                                         *)
(* The newsroom has one request under way.  It sends it again, on a new    *)
(* connection, until it gets an answer, and the goroutine of a connection  *)
(* it gave up keeps working on what it had read.  The store keeps, in      *)
(* order of insertion, at most Capacity entries in memory and appends a    *)
(* record to dedup.log for every new message and every response.  Its two  *)
(* halves have locks of their own, so what goes to memory and what goes to *)
(* the log are separate steps that other goroutines may come between.      *)
(*                                                                         *)
(* disk stands for the log by what replaying it gives: replay restores the *)
(* records one after the other, so appending a record restores it on top.  *)
(* A write that fails may leave a line without its end; the record that is *)
(* appended next, by the next process, is then unreadable as well.         *)
(* Reading the log may stop short: replay gives up without a word when it  *)
(* cannot open the file and at a read error, and the store goes on to      *)
(* append.  cut is what replaying one of the log's beginnings gives.       *)
(***************************************************************************)
EXTENDS Integers, Sequences, FiniteSets

CONSTANTS IDs,         \* messageIDs
          Contents,    \* operations, told apart by their hash
          First,       \* those sent under a new identifier
          None,        \* no hash, no response
          Handlers,    \* goroutines, one for each connection
          NoHandler,
          Capacity,    \* entries the store remembers (4096)
          CompactAt,   \* appends before compaction (4 * Capacity)
          DiskFails,   \* may writing files fail?
          ReadFails    \* may reading the log fail: "never", "often", or
                       \* (bound) "once" before the log is appended to?

ASSUME DedupAssumption ==
    /\ First \subseteq Contents
    /\ None \notin Contents \cup IDs
    /\ NoHandler \notin Handlers
    /\ Capacity \in Nat \ {0}
    /\ CompactAt \in Nat \ {0}
    /\ DiskFails \in BOOLEAN
    /\ ReadFails \in {"never", "once", "often"}

\* The store has room for every goroutine at work: each of those that were
\* given up can push out one entry.
ASSUME RoomAssumption == IsFiniteSet(Handlers) /\ Cardinality(Handlers) <= Capacity

VARIABLES
    mem,       \* entries of the memory store, oldest first
    disk,      \* entries that replaying dedup.log gives
    cut,       \* entries that replaying it up to some line gives
    tail,      \* "whole", or "torn": the last line of the log has no end
    appends,   \* appends since the last compaction
    mode,      \* "durable" or "degraded"
    handler,   \* what each goroutine is doing
    current,   \* the request the newsroom has under way
    live,      \* the goroutine of the connection it was last sent on
    sent,      \* identifiers the newsroom has used
    answered,  \* history: whether current's response was stored, and where
    applied,   \* history: requests that were applied
    unread     \* history: identifiers in use when a process that went on
               \* to append had not read the whole log

vars == <<mem, disk, cut, tail, appends, mode, handler, current, live, sent,
          answered, applied, unread>>
log == <<disk, cut, tail, appends, mode>>
store == <<mem, log>>
history == <<answered, applied, unread>>
newsroom == <<current, live, sent>>

Requests == [id : IDs, content : Contents]
Hashes == Contents \cup {None}
Entries == [id : IDs, hash : Hashes, response : Hashes]
Replies == Contents \cup {None, "NACK"}
Stages == {"idle", "check", "record", "lookup", "apply", "remember", "hash", "receipt", "reply"}
NoRequest == [id |-> None, content |-> None]
Idle == [pc |-> "idle", request |-> NoRequest, hash |-> None, reply |-> None, late |-> "no"]

TypeOK ==
    /\ mem \in Seq(Entries) /\ Len(mem) <= Capacity
    /\ disk \in Seq(Entries) /\ Len(disk) <= Capacity
    /\ cut \in Seq(Entries) /\ Len(cut) <= Capacity
    /\ tail \in {"whole", "torn"}
    /\ appends \in 0 .. CompactAt
    /\ mode \in {"durable", "degraded"}
    /\ handler \in [Handlers -> [pc : Stages, request : Requests \cup {NoRequest},
                                 hash : Hashes, reply : Replies,
                                 late : {"yes", "no"}]]
    /\ current \in Requests
    /\ live \in Handlers \cup {NoHandler}
    /\ sent \subseteq IDs
    /\ answered \in {"no", "memory", "disk"}
    /\ applied \subseteq Requests
    /\ unread \subseteq IDs

-----------------------------------------------------------------------------
(* The store.                                                              *)

Has(q, id) == \E i \in DOMAIN q : q[i].id = id
Index(q, id) == CHOOSE i \in DOMAIN q : q[i].id = id
Hash(q, id) == IF Has(q, id) THEN q[Index(q, id)].hash ELSE None
Response(q, id) == IF Has(q, id) THEN q[Index(q, id)].response ELSE None

\* Mutant of Insert: nothing is evicted.
InsertUnbounded(q, e) == Append(q, e)

\* insertLocked.  The oldest entry makes room.
Insert(q, e) == Append(IF Len(q) >= Capacity THEN Tail(q) ELSE q, e)

\* Mutant of Outcome: the content is not compared.
OutcomeByID(q, m) == IF Has(q, m.id) THEN "duplicate" ELSE "new"

\* MemoryDedupStore.Check, apart from the insertion.
Outcome(q, m) ==
    IF ~Has(q, m.id) THEN "new"
    ELSE IF Hash(q, m.id) = m.content THEN "duplicate" ELSE "conflict"

\* Mutant of Remembered: an entry that is there is left as it is.
RememberedNew(q, id, response) ==
    IF Has(q, id) THEN q
    ELSE Insert(q, [id |-> id, hash |-> None, response |-> response])

\* MemoryDedupStore.Remember.
Remembered(q, id, response) ==
    IF Has(q, id) THEN [q EXCEPT ![Index(q, id)].response = response]
    ELSE Insert(q, [id |-> id, hash |-> None, response |-> response])

Later(old, new) == IF new = None THEN old ELSE new

\* Mutant of Restore: the first record of a message wins.
RestoreFirst(q, r) == IF Has(q, r.id) THEN q ELSE Insert(q, r)

\* MemoryDedupStore.restore: what a later record says wins.
Restore(q, r) ==
    IF Has(q, r.id)
    THEN [q EXCEPT ![Index(q, r.id)] =
             [id |-> r.id, hash |-> Later(@.hash, r.hash),
              response |-> Later(@.response, r.response)]]
    ELSE Insert(q, r)

\* What the log holds once record r is appended to it.
Appended(r) == IF tail = "whole" THEN Restore(disk, r) ELSE disk

\* Where reading may stop in a log that holds nothing but the entries of q.
Beginnings(q) == {SubSeq(q, 1, n) : n \in 0 .. Len(q)}

\* The log gets one more line; reading may now get as far as it did before,
\* or up to that line.
Extended(r) ==
    /\ disk' = Appended(r)
    /\ cut' \in {cut} \cup IF ReadFails # "never" THEN {disk} ELSE {}

\* The log is replaced by the entries in memory.
Replaced ==
    /\ disk' = mem
    /\ IF ReadFails # "never" THEN cut' \in Beginnings(mem) ELSE UNCHANGED cut

\* compactLocked: the log is replaced by the entries in memory, unless the
\* new file cannot be written (it tries again later) or renamed, or the log
\* cannot be opened again.
Compact(r) ==
    \/ Replaced /\ appends' = 0 /\ mode' = "durable"
    \/ DiskFails /\ Extended(r) /\ appends' = 0 /\ mode' = "durable"
    \/ /\ DiskFails
       /\ Extended(r) \/ Replaced
       /\ appends' = CompactAt
       /\ mode' = "degraded"

\* append, when the record is written and flushed.
AppendRecord(r) ==
    /\ mode = "durable"
    /\ tail' = "whole"
    /\ IF appends + 1 >= CompactAt
       THEN Compact(r)
       ELSE Extended(r) /\ appends' = appends + 1 /\ UNCHANGED mode

\* append, when the store is degraded or the write fails.
AppendFails ==
    /\ \/ mode = "degraded" /\ UNCHANGED tail
       \/ mode = "durable" /\ DiskFails /\ tail' \in {tail, "torn"}
    /\ mode' = "degraded"
    /\ UNCHANGED <<disk, cut, appends>>

-----------------------------------------------------------------------------
(* handleRoCreate.                                                         *)

Init ==
    /\ mem = <<>> /\ disk = <<>> /\ cut = <<>>
    /\ tail = "whole" /\ appends = 0
    /\ mode \in {"durable"} \cup IF DiskFails THEN {"degraded"} ELSE {}
    /\ current \in [id : IDs, content : First]
    /\ handler = [h \in Handlers |-> Idle]
    /\ live = NoHandler
    /\ sent = {current.id}
    /\ answered = "no"
    /\ applied = {}
    /\ unread = {}

At(h, pc) == handler[h].pc = pc
Request(h) == handler[h].request
Goto(h, pc) == handler' = [handler EXCEPT ![h].pc = pc]
ReplyWith(h, reply) == handler' = [handler EXCEPT ![h].pc = "reply", ![h].reply = reply]

\* The newsroom sends its request, or sends it again on a new connection,
\* which closes the old one but does not stop its goroutine.
Send(h) ==
    /\ At(h, "idle")
    /\ handler' = [handler EXCEPT ![h] = [Idle EXCEPT !.pc = "check", !.request = current]]
    /\ live' = h
    /\ UNCHANGED <<store, current, sent, history>>

\* Check in memory.  late records that the response was stored before.
Check(h) ==
    /\ At(h, "check")
    /\ LET m == Request(h)
           outcome == Outcome(mem, m)
           stage == CASE outcome = "new" -> "record"
                      [] outcome = "duplicate" -> "lookup"
                      [] outcome = "conflict" -> "reply"
       IN  /\ mem' = IF outcome = "new"
                     THEN Insert(mem, [id |-> m.id, hash |-> m.content, response |-> None])
                     ELSE mem
           /\ handler' = [handler EXCEPT
                 ![h].pc = stage,
                 ![h].reply = IF outcome = "conflict" THEN "NACK" ELSE None,
                 ![h].late = IF m = current /\ answered # "no" THEN "yes" ELSE "no"]
    /\ UNCHANGED <<log, newsroom, history>>

\* Check's record of a new message goes to the log.
RecordSeen(h) ==
    /\ At(h, "record")
    /\ \/ AppendRecord([id |-> Request(h).id, hash |-> Request(h).content, response |-> None])
       \/ AppendFails
    /\ Goto(h, "apply")
    /\ UNCHANGED <<mem, newsroom, history>>

\* A duplicate is answered with the stored response; without one it is
\* processed after all.
Replay(h) ==
    /\ At(h, "lookup")
    /\ Response(mem, Request(h).id) # None
    /\ ReplyWith(h, Response(mem, Request(h).id))
    /\ UNCHANGED <<store, newsroom, history>>

NoStoredResponse(h) ==
    /\ At(h, "lookup")
    /\ Response(mem, Request(h).id) = None
    /\ Goto(h, "apply")
    /\ UNCHANGED <<store, newsroom, history>>

\* ProcessRunningOrderInfo succeeds, or it fails and the newsroom is told.
Apply(h) ==
    /\ At(h, "apply")
    /\ Goto(h, "remember")
    /\ applied' = applied \cup {Request(h)}
    /\ UNCHANGED <<store, newsroom, answered, unread>>

ApplyFails(h) ==
    /\ At(h, "apply")
    /\ ReplyWith(h, "NACK")
    /\ UNCHANGED <<store, newsroom, history>>

\* Remember: the response goes to memory, the hash is looked up, and both go
\* to the log.
RememberInMemory(h) ==
    /\ At(h, "remember")
    /\ mem' = Remembered(mem, Request(h).id, Request(h).content)
    /\ Goto(h, "hash")
    /\ UNCHANGED <<log, newsroom, history>>

LookUpHash(h) ==
    /\ At(h, "hash")
    /\ handler' = [handler EXCEPT ![h].pc = "receipt", ![h].hash = Hash(mem, Request(h).id)]
    /\ UNCHANGED <<store, newsroom, history>>

RecordResponse(h) ==
    /\ At(h, "receipt")
    /\ LET m == Request(h)
           r == [id |-> m.id, hash |-> handler[h].hash, response |-> m.content]
       IN  \/ /\ AppendRecord(r)
              /\ answered' = IF m # current THEN answered
                             ELSE IF tail = "whole" \/ answered = "disk" THEN "disk"
                             ELSE "memory"
           \/ /\ AppendFails
              /\ answered' = IF m = current /\ answered = "no" THEN "memory" ELSE answered
    /\ ReplyWith(h, Request(h).content)
    /\ UNCHANGED <<mem, newsroom, applied, unread>>

\* What the newsroom may send next: a message with a new identifier or, by
\* mistake, another one with the identifier it has just used, unless a
\* goroutine is still working on that.
NextRequests(busy) ==
    {m \in Requests :
        \/ m.id \notin sent /\ m.content \in First
        \/ /\ m.id = current.id /\ m # current /\ m.content \notin First
           /\ \A h \in busy : m.id # Request(h).id}

\* The answer arrives, and the newsroom goes on to its next message.  (It has
\* as many as there are IDs; nothing follows the answer to the last.)
Answer(h) ==
    /\ At(h, "reply")
    /\ h = live
    /\ handler' = [handler EXCEPT ![h] = Idle]
    /\ live' = NoHandler
    /\ current' \in NextRequests({g \in Handlers \ {h} : ~At(g, "idle")})
    /\ sent' = sent \cup {current'.id}
    /\ answered' = "no"
    /\ UNCHANGED <<store, applied, unread>>

\* The connection is gone, and the answer with it.
AnswerLost(h) ==
    /\ At(h, "reply")
    /\ handler' = [handler EXCEPT ![h] = Idle]
    /\ live' = IF live = h THEN NoHandler ELSE live
    /\ UNCHANGED <<store, current, sent, history>>

\* The process ends and starts again from the log.  It is degraded if the
\* log cannot be opened for appending, and knows nothing of what it did if
\* the directory cannot be used at all.  If the log can be opened for
\* appending but not for reading, or reading fails on the way, it goes on
\* without what it has not read.
Restart ==
    /\ \/ /\ mem' = disk
          /\ mode' \in {"durable"} \cup IF DiskFails THEN {"degraded"} ELSE {}
          /\ answered' = IF answered = "disk" THEN "disk" ELSE "no"
          /\ UNCHANGED unread
       \/ /\ DiskFails /\ mem' = <<>> /\ mode' = "degraded" /\ answered' = "no"
          /\ UNCHANGED unread
       \/ /\ ReadFails = "often" \/ (ReadFails = "once" /\ unread = {})
          /\ mem' \in {<<>>, cut}
          /\ mode' \in {"durable"} \cup IF DiskFails THEN {"degraded"} ELSE {}
          /\ answered' = "no"
          /\ unread' = IF mode' = "durable" THEN unread \cup sent ELSE unread
    /\ appends' = 0
    /\ handler' = [h \in Handlers |-> Idle]
    /\ live' = NoHandler
    /\ UNCHANGED <<disk, cut, tail, current, sent, applied>>

Step(h) ==
    \/ Send(h) \/ Check(h) \/ RecordSeen(h) \/ Replay(h) \/ NoStoredResponse(h)
    \/ Apply(h) \/ ApplyFails(h) \/ RememberInMemory(h) \/ LookUpHash(h)
    \/ RecordResponse(h) \/ Answer(h) \/ AnswerLost(h)

Next == (\E h \in Handlers : Step(h)) \/ Restart

Spec == Init /\ [][Next]_vars

-----------------------------------------------------------------------------
(* Properties.                                                             *)

\* The response to the request under way, once Remember has returned, stays
\* in memory whatever gave-up goroutines still store, and is in the log for
\* the next process to find.
ReceiptKept ==
    /\ answered # "no" => Response(mem, current.id) = current.content
    /\ answered = "disk" => Response(disk, current.id) = current.content

\* A retry that comes in after the response was stored is answered from the
\* store: the request is not applied again, over any number of restarts.
AnsweredIsNotRepeated ==
    \A h \in Handlers :
        handler[h].late = "yes" /\ Request(h) = current =>
            handler[h].pc \in {"lookup", "reply"}

\* The reply of h, if it is an OK, answers h's very operation, and that has
\* been applied.
OKIsEarned(h) ==
    At(h, "reply") /\ handler[h].reply # "NACK" =>
        handler[h].reply = Request(h).content /\ Request(h) \in applied

\* Every OK to a message whose identifier was first used after the last log
\* that was appended to unread is earned: a receipt without a response, left
\* by an attempt that failed or died, never passes for one, whatever else was
\* sent under the identifier (Check, Remember, replay, handleRoCreate).
OKIfLogWasRead ==
    \A h \in Handlers : Request(h).id \notin unread => OKIsEarned(h)
=============================================================================
