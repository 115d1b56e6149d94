---------------------------- MODULE RunningOrders ----------------------------
(***************************************************************************)
(* The running-order service (internal/service: mos.go, element_action.go, *)
(* story.go, control.go, onair.go, identity.go) over the durable store, as  *)
(* the handlers of internal/server/dispatch_ro.go and client_*.go call it.  *)
(*                                                                         *)
(* Several connections may each have a message in hand.  No lock spans a    *)
(* message: the service reads records, changes its copies and writes them   *)
(* back one repository call at a time.  A worker's message is therefore a   *)
(* list of tasks.  A read task looks at the repositories and is replaced by *)
(* the tasks that follow from what it saw; a write task is one repository   *)
(* call and the save after it.  Reads of one message with no write between  *)
(* them are one read task.                                                  *)
(*                                                                         *)
(* The body of a story or item is its slug, which every handler that stores *)
(* one sets, and a message always carries one here.  Number, duration,      *)
(* media, abstract and external metadata are left out, and with them which  *)
(* handler carries which of them over when it updates a held record.  So    *)
(* are the status fields: a status report of an item or of a running order  *)
(* reads a record and writes the same record back.                          *)
(***************************************************************************)
EXTENDS DurableStore

CONSTANTS Messages,   \* what the peers may send
          MaxOps,     \* how many messages are sent one after the other
          MaxMixed,   \* how many are sent if some overlap or are cut off
          Held,       \* what the store holds at first
          NoMessage   \* the message of a worker that has none

VARIABLES job,        \* per worker, the message in hand and the tasks left
          sent,       \* messages received so far
          busy,       \* history: the messages begun since all were idle
          since,      \* history: what roReq reported when that began
          health,     \* history: how much of the promise each running order keeps
          answer      \* history: how the last message handled alone ended

serviceVars == <<job, sent, busy, since, health, answer>>
vars == <<storeVars, serviceVars>>

-----------------------------------------------------------------------------
(* Identity.                                                                *)

storyPersistenceID(r, s) == <<r, s>>
itemPersistenceID(story, i) == Append(story, i)

NoKey == << >>

\* The composite key, or else the first record of the list whose wire
\* identifier matches.
Resolved(composite, table, list, id) ==
    IF composite \in DOMAIN table THEN composite
    ELSE LET first == SelectInSeq(list, LAMBDA k : Last(k) = id)
         IN  IF first = 0 THEN NoKey ELSE list[first]

resolveStory(m, r, s) ==
    Resolved(storyPersistenceID(r, s), m.story, ListByRunningOrder(m, r), s)

resolveItem(m, story, i) ==
    Resolved(itemPersistenceID(story, i), m.item, ListByStory(m, story), i)

resolveItemKeys(m, story, ids) ==
    {resolveItem(m, story, i) : i \in ToSet(ids)}

-----------------------------------------------------------------------------
(* Tasks.                                                                   *)

Create(repo, key, rec) ==
    <<[do |-> "create", repo |-> repo, key |-> key, rec |-> rec, refused |-> "NACK"]>>
Update(repo, key, rec) ==
    <<[do |-> "update", repo |-> repo, key |-> key, rec |-> rec, refused |-> "NACK"]>>
Delete(repo, keys) == <<[do |-> "delete", repo |-> repo, keys |-> keys]>>

\* The caller logs the error of these calls, or drops it.
Leniently(tasks) == [n \in 1 .. Len(tasks) |-> [tasks[n] EXCEPT !.refused = "ignored"]]

Refuse(how) == <<[do |-> "refuse", how |-> how]>>

Each(list, Tasks(_)) == FlattenSeq([n \in 1 .. Len(list) |-> Tasks(n)])

StoryRecord(r, x, order) == [ro |-> r, order |-> order, body |-> x.body]
ItemRecord(story, x, order) == [story |-> story, order |-> order, body |-> x.body]

-----------------------------------------------------------------------------
(* Whole running orders: roCreate, roList, roReplace, roDelete.             *)

\* Get, then Create or Update: the read of the running order.
PutRunningOrder(m, t) ==
    IF t.ro \in DOMAIN m.ro
       THEN Update("ro", t.ro, [m.ro[t.ro] EXCEPT !.meta = t.meta])
       ELSE Create("ro", t.ro, [meta |-> t.meta, air |-> "none", onAir |-> NoKey])

\* Get, then Create or Update, of one story or item.  An update sets the
\* parent, the Order and the slug; what it does with the fields that are left
\* out differs between stories and items.
Put(m, t) ==
    IF t.key \in DOMAIN m[t.repo]
       THEN Update(t.repo, t.key, t.rec)
       ELSE Create(t.repo, t.key, t.rec)

storeItems(story, items) ==
    Each(items, LAMBDA n :
        <<[do |-> "put", repo |-> "item", key |-> itemPersistenceID(story, items[n].id),
           rec |-> ItemRecord(story, items[n], n)]>>)

ProcessRunningOrderInfo(op) ==
    <<[do |-> "putRunningOrder", ro |-> op.ro, meta |-> op.meta]>>
    \o Each(op.list, LAMBDA n :
          LET key == storyPersistenceID(op.ro, op.list[n].id)
          IN  <<[do |-> "put", repo |-> "story", key |-> key,
                 rec |-> StoryRecord(op.ro, op.list[n], n)]>>
              \o storeItems(key, op.list[n].items))

\* The stories of a running order are listed once, the items of each when
\* its turn comes.
ClearRunningOrder(m, t) ==
    LET stories == ListByRunningOrder(m, t.ro)
    IN  Each(stories, LAMBDA n : <<[do |-> "dropStory", key |-> stories[n]]>>)

DropStory(m, t) ==
    LET items == ListByStory(m, t.key)
    IN  Each(items, LAMBDA n : Delete("item", {items[n]})) \o Delete("story", {t.key})

\* An answer to our request is applied the way a roCreate is.
ApplyROList(op) == ProcessRunningOrderInfo(op)

ReplaceRunningOrder(op) ==
    <<[do |-> "clear", ro |-> op.ro],
      [do |-> "putRunningOrder", ro |-> op.ro, meta |-> op.meta]>>
    \o Each(op.list, LAMBDA n :
          LET key == storyPersistenceID(op.ro, op.list[n].id)
          IN  Create("story", key, StoryRecord(op.ro, op.list[n], n))
              \o storeItems(key, op.list[n].items))

DeleteRunningOrder(op) ==
    <<[do |-> "clear", ro |-> op.ro]>> \o Delete("ro", {op.ro})

-----------------------------------------------------------------------------
(* One field of a running order, and status reports.                        *)

ReplaceMetadata(m, op) ==
    IF op.ro \notin DOMAIN m.ro THEN Refuse("NACK")
    ELSE Update("ro", op.ro, [m.ro[op.ro] EXCEPT !.meta = op.meta])

SetReadyToAir(m, op) ==
    IF op.ro \notin DOMAIN m.ro THEN Refuse("NACK")
    ELSE Update("ro", op.ro, [m.ro[op.ro] EXCEPT !.air = op.air])

applyROStatus(m, op) ==
    IF op.ro \notin DOMAIN m.ro THEN Refuse("NACK")
    ELSE Update("ro", op.ro, m.ro[op.ro])

applyStoryStatus(m, op) ==
    LET key == resolveStory(m, op.ro, op.story)
    IN  IF key = NoKey THEN Refuse("RESYNC")
        ELSE Update("story", key, m.story[key])
             \o <<[do |-> "onAir", ro |-> op.ro, key |-> key, status |-> op.kind]>>

\* A STOP clears the pointer only if it names the story that is on air.
OnAirAfter(onAir, key, status) ==
    CASE status = "PLAY" -> key
      [] status = "STOP" /\ onAir = key -> NoKey
      [] OTHER -> onAir

MoveOnAirPointer(m, t) ==
    IF t.ro \notin DOMAIN m.ro THEN Refuse("NACK")
    ELSE Update("ro", t.ro,
                [m.ro[t.ro] EXCEPT !.onAir = OnAirAfter(m.ro[t.ro].onAir, t.key, t.status)])

applyItemStatus(m, op) ==
    LET story == resolveStory(m, op.ro, op.story)
        item  == resolveItem(m, story, op.item)
    IN  IF story = NoKey THEN Refuse("RESYNC")
        ELSE IF item = NoKey THEN Refuse("NACK")
        ELSE Update("item", item, m.item[item])

\* The report is about a story (what it plays moves the on-air pointer), an
\* item, or by default the running order.
ProcessElementStatus(m, op) ==
    CASE op.kind \in {"PLAY", "STOP"} -> applyStoryStatus(m, op)
      [] op.kind = "ITEM status" -> applyItemStatus(m, op)
      [] OTHER -> applyROStatus(m, op)

\* roCtrl and roItemCue look for the item under its wire identifier.
ProcessROCtrl(m, op) ==
    IF <<op.item>> \notin DOMAIN m.item THEN Refuse("NACK")
    ELSE Update("item", <<op.item>>, m.item[<<op.item>>])

ProcessROItemCue(m, op) ==
    IF <<op.item>> \notin DOMAIN m.item THEN << >>
    ELSE Leniently(Update("item", <<op.item>>, m.item[<<op.item>>]))

-----------------------------------------------------------------------------
(* One story: roStorySend, and the story actions of the socket transport.   *)

\* The story as read is written after its items.
ProcessROStorySend(m, op) ==
    LET key   == storyPersistenceID(op.ro, op.send.id)
        order == IF key \in DOMAIN m.story THEN m.story[key].order ELSE 0
        rec   == StoryRecord(op.ro, op.send, order)
    IN  IF op.ro \notin DOMAIN m.ro THEN Refuse("RESYNC")
        ELSE storeItems(key, op.send.items)
             \o IF key \in DOMAIN m.story THEN Update("story", key, rec)
                ELSE Create("story", key, rec)

\* These use the wire identifier as the key.
createNewStory(m, op) ==
    LET key == <<op.send.id>>
    IN  IF op.ro \notin DOMAIN m.ro THEN Refuse("NACK")
        ELSE storeItems(key, op.send.items)
             \o Create("story", key,
                       StoryRecord(op.ro, op.send, Len(ListByRunningOrder(m, op.ro)) + 1))

updateStory(m, op) ==
    LET key == <<op.send.id>>
    IN  IF key \notin DOMAIN m.story THEN Refuse("NACK")
        ELSE storeItems(key, op.send.items)
             \o Update("story", key, [m.story[key] EXCEPT !.body = op.send.body])

replaceStory(op) ==
    Delete("story", {<<op.send.id>>}) \o <<[do |-> "NEW", op |-> op]>>

ReplaceItemInStory(m, op) ==
    LET rec == [story |-> <<op.story>>, order |-> 0, body |-> op.list[1].body]
        key == <<op.list[1].id>>
    IN  IF <<op.story>> \notin DOMAIN m.story THEN Refuse("NACK")
        ELSE IF key \notin DOMAIN m.item THEN Create("item", key, rec)
        ELSE Update("item", key, [m.item[key] EXCEPT !.body = op.list[1].body])

-----------------------------------------------------------------------------
(* roElementAction.                                                         *)

\* Each record of the list with another Order.
Reordered(m, repo, list, Order(_)) ==
    Each(list, LAMBDA n :
        Update(repo, list[n], [m[repo][list[n]] EXCEPT !.order = Order(n)]))

\* The records of a list, which is sorted, that are among keys.
Filtered(m, repo, list, keys) == Sorted(m[repo], ToSet(list) \cap keys)

\* Records after a position make room for more.
Shifted(m, repo, list, position, by) ==
    LET later == Filtered(m, repo, list, {k \in DOMAIN m[repo] : m[repo][k].order > position})
    IN  Reordered(m, repo, later, LAMBDA n : m[repo][later[n]].order + by)

ListOf(m, repo, owner) ==
    IF repo = "story" THEN ListByRunningOrder(m, owner) ELSE ListByStory(m, owner)

\* The records left after a deletion are numbered again.
Renumber(m, t) ==
    Leniently(Reordered(m, t.repo, ListOf(m, t.repo, t.owner), LAMBDA n : n))

\* A replacement by several shifts the rest, which is listed after the
\* deletion.
MakeRoom(repo, owner, position, by) ==
    IF by <= 0 THEN << >>
    ELSE <<[do |-> "shift", repo |-> repo, owner |-> owner, position |-> position, by |-> by]>>

Shift(m, t) == Shifted(m, t.repo, ListOf(m, t.repo, t.owner), t.position, t.by)

\* The items of an inserted or replacing story.
insertedItems(story, items) ==
    Leniently(Each(items, LAMBDA n :
        Create("item", itemPersistenceID(story, items[n].id), ItemRecord(story, items[n], n))))

InsertStories(m, op) ==
    LET target   == resolveStory(m, op.ro, op.target)
        position == IF op.target = 0 THEN 0 ELSE m.story[target].order
    IN  IF op.target # 0 /\ target = NoKey THEN Refuse("RESYNC")
        ELSE Shifted(m, "story", ListByRunningOrder(m, op.ro), position, Len(op.list))
             \o Each(op.list, LAMBDA n :
                  LET key == storyPersistenceID(op.ro, op.list[n].id)
                  IN  Create("story", key, StoryRecord(op.ro, op.list[n], position + n))
                      \o insertedItems(key, op.list[n].items))

\* Items inserted or replaced this way are keyed by their wire identifier.
bareItems(story, items, position) ==
    Each(items, LAMBDA n :
        Create("item", <<items[n].id>>, ItemRecord(story, items[n], position + n)))

InsertItems(m, op) ==
    LET story    == resolveStory(m, op.ro, op.story)
        target   == resolveItem(m, story, op.target)
        position == IF op.target = 0 THEN 0 ELSE m.item[target].order
    IN  IF story = NoKey THEN Refuse("RESYNC")
        ELSE IF op.target # 0 /\ target = NoKey THEN Refuse("NACK")
        ELSE Shifted(m, "item", ListByStory(m, story), position, Len(op.list))
             \o bareItems(story, op.list, position)

\* The story is deleted by its wire identifier.
ReplaceStories(m, op) ==
    LET target == resolveStory(m, op.ro, op.target)
        items  == ListByStory(m, target)
        order  == m.story[target].order
    IN  IF target = NoKey THEN Refuse("RESYNC")
        ELSE Each(items, LAMBDA n : Delete("item", {items[n]}))
             \o Delete("story", {<<op.target>>})
             \o MakeRoom("story", op.ro, order, Len(op.list) - 1)
             \o Each(op.list, LAMBDA n :
                  LET key == storyPersistenceID(op.ro, op.list[n].id)
                  IN  <<[do |-> "put", repo |-> "story", key |-> key,
                         rec |-> StoryRecord(op.ro, op.list[n], order + n - 1)]>>
                      \o insertedItems(key, op.list[n].items))

\* The item is deleted by its wire identifier.
ReplaceItems(m, op) ==
    LET story  == resolveStory(m, op.ro, op.story)
        target == resolveItem(m, story, op.target)
        order  == m.item[target].order
    IN  IF story = NoKey THEN Refuse("RESYNC")
        ELSE IF target = NoKey THEN Refuse("NACK")
        ELSE Delete("item", {<<op.target>>})
             \o MakeRoom("item", story, order, Len(op.list) - 1)
             \o bareItems(story, op.list, order - 1)

\* The records of a list that stay when those among keys move.
Staying(m, repo, list, keys) == Filtered(m, repo, list, DOMAIN m[repo] \ keys)

\* The moved records go before position n of those that stay.
MovedBefore(m, repo, list, keys, n) ==
    LET rest == Staying(m, repo, list, keys)
        new  == SubSeq(rest, 1, n - 1) \o Filtered(m, repo, list, keys)
                    \o SubSeq(rest, n, Len(rest))
    IN  Reordered(m, repo, new, LAMBDA i : i)

\* Mutant: the sources go after the target.
StoryPositionAfter(rest, target) ==
    IF Contains(rest, target) THEN SelectInSeq(rest, LAMBDA k : k = target) + 1 ELSE Len(rest) + 1

\* Before the target, or at the end without one or if it moves itself.
StoryPosition(rest, target) ==
    IF Contains(rest, target) THEN SelectInSeq(rest, LAMBDA k : k = target) ELSE Len(rest) + 1

MoveStories(m, op) ==
    LET all    == ListByRunningOrder(m, op.ro)
        keys   == {resolveStory(m, op.ro, s) : s \in ToSet(op.ids)}
        target == resolveStory(m, op.ro, op.target)
        rest   == Staying(m, "story", all, keys)
    IN  IF (op.target # 0 /\ target = NoKey) \/ NoKey \in keys THEN Refuse("RESYNC")
        ELSE MovedBefore(m, "story", all, keys,
                         IF op.target = 0 THEN Len(rest) + 1 ELSE StoryPosition(rest, target))

\* The target and the list are looked up with the storyID of the wire as the
\* key, only the moved items with the key of the story.
MoveItems(m, op) ==
    LET wire   == <<op.story>>
        story  == resolveStory(m, op.ro, op.story)
        target == resolveItem(m, wire, op.target)
        all    == ListByStory(m, wire)
        keys   == resolveItemKeys(m, story, op.ids)
        order  == IF op.target = 0 THEN 0 ELSE m.item[target].order
        rest   == Staying(m, "item", all, keys)
    IN  IF op.target # 0 /\ target = NoKey THEN Refuse("NACK")
        ELSE IF story = NoKey \/ NoKey \in keys THEN Refuse("RESYNC")
        ELSE MovedBefore(m, "item", all, keys,
                         Cardinality({k \in ToSet(rest) : m.item[k].order <= order}) + 1)

\* The items of the stories are found by key; the stories are deleted by the
\* identifiers of the wire.
DeleteStories(m, op) ==
    LET held  == {resolveStory(m, op.ro, s) : s \in ToSet(op.ids)} \ {NoKey}
        items == {k \in DOMAIN m.item : m.item[k].story \in held}
    IN  (IF items = {} THEN << >> ELSE Delete("item", items))
        \o Delete("story", {<<s>> : s \in ToSet(op.ids)})
        \o <<[do |-> "renumber", repo |-> "story", owner |-> op.ro]>>

DeleteItems(m, op) ==
    LET story == resolveStory(m, op.ro, op.story)
    IN  IF story = NoKey THEN Refuse("RESYNC")
        ELSE Delete("item", resolveItemKeys(m, story, op.ids) \ {NoKey})
             \o <<[do |-> "renumber", repo |-> "item", owner |-> story]>>

Swapped(m, repo, k, l) ==
    Update(repo, k, [m[repo][k] EXCEPT !.order = m[repo][l].order])
    \o Update(repo, l, [m[repo][l] EXCEPT !.order = m[repo][k].order])

SwapStories(m, op) ==
    LET k == resolveStory(m, op.ro, op.ids[1])
        l == resolveStory(m, op.ro, op.ids[2])
    IN  IF NoKey \in {k, l} THEN Refuse("RESYNC") ELSE Swapped(m, "story", k, l)

SwapItems(m, op) ==
    LET story == resolveStory(m, op.ro, op.story)
        k     == resolveItem(m, story, op.ids[1])
        l     == resolveItem(m, story, op.ids[2])
    IN  IF story = NoKey THEN Refuse("RESYNC")
        ELSE IF NoKey \in {k, l} THEN Refuse("NACK")
        ELSE Swapped(m, "item", k, l)

-----------------------------------------------------------------------------
(* Messages.                                                                *)

\* The tasks a message starts with.
Program(op) ==
    CASE op.kind = "roCreate" -> ProcessRunningOrderInfo(op)
      [] op.kind = "roList" -> ApplyROList(op)
      [] op.kind = "roReplace" -> ReplaceRunningOrder(op)
      [] op.kind = "roDelete" -> DeleteRunningOrder(op)
      [] op.kind = "REPLACE" -> replaceStory(op)
      [] OTHER -> <<[do |-> op.kind, op |-> op]>>

\* What follows from a read.
Seen(m, t) ==
    CASE t.do = "putRunningOrder" -> PutRunningOrder(m, t)
      [] t.do = "put" -> Put(m, t)
      [] t.do = "clear" -> ClearRunningOrder(m, t)
      [] t.do = "dropStory" -> DropStory(m, t)
      [] t.do = "onAir" -> MoveOnAirPointer(m, t)
      [] t.do = "shift" -> Shift(m, t)
      [] t.do = "renumber" -> Renumber(m, t)
      [] t.do = "roMetadataReplace" -> ReplaceMetadata(m, t.op)
      [] t.do = "roReadyToAir" -> SetReadyToAir(m, t.op)
      [] t.do \in {"PLAY", "STOP", "ITEM status", "RO status"} -> ProcessElementStatus(m, t.op)
      [] t.do = "roCtrl" -> ProcessROCtrl(m, t.op)
      [] t.do = "roItemCue" -> ProcessROItemCue(m, t.op)
      [] t.do = "roStorySend" -> ProcessROStorySend(m, t.op)
      [] t.do = "NEW" -> createNewStory(m, t.op)
      [] t.do = "UPDATE" -> updateStory(m, t.op)
      [] t.do = "mosItemReplace" -> ReplaceItemInStory(m, t.op)
      [] t.do = "INSERT stories" -> InsertStories(m, t.op)
      [] t.do = "INSERT items" -> InsertItems(m, t.op)
      [] t.do = "REPLACE stories" -> ReplaceStories(m, t.op)
      [] t.do = "REPLACE items" -> ReplaceItems(m, t.op)
      [] t.do = "MOVE stories" -> MoveStories(m, t.op)
      [] t.do = "MOVE items" -> MoveItems(m, t.op)
      [] t.do = "DELETE stories" -> DeleteStories(m, t.op)
      [] t.do = "DELETE items" -> DeleteItems(m, t.op)
      [] t.do = "SWAP stories" -> SwapStories(m, t.op)
      [] t.do = "SWAP items" -> SwapItems(m, t.op)

Calls == {"create", "update", "delete"}

-----------------------------------------------------------------------------
(* What a newsroom can send and what the store can hold.  The identifiers   *)
(* of stories and items are numbers, and 0 stands for no target.            *)

IsList(list) == list \in Seq(ToSet(list))
Elements(list) == IsList(list) /\ \A n \in 1 .. Len(list) : list[n].id \in Nat
Rosters(list) == Elements(list) /\ \A n \in 1 .. Len(list) : Elements(list[n].items)
IDList(ids) == IsList(ids) /\ \A n \in 1 .. Len(ids) : ids[n] \in Nat

Whole == {"roCreate", "roList", "roReplace", "roDelete"}
Fields == {"roMetadataReplace", "roReadyToAir", "PLAY", "STOP", "RO status", "ITEM status"}
Sends == {"roStorySend", "NEW", "UPDATE", "REPLACE"}
StoryEdits == {"INSERT stories", "REPLACE stories", "MOVE stories", "DELETE stories", "SWAP stories"}
ItemEdits == {"INSERT items", "REPLACE items", "MOVE items", "DELETE items", "SWAP items"}
Wire == {"roCtrl", "roItemCue", "mosItemReplace"}
Kinds == Whole \cup Fields \cup Sends \cup StoryEdits \cup ItemEdits \cup Wire

WellFormed(op) ==
    LET Has(kinds, fact) == op.kind \in kinds => fact
    IN  /\ op.kind \in Kinds
        /\ op.ro \in ROs
        /\ Has(Whole \ {"roDelete"}, Rosters(op.list))
        /\ Has({"PLAY", "STOP", "ITEM status", "mosItemReplace"} \cup ItemEdits, op.story \in Nat)
        /\ Has({"ITEM status", "roCtrl", "roItemCue"}, op.item \in Nat)
        /\ Has(Sends, op.send.id \in Nat /\ Elements(op.send.items))
        /\ Has({"mosItemReplace"}, Elements(op.list) /\ op.list # << >>)
        /\ Has({"INSERT stories", "REPLACE stories"}, Rosters(op.list))
        /\ Has({"INSERT items", "REPLACE items"}, Elements(op.list))
        /\ Has({"INSERT stories", "REPLACE stories", "MOVE stories", "INSERT items",
               "REPLACE items", "MOVE items"}, op.target \in Nat)
        /\ Has({"MOVE stories", "DELETE stories", "SWAP stories", "MOVE items",
               "DELETE items", "SWAP items"}, IDList(op.ids))
        /\ Has({"SWAP stories", "SWAP items"}, Len(op.ids) = 2)

StoryKeyOf(key, r) == \E s \in {Last(key)} : s \in Nat /\ key \in {<<r, s>>, <<s>>}
StoryKey(key) == \E r \in ROs : StoryKeyOf(key, r)
ItemKeyOf(key, story) == \E i \in {Last(key)} : i \in Nat /\ key \in {Append(story, i), <<i>>}

\* Record rec may be stored under key.
Storable(repo, key, rec) ==
    \/ /\ repo = "ro"
       /\ key \in ROs
       /\ DOMAIN rec = {"meta", "air", "onAir"}
       /\ rec.onAir = NoKey \/ StoryKeyOf(rec.onAir, key)
    \/ /\ repo = "story"
       /\ DOMAIN rec = {"ro", "order", "body"}
       /\ rec.ro \in ROs /\ rec.order \in Nat
       /\ StoryKeyOf(key, rec.ro)
    \/ /\ repo = "item"
       /\ DOMAIN rec = {"story", "order", "body"}
       /\ StoryKey(rec.story) /\ rec.order \in Nat
       /\ ItemKeyOf(key, rec.story)

Tables == {"ro", "story", "item"}

Consistent(m) ==
    /\ DOMAIN m = Tables
    /\ \A repo \in Tables :
          /\ IsFiniteSet(DOMAIN m[repo])
          /\ \A key \in DOMAIN m[repo] : Storable(repo, key, m[repo][key])

ASSUME ServiceAssumption ==
    /\ \A op \in Messages : WellFormed(op)
    /\ NoMessage \notin Messages
    /\ MaxOps \in Nat /\ MaxMixed \in 0 .. MaxOps
    /\ Consistent(Held)

\* Messages that store under composite keys only, and a store without stories
\* under the identifiers of the wire.
KeyedMessages(messages) ==
    \A op \in messages : op.kind \notin {"NEW", "REPLACE", "REPLACE items"}

KeyedStore(m) ==
    /\ \A k \in DOMAIN m.story : Len(k) = 2
    /\ \A k \in DOMAIN m.item : Len(m.item[k].story) = 2
    /\ \A k \in DOMAIN m.ro : Len(m.ro[k].onAir) # 1

Keyed == KeyedMessages(Messages) /\ KeyedStore(Held)

-----------------------------------------------------------------------------
(* What roReq and OnAirStory report.                                        *)

ItemView(m, key) ==
    LET items == ListByStory(m, key)
    IN  [n \in 1 .. Len(items) |-> [id |-> Last(items[n]), body |-> m.item[items[n]].body]]

StoryView(m, key) ==
    [id |-> Last(key), body |-> m.story[key].body, items |-> ItemView(m, key)]

\* The answer to a roReq for a running order that is not held.
NoRundown == [answer |-> "NACK"]

\* The answer to a roReq, and the story that is on air.
RundownView(m, r) ==
    LET stories == ListByRunningOrder(m, r)
    IN  IF r \notin DOMAIN m.ro THEN NoRundown
        ELSE [meta    |-> m.ro[r].meta,
              air     |-> m.ro[r].air,
              onAir   |-> IF m.ro[r].onAir = NoKey THEN 0 ELSE Last(m.ro[r].onAir),
              stories |-> [n \in 1 .. Len(stories) |-> StoryView(m, stories[n])]]

View(m) == [r \in ROs |-> RundownView(m, r)]

-----------------------------------------------------------------------------
(* The promise, with what was reported when the messages in hand began.      *)

Promise == INSTANCE Rundown WITH
    rundown <- IF busy = << >> THEN View(mem) ELSE since,
    unsaved <- degraded

-----------------------------------------------------------------------------
(* Steps.                                                                   *)

Idle == [op |-> NoMessage, todo |-> << >>]
Working(w) == job[w] # Idle

Init ==
    /\ StoreInit(Held)
    /\ job = [w \in Workers |-> Idle]
    /\ sent = 0
    /\ busy = << >>
    /\ since = NoRundown
    /\ health = [r \in ROs |-> "whole"]
    /\ answer = "none"

Budget ==
    IF busy = << >> /\ \A r \in ROs : health[r] = "whole" THEN MaxOps ELSE MaxMixed

\* A handler is entered.
Receive(w, op) ==
    /\ ~Working(w)
    /\ sent < Budget
    /\ job' = [job EXCEPT ![w] = [op |-> op, todo |-> Program(op)]]
    /\ sent' = sent + 1
    /\ busy' = Append(busy, op)
    /\ since' = IF busy = << >> THEN View(mem) ELSE since
    /\ answer' = "none"
    /\ UNCHANGED <<storeVars, health>>

Left(w, tasks) == job' = [job EXCEPT ![w].todo = tasks]

\* The task worker w is at.
At(w, names) == Working(w) /\ job[w].todo # << >> /\ job[w].todo[1].do \in names

\* The repositories' reads wait for Durable.mu.
Read(w) ==
    /\ Working(w) /\ job[w].todo # << >> /\ ~At(w, Calls \cup {"refuse"})
    /\ saving[w] = "no"
    /\ Unlocked
    /\ Left(w, Seen(mem, job[w].todo[1]) \o Tail(job[w].todo))
    /\ UNCHANGED <<storeVars, sent, busy, since, health, answer>>

Write(w) ==
    /\ At(w, Calls)
    /\ ~Refused(mem, job[w].todo[1])
    /\ Mutate(w, job[w].todo[1])
    /\ Left(w, Tail(job[w].todo))
    /\ UNCHANGED <<sent, busy, since, health, answer>>

\* The repository refuses: the service gives up, or goes on regardless.
WriteRefused(w) ==
    /\ At(w, Calls)
    /\ saving[w] = "no"
    /\ Refused(mem, job[w].todo[1])
    /\ Left(w, IF job[w].todo[1].refused = "ignored" THEN Tail(job[w].todo) ELSE Refuse("NACK"))
    /\ UNCHANGED <<storeVars, sent, busy, since, health, answer>>

Persist(w) ==
    /\ SkipSave(w) \/ Lock(w) \/ List(w) \/ Save(w)
    /\ UNCHANGED serviceVars

\* How a message handled alone is answered.
AnswerOf(w) == IF job[w].todo = << >> THEN "OK" ELSE job[w].todo[1].how

HealthAfter(w) ==
    LET r == job[w].op.ro
    IN  IF Len(busy) > 1
           THEN [x \in ROs |-> IF x \in Promise!NamedBy(busy) THEN "mixed" ELSE health[x]]
        ELSE IF AnswerOf(w) = "OK"
           THEN [health EXCEPT ![r] = Promise!After(job[w].op, since[r], @)]
        ELSE IF View(mem) = since THEN health
        ELSE [health EXCEPT ![r] = Promise!Worse(@)]

\* Mutant: the handler responds before the last change is saved.
ReplyUnsaved(w) ==
    /\ Working(w)
    /\ job[w].todo = << >> \/ At(w, {"refuse"})
    /\ job' = [job EXCEPT ![w] = Idle]
    /\ IF \E v \in Workers \ {w} : Working(v)
          THEN UNCHANGED <<busy, since, health, answer>>
          ELSE /\ busy' = << >>
               /\ since' = NoRundown
               /\ answer' = IF Len(busy) > 1 THEN "several" ELSE AnswerOf(w)
               /\ health' = HealthAfter(w)
    /\ UNCHANGED <<storeVars, sent>>

\* The handler responds and returns.
Reply(w) ==
    /\ Working(w)
    /\ saving[w] = "no"
    /\ job[w].todo = << >> \/ At(w, {"refuse"})
    /\ job' = [job EXCEPT ![w] = Idle]
    /\ IF \E v \in Workers \ {w} : Working(v)
          THEN UNCHANGED <<busy, since, health, answer>>
          ELSE /\ busy' = << >>
               /\ since' = NoRundown
               /\ answer' = IF Len(busy) > 1 THEN "several" ELSE AnswerOf(w)
               /\ health' = HealthAfter(w)
    /\ UNCHANGED <<storeVars, sent>>

\* The process ends and another one opens the store.
Restart ==
    /\ Reopen
    /\ job' = [w \in Workers |-> Idle]
    /\ busy' = << >>
    /\ since' = NoRundown
    /\ health' = Promise!Reloaded(health, Promise!NamedBy(busy), degraded)
    /\ answer' = "none"
    /\ UNCHANGED sent

Step(w) == Read(w) \/ Write(w) \/ WriteRefused(w) \/ Persist(w) \/ Reply(w)

Next ==
    \/ \E w \in Workers : Step(w) \/ \E op \in Messages : Receive(w, op)
    \/ Restart

Spec == Init /\ [][Next]_vars

-----------------------------------------------------------------------------
(* Properties.                                                             *)

\* The tables hold records of their kind under keys of their kind, and every
\* worker that saves is the worker of a message.
TypeOK ==
    /\ DOMAIN mem.ro \subseteq ROs
    /\ \A k \in DOMAIN mem.story : Len(k) \in 1 .. 2 /\ mem.story[k].ro \in ROs
    /\ \A k \in DOMAIN mem.item : Len(k) \in 1 .. 3 /\ mem.item[k].story # NoKey
    /\ \A w \in Workers : saving[w] # "no" => Working(w)
    /\ (busy = << >>) <=> (\A w \in Workers : ~Working(w))
    /\ sent \in 0 .. MaxOps

\* The service and its store do what Rundown promises: a message handled
\* alone that is acknowledged had the effect it asks for, on the rundown that
\* roReq reports; no message touches a running order it does not name; what
\* was acknowledged survives a restart unless a save failed.
KeepsItsPromise == Promise!Spec

\* Worker w has done what its message asks for and is about to say so.
Acknowledging(w) == Working(w) /\ job[w].todo = << >> /\ saving[w] = "no"

\* "An ACK asserts the metadata was saved" (handleCreate).  When a message is
\* about to be acknowledged, the file holds its running order as memory does,
\* whatever the messages for other running orders are in the middle of, unless
\* a failed write stopped persistence or another goroutine is at work on the
\* same running order.
AckedIsSaved ==
    \A w \in Workers :
        LET r == job[w].op.ro
        IN  (/\ Acknowledging(w) /\ degraded = "no"
             /\ \A v \in Workers \ {w} : Working(v) => job[v].op.ro # r)
            => RundownView(disk, r) = RundownView(mem, r)
=============================================================================
