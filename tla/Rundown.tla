------------------------------- MODULE Rundown -------------------------------
(***************************************************************************)
(* What the running-order service promises a newsroom: the rundown that    *)
(* roReq reports, as a sequence of stories, and what a message does to it. *)
(*                                                                         *)
(* A message is begun and answered later.  An OK for a message that was     *)
(* handled on its own means that it took effect.  A refusal that asks for a *)
(* resynchronisation means that nothing changed.  Another refusal or a      *)
(* crash may leave the running order it names torn, as does a list that     *)
(* leaves out what is held: of a torn one it is not promised where INSERT,  *)
(* REPLACE, NEW and SWAP put things, all else is.  Messages that overlap may mix the *)
(* running orders they name, of which nothing is promised until the next    *)
(* process.  Running orders that no message names never change, and a       *)
(* restart loses nothing while the store can save.                          *)
(*                                                                         *)
(* INSERT may put the new elements on either side of its target, and a      *)
(* story that is deleted or replaced by others may stay, without its items. *)
(***************************************************************************)
EXTENDS Naturals, Sequences, FiniteSets, SequencesExt

CONSTANTS ROs,        \* roIDs
          Messages,   \* what the newsroom may send
          NoRundown   \* a running order that is not held

VARIABLES rundown,    \* per roID, what roReq reports
          busy,       \* the messages begun since nothing was in progress
          health,     \* per roID, "whole", "torn" or "mixed"
          answer,     \* how the last message handled alone was answered
          unsaved     \* "yes" once the store no longer saves

vars == <<rundown, busy, health, answer, unsaved>>

-----------------------------------------------------------------------------
(* What each message asks for.  R and S are the named running order before *)
(* and after.                                                              *)

IDs(list) == [n \in 1 .. Len(list) |-> list[n].id]

Named(list, ids) == SelectSeq(list, LAMBDA x : x.id \in ids)
Others(list, ids) == SelectSeq(list, LAMBDA x : x.id \notin ids)

Story(R, id) == CHOOSE x \in ToSet(R.stories) : x.id = id

\* S is R except in field f.
Only(R, S, f) == S # NoRundown /\ R # NoRundown /\ \A g \in DOMAIN R \ {f} : S[g] = R[g]

\* The listed elements are there, in the listed order and with the listed
\* body; elements the list leaves out may stay.
Listed(list, held) ==
    LET ids == ToSet(IDs(list))
    IN  /\ IDs(Named(held, ids)) = IDs(list)
        /\ \A n \in 1 .. Len(list) : Named(held, ids)[n].body = list[n].body

StoriesListed(list, held) ==
    /\ Listed(list, held)
    /\ \A n \in 1 .. Len(list) : \E x \in ToSet(held) :
           x.id = list[n].id /\ Listed(list[n].items, x.items)

\* Elements new placed right after element id of list.
Following(list, id, new) ==
    LET n == CHOOSE k \in 1 .. Len(list) : list[k].id = id
    IN  SubSeq(list, 1, n) \o new \o SubSeq(list, n + 1, Len(list))

\* And right before it.
Preceding(list, id, new) ==
    LET n == CHOOSE k \in 1 .. Len(list) : list[k].id = id
    IN  SubSeq(list, 1, n - 1) \o new \o SubSeq(list, n, Len(list))

\* Right next to it.
Beside(list, id, new) == {Following(list, id, new), Preceding(list, id, new)}

\* Element id of list replaced by others.
Replaced(list, id, new) ==
    LET n == CHOOSE k \in 1 .. Len(list) : list[k].id = id
    IN  SubSeq(list, 1, n - 1) \o new \o SubSeq(list, n + 1, Len(list))

\* The elements ids of list moved together, in the order they had, to just
\* before element id, or to the end.
Before(list, id, ids) ==
    LET rest == Others(list, ids)
        n == IF \E k \in 1 .. Len(rest) : rest[k].id = id
                THEN CHOOSE k \in 1 .. Len(rest) : rest[k].id = id
                ELSE Len(rest) + 1
    IN  SubSeq(rest, 1, n - 1) \o Named(list, ids) \o SubSeq(rest, n, Len(rest))

Exchanged(list, a, b) ==
    [n \in 1 .. Len(list) |->
        CASE list[n].id = a -> CHOOSE x \in ToSet(list) : x.id = b
          [] list[n].id = b -> CHOOSE x \in ToSet(list) : x.id = a
          [] OTHER -> list[n]]

\* Story id of R with its items changed to what P accepts.
ItemsOnly(R, S, id, P(_, _)) ==
    /\ Only(R, S, "stories")
    /\ IDs(S.stories) = IDs(R.stories)
    /\ \A n \in 1 .. Len(R.stories) :
          IF R.stories[n].id = id
             THEN P(R.stories[n].items, S.stories[n].items)
             ELSE S.stories[n] = R.stories[n]

\* The stories a message takes out, which may stay without their items.
TakenOut(op) ==
    IF op.kind = "DELETE stories" THEN ToSet(op.ids) ELSE {op.target} \ ToSet(IDs(op.list))

Emptied(list, ids) == \A x \in ToSet(list) : x.id \in ids => x.items = << >>

\* REPLACE of a story by the stories of a list: those that are new, or a new
\* version of that very story, are as listed; one that is held elsewhere is
\* updated; all else is as it was.
ReplacedBy(op, R, S) ==
    LET listed == ToSet(IDs(op.list))
    IN  /\ Only(R, S, "stories")
        /\ StoriesListed(op.list, S.stories)
        /\ \A x \in ToSet(op.list) :
              x.id \in ToSet(IDs(R.stories)) \ {op.target} \/ x \in ToSet(S.stories)
        /\ Others(S.stories, listed \cup {op.target}) = Others(R.stories, listed \cup {op.target})
        /\ Emptied(S.stories, TakenOut(op))

\* Where the stories of the list then stand: in the place of the target.
InItsPlace(op, R, S) ==
    LET rest == Others(R.stories, ToSet(IDs(op.list)) \ {op.target})
    IN  IDs(Others(S.stories, TakenOut(op))) = IDs(Replaced(rest, op.target, op.list))

Asked(op, R, S) ==
    CASE op.kind \in {"roCreate", "roList"} ->
             S # NoRundown /\ S.meta = op.meta /\ StoriesListed(op.list, S.stories)
      [] op.kind = "roReplace" ->
             /\ S # NoRundown
             /\ S.meta = op.meta
             /\ IDs(S.stories) = IDs(op.list)
             /\ StoriesListed(op.list, S.stories)
             /\ \A n \in 1 .. Len(op.list) :
                    IDs(S.stories[n].items) = IDs(op.list[n].items)
      [] op.kind = "roDelete" -> S = NoRundown
      [] op.kind = "roMetadataReplace" -> Only(R, S, "meta") /\ S.meta = op.meta
      [] op.kind = "roReadyToAir" -> Only(R, S, "air") /\ S.air = op.air
      [] op.kind = "PLAY" -> Only(R, S, "onAir") /\ S.onAir = op.story
      [] op.kind = "STOP" ->
             Only(R, S, "onAir") /\ S.onAir = IF R.onAir = op.story THEN 0 ELSE R.onAir
      [] op.kind \in {"roStorySend", "UPDATE"} ->
             /\ Only(R, S, "stories")
             /\ Others(S.stories, {op.send.id}) = Others(R.stories, {op.send.id})
             /\ StoriesListed(<<op.send>>, S.stories)
             /\ op.send.id \in ToSet(IDs(R.stories)) => IDs(S.stories) = IDs(R.stories)
      [] op.kind = "NEW" -> Only(R, S, "stories") /\ S.stories = Append(R.stories, op.send)
      [] op.kind = "REPLACE" ->
             /\ Only(R, S, "stories")
             /\ Front(S.stories) = Others(R.stories, {op.send.id})
             /\ StoriesListed(<<op.send>>, <<Last(S.stories)>>)
      [] op.kind = "mosItemReplace" ->
             ItemsOnly(R, S, op.story, LAMBDA old, new :
                 /\ Others(new, ToSet(IDs(op.list))) = Others(old, ToSet(IDs(op.list)))
                 /\ Listed(op.list, new))
      [] op.kind \in {"RO status", "ITEM status", "roCtrl", "roItemCue"} -> S = R
      [] op.kind = "INSERT stories" ->
             /\ Only(R, S, "stories")
             /\ S.stories \in Beside(R.stories, op.target, op.list)
      [] op.kind = "MOVE stories" ->
             Only(R, S, "stories") /\ S.stories = Before(R.stories, op.target, ToSet(op.ids))
      [] op.kind = "SWAP stories" ->
             Only(R, S, "stories") /\ S.stories = Exchanged(R.stories, op.ids[1], op.ids[2])
      [] op.kind = "REPLACE stories" ->
             ReplacedBy(op, R, S) /\ InItsPlace(op, R, S)
      [] op.kind = "DELETE stories" ->
             \/ R = NoRundown /\ S = NoRundown
             \/ /\ Only(R, S, "stories")
                /\ Others(S.stories, TakenOut(op)) = Others(R.stories, TakenOut(op))
                /\ Emptied(S.stories, TakenOut(op))
      [] op.kind = "INSERT items" ->
             ItemsOnly(R, S, op.story, LAMBDA old, new : new \in Beside(old, op.target, op.list))
      [] op.kind = "SWAP items" ->
             ItemsOnly(R, S, op.story, LAMBDA old, new : new = Exchanged(old, op.ids[1], op.ids[2]))
      [] op.kind = "DELETE items" ->
             ItemsOnly(R, S, op.story, LAMBDA old, new : new = Others(old, ToSet(op.ids)))

\* The same elements, in some order.
Shuffled(list, held) == Len(held) = Len(list) /\ ToSet(held) = ToSet(list)

\* Where two elements may share a position, an element that is placed by the
\* position of another may end up elsewhere: all else is as asked.
AskedSomewhere(op, R, S) ==
    CASE op.kind = "INSERT stories" ->
             Only(R, S, "stories") /\ Shuffled(R.stories \o op.list, S.stories)
      [] op.kind = "SWAP stories" ->
             Only(R, S, "stories") /\ Shuffled(R.stories, S.stories)
      [] op.kind = "NEW" ->
             Only(R, S, "stories") /\ Shuffled(Append(R.stories, op.send), S.stories)
      [] op.kind = "REPLACE stories" -> ReplacedBy(op, R, S)
      [] op.kind = "INSERT items" ->
             ItemsOnly(R, S, op.story, LAMBDA old, new : Shuffled(old \o op.list, new))
      [] op.kind = "SWAP items" ->
             ItemsOnly(R, S, op.story, LAMBDA old, new : Shuffled(old, new))
      [] OTHER -> FALSE

-----------------------------------------------------------------------------
(* Steps.                                                                  *)

Untouched(ros) == \A r \in ROs \ ros : rundown'[r] = rundown[r]

NamedBy(messages) == {messages[n].ro : n \in 1 .. Len(messages)}

Begin(op) ==
    /\ busy' = Append(busy, op)
    /\ answer' = "none"
    /\ UNCHANGED <<rundown, health, unsaved>>

\* A save failed; the message is answered as if it had not.
StopSaving ==
    /\ busy # << >>
    /\ unsaved' = "yes"
    /\ UNCHANGED <<rundown, busy, health, answer>>

\* The list leaves out an element that is held: it stays, and where it
\* stands among the listed ones is not said.
LeavesOut(list, held) == ~(ToSet(IDs(held)) \subseteq ToSet(IDs(list)))

ItemsLeftOut(list, held) ==
    \E x \in ToSet(list), y \in ToSet(held) : x.id = y.id /\ LeavesOut(x.items, y.items)

\* An acknowledged message after which positions are no longer defined.  A
\* story or item sent on its own that is not held has no place.
Tears(op, R) ==
    \/ /\ op.kind \in {"roCreate", "roList"}
       /\ R # NoRundown
       /\ LeavesOut(op.list, R.stories) \/ ItemsLeftOut(op.list, R.stories)
    \/ /\ op.kind \in {"roStorySend", "UPDATE", "REPLACE"}
       /\ op.send.id \notin ToSet(IDs(R.stories)) \/ ItemsLeftOut(<<op.send>>, R.stories)
    \/ /\ op.kind = "REPLACE stories"
       /\ TakenOut(op) # {} \/ ItemsLeftOut(op.list, Others(R.stories, {op.target}))
    \/ /\ op.kind = "mosItemReplace"
       /\ ToSet(IDs(op.list)) \cap ToSet(IDs(Story(R, op.story).items)) = {}

Mends(op) == op.kind \in {"roReplace", "roDelete"}

After(op, R, now) ==
    IF now = "mixed" THEN "mixed"
    ELSE IF Mends(op) THEN "whole"
    ELSE IF Tears(op, R) THEN "torn"
    ELSE now

\* What a message cut off half way leaves behind.
Worse(now) == IF now = "mixed" THEN "mixed" ELSE "torn"

\* The end of a period with one message: no other running order changed, and
\* a refusal that asks for a resynchronisation changed nothing at all.
Closing ==
    /\ Len(busy) = 1
    /\ busy' = << >>
    /\ Untouched({busy[1].ro})
    /\ LET op == busy[1]
       IN  \/ /\ answer' = "OK"
              /\ health' = [health EXCEPT ![op.ro] = After(op, rundown[op.ro], @)]
           \/ answer' \in {"NACK", "RESYNC"} /\ rundown' = rundown /\ health' = health
           \/ answer' = "NACK" /\ health' = [health EXCEPT ![op.ro] = Worse(@)]
    /\ UNCHANGED unsaved

\* An OK means that the message did what it asks for, where that is promised.
TakesEffect(op) ==
    answer' = "OK" =>
        \/ Asked(op, rundown[op.ro], rundown'[op.ro])
        \/ health[op.ro] = "torn" /\ AskedSomewhere(op, rundown[op.ro], rundown'[op.ro])
        \/ health[op.ro] = "mixed"

Answer == Closing /\ TakesEffect(busy[1])

\* The end of a period in which several messages were handled at once.
Settle ==
    /\ Len(busy) > 1
    /\ busy' = << >>
    /\ answer' = "several"
    /\ Untouched(NamedBy(busy))
    /\ health' = [r \in ROs |-> IF r \in NamedBy(busy) THEN "mixed" ELSE health[r]]
    /\ UNCHANGED unsaved

\* What a new process makes of running orders when those in cut were in hand.
Reloaded(now, cut, lost) ==
    [r \in ROs |-> IF now[r] = "whole" /\ r \notin cut /\ lost = "no" THEN "whole" ELSE "torn"]

Restart ==
    /\ busy' = << >>
    /\ answer' = "none"
    /\ unsaved' = "no"
    /\ unsaved = "no" => Untouched(NamedBy(busy))
    /\ health' = Reloaded(health, NamedBy(busy), unsaved)

Next == (\E op \in Messages : Begin(op)) \/ StopSaving \/ Answer \/ Settle \/ Restart

Init ==
    /\ DOMAIN rundown = ROs
    /\ busy = << >>
    /\ health = [r \in ROs |-> "whole"]
    /\ answer = "none"
    /\ unsaved = "no"

Spec == Init /\ [][Next]_vars

\* The promise with effects claimed for messages of some kinds only.
NextFor(kinds) ==
    \/ \E op \in Messages : Begin(op)
    \/ StopSaving
    \/ Closing /\ (busy[1].kind \in kinds => TakesEffect(busy[1]))
    \/ Settle
    \/ Restart

SpecFor(kinds) == Init /\ [][NextFor(kinds)]_vars
=============================================================================
