--------------------------- MODULE MCRunningOrders ---------------------------
(* Instances of RunningOrders for TLC.                                       *)
EXTENDS RunningOrders, TLC

CONSTANTS r1, r2

S(id, body, items) == [id |-> id, body |-> body, items |-> items]
I(id, body) == [id |-> id, body |-> body]

\* r1 is held with two stories, the first of two items; r2 with a story of
\* the same storyID.
HeldFirst ==
    [ro    |-> [r \in {r1, r2} |-> [meta |-> "a", air |-> "none", onAir |-> NoKey]],
     story |-> (<<r1, 1>> :> [ro |-> r1, order |-> 1, body |-> "a"])
            @@ (<<r1, 2>> :> [ro |-> r1, order |-> 2, body |-> "a"])
            @@ (<<r2, 1>> :> [ro |-> r2, order |-> 1, body |-> "a"]),
     item  |-> (<<r1, 1, 1>> :> [story |-> <<r1, 1>>, order |-> 1, body |-> "a"])
            @@ (<<r1, 1, 2>> :> [story |-> <<r1, 1>>, order |-> 2, body |-> "a"])]

Roster == << S(3, "b", << >>), S(2, "b", << >>), S(1, "b", << I(2, "b"), I(1, "b") >>) >>

\* Whole running orders.
RosterMessages ==
    { [kind |-> "roCreate", ro |-> r2, meta |-> "b", list |-> << S(1, "b", << >>) >>],
      [kind |-> "roList", ro |-> r1, meta |-> "b", list |-> Roster],
      [kind |-> "roList", ro |-> r1, meta |-> "b", list |-> << S(2, "b", << >>) >>],
      [kind |-> "roReplace", ro |-> r1, meta |-> "b",
       list |-> << S(2, "b", << I(1, "b") >>), S(1, "b", << >>) >>],
      [kind |-> "roDelete", ro |-> r1] }

FieldMessages ==
    { [kind |-> "roMetadataReplace", ro |-> r1, meta |-> "b"],
      [kind |-> "roReadyToAir", ro |-> r2, air |-> "READY"],
      [kind |-> "PLAY", ro |-> r1, story |-> 1],
      [kind |-> "PLAY", ro |-> r1, story |-> 2],
      [kind |-> "STOP", ro |-> r1, story |-> 1],
      [kind |-> "RO status", ro |-> r1],
      [kind |-> "ITEM status", ro |-> r1, story |-> 1, item |-> 1],
      [kind |-> "roCtrl", ro |-> r1, item |-> 3],
      [kind |-> "roItemCue", ro |-> r1, item |-> 3] }

Edits ==
    { [kind |-> "roStorySend", ro |-> r1, send |-> S(1, "b", << I(1, "b") >>)],
      [kind |-> "roStorySend", ro |-> r1, send |-> S(3, "b", << I(1, "b") >>)],
      [kind |-> "INSERT stories", ro |-> r1, target |-> 1, list |-> << S(3, "b", << I(1, "b") >>) >>],
      [kind |-> "INSERT items", ro |-> r1, story |-> 1, target |-> 1, list |-> << I(3, "b") >>],
      [kind |-> "MOVE stories", ro |-> r1, target |-> 1, ids |-> <<2>>],
      [kind |-> "MOVE stories", ro |-> r1, target |-> 0, ids |-> <<1>>],
      [kind |-> "MOVE items", ro |-> r1, story |-> 1, target |-> 1, ids |-> <<2>>],
      [kind |-> "REPLACE stories", ro |-> r1, target |-> 1, list |-> << S(1, "b", << I(2, "b") >>) >>],
      [kind |-> "REPLACE stories", ro |-> r1, target |-> 1, list |-> << S(3, "b", << >>) >>],
      [kind |-> "DELETE stories", ro |-> r1, ids |-> <<1>>],
      [kind |-> "SWAP stories", ro |-> r1, ids |-> <<1, 2>>],
      [kind |-> "SWAP items", ro |-> r1, story |-> 1, ids |-> <<1, 2>>],
      [kind |-> "DELETE items", ro |-> r1, story |-> 1, ids |-> <<1>>] }

Symmetry == Permutations(Workers)

\* The story actions of the socket transport, on a story of their own.
Actions ==
    { [kind |-> "NEW", ro |-> r1, send |-> S(4, "b", << I(1, "b") >>)],
      [kind |-> "UPDATE", ro |-> r1, send |-> S(4, "a", << I(1, "a") >>)],
      [kind |-> "REPLACE", ro |-> r1, send |-> S(4, "a", << >>)],
      [kind |-> "mosItemReplace", ro |-> r1, story |-> 4, list |-> << I(4, "b") >>] }

Sent == RosterMessages \cup FieldMessages \cup Edits \cup Actions

\* The proof that the promise is kept is about stores and messages with
\* composite keys: all here but the story actions of the socket transport.
ASSUME KeyedInstance == KeyedStore(HeldFirst) /\ KeyedMessages(Sent \ Actions)
=============================================================================
