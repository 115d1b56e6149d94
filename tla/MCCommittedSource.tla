-------------------------- MODULE MCCommittedSource --------------------------
(* Instances of CommittedSource for TLC.                                     *)
EXTENDS CommittedSource, TLC

OneScope == [s \in Sessions |-> CHOOSE c \in Scopes : TRUE]

Op(kind, stories, story, content) ==
    [kind |-> kind, stories |-> stories, story |-> story, content |-> content]

\* What is sent with an identifier, and so may be sent again with it, or by
\* mistake something else under it.
Numbered ==
    [id : IDs, op : {Op("roster", Stories, NoStory, NoContent),
                     Op("delete", {}, NoStory, NoContent)}]

\* What is sent without one.
Unnumbered ==
    [id : {NoID}, op : {Op("list", Stories, NoStory, NoContent),
                        Op("note", {}, NoStory, NoContent),
                        Op("invalid", {}, NoStory, NoContent)}
                       \cup {Op("body", {}, t, c) : t \in Stories, c \in Contents}]

\* Messages of every kind.
EveryKind == Numbered \cup Unnumbered

\* A rundown that is built, retried and built again over two connections.
Rebuilt ==
    [id : IDs, op : {Op("roster", Stories, NoStory, NoContent)}]
    \cup [id : {NoID}, op : {Op("list", Stories, NoStory, NoContent)}
                            \cup {Op("body", {}, t, c) : t \in Stories, c \in Contents}]

SessionSymmetry == Permutations(Sessions)
=============================================================================
