---------------------------- MODULE MCSourceSet ----------------------------
(***************************************************************************)
(* Instances of SourceSet: three rundowns of which two can be retained,    *)
(* and messages whose identities meet across rundowns and kinds.           *)
(***************************************************************************)
EXTENDS SourceSet

CONSTANTS r1, r2, r3, i1, a, b, s1

Listing(id, S) ==
    [id |-> id, kind |-> "listing", ro |-> {}, label |-> NoLabel,
     rows |-> [r \in S |-> a]]

About(id, kind, r, label) ==
    [id |-> id, kind |-> kind, ro |-> {r}, label |-> label, rows |-> NoRows]

\* A listing with an identity and one without, which together name more
\* rundowns than can be retained; a rundown that is created and relabelled,
\* before or after it is enrolled, and one that is deleted; and one identity
\* used for two rundowns, and twice for the same one.
MCMsgs ==
    {Listing(i1, {r3}), Listing(NoID, {r1, r2}),
     About(i1, "create", r2, b), About(i1, "inapplicable", r2, NoLabel),
     About(i1, "delete", r1, NoLabel)}
=============================================================================
