----------------------------- MODULE ChangeFeed -----------------------------
(***************************************************************************)
(* What the change log of a workspace promises its readers: an append-only *)
(* sequence of operations, numbered from 1, of which a suffix is retained. *)
(***************************************************************************)
EXTENDS Naturals

CONSTANTS Workspaces, Ops

VARIABLES
  head,      \* per workspace, the greatest version
  feed,      \* per workspace, the operation of each version 1..head
  retained   \* per workspace, the versions a reader can still fetch

feedVars == <<head, feed, retained>>

FeedInit ==
  \A w \in Workspaces : head[w] = 0 /\ retained[w] = {}

\* A block of operations becomes visible at once, above all earlier ones.
Publish(w) ==
  /\ head'[w] >= head[w]
  /\ feed'[w] \in [1..head'[w] -> Ops]
  /\ \A v \in 1..head[w] : feed'[w][v] = feed[w][v]
  /\ retained'[w] = retained[w] \cup (head[w] + 1)..head'[w]

\* Retention drops some of the oldest versions: none is missing above the
\* oldest one that is left.
Trim(w) ==
  /\ head'[w] = head[w]
  /\ feed'[w] = feed[w]
  /\ retained'[w] \subseteq retained[w]
  /\ \A v \in retained'[w] : v..head[w] \subseteq retained'[w]

FeedNext ==
  \E w \in Workspaces :
    /\ Publish(w) \/ Trim(w)
    /\ \A x \in Workspaces \ {w} : /\ head'[x] = head[x]
                                   /\ feed'[x] = feed[x]
                                   /\ retained'[x] = retained[x]

FeedSpec == FeedInit /\ [][FeedNext]_feedVars
=============================================================================
