----------------------------- MODULE ChangeFeed -----------------------------
(***************************************************************************)
(* What monitoring promises a workspace about one semantic fact of one     *)
(* company (docs/MONITORING_P0_VERTICAL_SLICE_01.md): the workspace        *)
(* follows the fact or not, has a belief about it, and receives an entry   *)
(* for a move from what it believed to something else.  What it learns     *)
(* when it begins to follow, and the first thing it learns after the fact  *)
(* was hidden from it, come without an entry.                              *)
(***************************************************************************)
EXTENDS Sequences

CONSTANTS
    Workspaces,
    Facts,      \* authoritative business facts: [value, date]
    Unknown,    \* no business fact is known yet
    Hidden      \* the fact was restricted when it was last seen

VARIABLES
    follows,    \* workspaces whose subscription is active
    belief,     \* what each workspace last learnt
    entries     \* the feed of each workspace: sequence of moves <<from, to>>

feedVars == <<follows, belief, entries>>

Beliefs == Facts \cup {Unknown, Hidden}

FeedInit ==
    /\ follows = {}
    /\ belief = [w \in Workspaces |-> Unknown]
    /\ entries = [w \in Workspaces |-> <<>>]

\* The belief after an observation: a fact is learnt, a restriction hides it,
\* and neither a missing fact nor an uncertain one teaches anything.
Learns(before, after) == after \in Facts \cup {Hidden, before}

\* To begin to follow, or to resume: no entry is made.
Follow(w) ==
    /\ w \notin follows
    /\ follows' = follows \cup {w}
    /\ \E b \in Beliefs : /\ Learns(belief[w], b)
                          /\ belief' = [belief EXCEPT ![w] = b]
    /\ UNCHANGED entries

Unfollow(w) ==
    /\ follows' = follows \ {w}
    /\ UNCHANGED <<belief, entries>>

\* A move that deserves an entry: the workspace knew nothing, or another value.
Noteworthy(before, after) ==
    /\ before # Hidden /\ after \in Facts
    /\ before # Unknown => before.value # after.value

\* An entry is delivered once: a move that repeats an older one, source dates
\* included, is that entry.
Delivered(feed, before, after) ==
    IF Noteworthy(before, after) /\ \A n \in DOMAIN feed : feed[n] # <<before, after>>
    THEN Append(feed, <<before, after>>)
    ELSE feed

\* One scan of the company: some of the followers observe it.
Observe ==
    /\ belief' \in [Workspaces -> Beliefs]
    /\ entries' \in [Workspaces -> Seq(Beliefs \X Facts)]
    /\ \A w \in Workspaces :
         \/ /\ belief'[w] = belief[w]
            /\ entries'[w] = entries[w]
         \/ /\ w \in follows
            /\ Learns(belief[w], belief'[w])
            /\ entries'[w] = Delivered(entries[w], belief[w], belief'[w])
    /\ UNCHANGED follows

FeedNext == Observe \/ \E w \in Workspaces : Follow(w) \/ Unfollow(w)

FeedSpec == FeedInit /\ [][FeedNext]_feedVars
=============================================================================
