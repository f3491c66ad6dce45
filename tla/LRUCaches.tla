----------------------------- MODULE LRUCaches -----------------------------
(***************************************************************************)
(* What replacement by least recent use means, without ways and without    *)
(* clocks: each set of a cache is the sequence of its tags, the last one   *)
(* used first.  A request moves its tag to the front, and a sequence that  *)
(* grows longer than the cache has ways loses its end.                     *)
(***************************************************************************)
EXTENDS Integers, Sequences

CONSTANTS Caches,
          SETS,         \* for each cache, its sets
          WAYS          \* for each cache, its ways

NoRequest == [set |-> 0, tag |-> -1]

VARIABLES order,        \* for each cache and set, the tags, last used first
          request,      \* for each cache, what it will be asked for next
          served,       \* for each cache, the requests so far
          missed        \* and those among them whose tag was not there

lru_vars == <<order, request, served, missed>>

Holding(tags, t) == \E j \in DOMAIN tags : tags[j] = t

\* The place that t is to leave: its own, or a new one at the end, or the last
\* one if there are no more.
Place(tags, t, ways) ==
    IF Holding(tags, t) THEN CHOOSE j \in DOMAIN tags : tags[j] = t
    ELSE IF Len(tags) < ways THEN Len(tags) + 1 ELSE ways

\* The tags of a set once tag t has been used: it is the first, and those that
\* were before its place have moved back by one.
Used(tags, t, ways) ==
    LET p == Place(tags, t, ways)
    IN  [j \in DOMAIN tags \cup {p} |->
            IF j = 1 THEN t ELSE IF j <= p THEN tags[j - 1] ELSE tags[j]]

LRUInit ==
    /\ order = [c \in Caches |-> [s \in SETS[c] |-> <<>>]]
    /\ served = [c \in Caches |-> 0]
    /\ missed = [c \in Caches |-> 0]

Rest(c) ==
    /\ order'[c] = order[c]
    /\ served'[c] = served[c]
    /\ missed'[c] = missed[c]

Serve(c) ==
    LET r == request[c]
    IN  /\ r # NoRequest
        /\ order'[c] = [order[c] EXCEPT ![r.set] = Used(@, r.tag, WAYS[c])]
        /\ served'[c] = served[c] + 1
        /\ missed'[c] = missed[c] + (IF Holding(order[c][r.set], r.tag) THEN 0 ELSE 1)

\* In a step each cache is asked once or not at all.
LRUNext == \A c \in Caches : Rest(c) \/ Serve(c)

LRUSpec == LRUInit /\ [][LRUNext]_lru_vars
=============================================================================
