----------------------------- MODULE BoundedMap -----------------------------
(* What RawMap promises its callers: a map that may refuse a new key, and     *)
(* never a key it holds.                                                      *)
EXTENDS Functions

CONSTANTS Keys, Values

VARIABLES map,    \* a function on some of the keys
          answer  \* what the last call returned, and for which key

mapVars == <<map, answer>>

Nothing == [answer |-> "none"]
Found(k, v) == [answer |-> "some", key |-> k, value |-> v]
Answers(k, how) == [answer |-> how, key |-> k]

MapInit == map = << >> /\ answer = Nothing

Put(k, v) == [j \in DOMAIN map \cup {k} |-> IF j = k THEN v ELSE map[j]]

InsertKey(k, v) ==
    \/ /\ answer' = Answers(k, "replaced")
       /\ k \in DOMAIN map
       /\ map' = Put(k, v)
    \/ /\ answer' = Answers(k, "added")
       /\ k \notin DOMAIN map
       /\ map' = Put(k, v)
    \/ /\ answer' \in {Answers(k, "full"), Answers(k, "no_memory")}
       /\ k \notin DOMAIN map
       /\ UNCHANGED map

RemoveKey(k) ==
    /\ answer' = IF k \in DOMAIN map THEN Found(k, map[k]) ELSE Answers(k, "none")
    /\ map' = Restrict(map, DOMAIN map \ {k})

\* for_each_mut: every value may change, no key does.
Rewrite ==
    /\ answer' = Nothing
    /\ map' \in [DOMAIN map -> Values]

ClearMap ==
    /\ answer' = Nothing
    /\ map' = << >>

MapNext ==
    \/ \E k \in Keys : (\E v \in Values : InsertKey(k, v)) \/ RemoveKey(k)
    \/ Rewrite
    \/ ClearMap

MapSpec == MapInit /\ [][MapNext]_mapVars
=============================================================================
