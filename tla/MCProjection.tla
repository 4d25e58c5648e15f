---------------------------- MODULE MCProjection ------------------------------
(***************************************************************************)
(* The projection and the pages that read it, for TLC.  One valley is      *)
(* exported with each combination of the faults below, as the database or  *)
(* an export file of the command line could hold it; buckets, drops and    *)
(* locations name a source row and drops an item row, as the private       *)
(* tables require.                                                         *)
(***************************************************************************)
EXTENDS SitePages

Types == {"creature", "gameobject", "fishing", "item"}
Kinds == {"mob", "skinning", "fishing", "disenchant"}

wolf == <<"creature", 1, 5>>
alpha == <<"creature", 1, 6>>       \* the same creature at another level
belt == <<"item", 3, 0>>            \* an item, as what is disenchanted
pool == <<"gameobject", -2, 0>>
lake(f) == <<"fishing", IF "unplaced" \in f THEN 0 ELSE 4, 0>>

Item(id, name) == [item |-> id, name |-> name]
Source(src, name) == [src |-> src, name |-> name]
Bucket(src, kind, n) ==
    [src |-> src, kind |-> kind, observations |-> n, dominated |-> src = pool]
Drop(src, kind, item, n) ==
    [src |-> src, kind |-> kind, item |-> item, drops |-> n,
     quantity |-> n + 1, dominated |-> FALSE]
Seen(src, kind, map, zone, x, n) ==
    [src |-> src, kind |-> kind, map |-> map, zone |-> zone,
     subzone |-> 0, x |-> x, observations |-> n]

\* Names, kinds and numbers no rule takes, an item nobody looted but only
\* disenchanted, a zone that clients name differently.
Faults == {"nameless item", "nameless source", "unknown kind", "misfit",
           "unplaced", "belt unlooted", "far map", "bad item", "empty sample"}

Valley(f) ==
    [valid |-> TRUE, version |-> 1,
     items |-> {Item(1, IF "nameless item" \in f THEN BadName ELSE 4),
                Item(IF "bad item" \in f THEN 12 ELSE 2, 5)}
                 \cup IF "belt unlooted" \in f THEN {} ELSE {Item(3, 6)},
     sources |-> {Source(wolf, IF "nameless source" \in f THEN BadName ELSE 7),
                  Source(alpha, 7), Source(belt, 6), Source(pool, 8),
                  Source(lake(f), 9)},
     buckets |-> {Bucket(wolf, "mob", 3), Bucket(alpha, "mob", 1),
                  Bucket(alpha, IF "unknown kind" \in f THEN "unknown"
                                ELSE "skinning",
                         IF "empty sample" \in f THEN 0 ELSE 1),
                  Bucket(belt, "disenchant", 2), Bucket(pool, "fishing", 4),
                  Bucket(lake(f), "fishing", 2)},
     drops |-> {Drop(wolf, "mob", 1, 2),
                Drop(alpha, "mob", 1, IF "misfit" \in f THEN 2 ELSE 1),
                Drop(alpha, "skinning", 2, 1),
                Drop(belt, "disenchant", IF "bad item" \in f THEN 12 ELSE 2, 1),
                Drop(pool, "fishing", 1, 2)}
                 \cup IF "belt unlooted" \in f THEN {}
                      ELSE {Drop(lake(f), "fishing", 3, 1)},
     locations |-> {Seen(wolf, "mob", 4, 2, 1, 1), Seen(wolf, "mob", 4, 1, 2, 1),
                    Seen(alpha, "mob", IF "far map" \in f THEN 6 ELSE 4, 2, 4, 1),
                    Seen(alpha, "mob", 5, 3, 4, 1),
                    Seen(alpha, "skinning", 5, 3, 4, 2),
                    Seen(lake(f), "fishing", 4, 1, 3, 1),
                    Seen(pool, "fishing", 4,
                         IF "nameless item" \in f THEN BadName ELSE 3, 0, 2)}]

Nothing == [Valley({}) EXCEPT !.items = {}, !.sources = {}, !.buckets = {},
                              !.drops = {}, !.locations = {}]
FewFaults == {f \in SUBSET Faults : Cardinality(f) <= 4}
MCExports == {Valley(f) : f \in FewFaults}
               \cup {Nothing, [Nothing EXCEPT !.valid = FALSE],
                     [Nothing EXCEPT !.version = 2],
                     [Valley({}) EXCEPT !.locations = @ \cup
                        {Seen(wolf, "mob", 5, 3, x, 1) : x \in 0 .. 3}]}
=============================================================================
