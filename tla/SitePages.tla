------------------------------ MODULE SitePages -------------------------------
(***************************************************************************)
(* What the site reads of the published projection and where its links     *)
(* lead (web/src/lib/data/fixture-adapter.ts, which mirrors web_api;       *)
(* lib/routes.ts, lib/validation.ts and the entity pages).  A link is      *)
(* <<page, id, level>>, page being the first segment of its path and level *)
(* that of a creature's section, AnyLevel when the link names none.  The   *)
(* pages that cut their lists off are taken to show all of them.           *)
(***************************************************************************)
EXTENDS ProjectionRules

CONSTANTS MaxPageId,    \* nine digits: the ids parseEntityId lets through
          MaxPageMap    \* 999_999: the maps the zone page lets through

\* The bounds of the pages and of the projection are chosen alike, and the
\* addon takes the ids of creatures and items from the game, which has none of
\* ten digits.
ASSUME IdsFitPages ==
    /\ MaxItem <= MaxPageId /\ MaxMap <= MaxPageMap /\ MaxMap <= MaxPageId
    /\ {MaxPageId, MaxPageMap} \subseteq Nat
    /\ AllowedTypes \subseteq {"creature", "gameobject", "fishing", "item"}
    /\ \A e \in Exports : \A s \in e.sources :
         /\ s.src[2] \in Int /\ s.src[2] <= MaxPageId
         /\ s.src[1] \in {"creature", "item"} => s.src[2] > 0

AnyLevel == -1

\* parseEntityId: zero and below only where the route allows negative ids.
EntityId(id, allowNegative) ==
    id \in 1 .. MaxPageId \/ (allowNegative /\ id <= 0)

-----------------------------------------------------------------------------
(* The reads of the adapter.                                               *)

Variants(type, id) == {s.src : s \in {s \in projection.sources :
                                        s.src[1] = type /\ s.src[2] = id}}
DropsOfItem(id) == {d \in projection.drops : d.item = id}
DropsOfSource(type, id) == {d \in projection.drops :
                              d.src[1] = type /\ d.src[2] = id}
ZonesOfItem(id) == {z.map : z \in {z \in projection.zone_items : z.item = id}}
ZonesOfSource(type, id) ==
    {z.map : z \in {z \in projection.zone_sources :
                      z.src[1] = type /\ z.src[2] = id}}
ListedSources(m) == {z \in projection.zone_sources : z.map = m}
ListedItems(m) == {z \in projection.zone_items : z.map = m}

IndexablePages ==
    [items |-> {i.item : i \in {i \in projection.items : i.indexable}},
     sources |-> {<<s.src[1], s.src[2]>> :
                    s \in {s \in projection.sources : s.indexable}}]

-----------------------------------------------------------------------------
(* The paths that lead to an entity, and whether their page opens.         *)

ItemPath(id) == <<"item", id, AnyLevel>>
ZonePath(m) == <<"zone", m, AnyLevel>>
SourcePath(src) ==
    <<IF src[1] = "gameobject" THEN "object" ELSE src[1], src[2],
      IF src[1] = "creature" THEN src[3] ELSE AnyLevel>>

\* Mutant: an item's page needs the item's own row.
ItemPageNeedsRow(id) ==
    EntityId(id, FALSE) /\ \E i \in projection.items : i.item = id

\* An item that was only ever disenchanted has the page of that source.
ItemPageOpens(id) ==
    /\ EntityId(id, FALSE)
    /\ \/ \E i \in projection.items : i.item = id
       \/ Variants("item", id) # {}

SourcePageOpens(type, id, level) ==
    /\ EntityId(id, type = "gameobject")
    /\ \E v \in Variants(type, id) : level \in {AnyLevel, v[3]}

ZonePageOpens(m) ==
    /\ EntityId(m, FALSE) /\ m <= MaxPageMap
    /\ \E z \in projection.zones : z.map = m

Opens(link) ==
    \/ link[1] = "item" /\ ItemPageOpens(link[2])
    \/ link[1] = "zone" /\ ZonePageOpens(link[2])
    \/ link[1] = "object" /\ SourcePageOpens("gameobject", link[2], link[3])
    \/ /\ link[1] \in {"creature", "fishing"}
       /\ SourcePageOpens(link[1], link[2], link[3])

-----------------------------------------------------------------------------
(* The links of each page.                                                 *)

\* An item's sources, what it is disenchanted into, its zones and the other
\* items of its sources.
ItemPageLinks(id) ==
    {SourcePath(d.src) : d \in DropsOfItem(id)}
      \cup {ItemPath(d.item) : d \in DropsOfSource("item", id)}
      \cup {ZonePath(m) : m \in ZonesOfItem(id)}
      \cup UNION {{ItemPath(o.item) : o \in DropsOfSource(d.src[1], d.src[2])} :
                    d \in DropsOfItem(id)}

SourcePageLinks(type, id) ==
    {ItemPath(d.item) : d \in DropsOfSource(type, id)}
      \cup {ZonePath(m) : m \in ZonesOfSource(type, id)}

ZonePageLinks(m) == {SourcePath(z.src) : z \in ListedSources(m)}
                      \cup {ItemPath(z.item) : z \in ListedItems(m)}

SearchLinks ==
    {ItemPath(i.item) : i \in projection.search_items}
      \cup {SourcePath(s.src) : s \in projection.search_sources}
      \cup UNION {{ZonePath(m) : m \in r.map_ids} :
                    r \in projection.search_items \cup projection.search_sources}

SitemapLinks ==
    {ItemPath(id) : id \in IndexablePages.items}
      \cup {<<SourcePath(<<s[1], s[2], 0>>)[1], s[2], AnyLevel>> :
              s \in IndexablePages.sources}
      \cup {ZonePath(z.map) : z \in projection.zones}

Links == SearchLinks \cup SitemapLinks
           \cup (UNION {ItemPageLinks(i.item) : i \in projection.items})
           \cup (UNION {SourcePageLinks(s.src[1], s.src[2]) :
                          s \in projection.sources})
           \cup (UNION {ZonePageLinks(z.map) : z \in projection.zones})

-----------------------------------------------------------------------------
(* Every link of the search, the sitemap and the entity pages leads to a   *)
(* page that opens, whichever rows of the export were refused: the page of *)
(* an item known only as disenchanted included, and the section of a       *)
(* creature's level. Excepted are fishing sources without a map id, which  *)
(* the addon makes when the client names no map: no page takes them.       *)
PlacedLinksOpen ==
    phase = "done" =>
      \A link \in Links :
        Opens(link) \/ (link[1] = "fishing" /\ link[2] <= 0)

(* A zone is one thing wherever it is shown: its header counts what its    *)
(* directory lists and observed, the search's filter selects the same      *)
(* entities, and an item is listed with as many sources as the directory   *)
(* lists that drop it by a method seen there.                              *)
ZonesAgree ==
    phase = "done" =>
      \A z \in projection.zones :
           /\ z.source_count = Cardinality(ListedSources(z.map))
           /\ z.item_count = Cardinality(ListedItems(z.map))
           /\ z.observations = Observations(ListedSources(z.map))
           /\ {s.src : s \in ListedSources(z.map)} =
                {s.src : s \in {s \in projection.search_sources :
                                  z.map \in s.map_ids}}
           /\ {i.item : i \in ListedItems(z.map)} =
                {i.item : i \in {i \in projection.search_items :
                                   z.map \in i.map_ids}}
           /\ \A i \in ListedItems(z.map) :
                i.associated_source_count =
                  Cardinality({s \in ListedSources(z.map) :
                    \E d \in projection.drops :
                      d.src = s.src /\ d.item = i.item /\ d.kind \in s.kinds})
=============================================================================
