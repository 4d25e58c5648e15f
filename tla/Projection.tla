------------------------------ MODULE Projection ------------------------------
(***************************************************************************)
(* The projection of a private aggregate export onto the public read model *)
(* (publisher/src/core/project.ts, with contract.ts, sanitize.ts and       *)
(* stats.ts).  The export's five sections are read in turn, one row per    *)
(* step and in whatever order the database returned them; a row is refused *)
(* for its own fault or because what it refers to was refused, and refused *)
(* rows are only counted.  Too many of them fail the whole run.            *)
(*                                                                         *)
(* A source is its key <<type, id, level>>.  Names are numbers in the      *)
(* order localeCompare gives them, BadName standing for every name that    *)
(* sanitizeName refuses; the two conditions of dominance are one flag of   *)
(* the exported row; one coordinate stands for both.  Rates and intervals  *)
(* are left out except for whether they are given.                         *)
(***************************************************************************)
EXTENDS Integers, FiniteSets, FiniteSetsExt

CONSTANTS
    Exports,            \* the private exports that may be read
    MaxRows,            \* maxExportRows: the threshold on all rows together
    AllowedTypes, AllowedKinds,
    MinForRate, LowBelow, HighAt,   \* minBucketObservationsForRate, ...
    MinCell,            \* minLocationCellObservations
    RejectedPercent, AnomalyPercent,    \* maxRejectedRatio, maxAnomalyRatio
    Grid,               \* locationGrid
    MaxPosition, MaxMap, MaxItem    \* 100, 999_999 and 999_999_999

ASSUME ThresholdsOrdered ==
    /\ {MinForRate, LowBelow, HighAt, MinCell, Grid} \subseteq Nat \ {0}
    /\ MinForRate <= LowBelow /\ LowBelow <= HighAt

\* Every grid the configuration allows divides the map.
ASSUME GridDivides ==
    {MaxPosition, MaxMap, MaxItem} \subseteq Nat /\ MaxPosition % Grid = 0

\* What the export functions return: items, sources, buckets and drops are
\* grouped by their keys, and only locations that were observed are taken.
WellFormedRows(e) ==
    /\ \A r, o \in e.items : r.item = o.item => r = o
    /\ \A r, o \in e.sources : r.src = o.src => r = o
    /\ \A r, o \in e.buckets : r.src = o.src /\ r.kind = o.kind => r = o
    /\ \A r, o \in e.drops :
         r.src = o.src /\ r.kind = o.kind /\ r.item = o.item => r = o
    /\ \A r \in e.items : r.item \in Int
    /\ \A r \in e.buckets : r.observations \in Int /\ r.dominated \in BOOLEAN
    /\ \A r \in e.drops : /\ r.drops \in Int /\ r.quantity \in Int
                          /\ r.dominated \in BOOLEAN
    /\ \A r \in e.locations : /\ r.map \in Int /\ r.x \in Int /\ r.zone \in Nat
                              /\ r.observations \in Nat \ {0}

ASSUME ExportsWellFormed ==
    \A e \in Exports :
      /\ \A S \in {e.items, e.sources, e.buckets, e.drops, e.locations} :
           IsFiniteSet(S)
      /\ e.valid \in BOOLEAN /\ (e.valid => WellFormedRows(e))

VARIABLES
    export, phase,
    pending,            \* the rows of the current section not read yet
    items, sources, buckets, drops,     \* the accepted rows, by key
    rejected, anomalies,                \* how many rows were refused
    zoneNames, zoneObs, cells,          \* what the locations add up to
    zoneEntities, projection

projectionVars ==
    <<export, phase, pending, items, sources, buckets, drops, rejected,
      anomalies, zoneNames, zoneObs, cells, zoneEntities, projection>>

BadName == 0
NoProjection == [built |-> FALSE]
EmptyFcn == [x \in {} |-> 0]

\* A map in which k is entered, anew or again.
Put(f, k, v) == [x \in DOMAIN f \cup {k} |-> IF x = k THEN v ELSE f[x]]
\* Adds n to what f says of k, as maps of counters do throughout the file.
Bump(f, k, n) == Put(f, k, IF k \in DOMAIN f THEN f[k] + n ELSE n)
Total(f, S) == MapThenSumSet(LAMBDA k : f[k], S)
Observations(S) == Total([r \in S |-> r.observations], S)

RowCount(e) == Cardinality(e.sources) + Cardinality(e.items)
                 + Cardinality(e.buckets) + Cardinality(e.drops)
                 + Cardinality(e.locations)

-----------------------------------------------------------------------------
(* What one row is refused for.                                            *)

ItemRefused(r) == r.item \notin 1 .. MaxItem \/ r.name = BadName

SourceRefused(r) == r.src[1] \notin AllowedTypes \/ r.src[3] \notin 0 .. 255
                      \/ r.name = BadName

ConfidenceFor(observations, dominated) ==
    IF observations < MinForRate THEN "insufficient"
    ELSE IF observations < LowBelow THEN "low"
    ELSE IF observations >= HighAt /\ ~dominated THEN "high" ELSE "medium"

\* Mutant: more drops than observations are let through.
DropMisfitsAlone(r, observations) == r.drops <= 0 \/ r.quantity < r.drops

DropMisfits(r, observations) ==
    r.drops <= 0 \/ r.quantity < r.drops \/ r.drops > observations

OffMap(r) == r.map \notin 1 .. MaxMap \/ r.x \notin 0 .. MaxPosition

\* Math.round(x / grid) * grid
Quantized(x) == ((2 * x + Grid) \div (2 * Grid)) * Grid

-----------------------------------------------------------------------------
ProjectionInit ==
    /\ export \in Exports
    /\ phase = "entry" /\ pending = {}
    /\ items = EmptyFcn /\ sources = EmptyFcn /\ buckets = EmptyFcn
    /\ drops = {} /\ rejected = 0 /\ anomalies = 0
    /\ zoneNames = EmptyFcn /\ zoneObs = EmptyFcn /\ cells = EmptyFcn
    /\ zoneEntities = [sources |-> EmptyFcn, items |-> EmptyFcn]
    /\ projection = NoProjection

ThrowError == phase' = "failed" /\ UNCHANGED pending

\* buildProjection: the size guard, the bounded strict validation and the
\* contract version, before any row is projected.
BuildProjection ==
    /\ phase = "entry"
    /\ IF RowCount(export) > MaxRows \/ ~export.valid \/ export.version # 1
         THEN ThrowError
         ELSE phase' = "items" /\ pending' = export.items
    /\ UNCHANGED <<export, items, sources, buckets, drops, rejected, anomalies,
                   zoneNames, zoneObs, cells, zoneEntities, projection>>

\* The end of a loop over a section: the next one is begun.
NextSection ==
    /\ pending = {}
    /\ \/ phase = "items" /\ phase' = "sources" /\ pending' = export.sources
       \/ phase = "sources" /\ phase' = "buckets" /\ pending' = export.buckets
       \/ phase = "buckets" /\ phase' = "drops" /\ pending' = export.drops
       \/ phase = "locations" /\ phase' = "zones" /\ pending' = DOMAIN zoneObs
    /\ UNCHANGED <<export, items, sources, buckets, drops, rejected, anomalies,
                   zoneNames, zoneObs, cells, zoneEntities, projection>>

ItemRow ==
    /\ phase = "items"
    /\ \E r \in pending :
         /\ pending' = pending \ {r}
         /\ IF ItemRefused(r)
              THEN rejected' = rejected + 1 /\ UNCHANGED items
              ELSE items' = Put(items, r.item, r.name) /\ UNCHANGED rejected
    /\ UNCHANGED <<export, phase, sources, buckets, drops, anomalies, zoneNames,
                   zoneObs, cells, zoneEntities, projection>>

SourceRow ==
    /\ phase = "sources"
    /\ \E r \in pending :
         /\ pending' = pending \ {r}
         /\ IF SourceRefused(r)
              THEN rejected' = rejected + 1 /\ UNCHANGED sources
              ELSE /\ sources' = Put(sources, r.src, [name |-> r.name, total |-> 0,
                                                   indexable |-> FALSE])
                   /\ UNCHANGED rejected
    /\ UNCHANGED <<export, phase, items, buckets, drops, anomalies, zoneNames,
                   zoneObs, cells, zoneEntities, projection>>

\* A bucket counts towards its source only when it is accepted.
BucketRow ==
    /\ phase = "buckets"
    /\ \E r \in pending :
         /\ pending' = pending \ {r}
         /\ \/ /\ r.src \notin DOMAIN sources \/ r.kind \notin AllowedKinds
               /\ rejected' = rejected + 1
               /\ UNCHANGED <<sources, buckets, anomalies>>
            \/ /\ r.src \in DOMAIN sources /\ r.kind \in AllowedKinds
               /\ r.observations <= 0
               /\ anomalies' = anomalies + 1
               /\ UNCHANGED <<sources, buckets, rejected>>
            \/ /\ r.src \in DOMAIN sources /\ r.kind \in AllowedKinds
               /\ r.observations > 0
               /\ buckets' = Put(buckets, <<r.src, r.kind>>,
                    [observations |-> r.observations,
                     dominated |-> r.dominated])
               /\ sources' = [sources EXCEPT ![r.src].total = @ + r.observations]
               /\ UNCHANGED <<rejected, anomalies>>
    /\ UNCHANGED <<export, phase, items, drops, zoneNames, zoneObs, cells,
                   zoneEntities, projection>>

\* The published drop carries its bucket's denominator and is dominated when
\* either of the two samples is.
DropOf(r, b) ==
    LET dominated == b.dominated \/ r.dominated
    IN [src |-> r.src, kind |-> r.kind, item |-> r.item, drops |-> r.drops,
        quantity |-> r.quantity, observations |-> b.observations,
        confidence |-> ConfidenceFor(b.observations, dominated),
        rated |-> ConfidenceFor(b.observations, dominated) # "insufficient",
        dominated |-> dominated]

DropRow ==
    /\ phase = "drops"
    /\ \E r \in pending :
         LET known == <<r.src, r.kind>> \in DOMAIN buckets
                        /\ r.item \in DOMAIN items
         IN /\ pending' = pending \ {r}
            /\ \/ /\ ~known
                  /\ rejected' = rejected + 1 /\ UNCHANGED <<drops, anomalies>>
               \/ /\ known
                  /\ DropMisfits(r, buckets[<<r.src, r.kind>>].observations)
                  /\ anomalies' = anomalies + 1 /\ UNCHANGED <<drops, rejected>>
               \/ /\ known
                  /\ ~DropMisfits(r, buckets[<<r.src, r.kind>>].observations)
                  /\ drops' = drops \cup {DropOf(r, buckets[<<r.src, r.kind>>])}
                  /\ UNCHANGED <<rejected, anomalies>>
    /\ UNCHANGED <<export, phase, items, sources, buckets, zoneNames, zoneObs,
                   cells, zoneEntities, projection>>

\* The rows the ratios are taken over: locations are not among them.
InputEntities(e) == RowCount(e) - Cardinality(e.locations)

TooMany(n, percent) == n * 100 > percent * InputEntities(export)

\* The fail-closed ratios; then sources without a bucket are deleted and the
\* others are indexable when their buckets together hold enough observations.
CheckRatios ==
    /\ phase = "drops" /\ pending = {}
    /\ IF \/ InputEntities(export) = 0
          \/ TooMany(rejected, RejectedPercent)
          \/ TooMany(anomalies, AnomalyPercent)
         THEN ThrowError /\ UNCHANGED sources
         ELSE /\ phase' = "locations" /\ pending' = export.locations
              /\ sources' = [s \in {b[1] : b \in DOMAIN buckets} |->
                   [sources[s] EXCEPT !.indexable =
                      sources[s].total >= MinForRate]]
    /\ UNCHANGED <<export, items, buckets, drops, rejected, anomalies,
                   zoneNames, zoneObs, cells, zoneEntities, projection>>

\* A location of an unpublished bucket is dropped without being counted.
LocationRow ==
    /\ phase = "locations"
    /\ \E r \in pending :
         LET bucket == <<r.src, r.kind>>
             fits == bucket \in DOMAIN buckets
         IN /\ pending' = pending \ {r}
            /\ \/ /\ ~fits
                  /\ UNCHANGED <<rejected, anomalies, zoneNames, zoneObs, cells>>
               \/ /\ fits /\ OffMap(r)
                  /\ anomalies' = anomalies + 1
                  /\ UNCHANGED <<rejected, zoneNames, zoneObs, cells>>
               \/ /\ fits /\ ~OffMap(r) /\ r.zone = BadName
                  /\ rejected' = rejected + 1
                  /\ UNCHANGED <<anomalies, zoneNames, zoneObs, cells>>
               \/ /\ fits /\ ~OffMap(r) /\ r.zone # BadName
                  /\ zoneNames' = Bump(zoneNames, <<r.map, r.zone>>, r.observations)
                  /\ zoneObs' = Bump(zoneObs, <<r.map, bucket>>, r.observations)
                  /\ cells' = Bump(cells, <<bucket, r.map, r.subzone,
                                            Quantized(r.x)>>, r.observations)
                  /\ UNCHANGED <<rejected, anomalies>>
    /\ UNCHANGED <<export, phase, items, sources, buckets, drops, zoneEntities,
                   projection>>

\* Mutant: a source seen through a second bucket is counted anew.
AddSourceAnew(f, key, kind, n) ==
    Put(f, key, [kinds |-> {kind}, observations |-> n])

\* One bucket seen in one zone: its source was observed there, and every item
\* it drops is associated with the zone through that source.
AddSource(f, key, kind, n) ==
    Put(f, key, IF key \in DOMAIN f
                  THEN [kinds |-> f[key].kinds \cup {kind},
                        observations |-> f[key].observations + n]
                  ELSE [kinds |-> {kind}, observations |-> n])

AddItem(f, key, kind, src) ==
    Put(f, key, IF key \in DOMAIN f
                  THEN [kinds |-> f[key].kinds \cup {kind},
                        through |-> f[key].through \cup {src}]
                  ELSE [kinds |-> {kind}, through |-> {src}])

AddItems(f, map, bucket) ==
    LET new == {<<map, d.item>> :
                  d \in {d \in drops : <<d.src, d.kind>> = bucket}}
    IN [k \in DOMAIN f \cup new |->
          IF k \in new THEN AddItem(f, k, bucket[2], bucket[1])[k] ELSE f[k]]

ZoneRow ==
    /\ phase = "zones"
    /\ \E k \in pending :
         LET map == k[1]  bucket == k[2]
         IN /\ pending' = pending \ {k}
            /\ zoneEntities' =
                 [sources |-> AddSource(zoneEntities.sources, <<map, bucket[1]>>,
                                        bucket[2], zoneObs[k]),
                  items |-> AddItems(zoneEntities.items, map, bucket)]
    /\ UNCHANGED <<export, phase, items, sources, buckets, drops, rejected,
                   anomalies, zoneNames, zoneObs, cells, projection>>

-----------------------------------------------------------------------------
(* The rows of the public tables.                                          *)

DropsOf(id) == {d \in drops : d.item = id}

Items == {[item |-> id, name |-> items[id],
           source_count |-> Cardinality({d.src : d \in DropsOf(id)}),
           total_drops |-> Total([d \in DropsOf(id) |-> d.drops], DropsOf(id)),
           indexable |-> \E d \in DropsOf(id) : d.confidence # "insufficient"] :
            id \in {d.item : d \in drops}}

Sources == {[src |-> s, name |-> sources[s].name,
             total_observations |-> sources[s].total,
             indexable |-> sources[s].indexable] : s \in DOMAIN sources}

Buckets == {[src |-> b[1], kind |-> b[2],
             observations |-> buckets[b].observations,
             confidence |-> ConfidenceFor(buckets[b].observations,
                                          buckets[b].dominated)] :
              b \in DOMAIN buckets}

\* The name most observations gave; between equals, the first in order.
ZoneName(m) ==
    LET given == {k \in DOMAIN zoneNames : k[1] = m}
    IN (CHOOSE k \in given : \A o \in given :
          \/ zoneNames[k] > zoneNames[o]
          \/ zoneNames[k] = zoneNames[o] /\ k[2] <= o[2])[2]

Zones == {[map |-> m, name |-> ZoneName(m),
           observations |-> Total(zoneNames,
                                  {k \in DOMAIN zoneNames : k[1] = m}),
           source_count |-> Cardinality({k \in DOMAIN zoneEntities.sources :
                                           k[1] = m}),
           item_count |-> Cardinality({k \in DOMAIN zoneEntities.items :
                                         k[1] = m})] :
            m \in {k[1] : k \in DOMAIN zoneNames}}

ZoneSources == {[map |-> k[1], src |-> k[2], name |-> sources[k[2]].name,
                 kinds |-> zoneEntities.sources[k].kinds,
                 observations |-> zoneEntities.sources[k].observations] :
                  k \in DOMAIN zoneEntities.sources}

ZoneItems == {[map |-> k[1], item |-> k[2], name |-> items[k[2]],
               kinds |-> zoneEntities.items[k].kinds,
               associated_source_count |->
                 Cardinality(zoneEntities.items[k].through)] :
                k \in DOMAIN zoneEntities.items}

Locations == {[src |-> c[1][1], kind |-> c[1][2], map |-> c[2],
               subzone |-> c[3], x |-> c[4], observations |-> cells[c]] :
                c \in {c \in DOMAIN cells : cells[c] >= MinCell}}

\* Mutant: an item is searched for in every zone of its sources.
SearchItemsOfSources ==
    {[item |-> i.item, kinds |-> {d.kind : d \in DropsOf(i.item)},
      map_ids |-> {k[1] : k \in {k \in DOMAIN zoneEntities.sources :
                                   \E d \in DropsOf(i.item) : d.src = k[2]}},
      observations |-> i.total_drops] : i \in Items}

SearchItems == {[item |-> i.item, kinds |-> {d.kind : d \in DropsOf(i.item)},
                 map_ids |-> {k[1] : k \in {k \in DOMAIN zoneEntities.items :
                                              k[2] = i.item}},
                 observations |-> i.total_drops] : i \in Items}

SearchSources == {[src |-> s.src,
                   kinds |-> {b[2] : b \in {b \in DOMAIN buckets :
                                              b[1] = s.src}},
                   map_ids |-> {k[1] : k \in {k \in DOMAIN zoneEntities.sources :
                                                k[2] = s.src}},
                   observations |-> s.total_observations] : s \in Sources}

Finish ==
    /\ phase = "zones" /\ pending = {}
    /\ phase' = "done"
    /\ projection' = [built |-> TRUE,
         items |-> Items, sources |-> Sources, buckets |-> Buckets,
         drops |-> drops, zones |-> Zones, zone_sources |-> ZoneSources,
         zone_items |-> ZoneItems, locations |-> Locations,
         search_items |-> SearchItems, search_sources |-> SearchSources]
    /\ UNCHANGED <<export, pending, items, sources, buckets, drops, rejected,
                   anomalies, zoneNames, zoneObs, cells, zoneEntities>>

Ended == phase \in {"done", "failed"} /\ UNCHANGED projectionVars

ProjectionNext ==
    \/ BuildProjection \/ NextSection \/ ItemRow \/ SourceRow \/ BucketRow
    \/ DropRow \/ CheckRatios \/ LocationRow \/ ZoneRow \/ Finish \/ Ended

ProjectionSpec == ProjectionInit /\ [][ProjectionNext]_projectionVars
=============================================================================
