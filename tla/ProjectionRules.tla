--------------------------- MODULE ProjectionRules ----------------------------
(***************************************************************************)
(* What a projection has to be: the rows an export calls for, said of the  *)
(* export alone, and the tables that have to take them                     *)
(* (database/public-read/migrations/0001_public_read_model.sql).           *)
(***************************************************************************)
EXTENDS Projection

SameBucket(r, o) == r.src = o.src /\ r.kind = o.kind

GoodItems(e) == {r \in e.items : ~ItemRefused(r)}
GoodSources(e) == {r \in e.sources : ~SourceRefused(r)}
PublishedBuckets(e) ==
    {b \in e.buckets : b.kind \in AllowedKinds
                         /\ \E s \in GoodSources(e) : s.src = b.src}
GoodBuckets(e) == {b \in PublishedBuckets(e) : b.observations > 0}
PublishedDrops(e) ==
    {d \in e.drops : /\ \E b \in GoodBuckets(e) : SameBucket(d, b)
                     /\ \E i \in GoodItems(e) : i.item = d.item}
GoodDrops(e) ==
    {d \in PublishedDrops(e) :
       \A b \in GoodBuckets(e) : SameBucket(d, b) => ~DropMisfits(d, b.observations)}
GoodLocations(e) ==
    {l \in e.locations : /\ \E b \in GoodBuckets(e) : SameBucket(l, b)
                         /\ ~OffMap(l) /\ l.zone # BadName}

Anomalies(e) == Cardinality(PublishedBuckets(e) \ GoodBuckets(e))
                  + Cardinality(PublishedDrops(e) \ GoodDrops(e))
Rejected(e) == Cardinality(e.items \ GoodItems(e))
                 + Cardinality(e.sources \ GoodSources(e))
                 + Cardinality(e.buckets \ PublishedBuckets(e))
                 + Cardinality(e.drops \ PublishedDrops(e))

Refused(e) == \/ RowCount(e) > MaxRows \/ ~e.valid \/ e.version # 1
              \/ InputEntities(e) = 0
              \/ Rejected(e) * 100 > RejectedPercent * InputEntities(e)
              \/ Anomalies(e) * 100 > AnomalyPercent * InputEntities(e)

Sample(e, r) == Observations({b \in GoodBuckets(e) : SameBucket(r, b)})

ItemsMeant(e) ==
    {[item |-> i.item, name |-> i.name,
      source_count |-> Cardinality({d.src : d \in {d \in GoodDrops(e) :
                                                     d.item = i.item}}),
      total_drops |-> LET looted == {d \in GoodDrops(e) : d.item = i.item}
                      IN Total([d \in looted |-> d.drops], looted),
      indexable |-> \E d \in GoodDrops(e) :
                      d.item = i.item /\ Sample(e, d) >= MinForRate] :
       i \in {i \in GoodItems(e) : \E d \in GoodDrops(e) : d.item = i.item}}

SourcesMeant(e) ==
    {[src |-> s.src, name |-> s.name,
      total_observations |-> Observations({b \in GoodBuckets(e) : b.src = s.src}),
      indexable |-> Observations({b \in GoodBuckets(e) : b.src = s.src})
                      >= MinForRate] :
       s \in {s \in GoodSources(e) : \E b \in GoodBuckets(e) : b.src = s.src}}

\* <<zone, source, kinds, observations>> and <<zone, item, kinds, sources>>
ZoneSourcesMeant(e) ==
    {LET here == {l \in GoodLocations(e) : l.map = k[1] /\ l.src = k[2]}
     IN <<k[1], k[2], {l.kind : l \in here}, Observations(here)>> :
       k \in {<<l.map, l.src>> : l \in GoodLocations(e)}}

ZoneItemsMeant(e) ==
    LET links == {p \in GoodLocations(e) \X GoodDrops(e) : SameBucket(p[1], p[2])}
    IN {LET here == {p \in links : p[1].map = k[1] /\ p[2].item = k[2]}
        IN <<k[1], k[2], {p[1].kind : p \in here},
             Cardinality({p[1].src : p \in here})>> :
          k \in {<<p[1].map, p[2].item>> : p \in links}}

CellsMeant(e) ==
    {LET here == {l \in GoodLocations(e) :
                    /\ SameBucket(l, k) /\ l.map = k.map
                    /\ l.subzone = k.subzone /\ Quantized(l.x) = k.x}
     IN [k EXCEPT !.observations = Observations(here)] :
       k \in {[src |-> l.src, kind |-> l.kind, map |-> l.map,
               subzone |-> l.subzone, x |-> Quantized(l.x),
               observations |-> 0] : l \in GoodLocations(e)}}

\* A zone is called what most of its observations call it.
NameMeant(e, z) ==
    LET votes(n) == Observations({l \in GoodLocations(e) :
                                    l.map = z.map /\ l.zone = n})
    IN \A l \in GoodLocations(e) :
         l.map = z.map => /\ votes(l.zone) <= votes(z.name)
                          /\ votes(l.zone) = votes(z.name) => z.name <= l.zone

(* The projection depends on the export alone, not on the order its rows   *)
(* come in, and a refused row leaves no trace in it: totals, counts, zone  *)
(* associations and cells are those of the accepted rows, and the run      *)
(* fails exactly when the refused ones are too many.  The content hash     *)
(* that decides whether anything is published relies on it.                *)
PublishesWhatRowsSay ==
    /\ phase = "failed" => Refused(export)
    /\ phase = "done" =>
         /\ ~Refused(export)
         /\ projection.items = ItemsMeant(export)
         /\ projection.sources = SourcesMeant(export)
         /\ {<<z.map, z.src, z.kinds, z.observations>> :
               z \in projection.zone_sources} = ZoneSourcesMeant(export)
         /\ {<<z.map, z.item, z.kinds, z.associated_source_count>> :
               z \in projection.zone_items} = ZoneItemsMeant(export)
         /\ projection.locations =
              {c \in CellsMeant(export) : c.observations >= MinCell}
         /\ \A z \in projection.zones : NameMeant(export, z)

-----------------------------------------------------------------------------
(* The public schema.                                                      *)

KeyOf(r) == <<r.src, r.kind>>
Unique(rows, Key(_)) == \A r, o \in rows : Key(r) = Key(o) => r = o

TablesTake(p) ==
    /\ Unique(p.items, LAMBDA r : r.item) /\ Unique(p.sources, LAMBDA r : r.src)
    /\ Unique(p.buckets, KeyOf)
    /\ Unique(p.drops, LAMBDA r : <<KeyOf(r), r.item>>)
    /\ Unique(p.zones, LAMBDA r : r.map)
    /\ Unique(p.zone_sources, LAMBDA r : <<r.map, r.src>>)
    /\ Unique(p.zone_items, LAMBDA r : <<r.map, r.item>>)
    /\ Unique(p.locations,
              LAMBDA r : <<KeyOf(r), r.map, r.subzone, r.x>>)
    \* foreign keys
    /\ {b.src : b \in p.buckets} \subseteq {s.src : s \in p.sources}
    /\ {KeyOf(d) : d \in p.drops \cup p.locations}
         \subseteq {KeyOf(b) : b \in p.buckets}
    /\ {d.item : d \in p.drops} \subseteq {i.item : i \in p.items}
    /\ {r.map : r \in p.zone_sources \cup p.zone_items \cup p.locations}
         \subseteq {z.map : z \in p.zones}
    \* checks
    /\ \A r \in p.items \cup p.sources \cup p.zones : r.name # BadName
    /\ \A i \in p.items : i.item > 0 /\ i.total_drops >= 0
    /\ \A r \in p.buckets \cup p.zones \cup p.zone_sources \cup p.locations :
         r.observations > 0
    /\ \A d \in p.drops :
         /\ d.drops > 0 /\ d.quantity >= d.drops /\ d.observations >= d.drops
         /\ (d.confidence = "insufficient") = ~d.rated
    /\ \A z \in p.zone_items : z.associated_source_count > 0
    /\ \A l \in p.locations : l.x \in 0 .. MaxPosition

\* finalize_publication's own checks, but for an empty projection.
FinalizeTakes(p) ==
    /\ \A i \in p.items : \E d \in p.drops : d.item = i.item
    /\ \A s \in p.sources : \E b \in p.buckets : b.src = s.src
    /\ \A d \in p.drops, b \in p.buckets :
         KeyOf(d) = KeyOf(b) => d.observations = b.observations

(* No projection the builder lets through is refused by the public         *)
(* database: whatever rows the export lost, every key is unique, every     *)
(* reference resolves, every CHECK holds and so do the checks of           *)
(* finalize_publication, so one bad row cannot block publishing.           *)
FitsPublicSchema ==
    phase = "done" => TablesTake(projection) /\ FinalizeTakes(projection)
=============================================================================
