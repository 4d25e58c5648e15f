----------------------------- MODULE ProjectionInv -----------------------------
(***************************************************************************)
(* The inductive invariant behind what a projection promises: at every     *)
(* point of the five loops and of the one over the zones, each table is a  *)
(* function of the rows read so far, whatever order they came in.          *)
(***************************************************************************)
EXTENDS SitePages

\* The rows of a section that have been read.
ReadOf(rows, section, before) ==
    IF phase \in before THEN {}
    ELSE IF phase = section THEN rows \ pending ELSE rows

ItemsRead == ReadOf(export.items, "items", {"entry"})
SourcesRead == ReadOf(export.sources, "sources", {"entry", "items"})
BucketsRead == ReadOf(export.buckets, "buckets", {"entry", "items", "sources"})
DropsRead ==
    ReadOf(export.drops, "drops", {"entry", "items", "sources", "buckets"})
\* The ratios are taken between the drops and the locations.
Counting == phase \in {"entry", "items", "sources", "buckets", "drops"}
LocationsRead == IF Counting THEN {} ELSE ReadOf(export.locations, "locations", {})
ZonesRead == IF phase = "done" THEN DOMAIN zoneObs
             ELSE IF phase = "zones" THEN DOMAIN zoneObs \ pending ELSE {}

ItemsTaken == GoodItems(export) \cap ItemsRead
SourcesTaken == GoodSources(export) \cap SourcesRead
BucketsTaken == GoodBuckets(export) \cap BucketsRead
DropsTaken == GoodDrops(export) \cap DropsRead
LocationsTaken == GoodLocations(export) \cap LocationsRead

\* The rows left to read are rows of the section being read.
PendingInv ==
    /\ phase = "items" => pending \subseteq export.items
    /\ phase = "sources" => pending \subseteq export.sources
    /\ phase = "buckets" => pending \subseteq export.buckets
    /\ phase = "drops" => pending \subseteq export.drops
    /\ phase = "locations" => pending \subseteq export.locations
    /\ phase = "zones" => pending \subseteq DOMAIN zoneObs

PhaseInv ==
    /\ export \in Exports
    /\ phase \in {"entry", "items", "sources", "buckets", "drops", "locations",
                  "zones", "done", "failed"}

\* The run has failed exactly when the export is to be refused.
VerdictInv ==
    /\ phase = "failed" => Refused(export)
    /\ phase \notin {"entry", "failed"} =>
         export.valid /\ export.version = 1 /\ ~(RowCount(export) > MaxRows)
    /\ phase \in {"locations", "zones", "done"} => ~Refused(export)

ItemTable ==
    /\ DOMAIN items = {r.item : r \in ItemsTaken}
    /\ \A r \in ItemsTaken : items[r.item] = r.name

SampleOf(src) == Observations({b \in BucketsTaken : b.src = src})
SourceTable ==
    /\ DOMAIN sources = IF Counting THEN {r.src : r \in SourcesTaken}
                        ELSE {b.src : b \in BucketsTaken}
    /\ \A r \in SourcesTaken : r.src \in DOMAIN sources =>
         sources[r.src] =
           [name |-> r.name, total |-> SampleOf(r.src),
            indexable |-> ~Counting /\ SampleOf(r.src) >= MinForRate]

BucketTable ==
    /\ DOMAIN buckets = {KeyOf(b) : b \in BucketsTaken}
    /\ \A b \in BucketsTaken :
         buckets[KeyOf(b)] = [observations |-> b.observations,
                              dominated |-> b.dominated]

DropTable == drops = {DropOf(d, buckets[KeyOf(d)]) : d \in DropsTaken}

\* What the ratios will be taken of.
ItemsRefused == ItemsRead \ GoodItems(export)
SourcesRefused == SourcesRead \ GoodSources(export)
BucketsRefused == BucketsRead \ PublishedBuckets(export)
DropsRefused == DropsRead \ PublishedDrops(export)
BucketsOdd == BucketsRead \cap (PublishedBuckets(export) \ GoodBuckets(export))
DropsOdd == DropsRead \cap (PublishedDrops(export) \ GoodDrops(export))
CountsInv ==
    Counting =>
      /\ rejected = Cardinality(ItemsRefused) + Cardinality(SourcesRefused)
                      + Cardinality(BucketsRefused) + Cardinality(DropsRefused)
      /\ anomalies = Cardinality(BucketsOdd) + Cardinality(DropsOdd)

\* The observations of the rows of S, by what key says of each.
GroupedBy(key, S) ==
    [k \in {key[r] : r \in S} |-> Observations({r \in S : key[r] = k})]

NameKey == [l \in export.locations |-> <<l.map, l.zone>>]
PlaceKey == [l \in export.locations |-> <<l.map, KeyOf(l)>>]
CellKey == [l \in export.locations |->
              <<KeyOf(l), l.map, l.subzone, Quantized(l.x)>>]

LocationTables ==
    /\ zoneNames = GroupedBy(NameKey, LocationsTaken)
    /\ zoneObs = GroupedBy(PlaceKey, LocationsTaken)
    /\ cells = GroupedBy(CellKey, LocationsTaken)

\* The buckets seen in a zone that are a source's, or that drop an item.
SourcePlaces(Z, m, src) == {z \in Z : z[1] = m /\ z[2][1] = src}
ItemPlaces(Z, m, id) ==
    {z \in Z : z[1] = m /\ \E d \in drops : KeyOf(d) = z[2] /\ d.item = id}

SourceEntries(Z) ==
    [k \in {<<z[1], z[2][1]>> : z \in Z} |->
       [kinds |-> {z[2][2] : z \in SourcePlaces(Z, k[1], k[2])},
        observations |-> Total(zoneObs, SourcePlaces(Z, k[1], k[2]))]]
ItemEntries(Z) ==
    [k \in {<<p[1][1], p[2].item>> :
              p \in {p \in Z \X drops : KeyOf(p[2]) = p[1][2]}} |->
       [kinds |-> {z[2][2] : z \in ItemPlaces(Z, k[1], k[2])},
        through |-> {z[2][1] : z \in ItemPlaces(Z, k[1], k[2])}]]

ZoneTables == zoneEntities = [sources |-> SourceEntries(ZonesRead),
                              items |-> ItemEntries(ZonesRead)]

PublicTables ==
    [built |-> TRUE,
     items |-> Items, sources |-> Sources, buckets |-> Buckets,
     drops |-> drops, zones |-> Zones, zone_sources |-> ZoneSources,
     zone_items |-> ZoneItems, locations |-> Locations,
     search_items |-> SearchItems, search_sources |-> SearchSources]

RowTables == ItemTable /\ SourceTable /\ BucketTable /\ DropTable

ProjectionInv ==
    /\ PhaseInv /\ VerdictInv
    /\ phase # "failed" => /\ PendingInv /\ CountsInv /\ RowTables
                           /\ LocationTables /\ ZoneTables
    /\ phase = "done" => projection = PublicTables
=============================================================================
