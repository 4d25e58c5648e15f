----------------------------- MODULE PublicSite -----------------------------
(***************************************************************************)
(* What the publication pipeline promises the website.  One version of the *)
(* private data is shown at a time.  A publisher replaces it by a version  *)
(* at least as new as any published before; an operator goes back to a     *)
(* version that is still kept; and what is shown is always kept.           *)
(***************************************************************************)
EXTENDS Naturals

VARIABLES
  shown,   \* the version served by web_api, 0 before the first publication
  newest,  \* the newest version ever published
  kept     \* the versions that can be activated again

siteVars == <<shown, newest, kept>>

SiteInit == shown = 0 /\ newest = 0 /\ kept = {}

Publish(v) ==
  /\ v >= newest
  /\ shown' = v
  /\ newest' = v
  /\ v \in kept'
  /\ kept' \subseteq kept \cup {v}

GoBack(v) ==
  /\ v \in kept
  /\ shown' = v
  /\ UNCHANGED <<newest, kept>>

SiteNext == \E v \in kept \cup kept' : Publish(v) \/ GoBack(v)

SiteSpec == SiteInit /\ [][SiteNext]_siteVars
=============================================================================
