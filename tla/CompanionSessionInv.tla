------------------------ MODULE CompanionSessionInv ------------------------
(***************************************************************************)
(* The inductive invariant behind the Companion's stored sessions: what the *)
(* server's issues, the files of the three slots and the sessions held in   *)
(* memory keep true between two operations.                                *)
(***************************************************************************)
EXTENDS CompanionSession

Marker == [kind : {"none", "anonymous", "registered"}, rejected : BOOLEAN]
Unwritten == [cred : Nat, replaced : Nat]
Memory == [held : [Kept -> Unwritten], verified : Account \cup {NoUser}]

(* An issue belongs to the session of an earlier one or opens its own; a    *)
(* session has one user, and an anonymous user one session.                 *)
IssuesOK(i) ==
    /\ i \in Seq([sid : Nat, user : Account \cup Nat])
    /\ Len(i) <= MaxIssued
    /\ \A c \in 1 .. Len(i) : i[c].sid \in 1 .. c /\ i[c].user \in Account \cup {i[c].sid}
    /\ \A c, d \in 1 .. Len(i) : i[c].sid = i[d].sid => i[c].user = i[d].user

(* The credentials a reader of the slot could come to use: of any file.     *)
Readable(s) == {c \in {s.main, s.bak} \cup s.tmp : c > 0}

Fits(i, r, c) ==
    /\ c \in 1 .. Len(i)
    /\ r = "legacy" => KindOf(i, c) = "anonymous"
    /\ r = "pending" => KindOf(i, c) = "registered"

(* Every generation on disk was issued and is of the kind its slot is for,  *)
(* and the preserved slot never mixes two identities.                       *)
SlotOK(i, r, s) ==
    /\ s \in Slot
    /\ \A c \in Readable(s) : Fits(i, r, c)
    /\ r = "legacy" => \A c, d \in Readable(s) : UserOf(i, c) = UserOf(i, d)

VaultOK(i, v) ==
    /\ v \in [Role -> Slot]
    /\ \A r \in Role : SlotOK(i, r, v[r])

(* A held session continues the one whose credential it replaced.           *)
HeldOK(i, r, h) ==
    h = NotHeld \/ /\ Fits(i, r, h.cred) /\ Fits(i, r, h.replaced)
                   /\ h.replaced <= h.cred
                   /\ i[h.cred].sid = i[h.replaced].sid

MemoryOK(i, m) ==
    /\ m \in [Process -> Memory]
    /\ \A p \in Process, r \in Kept : HeldOK(i, r, m[p].held[r])

SessionInv ==
    /\ IssuesOK(issued)
    /\ alive \subseteq 1 .. Len(issued)
    /\ VaultOK(issued, vault)
    /\ MemoryOK(issued, memory)
    /\ faults \in 0 .. MaxFaults
    /\ reported \subseteq 1 .. Len(issued)
============================================================================
