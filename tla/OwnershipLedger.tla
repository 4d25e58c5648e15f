--------------------------- MODULE OwnershipLedger ---------------------------
(***************************************************************************)
(* What the ownership claim protocol promises: an installation has one     *)
(* owner at a time; ownership moves only by a code its present owner       *)
(* issued, once per code, never to that owner; a code issued earlier dies  *)
(* with the next one; only the latest move can be undone.                  *)
(***************************************************************************)
CONSTANTS Installations, Users, Codes, None

VARIABLES
  owner,    \* the owner of each installation
  state,    \* of each code: unissued, open, spent or void
  covers,   \* the installation each code was issued for
  from,     \* the owner who issued it
  movedBy   \* the code the present owner came by, if any

vars == <<owner, state, covers, from, movedBy>>

Init ==
  /\ owner = [i \in Installations |-> None]
  /\ state = [c \in Codes |-> "unissued"]
  /\ covers = [c \in Codes |-> None]
  /\ from = [c \in Codes |-> None]
  /\ movedBy = [i \in Installations |-> None]

\* The first upload makes the uploader the owner.
Adopt(i, u) ==
  /\ owner[i] = None
  /\ owner' = [owner EXCEPT ![i] = u]
  /\ UNCHANGED <<state, covers, from, movedBy>>

Issue(c, i) ==
  /\ state[c] = "unissued"
  /\ owner[i] # None
  /\ state' = [d \in Codes |->
       IF d = c THEN "open"
       ELSE IF state[d] = "open" /\ covers[d] = i THEN "void" ELSE state[d]]
  /\ covers' = [covers EXCEPT ![c] = i]
  /\ from' = [from EXCEPT ![c] = owner[i]]
  /\ UNCHANGED <<owner, movedBy>>

Void(c) ==
  /\ state[c] = "open"
  /\ state' = [state EXCEPT ![c] = "void"]
  /\ UNCHANGED <<owner, covers, from, movedBy>>

Move(c, u) ==
  LET i == covers[c] IN
  /\ state[c] = "open"
  /\ owner[i] = from[c] /\ u # from[c]
  /\ movedBy[i] = None
  /\ owner' = [owner EXCEPT ![i] = u]
  /\ movedBy' = [movedBy EXCEPT ![i] = c]
  /\ state' = [state EXCEPT ![c] = "spent"]
  /\ UNCHANGED <<covers, from>>

\* The operator undoes the move that made the present owner.
GiveBack(i) ==
  /\ movedBy[i] # None
  /\ owner' = [owner EXCEPT ![i] = from[movedBy[i]]]
  /\ movedBy' = [movedBy EXCEPT ![i] = None]
  /\ UNCHANGED <<state, covers, from>>

Next ==
  \/ \E i \in Installations, u \in Users : Adopt(i, u)
  \/ \E c \in Codes, i \in Installations : Issue(c, i)
  \/ \E c \in Codes : Void(c)
  \/ \E c \in Codes, u \in Users : Move(c, u)
  \/ \E i \in Installations : GiveBack(i)

Spec == Init /\ [][Next]_vars
=============================================================================
