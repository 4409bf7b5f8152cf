----------------------------- MODULE FidPlaces ------------------------------
(***************************************************************************)
(* What a 9P client may believe of its fids: each stands at a place, a     *)
(* path of names from the root of the tree.  Only the requests that name a *)
(* fid move it, one name at a time, or a rename above the place.           *)
(***************************************************************************)
EXTENDS SequencesExt

CONSTANTS Fids, Names, DotDot,
          Walks,      \* the sequences of names a Twalk may carry
          Nowhere     \* the place of a fid that is not in use

VARIABLES place,      \* where each fid is
          walking     \* the walk being answered: fid, new, left; or Nowhere

Init ==
  /\ place = [f \in Fids |-> Nowhere]
  /\ walking = Nowhere

Attach(f) ==
  /\ walking = Nowhere
  /\ place[f] = Nowhere
  /\ place' = [place EXCEPT ![f] = <<>>]
  /\ UNCHANGED walking

\* A walk starts a new fid where the old one is, or moves the old one.
Walk(f, n, names) ==
  /\ walking = Nowhere
  /\ place[f] # Nowhere
  /\ place' = [place EXCEPT ![n] = place[f]]
  /\ walking' = [fid |-> n, new |-> n # f, left |-> names]

WalkName ==
  /\ walking # Nowhere
  /\ walking.left # <<>>
  /\ LET f == walking.fid
         n == Head(walking.left)
     IN \/ n = DotDot /\ place[f] # <<>> /\ place' = [place EXCEPT ![f] = Front(@)]
        \/ n # DotDot /\ place' = [place EXCEPT ![f] = Append(@, n)]
  /\ walking' = [walking EXCEPT !.left = Tail(@)]

\* A new fid is kept only if it got all the way.
WalkEnd ==
  /\ walking # Nowhere
  /\ place' = [place EXCEPT ![walking.fid] =
                 IF walking.new /\ walking.left # <<>> THEN Nowhere ELSE @]
  /\ walking' = Nowhere

Create(f, n) ==
  /\ walking = Nowhere
  /\ place[f] # Nowhere
  /\ place' = [place EXCEPT ![f] = Append(@, n)]
  /\ UNCHANGED walking

Clunk(f) ==
  /\ walking = Nowhere
  /\ place[f] # Nowhere
  /\ place' = [place EXCEPT ![f] = Nowhere]
  /\ UNCHANGED walking

\* The fid and others at or below its place see the new name.
Rename(f, n) ==
  /\ walking = Nowhere
  /\ place[f] \notin {Nowhere, <<>>}
  /\ \E S \in SUBSET {g \in Fids : place[g] # Nowhere /\ IsPrefix(place[f], place[g])} :
       /\ f \in S
       /\ place' = [g \in Fids |-> IF g \in S
                                     THEN [place[g] EXCEPT ![Len(place[f])] = n]
                                     ELSE place[g]]
  /\ UNCHANGED walking

Next ==
  \/ WalkName \/ WalkEnd
  \/ \E f \in Fids :
       \/ Attach(f) \/ Clunk(f)
       \/ \E n \in Names : Create(f, n) \/ Rename(f, n)
       \/ \E n \in Fids : \E names \in Walks : Walk(f, n, names)

Spec == Init /\ [][Next]_<<place, walking>>
=============================================================================
