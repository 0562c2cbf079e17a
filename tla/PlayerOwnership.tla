--------------------------- MODULE PlayerOwnership ---------------------------
(***************************************************************************)
(* What the games promise together about a player's data: one game at a    *)
(* time owns it.  The owner takes it as it is stored, is the only one that *)
(* changes and saves it, and the next owner can take it only after it has  *)
(* let go.  What an owner has not saved is lost when it does.              *)
(***************************************************************************)
CONSTANTS Games, Players, Updates, Absent

VARIABLES
    owners,     \* the games that have the data of each player
    data,       \* the updates in the data its owner has
    stored      \* the updates in the data that is stored, Absent for a new player

ownershipVars == <<owners, data, stored>>

OwnershipInit ==
    /\ owners = [p \in Players |-> {}]
    /\ data = [p \in Players |-> {}]
    /\ stored = [p \in Players |-> Absent]

\* A player without an owner gets one, a new player gets default data.
Take(g, p) ==
    /\ owners[p] = {}
    /\ owners' = [owners EXCEPT ![p] = {g}]
    /\ data' = [data EXCEPT ![p] = IF stored[p] = Absent THEN {} ELSE stored[p]]
    /\ UNCHANGED stored

Change(p, u) ==
    /\ owners[p] # {}
    /\ data' = [data EXCEPT ![p] = @ \cup {u}]
    /\ UNCHANGED <<owners, stored>>

Save(p) ==
    /\ owners[p] # {}
    /\ stored' = [stored EXCEPT ![p] = data[p]]
    /\ UNCHANGED <<owners, data>>

\* A game lets go of players it owns: of one when it releases it, of all of
\* them when the process ends.
Drop(g, S) ==
    /\ \A p \in S : owners[p] = {g}
    /\ owners' = [p \in Players |-> IF p \in S THEN {} ELSE owners[p]]
    /\ data' = [p \in Players |-> IF p \in S THEN {} ELSE data[p]]
    /\ UNCHANGED stored

OwnershipNext ==
    \/ \E g \in Games, p \in Players : Take(g, p)
    \/ \E p \in Players, u \in Updates : Change(p, u)
    \/ \E p \in Players : Save(p)
    \/ \E g \in Games, S \in SUBSET Players : Drop(g, S)

OwnershipSpec == OwnershipInit /\ [][OwnershipNext]_ownershipVars
=============================================================================
