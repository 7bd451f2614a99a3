----------------------------- MODULE LinkTable -----------------------------
(***************************************************************************)
(* What the PTM and the ATM link table promise their clients: an instance  *)
(* number names one link from its addition to its deletion, links are      *)
(* committed and deleted one by one, and only a restart empties the table. *)
(***************************************************************************)
CONSTANT Nums
VARIABLES
    new,      \* links that were added and not yet committed
    committed \* links that were committed

linkVars == <<new, committed>>

Init == new = {} /\ committed = {}

Add(n) ==
    n \notin new \union committed /\ new' = new \union {n} /\ UNCHANGED committed

Commit(n) ==
    n \in new /\ new' = new \ {n} /\ committed' = committed \union {n}

Delete(n) ==
    /\ n \in new \union committed
    /\ new' = new \ {n} /\ committed' = committed \ {n}

Restart == new' = {} /\ committed' = {}

Next == Restart \/ \E n \in Nums : Add(n) \/ Commit(n) \/ Delete(n)

Spec == Init /\ [][Next]_linkVars
=============================================================================
