-------------------------------- MODULE EventLives --------------------------------
(* What the ingest of sources promises about events. An item of a source is stored as one  *)
(* event, by a commit that stores a batch of them and that no enrichment has run ahead of.  *)
(* The enrichment of an event is published at most once, on its own or with a batch whose   *)
(* leads are matched when all of its chains are through. Rows and publications stay.        *)
EXTENDS Integers

CONSTANTS
    Ids,    \* identities of event rows
    Item    \* Item[e]: the item a row stands for

VARIABLES
    rows,     \* stored events
    chains,   \* chains[e]: enrichment chains published for an event
    chords    \* batches published with match_leads as callback

LivesInit ==
    /\ rows = {}
    /\ chains = [e \in Ids |-> 0]
    /\ chords = {}

Store(E) ==
    /\ rows' = rows \union E
    /\ \A e \in E : chains[e] = 0 /\ \A f \in rows' : Item[e] = Item[f] => e = f
    /\ UNCHANGED <<chains, chords>>

(* An event whose row was lost at the end of its savepoint may be among them: its *)
(* enrichment finds nothing, then and later.                                      *)
Enrich(E) ==
    /\ \A e \in E : chains[e] = 0
    /\ chains' = [e \in Ids |-> IF e \in E THEN 1 ELSE chains[e]]
    /\ chords' \in {chords, chords \union {E}}
    /\ UNCHANGED rows

LivesNext == \E E \in SUBSET Ids : Store(E) \/ Enrich(E)

LivesSpec == LivesInit /\ [][LivesNext]_<<rows, chains, chords>>
====================================================================================
